# Bulk import/export service: TLA+ models, checks and proofs

The program is a Go HTTP service (Gin, GORM, PostgreSQL, S3) that adds bulk import and
export of users, articles and comments to the RealWorld example API. This directory
holds TLA+ modules of its concurrent and failure-prone parts, TLC runs that check them
on small instances and TLAPS proofs that hold for every instance.

## 1. Inventory of the system

| part | source | state | operations |
|---|---|---|---|
| submission handlers | `jobs/routers.go` (`CreateImportJob`), `routers/exports.go` (`AsyncExport`) | local variables of each request; one row in `jobs`; one object in the bucket | look the Idempotency-Key up, validate, upload, create the row, answer |
| queue and worker | `jobs/worker/dispatcher.go`, `jobs/worker/processor.go` (`executeJob`), `jobs/models.go`, `main.go` | the `jobs` table (status, keys, counters); one worker goroutine per process and its `Job` struct | poll and claim in a transaction (`FOR UPDATE SKIP LOCKED`), run, save the end |
| importer | `jobs/core/importer.go` | reader, batch, caches, counters, error file | read a record, look references up, flush a batch with retry, one transaction per article, upload the error report |
| exporter | `jobs/core/exporter.go`, `processExport`, `SyncExport` | open query, pipe, variables shared by goroutine and worker, object | count, stream, upload, conclude; or stream into the response |
| status routes | `routers/jobs.go`, `jobs/routers.go` | none | read one row, presign a link |
| articles API | `articles/*.go` | articles, tags, comments, favourites, article users (an `ArticleUserModel` row per author, made at the first need) | create, list, feed, update, delete, favourite, comment |
| users API | `users/*.go` | users, follows, the context of a request (`my_user_model`, a copy of the caller's row) | register, log in, update, follow, unfollow |
| start-up | `main.go`, `common/*.go` | global clients | connect with retries, migrate, start the worker and the server |

How they meet. A handler and a worker share only the `jobs` table and the bucket. Workers
of several processes share the table and rely on row locks. The worker calls the importer
or the exporter inside its polling loop, so one job runs at a time in a process. In an
export a goroutine writes and the worker's `PutObject` reads an unbuffered `io.Pipe`,
and two variables of the worker are written by the goroutine without a lock. Imports,
exports and the REST handlers share the tables of users, articles and comments.

What is hard: claims racing between processes; the gap between the key's lookup and the
row; crashes, lost acknowledgements and ignored errors at each database call; retries of
statements that may have committed; readers that repeat an error; a goroutine and an
upload that each may stop first; REST handlers that check with one statement and write with
another, drop errors, and carry copies of rows that others change; unique indexes that make
transactions wait for each other, and tables that should have one. `PROJECT.json` lists these hazards line by line.

What makes each part correct:
- handlers: an answer is true, a key names at most one job, a job in the table has its file;
- queue: one owner per job, at most one execution, statuses only advance, no save loses
  another's write, a failure costs at most one job, everything submitted settles;
- importer: no row twice, every record taken is counted, no silent loss without a failure,
  the report matches the counters, well-formed files end;
- exporter: a completed object is a whole file with exactly the rows the job counts,
  connections come back, the error blamed is the right one, the worker never blocks;
- articles and users: only an author changes an article, nobody is refused wrongly, updates
  that follow each other add up, the last password that could be hashed holds, a relation is as the last answer
  said, duplicates come from overlapping requests alone, feeds, lists and exports with a
  filter have the rows they should, a request without a user writes nothing.

## 2. Plan

In order of importance; all but what is marked as left exists.

1. `JobLifecycle` - abstract specification: what the queue promises about a job.
2. `JobQueue` - handlers, table, bucket, workers, crashes; refines `JobLifecycle`.
   `MCJobQueue` adds the symmetry of its instances.
3. `JobQueueProofs` - the inductive invariant of `JobQueue`, its safety theorems and the
   refinement theorem.
4. `ImportJob` - one import in detail; `ImportProofs`, its theorems.
5. `ExportJob` - one export in detail, through the pipe or to an HTTP client;
   `ExportProofs`, its theorems.
6. `ArticleImport` - the statements of article transactions of imports and handlers on
   shared slugs and tags: waits, unique violations, deadlocks. `MCArticleImport` has its
   records, `ArticleImportProofs` its theorems.
7. `Accounts` - requests on users and follows; `Articles` extends it with the handlers of
   the articles package, the importer's article and the exports whose filter looks a row
   up. `MCArticles` has small databases and the calls made on them.
8. `ArticlesProofs` - the inductive invariant of `Articles` and its safety theorems.
9. `OrderProofs` - what an answer says of later states: exports of an article's comments,
   updates, relations. `FeedProofs` (feeds and lists) and `RaceProofs` (passwords and second
   rows) extend it.
10. (left) Lists by tag and of everything, with paging over a table that changes.
11. (left) What a file exported here means when it is imported again.

`JobQueue` abstracts an import to OpenSource, then FinishImport or HangImport, and an
export to StartExport, then FinishExport or FailExport; `ImportJob` and `ExportJob` are
what happens between. They are separate modules because the parts share no state but the
job struct, which only its worker touches while the job runs. `ImportJob` takes the
transaction of an article as one step; `ArticleImport` is that step among other writers, and
`Articles` has it once more as one request among those of the REST API, because there the
question is whose article it becomes.

## 3. The modules and the code

### JobQueue
A step is one call to PostgreSQL or S3 together with the Go code up to the next one.

| TLA+ | code |
|---|---|
| `jobs[j]` | the row of job j; ABSENT when there is none |
| `pc`, `idemKey`, `objKey`, `response` | a request's place in its handler, its local variables, its answer |
| `wpc`, `cur`, `mem` | a worker's place in `processNextJob`/`executeJob`, and its `Job` struct |
| `source` | whose upload a source object holds: two uploads may choose one name in one second |
| `resultStored` | jobs whose result or error report is in the bucket |
| `ArriveImport`, `ValidateImport`, `Upload`, `Insert` | `CreateImportJob` |
| `ArriveExport`, `Insert` | `AsyncExport` |
| `Poll`, `Claim` | the transaction of `processNextJob`: the select that locks, the save with commit |
| `OpenSource`, `FinishImport`, `HangImport` | `ProcessImport` |
| `StartExport`, `FinishExport` | `processExport`, with the save of the estimate |
| `Finish` | the last `db.Save` of `executeJob` |
| `...Fails`, `Crash`, `Restart` | the same calls failing; a process dying and starting |

A failing statement may or may not have taken effect: a lost acknowledgement is a case of
every `...Fails` action. A form whose file cannot be opened is answered 500 before anything
is stored, which is one of the outcomes of `UploadFails`. A failed count or save of the estimate has no effect on what the
model keeps. A crash rolls the open claim back and leaves the row of a running job as it
is; no code touches it later. `attempts` and `consumed` are history.
`response` is what the handler sends; whether it reaches the client is not modelled, nor that
a process may die between the commit of a row and the answer about it.
The format check of `processExport` cannot fail for rows `AsyncExport` wrote, so it has
no action. GORM's primary keys are the jobs' names.

### JobLifecycle
Phases absent, queued, running, completed, failed and lost. `JobQueue!Phase` maps a row in
PROCESSING to running when some worker executes the job and to lost otherwise.

### ImportJob
A file is a sequence of records classified by what becomes of them in the code (good,
blank, mistyped, garbled, long, refused), a format and an ending (proper, truncated,
dropped connection). `Skip` is every `continue` and early return; `DecoderStuck` the
`continue` on an error that a decoder repeats; `ScannerError` the return from the NDJSON
loop without a last flush. `FlushUsers` ignores the INSERT's error as the code does;
`FlushComments` and `RetryComments` are `saveBatchWithRetry`, including that a batch's
structs keep the primary keys of an attempt that was reported as failed (`keyed`). A
reference of a record is one key: for a comment it stands for its article and its author.
The article transaction is one step. Files are chosen in `Init` and never change.

### ExportJob
One export. `via = "pipe"` is `processExport` with its goroutine and `PutObject`;
`via = "http"` is `SyncExport`. Output is a sequence of pieces: records and punctuation.
`buffer` holds what was written and not yet read: a pipe write returns when its bytes are
read, so nothing more is rendered before, except through the `csv.Writer`, which may hold
records back. The order of "set rowCount, then close" and "set exportErr, then close with
error" is kept as two steps each. After `UploadFails` nothing reads the pipe any more.
A torn read of `exportErr` cannot change the outcome: the job fails either way, so the
two orders of read and write are all that is modelled. When the upload client refuses a
body that cannot be rewound, that is a failing `PutObject`.

### ArticleImport
A writer is an import of one record or a `POST /articles`. An import is `processOneArticle`:
`Upsert` (the `INSERT ... ON CONFLICT (slug)`), `SelectTag` and `InsertTag` for each tag
(`FirstOrCreate`), `Link` and `Unlink` (`Association.Replace`), `Commit`; every error is a
`Rollback`. A creation is `setTags`, outside any transaction, and `Save` (`SaveOne`).
`FindTags` is the one `SELECT` of the whole list, whose rows are kept in `found`; then the
loop takes a tag of `found` as it is, makes another (`MakeTag`), and fetches it when it
could not be made (`FetchTag`). PostgreSQL is external: READ COMMITTED, an insert
waits (`WaitsFor`) while another open transaction has the same slug or tag, and a circle of
waits is ended by failing one of its statements (`Deadlocked`).

### Accounts and Articles
A request is a process, its database statements are its steps, and everything between two
statements belongs to the first of them.

| TLA+ | code |
|---|---|
| `users`, `follows`, `articleUsers`, `articles`, `favorites`, `comments` | the tables; the n-th row has the id n, `live` is `deleted_at` |
| `call` | method, path, body and the id in the token |
| `pc`, `got`, `answer` | where the handler stands, what its statements have read (`my_user_model`, the row of the path, the `ArticleUserModel`), the status |
| `hit`, `before` | history: requests with a failed statement; the requests answered before this one came |
| `AuthMiddleware` | `AuthMiddleware` and `UpdateContextUserModel`; an unreadable row leaves the zero user |
| `UsersRegistration`, `UsersLogin`, `UserUpdate`, `FindProfile`, `FirstFollow`, `CreateFollow`, `Unfollow` | `users/routers.go` and the models they call |
| `FindOneArticle`, `FindOneComment`, `FirstArticleUser`, `CreateArticleUser` | what most handlers of `articles/routers.go` do first; the two halves of `GetArticleUserModel` |
| `ArticleCreate` ... `ArticleCommentDelete` | the writes, with what `Save` adds for an author without id |
| `FeedFollowings`, `FeedAuthors`, `FeedArticles` | `GetArticleFeed` |
| `FindListed`, `FindIds`, `FindManyArticle` | `FindManyArticle` by author and by favourite |
| `ArticleSerializer` | the `GetArticleUserModel` of the serializers, which may make a row while reading |
| `ImportArticle` | `processOneArticle`, with its author |
| `FindFilter`, `ExportRows` | `StreamExport` with `author` or `article` |

`FirstOrCreate` is two steps with anything in between, and a condition on the zero id is
left out of the query, as GORM does. A statement that fails has no effect here (the lost
acknowledgement is in `ArticleImport` and `JobQueue`). A lookup of the serializer in a
handler that has its `ArticleUserModel` finds that row again and is part of the last step.
A call is a body that its validator binds: one that is refused (422) changes nothing.

A password is a name, and `BcryptKey` says what bcrypt reads of it, its first 72 bytes. The
column `password` has the hash, which stands for that key. `Hash` is `setPassword`, whose error
is dropped: a password over 72 bytes (`TooLong`; the form allows 255), and the one that
stands for none given (`RandomPassword`), leave the hash empty. `UsersRegistration` inserts
the empty hash and answers 201; `UserUpdate` leaves the old one, because `Updates` skips an
empty field, and answers 200. `UsersLogin` compares keys, of a password of any length, so
an empty hash lets nobody in and a longer password with the same 72 bytes does get in.
A comment with the id 0 is found without a condition, as the first one there is
(`FindOneComment`).

### Mutants
Operators marked "Mutant" are versions of the definition below them with a plausible
mistake (no row lock, no unique index, a missing flush, a swapped order). No action uses
them. They are there to see each property fail when the code is wrong.

## 4. Runs

| run | instance | what it shows |
|---|---|---|
| `queue_safety` | 2 imports, 1 export, 2 processes, 1 key, 1 object name, 2 time stamps, 2 failures of any kind; symmetric | all safety properties of the queue |
| `queue_liveness` | as above with 1 failure, 1 time stamp, one import that hangs | `JobsSettle`, refinement of `JobLifecycle` |
| `queue_restart` (violation) | 1 import, 1 export, 1 process, 1 crash | `RestartSafe` fails: PROCESSING rows are never taken up again |
| `queue_keyless` (violation) | 2 imports, no failure | the second import without key is answered 500 |
| `import` | files of up to 3 records, batch of 2, log limit 1, 2 attempts, 2 failures | all safety properties of an import, and `SoundFileReturns` |
| `import_hang` (violation) | 2 records, no failure | a malformed array never ends |
| `import_independent` (violation) | 2 records, no failure | a refused record takes its batch with it |
| `export` | tables of up to 3 rows, 2 failures | all properties of an export |
| `export_truncated` (violation) | 2 rows, 1 failure | a query that breaks off is reported COMPLETED |
| `article_import` | 3 writers, 2 slugs (one with a row), 3 tags (one there), 1 failure | no mixture of tags, nothing left of a refused record, refusals only over a rival, an answer for everybody |
| `articles` | 3 requests, any calls of one of 4 starts (accounts, feeds, texts, first writes), 1 request with failures; symmetric | all safety properties of the API |
| `export_filters` (violation) | 2 exports over the tables of `Texts`, no failure | neither filter is as documented: an export by author has another author's articles, one by an article that is not there has all comments |

Why the bounds are enough. Two processes and two jobs are what it takes for two claims to
meet; a third job lets one worker be busy while two others race. One key, the empty key
and one object name force collisions. Two failures allow a failure during the handling of
another one (a failed save, then a crash). Three records with batches of two give a full
batch, a batch left over and an empty last batch; two failures use up the attempts of a
batch, and a log limit of one is passed by two errors. Three rows make a header, several
separators and a CSV buffer with several records. In `article_import` two writers hold a tag
each and want the other's while a third waits; the records share tags in both orders,
repeat one, have none, and meet a row that is there. In `articles` a race takes two
requests and a third sees what it left; the properties relate at most three requests. Each
start has the rows that its calls are about, so that three requests reach what would need
five or six from nothing: `Accounts0` updates, logins and an address that two want; `Feeds`
follows, unfollows and a feed; `Texts` an article and a comment of two users who have
written before; `FirstWrites` a user without `ArticleUserModel`. The passwords of `Accounts0` are
one of 72 bytes, a longer one that begins with it, and the one that stands for none. One request with failures
is enough for a dropped error to meet the two others. What does not depend on these bounds is
proved (section 6).

Deadlock checking is off: requests are finite, so a run of the models ends when all are
answered and all jobs have ended or hang.

The violation runs each check a sentence of the documentation against the code; the
sentence is quoted with the property and in `PROJECT.json`. `export_filters` checks two, of
the filters `author` and `article` (`API.md:85` and `:88`), as a disjunction
(`SomeFilterApplies`), so that the one counterexample refutes both. What the filter
`article` does guarantee, for a slug that was found, is `ExportOfFound` in the run `articles`.

`PasswordHolds` says what the code does of passwords over 72 bytes too: they are answered 200
or 201 and take no effect, so the property speaks of the last password that could be
hashed. No document gives a limit, so there is no finding about it; it is in the list of hazards.

## 5. Fairness

- `JobQueue`: weak fairness of each request's next step and of each worker. Handlers are
  goroutines without waiting; `StartWorker` is a loop that polls every second for ever.
  Failures have none: they may happen and never must. `Restart` is weakly fair because a
  service is started again by whoever operates it; the code does nothing about it, and
  `RestartSafe` fails even so.
- `ImportJob`: the importer is one goroutine, so the whole next-state relation is weakly
  fair. A hanging import is a state without a next step.
- `ArticleImport`: each writer is weakly fair. It is a goroutine, PostgreSQL answers a
  statement once nothing is in its way, and ends a deadlock itself.
- `Accounts`, `Articles`: no fairness and no liveness; a handler is a straight line of
  statements, none of which waits for another request for longer than a statement.
- `ExportJob`: the streaming goroutine and the worker are weakly fair, each on its own. An
  HTTP client is not: it may stop reading, and the server sets no write timeout, so no
  liveness is claimed for synchronous exports.

## 6. Proofs

`JobQueueProofs` proves, for any sets of requests, processes, keys, object names and any
number of failures, from `QueueAssumption` alone (requests, processes, keys and nulls are
distinct):

- `TypeCorrect`, `ClaimsAreExclusive`, `ExecutedAtMostOnce`, `SavesLoseNothing`,
  `SubmissionIsIdempotent`, `SourceIsThere`, `ResultsAreHonest`: the invariants;
- `RowsAdvance`: the action property;
- `FaultsStrandOneJob`: k failures leave at most k jobs behind (`OneFaultOneJob`);
- `Implementation`: every step maps to a step or a stutter of `JobLifecycle`.

The invariants are not inductive one by one. `IInv` joins them with two strengthenings.
`HandlerInv` ties a handler to the table and the bucket: a row appears only when its
request is answered, with the request's key, and a request past the upload has its object.
`WorkerInv` ties a worker to its row: it holds a job exactly when it is past its poll, its
struct says what its row will say, and a job not yet claimed has no execution. Then
exclusiveness is an induction on who holds the row: a row held while claiming is locked, a
row held later is not PENDING, so `Poll` can take neither. At most one execution follows
because the only step that counts one leaves PENDING, and no step returns to it. The proof
has one lemma for steps that touch rows by handlers (`SubmissionStep`), one for workers
(`ExecutionStep`), and frame lemmas for the rest. `ResultsAreHonest` adds a second small
invariant about the struct of a worker that is about to save. The refinement goes action
by action: handler steps are `Submit` or stutter, `Claim` is `Start`, `ClaimFails` is
`LoseClaim` or a stutter, saves are `Finish`, failed saves and crashes are `Abandon`.
`FaultsStrandOneJob` counts: the set of stranded jobs is finite, a handler adds nobody to
it, a worker at most the job it holds (`HandlerInv` and `WorkerInv` say that a held job is
not stranded yet), and only in a step that raises `faults`.

`ArticlesProofs` proves, for any tables to start from, any calls, any number of requests
and any number of failures, from `ScenarioAssumption` alone (the tables to start from obey
their foreign keys and the unique index on e-mail, a call has the shape its handler binds,
and one on a route behind `AuthMiddleware(true)` has a token). `PasswordAssumption`, that no
password has the empty key, is what makes an empty hash let nobody in; no proof needs it:

- `InvariantHolds`: the inductive invariant `IInv`;
- `TypeCorrect`: no row ever refers to a row that is not there (`ApiTypeOK`);
- `OutsidersAreRefused`: a 403 is true (`RefusedOnlyOutsiders`);
- `AuthorsDecide`: only authors change articles and comments, but for a delete that had
  nothing to compare (`OwnersDecide`);
- `ZeroUserWritesNothing`: a request without a user writes nothing (`NobodyWrites`).

The difficulty is that a request acts on what it read some statements ago. `IInv` says, for
each request, what of that still holds: `CallerInv`, that the copy of the caller is the
caller's or the zero user's; `AuthorInv`, that the `ArticleUserModel` it found belongs to
the user it was looked up for; `ProfileInv`, `ArticleInv` and `CommentInv`, that the row of
the path is still in its table, that the copy has the author of the row, and that a handler
past the check of the author is that author's or has found nothing; `RefusedInv`, that one
who was refused is no author or has a second row. All of these survive the steps of others
because tables only grow and no step changes whom a row belongs to: that is `Grown`, and
`OthersKeep` shows it to be enough. What is left is one lemma per action about the
request that moves, built from the four ways to move (`GotoAt`, `ReplyAt`, `ListAt`,
`StepKeeps`). The two action properties follow from `IInv` in the state before the step.

`ImportProofs` proves, for files, batches and logs of any length, any number of attempts
and of failures, from `ImportAssumption` alone (the bounds are natural numbers, a batch and
the attempts are not zero, the known references are references): `TypeCorrect`,
`BatchesAreSound`, `RowsAreStoredOnce`, `RecordsAreCounted`, `CompletedImportsAreComplete`
and `ErrorsAreReported`. Counters move only when a batch is flushed, so `RowsCounted` is
not inductive. `CountInv` is the same balance with what waits in the batch added on the
side of what is counted, and `CompleteInv` says of a taken record that it is stored or
waits. `StoredInv` is why no row is there twice: the rows of a batch are stored together
or not at all, and when they are stored before their flush is over, their structs are keyed
(`keyed`), so that another attempt runs into the primary key. A batch of users is checked
for distinct addresses with `seen`, which is why users are compared by the number of their
addresses: that count needs the theorems on finite sets.

`ExportProofs` proves, for tables of any size, from `ExportAssumption` alone (the bounds
are natural numbers): `TypeCorrect`, `CompletedIsExact`, `ResponseIsExact`,
`ConnectionIsReturned` and `BlameIsRight`. The core is `OutputInv`: what was read and what
is still in the buffer are together exactly the part of the file that the `count` records
so far make (`Part`, which says for every position what stands there), and the whole file
once the stream has been closed. `PipeInv` and `FaultInv` tie the end of the pipe, the
flag of the goroutine and the blame to the place the goroutine is at; `JobInv` says that
the worker concludes once. That a completed export counts the rows it stored is then the
end of a chain: COMPLETED needs the end of the pipe, which needs a close without error,
which comes after `rowCount` was set.

`ArticleImportProofs` proves, for any number of writers, slugs, tags, tag lists and
failures, from `WriterAssumption` alone (the calls are what the handlers bind; a writer is
neither the maker of the old rows nor "none"): `TypeCorrect`, `TagsAreOfOneRecord`,
`ErrorsLeaveNothing`, `RefusalsHaveARival` and `CreationsHaveTheirTags`. The invariant says
what a place in a transaction means (`PlaceInv`), where each tag of the call is on its way
into the table (`TagsInv`: still to do, made by the open transaction, or committed), what
the commit will do to the links (`LinksInv`), that two transactions never hold one slug
(`SlugInv`), and where rows and tags come from (`TablesInv`). The step of one writer leaves
what the others know alone because only `Commit` and `Save` change a row, and nobody takes
a tag away. The proof of `RefusedOverARival` failed at first, and rightly: it had said that
somebody always gets the tag a refused record wanted, which holds for lists of two tags,
the only ones of `MCArticleImport`; with three, two deadlocks one after the other can refuse
both rivals. TLC shows that on records with longer lists, which are not among those of
the run, and the property now asks only for a rival that wanted the tag.

`OrderProofs`, `FeedProofs` and `RaceProofs` prove the properties of `Articles` that relate
answers to later states, from the same assumption. Their core is `OrderHolds`: `IInv`
together with `OrderInv`, that a request answered before another arrived is done and stays
so, that each handler is at one of its own statements (`Fits`), and that an answer is given
once. `Moved`, `Handles` and `Arrives` say once what a step leaves of all requests, and
frame lemmas (`FollowsFrame`, `ArticlesFrame`, ...) what it leaves of the tables.

- `ExportsOfFound` (`ExportOfFound`). `ExportInv` says of an answered export that found its
  article that its rows are that article's and all there were, as long as nobody adds any.
- `UpdatesFollow` (`UpdatesAddUp`). The danger is a later update that writes an older copy
  back. `AccountInv` and `EditInv` say that each rival of the last update is either answered
  before it, or arrived after it and has a copy with the new value. The lemmas are about one field,
  and what a copy is worth from the statement that made it to the one that writes it.
- `RelationsSettle` (`RelationSettles`). `FollowInv` and `FavoriteInv` say what the rows of the
  pair are from the statement that decided them on. A favourite is decided before it is
  answered, since the serializer comes after (`Decided`), and no request of the other kind
  is left to undo it (`ContrariesStay`).
- `FeedsAreComplete` (`FeedComplete`). A feed is three queries, each over the ids of the one
  before. `FeedInv` says for each place that the ids are complete as long as nobody follows
  or adds articles, and that none is of an author who was never followed; `ListInv` the same
  for lists.
- `PasswordsHold` (`PasswordHolds`). Six facts are inductive together. Addresses stay unique, and
  a pending update that keeps the address has the present one in its copy (`EmailInv`), so a
  change of something else does not move the account. The row has the hash last set
  (`PasswordInv`), and a login was decided by it (`LoginInv`). A registration has left a row with
  its address and its hash, empty or not, unless an update has been asked to set another
  (`RegisteredInv`), and a login was decided by that (`FirstLoginInv`). None uses that updates
  do not overlap, because `WrittenUser` leaves the password alone unless the body gave one that
  could be hashed.
- `RacesMakeDuplicates` (`DuplicatesNeedARace`), for tables that have no second rows to start
  with (`NoDuplicates`): a table that has them would keep them, and nothing in the schema
  forbids it. `Waits` says of a request between its SELECT and its INSERT that a row is
  there now only if another request, which overlaps with it, made it; the exception
  is an article or a comment that brings an author without id, and then a statement of
  that request has failed (`Unnamed`).

Model-checked only: `JobsSettle`, `SoundFileReturns`, `ExportEnds` and `WritersFinish`
(liveness under fairness is outside the prover). Every invariant and action property that a
passing run checks is proved. The violation runs are counterexamples and stay with TLC.

## 7. Not modelled

- Log lines, error texts and the layout of responses.
- Temporary files of the importer, and errors of creating them.
- The connection pool's limit: `ExportJob` shows which failures keep a connection.
- Of the articles API: the lists by tag and of everything, paging and order (an
  answer of the model is the whole feed or list; without a limit in the request the code
  gives its first 20 articles), the lists of comments and tags, and favourite counts.
- Tags outside `ArticleImport`. An update makes the tags of its body (`setTags`) and does not
  link them. But GORM saves the associations of what it saves, so `Updates` of an article, and
  `Save` of a comment with its `Article`, insert the tag links of the copy read earlier once
  more (`ON CONFLICT DO NOTHING`): links that an import has replaced in the meantime come
  back. `TagsOfOneRecord` speaks of imports and creations alone and does not exclude that.
- Of the users API: the reads of a profile and of the caller, which change nothing; tokens,
  of which a request keeps the id; bodies that a validator refuses.
- Filters of an export on a column of the table itself (`ExportJob` leaves open how many
  rows there are). The filter `tag` is handed on (`routers/exports.go:88`) and read by
  nobody, which a search of the code shows.
- The status routes: single reads. `GET /v1/exports/:job_id` selects on a column `job_id`
  that the table does not have and answers 404 to every request.
- Counters are not in the table while a job runs: the importer keeps them in memory and
  they are saved at the end, so a status read in between shows zero.
