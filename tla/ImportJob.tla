----------------------------- MODULE ImportJob ------------------------------
(***************************************************************************)
(* One run of core.ProcessImport: the readers for CSV, NDJSON and JSON     *)
(* arrays, the batches of users and comments, one transaction per article, *)
(* the counters and the error report.  JobQueue sees this as OpenSource    *)
(* followed by FinishImport or HangImport.                                 *)
(*                                                                         *)
(* A record of the file is what becomes of it: it is good; a required      *)
(* field is blank; a value has the wrong JSON type; its syntax is garbled; *)
(* its line is too long for the scanner; or it parses and the database     *)
(* refuses it (a NUL character, a string longer than its column).          *)
(***************************************************************************)
EXTENDS Naturals, Sequences, FiniteSets

CONSTANTS Keys,              \* e-mails, or the authors and articles referred to
          Known,             \* references that exist in the database
          MaxRows,           \* longest file
          BatchSize,         \* 1000 in the code
          MaxErrorLogCount,  \* 1000 in the code
          MaxRetries,        \* 3 in the code
          MaxFaults          \* bound on database and storage failures

ASSUME ImportAssumption ==
  /\ Known \subseteq Keys
  /\ {MaxRows, BatchSize, MaxErrorLogCount, MaxRetries, MaxFaults} \subseteq Nat
  /\ BatchSize > 0 /\ MaxRetries > 0

Record == [kind : {"good", "blank", "mistyped", "garbled", "long", "refused"},
           ref  : Keys]

\* How the body goes on after its last whole record: to its proper end; the
\* stored object itself stops short; or the connection breaks.
Ending == {"end", "truncated", "dropped"}

RowIds == 1..MaxRows

Files == [resource : {"users", "articles", "comments"},
          format   : {"csv", "ndjson", "array", "unknown"},
          rows     : UNION {[1..n -> Record] : n \in 0..MaxRows},
          ending   : Ending]

VARIABLES
  file,          \* the source object: constant
  next,          \* records read so far
  pc,            \* the next step of the importer
  batch, seen,   \* row numbers waiting for a flush; their e-mails (batchEmails)
  cached,        \* references found before (authorCache, articleCache)
  tries,         \* failed attempts of saveBatchWithRetry
  keyed,         \* the batch's structs carry primary keys from an earlier INSERT
  stored,        \* stored[i]: times row i went into the database
  processed,     \* job.ProcessedRows
  failed,        \* job.FailedRows
  logged,        \* lines in the error file
  ret,           \* what the importer returns: "none" yet, "ok" or "error"
  resultKey,     \* job.ResultKey is set
  reportStored,  \* the error report is in the bucket
  faults         \* failures so far

batchVars   == <<batch, seen, tries, keyed>>
counterVars == <<processed, failed, logged>>
reportVars  == <<resultKey, reportStored>>
vars == <<file, next, pc, batchVars, cached, stored, counterVars, ret, reportVars, faults>>

ImportTypeOK ==
  /\ file \in Files
  /\ next \in 0..MaxRows
  /\ pc \in {"detect", "read", "flush", "lastFlush", "report", "returned", "hung"}
  /\ batch \in Seq(RowIds) /\ seen \subseteq Keys /\ cached \subseteq Known
  /\ tries \in 0..MaxRetries - 1 /\ keyed \in BOOLEAN
  /\ stored \in [RowIds -> Nat]
  /\ {processed, failed, logged, faults} \subseteq Nat
  /\ ret \in {"none", "ok", "error"}
  /\ {resultKey, reportStored} \subseteq BOOLEAN

\* Only users come as CSV: other resources go through detectFormat, which knows
\* NDJSON by the first record.
Init ==
  /\ file \in {f \in Files : /\ f.format = "csv" => f.resource = "users"
                             /\ f.format = "unknown" => f.rows = <<>>
                             /\ f.format = "ndjson" /\ f.rows = <<>> => f.ending # "end"}
  /\ next = 0
  /\ pc = "detect"
  /\ batch = <<>> /\ seen = {} /\ cached = {} /\ tries = 0 /\ keyed = FALSE
  /\ stored = [i \in RowIds |-> 0]
  /\ processed = 0 /\ failed = 0 /\ logged = 0
  /\ ret = "none"
  /\ resultKey = FALSE /\ reportStored = FALSE
  /\ faults = 0

Row(i) == file.rows[i]

Fault == faults < MaxFaults /\ faults' = faults + 1

\* The importer function returns to ProcessImport.
Return(value) == pc' = "report" /\ ret' = value

\* Mutant: the limit is compared with the count before it grows.
RecordErrorsLate(n) ==
  /\ failed' = failed + n
  /\ logged' = IF failed <= MaxErrorLogCount THEN failed + n ELSE logged

\* recordError, n more times.
RecordErrors(n) ==
  /\ failed' = failed + n
  /\ logged' = IF failed + n <= MaxErrorLogCount THEN failed + n ELSE MaxErrorLogCount
-----------------------------------------------------------------------------
(***************************************************************************)
(* Reading.                                                                *)
(***************************************************************************)

\* detectFormat, or reading the CSV header: an empty or alien file is an error.
Detect ==
  /\ pc = "detect"
  /\ IF file.format = "unknown" THEN Return("error") ELSE pc' = "read" /\ UNCHANGED ret
  /\ UNCHANGED <<file, next, batchVars, cached, stored, counterVars, reportVars, faults>>

Reading == pc = "read" /\ next < Len(file.rows)
Current == Row(next + 1)
Advance == next' = next + 1

\* What the reader makes of a record before its fields are looked at.
Unreadable(row) == \/ row.kind = "mistyped"
                   \/ row.kind = "garbled" /\ file.format # "array"
TooLong(row)    == row.kind = "long" /\ file.format = "ndjson"
\* Mutant: a decoder that repeats a type error as it repeats a syntax error.
StickyType(row) == row.kind \in {"garbled", "mistyped"} /\ file.format = "array"

Sticky(row)     == row.kind = "garbled" /\ file.format = "array"

\* The record would be imported, if its reference exists and nothing fails.
Readable(row) == ~Unreadable(row) /\ ~TooLong(row) /\ ~Sticky(row) /\ row.kind # "blank"

\* `continue`, or an early return of processUser, processComment and
\* processOneArticle: the record leaves no trace, not even an error.
Skip ==
  /\ Reading
  /\ \/ Unreadable(Current)
     \/ Current.kind = "blank"
     \/ file.resource = "users" /\ Readable(Current) /\ Current.ref \in seen
  /\ Advance
  /\ UNCHANGED <<file, pc, batchVars, cached, stored, counterVars, ret, reportVars, faults>>

\* The scanner gives up on the line; the importer returns without a last flush.
ScannerError ==
  /\ Reading /\ TooLong(Current)
  /\ Advance
  /\ Return("error")
  /\ UNCHANGED <<file, batchVars, cached, stored, counterVars, reportVars, faults>>

\* A syntax error stays in the decoder, and the loop `continue`s for ever.
DecoderStuck ==
  /\ Reading /\ Sticky(Current)
  /\ pc' = "hung"
  /\ UNCHANGED <<file, next, batchVars, cached, stored, counterVars, ret, reportVars,
                 faults>>
\* A user or a comment joins the batch, which is flushed when it is full.
AddToBatch ==
  /\ batch' = Append(batch, next + 1)
  /\ seen' = IF file.resource = "users" THEN seen \cup {Current.ref} ELSE seen
  /\ pc' = IF Len(batch) + 1 >= BatchSize THEN "flush" ELSE pc
  /\ UNCHANGED <<tries, keyed>>

AddUser ==
  /\ Reading /\ file.resource = "users"
  /\ Readable(Current) /\ Current.ref \notin seen
  /\ Advance
  /\ AddToBatch
  /\ UNCHANGED <<file, cached, stored, counterVars, ret, reportVars, faults>>

\* The reference is cached, or read from the database; a read that fails is
\* taken for a reference that does not exist.
Found(ref)   == /\ ref \in Known
                /\ cached' = cached \cup {ref}
                /\ UNCHANGED faults
\* Mutant: a reference that was not found is cached as well.
MissingCached(ref) == /\ cached' = cached \cup {ref}
                      /\ ref \notin Known /\ UNCHANGED faults

Missing(ref) == /\ UNCHANGED cached
                /\ \/ ref \notin Known /\ UNCHANGED faults
                   \/ ref \in Known \ cached /\ Fault

AddComment ==
  /\ Reading /\ file.resource = "comments" /\ Readable(Current)
  /\ Found(Current.ref)
  /\ Advance
  /\ AddToBatch
  /\ UNCHANGED <<file, stored, counterVars, ret, reportVars>>

\* DEPENDENCY_ERROR, for articles and comments.
MissDependency ==
  /\ Reading /\ file.resource # "users" /\ Readable(Current)
  /\ Missing(Current.ref)
  /\ Advance
  /\ RecordErrors(1)
  /\ UNCHANGED <<file, pc, batchVars, stored, processed, ret, reportVars>>

\* processOneArticle's transaction: INSERT_ERROR and the TAG_ errors roll back,
\* COMMIT_ERROR may have committed, and only success counts as processed.
Store(ids) == stored' = [i \in RowIds |-> stored[i] + IF i \in ids THEN 1 ELSE 0]

AddArticle ==
  /\ Reading /\ file.resource = "articles" /\ Readable(Current)
  /\ Current.ref \in Known
  /\ cached' = cached \cup {Current.ref}
  /\ Advance
  /\ \/ /\ Current.kind # "refused"
        /\ Store({next + 1})
        /\ processed' = processed + 1
        /\ UNCHANGED <<failed, logged, faults>>
     \/ /\ Current.kind = "refused"
        /\ RecordErrors(1)
        /\ UNCHANGED <<stored, processed, faults>>
     \/ /\ Current.kind # "refused" /\ Fault
        /\ RecordErrors(1)
        /\ UNCHANGED stored \/ Store({next + 1})
        /\ UNCHANGED processed
  /\ UNCHANGED <<file, pc, batchVars, ret, reportVars>>

\* Mutant: the rows left over in the batch are forgotten.
EndOfFileUnflushed ==
  /\ pc = "read" /\ next = Len(file.rows)
  /\ Return("ok")
  /\ UNCHANGED <<file, next, batchVars, cached, stored, counterVars, reportVars, faults>>

\* After the last whole record: io.EOF ends the loop; a broken connection is an
\* error to the scanner, is repeated for ever to the CSV reader, and to the array
\* reader looks like the end between two values and is sticky inside one.
EndOfFile ==
  /\ pc = "read" /\ next = Len(file.rows)
  /\ LET done   == IF batch = <<>> THEN Return("ok") ELSE pc' = "lastFlush" /\ UNCHANGED ret
         stuck  == pc' = "hung" /\ UNCHANGED ret
     IN CASE file.ending = "end" -> done
          [] file.ending # "end" /\ file.format = "array" -> done \/ stuck
          [] file.ending = "truncated" /\ file.format # "array" -> done
          [] file.ending = "dropped" /\ file.format = "ndjson" -> Return("error")
          [] file.ending = "dropped" /\ file.format = "csv" -> stuck
  /\ UNCHANGED <<file, next, batchVars, cached, stored, counterVars, reportVars, faults>>
-----------------------------------------------------------------------------
(***************************************************************************)
(* Flushing.  A batch is one INSERT in one transaction: all or nothing.    *)
(***************************************************************************)
Flushing == pc \in {"flush", "lastFlush"}
Batch    == {batch[k] : k \in DOMAIN batch}
Refused  == \E i \in Batch : Row(i).kind = "refused"

\* Mutant: the slice is not emptied.
EmptyBatchKept ==
  /\ processed' = processed + Len(batch)
  /\ seen' = {} /\ tries' = 0 /\ keyed' = FALSE
  /\ IF pc = "flush" THEN pc' = "read" /\ UNCHANGED ret ELSE Return("ok")
  /\ UNCHANGED batch

\* Mutant: every batch counts as a full one.
EmptyBatchFull ==
  /\ processed' = processed + BatchSize
  /\ batch' = <<>> /\ seen' = {} /\ tries' = 0 /\ keyed' = FALSE
  /\ IF pc = "flush" THEN pc' = "read" /\ UNCHANGED ret ELSE Return("ok")

\* The batch counts as processed whatever became of it.
EmptyBatch ==
  /\ processed' = processed + Len(batch)
  /\ batch' = <<>> /\ seen' = {} /\ tries' = 0 /\ keyed' = FALSE
  /\ IF pc = "flush" THEN pc' = "read" /\ UNCHANGED ret ELSE Return("ok")

\* flushUserBatch: upsert on the e-mail, its error ignored.
FlushUsers ==
  /\ Flushing /\ file.resource = "users"
  /\ \/ ~Refused /\ Store(Batch) /\ UNCHANGED faults
     \/ Refused /\ UNCHANGED <<stored, faults>>
     \/ ~Refused /\ Fault /\ (UNCHANGED stored \/ Store(Batch))
  /\ EmptyBatch
  /\ UNCHANGED <<file, next, cached, failed, logged, reportVars>>

\* Mutant: the structs of a batch get fresh primary keys on each attempt.
FreshKeys == FALSE

\* A committed attempt that was reported as failed makes the next one violate
\* the primary keys the structs got from it.
KeysTaken == keyed /\ \A i \in Batch : stored[i] > 0

FlushComments ==
  /\ Flushing /\ file.resource = "comments"
  /\ ~Refused /\ ~KeysTaken
  /\ Store(Batch)
  /\ EmptyBatch
  /\ UNCHANGED <<file, next, cached, failed, logged, reportVars, faults>>

\* One failed attempt of saveBatchWithRetry: the INSERT is refused, or it fails,
\* or its COMMIT does, with or without effect.  After MaxRetries a BATCH_ERROR.
RetryComments ==
  /\ Flushing /\ file.resource = "comments"
  /\ LET lastTry == tries + 1 = MaxRetries
     IN \/ /\ Refused \/ KeysTaken
           /\ UNCHANGED <<stored, faults>>
           /\ lastTry \/ UNCHANGED keyed
        \/ /\ ~Refused /\ ~KeysTaken /\ Fault
           /\ UNCHANGED stored
           /\ lastTry \/ keyed' \in {keyed, TRUE}
        \/ /\ ~Refused /\ ~KeysTaken /\ Fault
           /\ Store(Batch)
           /\ lastTry \/ keyed' = TRUE
  /\ IF tries + 1 = MaxRetries
     THEN RecordErrors(1) /\ EmptyBatch
     ELSE /\ tries' = tries + 1
          /\ UNCHANGED <<pc, batch, seen, counterVars, ret>>
  /\ UNCHANGED <<file, next, cached, reportVars>>
-----------------------------------------------------------------------------
\* uploadErrorReport when some row failed; ResultKey is set either way.
Report ==
  /\ pc = "report"
  /\ pc' = "returned"
  /\ IF failed > 0
     THEN /\ resultKey' = TRUE
          /\ \/ reportStored' = TRUE /\ UNCHANGED faults
             \/ UNCHANGED reportStored /\ Fault
     ELSE UNCHANGED <<reportVars, faults>>
  /\ UNCHANGED <<file, next, batchVars, cached, stored, counterVars, ret>>

Next == \/ Detect \/ Skip \/ ScannerError \/ DecoderStuck
        \/ AddUser \/ AddComment \/ AddArticle \/ MissDependency \/ EndOfFile
        \/ FlushUsers \/ FlushComments \/ RetryComments
        \/ Report

\* The importer is one goroutine that runs until it returns.
Spec == Init /\ [][Next]_vars /\ WF_vars(Next)
-----------------------------------------------------------------------------
(***************************************************************************)
(* Properties.                                                             *)
(***************************************************************************)

\* Rows read so far that carry an importable record.
Taken == {i \in 1..next : Readable(Row(i))}

\* A batch is a legal argument of its INSERT: within the limit, no row that went
\* in before (but for a commit reported as failed), and no two users of one
\* e-mail, which ON CONFLICT DO UPDATE could not upsert in one statement.
BatchSound ==
  /\ Len(batch) <= BatchSize
  /\ batch # <<>> /\ ~keyed => \A i \in Batch : stored[i] = 0
  /\ \A k, l \in DOMAIN batch : k # l =>
       /\ batch[k] # batch[l]
       /\ file.resource = "users" => Row(batch[k]).ref # Row(batch[l]).ref

\* However often a batch is retried and whichever acknowledgement is lost, no
\* row goes into the database twice: a duplicated comment would stay for ever.
StoredOnce == \A i \in RowIds : stored[i] <= 1

\* Every record the importer takes ends up in a counter, once: an e-mail counts at
\* least once, an article or comment once, a failed batch at most once more.
RowsCounted ==
  pc = "returned" /\ ret = "ok" =>
    LET emails == {Row(i).ref : i \in Taken}
    IN /\ file.resource = "users" =>
            processed \in Cardinality(emails)..Cardinality(Taken) /\ failed = 0
       /\ file.resource = "articles" => processed + failed = Cardinality(Taken)
       /\ file.resource = "comments" =>
            /\ Cardinality(Taken) <= processed + failed
            /\ processed <= Cardinality(Taken)

\* When nothing fails and the database refuses no record, an import that is
\* reported COMPLETED put in every record it could: all rows with their references
\* (for users one row of each e-mail), however the batches fell.
CompletedIsComplete ==
  pc = "returned" /\ ret = "ok" /\ faults = 0 /\ (\A i \in Taken : Row(i).kind # "refused") =>
    \A i \in Taken :
      IF file.resource = "users"
      THEN \E j \in Taken : Row(j).ref = Row(i).ref /\ stored[j] = 1
      ELSE stored[i] = 1 <=> Row(i).ref \in Known

\* The report is there when rows failed, unless storing it did, and holds a line
\* for each failure up to the limit.
ErrorsReported ==
  pc = "returned" =>
    /\ resultKey <=> failed > 0
    /\ resultKey => reportStored \/ faults > 0
    /\ logged <= MaxErrorLogCount
    /\ logged < MaxErrorLogCount => logged = failed

\* A file whose syntax is sound and whose body arrives whole is imported to the
\* end, whatever the fields say and whatever the database does.
WellFormed == /\ file.ending = "end"
              /\ \A i \in DOMAIN file.rows : Row(i).kind # "garbled"

SoundFileReturns == WellFormed => <>(pc = "returned")

-----------------------------------------------------------------------------
(* What the documentation says and the code does not do.                   *)

\* readme.md: the import "continues processing on validation errors".  An import
\* comes to an end.
ImportReturns == <>(pc = "returned")

\* readme.md: the import "validates each record independently".  When nothing
\* fails, a good record is not lost because of another one.
RecordsIndependent ==
  pc = "returned" /\ ret = "ok" /\ faults = 0 =>
    \A i \in Taken : Row(i).kind = "good" /\ (file.resource = "users" \/ Row(i).ref \in Known) =>
      \E j \in Taken : stored[j] = 1 /\ (j = i \/ (file.resource = "users" /\ Row(j).ref = Row(i).ref))
=============================================================================
