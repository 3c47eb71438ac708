------------------------------ MODULE JobQueue ------------------------------
(***************************************************************************)
(* The job queue: HTTP handlers that submit jobs, the jobs table that is   *)
(* the queue, one worker goroutine per API process that claims and runs    *)
(* them, and the S3 bucket between them.                                   *)
(*                                                                         *)
(* One step is one interaction with the database or S3: what happens in    *)
(* Go memory between two of them belongs to the step.                      *)
(***************************************************************************)
EXTENDS Naturals, FiniteSets

CONSTANTS Imports,     \* POST /v1/imports requests; a job bears the name of the
          Exports,     \* POST /v1/exports request that submits it
          Instances,   \* API processes, each with its handlers and its worker
          IdemKeys,    \* non-empty values of the Idempotency-Key header
          NoKey,       \* the empty string
          ObjKeys,     \* S3 names an upload may be given
          NoSource,    \* the SourceKey of an export: its configuration, no object
          Poison,      \* imports whose file the importer never gets to the end of
          Stamps,      \* values of time.Now() for CreatedAt
          FaultKinds,  \* failures the environment may inflict: "db", "s3", "crash"
          MaxFaults,   \* bound on how many failures happen in a behaviour
          None         \* the null: no job, no process

Jobs == Imports \cup Exports

ASSUME QueueAssumption ==
  /\ Imports \cap Exports = {}
  /\ Poison \subseteq Imports
  /\ None \notin Jobs \cup Instances
  /\ NoSource \notin ObjKeys
  /\ NoKey \notin IdemKeys
  /\ Jobs \cap (IdemKeys \cup {NoKey}) = {}
  /\ Stamps \subseteq Nat
  /\ MaxFaults \in Nat

Status == {"ABSENT", "PENDING", "PROCESSING", "COMPLETED", "FAILED"}

\* A row of the jobs table.  ABSENT stands for a row that does not exist.  An
\* export job's idempotency key is its own UUID, here the job's name.
Row == [status    : Status,
        idemKey   : IdemKeys \cup {NoKey} \cup Jobs,
        sourceKey : ObjKeys \cup {NoSource},
        resultKey : BOOLEAN,
        createdAt : Stamps \cup {0}]

VARIABLES
  jobs,          \* the jobs table
  pc,            \* pc[r]: the handler's next step for request r
  server,        \* server[r]: the process serving r now, or None
  idemKey,       \* idemKey[r], objKey[r]: the handler's local variables
  objKey,
  response,      \* response[r]: the HTTP status sent, or "none"
  wpc,           \* wpc[w]: the worker's next step
  cur,           \* cur[w]: the job the worker holds
  mem,           \* mem[w]: its Job struct, written back whole by db.Save
  source,        \* source[o]: whose upload the S3 object o holds
  resultStored,  \* jobs whose result object is in the bucket
  faults,        \* failures so far
  attempts,      \* history: executions of each job
  consumed       \* history: whose upload each import read

handlerVars == <<pc, server, idemKey, objKey, response>>
workerVars  == <<wpc, cur, mem>>
historyVars == <<attempts, consumed>>
vars == <<jobs, handlerVars, workerVars, source, resultStored, faults, historyVars>>

NoRow == [status |-> "ABSENT", idemKey |-> NoKey, sourceKey |-> NoSource,
          resultKey |-> FALSE, createdAt |-> 0]

TypeOK ==
  /\ jobs \in [Jobs -> Row]
  /\ pc \in [Jobs -> {"new", "validate", "upload", "insert", "answered", "lost"}]
  /\ server \in [Jobs -> Instances \cup {None}]
  /\ idemKey \in [Jobs -> IdemKeys \cup {NoKey} \cup Jobs]
  /\ objKey \in [Jobs -> ObjKeys \cup {NoSource}]
  /\ response \in [Jobs -> {"none", "202", "400", "409", "500"}]
  /\ wpc \in [Instances -> {"down", "idle", "claiming", "open", "running",
                            "hung", "saving"}]
  /\ cur \in [Instances -> Jobs \cup {None}]
  /\ mem \in [Instances -> Row]
  /\ source \in [ObjKeys -> Imports \cup {None}]
  /\ resultStored \subseteq Jobs
  /\ faults \in Nat
  /\ attempts \in [Jobs -> Nat]
  /\ consumed \in [Jobs -> Imports \cup {None}]

Init ==
  /\ jobs = [j \in Jobs |-> NoRow]
  /\ pc = [r \in Jobs |-> "new"]
  /\ server = [r \in Jobs |-> None]
  /\ idemKey = [r \in Jobs |-> NoKey]
  /\ objKey = [r \in Jobs |-> NoSource]
  /\ response = [r \in Jobs |-> "none"]
  /\ wpc = [w \in Instances |-> "idle"]
  /\ cur = [w \in Instances |-> None]
  /\ mem = [w \in Instances |-> NoRow]
  /\ source = [o \in ObjKeys |-> None]
  /\ resultStored = {}
  /\ faults = 0
  /\ attempts = [j \in Jobs |-> 0]
  /\ consumed = [j \in Jobs |-> None]
-----------------------------------------------------------------------------
Exists(j) == jobs[j].status # "ABSENT"

\* The unique index on idempotency_key, which covers the empty key as well.
KeyTaken(k) == \E j \in Jobs : Exists(j) /\ jobs[j].idemKey = k

\* A failure of the given kind happens in this step.
Fault(kind) == /\ kind \in FaultKinds
               /\ faults < MaxFaults
               /\ faults' = faults + 1

Answer(r, code) == /\ pc' = [pc EXCEPT ![r] = "answered"]
                   /\ server' = [server EXCEPT ![r] = None]
                   /\ response' = [response EXCEPT ![r] = code]

Proceed(r, w, step) == /\ pc' = [pc EXCEPT ![r] = step]
                       /\ server' = [server EXCEPT ![r] = w]
                       /\ UNCHANGED response

(***************************************************************************)
(* The handlers.                                                           *)
(***************************************************************************)

\* CreateImportJob, up to the lookup of the Idempotency-Key.  A lookup that
\* fails is taken for a key that is not there.
ArriveImport(r, w) ==
  /\ pc[r] = "new" /\ r \in Imports
  /\ wpc[w] # "down"
  /\ \E k \in IdemKeys \cup {NoKey} :
       /\ idemKey' = [idemKey EXCEPT ![r] = k]
       /\ \/ k # NoKey /\ KeyTaken(k) /\ Answer(r, "409") /\ UNCHANGED faults
          \/ (k = NoKey \/ ~KeyTaken(k)) /\ Proceed(r, w, "validate") /\ UNCHANGED faults
          \/ k # NoKey /\ KeyTaken(k) /\ Proceed(r, w, "validate") /\ Fault("db")
  /\ UNCHANGED <<jobs, objKey, workerVars, source, resultStored, historyVars>>

\* Mutant: the row is created first and the upload comes after it.
RowBeforeUpload(r) ==
  /\ pc[r] = "validate"
  /\ Proceed(r, server[r], "insert")
  /\ \E o \in ObjKeys : objKey' = [objKey EXCEPT ![r] = o]
  /\ UNCHANGED <<jobs, idemKey, workerVars, source, resultStored, faults, historyVars>>

\* The form's resource and file are there or the request is refused; the
\* name of the object is the resource, the second and the file's base name.
ValidateImport(r) ==
  /\ pc[r] = "validate"
  /\ \/ Answer(r, "400") /\ UNCHANGED objKey
     \/ /\ Proceed(r, server[r], "upload")
        /\ \E o \in ObjKeys : objKey' = [objKey EXCEPT ![r] = o]
  /\ UNCHANGED <<jobs, idemKey, workerVars, source, resultStored, faults,
                 historyVars>>

Upload(r) ==
  /\ pc[r] = "upload"
  /\ source' = [source EXCEPT ![objKey[r]] = r]
  /\ Proceed(r, server[r], "insert")
  /\ UNCHANGED <<jobs, idemKey, objKey, workerVars, resultStored, faults,
                 historyVars>>

\* The file of the form cannot be opened, and nothing is stored, or the upload is
\* reported as failed, and may have stored the object all the same.
UploadFails(r) ==
  /\ pc[r] = "upload"
  /\ Fault("s3")
  /\ source' \in {source, [source EXCEPT ![objKey[r]] = r]}
  /\ Answer(r, "500")
  /\ UNCHANGED <<jobs, idemKey, objKey, workerVars, resultStored, historyVars>>

\* AsyncExport refuses an unknown resource or format, or packs the
\* configuration into SourceKey and takes the job's UUID for its key.
ArriveExport(r, w) ==
  /\ pc[r] = "new" /\ r \in Exports
  /\ wpc[w] # "down"
  /\ idemKey' = [idemKey EXCEPT ![r] = r]
  /\ Answer(r, "400") \/ Proceed(r, w, "insert")
  /\ UNCHANGED <<jobs, objKey, workerVars, source, resultStored, faults, historyVars>>

\* Mutant: two string columns of the row are mixed up.
CreateRowSwapped(r) ==
  \E t \in Stamps :
    jobs' = [jobs EXCEPT ![r] = [status |-> "PENDING", idemKey |-> idemKey[r],
                                 sourceKey |-> idemKey[r], resultKey |-> FALSE,
                                 createdAt |-> t]]

CreateRow(r) ==
  \E t \in Stamps :
    jobs' = [jobs EXCEPT ![r] = [status |-> "PENDING", idemKey |-> idemKey[r],
                                 sourceKey |-> objKey[r], resultKey |-> FALSE,
                                 createdAt |-> t]]

\* Mutant: the column has no unique index.
InsertWithoutIndex(r) ==
  /\ pc[r] = "insert"
  /\ CreateRow(r) /\ Answer(r, "202")
  /\ UNCHANGED <<idemKey, objKey, workerVars, source, resultStored, faults, historyVars>>

\* db.Create in both handlers: the unique index refuses a key already there.
Insert(r) ==
  /\ pc[r] = "insert"
  /\ \/ ~KeyTaken(idemKey[r]) /\ CreateRow(r) /\ Answer(r, "202")
     \/ KeyTaken(idemKey[r]) /\ Answer(r, "500") /\ UNCHANGED jobs
  /\ UNCHANGED <<idemKey, objKey, workerVars, source, resultStored, faults,
                 historyVars>>

\* The statement fails, or commits and its acknowledgement is lost.
InsertFails(r) ==
  /\ pc[r] = "insert"
  /\ Fault("db")
  /\ UNCHANGED jobs \/ (~KeyTaken(idemKey[r]) /\ CreateRow(r))
  /\ Answer(r, "500")
  /\ UNCHANGED <<idemKey, objKey, workerVars, source, resultStored,
                 historyVars>>
-----------------------------------------------------------------------------
(***************************************************************************)
(* The worker.  A row selected FOR UPDATE stays locked while its worker is *)
(* in the claiming transaction; executing means past executeJob's call.    *)
(***************************************************************************)
Locked(j)    == \E w \in Instances : wpc[w] = "claiming" /\ cur[w] = j
Executing(w) == wpc[w] \in {"open", "running", "hung", "saving"}

\* Mutant: the row is selected without FOR UPDATE SKIP LOCKED.
ClaimableUnlocked == {j \in Jobs : jobs[j].status = "PENDING"}

Claimable == {j \in Jobs : jobs[j].status = "PENDING" /\ ~Locked(j)}

\* Mutant: a worker polls only while no other one has a job.
PollAlone(w) ==
  /\ \A v \in Instances : cur[v] = None
  /\ wpc[w] = "idle"
  /\ \E j \in Claimable :
       /\ \A k \in Claimable : jobs[j].createdAt <= jobs[k].createdAt
       /\ cur' = [cur EXCEPT ![w] = j]
       /\ mem' = [mem EXCEPT ![w] = [jobs[j] EXCEPT !.status = "PROCESSING"]]
  /\ wpc' = [wpc EXCEPT ![w] = "claiming"]
  /\ UNCHANGED <<jobs, handlerVars, source, resultStored, faults, historyVars>>

\* SELECT ... WHERE status = 'PENDING' ORDER BY created_at LIMIT 1
\* FOR UPDATE SKIP LOCKED; the struct is then PROCESSING in memory.
Poll(w) ==
  /\ wpc[w] = "idle"
  /\ \E j \in Claimable :
       /\ \A k \in Claimable : jobs[j].createdAt <= jobs[k].createdAt
       /\ cur' = [cur EXCEPT ![w] = j]
       /\ mem' = [mem EXCEPT ![w] = [jobs[j] EXCEPT !.status = "PROCESSING"]]
  /\ wpc' = [wpc EXCEPT ![w] = "claiming"]
  /\ UNCHANGED <<jobs, handlerVars, source, resultStored, faults, historyVars>>

\* db.Save writes every column of the struct.
Save(w) == jobs' = [jobs EXCEPT ![cur[w]] = mem[w]]

Release(w) == /\ wpc' = [wpc EXCEPT ![w] = "idle"]
              /\ cur' = [cur EXCEPT ![w] = None]
              /\ mem' = [mem EXCEPT ![w] = NoRow]

\* Mutant: the status is set in memory only and saved after the job.
ClaimUnsaved(w) ==
  /\ wpc[w] = "claiming"
  /\ wpc' = [wpc EXCEPT ![w] = "open"]
  /\ attempts' = [attempts EXCEPT ![cur[w]] = @ + 1]
  /\ UNCHANGED <<jobs, handlerVars, cur, mem, source, resultStored, faults, consumed>>

\* tx.Save and the commit; executeJob is called outside the transaction.
Claim(w) ==
  /\ wpc[w] = "claiming"
  /\ Save(w)
  /\ wpc' = [wpc EXCEPT ![w] = "open"]
  /\ attempts' = [attempts EXCEPT ![cur[w]] = @ + 1]
  /\ UNCHANGED <<handlerVars, cur, mem, source, resultStored, faults, consumed>>

\* The save or the commit reports an error: rolled back, or committed with
\* the acknowledgement lost.  Either way the worker goes back to polling.
ClaimFails(w) ==
  /\ wpc[w] = "claiming"
  /\ Fault("db")
  /\ UNCHANGED jobs \/ Save(w)
  /\ Release(w)
  /\ UNCHANGED <<handlerVars, source, resultStored, historyVars>>

Outcome(w, status, result) ==
  /\ mem' = [mem EXCEPT ![w] = [@ EXCEPT !.status = status, !.resultKey = result]]
  /\ wpc' = [wpc EXCEPT ![w] = "saving"]

\* ProcessImport opens the source object; it may be missing.
OpenSource(w) ==
  /\ wpc[w] = "open" /\ cur[w] \in Imports
  /\ LET o == mem[w].sourceKey
     IN \/ /\ source[o] # None
           /\ consumed' = [consumed EXCEPT ![cur[w]] = source[o]]
           /\ wpc' = [wpc EXCEPT ![w] = "running"]
           /\ UNCHANGED mem
        \/ /\ source[o] = None
           /\ Outcome(w, "FAILED", FALSE)
           /\ UNCHANGED consumed
  /\ UNCHANGED <<jobs, handlerVars, cur, source, resultStored, faults, attempts>>

OpenFails(w) ==
  /\ wpc[w] = "open" /\ cur[w] \in Imports
  /\ Fault("s3")
  /\ Outcome(w, "FAILED", FALSE)
  /\ UNCHANGED <<jobs, handlerVars, cur, source, resultStored, historyVars>>

\* The importer returns, with or without an error; if some row failed an error
\* report is uploaded, and ResultKey is set even when that upload fails.
FinishImport(w) ==
  /\ wpc[w] = "running" /\ cur[w] \in Imports
  /\ consumed[cur[w]] \notin Poison
  /\ \E status \in {"COMPLETED", "FAILED"}, rowsFailed \in BOOLEAN :
       /\ Outcome(w, status, rowsFailed)
       /\ \/ /\ resultStored' = IF rowsFailed THEN resultStored \cup {cur[w]}
                                              ELSE resultStored
             /\ UNCHANGED faults
          \/ rowsFailed /\ Fault("s3") /\ UNCHANGED resultStored
  /\ UNCHANGED <<jobs, handlerVars, cur, source, historyVars>>

\* A decoding loop that `continue`s on an error its reader repeats for ever:
\* a malformed JSON array, or a CSV body whose connection dropped.
HangImport(w) ==
  /\ wpc[w] = "running" /\ cur[w] \in Imports
  /\ (consumed[cur[w]] \in Poison /\ UNCHANGED faults) \/ Fault("s3")
  /\ wpc' = [wpc EXCEPT ![w] = "hung"]
  /\ UNCHANGED <<jobs, handlerVars, cur, mem, source, resultStored, historyVars>>

\* processExport counts the rows and saves the whole struct with the estimate.
StartExport(w) ==
  /\ wpc[w] = "open" /\ cur[w] \in Exports
  /\ Save(w)
  /\ wpc' = [wpc EXCEPT ![w] = "running"]
  /\ UNCHANGED <<handlerVars, cur, mem, source, resultStored, faults, historyVars>>

FinishExport(w) ==
  /\ wpc[w] = "running" /\ cur[w] \in Exports
  /\ Outcome(w, "COMPLETED", TRUE)
  /\ resultStored' = resultStored \cup {cur[w]}
  /\ UNCHANGED <<jobs, handlerVars, cur, source, faults, historyVars>>

\* Mutant: ResultKey is set before the upload's error is looked at.
FailExportWithKey(w) ==
  /\ wpc[w] = "running" /\ cur[w] \in Exports
  /\ Fault("db") \/ Fault("s3")
  /\ Outcome(w, "FAILED", TRUE)
  /\ UNCHANGED <<jobs, handlerVars, cur, source, resultStored, historyVars>>

\* Streaming from the database or the upload fails.
FailExport(w) ==
  /\ wpc[w] = "running" /\ cur[w] \in Exports
  /\ Fault("db") \/ Fault("s3")
  /\ Outcome(w, "FAILED", FALSE)
  /\ resultStored' \in {resultStored, resultStored \cup {cur[w]}}
  /\ UNCHANGED <<jobs, handlerVars, cur, source, historyVars>>

\* Mutant: the final status stays in memory.
FinishUnsaved(w) ==
  /\ wpc[w] = "saving"
  /\ Release(w)
  /\ UNCHANGED <<jobs, handlerVars, source, resultStored, faults, historyVars>>

\* The last db.Save of executeJob, whose error is not looked at.
Finish(w) ==
  /\ wpc[w] = "saving"
  /\ Save(w)
  /\ Release(w)
  /\ UNCHANGED <<handlerVars, source, resultStored, faults, historyVars>>

\* Mutant: a job whose end cannot be saved is queued again.
FinishFailsRequeued(w) ==
  /\ wpc[w] = "saving"
  /\ Fault("db")
  /\ jobs' = [jobs EXCEPT ![cur[w]].status = "PENDING"]
  /\ Release(w)
  /\ UNCHANGED <<handlerVars, source, resultStored, historyVars>>

FinishFails(w) ==
  /\ wpc[w] = "saving"
  /\ Fault("db")
  /\ UNCHANGED jobs \/ Save(w)
  /\ Release(w)
  /\ UNCHANGED <<handlerVars, source, resultStored, historyVars>>
-----------------------------------------------------------------------------
(***************************************************************************)
(* Processes.                                                              *)
(***************************************************************************)
\* A process dies: its transaction is rolled back, its handlers never answer.
Crash(w) ==
  /\ wpc[w] # "down"
  /\ Fault("crash")
  /\ wpc' = [wpc EXCEPT ![w] = "down"]
  /\ cur' = [cur EXCEPT ![w] = None]
  /\ mem' = [mem EXCEPT ![w] = NoRow]
  /\ pc' = [r \in Jobs |-> IF server[r] = w THEN "lost" ELSE pc[r]]
  /\ server' = [r \in Jobs |-> IF server[r] = w THEN None ELSE server[r]]
  /\ UNCHANGED <<jobs, idemKey, objKey, response, source, resultStored,
                 historyVars>>

\* Mutant: at startup every job in PROCESSING is queued again, whoever has it.
RestartRequeueing(w) ==
  /\ wpc[w] = "down"
  /\ wpc' = [wpc EXCEPT ![w] = "idle"]
  /\ jobs' = [j \in Jobs |-> IF jobs[j].status = "PROCESSING"
                             THEN [jobs[j] EXCEPT !.status = "PENDING"] ELSE jobs[j]]
  /\ UNCHANGED <<handlerVars, cur, mem, source, resultStored, faults, historyVars>>

\* main: connect, migrate, start the worker and the server.  No row is touched.
Restart(w) ==
  /\ wpc[w] = "down"
  /\ wpc' = [wpc EXCEPT ![w] = "idle"]
  /\ UNCHANGED <<jobs, handlerVars, cur, mem, source, resultStored, faults,
                 historyVars>>

-----------------------------------------------------------------------------
Handle(r) == ValidateImport(r) \/ Upload(r) \/ Insert(r)

Work(w) == \/ Poll(w) \/ Claim(w) \/ OpenSource(w) \/ FinishImport(w)
           \/ HangImport(w) \/ StartExport(w) \/ FinishExport(w) \/ Finish(w)

Fail == \/ \E r \in Jobs : UploadFails(r) \/ InsertFails(r)
        \/ \E w \in Instances : \/ ClaimFails(w) \/ OpenFails(w) \/ FailExport(w)
                                \/ FinishFails(w) \/ Crash(w)

Next == \/ \E r \in Jobs, w \in Instances : ArriveImport(r, w) \/ ArriveExport(r, w)
        \/ \E r \in Jobs : Handle(r)
        \/ \E w \in Instances : Work(w) \/ Restart(w)
        \/ Fail

Spec == Init /\ [][Next]_vars

\* Handlers and workers are goroutines that keep running, the worker polls every
\* second, and a process that dies is started again by whoever operates it.
Fairness == /\ \A r \in Jobs : WF_vars(Handle(r))
            /\ \A w \in Instances : WF_vars(Work(w)) /\ WF_vars(Restart(w))

FairSpec == Spec /\ Fairness
-----------------------------------------------------------------------------
(***************************************************************************)
(* Properties.                                                             *)
(***************************************************************************)

\* Two workers never hold the same job, whichever of them is still claiming it
\* and whichever is past the transaction: SKIP LOCKED hides a row being claimed
\* and the committed status hides one that was.
ExclusiveClaim ==
  \A v, w \in Instances : cur[v] # None /\ cur[v] = cur[w] => v = w

\* No job is executed twice, in spite of failed claims, failed final saves,
\* crashes and restarts.
AtMostOnce == \A j \in Jobs : attempts[j] <= 1

\* The struct a worker will write back whole still agrees with the row in every
\* column the worker does not own, and the row waits in the status the worker
\* left it in: no db.Save overwrites what somebody else wrote.
NoLostUpdate ==
  \A w \in Instances : cur[w] # None =>
    LET row == jobs[cur[w]]
    IN /\ row.status = IF Executing(w) THEN "PROCESSING" ELSE "PENDING"
       /\ row.idemKey = mem[w].idemKey
       /\ row.sourceKey = mem[w].sourceKey
       /\ row.createdAt = mem[w].createdAt

\* Answers about submissions can be relied on: 202 means the job is in the
\* table, 409 that another request's job has this key, and no key has two jobs,
\* though the handler looks the key up long before it inserts the row.
IdempotentSubmission ==
  /\ \A r \in Jobs : response[r] = "202" => Exists(r)
  /\ \A r \in Jobs : response[r] = "409" =>
       \E q \in Jobs \ {r} : Exists(q) /\ jobs[q].idemKey = idemKey[r]
  /\ \A q, r \in Jobs : Exists(q) /\ Exists(r) /\ jobs[q].idemKey = jobs[r].idemKey
                          => q = r

\* Whenever an import job can be seen in the table its source object is in the
\* bucket, so a worker never fails because it was faster than the upload.
SourcePresent ==
  \A j \in Imports : Exists(j) => source[jobs[j].sourceKey] # None

\* A row says ResultKey only for a job that ended; when it is a completed export
\* the object is there, and when it is not there some failure happened (an error
\* report whose upload failed).
ResultHonest ==
  \A j \in Jobs : jobs[j].resultKey =>
    /\ jobs[j].status \in {"COMPLETED", "FAILED"}
    /\ j \in Exports => jobs[j].status = "COMPLETED" /\ j \in resultStored
    /\ j \notin resultStored => faults > 0

\* Status PROCESSING but nobody executes the job: it will stay so.
Stranded(j) == /\ jobs[j].status = "PROCESSING"
               /\ \A w \in Instances : ~(cur[w] = j /\ Executing(w))

\* One failure strands at most one job, wherever it strikes.
OneFaultOneJob == Cardinality({j \in Jobs : Stranded(j)}) <= faults

\* Columns a submission fixed never change and a status only moves on: a worker
\* writing back an old struct would break this.
RowsOnlyAdvance ==
  [][\A j \in Jobs : Exists(j) =>
       /\ jobs'[j].idemKey = jobs[j].idemKey
       /\ jobs'[j].sourceKey = jobs[j].sourceKey
       /\ jobs'[j].createdAt = jobs[j].createdAt
       /\ jobs[j].status = "PENDING" => jobs'[j].status \in {"PENDING", "PROCESSING"}
       /\ jobs[j].status = "PROCESSING" =>
            jobs'[j].status \in {"PROCESSING", "COMPLETED", "FAILED"}
       /\ jobs[j].status \in {"COMPLETED", "FAILED"} => jobs'[j] = jobs[j]]_vars

\* Every submitted job ends or is stranded, unless its import hangs or all
\* workers hang on others.
JobsSettle ==
  \A j \in Jobs :
    jobs[j].status = "PENDING" ~>
      \/ jobs[j].status \in {"COMPLETED", "FAILED"}
      \/ Stranded(j)
      \/ \E w \in Instances : wpc[w] = "hung" /\ cur[w] = j
      \/ \A w \in Instances : wpc[w] = "hung"

\* The queue implements the life of a job that JobLifecycle promises.
Phase(j) ==
  CASE jobs[j].status = "ABSENT"     -> "absent"
    [] jobs[j].status = "PENDING"    -> "queued"
    [] jobs[j].status = "COMPLETED"  -> "completed"
    [] jobs[j].status = "FAILED"     -> "failed"
    [] jobs[j].status = "PROCESSING" -> IF Stranded(j) THEN "lost" ELSE "running"

Lifecycle == INSTANCE JobLifecycle WITH
  Runners <- Instances,
  NoJob   <- None,
  phase   <- [j \in Jobs |-> Phase(j)],
  running <- [w \in Instances |-> IF Executing(w) THEN cur[w] ELSE None]

ImplementsLifecycle == Lifecycle!Spec

-----------------------------------------------------------------------------
(* What the documentation says and the code does not do.                   *)

\* readme.md: "Restart-safe job queue".  A job a worker has begun is finished
\* although the process dies and is started again.
RestartSafe ==
  \A j \in Jobs : jobs[j].status = "PROCESSING" ~>
                    jobs[j].status \in {"COMPLETED", "FAILED"}

\* API.md: the Idempotency-Key is optional.  Without failures an import that
\* gives none is not answered with an internal server error.
KeylessImportAccepted ==
  \A r \in Imports : idemKey[r] = NoKey /\ faults = 0 => response[r] # "500"
=============================================================================
