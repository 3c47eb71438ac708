--------------------------- MODULE JobQueueProofs ---------------------------
(***************************************************************************)
(* Proofs about JobQueue, for any sets of requests, processes and keys and *)
(* any number of failures.                                                 *)
(***************************************************************************)
EXTENDS JobQueue, TLAPS, FiniteSetTheorems

(***************************************************************************)
(* The inductive invariant.  HandlerInv relates a handler's local state to *)
(* the table and the bucket; WorkerInv relates a worker's local state to   *)
(* the row it holds and to the other workers.                              *)
(***************************************************************************)
HandlerInv ==
  /\ \A r \in Jobs : Exists(r) => pc[r] = "answered" /\ jobs[r].idemKey = idemKey[r]
  /\ \A r \in Jobs : pc[r] # "answered" => response[r] = "none"
  /\ \A r \in Jobs : server[r] # None => pc[r] \in {"validate", "upload", "insert"}
  /\ \A r \in Jobs : pc[r] \in {"validate", "upload"} => r \in Imports
  /\ \A r \in Imports : pc[r] \in {"upload", "insert"} => objKey[r] \in ObjKeys
  /\ \A r \in Imports : pc[r] = "insert" => source[objKey[r]] # None
  /\ \A r \in Imports : Exists(r) => jobs[r].sourceKey \in ObjKeys

WorkerInv ==
  /\ \A w \in Instances : wpc[w] \in {"idle", "down"} <=> cur[w] = None
  /\ \A w \in Instances : wpc[w] \in {"claiming", "open", "running", "hung"} =>
       mem[w].status = "PROCESSING"
  /\ \A w \in Instances : wpc[w] = "saving" => mem[w].status \in {"COMPLETED", "FAILED"}
  /\ \A j \in Jobs : jobs[j].status \in {"ABSENT", "PENDING"} => attempts[j] = 0

IInv == /\ TypeOK
        /\ HandlerInv
        /\ IdempotentSubmission
        /\ SourcePresent
        /\ WorkerInv
        /\ ExclusiveClaim
        /\ NoLostUpdate
        /\ AtMostOnce

USE DEF Status

LEMMA NoRowType == NoRow \in Row
BY QueueAssumption DEF NoRow, Row

LEMMA InitIInv == Init => IInv
<1> SUFFICES ASSUME Init PROVE IInv
  OBVIOUS
<1>1. TypeOK
  BY NoRowType DEF Init, TypeOK
<1>2. \A j \in Jobs : ~Exists(j)
  BY DEF Init, Exists, NoRow
<1>3. HandlerInv /\ IdempotentSubmission /\ SourcePresent
  BY <1>2, QueueAssumption DEF Init, HandlerInv, IdempotentSubmission, SourcePresent, Jobs
<1>4. WorkerInv /\ ExclusiveClaim /\ NoLostUpdate /\ AtMostOnce
  BY DEF Init, WorkerInv, ExclusiveClaim, NoLostUpdate, AtMostOnce
<1> QED BY <1>1, <1>3, <1>4 DEF IInv

LEMMA OutcomeType ==
  ASSUME TypeOK, NEW w \in Instances, NEW result \in BOOLEAN,
         NEW status \in {"COMPLETED", "FAILED"}, Outcome(w, status, result)
  PROVE  /\ mem' \in [Instances -> Row]
         /\ wpc' = [wpc EXCEPT ![w] = "saving"]
<1>1. [mem[w] EXCEPT !.status = status, !.resultKey = result] \in Row
  <2>1. mem[w] \in Row
    BY DEF TypeOK
  <2> QED BY <2>1 DEF Row
<1> QED BY <1>1 DEF Outcome, TypeOK

LEMMA CreateRowType ==
  ASSUME TypeOK, NEW r \in Jobs, CreateRow(r)
  PROVE  jobs' \in [Jobs -> Row]
BY DEF CreateRow, TypeOK, Row

\* A worker past its poll holds a job; the row it holds exists.
LEMMA Holder ==
  ASSUME IInv, NEW w \in Instances, wpc[w] \notin {"idle", "down"}
  PROVE  /\ cur[w] \in Jobs
         /\ Exists(cur[w])
         /\ mem[w] \in Row
         /\ cur[w] \in Imports => mem[w].sourceKey \in ObjKeys
<1>1. cur[w] \in Jobs /\ mem[w] \in Row
  BY DEF IInv, WorkerInv, TypeOK
<1>2. cur[w] # None
  BY <1>1, QueueAssumption
<1>3. Exists(cur[w])
  BY <1>2 DEF IInv, NoLostUpdate, Exists
<1>4. mem[w].sourceKey = jobs[cur[w]].sourceKey
  BY <1>2 DEF IInv, NoLostUpdate
<1> QED BY <1>1, <1>3, <1>4 DEF IInv, HandlerInv

LEMMA TypeStep == ASSUME IInv, [Next]_vars PROVE TypeOK'
<1> USE DEF IInv
<1>1. ASSUME NEW r \in Jobs, NEW w \in Instances, ArriveImport(r, w) PROVE TypeOK'
  BY <1>1, QueueAssumption DEF ArriveImport, Answer, Proceed, Fault,
     handlerVars, workerVars, historyVars, TypeOK
<1>2. ASSUME NEW r \in Jobs, NEW w \in Instances, ArriveExport(r, w) PROVE TypeOK'
  BY <1>2, QueueAssumption DEF ArriveExport, Answer, Proceed, handlerVars,
     workerVars, historyVars, TypeOK
<1>3. ASSUME NEW r \in Jobs, ValidateImport(r) PROVE TypeOK'
  BY <1>3, QueueAssumption DEF ValidateImport, Answer, Proceed, handlerVars,
     workerVars, historyVars, TypeOK
<1>4. ASSUME NEW r \in Jobs, Upload(r) PROVE TypeOK'
  BY <1>4, QueueAssumption DEF Upload, Proceed, HandlerInv, handlerVars, workerVars, historyVars, TypeOK
<1>5. ASSUME NEW r \in Jobs, Insert(r) PROVE TypeOK'
  BY <1>5, CreateRowType, QueueAssumption DEF Insert, Answer, handlerVars, workerVars, historyVars, TypeOK
<1>6. ASSUME NEW r \in Jobs, UploadFails(r) PROVE TypeOK'
  BY <1>6, QueueAssumption DEF UploadFails, Answer, Fault, HandlerInv, handlerVars, workerVars, historyVars, TypeOK
<1>7. ASSUME NEW r \in Jobs, InsertFails(r) PROVE TypeOK'
  BY <1>7, CreateRowType, QueueAssumption
     DEF InsertFails, Answer, Fault, handlerVars, workerVars, historyVars, TypeOK
<1>8. ASSUME NEW w \in Instances, Poll(w) PROVE TypeOK'
  <2>1. PICK j \in Claimable : /\ cur' = [cur EXCEPT ![w] = j]
                              /\ mem' = [mem EXCEPT ![w] = [jobs[j] EXCEPT !.status = "PROCESSING"]]
    BY <1>8 DEF Poll
  <2>2. j \in Jobs /\ jobs[j] \in Row
    BY DEF Claimable, TypeOK
  <2>3. [jobs[j] EXCEPT !.status = "PROCESSING"] \in Row
    BY <2>2 DEF Row
  <2> QED BY <1>8, <2>1, <2>2, <2>3 DEF Poll, handlerVars, workerVars, historyVars, TypeOK
<1>9. ASSUME NEW w \in Instances, Claim(w) PROVE TypeOK'
  <2>1. cur[w] \in Jobs
    BY <1>9, Holder DEF Claim
  <2> QED BY <1>9, <2>1 DEF Claim, Save, handlerVars, workerVars, historyVars, TypeOK
<1>10. ASSUME NEW w \in Instances, OpenSource(w) PROVE TypeOK'
  <2>1. cur[w] \in Jobs /\ mem[w].sourceKey \in ObjKeys
    BY <1>10, Holder DEF OpenSource
  <2>2. CASE source[mem[w].sourceKey] # None
    BY <1>10, <2>1, <2>2 DEF OpenSource, handlerVars, workerVars, historyVars, TypeOK
  <2>3. CASE source[mem[w].sourceKey] = None
    BY <1>10, <2>1, <2>3, OutcomeType DEF OpenSource, handlerVars, workerVars, historyVars, TypeOK
  <2> QED BY <2>2, <2>3
<1>11. ASSUME NEW w \in Instances, FinishImport(w) PROVE TypeOK'
  <2>1. cur[w] \in Jobs
    BY <1>11, Holder DEF FinishImport
  <2>2. mem' \in [Instances -> Row] /\ wpc' = [wpc EXCEPT ![w] = "saving"]
    BY <1>11, OutcomeType DEF FinishImport
  <2> QED BY <1>11, <2>1, <2>2 DEF FinishImport, Fault, handlerVars, workerVars, historyVars, TypeOK
<1>12. ASSUME NEW w \in Instances, HangImport(w) PROVE TypeOK'
  BY <1>12, QueueAssumption DEF HangImport, Fault, handlerVars, workerVars,
     historyVars, TypeOK
<1>13. ASSUME NEW w \in Instances, StartExport(w) PROVE TypeOK'
  BY <1>13, QueueAssumption DEF StartExport, Save, handlerVars, workerVars,
     historyVars, TypeOK
<1>14. ASSUME NEW w \in Instances, FinishExport(w) PROVE TypeOK'
  <2>1. cur[w] \in Jobs
    BY <1>14, Holder DEF FinishExport
  <2>2. mem' \in [Instances -> Row] /\ wpc' = [wpc EXCEPT ![w] = "saving"]
    BY <1>14, OutcomeType DEF FinishExport
  <2> QED BY <1>14, <2>1, <2>2 DEF FinishExport, handlerVars, workerVars, historyVars, TypeOK
<1>15. ASSUME NEW w \in Instances, Finish(w) PROVE TypeOK'
  BY <1>15, NoRowType DEF Finish, Save, Release, handlerVars, workerVars, historyVars, TypeOK
<1>16. ASSUME NEW w \in Instances, Restart(w) PROVE TypeOK'
  BY <1>16, QueueAssumption DEF Restart, handlerVars, workerVars, historyVars,
     TypeOK
<1>17. ASSUME NEW w \in Instances, ClaimFails(w) PROVE TypeOK'
  BY <1>17, NoRowType DEF ClaimFails, Save, Release, Fault, handlerVars, workerVars, historyVars, TypeOK
<1>18. ASSUME NEW w \in Instances, OpenFails(w) PROVE TypeOK'
  <2>1. cur[w] \in Jobs
    BY <1>18, Holder DEF OpenFails
  <2>2. mem' \in [Instances -> Row] /\ wpc' = [wpc EXCEPT ![w] = "saving"]
    BY <1>18, OutcomeType DEF OpenFails
  <2> QED BY <1>18, <2>1, <2>2 DEF OpenFails, Fault, handlerVars, workerVars, historyVars, TypeOK
<1>19. ASSUME NEW w \in Instances, FailExport(w) PROVE TypeOK'
  <2>1. cur[w] \in Jobs
    BY <1>19, Holder DEF FailExport
  <2>2. mem' \in [Instances -> Row] /\ wpc' = [wpc EXCEPT ![w] = "saving"]
    BY <1>19, OutcomeType DEF FailExport
  <2> QED BY <1>19, <2>1, <2>2 DEF FailExport, Fault, handlerVars, workerVars, historyVars, TypeOK
<1>20. ASSUME NEW w \in Instances, FinishFails(w) PROVE TypeOK'
  BY <1>20, NoRowType DEF FinishFails, Save, Release, Fault, handlerVars, workerVars, historyVars, TypeOK
<1>21. ASSUME NEW w \in Instances, Crash(w) PROVE TypeOK'
  BY <1>21, NoRowType DEF Crash, Fault, handlerVars, workerVars, historyVars, TypeOK
<1>22. CASE UNCHANGED vars
  BY <1>22 DEF vars, handlerVars, workerVars, historyVars, TypeOK
<1> QED
  BY <1>1, <1>2, <1>3, <1>4, <1>5, <1>6, <1>7, <1>8, <1>9, <1>10, <1>11,
     <1>12, <1>13, <1>14, <1>15, <1>16, <1>17, <1>18, <1>19, <1>20, <1>21,
     <1>22
     DEF Next, Handle, Work, Fail

(***************************************************************************)
(* What a handler leaves alone, and what a worker leaves alone.            *)
(***************************************************************************)
HandlerStep(r) == \/ \E w \in Instances : ArriveImport(r, w) \/ ArriveExport(r, w)
                  \/ Handle(r) \/ UploadFails(r) \/ InsertFails(r)

WorkerStep(w) == \/ Work(w) \/ Restart(w)
                 \/ ClaimFails(w) \/ OpenFails(w) \/ FailExport(w)
                 \/ FinishFails(w) \/ Crash(w)

LEMMA StepKinds ==
  ASSUME [Next]_vars
  PROVE  \/ \E r \in Jobs : HandlerStep(r)
         \/ \E w \in Instances : WorkerStep(w)
         \/ UNCHANGED vars
BY DEF Next, Fail, HandlerStep, WorkerStep

\* A handler only adds the row of its own job, which was not there.
LEMMA HandlerFrame ==
  ASSUME IInv, NEW r \in Jobs, HandlerStep(r)
  PROVE  /\ UNCHANGED <<wpc, cur, mem, attempts>>
         /\ \A j \in Jobs : \/ jobs'[j] = jobs[j]
                            \/ j = r /\ ~Exists(j) /\ jobs'[j].status = "PENDING"
<1>1. CASE \E w \in Instances : ArriveImport(r, w) \/ ArriveExport(r, w)
  BY <1>1 DEF ArriveImport, ArriveExport, workerVars, historyVars
<1>2. CASE ValidateImport(r) \/ Upload(r) \/ UploadFails(r)
  BY <1>2 DEF ValidateImport, Upload, UploadFails, workerVars, historyVars
<1>3. CASE Insert(r) \/ InsertFails(r)
  <2>1. pc[r] = "insert" /\ UNCHANGED <<wpc, cur, mem, attempts>>
    BY <1>3 DEF Insert, InsertFails, workerVars, historyVars
  <2>2. ~Exists(r)
    BY <2>1 DEF IInv, HandlerInv
  <2>3. CASE UNCHANGED jobs
    BY <2>1, <2>3
  <2>4. CASE CreateRow(r)
    BY <2>1, <2>2, <2>4 DEF CreateRow, IInv, TypeOK
  <2> QED BY <1>3, <2>3, <2>4 DEF Insert, InsertFails
<1> QED BY <1>1, <1>2, <1>3 DEF HandlerStep, Handle

\* A worker's save neither adds a row nor touches the columns of a submission.
LEMMA SaveKeeps ==
  ASSUME IInv, NEW w \in Instances, wpc[w] \notin {"idle", "down"}, Save(w)
  PROVE  \A j \in Jobs : /\ Exists(j)' <=> Exists(j)
                         /\ jobs'[j].idemKey = jobs[j].idemKey
                         /\ jobs'[j].sourceKey = jobs[j].sourceKey
                         /\ jobs'[j].createdAt = jobs[j].createdAt
<1>1. cur[w] \in Jobs /\ cur[w] # None /\ Exists(cur[w])
  BY Holder, QueueAssumption
<1>2. mem[w].status # "ABSENT"
  <2>1. wpc[w] \in {"claiming", "open", "running", "hung", "saving"}
    BY DEF IInv, TypeOK
  <2> QED BY <2>1 DEF IInv, WorkerInv
<1>3. /\ mem[w].idemKey = jobs[cur[w]].idemKey
      /\ mem[w].sourceKey = jobs[cur[w]].sourceKey
      /\ mem[w].createdAt = jobs[cur[w]].createdAt
  BY <1>1 DEF IInv, NoLostUpdate
<1>4. jobs' = [jobs EXCEPT ![cur[w]] = mem[w]] /\ jobs \in [Jobs -> Row]
  BY DEF Save, IInv, TypeOK
<1> QED BY <1>1, <1>2, <1>3, <1>4 DEF Exists

LEMMA WorkerFrame ==
  ASSUME IInv, NEW w \in Instances, WorkerStep(w)
  PROVE  /\ UNCHANGED <<idemKey, objKey, response, source>>
         /\ \A j \in Jobs : /\ Exists(j)' <=> Exists(j)
                            /\ jobs'[j].idemKey = jobs[j].idemKey
                            /\ jobs'[j].sourceKey = jobs[j].sourceKey
                            /\ jobs'[j].createdAt = jobs[j].createdAt
<1>1. UNCHANGED <<idemKey, objKey, response, source>>
  BY DEF WorkerStep, Work, Poll, Claim, OpenSource, FinishImport, HangImport,
         StartExport, FinishExport, Finish, Restart, ClaimFails, OpenFails,
         FailExport, FinishFails, Crash, handlerVars
<1>2. UNCHANGED jobs \/ (Save(w) /\ wpc[w] \notin {"idle", "down"})
  BY DEF WorkerStep, Work, Poll, Claim, OpenSource, FinishImport, HangImport,
         StartExport, FinishExport, Finish, Restart, ClaimFails, OpenFails,
         FailExport, FinishFails, Crash
<1>3. CASE UNCHANGED jobs
  BY <1>1, <1>3 DEF Exists
<1>4. CASE Save(w) /\ wpc[w] \notin {"idle", "down"}
  BY <1>1, <1>4, SaveKeeps
<1> QED BY <1>2, <1>3, <1>4

(***************************************************************************)
(* Submissions: HandlerInv, IdempotentSubmission and SourcePresent.        *)
(***************************************************************************)
SubmissionInv == HandlerInv /\ IdempotentSubmission /\ SourcePresent

\* Adding the row of a request that is about to insert, when its key is free.
LEMMA CreateKeepsKeys ==
  ASSUME IInv, NEW r \in Jobs, pc[r] = "insert", ~KeyTaken(idemKey[r]), CreateRow(r)
  PROVE  /\ \A j \in Jobs : j # r => jobs'[j] = jobs[j]
         /\ jobs'[r].status = "PENDING"
         /\ jobs'[r].idemKey = idemKey[r]
         /\ jobs'[r].sourceKey = objKey[r]
         /\ \A q, j \in Jobs : Exists(q)' /\ Exists(j)' /\ jobs'[q].idemKey = jobs'[j].idemKey
                                 => q = j
<1>1. PICK t \in Stamps :
        jobs' = [jobs EXCEPT ![r] = [status |-> "PENDING", idemKey |-> idemKey[r],
                                     sourceKey |-> objKey[r], resultKey |-> FALSE,
                                     createdAt |-> t]]
  BY DEF CreateRow
<1>2. /\ \A j \in Jobs : j # r => jobs'[j] = jobs[j]
      /\ jobs'[r].status = "PENDING"
      /\ jobs'[r].idemKey = idemKey[r]
      /\ jobs'[r].sourceKey = objKey[r]
  BY <1>1 DEF IInv, TypeOK
<1>3. \A j \in Jobs : Exists(j) => jobs[j].idemKey # idemKey[r]
  BY DEF KeyTaken
<1> QED BY <1>2, <1>3 DEF IInv, IdempotentSubmission, Exists

LEMMA SubmissionStep == ASSUME IInv, [Next]_vars PROVE SubmissionInv'
<1> USE DEF IInv
<1>1. ASSUME NEW r \in Jobs, NEW w \in Instances, ArriveImport(r, w)
      PROVE  SubmissionInv'
  <2>1. /\ UNCHANGED <<jobs, objKey, source>> /\ pc[r] = "new" /\ r \in Imports
        /\ \A q \in Jobs \ {r} : /\ pc'[q] = pc[q] /\ server'[q] = server[q]
                                 /\ idemKey'[q] = idemKey[q]
                                 /\ response'[q] = response[q]
    BY <1>1 DEF ArriveImport, Answer, Proceed, TypeOK
  <2>2. \/ /\ pc'[r] = "validate" /\ server'[r] = w /\ response'[r] = response[r]
        \/ /\ pc'[r] = "answered" /\ server'[r] = None /\ response'[r] = "409"
           /\ KeyTaken(idemKey'[r])
    BY <1>1 DEF ArriveImport, Answer, Proceed, TypeOK
  <2>3. ~Exists(r)
    BY <2>1 DEF HandlerInv
  <2>4. HandlerInv'
    BY <2>1, <2>2, <2>3 DEF HandlerInv, Exists, Jobs
  <2>5. IdempotentSubmission'
    BY <2>1, <2>2, <2>3 DEF IdempotentSubmission, Exists, KeyTaken, HandlerInv
  <2>6. SourcePresent'
    BY <2>1 DEF SourcePresent, Exists
  <2> QED BY <2>4, <2>5, <2>6 DEF SubmissionInv
<1>2. ASSUME NEW r \in Jobs, NEW w \in Instances, ArriveExport(r, w)
      PROVE  SubmissionInv'
  <2>1. /\ UNCHANGED <<jobs, objKey, source>> /\ pc[r] = "new" /\ r \in Exports
        /\ \A q \in Jobs \ {r} : /\ pc'[q] = pc[q] /\ server'[q] = server[q]
                                 /\ idemKey'[q] = idemKey[q]
                                 /\ response'[q] = response[q]
    BY <1>2 DEF ArriveExport, Answer, Proceed, TypeOK
  <2>2. \/ pc'[r] = "insert" /\ server'[r] = w /\ response'[r] = response[r]
        \/ pc'[r] = "answered" /\ server'[r] = None /\ response'[r] = "400"
    BY <1>2 DEF ArriveExport, Answer, Proceed, TypeOK
  <2>3. ~Exists(r) /\ r \notin Imports
    BY <2>1, QueueAssumption DEF HandlerInv
  <2>4. HandlerInv'
    BY <2>1, <2>2, <2>3 DEF HandlerInv, Exists, Jobs
  <2>5. IdempotentSubmission'
    BY <2>1, <2>2, <2>3 DEF IdempotentSubmission, Exists, HandlerInv
  <2>6. SourcePresent'
    BY <2>1 DEF SourcePresent, Exists
  <2> QED BY <2>4, <2>5, <2>6 DEF SubmissionInv
<1>3. ASSUME NEW r \in Jobs, ValidateImport(r) PROVE SubmissionInv'
  <2>1. /\ UNCHANGED <<jobs, idemKey, source>> /\ pc[r] = "validate" /\ r \in Imports
        /\ \A q \in Jobs \ {r} : /\ pc'[q] = pc[q] /\ server'[q] = server[q]
                                 /\ objKey'[q] = objKey[q]
                                 /\ response'[q] = response[q]
    BY <1>3 DEF ValidateImport, Answer, Proceed, TypeOK, HandlerInv
  <2>2. \/ pc'[r] = "upload" /\ objKey'[r] \in ObjKeys /\ response'[r] = response[r]
        \/ pc'[r] = "answered" /\ server'[r] = None /\ response'[r] = "400"
    BY <1>3 DEF ValidateImport, Answer, Proceed, TypeOK
  <2>3. HandlerInv'
    BY <2>1, <2>2 DEF HandlerInv, Exists, Jobs
  <2>4. IdempotentSubmission'
    BY <2>1, <2>2 DEF IdempotentSubmission, Exists, HandlerInv
  <2>5. SourcePresent'
    BY <2>1 DEF SourcePresent, Exists
  <2> QED BY <2>3, <2>4, <2>5 DEF SubmissionInv
<1>4. ASSUME NEW r \in Jobs, Upload(r) PROVE SubmissionInv'
  BY <1>4, QueueAssumption
     DEF Upload, Proceed, SubmissionInv, HandlerInv, IdempotentSubmission,
         SourcePresent, Exists, TypeOK
<1>5. ASSUME NEW r \in Jobs, UploadFails(r) PROVE SubmissionInv'
  BY <1>5, QueueAssumption
     DEF UploadFails, Answer, SubmissionInv, HandlerInv, IdempotentSubmission,
         SourcePresent, Exists, TypeOK
<1>6. ASSUME NEW r \in Jobs, Insert(r) \/ InsertFails(r) PROVE SubmissionInv'
  <2>1. /\ UNCHANGED <<idemKey, objKey, source>> /\ pc[r] = "insert"
        /\ \A q \in Jobs \ {r} : /\ pc'[q] = pc[q] /\ server'[q] = server[q]
                                 /\ response'[q] = response[q]
        /\ pc'[r] = "answered" /\ server'[r] = None
        /\ response'[r] \in {"202", "500"}
    BY <1>6 DEF Insert, InsertFails, Answer, TypeOK
  <2>2. ~Exists(r)
    BY <2>1 DEF HandlerInv
  <2>3. \/ UNCHANGED jobs /\ response'[r] = "500"
        \/ ~KeyTaken(idemKey[r]) /\ CreateRow(r)
    BY <1>6 DEF Insert, InsertFails, Answer, TypeOK
  <2>4. CASE UNCHANGED jobs /\ response'[r] = "500"
    <3>1. HandlerInv'
      BY <2>1, <2>2, <2>4 DEF HandlerInv, Exists, Jobs
    <3>2. IdempotentSubmission'
      BY <2>1, <2>4 DEF IdempotentSubmission, Exists, HandlerInv
    <3>3. SourcePresent'
      BY <2>1, <2>4 DEF SourcePresent, Exists
    <3> QED BY <3>1, <3>2, <3>3 DEF SubmissionInv
  <2>5. CASE ~KeyTaken(idemKey[r]) /\ CreateRow(r)
    <3>1. /\ \A j \in Jobs : j # r => jobs'[j] = jobs[j]
          /\ jobs'[r].status = "PENDING"
          /\ jobs'[r].idemKey = idemKey[r]
          /\ jobs'[r].sourceKey = objKey[r]
          /\ \A q, j \in Jobs :
               Exists(q)' /\ Exists(j)' /\ jobs'[q].idemKey = jobs'[j].idemKey => q = j
      BY <2>1, <2>5, CreateKeepsKeys
    <3>2. HandlerInv'
      BY <2>1, <2>2, <3>1 DEF HandlerInv, Exists, Jobs
    <3>3. IdempotentSubmission'
      <4>1. \A q \in Jobs : response'[q] = "202" => Exists(q)'
        BY <2>1, <3>1 DEF IdempotentSubmission, Exists, HandlerInv
      <4>2. \A q \in Jobs : response'[q] = "409" =>
              \E k \in Jobs \ {q} : Exists(k)' /\ jobs'[k].idemKey = idemKey'[q]
        BY <2>1, <2>2, <3>1 DEF IdempotentSubmission, Exists, HandlerInv
      <4> QED BY <3>1, <4>1, <4>2 DEF IdempotentSubmission
    <3>4. SourcePresent'
      BY <2>1, <3>1 DEF SourcePresent, Exists, HandlerInv, Jobs
    <3> QED BY <3>2, <3>3, <3>4 DEF SubmissionInv
  <2> QED BY <2>3, <2>4, <2>5
<1>7. ASSUME NEW w \in Instances, WorkerStep(w) PROVE SubmissionInv'
  <2>1. /\ UNCHANGED <<idemKey, objKey, response, source>>
        /\ \A j \in Jobs : /\ Exists(j)' <=> Exists(j)
                           /\ jobs'[j].idemKey = jobs[j].idemKey
                           /\ jobs'[j].sourceKey = jobs[j].sourceKey
    BY <1>7, WorkerFrame
  <2>2. HandlerInv'
    <3>1. CASE UNCHANGED <<pc, server>>
      BY <2>1, <3>1 DEF HandlerInv, Jobs
    <3>2. CASE Crash(w)
      BY <2>1, <3>2, QueueAssumption DEF HandlerInv, Crash, Jobs
    <3> QED
      BY <1>7, <3>1, <3>2
         DEF WorkerStep, Work, Poll, Claim, OpenSource, FinishImport, HangImport,
             StartExport, FinishExport, Finish, Restart, ClaimFails, OpenFails,
             FailExport, FinishFails, handlerVars
  <2>3. IdempotentSubmission'
    BY <2>1 DEF IdempotentSubmission
  <2>4. SourcePresent'
    BY <2>1 DEF SourcePresent, Jobs
  <2> QED BY <2>2, <2>3, <2>4 DEF SubmissionInv
<1>8. CASE UNCHANGED vars
  BY <1>8 DEF vars, handlerVars, SubmissionInv, HandlerInv, IdempotentSubmission,
              SourcePresent, Exists
<1> QED
  BY <1>1, <1>2, <1>3, <1>4, <1>5, <1>6, <1>7, <1>8, StepKinds
     DEF HandlerStep, Handle

(***************************************************************************)
(* Execution: WorkerInv, ExclusiveClaim, NoLostUpdate and AtMostOnce.      *)
(***************************************************************************)
ExecutionInv == WorkerInv /\ ExclusiveClaim /\ NoLostUpdate /\ AtMostOnce

\* The steps of executeJob between the claim and the final save keep the job
\* and leave the row as it was, or as it is in the struct.
LEMMA ExecuteStep ==
  ASSUME NEW w \in Instances, IInv,
         OpenSource(w) \/ OpenFails(w) \/ FinishImport(w) \/ HangImport(w)
           \/ StartExport(w) \/ FinishExport(w) \/ FailExport(w)
  PROVE  /\ UNCHANGED <<cur, attempts>>
         /\ jobs' = jobs \/ Save(w)
         /\ wpc[w] \in {"open", "running"}
         /\ wpc'[w] \in {"running", "hung", "saving"}
         /\ wpc'[w] \in {"running", "hung"} => mem'[w].status = "PROCESSING"
         /\ wpc'[w] = "saving" => mem'[w].status \in {"COMPLETED", "FAILED"}
         /\ mem'[w].idemKey = mem[w].idemKey
         /\ mem'[w].sourceKey = mem[w].sourceKey
         /\ mem'[w].createdAt = mem[w].createdAt
         /\ \A v \in Instances \ {w} : wpc'[v] = wpc[v] /\ mem'[v] = mem[v]
<1> USE DEF IInv, TypeOK, WorkerInv
<1>1. ASSUME NEW status \in {"COMPLETED", "FAILED"}, NEW result \in BOOLEAN,
             Outcome(w, status, result)
      PROVE  /\ wpc'[w] = "saving" /\ mem'[w].status = status
             /\ mem'[w].idemKey = mem[w].idemKey
             /\ mem'[w].sourceKey = mem[w].sourceKey
             /\ mem'[w].createdAt = mem[w].createdAt
             /\ \A v \in Instances \ {w} : wpc'[v] = wpc[v] /\ mem'[v] = mem[v]
  BY <1>1 DEF Outcome, Row
<1>2. CASE HangImport(w) \/ StartExport(w)
  BY <1>2 DEF HangImport, StartExport, historyVars
<1>3. CASE OpenSource(w)
  BY <1>1, <1>3 DEF OpenSource
<1>4. CASE OpenFails(w)
  BY <1>1, <1>4 DEF OpenFails, historyVars
<1>5. CASE FinishImport(w)
  BY <1>1, <1>5 DEF FinishImport, historyVars
<1>6. CASE FinishExport(w) \/ FailExport(w)
  BY <1>1, <1>6 DEF FinishExport, FailExport, historyVars
<1> QED BY <1>2, <1>3, <1>4, <1>5, <1>6

\* The steps after which the worker holds nothing, and where they leave a row.
LEMMA ReleaseStep ==
  ASSUME NEW w \in Instances, IInv,
         Finish(w) \/ FinishFails(w) \/ ClaimFails(w) \/ Crash(w)
  PROVE  /\ UNCHANGED attempts
         /\ jobs' = jobs \/ (cur[w] # None /\ Save(w))
         /\ wpc'[w] \in {"idle", "down"} /\ cur'[w] = None
         /\ \A v \in Instances \ {w} :
              wpc'[v] = wpc[v] /\ cur'[v] = cur[v] /\ mem'[v] = mem[v]
<1>1. CASE Crash(w)
  BY <1>1 DEF Crash, historyVars, IInv, TypeOK
<1>2. CASE Finish(w) \/ FinishFails(w) \/ ClaimFails(w)
  <2>1. cur[w] # None
    BY <1>2, Holder, QueueAssumption DEF Finish, FinishFails, ClaimFails
  <2> QED BY <1>2, <2>1 DEF Finish, FinishFails, ClaimFails, Release, historyVars, IInv, TypeOK
<1> QED BY <1>1, <1>2

\* The row after a save, and the rows it leaves alone.
LEMMA SavedRow ==
  ASSUME IInv, NEW w \in Instances, cur[w] # None, Save(w)
  PROVE  /\ cur[w] \in Jobs
         /\ jobs'[cur[w]] = mem[w]
         /\ mem[w].status \in {"PROCESSING", "COMPLETED", "FAILED"}
         /\ \A j \in Jobs \ {cur[w]} : jobs'[j] = jobs[j]
<1>1. cur[w] \in Jobs /\ wpc[w] \in {"claiming", "open", "running", "hung", "saving"}
  BY DEF IInv, TypeOK, WorkerInv
<1> QED BY <1>1 DEF Save, IInv, TypeOK, WorkerInv

LEMMA ExecutionStep == ASSUME IInv, [Next]_vars PROVE ExecutionInv'
<1> USE DEF IInv
<1>1. ASSUME NEW r \in Jobs, HandlerStep(r) PROVE ExecutionInv'
  <2>1. /\ UNCHANGED <<wpc, cur, mem, attempts>>
        /\ \A j \in Jobs : \/ jobs'[j] = jobs[j]
                           \/ ~Exists(j) /\ jobs'[j].status = "PENDING"
    BY <1>1, HandlerFrame
  <2>2. \A w \in Instances : cur[w] # None => cur[w] \in Jobs /\ jobs'[cur[w]] = jobs[cur[w]]
    <3>1. \A w \in Instances : cur[w] # None => cur[w] \in Jobs /\ Exists(cur[w])
      BY DEF TypeOK, NoLostUpdate, Exists
    <3> QED BY <2>1, <3>1
  <2>3. WorkerInv'
    BY <2>1 DEF WorkerInv, Exists
  <2>4. ExclusiveClaim' /\ AtMostOnce'
    BY <2>1 DEF ExclusiveClaim, AtMostOnce
  <2>5. NoLostUpdate'
    BY <2>1, <2>2 DEF NoLostUpdate, Executing
  <2> QED BY <2>3, <2>4, <2>5 DEF ExecutionInv
<1>2. ASSUME NEW w \in Instances, Poll(w) PROVE ExecutionInv'
  <2>1. PICK j \in Claimable :
          /\ cur' = [cur EXCEPT ![w] = j]
          /\ mem' = [mem EXCEPT ![w] = [jobs[j] EXCEPT !.status = "PROCESSING"]]
    BY <1>2 DEF Poll
  <2>2. /\ j \in Jobs /\ jobs[j].status = "PENDING" /\ ~Locked(j) /\ j # None
        /\ jobs[j] \in Row
    BY <2>1, QueueAssumption DEF Claimable, TypeOK
  <2>3. /\ wpc'[w] = "claiming" /\ cur'[w] = j
        /\ mem'[w].status = "PROCESSING"
        /\ mem'[w].idemKey = jobs[j].idemKey
        /\ mem'[w].sourceKey = jobs[j].sourceKey
        /\ mem'[w].createdAt = jobs[j].createdAt
    BY <1>2, <2>1, <2>2 DEF Poll, TypeOK, Row
  <2>4. /\ UNCHANGED <<jobs, attempts>>
        /\ \A v \in Instances \ {w} : wpc'[v] = wpc[v] /\ cur'[v] = cur[v] /\ mem'[v] = mem[v]
    BY <1>2, <2>1 DEF Poll, historyVars, TypeOK
  <2>5. \A v \in Instances : cur[v] # j
    <3> SUFFICES ASSUME NEW v \in Instances, cur[v] = j PROVE FALSE
      OBVIOUS
    <3>1. wpc[v] = "claiming"
      BY <2>2 DEF NoLostUpdate, WorkerInv, Executing, TypeOK
    <3> QED BY <2>2, <3>1 DEF Locked
  <2>6. WorkerInv'
    BY <2>2, <2>3, <2>4 DEF WorkerInv
  <2>7. ExclusiveClaim' /\ AtMostOnce'
    BY <2>3, <2>4, <2>5 DEF ExclusiveClaim, AtMostOnce
  <2>8. NoLostUpdate'
    BY <2>2, <2>3, <2>4 DEF NoLostUpdate, Executing
  <2> QED BY <2>6, <2>7, <2>8 DEF ExecutionInv
<1>3. ASSUME NEW w \in Instances, Claim(w) PROVE ExecutionInv'
  <2>1. cur[w] \in Jobs /\ cur[w] # None /\ jobs[cur[w]].status = "PENDING"
    BY <1>3, Holder, QueueAssumption DEF Claim, NoLostUpdate, Executing
  <2>2. jobs'[cur[w]] = mem[w] /\ \A j \in Jobs \ {cur[w]} : jobs'[j] = jobs[j]
    BY <1>3, <2>1, SavedRow DEF Claim
  <2>3. /\ UNCHANGED <<cur, mem>> /\ wpc'[w] = "open" /\ wpc[w] = "claiming"
        /\ \A v \in Instances \ {w} : wpc'[v] = wpc[v]
        /\ attempts[cur[w]] = 0 /\ attempts'[cur[w]] = 1
        /\ \A j \in Jobs \ {cur[w]} : attempts'[j] = attempts[j]
    BY <1>3, <2>1 DEF Claim, TypeOK, WorkerInv
  <2>4. WorkerInv'
    BY <2>1, <2>2, <2>3 DEF WorkerInv
  <2>5. ExclusiveClaim' /\ AtMostOnce'
    BY <2>1, <2>3 DEF ExclusiveClaim, AtMostOnce
  <2>6. NoLostUpdate'
    BY <2>1, <2>2, <2>3 DEF NoLostUpdate, Executing, ExclusiveClaim, WorkerInv, TypeOK
  <2> QED BY <2>4, <2>5, <2>6 DEF ExecutionInv
<1>4. ASSUME NEW w \in Instances,
             OpenSource(w) \/ OpenFails(w) \/ FinishImport(w) \/ HangImport(w)
               \/ StartExport(w) \/ FinishExport(w) \/ FailExport(w)
      PROVE  ExecutionInv'
  <2>1. /\ UNCHANGED <<cur, attempts>>
        /\ jobs' = jobs \/ Save(w)
        /\ wpc[w] \in {"open", "running"}
        /\ wpc'[w] \in {"running", "hung", "saving"}
        /\ wpc'[w] \in {"running", "hung"} => mem'[w].status = "PROCESSING"
        /\ wpc'[w] = "saving" => mem'[w].status \in {"COMPLETED", "FAILED"}
        /\ mem'[w].idemKey = mem[w].idemKey
        /\ mem'[w].sourceKey = mem[w].sourceKey
        /\ mem'[w].createdAt = mem[w].createdAt
        /\ \A v \in Instances \ {w} : wpc'[v] = wpc[v] /\ mem'[v] = mem[v]
    BY <1>4, ExecuteStep
  <2>2. cur[w] \in Jobs /\ cur[w] # None /\ jobs[cur[w]].status = "PROCESSING"
    BY <2>1, Holder, QueueAssumption DEF NoLostUpdate, Executing
  <2>3. /\ jobs'[cur[w]].status = "PROCESSING"
        /\ jobs'[cur[w]].idemKey = mem[w].idemKey
        /\ jobs'[cur[w]].sourceKey = mem[w].sourceKey
        /\ jobs'[cur[w]].createdAt = mem[w].createdAt
        /\ \A j \in Jobs \ {cur[w]} : jobs'[j] = jobs[j]
    BY <2>1, <2>2, SavedRow DEF NoLostUpdate, WorkerInv
  <2>4. WorkerInv'
    BY <2>1, <2>2, <2>3 DEF WorkerInv
  <2>5. ExclusiveClaim' /\ AtMostOnce'
    BY <2>1 DEF ExclusiveClaim, AtMostOnce
  <2>6. NoLostUpdate'
    BY <2>1, <2>2, <2>3 DEF NoLostUpdate, Executing, ExclusiveClaim, TypeOK
  <2> QED BY <2>4, <2>5, <2>6 DEF ExecutionInv
<1>5. ASSUME NEW w \in Instances, Finish(w) \/ FinishFails(w) \/ ClaimFails(w) \/ Crash(w)
      PROVE  ExecutionInv'
  <2>1. /\ UNCHANGED attempts
        /\ jobs' = jobs \/ (cur[w] # None /\ Save(w))
        /\ wpc'[w] \in {"idle", "down"} /\ cur'[w] = None
        /\ \A v \in Instances \ {w} :
             wpc'[v] = wpc[v] /\ cur'[v] = cur[v] /\ mem'[v] = mem[v]
    BY <1>5, ReleaseStep
  <2>2. \A j \in Jobs : \/ jobs'[j] = jobs[j]
                        \/ /\ cur[w] # None /\ j = cur[w]
                           /\ jobs'[j].status \in {"PROCESSING", "COMPLETED", "FAILED"}
    BY <2>1, SavedRow
  <2>3. WorkerInv'
    BY <2>1, <2>2 DEF WorkerInv
  <2>4. ExclusiveClaim' /\ AtMostOnce'
    BY <2>1 DEF ExclusiveClaim, AtMostOnce
  <2>5. NoLostUpdate'
    BY <2>1, <2>2 DEF NoLostUpdate, Executing, ExclusiveClaim, TypeOK
  <2> QED BY <2>3, <2>4, <2>5 DEF ExecutionInv
<1>6. ASSUME NEW w \in Instances, Restart(w) PROVE ExecutionInv'
  BY <1>6 DEF Restart, historyVars, ExecutionInv, WorkerInv, ExclusiveClaim, NoLostUpdate,
              AtMostOnce, Executing, TypeOK
<1>7. CASE UNCHANGED vars
  BY <1>7 DEF vars, workerVars, historyVars, ExecutionInv, WorkerInv, ExclusiveClaim,
              NoLostUpdate, AtMostOnce, Executing
<1> QED
  BY <1>1, <1>2, <1>3, <1>4, <1>5, <1>6, <1>7, StepKinds DEF WorkerStep, Work

(***************************************************************************)
(* The safety theorems.                                                    *)
(***************************************************************************)

\* Every reachable state satisfies the inductive invariant.
THEOREM Invariance == Spec => []IInv
<1>1. Init => IInv
  BY InitIInv
<1>2. IInv /\ [Next]_vars => IInv'
  BY TypeStep, SubmissionStep, ExecutionStep DEF IInv, SubmissionInv, ExecutionInv
<1> QED BY <1>1, <1>2, PTL DEF Spec

\* Type correctness of the queue.
THEOREM TypeCorrect == Spec => []TypeOK
<1>1. IInv => TypeOK
  BY DEF IInv
<1> QED BY <1>1, Invariance, PTL

\* FOR UPDATE SKIP LOCKED and the committed status together keep any number of
\* workers from ever holding one job twice (dispatcher.go, processNextJob).
THEOREM ClaimsAreExclusive == Spec => []ExclusiveClaim
<1>1. IInv => ExclusiveClaim
  BY DEF IInv
<1> QED BY <1>1, Invariance, PTL

\* Whatever fails, no job is executed a second time.
THEOREM ExecutedAtMostOnce == Spec => []AtMostOnce
<1>1. IInv => AtMostOnce
  BY DEF IInv
<1> QED BY <1>1, Invariance, PTL

\* The whole-row saves of executeJob and processExport overwrite no column that
\* somebody else changed.
THEOREM SavesLoseNothing == Spec => []NoLostUpdate
<1>1. IInv => NoLostUpdate
  BY DEF IInv
<1> QED BY <1>1, Invariance, PTL

\* CreateImportJob's check-then-insert and its answers are safe under any
\* interleaving of requests: one job per key, 202 and 409 tell the truth.
THEOREM SubmissionIsIdempotent == Spec => []IdempotentSubmission
<1>1. IInv => IdempotentSubmission
  BY DEF IInv
<1> QED BY <1>1, Invariance, PTL

\* The upload precedes the row, so a visible import has its source object.
THEOREM SourceIsThere == Spec => []SourcePresent
<1>1. IInv => SourcePresent
  BY DEF IInv
<1> QED BY <1>1, Invariance, PTL

(***************************************************************************)
(* Rows only advance.                                                      *)
(***************************************************************************)
Advance(j) ==
  /\ jobs'[j].idemKey = jobs[j].idemKey
  /\ jobs'[j].sourceKey = jobs[j].sourceKey
  /\ jobs'[j].createdAt = jobs[j].createdAt
  /\ jobs[j].status = "PENDING" => jobs'[j].status \in {"PENDING", "PROCESSING"}
  /\ jobs[j].status = "PROCESSING" =>
       jobs'[j].status \in {"PROCESSING", "COMPLETED", "FAILED"}
  /\ jobs[j].status \in {"COMPLETED", "FAILED"} => jobs'[j] = jobs[j]

\* A worker that saves writes a status that follows the row's.
LEMMA SaveAdvances ==
  ASSUME IInv, NEW w \in Instances, WorkerStep(w), NEW j \in Jobs, Exists(j)
  PROVE  Advance(j)
<1>1. /\ jobs'[j].idemKey = jobs[j].idemKey
      /\ jobs'[j].sourceKey = jobs[j].sourceKey
      /\ jobs'[j].createdAt = jobs[j].createdAt
  BY WorkerFrame
<1>2. CASE UNCHANGED jobs
  BY <1>1, <1>2 DEF Advance
<1>3. CASE Save(w) /\ wpc[w] \notin {"idle", "down"}
  <2>1. cur[w] \in Jobs /\ cur[w] # None
    BY <1>3, Holder, QueueAssumption
  <2>2. /\ jobs'[cur[w]] = mem[w]
        /\ \A k \in Jobs \ {cur[w]} : jobs'[k] = jobs[k]
    BY <1>3, <2>1, SavedRow
  <2>3. /\ jobs[cur[w]].status = "PENDING" => mem[w].status = "PROCESSING"
        /\ mem[w].status \in {"PROCESSING", "COMPLETED", "FAILED"}
        /\ jobs[cur[w]].status \in {"PENDING", "PROCESSING"}
    BY <1>3, <2>1, SavedRow DEF IInv, NoLostUpdate, WorkerInv, Executing, TypeOK
  <2> QED BY <1>1, <2>2, <2>3 DEF Advance
<1>4. UNCHANGED jobs \/ (Save(w) /\ wpc[w] \notin {"idle", "down"})
  BY DEF WorkerStep, Work, Poll, Claim, OpenSource, FinishImport, HangImport,
         StartExport, FinishExport, Finish, Restart, ClaimFails, OpenFails,
         FailExport, FinishFails, Crash
<1> QED BY <1>2, <1>3, <1>4

LEMMA AdvanceStep ==
  ASSUME IInv, [Next]_vars, NEW j \in Jobs, Exists(j)
  PROVE  Advance(j)
<1>1. ASSUME NEW r \in Jobs, HandlerStep(r) PROVE Advance(j)
  <2>1. jobs'[j] = jobs[j]
    BY <1>1, HandlerFrame
  <2> QED BY <2>1 DEF Advance
<1>2. ASSUME NEW w \in Instances, WorkerStep(w) PROVE Advance(j)
  BY <1>2, SaveAdvances
<1>3. CASE UNCHANGED vars
  BY <1>3 DEF vars, Advance
<1> QED BY <1>1, <1>2, <1>3, StepKinds

\* What a submission fixed stays, and a status never goes back: a client polling
\* GET /v1/imports/:id sees PENDING, PROCESSING and then one final answer.
THEOREM RowsAdvance == Spec => RowsOnlyAdvance
<1>1. IInv /\ [Next]_vars => [\A j \in Jobs : Exists(j) => Advance(j)]_vars
  BY AdvanceStep
<1>2. (\A j \in Jobs : Exists(j) => Advance(j)) =>
        \A j \in Jobs : Exists(j) =>
          /\ jobs'[j].idemKey = jobs[j].idemKey
          /\ jobs'[j].sourceKey = jobs[j].sourceKey
          /\ jobs'[j].createdAt = jobs[j].createdAt
          /\ jobs[j].status = "PENDING" => jobs'[j].status \in {"PENDING", "PROCESSING"}
          /\ jobs[j].status = "PROCESSING" =>
               jobs'[j].status \in {"PROCESSING", "COMPLETED", "FAILED"}
          /\ jobs[j].status \in {"COMPLETED", "FAILED"} => jobs'[j] = jobs[j]
  BY DEF Advance
<1> QED BY <1>1, <1>2, Invariance, PTL DEF Spec, RowsOnlyAdvance

(***************************************************************************)
(* JobQueue implements JobLifecycle.                                       *)
(***************************************************************************)
phaseOf   == [j \in Jobs |-> Phase(j)]
runningOf == [w \in Instances |-> IF Executing(w) THEN cur[w] ELSE None]

LEMMA PhaseValues ==
  ASSUME TypeOK, NEW j \in Jobs
  PROVE  /\ jobs[j].status = "ABSENT" => Phase(j) = "absent"
         /\ jobs[j].status = "PENDING" => Phase(j) = "queued"
         /\ jobs[j].status = "COMPLETED" => Phase(j) = "completed"
         /\ jobs[j].status = "FAILED" => Phase(j) = "failed"
         /\ jobs[j].status = "PROCESSING" /\ Stranded(j) => Phase(j) = "lost"
         /\ jobs[j].status = "PROCESSING" /\ ~Stranded(j) => Phase(j) = "running"
BY DEF Phase

LEMMA PhaseValuesNext ==
  ASSUME TypeOK', NEW j \in Jobs
  PROVE  /\ jobs'[j].status = "ABSENT" => Phase(j)' = "absent"
         /\ jobs'[j].status = "PENDING" => Phase(j)' = "queued"
         /\ jobs'[j].status = "COMPLETED" => Phase(j)' = "completed"
         /\ jobs'[j].status = "FAILED" => Phase(j)' = "failed"
         /\ jobs'[j].status = "PROCESSING" /\ Stranded(j)' => Phase(j)' = "lost"
         /\ jobs'[j].status = "PROCESSING" /\ ~Stranded(j)' => Phase(j)' = "running"
BY DEF Phase

\* A job keeps its phase when its status and its executing worker stay.
LEMMA SamePhase ==
  ASSUME NEW j \in Jobs, jobs'[j].status = jobs[j].status, Stranded(j)' = Stranded(j)
  PROVE  Phase(j)' = Phase(j)
BY DEF Phase

LEMMA LifecycleInit == Init => Lifecycle!Init
<1> SUFFICES ASSUME Init PROVE Lifecycle!Init
  OBVIOUS
<1>1. TypeOK
  BY InitIInv DEF IInv
<1>2. \A j \in Jobs : Phase(j) = "absent"
  BY <1>1, PhaseValues DEF Init, NoRow
<1>3. \A w \in Instances : ~Executing(w)
  BY DEF Init, Executing
<1> QED BY <1>2, <1>3 DEF Lifecycle!Init

\* Two helpers: a step that moves nothing, and a step that moves one job.
LEMMA LifecycleStutter ==
  ASSUME \A j \in Jobs : Phase(j)' = Phase(j),
         \A w \in Instances :
           (IF Executing(w) THEN cur[w] ELSE None)' = IF Executing(w) THEN cur[w] ELSE None
  PROVE  UNCHANGED Lifecycle!lifecycle
BY DEF Lifecycle!lifecycle

LEMMA PhaseUpdate ==
  ASSUME NEW j \in Jobs, NEW p, Phase(j)' = p,
         \A k \in Jobs \ {j} : Phase(k)' = Phase(k)
  PROVE  phaseOf' = [phaseOf EXCEPT ![j] = p]
BY DEF phaseOf

LEMMA RunningUpdate ==
  ASSUME NEW w \in Instances, NEW j,
         (IF Executing(w) THEN cur[w] ELSE None)' = j,
         \A v \in Instances \ {w} :
           (IF Executing(v) THEN cur[v] ELSE None)' = IF Executing(v) THEN cur[v] ELSE None
  PROVE  runningOf' = [runningOf EXCEPT ![w] = j]
BY DEF runningOf

\* A handler's step submits its job or changes no phase.
LEMMA HandlerImplements ==
  ASSUME IInv, TypeOK', NEW r \in Jobs, HandlerStep(r)
  PROVE  Lifecycle!Submit(r) \/ UNCHANGED Lifecycle!lifecycle
<1>1. /\ UNCHANGED <<wpc, cur>>
      /\ \A j \in Jobs : \/ jobs'[j] = jobs[j]
                         \/ j = r /\ ~Exists(j) /\ jobs'[j].status = "PENDING"
  BY HandlerFrame
<1>2. runningOf' = runningOf
  BY <1>1 DEF runningOf, Executing
<1>3. \A j \in Jobs : jobs'[j] = jobs[j] => Phase(j)' = Phase(j)
  BY <1>1, SamePhase DEF Stranded, Executing
<1>4. CASE jobs'[r] = jobs[r]
  <2>1. phaseOf' = phaseOf
    BY <1>1, <1>3, <1>4 DEF phaseOf
  <2> QED BY <1>2, <2>1 DEF Lifecycle!lifecycle, phaseOf, runningOf
<1>5. CASE ~Exists(r) /\ jobs'[r].status = "PENDING"
  <2>1. Phase(r) = "absent" /\ Phase(r)' = "queued"
    BY <1>5, PhaseValues, PhaseValuesNext DEF Exists, IInv
  <2>2. phaseOf' = [phaseOf EXCEPT ![r] = "queued"]
    BY <1>1, <1>3, <2>1, PhaseUpdate
  <2> QED BY <1>2, <2>1, <2>2 DEF Lifecycle!Submit, phaseOf, runningOf
<1> QED BY <1>1, <1>4, <1>5

\* Claiming the row is what starts the job.
LEMMA ClaimImplements ==
  ASSUME IInv, TypeOK', NEW w \in Instances, Claim(w)
  PROVE  \E c \in Jobs : Lifecycle!Start(w, c)
<1>1. PICK c \in Jobs : c = cur[w]
  BY Holder DEF Claim
<1>2. c # None /\ wpc[w] = "claiming" /\ ~Executing(w) /\ jobs[c].status = "PENDING"
  BY <1>1, QueueAssumption DEF Claim, Executing, IInv, NoLostUpdate
<1>3. /\ jobs'[c].status = "PROCESSING"
      /\ \A j \in Jobs \ {c} : jobs'[j] = jobs[j]
  BY <1>1, <1>2, SavedRow DEF Claim, IInv, WorkerInv
<1>4. /\ UNCHANGED cur /\ wpc'[w] = "open"
      /\ \A v \in Instances \ {w} : wpc'[v] = wpc[v]
  BY DEF Claim, IInv, TypeOK
<1>5. Phase(c) = "queued"
  BY <1>2, PhaseValues DEF IInv
<1>6. Phase(c)' = "running"
  <2>1. ~Stranded(c)'
    BY <1>1, <1>4 DEF Stranded, Executing
  <2> QED BY <1>3, <2>1, PhaseValuesNext
<1>7. \A j \in Jobs \ {c} : Phase(j)' = Phase(j)
  <2> SUFFICES ASSUME NEW j \in Jobs \ {c} PROVE Phase(j)' = Phase(j)
    OBVIOUS
  <2>1. Stranded(j)' = Stranded(j)
    BY <1>1, <1>3, <1>4 DEF Stranded, Executing
  <2> QED BY <1>3, <2>1, SamePhase
<1>8. phaseOf' = [phaseOf EXCEPT ![c] = "running"]
  BY <1>6, <1>7, PhaseUpdate
<1>9. runningOf' = [runningOf EXCEPT ![w] = c]
  BY <1>1, <1>4, RunningUpdate DEF Executing
<1> QED BY <1>2, <1>5, <1>8, <1>9 DEF Lifecycle!Start, phaseOf, runningOf

\* Polling, the steps of an execution and a restart change no phase.
LEMMA ExecuteImplements ==
  ASSUME IInv, TypeOK', NEW w \in Instances,
         OpenSource(w) \/ OpenFails(w) \/ FinishImport(w) \/ HangImport(w)
           \/ StartExport(w) \/ FinishExport(w) \/ FailExport(w)
  PROVE  UNCHANGED Lifecycle!lifecycle
<1>1. /\ UNCHANGED cur /\ (jobs' = jobs \/ Save(w))
      /\ wpc[w] \in {"open", "running"} /\ wpc'[w] \in {"running", "hung", "saving"}
      /\ \A v \in Instances \ {w} : wpc'[v] = wpc[v]
  BY ExecuteStep
<1>2. \A v \in Instances : Executing(v)' = Executing(v)
  BY <1>1 DEF Executing
<1>3. \A j \in Jobs : jobs'[j].status = jobs[j].status
  <2>1. cur[w] # None
    BY <1>1, Holder, QueueAssumption
  <2>2. mem[w].status = "PROCESSING" /\ jobs[cur[w]].status = "PROCESSING"
    BY <1>1, <2>1 DEF IInv, WorkerInv, NoLostUpdate, Executing
  <2> QED BY <1>1, <2>1, <2>2, SavedRow
<1>4. \A j \in Jobs : Phase(j)' = Phase(j)
  BY <1>1, <1>2, <1>3, SamePhase DEF Stranded
<1> QED BY <1>1, <1>2, <1>4, LifecycleStutter

LEMMA PollImplements ==
  ASSUME IInv, TypeOK', NEW w \in Instances, Poll(w) \/ Restart(w)
  PROVE  UNCHANGED Lifecycle!lifecycle
<1>1. /\ UNCHANGED jobs
      /\ ~Executing(w) /\ wpc'[w] \in {"claiming", "idle"}
      /\ \A v \in Instances \ {w} : wpc'[v] = wpc[v] /\ cur'[v] = cur[v]
  BY DEF Poll, Restart, Executing, IInv, TypeOK
<1>2. \A v \in Instances : /\ Executing(v)' = Executing(v)
                           /\ Executing(v) => cur'[v] = cur[v]
  BY <1>1 DEF Executing
<1>3. \A j \in Jobs : Phase(j)' = Phase(j)
  BY <1>1, <1>2, SamePhase DEF Stranded
<1> QED BY <1>2, <1>3, LifecycleStutter

\* The final save finishes the job; a lost save or a crash abandons it; a claim
\* committed without the worker learning of it loses it.
LEMMA ReleaseImplements ==
  ASSUME IInv, TypeOK', NEW w \in Instances,
         Finish(w) \/ FinishFails(w) \/ ClaimFails(w) \/ Crash(w)
  PROVE  \/ \E j \in Jobs : \/ Lifecycle!Finish(w, j)
                            \/ Lifecycle!Abandon(w, j)
                            \/ Lifecycle!LoseClaim(j)
         \/ UNCHANGED Lifecycle!lifecycle
<1>1. /\ jobs' = jobs \/ (cur[w] # None /\ Save(w))
      /\ wpc'[w] \in {"idle", "down"} /\ cur'[w] = None
      /\ \A v \in Instances \ {w} : wpc'[v] = wpc[v] /\ cur'[v] = cur[v]
  BY ReleaseStep
<1>2. ~Executing(w)' /\ \A v \in Instances \ {w} : Executing(v)' = Executing(v)
  BY <1>1 DEF Executing
<1>3. \A j \in Jobs : j # cur[w] => Phase(j)' = Phase(j)
  <2> SUFFICES ASSUME NEW j \in Jobs, j # cur[w] PROVE Phase(j)' = Phase(j)
    OBVIOUS
  <2>1. jobs'[j] = jobs[j]
    BY <1>1, SavedRow
  <2>2. Stranded(j)' = Stranded(j)
    BY <1>1, <1>2, <2>1 DEF Stranded
  <2> QED BY <2>1, <2>2, SamePhase
<1>4. CASE cur[w] = None
  <2>1. \A j \in Jobs : Phase(j)' = Phase(j)
    BY <1>3, <1>4, QueueAssumption
  <2> QED BY <1>1, <1>2, <1>4, <2>1, LifecycleStutter
<1>5. CASE cur[w] # None
  <2>1. PICK c \in Jobs : c = cur[w]
    BY <1>5 DEF IInv, TypeOK
  <2>2. \A k \in Jobs \ {c} : Phase(k)' = Phase(k)
    BY <1>3, <2>1
  <2>3. Stranded(c)' <=> jobs'[c].status = "PROCESSING"
    BY <1>1, <1>2, <1>5, <2>1 DEF Stranded, IInv, ExclusiveClaim
  <2>4. wpc[w] = "claiming" \/ Executing(w)
    BY <1>5 DEF IInv, WorkerInv, TypeOK, Executing
  <2>5. CASE Executing(w)
    <3>1. runningOf' = [runningOf EXCEPT ![w] = None]
      BY <1>1, <1>2, RunningUpdate
    <3>2. jobs[c].status = "PROCESSING" /\ runningOf[w] = c
      BY <1>5, <2>1, <2>5 DEF IInv, NoLostUpdate, runningOf
    <3>3. jobs'[c].status \in {"PROCESSING", "COMPLETED", "FAILED"}
      BY <1>1, <2>1, <3>2, SavedRow
    <3>4. Phase(c)' \in {"lost", "completed", "failed"}
      BY <2>3, <3>3, PhaseValuesNext
    <3>5. phaseOf' = [phaseOf EXCEPT ![c] = Phase(c)']
      BY <2>2, PhaseUpdate
    <3>6. Lifecycle!Finish(w, c) \/ Lifecycle!Abandon(w, c)
      BY <3>1, <3>2, <3>4, <3>5
         DEF Lifecycle!Finish, Lifecycle!Abandon, phaseOf, runningOf
    <3> QED BY <3>6
  <2>6. CASE wpc[w] = "claiming"
    <3>1. ~Executing(w) /\ runningOf' = runningOf
      BY <1>1, <1>2, <2>6 DEF Executing, runningOf
    <3>2. jobs[c].status = "PENDING" /\ Phase(c) = "queued"
      BY <1>5, <2>1, <3>1, PhaseValues DEF IInv, NoLostUpdate
    <3>3. jobs'[c].status \in {"PENDING", "PROCESSING"}
      BY <1>1, <1>5, <2>1, <2>6, <3>2, SavedRow DEF IInv, WorkerInv
    <3>4. Phase(c)' \in {"queued", "lost"}
      BY <2>3, <3>3, PhaseValuesNext
    <3>5. phaseOf' = [phaseOf EXCEPT ![c] = Phase(c)']
      BY <2>2, PhaseUpdate
    <3>6. CASE Phase(c)' = "lost"
      <4>1. Lifecycle!LoseClaim(c)
        BY <3>1, <3>2, <3>5, <3>6 DEF Lifecycle!LoseClaim, phaseOf, runningOf
      <4> QED BY <4>1
    <3>7. CASE Phase(c)' = "queued"
      <4>1. phaseOf' = phaseOf
        BY <2>2, <3>2, <3>7 DEF phaseOf
      <4> QED BY <3>1, <4>1 DEF Lifecycle!lifecycle, phaseOf, runningOf
    <3> QED BY <3>4, <3>6, <3>7
  <2> QED BY <2>4, <2>5, <2>6
<1> QED BY <1>4, <1>5

LEMMA LifecycleStep ==
  ASSUME IInv, TypeOK', [Next]_vars
  PROVE  [Lifecycle!Next]_Lifecycle!lifecycle
<1>1. ASSUME NEW r \in Jobs, HandlerStep(r)
      PROVE  [Lifecycle!Next]_Lifecycle!lifecycle
  BY <1>1, HandlerImplements DEF Lifecycle!Next
<1>2. ASSUME NEW w \in Instances, WorkerStep(w)
      PROVE  [Lifecycle!Next]_Lifecycle!lifecycle
  <2>1. CASE Claim(w)
    BY <2>1, ClaimImplements DEF Lifecycle!Next
  <2>2. CASE Poll(w) \/ Restart(w)
    BY <2>2, PollImplements
  <2>3. CASE \/ OpenSource(w) \/ OpenFails(w) \/ FinishImport(w) \/ HangImport(w)
             \/ StartExport(w) \/ FinishExport(w) \/ FailExport(w)
    BY <2>3, ExecuteImplements
  <2>4. CASE Finish(w) \/ FinishFails(w) \/ ClaimFails(w) \/ Crash(w)
    BY <2>4, ReleaseImplements DEF Lifecycle!Next
  <2> QED BY <1>2, <2>1, <2>2, <2>3, <2>4 DEF WorkerStep, Work
<1>3. CASE UNCHANGED vars
  <2>1. \A w \in Instances : Executing(w)' = Executing(w)
    BY <1>3 DEF vars, workerVars, Executing
  <2>2. \A j \in Jobs : Phase(j)' = Phase(j)
    BY <1>3, <2>1, SamePhase DEF vars, workerVars, Stranded
  <2> QED BY <1>3, <2>1, <2>2, LifecycleStutter DEF vars, workerVars
<1> QED BY <1>1, <1>2, <1>3, StepKinds

\* Rows, locks, claims, saves, crashes and lost acknowledgements together do
\* what JobLifecycle promises: one runner per job, at most one run, final ends.
THEOREM Implementation == Spec => ImplementsLifecycle
<1>1. Init => Lifecycle!Init
  BY LifecycleInit
<1>2. IInv /\ IInv' /\ [Next]_vars => [Lifecycle!Next]_Lifecycle!lifecycle
  BY LifecycleStep DEF IInv
<1> QED BY <1>1, <1>2, Invariance, PTL DEF Spec, ImplementsLifecycle, Lifecycle!Spec

(***************************************************************************)
(* Results.                                                                *)
(***************************************************************************)

\* A struct says ResultKey only when its worker is about to save it, and then
\* as truthfully as the row must.
Truthful(j, status) ==
  /\ status \in {"COMPLETED", "FAILED"}
  /\ j \in Exports => status = "COMPLETED" /\ j \in resultStored
  /\ j \notin resultStored => faults > 0

StructHonest ==
  \A w \in Instances : cur[w] # None /\ mem[w].resultKey =>
    wpc[w] = "saving" /\ Truthful(cur[w], mem[w].status)

ResultInv == IInv /\ ResultHonest /\ StructHonest

\* What was stored stays stored and what failed has failed.
LEMMA TruthLasts ==
  ASSUME IInv, [Next]_vars, NEW j \in Jobs, NEW status, Truthful(j, status)
  PROVE  Truthful(j, status)'
<1>1. faults \in Nat
  BY DEF IInv, TypeOK
<1>2. resultStored \subseteq resultStored' /\ faults' \in {faults, faults + 1}
  BY DEF Next, Handle, Work, Fail, ArriveImport, ArriveExport, ValidateImport, Upload,
         UploadFails, Insert, InsertFails, Poll, Claim, OpenSource, FinishImport,
         HangImport, StartExport, FinishExport, Finish, Restart, ClaimFails, OpenFails,
         FailExport, FinishFails, Crash, Fault, vars
<1>3. faults > 0 => faults' > 0
  BY <1>1, <1>2
<1> QED BY <1>2, <1>3 DEF Truthful

\* The steps that end an execution set ResultKey truthfully.
LEMMA OutcomeHonest ==
  ASSUME IInv, StructHonest, NEW w \in Instances, cur[w] # None,
         OpenSource(w) \/ OpenFails(w) \/ FinishImport(w) \/ HangImport(w)
           \/ StartExport(w) \/ FinishExport(w) \/ FailExport(w),
         mem'[w].resultKey
  PROVE  wpc'[w] = "saving" /\ Truthful(cur[w], mem[w].status)'
<1> USE DEF IInv, TypeOK
<1>1. ~mem[w].resultKey /\ faults \in Nat /\ UNCHANGED cur
  BY ExecuteStep DEF StructHonest
<1>2. ASSUME NEW status \in {"COMPLETED", "FAILED"}, NEW result \in BOOLEAN,
             Outcome(w, status, result)
      PROVE  wpc'[w] = "saving" /\ mem'[w].status = status /\ mem'[w].resultKey = result
  BY <1>2 DEF Outcome, Row
<1>3. CASE HangImport(w) \/ StartExport(w)
  BY <1>1, <1>3 DEF HangImport, StartExport
<1>4. CASE OpenSource(w) \/ OpenFails(w) \/ FailExport(w)
  BY <1>1, <1>2, <1>4 DEF OpenSource, OpenFails, FailExport
<1>5. CASE FinishImport(w)
  <2>1. PICK status \in {"COMPLETED", "FAILED"}, rowsFailed \in BOOLEAN :
          /\ Outcome(w, status, rowsFailed)
          /\ \/ resultStored' = IF rowsFailed THEN resultStored \cup {cur[w]} ELSE resultStored
             \/ Fault("s3")
    BY <1>5 DEF FinishImport
  <2>2. wpc'[w] = "saving" /\ mem'[w].status = status /\ rowsFailed
    BY <1>2, <2>1
  <2>3. cur[w] \in resultStored' \/ faults' > 0
    BY <1>1, <2>1, <2>2 DEF Fault
  <2>4. cur[w] \notin Exports
    BY <1>5, QueueAssumption DEF FinishImport
  <2> QED BY <1>1, <2>2, <2>3, <2>4 DEF Truthful
<1>6. CASE FinishExport(w)
  <2>1. wpc'[w] = "saving" /\ mem'[w].status = "COMPLETED" /\ cur[w] \in resultStored'
    BY <1>2, <1>6 DEF FinishExport
  <2> QED BY <1>1, <2>1 DEF Truthful
<1> QED BY <1>3, <1>4, <1>5, <1>6

LEMMA RowsTruthful ==
  ResultHonest <=> \A j \in Jobs : jobs[j].resultKey => Truthful(j, jobs[j].status)
BY DEF ResultHonest, Truthful

LEMMA RowsTruthfulNext ==
  ResultHonest' <=> \A j \in Jobs : jobs'[j].resultKey => Truthful(j, jobs[j].status)'
BY DEF ResultHonest, Truthful

LEMMA ResultStep ==
  ASSUME ResultInv, [Next]_vars
  PROVE  ResultHonest' /\ StructHonest'
<1> USE DEF ResultInv
<1>1. ASSUME NEW j \in Jobs, NEW k \in Jobs, jobs'[j] = jobs[k], j = k, jobs'[j].resultKey
      PROVE  Truthful(j, jobs[j].status)'
  <2>1. Truthful(j, jobs[j].status)
    BY <1>1, RowsTruthful
  <2>2. PICK status : status = jobs[j].status
    OBVIOUS
  <2>3. Truthful(j, status)'
    BY <2>1, <2>2, TruthLasts
  <2> QED BY <1>1, <2>2, <2>3 DEF Truthful
<1>2. ASSUME NEW v \in Instances, wpc'[v] = wpc[v], cur'[v] = cur[v], mem'[v] = mem[v],
             cur[v] # None, mem[v].resultKey
      PROVE  wpc'[v] = "saving" /\ Truthful(cur[v], mem[v].status)'
  <2>1. wpc[v] = "saving" /\ Truthful(cur[v], mem[v].status) /\ cur[v] \in Jobs
    BY <1>2 DEF StructHonest, IInv, TypeOK
  <2>2. PICK c \in Jobs : c = cur[v]
    BY <2>1
  <2>3. PICK status : status = mem[v].status
    OBVIOUS
  <2>4. Truthful(c, status)'
    BY <2>1, <2>2, <2>3, TruthLasts
  <2> QED BY <1>2, <2>1, <2>2, <2>3, <2>4 DEF Truthful
<1>3. ASSUME NEW w \in Instances, cur[w] # None, Save(w),
             mem[w].resultKey => wpc[w] = "saving"
      PROVE  ResultHonest'
  <2>1. PICK c \in Jobs : c = cur[w]
    BY <1>3, SavedRow
  <2>2. jobs'[c] = mem[w] /\ \A j \in Jobs \ {c} : jobs'[j] = jobs[j]
    BY <1>3, <2>1, SavedRow
  <2>3. mem[w].resultKey => Truthful(c, mem[w].status)
    BY <1>3, <2>1 DEF StructHonest
  <2>4. PICK status : status = mem[w].status
    OBVIOUS
  <2>5. mem[w].resultKey => Truthful(c, status)'
    BY <2>3, <2>4, TruthLasts
  <2>6. jobs'[c].resultKey => Truthful(c, jobs[c].status)'
    BY <2>2, <2>4, <2>5 DEF Truthful
  <2> QED BY <1>1, <2>2, <2>6, RowsTruthfulNext
<1>4. ASSUME UNCHANGED jobs PROVE ResultHonest'
  BY <1>1, <1>4, RowsTruthfulNext
<1>5. ASSUME NEW r \in Jobs, HandlerStep(r) PROVE ResultHonest' /\ StructHonest'
  <2>1. UNCHANGED <<wpc, cur, mem>>
    BY <1>5, HandlerFrame
  <2>2. \A j \in Jobs : jobs'[j].resultKey => jobs'[j] = jobs[j]
    <3>1. CASE UNCHANGED jobs
      BY <3>1
    <3>2. CASE CreateRow(r)
      BY <3>2 DEF CreateRow, IInv, TypeOK
    <3> QED
      BY <1>5, <3>1, <3>2
         DEF HandlerStep, Handle, ArriveImport, ArriveExport, ValidateImport, Upload,
             UploadFails, Insert, InsertFails
  <2>3. ResultHonest'
    BY <1>1, <2>2, RowsTruthfulNext
  <2>4. StructHonest'
    BY <1>2, <2>1 DEF StructHonest
  <2> QED BY <2>3, <2>4
<1>6. ASSUME NEW w \in Instances, Poll(w) PROVE ResultHonest' /\ StructHonest'
  <2>1. PICK j \in Claimable :
          mem' = [mem EXCEPT ![w] = [jobs[j] EXCEPT !.status = "PROCESSING"]]
    BY <1>6 DEF Poll
  <2>2. jobs[j] \in Row /\ ~jobs[j].resultKey
    BY <2>1 DEF Claimable, ResultHonest, IInv, TypeOK
  <2>3. ~mem'[w].resultKey
    BY <2>1, <2>2 DEF IInv, TypeOK, Row
  <2>4. \A v \in Instances \ {w} : wpc'[v] = wpc[v] /\ cur'[v] = cur[v] /\ mem'[v] = mem[v]
    BY <1>6, <2>1 DEF Poll, IInv, TypeOK
  <2>5. StructHonest'
    BY <1>2, <2>3, <2>4 DEF StructHonest
  <2> QED BY <1>4, <1>6, <2>5 DEF Poll
<1>7. ASSUME NEW w \in Instances, Claim(w) PROVE ResultHonest' /\ StructHonest'
  <2>1. cur[w] # None /\ ~mem[w].resultKey /\ UNCHANGED <<cur, mem>>
    BY <1>7, Holder, QueueAssumption DEF Claim, StructHonest
  <2>2. \A v \in Instances \ {w} : wpc'[v] = wpc[v]
    BY <1>7 DEF Claim, IInv, TypeOK
  <2>3. StructHonest'
    BY <1>2, <2>1, <2>2 DEF StructHonest
  <2> QED BY <1>3, <1>7, <2>1, <2>3 DEF Claim
<1>8. ASSUME NEW w \in Instances,
             OpenSource(w) \/ OpenFails(w) \/ FinishImport(w) \/ HangImport(w)
               \/ StartExport(w) \/ FinishExport(w) \/ FailExport(w)
      PROVE  ResultHonest' /\ StructHonest'
  <2>1. /\ UNCHANGED cur /\ (jobs' = jobs \/ Save(w))
        /\ wpc[w] \in {"open", "running"}
        /\ \A v \in Instances \ {w} : wpc'[v] = wpc[v] /\ mem'[v] = mem[v]
    BY <1>8, ExecuteStep
  <2>2. cur[w] # None /\ ~mem[w].resultKey
    BY <2>1, Holder, QueueAssumption DEF StructHonest
  <2>3. ResultHonest'
    BY <1>3, <1>4, <2>1, <2>2
  <2>4. mem'[w].resultKey => wpc'[w] = "saving" /\ Truthful(cur[w], mem[w].status)'
    BY <1>8, <2>2, OutcomeHonest
  <2>5. StructHonest'
    BY <1>2, <2>1, <2>4 DEF StructHonest
  <2> QED BY <2>3, <2>5
<1>9. ASSUME NEW w \in Instances, Finish(w) \/ FinishFails(w) \/ ClaimFails(w) \/ Crash(w)
      PROVE  ResultHonest' /\ StructHonest'
  <2>1. /\ jobs' = jobs \/ (cur[w] # None /\ Save(w))
        /\ cur'[w] = None
        /\ \A v \in Instances \ {w} :
             wpc'[v] = wpc[v] /\ cur'[v] = cur[v] /\ mem'[v] = mem[v]
    BY <1>9, ReleaseStep
  <2>2. cur[w] # None /\ mem[w].resultKey => wpc[w] = "saving"
    BY DEF StructHonest
  <2>3. ResultHonest'
    BY <1>3, <1>4, <2>1, <2>2
  <2>4. StructHonest'
    BY <1>2, <2>1 DEF StructHonest
  <2> QED BY <2>3, <2>4
<1>10. ASSUME NEW w \in Instances, Restart(w) PROVE ResultHonest' /\ StructHonest'
  <2>1. /\ UNCHANGED <<jobs, cur, mem>> /\ cur[w] = None
        /\ \A v \in Instances \ {w} : wpc'[v] = wpc[v]
    BY <1>10 DEF Restart, IInv, WorkerInv, TypeOK
  <2>2. StructHonest'
    BY <1>2, <2>1 DEF StructHonest
  <2> QED BY <1>4, <2>1, <2>2
<1>11. CASE UNCHANGED vars
  <2>1. UNCHANGED <<jobs, wpc, cur, mem>>
    BY <1>11 DEF vars, workerVars
  <2>2. StructHonest'
    BY <1>2, <2>1 DEF StructHonest
  <2> QED BY <1>4, <2>1, <2>2
<1> QED
  BY <1>5, <1>6, <1>7, <1>8, <1>9, <1>10, <1>11, StepKinds DEF WorkerStep, Work

\* A finished job's ResultKey can be trusted: a completed export has its file,
\* and a link is dangling only if some failure happened.
THEOREM ResultsAreHonest == Spec => []ResultHonest
<1>1. Init => ResultHonest /\ StructHonest
  BY DEF Init, ResultHonest, StructHonest, NoRow
<1>2. IInv /\ IInv' /\ (ResultHonest /\ StructHonest) /\ [Next]_vars =>
        (ResultHonest /\ StructHonest)'
  BY ResultStep DEF ResultInv
<1> QED BY <1>1, <1>2, Invariance, PTL DEF Spec

(***************************************************************************)
(* One failure, one job.                                                   *)
(***************************************************************************)
StrandedJobs == {j \in Jobs : Stranded(j)}

\* The set is finite although there may be infinitely many jobs.
FewStranded == IsFiniteSet(StrandedJobs) /\ Cardinality(StrandedJobs) <= faults

\* Only the job a worker holds can be stranded by its step.
LEMMA OnlyItsOwnJob ==
  ASSUME IInv, NEW w \in Instances,
         \A j \in Jobs \ {cur[w]} : jobs'[j] = jobs[j],
         \A v \in Instances \ {w} : wpc'[v] = wpc[v] /\ cur'[v] = cur[v]
  PROVE  StrandedJobs' \subseteq StrandedJobs \cup {cur[w]}
<1> SUFFICES ASSUME NEW j \in Jobs, Stranded(j)', j # cur[w] PROVE Stranded(j)
  BY DEF StrandedJobs
<1>1. jobs[j].status = "PROCESSING"
  BY DEF Stranded
<1>2. ASSUME NEW v \in Instances, cur[v] = j, Executing(v) PROVE FALSE
  BY <1>2 DEF Stranded, Executing
<1> QED BY <1>1, <1>2 DEF Stranded

\* While a worker goes on executing its job, or when it has saved a final status,
\* the job is not stranded.
LEMMA HeldIsNotStranded ==
  ASSUME NEW w \in Instances, cur[w] \in Jobs,
         \/ cur'[w] = cur[w] /\ Executing(w)'
         \/ jobs'[cur[w]].status \in {"COMPLETED", "FAILED"}
  PROVE  cur[w] \notin StrandedJobs'
  BY DEF StrandedJobs, Stranded

LEMMA HandlerStrandsNobody ==
  ASSUME IInv, NEW r \in Jobs, HandlerStep(r)
  PROVE  StrandedJobs' \subseteq StrandedJobs
<1>1. /\ UNCHANGED <<wpc, cur>>
      /\ \A j \in Jobs : jobs'[j] = jobs[j] \/ jobs'[j].status = "PENDING"
  BY HandlerFrame
<1> QED BY <1>1 DEF StrandedJobs, Stranded, Executing

LEMMA WorkerStrandsOne ==
  ASSUME IInv, NEW w \in Instances, WorkerStep(w)
  PROVE  /\ StrandedJobs' \subseteq StrandedJobs \cup {cur[w]}
         /\ StrandedJobs' \subseteq StrandedJobs \/ faults' = faults + 1
<1>1. CASE Poll(w) \/ Restart(w)
  <2>1. /\ jobs' = jobs
        /\ wpc[w] \in {"idle", "down"} /\ wpc'[w] \in {"claiming", "idle"}
        /\ \A v \in Instances \ {w} : wpc'[v] = wpc[v] /\ cur'[v] = cur[v]
    BY <1>1 DEF Poll, Restart, workerVars, IInv, TypeOK
  <2>2. StrandedJobs' \subseteq StrandedJobs
    BY <2>1 DEF StrandedJobs, Stranded, Executing
  <2> QED BY <2>2
<1>2. CASE Claim(w)
  <2>1. cur[w] \in Jobs /\ cur[w] # None
    BY <1>2, Holder, QueueAssumption DEF Claim
  <2>2. \A j \in Jobs \ {cur[w]} : jobs'[j] = jobs[j]
    BY <1>2, <2>1, SavedRow DEF Claim
  <2>3. /\ cur' = cur /\ wpc'[w] = "open"
        /\ \A v \in Instances \ {w} : wpc'[v] = wpc[v]
    BY <1>2 DEF Claim, IInv, TypeOK
  <2>4. cur[w] \notin StrandedJobs'
    BY <2>1, <2>3, HeldIsNotStranded DEF Executing
  <2> QED BY <2>2, <2>3, <2>4, OnlyItsOwnJob
<1>3. CASE OpenSource(w) \/ OpenFails(w) \/ FinishImport(w) \/ HangImport(w)
             \/ StartExport(w) \/ FinishExport(w) \/ FailExport(w)
  <2>1. /\ cur' = cur /\ wpc[w] \in {"open", "running"}
        /\ jobs' = jobs \/ Save(w)
        /\ wpc'[w] \in {"running", "hung", "saving"}
        /\ \A v \in Instances \ {w} : wpc'[v] = wpc[v]
    BY <1>3, ExecuteStep
  <2>2. cur[w] \in Jobs /\ cur[w] # None
    BY <2>1, Holder, QueueAssumption
  <2>3. \A j \in Jobs \ {cur[w]} : jobs'[j] = jobs[j]
    BY <2>1, <2>2, SavedRow
  <2>4. cur[w] \notin StrandedJobs'
    BY <2>1, <2>2, HeldIsNotStranded DEF Executing
  <2> QED BY <2>1, <2>3, <2>4, OnlyItsOwnJob
<1>4. CASE Finish(w) \/ FinishFails(w) \/ ClaimFails(w) \/ Crash(w)
  <2>1. /\ jobs' = jobs \/ (cur[w] # None /\ Save(w))
        /\ \A v \in Instances \ {w} : wpc'[v] = wpc[v] /\ cur'[v] = cur[v]
    BY <1>4, ReleaseStep
  <2>2. \A j \in Jobs \ {cur[w]} : jobs'[j] = jobs[j]
    BY <2>1, SavedRow
  <2>3. StrandedJobs' \subseteq StrandedJobs \cup {cur[w]}
    BY <2>1, <2>2, OnlyItsOwnJob
  <2>4. CASE Finish(w)
    <3>1. cur[w] \in Jobs /\ cur[w] # None
      BY <2>4, Holder, QueueAssumption DEF Finish
    <3>2. jobs'[cur[w]].status \in {"COMPLETED", "FAILED"}
      BY <2>4, <3>1, SavedRow DEF Finish, IInv, WorkerInv
    <3>3. cur[w] \notin StrandedJobs'
      BY <3>1, <3>2, HeldIsNotStranded
    <3> QED BY <2>3, <3>3
  <2>5. CASE FinishFails(w) \/ ClaimFails(w) \/ Crash(w)
    BY <2>3, <2>5 DEF FinishFails, ClaimFails, Crash, Fault
  <2> QED BY <1>4, <2>4, <2>5
<1> QED BY <1>1, <1>2, <1>3, <1>4 DEF WorkerStep, Work

LEMMA FaultsGrow ==
  ASSUME TypeOK, [Next]_vars
  PROVE  faults \in Nat /\ (faults' = faults \/ faults' = faults + 1)
<1>1. faults \in Nat
  BY DEF TypeOK
<1>2. ASSUME NEW r \in Jobs, HandlerStep(r) PROVE faults' = faults \/ faults' = faults + 1
  BY <1>2 DEF HandlerStep, Handle, ArriveImport, ArriveExport, ValidateImport, Upload, Insert,
              UploadFails, InsertFails, Fault
<1>3. ASSUME NEW w \in Instances, WorkerStep(w) PROVE faults' = faults \/ faults' = faults + 1
  BY <1>3 DEF WorkerStep, Work, Poll, Claim, OpenSource, FinishImport, HangImport,
              StartExport, FinishExport, Finish, Restart, ClaimFails, OpenFails,
              FailExport, FinishFails, Crash, Fault
<1> QED BY <1>1, <1>2, <1>3, StepKinds DEF vars

\* However many jobs and processes there are, a failure strands one job at most.
THEOREM FaultsStrandOneJob == Spec => []OneFaultOneJob
<1>1. Init => FewStranded
  <2> SUFFICES ASSUME Init PROVE FewStranded
    OBVIOUS
  <2>1. StrandedJobs = {} /\ faults = 0
    BY DEF Init, StrandedJobs, Stranded, NoRow
  <2> QED BY <2>1, FS_EmptySet DEF FewStranded
<1>2. IInv /\ FewStranded /\ [Next]_vars => FewStranded'
  <2> SUFFICES ASSUME IInv, FewStranded, [Next]_vars PROVE FewStranded'
    OBVIOUS
  <2>1. faults \in Nat /\ (faults' = faults \/ faults' = faults + 1)
    BY FaultsGrow DEF IInv
  <2>2. IsFiniteSet(StrandedJobs) /\ Cardinality(StrandedJobs) \in Nat
        /\ Cardinality(StrandedJobs) <= faults
    BY FS_CardinalityType DEF FewStranded
  <2>3. CASE StrandedJobs' \subseteq StrandedJobs
    <3>1. /\ IsFiniteSet(StrandedJobs')
          /\ Cardinality(StrandedJobs') <= Cardinality(StrandedJobs)
      BY <2>2, <2>3, FS_Subset
    <3>2. Cardinality(StrandedJobs') \in Nat
      BY <3>1, FS_CardinalityType
    <3> QED BY <2>1, <2>2, <3>1, <3>2 DEF FewStranded
  <2>4. ASSUME NEW j, StrandedJobs' \subseteq StrandedJobs \cup {j}, faults' = faults + 1
        PROVE  FewStranded'
    <3>1. /\ IsFiniteSet(StrandedJobs \cup {j})
          /\ Cardinality(StrandedJobs \cup {j}) <= Cardinality(StrandedJobs) + 1
          /\ Cardinality(StrandedJobs \cup {j}) \in Nat
      <4>1. /\ IsFiniteSet(StrandedJobs \cup {j})
            /\ Cardinality(StrandedJobs \cup {j}) =
                 IF j \in StrandedJobs THEN Cardinality(StrandedJobs)
                                       ELSE Cardinality(StrandedJobs) + 1
        BY <2>2, FS_AddElement
      <4> QED BY <2>2, <4>1
    <3>2. /\ IsFiniteSet(StrandedJobs')
          /\ Cardinality(StrandedJobs') <= Cardinality(StrandedJobs \cup {j})
      BY <2>4, <3>1, FS_Subset
    <3>3. Cardinality(StrandedJobs') \in Nat
      BY <3>2, FS_CardinalityType
    <3> QED BY <2>1, <2>2, <2>4, <3>1, <3>2, <3>3 DEF FewStranded
  <2>5. ASSUME NEW r \in Jobs, HandlerStep(r) PROVE FewStranded'
    BY <2>3, <2>5, HandlerStrandsNobody
  <2>6. ASSUME NEW w \in Instances, WorkerStep(w) PROVE FewStranded'
    BY <2>3, <2>4, <2>6, WorkerStrandsOne
  <2>7. CASE UNCHANGED vars
    <3>1. StrandedJobs' = StrandedJobs
      BY <2>7 DEF vars, workerVars, StrandedJobs, Stranded, Executing
    <3> QED BY <2>3, <3>1
  <2> QED BY <2>5, <2>6, <2>7, StepKinds
<1>3. FewStranded => OneFaultOneJob
  BY DEF FewStranded, StrandedJobs, OneFaultOneJob
<1> QED BY <1>1, <1>2, <1>3, Invariance, PTL DEF Spec
=============================================================================
