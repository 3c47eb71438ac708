---------------------------- MODULE JobLifecycle ----------------------------
(***************************************************************************)
(* What the bulk import/export queue promises, without rows, locks, S3 or  *)
(* HTTP: a job is submitted once, at most one runner ever runs it, it ends *)
(* completed or failed and stays so, or it is lost: its status row says    *)
(* PROCESSING and nobody works on it any more.  JobQueue implements this.  *)
(***************************************************************************)
CONSTANTS Jobs,       \* the jobs that may be submitted
          Runners,    \* the workers
          NoJob       \* what an idle runner holds

VARIABLES phase,      \* phase[j]: where the job stands
          running     \* running[w]: the job the runner executes, or NoJob

lifecycle == <<phase, running>>

Phases == {"absent", "queued", "running", "completed", "failed", "lost"}

Init == /\ phase = [j \in Jobs |-> "absent"]
        /\ running = [w \in Runners |-> NoJob]

Submit(j) == /\ phase[j] = "absent"
             /\ phase' = [phase EXCEPT ![j] = "queued"]
             /\ UNCHANGED running

Start(w, j) == /\ running[w] = NoJob
               /\ phase[j] = "queued"
               /\ phase' = [phase EXCEPT ![j] = "running"]
               /\ running' = [running EXCEPT ![w] = j]

Finish(w, j) == /\ running[w] = j
                /\ \E outcome \in {"completed", "failed"} :
                     phase' = [phase EXCEPT ![j] = outcome]
                /\ running' = [running EXCEPT ![w] = NoJob]

\* The runner disappears, or cannot record how the job ended.
Abandon(w, j) == /\ running[w] = j
                 /\ phase' = [phase EXCEPT ![j] = "lost"]
                 /\ running' = [running EXCEPT ![w] = NoJob]

\* The claim is recorded but the runner never learns it owns the job.
LoseClaim(j) == /\ phase[j] = "queued"
                /\ phase' = [phase EXCEPT ![j] = "lost"]
                /\ UNCHANGED running

Next == \E j \in Jobs :
           \/ Submit(j)
           \/ LoseClaim(j)
           \/ \E w \in Runners : Start(w, j) \/ Finish(w, j) \/ Abandon(w, j)

Spec == Init /\ [][Next]_lifecycle

=============================================================================
