----------------------------- MODULE MCJobQueue -----------------------------
(* Instances of JobQueue small enough for TLC.                             *)
EXTENDS JobQueue, TLC

\* Processes are interchangeable, and so are the imports when none is poison:
\* no action or property tells them apart.
Interchangeable == Permutations(Instances) \cup Permutations(Imports)
=============================================================================
