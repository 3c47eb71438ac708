---------------------------- MODULE ImportProofs -----------------------------
(***************************************************************************)
(* Proofs about ImportJob, for files, batches and error reports of any     *)
(* size, and any number of attempts and failures.                          *)
(***************************************************************************)
EXTENDS ImportJob, TLAPS, SequenceTheorems, FiniteSetTheorems

(***************************************************************************)
(* The inductive invariant.  A record that was taken is in the batch or    *)
(* has been counted, and a row of the batch has gone into the database     *)
(* only when a commit was reported as failed.                              *)
(***************************************************************************)

Emails == {Row(i).ref : i \in Taken}

\* Where the importer stands, and what it has not done yet.
PlaceInv ==
  /\ next <= Len(file.rows)
  /\ Flushing \/ pc = "read" => file.format # "unknown"
  /\ ret = "none" <=> pc \notin {"report", "returned"}
  /\ ret = "ok" => batch = <<>>
  /\ pc \in {"detect", "read"} => Len(batch) < BatchSize
  /\ pc # "returned" => ~resultKey /\ ~reportStored

\* The batch has distinct rows that were taken, and users with distinct e-mails,
\* which are the ones seen.
BatchInv ==
  /\ Len(batch) <= BatchSize
  /\ Batch \subseteq Taken
  /\ \A k, l \in DOMAIN batch : k # l => batch[k] # batch[l]
  /\ file.resource = "articles" => batch = <<>>
  /\ file.resource = "users" =>
       /\ \A e \in Keys : e \in seen <=> \E k \in DOMAIN batch : Row(batch[k]).ref = e
       /\ \A k, l \in DOMAIN batch : k # l => Row(batch[k]).ref # Row(batch[l]).ref
  /\ keyed => Flushing /\ file.resource = "comments" /\ faults > 0

\* The rows of a batch go into the database together and once.
StoredInv ==
  /\ \A i \in RowIds : stored[i] \in {0, 1} /\ (i > next => stored[i] = 0)
  /\ \/ \A i \in Batch : stored[i] = 0
     \/ keyed /\ \A i \in Batch : stored[i] = 1

\* RowsCounted while the import goes on: what waits in the batch will be counted.
CountInv ==
  /\ IsFiniteSet(Emails)
  /\ file.resource = "users" =>
       /\ failed = 0
       /\ Cardinality(Emails) <= processed + Len(batch)
       /\ processed + Len(batch) <= Cardinality(Taken)
  /\ file.resource = "articles" => processed + failed = Cardinality(Taken)
  /\ file.resource = "comments" =>
       /\ Cardinality(Taken) <= processed + Len(batch) + failed
       /\ processed + Len(batch) <= Cardinality(Taken)

\* CompletedIsComplete while the import goes on: what waits will be stored.
Undisturbed == faults = 0 /\ \A i \in Taken : Row(i).kind # "refused"
Kept(i)     == stored[i] = 1 \/ i \in Batch

CompleteInv ==
  Undisturbed => \A i \in Taken :
    IF file.resource = "users"
    THEN \E j \in Taken : Row(j).ref = Row(i).ref /\ Kept(j)
    ELSE Kept(i) <=> Row(i).ref \in Known

LogInv == logged = IF failed <= MaxErrorLogCount THEN failed ELSE MaxErrorLogCount

IInv == ImportTypeOK /\ PlaceInv /\ BatchInv /\ StoredInv /\ CountInv
          /\ CompleteInv /\ LogInv /\ ErrorsReported
-----------------------------------------------------------------------------
(***************************************************************************)
(* What has been read.                                                     *)
(***************************************************************************)

LEMMA FileType ==
  ASSUME ImportTypeOK
  PROVE  /\ file.rows \in Seq(Record) /\ Len(file.rows) \in 0..MaxRows
         /\ \A i \in 1..Len(file.rows) : Row(i).ref \in Keys /\ i \in RowIds
         /\ file.resource \in {"users", "articles", "comments"}
         /\ file.format \in {"csv", "ndjson", "array", "unknown"} /\ file.ending \in Ending
<1>1. /\ file.rows \in UNION {[1..n -> Record] : n \in 0..MaxRows}
      /\ file.resource \in {"users", "articles", "comments"}
      /\ file.format \in {"csv", "ndjson", "array", "unknown"} /\ file.ending \in Ending
  BY DEF ImportTypeOK, Files
<1>2. PICK n \in 0..MaxRows : file.rows \in [1..n -> Record]
  BY <1>1
<1>3. n \in Nat /\ MaxRows \in Nat
  BY ImportAssumption
<1>4. file.rows \in Seq(Record) /\ Len(file.rows) = n
  BY <1>2, <1>3, LenProperties
<1>5. \A i \in 1..n : Row(i) \in Record
  BY <1>2 DEF Row
<1>6. \A i \in 1..n : Row(i).ref \in Keys /\ i \in RowIds
  BY <1>3, <1>5 DEF Record, RowIds
<1> QED BY <1>1, <1>3, <1>4, <1>6

LEMMA TakenIsFinite ==
  ASSUME ImportTypeOK
  PROVE  /\ Taken \subseteq 1..next /\ next \in Nat /\ next + 1 \notin Taken
         /\ IsFiniteSet(Taken) /\ Cardinality(Taken) \in Nat
<1>1. next \in Nat
  BY ImportAssumption DEF ImportTypeOK
<1>2. Taken \subseteq 1..next
  BY DEF Taken
<1>3. IsFiniteSet(1..next)
  BY <1>1, FS_Interval
<1>4. IsFiniteSet(Taken)
  BY <1>2, <1>3, FS_Subset
<1>5. Cardinality(Taken) \in Nat
  BY <1>4, FS_CardinalityType
<1> QED BY <1>1, <1>2, <1>4, <1>5

\* The next record is taken, or leaves no trace.
LEMMA TakenNext ==
  ASSUME ImportTypeOK, file' = file, next' = next + 1
  PROVE  Taken' = IF Readable(Current) THEN Taken \cup {next + 1} ELSE Taken
<1>1. next \in Nat
  BY TakenIsFinite
<1>2. \A i : Readable(Row(i))' = Readable(Row(i))
  BY DEF Readable, Unreadable, TooLong, Sticky, Row
<1>3. 1..(next + 1) = (1..next) \cup {next + 1}
  BY <1>1
<1>4. Taken' = {i \in 1..(next + 1) : Readable(Row(i))}
  BY <1>2 DEF Taken
<1> QED BY <1>3, <1>4 DEF Taken, Current

LEMMA TakenStays ==
  ASSUME file' = file, next' = next
  PROVE  Taken' = Taken
  BY DEF Taken, Readable, Unreadable, TooLong, Sticky, Row

LEMMA BatchRows ==
  ASSUME ImportTypeOK, BatchInv
  PROVE  /\ batch \in Seq(RowIds) /\ Len(batch) \in Nat /\ DOMAIN batch = 1..Len(batch)
         /\ Batch = {batch[k] : k \in 1..Len(batch)} /\ Batch \subseteq RowIds
         /\ \A i \in Batch : i <= next
<1>1. batch \in Seq(RowIds)
  BY DEF ImportTypeOK
<1>2. Len(batch) \in Nat /\ DOMAIN batch = 1..Len(batch)
      /\ \A k \in 1..Len(batch) : batch[k] \in RowIds
  BY <1>1, LenProperties
<1>3. Batch = {batch[k] : k \in 1..Len(batch)} /\ Batch \subseteq RowIds
  BY <1>2 DEF Batch
<1>4. \A i \in Batch : i <= next
  BY TakenIsFinite DEF BatchInv
<1> QED BY <1>1, <1>2, <1>3, <1>4

\* A step that moves no record.
LEMMA NothingMoves ==
  ASSUME IInv, UNCHANGED <<file, batch, seen, keyed, stored, processed, failed, logged>>,
         Taken' = Taken, next' \in Nat, next' >= next, faults' \in Nat, faults' >= faults,
         keyed => Flushing'
  PROVE  BatchInv' /\ StoredInv' /\ CountInv' /\ CompleteInv' /\ LogInv'
<1>1. next \in Nat /\ faults \in Nat
  BY TakenIsFinite DEF IInv, ImportTypeOK
<1>2. Batch' = Batch
  BY DEF Batch
<1>3. BatchInv'
  BY <1>1, <1>2 DEF IInv, BatchInv, Row
<1>4. StoredInv'
  BY <1>1, <1>2 DEF IInv, StoredInv, RowIds
<1>5. Emails' = Emails
  BY DEF Emails, Row
<1>6. CountInv'
  BY <1>5 DEF IInv, CountInv
<1>7. CompleteInv'
  <2>1. Undisturbed' => Undisturbed
    BY <1>1 DEF Undisturbed, Row
  <2>2. \A i : Kept(i)' <=> Kept(i)
    BY <1>2 DEF Kept
  <2> QED BY <2>1, <2>2 DEF IInv, CompleteInv, Row
<1>8. LogInv'
  BY DEF IInv, LogInv
<1> QED BY <1>3, <1>4, <1>6, <1>7, <1>8

LEMMA InitIInv == Init => IInv
<1> SUFFICES ASSUME Init PROVE IInv
  OBVIOUS
<1>1. ImportTypeOK
  <2>1. file \in Files
    BY DEF Init
  <2>2. batch \in Seq(RowIds) /\ stored \in [RowIds -> Nat]
    BY DEF Init
  <2>3. 0 \in 0..MaxRows /\ 0 \in 0..MaxRetries - 1
    BY ImportAssumption
  <2>4. {processed, failed, logged, faults} \subseteq Nat
    BY DEF Init
  <2>5. {resultKey, reportStored} \subseteq BOOLEAN
    BY DEF Init
  <2>6. seen \subseteq Keys /\ cached \subseteq Known /\ keyed \in BOOLEAN
    BY DEF Init
  <2>7. next \in 0..MaxRows /\ tries \in 0..MaxRetries - 1
    BY <2>3 DEF Init
  <2> QED BY <2>1, <2>2, <2>4, <2>5, <2>6, <2>7 DEF Init, ImportTypeOK
<1>2. Taken = {} /\ Emails = {} /\ Batch = {} /\ DOMAIN batch = {} /\ Len(batch) = 0
  BY DEF Init, Taken, Emails, Batch
<1>3. PlaceInv
  BY <1>1, <1>2, FileType, ImportAssumption DEF Init, PlaceInv, Flushing
<1>4. BatchInv
  BY <1>2, ImportAssumption DEF Init, BatchInv
<1>5. StoredInv
  BY <1>2 DEF Init, StoredInv
<1>6. CountInv
  BY <1>2, FS_EmptySet DEF Init, CountInv
<1>7. CompleteInv
  BY <1>2 DEF CompleteInv
<1>8. LogInv
  BY ImportAssumption DEF Init, LogInv
<1>9. ErrorsReported
  BY DEF Init, ErrorsReported
<1> QED BY <1>1, <1>3, <1>4, <1>5, <1>6, <1>7, <1>8, <1>9 DEF IInv
-----------------------------------------------------------------------------
(***************************************************************************)
(* Steps that add nothing to a batch, a counter or the database.           *)
(***************************************************************************)

LEMMA DetectKeeps == ASSUME IInv, Detect PROVE IInv'
<1>1. ImportTypeOK'
  BY DEF IInv, ImportTypeOK, Detect, Return, batchVars, counterVars, reportVars
<1>2. PlaceInv' /\ ErrorsReported'
  BY DEF IInv, PlaceInv, Detect, Return, Flushing, ErrorsReported, batchVars,
         counterVars, reportVars
<1>3. Taken' = Taken
  BY TakenStays DEF Detect
<1>4. next' \in Nat /\ next' >= next /\ faults' \in Nat /\ faults' >= faults /\ ~keyed
  BY TakenIsFinite DEF IInv, ImportTypeOK, Detect, BatchInv, Flushing
<1>5. BatchInv' /\ StoredInv' /\ CountInv' /\ CompleteInv' /\ LogInv'
  BY <1>3, <1>4, NothingMoves DEF Detect, batchVars, counterVars
<1> QED BY <1>1, <1>2, <1>5 DEF IInv

\* A record that leaves no trace in the batch, with what follows from reading it.
LEMMA Passed ==
  ASSUME IInv, Reading, Advance, UNCHANGED <<file, batchVars, stored, counterVars, faults>>,
         ~Readable(Current)
  PROVE  /\ BatchInv' /\ StoredInv' /\ CountInv' /\ CompleteInv' /\ LogInv'
         /\ next' \in 0..MaxRows /\ next' <= Len(file'.rows)
<1>1. next \in Nat /\ faults \in Nat /\ next < Len(file.rows) /\ Len(file.rows) \in 0..MaxRows
      /\ MaxRows \in Nat
  BY TakenIsFinite, FileType, ImportAssumption DEF IInv, ImportTypeOK, Reading
<1>2. next' = next + 1 /\ next' \in Nat /\ next' >= next /\ faults' \in Nat /\ faults' >= faults
  BY <1>1 DEF Advance
<1>3. Taken' = Taken
  BY <1>2, TakenNext DEF IInv
<1>4. ~keyed
  BY DEF IInv, BatchInv, Flushing, Reading
<1>5. BatchInv' /\ StoredInv' /\ CountInv' /\ CompleteInv' /\ LogInv'
  BY <1>2, <1>3, <1>4, NothingMoves DEF batchVars, counterVars
<1> QED BY <1>1, <1>2, <1>5

LEMMA ScannerErrorKeeps == ASSUME IInv, ScannerError PROVE IInv'
<1>1. ~Readable(Current)
  BY DEF ScannerError, Readable
<1>2. /\ BatchInv' /\ StoredInv' /\ CountInv' /\ CompleteInv' /\ LogInv'
      /\ next' \in 0..MaxRows /\ next' <= Len(file'.rows)
  BY <1>1, Passed DEF ScannerError
<1>3. ImportTypeOK'
  BY <1>2 DEF IInv, ImportTypeOK, ScannerError, Return, batchVars, counterVars, reportVars
<1>4. PlaceInv' /\ ErrorsReported'
  BY <1>2 DEF IInv, PlaceInv, ScannerError, Return, Flushing, ErrorsReported, Reading,
              batchVars, counterVars, reportVars
<1> QED BY <1>2, <1>3, <1>4 DEF IInv

LEMMA DecoderStuckKeeps == ASSUME IInv, DecoderStuck PROVE IInv'
<1>1. ImportTypeOK'
  BY DEF IInv, ImportTypeOK, DecoderStuck, batchVars, counterVars, reportVars
<1>2. PlaceInv' /\ ErrorsReported'
  BY DEF IInv, PlaceInv, DecoderStuck, Reading, Flushing, ErrorsReported, batchVars,
         counterVars, reportVars
<1>3. Taken' = Taken
  BY TakenStays DEF DecoderStuck
<1>4. next' \in Nat /\ next' >= next /\ faults' \in Nat /\ faults' >= faults /\ ~keyed
  BY TakenIsFinite DEF IInv, ImportTypeOK, DecoderStuck, Reading, BatchInv, Flushing
<1>5. BatchInv' /\ StoredInv' /\ CountInv' /\ CompleteInv' /\ LogInv'
  BY <1>3, <1>4, NothingMoves DEF DecoderStuck, batchVars, counterVars
<1> QED BY <1>1, <1>2, <1>5 DEF IInv

LEMMA EndOfFileKeeps == ASSUME IInv, EndOfFile PROVE IInv'
<1>1. \/ batch = <<>> /\ Return("ok")
      \/ pc' = "lastFlush" /\ UNCHANGED ret
      \/ pc' = "hung" /\ UNCHANGED ret
      \/ Return("error")
  <2>1. file.format \in {"csv", "ndjson", "array"} /\ file.ending \in {"end", "truncated", "dropped"}
    BY FileType DEF IInv, PlaceInv, EndOfFile, Ending
  <2>2. CASE file.ending = "end"
    BY <2>2 DEF EndOfFile
  <2>3. CASE file.ending # "end" /\ file.format = "array"
    BY <2>3 DEF EndOfFile
  <2>4. CASE file.ending = "truncated" /\ file.format # "array"
    BY <2>4 DEF EndOfFile
  <2>5. CASE file.ending = "dropped" /\ file.format = "ndjson"
    BY <2>5 DEF EndOfFile
  <2>6. CASE file.ending = "dropped" /\ file.format = "csv"
    BY <2>6 DEF EndOfFile
  <2> QED BY <2>1, <2>2, <2>3, <2>4, <2>5, <2>6
<1>2. /\ pc = "read" /\ next = Len(file.rows)
      /\ UNCHANGED <<file, next, batchVars, cached, stored, counterVars, reportVars, faults>>
  BY DEF EndOfFile
<1>3. ImportTypeOK'
  BY <1>1, <1>2 DEF IInv, ImportTypeOK, Return, batchVars, counterVars, reportVars
<1>4. PlaceInv' /\ ErrorsReported'
  BY <1>1, <1>2 DEF IInv, PlaceInv, Return, Flushing, ErrorsReported, batchVars,
                    counterVars, reportVars
<1>5. Taken' = Taken
  BY <1>2, TakenStays
<1>6. next' \in Nat /\ next' >= next /\ faults' \in Nat /\ faults' >= faults /\ ~keyed
  BY <1>2, TakenIsFinite DEF IInv, ImportTypeOK, BatchInv, Flushing
<1>7. BatchInv' /\ StoredInv' /\ CountInv' /\ CompleteInv' /\ LogInv'
  BY <1>2, <1>5, <1>6, NothingMoves DEF batchVars, counterVars
<1> QED BY <1>3, <1>4, <1>7 DEF IInv

LEMMA ReportKeeps == ASSUME IInv, Report PROVE IInv'
<1>1. faults \in Nat /\ faults' \in Nat /\ faults' >= faults
  BY DEF IInv, ImportTypeOK, Report, Fault, reportVars
<1>2. ImportTypeOK'
  BY <1>1 DEF IInv, ImportTypeOK, Report, batchVars, counterVars, reportVars
<1>3. PlaceInv'
  BY DEF IInv, PlaceInv, Report, Flushing, batchVars, counterVars
<1>4. LogInv'
  BY DEF IInv, LogInv, Report, counterVars
<1>5. ErrorsReported'
  <2>1. failed \in Nat /\ logged \in Nat /\ MaxErrorLogCount \in Nat
    BY ImportAssumption DEF IInv, ImportTypeOK
  <2>2. ~resultKey /\ ~reportStored
    BY DEF IInv, PlaceInv, Report
  <2>3. (resultKey' <=> failed' > 0) /\ (resultKey' => reportStored' \/ faults' > 0)
    BY <1>1, <2>1, <2>2 DEF Report, Fault, reportVars, counterVars
  <2> QED BY <1>4, <2>1, <2>3 DEF ErrorsReported, LogInv, Report, counterVars
<1>6. Taken' = Taken
  BY TakenStays DEF Report
<1>7. next' \in Nat /\ next' >= next /\ ~keyed
  BY TakenIsFinite DEF IInv, BatchInv, Flushing, Report
<1>8. BatchInv' /\ StoredInv' /\ CountInv' /\ CompleteInv' /\ LogInv'
  BY <1>1, <1>6, <1>7, NothingMoves DEF Report, batchVars, counterVars
<1> QED BY <1>2, <1>3, <1>5, <1>8 DEF IInv
-----------------------------------------------------------------------------
(***************************************************************************)
(* Records that are taken.                                                 *)
(***************************************************************************)

\* Taking the next record makes one more record and at most one more e-mail.
LEMMA OneMore ==
  ASSUME IInv, Reading, Advance, UNCHANGED file, Readable(Current)
  PROVE  /\ next' \in 0..MaxRows /\ next' <= Len(file'.rows) /\ next' = next + 1
         /\ next \in Nat /\ next + 1 \in RowIds /\ Current.ref \in Keys
         /\ Taken' = Taken \cup {next + 1} /\ next + 1 \notin Taken
         /\ Cardinality(Taken) \in Nat /\ Cardinality(Taken') = Cardinality(Taken) + 1
         /\ Emails' = Emails \cup {Current.ref} /\ IsFiniteSet(Emails')
         /\ Cardinality(Emails) \in Nat
         /\ Cardinality(Emails') =
              IF Current.ref \in Emails THEN Cardinality(Emails) ELSE Cardinality(Emails) + 1
<1>1. /\ next \in Nat /\ next < Len(file.rows) /\ Len(file.rows) \in 0..MaxRows
      /\ MaxRows \in Nat
  BY TakenIsFinite, FileType, ImportAssumption DEF IInv, Reading
<1>2. next' = next + 1 /\ next' \in 0..MaxRows /\ next' <= Len(file'.rows)
  BY <1>1 DEF Advance
<1>3. next + 1 \in RowIds /\ Current.ref \in Keys
  BY <1>1, FileType DEF IInv, Current
<1>4. Taken' = Taken \cup {next + 1}
  BY <1>2, TakenNext DEF IInv
<1>5. next + 1 \notin Taken /\ IsFiniteSet(Taken) /\ Cardinality(Taken) \in Nat
  BY TakenIsFinite DEF IInv
<1>6. Cardinality(Taken') = Cardinality(Taken) + 1
  BY <1>4, <1>5, FS_AddElement
<1>7. Emails' = Emails \cup {Current.ref}
  <2>1. Emails' = {Row(i).ref : i \in Taken \cup {next + 1}}
    BY <1>4 DEF Emails, Row
  <2> QED BY <2>1 DEF Emails, Current
<1>8. IsFiniteSet(Emails) /\ Cardinality(Emails) \in Nat
  BY FS_CardinalityType DEF IInv, CountInv
<1>9. /\ IsFiniteSet(Emails')
      /\ Cardinality(Emails') =
           IF Current.ref \in Emails THEN Cardinality(Emails) ELSE Cardinality(Emails) + 1
  BY <1>7, <1>8, FS_AddElement
<1> QED BY <1>1, <1>2, <1>3, <1>4, <1>5, <1>6, <1>7, <1>8, <1>9

\* What stays of the batch when a record is taken that does not join it.
LEMMA BatchStays ==
  ASSUME IInv, Reading, Advance, UNCHANGED <<file, batchVars>>, Readable(Current),
         pc' \in {"read", "report"}
  PROVE  BatchInv' /\ Batch' = Batch /\ next + 1 \notin Batch /\ ~keyed
<1>1. Batch' = Batch /\ ~keyed
  BY DEF Batch, batchVars, IInv, BatchInv, Flushing, Reading
<1>2. Taken \subseteq Taken' /\ next + 1 \notin Taken
  BY OneMore
<1>3. BatchInv'
  BY <1>1, <1>2 DEF IInv, BatchInv, batchVars, Row
<1> QED BY <1>1, <1>2, <1>3 DEF IInv, BatchInv

LEMMA SkipKeeps == ASSUME IInv, Skip PROVE IInv'
<1>1. CASE ~Readable(Current)
  <2>1. /\ BatchInv' /\ StoredInv' /\ CountInv' /\ CompleteInv' /\ LogInv'
        /\ next' \in 0..MaxRows /\ next' <= Len(file'.rows)
    BY <1>1, Passed DEF Skip
  <2>2. ImportTypeOK'
    BY <2>1 DEF IInv, ImportTypeOK, Skip, batchVars, counterVars, reportVars
  <2>3. PlaceInv' /\ ErrorsReported'
    BY <2>1 DEF IInv, PlaceInv, Skip, Flushing, ErrorsReported, Reading,
                batchVars, counterVars, reportVars
  <2> QED BY <2>1, <2>2, <2>3 DEF IInv
<1>2. CASE Readable(Current)
  <2>1. file.resource = "users" /\ Current.ref \in seen
    BY <1>2 DEF Skip, Readable
  <2>2. /\ next' \in 0..MaxRows /\ next' <= Len(file'.rows) /\ next' = next + 1 /\ next \in Nat
        /\ Taken' = Taken \cup {next + 1} /\ Current.ref \in Keys
        /\ Cardinality(Taken) \in Nat /\ Cardinality(Taken') = Cardinality(Taken) + 1
        /\ Emails' = Emails \cup {Current.ref} /\ IsFiniteSet(Emails')
        /\ Cardinality(Emails') =
             IF Current.ref \in Emails THEN Cardinality(Emails) ELSE Cardinality(Emails) + 1
    BY <1>2, OneMore DEF Skip
  <2>3. ImportTypeOK'
    BY <2>2 DEF IInv, ImportTypeOK, Skip, batchVars, counterVars, reportVars
  <2>4. PlaceInv' /\ ErrorsReported'
    BY <2>2 DEF IInv, PlaceInv, Skip, Flushing, ErrorsReported, Reading,
                batchVars, counterVars, reportVars
  <2>5. BatchInv' /\ Batch' = Batch
    BY <1>2, BatchStays DEF Skip, Reading
  <2>6. StoredInv'
    BY <2>2, <2>5 DEF IInv, StoredInv, Skip, batchVars, RowIds
  <2>7. PICK j \in Batch : j \in Taken /\ Row(j).ref = Current.ref
    BY <2>1, <2>2 DEF IInv, BatchInv, Batch
  <2>8. CountInv'
    <3>1. Current.ref \in Emails
      BY <2>7 DEF Emails
    <3>2. processed \in Nat /\ Len(batch) \in Nat
      BY BatchRows DEF IInv, ImportTypeOK
    <3> QED BY <2>1, <2>2, <3>1, <3>2 DEF IInv, CountInv, Skip, batchVars, counterVars
  <2>9. CompleteInv'
    <3> SUFFICES ASSUME Undisturbed', NEW i \in Taken'
                 PROVE  \E k \in Taken' : Row(k).ref = Row(i).ref /\ Kept(k)'
      BY <2>1 DEF CompleteInv, Skip, Row
    <3>1. Undisturbed
      BY <2>2 DEF Undisturbed, Skip, Row
    <3>2. \A k : Kept(k)' <=> Kept(k)
      BY <2>5 DEF Kept, Skip
    <3>3. CASE i \in Taken
      BY <2>1, <2>2, <3>1, <3>2, <3>3 DEF IInv, CompleteInv
    <3>4. CASE i = next + 1
      BY <2>2, <2>7, <3>2, <3>4 DEF Current, Kept
    <3> QED BY <2>2, <3>3, <3>4
  <2>10. LogInv'
    BY DEF IInv, LogInv, Skip, counterVars
  <2> QED BY <2>3, <2>4, <2>5, <2>6, <2>8, <2>9, <2>10 DEF IInv
<1> QED BY <1>1, <1>2

\* A record joins the batch: AddUser and AddComment, but for the reference.
LEMMA Joined ==
  ASSUME IInv, Reading, Advance, UNCHANGED <<file, stored, counterVars, ret, reportVars>>,
         Readable(Current), AddToBatch, faults' = faults,
         file.resource = "users" => Current.ref \notin seen,
         file.resource = "comments" => Current.ref \in Known,
         file.resource \in {"users", "comments"},
         cached' \subseteq Known
  PROVE  IInv'
<1>1. /\ next' \in 0..MaxRows /\ next' <= Len(file'.rows) /\ next' = next + 1
      /\ next \in Nat /\ next + 1 \in RowIds /\ Current.ref \in Keys
      /\ Taken' = Taken \cup {next + 1} /\ next + 1 \notin Taken
      /\ Cardinality(Taken) \in Nat /\ Cardinality(Taken') = Cardinality(Taken) + 1
      /\ Emails' = Emails \cup {Current.ref} /\ IsFiniteSet(Emails')
      /\ Cardinality(Emails) \in Nat
      /\ Cardinality(Emails') =
           IF Current.ref \in Emails THEN Cardinality(Emails) ELSE Cardinality(Emails) + 1
  BY OneMore
<1>2. /\ batch \in Seq(RowIds) /\ Len(batch) \in Nat /\ DOMAIN batch = 1..Len(batch)
      /\ Batch = {batch[k] : k \in 1..Len(batch)} /\ Batch \subseteq RowIds
  BY BatchRows DEF IInv
<1>3. /\ batch' \in Seq(RowIds) /\ Len(batch') = Len(batch) + 1
      /\ DOMAIN batch' = 1..(Len(batch) + 1)
      /\ \A k \in 1..Len(batch) : batch'[k] = batch[k]
      /\ batch'[Len(batch) + 1] = next + 1
  BY <1>1, <1>2, AppendProperties DEF AddToBatch
<1>4. Batch' = Batch \cup {next + 1} /\ next + 1 \notin Batch
  <2>1. 1..(Len(batch) + 1) = (1..Len(batch)) \cup {Len(batch) + 1}
    BY <1>2
  <2>2. Batch' = {batch'[k] : k \in 1..(Len(batch) + 1)}
    BY <1>3 DEF Batch
  <2> QED BY <1>1, <1>2, <1>3, <2>1, <2>2 DEF IInv, BatchInv
<1>5. BatchSize \in Nat /\ Len(batch) < BatchSize
  BY ImportAssumption DEF IInv, PlaceInv, Reading
<1>6. ~keyed /\ ~keyed' /\ tries' = tries
  BY DEF IInv, BatchInv, Flushing, Reading, AddToBatch
<1>7. seen' = IF file.resource = "users" THEN seen \cup {Current.ref} ELSE seen
  BY DEF AddToBatch
<1>8. ImportTypeOK'
  <2>1. seen' \subseteq Keys
    BY <1>1, <1>7 DEF IInv, ImportTypeOK
  <2>2. pc' \in {"flush", "read"}
    BY DEF AddToBatch, Reading
  <2>3. keyed' \in BOOLEAN
    BY DEF AddToBatch, IInv, ImportTypeOK
  <2> QED BY <1>1, <1>3, <1>6, <2>1, <2>2, <2>3 DEF IInv, ImportTypeOK, counterVars, reportVars
<1>9. PlaceInv' /\ ErrorsReported'
  <2>1. pc = "read" /\ (pc' = "flush" \/ (pc' = "read" /\ Len(batch') < BatchSize))
    BY <1>2, <1>3, <1>5 DEF AddToBatch, Reading
  <2> QED BY <1>1, <2>1 DEF IInv, PlaceInv, ErrorsReported, Flushing, counterVars, reportVars
<1>10. BatchInv'
  <2>1. Batch' \subseteq Taken'
    BY <1>1, <1>4 DEF IInv, BatchInv
  <2>2. ASSUME NEW k \in DOMAIN batch', NEW l \in DOMAIN batch', k # l
        PROVE  batch'[k] # batch'[l]
    <3>1. CASE k \in 1..Len(batch) /\ l \in 1..Len(batch)
      BY <1>2, <1>3, <2>2, <3>1 DEF IInv, BatchInv
    <3>2. CASE k = Len(batch) + 1
      BY <1>2, <1>3, <1>4, <2>2, <3>2
    <3>3. CASE l = Len(batch) + 1
      BY <1>2, <1>3, <1>4, <2>2, <3>3
    <3> QED BY <1>2, <1>3, <3>1, <3>2, <3>3
  <2>3. ASSUME file.resource = "users", NEW e \in Keys
        PROVE  e \in seen' <=> \E k \in DOMAIN batch' : Row(batch'[k]).ref = e
    <3>1. e \in seen <=> \E k \in DOMAIN batch : Row(batch[k]).ref = e
      BY <2>3 DEF IInv, BatchInv
    <3>2. Row(batch'[Len(batch) + 1]).ref = Current.ref
      BY <1>3 DEF Current
    <3> QED BY <1>2, <1>3, <1>7, <2>3, <3>1, <3>2
  <2>4. ASSUME file.resource = "users",
               NEW k \in DOMAIN batch', NEW l \in DOMAIN batch', k # l
        PROVE  Row(batch'[k]).ref # Row(batch'[l]).ref
    <3>1. \A m \in DOMAIN batch : Row(batch[m]).ref # Current.ref
      BY <1>1, <2>4 DEF IInv, BatchInv
    <3>2. Row(batch'[Len(batch) + 1]).ref = Current.ref
      BY <1>3 DEF Current
    <3>3. CASE k \in 1..Len(batch) /\ l \in 1..Len(batch)
      BY <1>2, <1>3, <2>4, <3>3 DEF IInv, BatchInv
    <3>4. CASE k = Len(batch) + 1
      BY <1>2, <1>3, <2>4, <3>1, <3>2, <3>4
    <3>5. CASE l = Len(batch) + 1
      BY <1>2, <1>3, <2>4, <3>1, <3>2, <3>5
    <3> QED BY <1>2, <1>3, <3>3, <3>4, <3>5
  <2> QED BY <1>2, <1>3, <1>5, <1>6, <2>1, <2>2, <2>3, <2>4 DEF BatchInv, Row
<1>11. StoredInv'
  BY <1>1, <1>4, <1>6 DEF IInv, StoredInv, RowIds
<1>12. CountInv'
  <2>1. processed \in Nat /\ failed \in Nat
    BY DEF IInv, ImportTypeOK
  <2> QED BY <1>1, <1>2, <1>3, <2>1 DEF IInv, CountInv, counterVars
<1>13. CompleteInv'
  <2> SUFFICES ASSUME Undisturbed', NEW i \in Taken'
               PROVE  IF file.resource = "users"
                      THEN \E j \in Taken' : Row(j).ref = Row(i).ref /\ Kept(j)'
                      ELSE Kept(i)' <=> Row(i).ref \in Known
    BY DEF CompleteInv, Row
  <2>1. Undisturbed
    BY <1>1 DEF Undisturbed, Row
  <2>2. \A k : Kept(k)' <=> Kept(k) \/ k = next + 1
    BY <1>4 DEF Kept
  <2>3. CASE i \in Taken
    <3>1. i # next + 1
      BY <1>1, <2>3
    <3> QED BY <1>1, <2>1, <2>2, <2>3, <3>1 DEF IInv, CompleteInv
  <2>4. CASE i = next + 1
    <3>1. Row(i).ref = Current.ref
      BY <2>4 DEF Current
    <3> QED BY <1>1, <2>2, <2>4, <3>1
  <2> QED BY <1>1, <2>3, <2>4
<1>14. LogInv'
  BY DEF IInv, LogInv, counterVars
<1> QED BY <1>8, <1>9, <1>10, <1>11, <1>12, <1>13, <1>14 DEF IInv

LEMMA AddUserKeeps == ASSUME IInv, AddUser PROVE IInv'
  BY Joined DEF AddUser, IInv, ImportTypeOK

LEMMA AddCommentKeeps == ASSUME IInv, AddComment PROVE IInv'
<1>1. Current.ref \in Known /\ cached' \subseteq Known /\ faults' = faults
  BY DEF IInv, ImportTypeOK, AddComment, Found
<1> QED BY <1>1, Joined DEF AddComment

\* One more error is counted, and logged while there is room.
LEMMA OneError ==
  ASSUME ImportTypeOK, LogInv, RecordErrors(1)
  PROVE  failed' = failed + 1 /\ failed \in Nat /\ failed' \in Nat /\ logged' \in Nat /\ LogInv'
  BY ImportAssumption DEF ImportTypeOK, LogInv, RecordErrors

LEMMA MissDependencyKeeps == ASSUME IInv, MissDependency PROVE IInv'
<1>1. /\ next' \in 0..MaxRows /\ next' <= Len(file'.rows) /\ next' = next + 1
      /\ next \in Nat /\ next + 1 \in RowIds
      /\ Taken' = Taken \cup {next + 1} /\ next + 1 \notin Taken
      /\ Cardinality(Taken) \in Nat /\ Cardinality(Taken') = Cardinality(Taken) + 1
      /\ Emails' = Emails \cup {Current.ref} /\ IsFiniteSet(Emails')
  BY OneMore DEF MissDependency
<1>2. failed' = failed + 1 /\ failed \in Nat /\ failed' \in Nat /\ logged' \in Nat /\ LogInv'
  BY OneError DEF IInv, MissDependency
<1>3. faults \in Nat /\ faults' \in Nat /\ (faults' = 0 => faults = 0 /\ Current.ref \notin Known)
  BY DEF IInv, ImportTypeOK, MissDependency, Missing, Fault
<1>4. ImportTypeOK'
  BY <1>1, <1>2, <1>3 DEF IInv, ImportTypeOK, MissDependency, Missing, batchVars, reportVars
<1>5. PlaceInv' /\ ErrorsReported'
  BY <1>1 DEF IInv, PlaceInv, MissDependency, Flushing, ErrorsReported, Reading,
              batchVars, reportVars
<1>6. BatchInv' /\ Batch' = Batch /\ next + 1 \notin Batch /\ ~keyed
  BY BatchStays DEF MissDependency, Reading
<1>7. StoredInv'
  BY <1>1, <1>6 DEF IInv, StoredInv, MissDependency, batchVars, RowIds
<1>8. CountInv'
  <2>1. processed \in Nat /\ Len(batch) \in Nat
    BY BatchRows DEF IInv, ImportTypeOK
  <2> QED BY <1>1, <1>2, <2>1 DEF IInv, CountInv, MissDependency, batchVars
<1>9. CompleteInv'
  <2> SUFFICES ASSUME Undisturbed', NEW i \in Taken'
               PROVE  Kept(i)' <=> Row(i).ref \in Known
    BY DEF CompleteInv, MissDependency, Row
  <2>1. Undisturbed /\ Current.ref \notin Known
    BY <1>1, <1>3 DEF Undisturbed, MissDependency, Row
  <2>2. \A k : Kept(k)' <=> Kept(k)
    BY <1>6 DEF Kept, MissDependency
  <2>3. ~Kept(next + 1)
    BY <1>1, <1>6 DEF IInv, StoredInv, Kept
  <2> QED BY <1>1, <2>1, <2>2, <2>3 DEF IInv, CompleteInv, MissDependency, Current
<1> QED BY <1>2, <1>4, <1>5, <1>6, <1>7, <1>8, <1>9 DEF IInv

LEMMA StoreAdds ==
  ASSUME NEW ids, stored \in [RowIds -> Nat], Store(ids)
  PROVE  /\ stored' \in [RowIds -> Nat]
         /\ \A i \in RowIds : stored'[i] = IF i \in ids THEN stored[i] + 1 ELSE stored[i]
  BY DEF Store

LEMMA AddArticleKeeps == ASSUME IInv, AddArticle PROVE IInv'
<1>1. /\ next' \in 0..MaxRows /\ next' <= Len(file'.rows) /\ next' = next + 1
      /\ next \in Nat /\ next + 1 \in RowIds
      /\ Taken' = Taken \cup {next + 1} /\ next + 1 \notin Taken
      /\ Cardinality(Taken) \in Nat /\ Cardinality(Taken') = Cardinality(Taken) + 1
      /\ Emails' = Emails \cup {Current.ref} /\ IsFiniteSet(Emails')
  BY OneMore DEF AddArticle
<1>2. BatchInv' /\ Batch' = Batch /\ next + 1 \notin Batch /\ ~keyed
  BY BatchStays DEF AddArticle, Reading
<1>3. batch = <<>> /\ file.resource = "articles" /\ Current.ref \in Known
  BY DEF IInv, BatchInv, AddArticle
<1>4. /\ processed \in Nat /\ failed \in Nat /\ logged \in Nat /\ faults \in Nat
      /\ stored \in [RowIds -> Nat]
  BY DEF IInv, ImportTypeOK
<1>5. /\ \/ processed' = processed + 1 /\ failed' = failed
         \/ processed' = processed /\ failed' = failed + 1
      /\ logged' \in Nat /\ LogInv'
  <2>1. CASE processed' = processed + 1 /\ UNCHANGED <<failed, logged>>
    BY <1>4, <2>1 DEF IInv, LogInv
  <2>2. CASE UNCHANGED processed /\ RecordErrors(1)
    BY <1>4, <2>2, OneError DEF IInv
  <2> QED BY <2>1, <2>2 DEF AddArticle
<1>6. /\ faults' \in Nat
      /\ faults' = 0 => faults = 0 /\ (Current.kind = "refused" \/ Store({next + 1}))
  BY <1>4 DEF AddArticle, Fault
<1>7. /\ stored' \in [RowIds -> Nat]
      /\ \A i \in RowIds \ {next + 1} : stored'[i] = stored[i]
      /\ stored'[next + 1] \in {0, 1}
      /\ Store({next + 1}) => stored'[next + 1] = 1
  <2>1. stored[next + 1] = 0
    BY <1>1 DEF IInv, StoredInv
  <2>2. Store({next + 1}) \/ stored' = stored
    BY DEF AddArticle
  <2> QED BY <1>1, <1>4, <2>1, <2>2, StoreAdds
<1>8. ImportTypeOK'
  <2>1. {processed', failed', logged', faults'} \subseteq Nat
    BY <1>4, <1>5, <1>6
  <2>2. cached' \subseteq Known
    BY DEF IInv, ImportTypeOK, AddArticle
  <2> QED BY <1>1, <1>7, <2>1, <2>2 DEF IInv, ImportTypeOK, AddArticle, batchVars, reportVars
<1>9. PlaceInv' /\ ErrorsReported'
  BY <1>1 DEF IInv, PlaceInv, AddArticle, Flushing, ErrorsReported, Reading,
              batchVars, reportVars
<1>10. StoredInv'
  <2>1. Batch' = {}
    BY <1>2, <1>3 DEF Batch
  <2> QED BY <1>1, <1>7, <2>1 DEF IInv, StoredInv, RowIds
<1>11. CountInv'
  BY <1>1, <1>3, <1>4, <1>5 DEF IInv, CountInv, AddArticle
<1>12. CompleteInv'
  <2> SUFFICES ASSUME Undisturbed', NEW i \in Taken'
               PROVE  Kept(i)' <=> Row(i).ref \in Known
    BY <1>3 DEF CompleteInv, AddArticle, Row
  <2>1. Undisturbed /\ Current.kind # "refused"
    BY <1>1, <1>6 DEF Undisturbed, AddArticle, Row, Current
  <2>2. CASE i \in Taken
    <3>1. i \in RowIds \ {next + 1}
      BY <1>1, <2>2, FileType DEF IInv, Taken, PlaceInv, RowIds
    <3> QED BY <1>2, <1>3, <1>7, <2>1, <2>2, <3>1 DEF IInv, CompleteInv, Kept
  <2>3. CASE i = next + 1
    BY <1>1, <1>3, <1>6, <1>7, <2>1, <2>3 DEF Kept, Current, Undisturbed
  <2> QED BY <1>1, <2>2, <2>3
<1> QED BY <1>2, <1>5, <1>8, <1>9, <1>10, <1>11, <1>12 DEF IInv
-----------------------------------------------------------------------------
(***************************************************************************)
(* Flushes.                                                                *)
(***************************************************************************)

\* The batch is emptied; its rows went in together, or none did.
LEMMA Flushed ==
  ASSUME IInv, Flushing, EmptyBatch, UNCHANGED <<file, next, cached, reportVars>>,
         file.resource # "articles",
         \/ UNCHANGED <<failed, logged>>
         \/ file.resource = "comments" /\ RecordErrors(1),
         \/ stored' = stored
         \/ Store(Batch) /\ \A i \in Batch : stored[i] = 0,
         Undisturbed' => Store(Batch),
         faults' \in Nat, faults' >= faults
  PROVE  IInv'
<1>1. /\ batch \in Seq(RowIds) /\ Len(batch) \in Nat
      /\ Batch \subseteq RowIds /\ batch' = <<>> /\ Batch' = {} /\ DOMAIN batch' = {} /\ Len(batch') = 0
  <2>1. batch' = <<>>
    BY DEF EmptyBatch
  <2>2. DOMAIN batch' = {} /\ Len(batch') = 0
    BY <2>1
  <2> QED BY <2>1, <2>2, BatchRows DEF IInv, Batch
<1>2. /\ processed \in Nat /\ failed \in Nat /\ logged \in Nat /\ faults \in Nat
      /\ stored \in [RowIds -> Nat]
  BY DEF IInv, ImportTypeOK
<1>3. /\ failed' = failed \/ (file.resource = "comments" /\ failed' = failed + 1)
      /\ failed' \in Nat /\ logged' \in Nat /\ LogInv'
  <2>1. CASE UNCHANGED <<failed, logged>>
    BY <1>2, <2>1 DEF IInv, LogInv
  <2>2. CASE file.resource = "comments" /\ RecordErrors(1)
    BY <1>2, <2>2, OneError DEF IInv
  <2> QED BY <2>1, <2>2
<1>4. processed' = processed + Len(batch) /\ processed' \in Nat /\ seen' = {} /\ tries' = 0 /\ keyed' = FALSE
  BY <1>1, <1>2 DEF EmptyBatch
<1>5. \/ pc' = "read" /\ ret' = ret
      \/ pc' = "report" /\ ret' = "ok"
  BY DEF EmptyBatch, Return
<1>6. /\ stored' \in [RowIds -> Nat]
      /\ \A i \in RowIds : stored'[i] \in {0, 1} /\ (stored'[i] # stored[i] => i \in Batch)
      /\ Store(Batch) => \A i \in Batch : stored'[i] = stored[i] + 1
  BY <1>1, <1>2, StoreAdds DEF IInv, StoredInv
<1>7. ImportTypeOK'
  <2>1. {processed', failed', logged', faults'} \subseteq Nat
    BY <1>3, <1>4
  <2>2. batch' \in Seq(RowIds) /\ 0 \in 0..MaxRetries - 1
    BY <1>1, ImportAssumption
  <2>3. keyed' \in BOOLEAN
    BY <1>4
  <2>4. pc' \in {"read", "report"} /\ ret' \in {"none", "ok", "error"}
    BY <1>5 DEF IInv, ImportTypeOK
  <2> QED BY <1>4, <1>6, <2>1, <2>2, <2>3, <2>4 DEF IInv, ImportTypeOK, reportVars
<1>8. PlaceInv' /\ ErrorsReported'
  <2>1. 0 < BatchSize
    BY ImportAssumption
  <2>2. pc \in {"flush", "lastFlush"} /\ pc' # "returned"
    BY <1>5 DEF Flushing
  <2> QED BY <1>1, <1>5, <2>1, <2>2 DEF IInv, PlaceInv, Flushing, ErrorsReported, reportVars
<1>9. Taken' = Taken
  BY TakenStays
<1>10. BatchInv'
  BY <1>1, <1>4, ImportAssumption DEF BatchInv
<1>11. StoredInv'
  <2>1. \A i \in Batch : i <= next
    BY BatchRows DEF IInv
  <2>2. next \in Nat
    BY TakenIsFinite DEF IInv
  <2> QED BY <1>1, <1>6, <2>1, <2>2 DEF IInv, StoredInv, RowIds
<1>12. CountInv'
  <2>1. Emails' = Emails
    BY <1>9 DEF Emails, Row
  <2>2. Cardinality(Taken) \in Nat
    BY TakenIsFinite DEF IInv
  <2>3. Cardinality(Emails) \in Nat
    BY FS_CardinalityType DEF IInv, CountInv
  <2> QED BY <1>1, <1>2, <1>3, <1>4, <1>9, <2>1, <2>2, <2>3 DEF IInv, CountInv
<1>13. CompleteInv'
  <2> SUFFICES ASSUME Undisturbed'
               PROVE  \A i \in Taken :
                        IF file.resource = "users"
                        THEN \E j \in Taken : Row(j).ref = Row(i).ref /\ Kept(j)'
                        ELSE Kept(i)' <=> Row(i).ref \in Known
    BY <1>9 DEF CompleteInv, Row
  <2>1. Undisturbed
    BY <1>2, <1>9 DEF Undisturbed, Row
  <2>2. ASSUME NEW i \in Taken PROVE Kept(i)' <=> Kept(i)
    <3>1. i \in RowIds
      BY FileType, TakenIsFinite DEF IInv, Taken, PlaceInv, RowIds, ImportTypeOK
    <3>2. stored[i] \in {0, 1} /\ (i \in Batch => stored'[i] = 1)
      BY <1>6, <3>1 DEF IInv, StoredInv
    <3> QED BY <1>1, <1>6, <3>1, <3>2 DEF Kept
  <2> QED BY <2>1, <2>2 DEF IInv, CompleteInv
<1> QED BY <1>3, <1>7, <1>8, <1>10, <1>11, <1>12, <1>13 DEF IInv

\* Without failures and refused records there is nothing wrong with a batch.
LEMMA BatchIsFine == ASSUME IInv, Undisturbed PROVE ~Refused /\ ~KeysTaken
  BY DEF IInv, BatchInv, Undisturbed, Refused, KeysTaken

\* A batch whose keys are not taken has not been stored.
LEMMA BatchNotStored ==
  ASSUME IInv, ~keyed \/ ~KeysTaken
  PROVE  \A i \in Batch : stored[i] = 0
<1>1. CASE \A i \in Batch : stored[i] = 0
  BY <1>1
<1>2. CASE keyed /\ \A i \in Batch : stored[i] = 1
  BY <1>2 DEF KeysTaken
<1> QED BY <1>1, <1>2 DEF IInv, StoredInv

LEMMA UndisturbedBefore ==
  ASSUME IInv, UNCHANGED <<file, next>>, faults' \in Nat, faults' >= faults, Undisturbed'
  PROVE  Undisturbed
<1>1. Taken' = Taken
  BY TakenStays
<1>2. faults \in Nat
  BY DEF IInv, ImportTypeOK
<1> QED BY <1>1, <1>2 DEF Undisturbed, Row

LEMMA FlushUsersKeeps == ASSUME IInv, FlushUsers PROVE IInv'
<1>1. faults' \in Nat /\ faults' >= faults
  BY DEF IInv, ImportTypeOK, FlushUsers, Fault
<1>2. \A i \in Batch : stored[i] = 0
  BY BatchNotStored DEF IInv, BatchInv, FlushUsers
<1>3. stored' = stored \/ Store(Batch)
  BY DEF FlushUsers
<1>4. ASSUME Undisturbed' PROVE Store(Batch)
  <2>1. Undisturbed
    BY <1>1, <1>4, UndisturbedBefore DEF FlushUsers
  <2>2. ~Refused /\ faults' = 0 /\ faults = 0
    BY <1>4, <2>1, BatchIsFine DEF Undisturbed
  <2> QED BY <2>2 DEF FlushUsers, Fault
<1> QED BY <1>1, <1>2, <1>3, <1>4, Flushed DEF FlushUsers

LEMMA FlushCommentsKeeps == ASSUME IInv, FlushComments PROVE IInv'
<1>1. faults' \in Nat /\ faults' >= faults
  BY DEF IInv, ImportTypeOK, FlushComments
<1>2. \A i \in Batch : stored[i] = 0
  BY BatchNotStored DEF FlushComments
<1> QED BY <1>1, <1>2, Flushed DEF FlushComments

LEMMA RetryCommentsKeeps == ASSUME IInv, RetryComments PROVE IInv'
<1> DEFINE lastTry == tries + 1 = MaxRetries
<1>0. \/ /\ Refused \/ KeysTaken
         /\ stored' = stored /\ faults' = faults
         /\ lastTry \/ keyed' = keyed
      \/ /\ ~Refused /\ ~KeysTaken /\ Fault
         /\ stored' = stored
         /\ lastTry \/ keyed' \in {keyed, TRUE}
      \/ /\ ~Refused /\ ~KeysTaken /\ Fault
         /\ Store(Batch)
         /\ lastTry \/ keyed' = TRUE
  BY DEF RetryComments
<1> HIDE DEF lastTry
<1>1. faults \in Nat /\ faults' \in Nat /\ faults' >= faults
  <2>1. faults \in Nat
    BY DEF IInv, ImportTypeOK
  <2>2. faults' = faults \/ faults' = faults + 1
    BY <1>0 DEF Fault
  <2> QED BY <2>1, <2>2
<1>2. \/ stored' = stored
      \/ Store(Batch) /\ \A i \in Batch : stored[i] = 0
  BY BatchNotStored DEF RetryComments
<1>3. ~Undisturbed'
  <2> SUFFICES ASSUME Undisturbed' PROVE FALSE
    OBVIOUS
  <2>1. Undisturbed
    BY <1>1, UndisturbedBefore DEF RetryComments
  <2>2. ~Refused /\ ~KeysTaken /\ faults' = 0 /\ faults = 0
    BY <2>1, BatchIsFine DEF Undisturbed
  <2> QED BY <2>2 DEF RetryComments, Fault
<1>4. CASE tries + 1 = MaxRetries
  <2>1. RecordErrors(1) /\ EmptyBatch /\ Flushing /\ file.resource = "comments"
        /\ UNCHANGED <<file, next, cached, reportVars>>
    BY <1>4 DEF RetryComments
  <2> QED BY <1>1, <1>2, <1>3, <2>1, Flushed
<1>5. CASE tries + 1 # MaxRetries
  <2>1. /\ tries' = tries + 1 /\ UNCHANGED <<pc, batch, seen, counterVars, ret>>
        /\ UNCHANGED <<file, next, cached, reportVars>>
        /\ Flushing /\ file.resource = "comments"
    BY <1>5 DEF RetryComments
  <2>2. \/ stored' = stored /\ keyed' = keyed
        \/ stored' = stored /\ keyed' \in {keyed, TRUE} /\ faults' > 0 /\ ~KeysTaken
        \/ Store(Batch) /\ keyed' = TRUE /\ faults' > 0 /\ ~KeysTaken
    <3>1. ~lastTry
      BY <1>5 DEF lastTry
    <3>2. Fault => faults' > 0
      BY <1>1 DEF Fault
    <3> QED BY <1>0, <3>1, <3>2
  <2>3. /\ stored \in [RowIds -> Nat] /\ stored' \in [RowIds -> Nat] /\ Batch \subseteq RowIds
        /\ Store(Batch) => \A i \in RowIds :
             stored'[i] = IF i \in Batch THEN stored[i] + 1 ELSE stored[i]
    BY <1>2, StoreAdds, BatchRows DEF IInv, ImportTypeOK
  <2>4. Batch' = Batch /\ Taken' = Taken /\ Emails' = Emails
    BY <2>1, TakenStays DEF Batch, Emails, Row
  <2>5. ImportTypeOK'
    <3>1. tries' \in 0..MaxRetries - 1
      BY <1>5, <2>1, ImportAssumption DEF IInv, ImportTypeOK
    <3>2. keyed' \in BOOLEAN
      BY <2>2 DEF IInv, ImportTypeOK
    <3> QED BY <1>1, <2>1, <2>3, <3>1, <3>2 DEF IInv, ImportTypeOK, counterVars, reportVars
  <2>6. PlaceInv' /\ ErrorsReported'
    BY <1>1, <2>1 DEF IInv, PlaceInv, ErrorsReported, Flushing, counterVars, reportVars
  <2>7. BatchInv'
    <3>1. keyed' => faults' > 0
      <4>1. CASE keyed' = keyed
        BY <1>1, <4>1 DEF IInv, BatchInv
      <4> QED BY <2>2, <4>1
    <3> QED BY <2>1, <2>4, <3>1 DEF IInv, BatchInv, Flushing, Row
  <2>8. StoredInv'
    <3>1. CASE stored' = stored
      <4>1. CASE \A i \in Batch : stored[i] = 0
        BY <2>1, <2>4, <3>1, <4>1 DEF IInv, StoredInv
      <4>2. CASE keyed /\ \A i \in Batch : stored[i] = 1
        <5>1. KeysTaken
          BY <4>2 DEF KeysTaken
        <5>2. keyed'
          BY <2>2, <4>2, <5>1
        <5> QED BY <2>1, <2>4, <3>1, <4>2, <5>2 DEF IInv, StoredInv
      <4> QED BY <4>1, <4>2 DEF IInv, StoredInv
    <3>2. CASE Store(Batch) /\ keyed' = TRUE /\ \A i \in Batch : stored[i] = 0
      <4>1. \A i \in Batch : i <= next
        BY BatchRows DEF IInv
      <4>2. next \in Nat
        BY TakenIsFinite DEF IInv
      <4> QED BY <2>1, <2>3, <2>4, <3>2, <4>1, <4>2 DEF IInv, StoredInv, RowIds
    <3> QED BY <2>2, <3>1, <3>2, BatchNotStored
  <2>9. CountInv'
    BY <2>1, <2>4 DEF IInv, CountInv, counterVars
  <2>10. CompleteInv' /\ LogInv'
    BY <1>3, <2>1 DEF IInv, CompleteInv, LogInv, counterVars
  <2> QED BY <2>5, <2>6, <2>7, <2>8, <2>9, <2>10 DEF IInv
<1> QED BY <1>4, <1>5
-----------------------------------------------------------------------------
(***************************************************************************)
(* The theorems.                                                           *)
(***************************************************************************)

LEMMA StepIInv == ASSUME IInv, [Next]_vars PROVE IInv'
<1>1. CASE Next
  BY <1>1, DetectKeeps, SkipKeeps, ScannerErrorKeeps, DecoderStuckKeeps, AddUserKeeps,
     AddCommentKeeps, AddArticleKeeps, MissDependencyKeeps, EndOfFileKeeps, FlushUsersKeeps,
     FlushCommentsKeeps, RetryCommentsKeeps, ReportKeeps DEF Next
<1>2. CASE UNCHANGED vars
  <2>1. /\ UNCHANGED <<file, next, pc, batch, seen, tries, keyed, cached, stored, processed,
                       failed, logged, ret, resultKey, reportStored, faults>>
    BY <1>2 DEF vars, batchVars, counterVars, reportVars
  <2>2. ImportTypeOK'
    BY <2>1 DEF IInv, ImportTypeOK
  <2>3. PlaceInv' /\ ErrorsReported'
    BY <2>1 DEF IInv, PlaceInv, ErrorsReported, Flushing
  <2>4. Taken' = Taken
    BY <2>1, TakenStays
  <2>5. next' \in Nat /\ next' >= next /\ faults' \in Nat /\ faults' >= faults /\ (keyed => Flushing')
    BY <2>1, TakenIsFinite DEF IInv, ImportTypeOK, BatchInv, Flushing
  <2>6. BatchInv' /\ StoredInv' /\ CountInv' /\ CompleteInv' /\ LogInv'
    BY <2>1, <2>4, <2>5, NothingMoves
  <2> QED BY <2>2, <2>3, <2>6 DEF IInv
<1> QED BY <1>1, <1>2

\* In every state what waits in the batch is accounted for: the invariant below.
THEOREM Invariance == Spec => []IInv
  BY InitIInv, StepIInv, PTL DEF Spec

\* The variables of an import stay in their types, for files and batches of any size.
THEOREM TypeCorrect == Spec => []ImportTypeOK
<1>1. IInv => ImportTypeOK
  BY DEF IInv
<1> QED BY <1>1, Invariance, PTL

\* Every batch that is flushed is within the limit and has neither a row that is in the
\* database nor two users of one e-mail, for which PostgreSQL would refuse it.
THEOREM BatchesAreSound == Spec => []BatchSound
<1>1. IInv => BatchSound
  BY DEF IInv, BatchInv, StoredInv, BatchSound
<1> QED BY <1>1, Invariance, PTL

\* No row goes into the database twice, however often saveBatchWithRetry tries.
THEOREM RowsAreStoredOnce == Spec => []StoredOnce
<1>1. IInv => StoredOnce
  BY DEF IInv, StoredInv, StoredOnce
<1> QED BY <1>1, Invariance, PTL

\* An import that ends well has counted each record that it took.
THEOREM RecordsAreCounted == Spec => []RowsCounted
<1>1. ASSUME IInv PROVE RowsCounted
  <2> SUFFICES ASSUME pc = "returned", ret = "ok"
               PROVE  /\ file.resource = "users" =>
                           processed \in Cardinality(Emails)..Cardinality(Taken) /\ failed = 0
                      /\ file.resource = "articles" => processed + failed = Cardinality(Taken)
                      /\ file.resource = "comments" =>
                           /\ Cardinality(Taken) <= processed + failed
                           /\ processed <= Cardinality(Taken)
    BY DEF RowsCounted, Emails
  <2>1. batch = <<>> /\ Len(batch) = 0
    BY <1>1 DEF IInv, PlaceInv
  <2>2. processed \in Nat /\ Cardinality(Taken) \in Nat /\ Cardinality(Emails) \in Nat
    BY <1>1, TakenIsFinite, FS_CardinalityType DEF IInv, ImportTypeOK, CountInv
  <2> QED BY <1>1, <2>1, <2>2 DEF IInv, CountInv
<1> QED BY <1>1, Invariance, PTL

\* Without failures and refused records a completed import has put in all it could.
THEOREM CompletedImportsAreComplete == Spec => []CompletedIsComplete
<1>1. ASSUME IInv PROVE CompletedIsComplete
  <2> SUFFICES ASSUME ret = "ok", Undisturbed, NEW i \in Taken
               PROVE  IF file.resource = "users"
                      THEN \E j \in Taken : Row(j).ref = Row(i).ref /\ stored[j] = 1
                      ELSE stored[i] = 1 <=> Row(i).ref \in Known
    BY DEF CompletedIsComplete, Undisturbed
  <2>1. Batch = {}
    BY <1>1 DEF IInv, PlaceInv, Batch
  <2> QED BY <1>1, <2>1 DEF IInv, CompleteInv, Kept
<1> QED BY <1>1, Invariance, PTL

\* The error report has a line for each counted error, up to the limit.
THEOREM ErrorsAreReported == Spec => []ErrorsReported
<1>1. IInv => ErrorsReported
  BY DEF IInv
<1> QED BY <1>1, Invariance, PTL
=============================================================================
