---------------------------- MODULE ExportProofs -----------------------------
(***************************************************************************)
(* Proofs about ExportJob, for tables of any size and any number of        *)
(* failures.                                                               *)
(***************************************************************************)
EXTENDS ExportJob, TLAPS, SequenceTheorems

(***************************************************************************)
(* The inductive invariant: what has left StreamExport, read or not, is a  *)
(* file in the making, and whom an export waits for or blames follows from *)
(* where the goroutine is.                                                 *)
(***************************************************************************)

\* What n records make before the file is closed, and how it is closed.
Lines(n)     == [i \in 1..n |-> Item(i)]
Separated(n) == [i \in 1..(IF n = 0 THEN 0 ELSE 2 * n - 1) |->
                   IF i % 2 = 1 THEN Item((i + 1) \div 2) ELSE Mark(",")]
Part(n) == CASE format = "csv"  -> IF n = 0 THEN <<>> ELSE <<Mark("header")>> \o Lines(n)
             [] format = "json" -> <<Mark("[")>> \o Separated(n)
             [] OTHER -> Lines(n)
Closing == IF format = "json" THEN <<Mark("]")>> ELSE <<>>

Failing  == spc \in {"failed", "closeErr"} \/ exportErr
Finished == spc \in {"finish", "close"} \/ (spc = "returned" /\ ~exportErr)

\* Nothing that is written gets lost while there is somebody to read it.
OutputInv ==
  via = "pipe" \/ client =>
    /\ spc \in {"none", "begin"} => received = <<>> /\ buffer = <<>>
    /\ spc \in {"query", "rows"} => received \o buffer = Part(count)
    /\ Finished => received \o buffer = File(count)

\* The rows of the query, its connection and what was rendered of them.
QueryInv ==
  /\ count <= rows
  /\ spc \in {"none", "begin", "query"} => count = 0
  /\ Finished => cut \/ count = rows
  /\ conn => spc = "rows"
  /\ spc \in {"close", "failed", "closeErr", "returned"} => buffer = <<>>

\* The two sides of the pipe.
PipeInv ==
  /\ via = "http" <=> wpc = "none"
  /\ wpc = "start" => spc = "none"
  /\ spc \in {"close", "closeErr"} => via = "pipe"
  /\ spc = "close" => rowCount = count
  /\ pipe # "open" => spc = "returned"
  /\ pipe = "eof" => rowCount = count /\ ~exportErr
  /\ pipe = "error" => exportErr
  /\ exportErr => spc \in {"closeErr", "returned"}
  /\ spc = "closeErr" => exportErr

\* Whose failure it was, and that there was one.
FaultInv ==
  /\ Failing \/ ~client => faults > 0
  /\ status = "FAILED" => faults > 0
  /\ blame = "upload" => faults > 0 /\ (Failing => faults > 1)
  /\ blame = "stream" => exportErr

\* The job is concluded once, by the worker.
JobInv ==
  /\ wpc # "done" => status = "PROCESSING" /\ blame = "nobody"
  /\ status # "COMPLETED" => ~resultKey
  /\ status = "COMPLETED" => pipe = "eof" /\ processed = count
  /\ wpc = "done" /\ blame # "upload" => spc \in {"closeErr", "returned"}

IInv == ExportTypeOK /\ OutputInv /\ QueryInv /\ PipeInv /\ FaultInv /\ JobInv
          /\ CompletedExportExact
-----------------------------------------------------------------------------
(***************************************************************************)
(* What is rendered.                                                       *)
(***************************************************************************)

LEMMA BoundsAreNat == MaxRows \in Nat /\ MaxFaults \in Nat
  BY ExportAssumption

LEMMA ItemPiece == ASSUME NEW n \in 1..MaxRows PROVE Item(n) \in Pieces
  BY DEF Pieces

LEMMA Marks == {Mark("header"), Mark("["), Mark(","), Mark("]")} \subseteq Pieces
  BY DEF Pieces

LEMMA Single == ASSUME NEW S, NEW a \in S
                PROVE <<a>> \in Seq(S) /\ Len(<<a>>) = 1 /\ <<a>>[1] = a
  OBVIOUS

LEMMA Double == ASSUME NEW S, NEW a \in S, NEW b \in S
                PROVE /\ <<a, b>> \in Seq(S) /\ Len(<<a, b>>) = 2
                      /\ <<a, b>>[1] = a /\ <<a, b>>[2] = b
                      /\ <<a>> \o <<b>> = <<a, b>>
<1>1. <<a, b>> \in Seq(S) /\ <<a>> \in Seq(S) /\ <<b>> \in Seq(S)
  OBVIOUS
<1>2. /\ <<a>> \o <<b>> \in Seq(S) /\ Len(<<a>> \o <<b>>) = 2
      /\ \A i \in 1..2 : (<<a>> \o <<b>>)[i] = IF i <= 1 THEN <<a>>[i] ELSE <<b>>[i - 1]
  BY <1>1, ConcatProperties
<1>3. (<<a>> \o <<b>>)[1] = a /\ (<<a>> \o <<b>>)[2] = b
  BY <1>2
<1>4. \A i \in 1..2 : (<<a>> \o <<b>>)[i] = <<a, b>>[i]
  BY <1>3
<1> QED BY <1>1, <1>2, <1>4, SeqEqual

LEMMA LinesType ==
  ASSUME NEW n \in 0..MaxRows
  PROVE  Lines(n) \in Seq(Pieces) /\ Len(Lines(n)) = n
<1>1. \A i \in 1..n : Item(i) \in Pieces
  BY ItemPiece, BoundsAreNat
<1>2. Lines(n) \in [1..n -> Pieces]
  BY <1>1 DEF Lines
<1> QED BY <1>2, BoundsAreNat

LEMMA SeparatedType ==
  ASSUME NEW n \in 0..MaxRows
  PROVE  /\ Separated(n) \in Seq(Pieces)
         /\ Len(Separated(n)) = IF n = 0 THEN 0 ELSE 2 * n - 1
<1> DEFINE k == IF n = 0 THEN 0 ELSE 2 * n - 1
<1>1. k \in Nat
  BY BoundsAreNat
<1>2. ASSUME NEW i \in 1..k
      PROVE  (IF i % 2 = 1 THEN Item((i + 1) \div 2) ELSE Mark(",")) \in Pieces
  <2>1. CASE i % 2 = 1
    <3>1. (i + 1) \div 2 \in 1..MaxRows
      BY BoundsAreNat
    <3> QED BY <2>1, <3>1, ItemPiece
  <2>2. CASE i % 2 # 1
    BY <2>2, Marks
  <2> QED BY <2>1, <2>2
<1>3. Separated(n) \in [1..k -> Pieces]
  BY <1>2 DEF Separated
<1> QED BY <1>1, <1>3

LEMMA PartType ==
  ASSUME NEW n \in 0..MaxRows
  PROVE  Part(n) \in Seq(Pieces)
<1>1. <<Mark("header")>> \in Seq(Pieces) /\ <<Mark("[")>> \in Seq(Pieces)
  BY Marks, Single
<1>2. Lines(n) \in Seq(Pieces) /\ Separated(n) \in Seq(Pieces)
  BY LinesType, SeparatedType
<1>3. /\ <<Mark("header")>> \o Lines(n) \in Seq(Pieces)
      /\ <<Mark("[")>> \o Separated(n) \in Seq(Pieces)
      /\ <<>> \in Seq(Pieces)
  BY <1>1, <1>2, ConcatProperties
<1> QED BY <1>2, <1>3 DEF Part

LEMMA ClosingType == Closing \in Seq(Pieces)
<1>1. <<Mark("]")>> \in Seq(Pieces)
  BY Marks, Single
<1>2. <<>> \in Seq(Pieces)
  OBVIOUS
<1> QED BY <1>1, <1>2 DEF Closing

\* A file is what its records make, closed.
LEMMA FileIsPart ==
  ASSUME NEW n \in 0..MaxRows
  PROVE  File(n) = Part(n) \o Closing
<1>1. CASE format = "json"
  BY <1>1 DEF File, Part, Closing, Separated
<1>2. CASE format # "json"
  <2>1. File(n) = Part(n)
    BY <1>2 DEF File, Part, Lines
  <2> QED BY <1>2, <2>1, PartType, ConcatEmptySeq DEF Closing
<1> QED BY <1>1, <1>2

\* A line more.
LEMMA LinesStep ==
  ASSUME NEW n \in 0..MaxRows, n < MaxRows
  PROVE  Lines(n) \o <<Item(n + 1)>> = Lines(n + 1)
<1>1. n + 1 \in 0..MaxRows /\ n \in Nat
  BY BoundsAreNat
<1>2. <<Item(n + 1)>> \in Seq(Pieces) /\ Len(<<Item(n + 1)>>) = 1
  BY ItemPiece, <1>1, BoundsAreNat
<1>3. Lines(n) \in Seq(Pieces) /\ Len(Lines(n)) = n
  BY LinesType
<1>4. Lines(n + 1) \in Seq(Pieces) /\ Len(Lines(n + 1)) = n + 1
  BY LinesType, <1>1
<1> DEFINE s == Lines(n) \o <<Item(n + 1)>>
<1>5. /\ s \in Seq(Pieces) /\ Len(s) = n + 1
      /\ \A i \in 1..n + 1 : s[i] = IF i <= n THEN Lines(n)[i] ELSE <<Item(n + 1)>>[i - n]
  BY <1>2, <1>3, ConcatProperties
<1>6. ASSUME NEW i \in 1..n + 1 PROVE s[i] = Lines(n + 1)[i]
  <2>1. Lines(n + 1)[i] = Item(i)
    BY DEF Lines
  <2>2. CASE i <= n
    <3>1. Lines(n)[i] = Item(i)
      BY <2>2, <1>1 DEF Lines
    <3> QED BY <2>1, <2>2, <3>1, <1>5
  <2>3. CASE ~(i <= n)
    <3>1. i = n + 1
      BY <2>3, <1>1
    <3>2. <<Item(n + 1)>>[1] = Item(n + 1)
      OBVIOUS
    <3>3. i - n = 1
      BY <3>1, <1>1
    <3> HIDE DEF s
    <3> QED BY <2>1, <2>3, <3>1, <3>2, <3>3, <1>5
  <2> QED BY <2>2, <2>3
<1> HIDE DEF s
<1>7. s = Lines(n + 1)
  BY <1>4, <1>5, <1>6, SeqEqual
<1> QED BY <1>7 DEF s

\* A value more, with a comma before it unless it is the first.
LEMMA SeparatedStep ==
  ASSUME NEW n \in 0..MaxRows, n < MaxRows
  PROVE  Separated(n) \o (IF n > 0 THEN <<Mark(","), Item(n + 1)>> ELSE <<Item(n + 1)>>)
           = Separated(n + 1)
<1> DEFINE k == IF n = 0 THEN 0 ELSE 2 * n - 1
           more == IF n > 0 THEN <<Mark(","), Item(n + 1)>> ELSE <<Item(n + 1)>>
           m == IF n > 0 THEN 2 ELSE 1
           s == Separated(n) \o more
<1>1. n + 1 \in 0..MaxRows /\ n \in Nat /\ k \in Nat /\ k + m = 2 * n + 1
  BY BoundsAreNat
<1>2. /\ more \in Seq(Pieces) /\ Len(more) = m
      /\ more[m] = Item(n + 1) /\ (n > 0 => more[1] = Mark(","))
  <2>1. n + 1 \in 1..MaxRows
    BY BoundsAreNat
  <2>2. Item(n + 1) \in Pieces /\ Mark(",") \in Pieces
    BY ItemPiece, Marks, <2>1
  <2>3. CASE n > 0
    BY <2>2, <2>3, Double
  <2>4. CASE ~(n > 0)
    BY <2>2, <2>4, Single
  <2> QED BY <2>3, <2>4
<1>3. Separated(n) \in Seq(Pieces) /\ Len(Separated(n)) = k
  BY SeparatedType
<1>4. Separated(n + 1) \in Seq(Pieces) /\ Len(Separated(n + 1)) = 2 * n + 1
  BY SeparatedType, <1>1
<1>5. /\ s \in Seq(Pieces) /\ Len(s) = k + m
      /\ \A i \in 1..k + m : s[i] = IF i <= k THEN Separated(n)[i] ELSE more[i - k]
  <2> HIDE DEF k, m, more
  <2> QED BY <1>2, <1>3, ConcatProperties
<1>6. ASSUME NEW i \in 1..2 * n + 1 PROVE s[i] = Separated(n + 1)[i]
  <2>1. Separated(n + 1)[i] = IF i % 2 = 1 THEN Item((i + 1) \div 2) ELSE Mark(",")
    <3>1. n + 1 # 0 /\ 2 * (n + 1) - 1 = 2 * n + 1
      BY <1>1
    <3>2. Separated(n + 1) = [j \in 1..2 * n + 1 |->
                                IF j % 2 = 1 THEN Item((j + 1) \div 2) ELSE Mark(",")]
      BY <3>1 DEF Separated
    <3> QED BY <3>2
  <2>2. CASE i <= k
    <3>1. Separated(n)[i] = IF i % 2 = 1 THEN Item((i + 1) \div 2) ELSE Mark(",")
      <4>1. Separated(n) = [j \in 1..k |->
                              IF j % 2 = 1 THEN Item((j + 1) \div 2) ELSE Mark(",")]
        BY DEF Separated
      <4>2. i \in 1..k
        BY <2>2, <1>1
      <4> HIDE DEF k
      <4> QED BY <4>1, <4>2
    <3>2. s[i] = Separated(n)[i]
      BY <2>2, <1>1, <1>5
    <3> QED BY <2>1, <3>1, <3>2
  <2>3. CASE ~(i <= k)
    <3>1. s[i] = more[i - k]
      BY <2>3, <1>1, <1>5
    <3>2. CASE i = 2 * n + 1
      <4>1. i % 2 = 1 /\ (i + 1) \div 2 = n + 1 /\ i - k = m
        BY <3>2, <1>1
      <4> HIDE DEF s, more, k, m
      <4> QED BY <2>1, <3>1, <4>1, <1>2
    <3>3. CASE i # 2 * n + 1
      <4>1. n > 0 /\ i = 2 * n /\ i - k = 1 /\ i % 2 # 1
        BY <2>3, <3>3, <1>1
      <4> HIDE DEF s, more, k, m
      <4> QED BY <2>1, <3>1, <4>1, <1>2
    <3> QED BY <3>2, <3>3
  <2> QED BY <2>2, <2>3
<1> HIDE DEF s, k, m
<1>7. s = Separated(n + 1)
  BY <1>1, <1>4, <1>5, <1>6, SeqEqual
<1> QED BY <1>7 DEF s

LEMMA RenderedType ==
  ASSUME count \in 0..MaxRows, count < MaxRows
  PROVE  Rendered \in Seq(Pieces)
<1>1. 1 \in 1..MaxRows /\ count + 1 \in 1..MaxRows
  BY BoundsAreNat
<1>2. Item(1) \in Pieces /\ Item(count + 1) \in Pieces
  BY <1>1, ItemPiece
<1>3. /\ <<Mark("header"), Item(1)>> \in Seq(Pieces)
      /\ <<Mark(","), Item(count + 1)>> \in Seq(Pieces)
      /\ <<Item(count + 1)>> \in Seq(Pieces)
  BY <1>2, Marks, Single, Double
<1> QED BY <1>3 DEF Rendered

\* What a record adds is what makes a part of one record more.
LEMMA PartStep ==
  ASSUME count \in 0..MaxRows, count < MaxRows
  PROVE  Part(count) \o Rendered = Part(count + 1)
<1>1. /\ Lines(count) \in Seq(Pieces) /\ Separated(count) \in Seq(Pieces)
      /\ Len(Lines(count)) = count
  BY LinesType, SeparatedType
<1>2. /\ <<Mark("header")>> \in Seq(Pieces) /\ <<Mark("[")>> \in Seq(Pieces)
      /\ <<Item(count + 1)>> \in Seq(Pieces)
  <2>1. count + 1 \in 1..MaxRows
    BY BoundsAreNat
  <2> QED BY <2>1, Marks, ItemPiece, Single
<1>3. count + 1 # 0
  BY BoundsAreNat
<1>4. CASE format = "csv" /\ count = 0
  <2>1. Lines(1) = <<Item(1)>>
    BY DEF Lines
  <2>2. <<Mark("header")>> \o <<Item(1)>> = <<Mark("header"), Item(1)>>
    <3>1. Item(1) \in Pieces /\ Mark("header") \in Pieces
      <4>1. 1 \in 1..MaxRows
        BY BoundsAreNat
      <4> QED BY <4>1, ItemPiece, Marks
    <3> QED BY <3>1, Double
  <2>3. Rendered \in Seq(Pieces)
    BY RenderedType
  <2> QED BY <1>4, <2>1, <2>2, <2>3, ConcatEmptySeq DEF Part, Rendered
<1>5. CASE format = "csv" /\ count # 0
  <2>1. Rendered = <<Item(count + 1)>>
    BY <1>5 DEF Rendered
  <2>2. Part(count) = <<Mark("header")>> \o Lines(count)
    BY <1>5 DEF Part
  <2>3. Part(count + 1) = <<Mark("header")>> \o Lines(count + 1)
    BY <1>3, <1>5 DEF Part
  <2>4. Lines(count) \o <<Item(count + 1)>> = Lines(count + 1)
    BY LinesStep
  <2>5. (<<Mark("header")>> \o Lines(count)) \o <<Item(count + 1)>>
          = <<Mark("header")>> \o (Lines(count) \o <<Item(count + 1)>>)
    BY <1>1, <1>2, ConcatAssociative
  <2> QED BY <2>1, <2>2, <2>3, <2>4, <2>5
<1>6. CASE format = "json"
  <2>1. Rendered = IF count > 0 THEN <<Mark(","), Item(count + 1)>> ELSE <<Item(count + 1)>>
    BY <1>6 DEF Rendered
  <2>2. Part(count) = <<Mark("[")>> \o Separated(count)
    BY <1>6 DEF Part
  <2>3. Part(count + 1) = <<Mark("[")>> \o Separated(count + 1)
    BY <1>6 DEF Part
  <2>4. Separated(count) \o Rendered = Separated(count + 1)
    BY <2>1, SeparatedStep
  <2>5. Rendered \in Seq(Pieces)
    BY RenderedType
  <2>6. (<<Mark("[")>> \o Separated(count)) \o Rendered
          = <<Mark("[")>> \o (Separated(count) \o Rendered)
    BY <2>5, <1>1, <1>2, ConcatAssociative
  <2> QED BY <2>2, <2>3, <2>4, <2>6
<1>7. CASE format # "csv" /\ format # "json"
  BY <1>7, LinesStep DEF Part, Rendered
<1> QED BY <1>4, <1>5, <1>6, <1>7

\* Before the first record there is the bracket, if there is one.
LEMMA PartZero == Part(0) = IF format = "json" THEN <<Mark("[")>> ELSE <<>>
<1>1. Separated(0) = <<>> /\ Lines(0) = <<>>
  BY DEF Separated, Lines
<1>2. <<Mark("[")>> \in Seq(Pieces)
  BY Marks, Single
<1> QED BY <1>1, <1>2, ConcatEmptySeq DEF Part
-----------------------------------------------------------------------------
(***************************************************************************)
(* The steps.                                                              *)
(***************************************************************************)

\* The type invariant, a variable at a time.
Typed ==
  /\ via \in {"pipe", "http"}
  /\ format \in {"csv", "json", "ndjson"} \/ (via = "http" /\ format = "other")
  /\ table \in 0..MaxRows /\ total \in 0..MaxRows /\ processed \in 0..MaxRows
  /\ rows \in 0..MaxRows /\ count \in 0..MaxRows /\ rowCount \in 0..MaxRows
  /\ wpc \in {"none", "start", "uploading", "done"}
  /\ status \in {"PROCESSING", "COMPLETED", "FAILED"}
  /\ resultKey \in BOOLEAN /\ conn \in BOOLEAN /\ cut \in BOOLEAN
  /\ exportErr \in BOOLEAN /\ client \in BOOLEAN /\ stored \in BOOLEAN
  /\ blame \in {"nobody", "stream", "upload"}
  /\ spc \in {"none", "begin", "query", "rows", "finish", "close", "failed",
              "closeErr", "returned"}
  /\ buffer \in Seq(Pieces) /\ received \in Seq(Pieces) /\ object \in Seq(Pieces)
  /\ pipe \in {"open", "eof", "error"}
  /\ faults \in Nat

LEMMA TypedIsTypeOK == ExportTypeOK <=> Typed
<1> DEFINE R == 0..MaxRows
           Q == Seq(Pieces)
<1>1. {table, total, processed, rows, count, rowCount} \subseteq R <=>
        /\ table \in R /\ total \in R /\ processed \in R
        /\ rows \in R /\ count \in R /\ rowCount \in R
  <2> HIDE DEF R
  <2> QED OBVIOUS
<1>2. {resultKey, conn, cut, exportErr, client, stored} \subseteq BOOLEAN <=>
        /\ resultKey \in BOOLEAN /\ conn \in BOOLEAN /\ cut \in BOOLEAN
        /\ exportErr \in BOOLEAN /\ client \in BOOLEAN /\ stored \in BOOLEAN
  BY Zenon
<1>3. {buffer, received, object} \subseteq Q <=>
        buffer \in Q /\ received \in Q /\ object \in Q
  <2> HIDE DEF Q
  <2> QED OBVIOUS
<1> HIDE DEF R, Q
<1> SUFFICES (/\ {table, total, processed, rows, count, rowCount} \subseteq R
              /\ {resultKey, conn, cut, exportErr, client, stored} \subseteq BOOLEAN
              /\ {buffer, received, object} \subseteq Q) <=>
             (/\ table \in R /\ total \in R /\ processed \in R
              /\ rows \in R /\ count \in R /\ rowCount \in R
              /\ resultKey \in BOOLEAN /\ conn \in BOOLEAN /\ cut \in BOOLEAN
              /\ exportErr \in BOOLEAN /\ client \in BOOLEAN /\ stored \in BOOLEAN
              /\ buffer \in Q /\ received \in Q /\ object \in Q)
  BY Zenon DEF ExportTypeOK, Typed, R, Q
<1> QED BY <1>1, <1>2, <1>3, Zenon

LEMMA InitIInv == Init => IInv
<1> SUFFICES ASSUME Init PROVE IInv
  OBVIOUS
<1>1. ExportTypeOK
  <2>1. 0 \in 0..MaxRows /\ <<>> \in Seq(Pieces)
    BY BoundsAreNat
  <2>2. Typed
    BY <2>1 DEF Init, Typed
  <2> QED BY <2>2, TypedIsTypeOK
<1>2. OutputInv
  BY DEF Init, OutputInv, Finished
<1>3. QueryInv /\ PipeInv /\ FaultInv /\ JobInv /\ CompletedExportExact
  BY DEF Init, QueryInv, PipeInv, FaultInv, JobInv, CompletedExportExact, Finished, Failing
<1> QED BY <1>1, <1>2, <1>3 DEF IInv

\* What a step does not touch keeps its part of the invariant.
LEMMA Frame ==
  ASSUME IInv, UNCHANGED <<via, format>>
  PROVE  /\ UNCHANGED <<spc, buffer, count, exportErr, received, client>> => OutputInv'
         /\ UNCHANGED <<spc, rows, conn, count, cut, buffer, exportErr>> => QueryInv'
         /\ UNCHANGED <<wpc, spc, count, pipe, rowCount, exportErr>> => PipeInv'
         /\ UNCHANGED <<status, blame, spc, exportErr, client, faults>> => FaultInv'
         /\ UNCHANGED <<wpc, status, total, processed, resultKey, blame, spc, count, pipe>>
              => JobInv'
         /\ UNCHANGED <<status, total, processed, resultKey, rows, cut, exportErr, object,
                        stored>> => CompletedExportExact'
<1>1. File(count)' = File(count') /\ Part(count)' = Part(count') /\ File(processed)' = File(processed')
  BY DEF File, Part, Lines, Separated
<1>2. UNCHANGED <<spc, buffer, count, exportErr, received, client>> => OutputInv'
  BY <1>1 DEF IInv, OutputInv, Finished
<1>3. UNCHANGED <<spc, rows, conn, count, cut, buffer, exportErr>> => QueryInv'
  BY DEF IInv, QueryInv, Finished
<1>4. UNCHANGED <<wpc, spc, count, pipe, rowCount, exportErr>> => PipeInv'
  BY DEF IInv, PipeInv
<1>5. UNCHANGED <<status, blame, spc, exportErr, client, faults>> => FaultInv'
  BY DEF IInv, FaultInv, Failing
<1>6. UNCHANGED <<wpc, status, total, processed, resultKey, blame, spc, count, pipe>>
        => JobInv'
  BY DEF IInv, JobInv
<1>7. UNCHANGED <<status, total, processed, resultKey, rows, cut, exportErr, object,
                  stored>> => CompletedExportExact'
  BY <1>1 DEF IInv, CompletedExportExact
<1> QED BY <1>2, <1>3, <1>4, <1>5, <1>6, <1>7

\* The formats do not change under the operators.
LEMMA Primes ==
  ASSUME UNCHANGED format
  PROVE  /\ Part(count)' = Part(count') /\ File(count)' = File(count')
         /\ File(processed)' = File(processed')
  BY DEF File, Part, Lines, Separated

LEMMA TableChangesStep == IInv /\ TableChanges => IInv'
<1> SUFFICES ASSUME IInv, TableChanges PROVE IInv'
  OBVIOUS
<1> USE DEF TableChanges, jobVars, queryVars, closeVars, objectVars
<1>1. Typed
  BY TypedIsTypeOK DEF IInv
<1>2. Typed'
  BY <1>1 DEF Typed
<1>3. ExportTypeOK'
  BY <1>2, TypedIsTypeOK DEF ExportTypeOK, Typed
<1> QED BY <1>3, Frame DEF IInv

LEMMA BeginStep == IInv /\ Begin => IInv'
<1> SUFFICES ASSUME IInv, Begin PROVE IInv'
  OBVIOUS
<1> USE DEF Begin, jobVars, queryVars, closeVars, objectVars
<1>1. Typed
  BY TypedIsTypeOK DEF IInv
<1>2. buffer' \in Seq(Pieces)
  <2>1. <<Mark("[")>> \in Seq(Pieces)
    BY Marks, Single
  <2>2. <<>> \in Seq(Pieces)
    OBVIOUS
  <2> QED BY <2>1, <2>2
<1>3. Typed'
  BY <1>1, <1>2 DEF Typed
<1>4. ExportTypeOK'
  BY <1>3, TypedIsTypeOK DEF ExportTypeOK, Typed
<1>5. OutputInv'
  <2>1. count = 0 /\ (via = "pipe" \/ client => received = <<>>)
    BY DEF IInv, QueryInv, OutputInv
  <2>2. <<>> \o buffer' = buffer'
    BY <1>2, ConcatEmptySeq
  <2>3. buffer' = Part(count)'
    BY <2>1, PartZero, Primes
  <2> QED BY <2>1, <2>2, <2>3 DEF OutputInv, Finished
<1>6. QueryInv' /\ PipeInv' /\ FaultInv' /\ JobInv'
  BY DEF IInv, QueryInv, PipeInv, FaultInv, JobInv, Finished, Failing
<1> QED BY <1>4, <1>5, <1>6, Frame DEF IInv

LEMMA OpenRowsStep == IInv /\ OpenRows => IInv'
<1> SUFFICES ASSUME IInv, OpenRows PROVE IInv'
  OBVIOUS
<1> USE DEF OpenRows, jobVars, queryVars, closeVars, objectVars
<1>1. Typed
  BY TypedIsTypeOK DEF IInv
<1>2. Typed'
  <2>1. faults' \in Nat
    BY <1>1 DEF Typed, Fault
  <2>2. rows' \in 0..MaxRows /\ conn' \in BOOLEAN /\ spc' \in {"rows", "failed"}
    BY <1>1 DEF Typed
  <2> QED BY <1>1, <2>1, <2>2 DEF Typed
<1>3. ExportTypeOK'
  BY <1>2, TypedIsTypeOK DEF ExportTypeOK, Typed
<1>4. OutputInv'
  BY Primes DEF IInv, OutputInv, PipeInv, Finished
<1>5. QueryInv'
  BY <1>1, BoundsAreNat DEF IInv, QueryInv, PipeInv, Finished, Typed
<1>6. PipeInv' /\ JobInv'
  BY DEF IInv, PipeInv, JobInv
<1>7. FaultInv'
  BY <1>1 DEF IInv, FaultInv, Failing, Fault, Typed, PipeInv
<1>8. CompletedExportExact'
  BY Primes DEF IInv, JobInv, PipeInv, CompletedExportExact
<1> QED BY <1>3, <1>4, <1>5, <1>6, <1>7, <1>8 DEF IInv

LEMMA WriteRecordStep == IInv /\ WriteRecord => IInv'
<1> SUFFICES ASSUME IInv, WriteRecord PROVE IInv'
  OBVIOUS
<1> USE DEF WriteRecord, jobVars, queryVars, closeVars, objectVars
<1>1. Typed
  BY TypedIsTypeOK DEF IInv
<1>2. count \in 0..MaxRows /\ count < MaxRows /\ count + 1 \in 0..MaxRows
  BY <1>1, BoundsAreNat DEF Typed
<1>3. Rendered \in Seq(Pieces)
  BY <1>2, RenderedType
<1>4. buffer' \in Seq(Pieces)
  BY <1>1, <1>3, ConcatProperties DEF Typed
<1>5. Typed'
  BY <1>1, <1>2, <1>4 DEF Typed
<1>6. ExportTypeOK'
  BY <1>5, TypedIsTypeOK DEF ExportTypeOK, Typed
<1>7. OutputInv'
  <2>1. received \o (buffer \o Rendered) = (received \o buffer) \o Rendered
    <3>1. received \in Seq(Pieces) /\ buffer \in Seq(Pieces)
      BY <1>1 DEF Typed
    <3> QED BY <1>3, <3>1, ConcatAssociative
  <2>2. Part(count) \o Rendered = Part(count)'
    BY <1>2, PartStep, Primes
  <2> QED BY <2>1, <2>2 DEF IInv, OutputInv, PipeInv, Finished
<1>8. QueryInv'
  BY <1>1, <1>2 DEF IInv, QueryInv, PipeInv, Finished, Typed
<1>9. PipeInv' /\ JobInv' /\ CompletedExportExact'
  BY Primes DEF IInv, PipeInv, JobInv, CompletedExportExact
<1> QED BY <1>6, <1>7, <1>8, <1>9, Frame DEF IInv

LEMMA EndRowsStep == IInv /\ EndRows => IInv'
<1> SUFFICES ASSUME IInv, EndRows PROVE IInv'
  OBVIOUS
<1> USE DEF EndRows, jobVars, queryVars, closeVars, objectVars
<1>1. Typed
  BY TypedIsTypeOK DEF IInv
<1>2. buffer' = buffer \o Closing /\ Closing \in Seq(Pieces)
  <2>1. CASE format = "json"
    BY <2>1, ClosingType, ConcatEmptySeq DEF Written, Closing
  <2>2. CASE format # "json"
    BY <1>1, <2>2, ClosingType, ConcatEmptySeq DEF Closing, Typed
  <2> QED BY <2>1, <2>2
<1>a. received \in Seq(Pieces) /\ buffer \in Seq(Pieces)
  BY <1>1 DEF Typed
<1>3. buffer' \in Seq(Pieces)
  <2>1. buffer \o Closing \in Seq(Pieces)
    BY <1>a, <1>2, ConcatProperties
  <2> QED BY <2>1, <1>2
<1>4. Typed'
  <2>1. faults' \in Nat
    BY <1>1 DEF Typed, Fault
  <2>2. cut' \in BOOLEAN /\ conn' \in BOOLEAN
    BY <1>1 DEF Typed
  <2> QED BY <1>1, <1>3, <2>1, <2>2 DEF Typed
<1>5. ExportTypeOK'
  BY <1>4, TypedIsTypeOK DEF ExportTypeOK, Typed
<1>6. OutputInv'
  <2>1. received \o (buffer \o Closing) = (received \o buffer) \o Closing
    BY <1>a, <1>2, ConcatAssociative
  <2>2. File(count)' = Part(count) \o Closing
    BY <1>1, FileIsPart, Primes DEF Typed
  <2> QED BY <1>2, <2>1, <2>2 DEF IInv, OutputInv, Finished
<1>7. QueryInv'
  BY <1>1 DEF IInv, QueryInv, PipeInv, Finished, Typed
<1>8. PipeInv' /\ JobInv'
  BY DEF IInv, PipeInv, JobInv
<1>9. FaultInv'
  BY <1>1 DEF IInv, FaultInv, Failing, Fault, Typed, PipeInv
<1>10. CompletedExportExact'
  BY Primes DEF IInv, JobInv, PipeInv, CompletedExportExact
<1> QED BY <1>5, <1>6, <1>7, <1>8, <1>9, <1>10 DEF IInv

LEMMA FinishStep == IInv /\ Finish => IInv'
<1> SUFFICES ASSUME IInv, Finish PROVE IInv'
  OBVIOUS
<1> USE DEF Finish, jobVars, queryVars, closeVars, objectVars
<1>1. Typed
  BY TypedIsTypeOK DEF IInv
<1>2. Typed'
  BY <1>1 DEF Typed
<1>3. ExportTypeOK'
  BY <1>2, TypedIsTypeOK DEF ExportTypeOK, Typed
<1>4. OutputInv'
  BY Primes DEF IInv, OutputInv, PipeInv, Finished
<1>5. QueryInv'
  BY DEF IInv, QueryInv, PipeInv, Finished
<1>6. PipeInv'
  BY <1>1 DEF IInv, PipeInv, Typed
<1>7. FaultInv' /\ JobInv'
  BY DEF IInv, PipeInv, FaultInv, JobInv, Failing
<1> QED BY <1>3, <1>4, <1>5, <1>6, <1>7, Frame DEF IInv

LEMMA FinishWithErrorStep == IInv /\ FinishWithError => IInv'
<1> SUFFICES ASSUME IInv, FinishWithError PROVE IInv'
  OBVIOUS
<1> USE DEF jobVars, queryVars, closeVars, objectVars
<1>1. Typed
  BY TypedIsTypeOK DEF IInv
<1>2. /\ UNCHANGED <<via, format, table, wpc, status, total, processed, resultKey, blame,
                     rows, conn, count, cut, buffer, rowCount, received, client, object,
                     stored, faults>>
      /\ exportErr' = TRUE /\ spc' \in {"closeErr", "returned"} /\ ~Finished'
      /\ spc \in {"failed", "closeErr"} /\ (spc' = "closeErr" => via = "pipe")
      /\ \/ UNCHANGED pipe /\ spc # "closeErr"
         \/ spc' = "returned" /\ pipe' = "error"
  <2>1. CASE spc = "failed"
    BY <2>1 DEF FinishWithError, Finished
  <2>2. CASE spc = "closeErr"
    <3>1. exportErr
      BY <2>2 DEF IInv, PipeInv
    <3>2. exportErr = TRUE
      BY <1>1, <3>1 DEF Typed
    <3> QED BY <2>2, <3>2 DEF FinishWithError, Finished
  <2> QED BY <2>1, <2>2 DEF FinishWithError
<1>3. ExportTypeOK'
  <2>1. pipe' \in {"open", "eof", "error"}
    BY <1>1, <1>2 DEF Typed
  <2>2. Typed'
    BY <1>1, <1>2, <2>1 DEF Typed
  <2> QED BY <2>2, TypedIsTypeOK DEF ExportTypeOK, Typed
<1>4. OutputInv'
  BY <1>2, Primes DEF OutputInv
<1>5. QueryInv' /\ PipeInv'
  BY <1>1, <1>2 DEF IInv, QueryInv, PipeInv, Typed
<1>6. FaultInv' /\ JobInv'
  BY <1>2 DEF IInv, PipeInv, FaultInv, JobInv, Failing
<1>7. CompletedExportExact'
  BY <1>2, Primes DEF IInv, JobInv, PipeInv, CompletedExportExact
<1> QED BY <1>3, <1>4, <1>5, <1>6, <1>7 DEF IInv

\* The other side reads what there is: nothing is lost between the two.
LEMMA ReceiveStep ==
  ASSUME IInv, Receive,
         UNCHANGED <<via, format, table, jobVars, spc, queryVars, closeVars, client,
                     objectVars, faults>>
  PROVE  IInv'
<1> USE DEF jobVars, queryVars, closeVars, objectVars
<1>1. Typed
  BY TypedIsTypeOK DEF IInv
<1>2. received \in Seq(Pieces) /\ buffer \in Seq(Pieces)
  BY <1>1 DEF Typed
<1>3. /\ received \o buffer \in Seq(Pieces) /\ <<>> \in Seq(Pieces)
      /\ (received \o buffer) \o <<>> = received \o buffer
  BY <1>2, ConcatProperties, ConcatEmptySeq
<1>4. received' \in Seq(Pieces) /\ buffer' \in Seq(Pieces)
  BY <1>3 DEF Receive
<1>5. ExportTypeOK'
  <2>1. Typed'
    BY <1>1, <1>4 DEF Typed
  <2> QED BY <2>1, TypedIsTypeOK DEF ExportTypeOK, Typed
<1>6. OutputInv'
  <2>1. received' \o buffer' = received \o buffer
    BY <1>3 DEF Receive
  <2>2. spc \in {"none", "begin"} => ~(via = "pipe" \/ client)
    BY DEF IInv, OutputInv, Receive
  <2> QED BY <2>1, <2>2, Primes DEF IInv, OutputInv, Finished
<1>7. QueryInv'
  BY <1>1 DEF IInv, QueryInv, Finished, Receive, Typed
<1> QED BY <1>5, <1>6, <1>7, Frame DEF IInv

LEMMA ClientStep == IInv /\ (ClientReads \/ ClientLeaves \/ WriteLost) => IInv'
<1> SUFFICES ASSUME IInv, ClientReads \/ ClientLeaves \/ WriteLost PROVE IInv'
  OBVIOUS
<1>1. Typed
  BY TypedIsTypeOK DEF IInv
<1>2. CASE ClientReads
  BY <1>2, ReceiveStep DEF ClientReads
<1>3. CASE ClientLeaves
  <2> USE DEF jobVars, queryVars, closeVars, objectVars
  <2>1. /\ UNCHANGED <<via, format, table, jobVars, spc, queryVars, buffer, closeVars,
                       received, objectVars>>
        /\ via = "http" /\ client' = FALSE /\ faults' \in Nat /\ faults' > 0
        /\ blame = "nobody"
    BY <1>1, <1>3 DEF ClientLeaves, Fault, Typed, IInv, PipeInv, JobInv
  <2>2. ExportTypeOK'
    <3>1. client' \in BOOLEAN /\ faults' \in Nat
      BY <2>1
    <3>2. Typed'
      BY <1>1, <2>1, <3>1 DEF Typed
    <3> QED BY <3>2, TypedIsTypeOK DEF ExportTypeOK, Typed
  <2>3. OutputInv'
    BY <2>1 DEF OutputInv
  <2>4. FaultInv'
    BY <2>1 DEF IInv, FaultInv
  <2> QED BY <2>1, <2>2, <2>3, <2>4, Frame DEF IInv
<1>4. CASE WriteLost
  <2> USE DEF jobVars, queryVars, closeVars, objectVars
  <2>1. /\ UNCHANGED <<via, format, table, jobVars, rows, count, cut, closeVars, received,
                       client, objectVars, faults>>
        /\ via = "http" /\ ~client /\ buffer' = <<>>
        /\ \/ UNCHANGED <<spc, conn>>
           \/ spc = "rows" /\ spc' = "failed" /\ conn' = FALSE
        /\ faults > 0 /\ wpc = "none" /\ blame = "nobody" /\ status = "PROCESSING"
    BY <1>4 DEF WriteLost, IInv, FaultInv, PipeInv, JobInv
  <2>2. ExportTypeOK'
    <3>1. /\ conn' \in BOOLEAN
          /\ spc' \in {"none", "begin", "query", "rows", "finish", "close", "failed",
                       "closeErr", "returned"}
      BY <1>1, <2>1 DEF Typed
    <3>2. buffer' \in Seq(Pieces)
      BY <2>1
    <3>3. Typed'
      BY <1>1, <2>1, <3>1, <3>2 DEF Typed
    <3> QED BY <3>3, TypedIsTypeOK DEF ExportTypeOK, Typed
  <2>3. OutputInv'
    BY <1>1, <2>1 DEF OutputInv, Typed
  <2>4. QueryInv'
    BY <1>1, <2>1 DEF IInv, QueryInv, PipeInv, Finished, Typed
  <2>5. PipeInv' /\ JobInv'
    BY <2>1 DEF IInv, PipeInv, JobInv
  <2>6. FaultInv'
    BY <2>1 DEF IInv, FaultInv
  <2>7. CompletedExportExact'
    BY <2>1 DEF CompletedExportExact
  <2> QED BY <2>2, <2>3, <2>4, <2>5, <2>6, <2>7 DEF IInv
<1> QED BY <1>2, <1>3, <1>4

LEMMA StartExportStep == IInv /\ StartExport => IInv'
<1> SUFFICES ASSUME IInv, StartExport PROVE IInv'
  OBVIOUS
<1> USE DEF StartExport, queryVars, closeVars, objectVars
<1>1. Typed
  BY TypedIsTypeOK DEF IInv
<1>2. faults' \in Nat /\ faults' >= faults /\ total' \in 0..MaxRows
  BY <1>1, BoundsAreNat DEF Typed, Fault
<1>3. ExportTypeOK'
  <2>1. Typed'
    BY <1>1, <1>2 DEF Typed
  <2> QED BY <2>1, TypedIsTypeOK DEF ExportTypeOK, Typed
<1>4. OutputInv'
  BY Primes DEF IInv, OutputInv, PipeInv, Finished
<1>5. QueryInv' /\ PipeInv'
  BY <1>1 DEF IInv, QueryInv, PipeInv, Finished, Typed
<1>6. FaultInv'
  BY <1>1, <1>2 DEF IInv, FaultInv, PipeInv, JobInv, Failing, Typed
<1>7. JobInv' /\ CompletedExportExact'
  BY DEF IInv, JobInv, CompletedExportExact
<1> QED BY <1>3, <1>4, <1>5, <1>6, <1>7 DEF IInv

LEMMA UploadReadsStep == IInv /\ UploadReads => IInv'
  BY ReceiveStep DEF UploadReads

LEMMA UploadSucceedsStep == IInv /\ UploadSucceeds => IInv'
<1> SUFFICES ASSUME IInv, UploadSucceeds PROVE IInv'
  OBVIOUS
<1> USE DEF UploadSucceeds, jobVars, queryVars, closeVars, objectVars
<1>1. Typed
  BY TypedIsTypeOK DEF IInv
<1>2. /\ wpc = "uploading" /\ pipe = "eof" /\ spc = "returned" /\ ~exportErr
      /\ rowCount = count /\ buffer = <<>> /\ via = "pipe" /\ Finished
      /\ cut \/ count = rows
  BY <1>1 DEF IInv, PipeInv, QueryInv, Finished, Typed
<1>3. /\ UNCHANGED <<via, format, table, spc, queryVars, buffer, closeVars, received,
                     client, faults, blame>>
      /\ wpc' = "done" /\ status' = "COMPLETED" /\ processed' = rowCount
      /\ total' = rowCount /\ resultKey' = TRUE /\ object' = received /\ stored' = TRUE
  BY <1>2 DEF Conclude
<1>4. ExportTypeOK'
  <2>1. Typed'
    BY <1>1, <1>3 DEF Typed
  <2> QED BY <2>1, TypedIsTypeOK DEF ExportTypeOK, Typed
<1>5. received = File(count)
  <2>1. received \o <<>> = received
    BY <1>1, ConcatEmptySeq DEF Typed
  <2> QED BY <1>2, <2>1 DEF IInv, OutputInv
<1>6. CompletedExportExact'
  <2>1. File(processed)' = File(count)
    BY <1>2, <1>3, Primes
  <2> QED BY <1>2, <1>3, <1>5, <2>1 DEF CompletedExportExact
<1>7. FaultInv'
  BY <1>2, <1>3 DEF IInv, FaultInv, JobInv, Failing
<1>8. PipeInv' /\ JobInv'
  BY <1>2, <1>3 DEF IInv, PipeInv, JobInv
<1> QED BY <1>3, <1>4, <1>6, <1>7, <1>8, Frame DEF IInv

LEMMA UploadFailsStep == IInv /\ UploadFails => IInv'
<1> SUFFICES ASSUME IInv, UploadFails PROVE IInv'
  OBVIOUS
<1> USE DEF jobVars, queryVars, closeVars, objectVars
<1>1. Typed
  BY TypedIsTypeOK DEF IInv
<1>2. /\ UNCHANGED <<via, format, table, spc, queryVars, buffer, closeVars, received,
                     client, total, processed, resultKey>>
      /\ wpc = "uploading" /\ wpc' = "done" /\ status' = "FAILED"
      /\ blame' = IF exportErr THEN "stream" ELSE "upload"
  BY DEF UploadFails, Conclude
<1>3. /\ faults' \in Nat /\ faults' >= faults
      /\ pipe = "error" \/ faults' = faults + 1
      /\ object' \in {object, received} /\ stored' \in BOOLEAN
  <2>1. CASE pipe = "error" /\ UNCHANGED <<objectVars, faults>>
    BY <1>1, <2>1 DEF Typed
  <2>2. CASE Fault /\ UNCHANGED objectVars
    BY <1>1, <2>2 DEF Fault, Typed
  <2>3. CASE Fault /\ pipe = "eof" /\ object' = received /\ stored' = TRUE
    BY <1>1, <2>3 DEF Fault, Typed
  <2> QED BY <2>1, <2>2, <2>3 DEF UploadFails
<1>4. ExportTypeOK'
  <2>1. blame' \in {"stream", "upload"}
    BY <1>2
  <2>2. object' \in Seq(Pieces)
    BY <1>1, <1>3 DEF Typed
  <2>3. Typed'
    BY <1>1, <1>2, <1>3, <2>1, <2>2 DEF Typed
  <2> QED BY <2>3, TypedIsTypeOK DEF ExportTypeOK, Typed
<1>5. FaultInv'
  <2>1. CASE exportErr
    <3>1. faults > 0
      BY <2>1 DEF IInv, FaultInv, Failing
    <3> QED BY <1>1, <1>2, <1>3, <2>1, <3>1 DEF FaultInv, Typed
  <2>2. CASE ~exportErr
    <3>1. faults' = faults + 1
      BY <1>3, <2>2 DEF IInv, PipeInv
    <3>2. Failing => faults > 0
      BY DEF IInv, FaultInv
    <3>3. Failing' <=> Failing
      BY <1>2 DEF Failing
    <3> QED BY <1>1, <1>2, <2>2, <3>1, <3>2, <3>3 DEF FaultInv, Typed
  <2> QED BY <2>1, <2>2
<1>6. PipeInv'
  BY <1>2 DEF IInv, PipeInv
<1>7. JobInv' /\ CompletedExportExact'
  BY <1>2 DEF IInv, PipeInv, JobInv, CompletedExportExact
<1> QED BY <1>2, <1>4, <1>5, <1>6, <1>7, Frame DEF IInv

LEMMA StutterStep == IInv /\ UNCHANGED vars => IInv'
<1> SUFFICES ASSUME IInv, UNCHANGED vars PROVE IInv'
  OBVIOUS
<1> USE DEF vars, jobVars, queryVars, closeVars, objectVars
<1>1. ExportTypeOK'
  <2>1. Typed
    BY TypedIsTypeOK DEF IInv
  <2>2. Typed'
    BY <2>1 DEF Typed
  <2> QED BY <2>2, TypedIsTypeOK DEF ExportTypeOK, Typed
<1> QED BY <1>1, Frame DEF IInv

LEMMA NextIInv == IInv /\ [Next]_vars => IInv'
<1> SUFFICES ASSUME IInv, [Next]_vars PROVE IInv'
  OBVIOUS
<1>1. CASE TableChanges
  BY <1>1, TableChangesStep
<1>2. CASE StreamExport
  BY <1>2, BeginStep, OpenRowsStep, WriteRecordStep, EndRowsStep, FinishStep,
     FinishWithErrorStep DEF StreamExport
<1>3. CASE ClientReads \/ ClientLeaves \/ WriteLost
  BY <1>3, ClientStep
<1>4. CASE ProcessExport
  BY <1>4, StartExportStep, UploadReadsStep, UploadSucceedsStep, UploadFailsStep
  DEF ProcessExport
<1>5. CASE UNCHANGED vars
  BY <1>5, StutterStep
<1> QED BY <1>1, <1>2, <1>3, <1>4, <1>5 DEF Next

LEMMA Invariance == Spec => []IInv
<1>1. Init => IInv
  BY InitIInv
<1>2. IInv /\ [Next]_vars => IInv'
  BY NextIInv
<1> QED BY <1>1, <1>2, PTL DEF Spec
-----------------------------------------------------------------------------
(***************************************************************************)
(* Theorems.                                                               *)
(***************************************************************************)

\* Every variable of an export keeps its type; in particular no more is rendered
\* than the table ever held, and what is read is made of records and punctuation.
THEOREM TypeCorrect == Spec => []ExportTypeOK
<1>1. IInv => ExportTypeOK
  BY DEF IInv
<1> QED BY <1>1, Invariance, PTL

\* A COMPLETED export has its whole file in the bucket, with exactly the records
\* that ProcessedRows and TotalRows count, whatever the estimate said, however
\* the table changed and however goroutine and upload interleaved (processExport,
\* StreamExport).
THEOREM CompletedIsExact == Spec => []CompletedExportExact
<1>1. IInv => CompletedExportExact
  BY DEF IInv
<1> QED BY <1>1, Invariance, PTL

\* A synchronous export gives a client who stays the whole file, unless the query
\* failed or broke off (SyncExport).
THEOREM ResponseIsExact == Spec => []ResponseExact
<1>1. IInv => ResponseExact
  <2> SUFFICES ASSUME IInv, via = "http", spc = "returned", client, ~exportErr
               PROVE  received = File(count) /\ (cut \/ count = rows)
    BY DEF ResponseExact
  <2>1. Finished /\ buffer = <<>>
    BY DEF IInv, QueryInv, Finished
  <2>2. received \in Seq(Pieces)
    BY TypedIsTypeOK DEF IInv, Typed
  <2>3. received \o <<>> = received
    BY <2>2, ConcatEmptySeq
  <2> QED BY <2>1, <2>3 DEF IInv, QueryInv, OutputInv
<1> QED BY <1>1, Invariance, PTL

\* The query's connection is held beyond the export only when the upload failed
\* on its own and left the goroutine at the pipe (processExport).
THEOREM ConnectionIsReturned == Spec => []ConnectionReturned
<1>1. IInv => ConnectionReturned
  BY DEF IInv, QueryInv, FaultInv, JobInv, ConnectionReturned
<1> QED BY <1>1, Invariance, PTL

\* A failed export blames the stream or the upload, whichever failed, and has no
\* result key (the end of processExport).
THEOREM BlameIsRight == Spec => []BlameRight
<1>1. IInv => BlameRight
  BY DEF IInv, PipeInv, FaultInv, JobInv, BlameRight, Failing
<1> QED BY <1>1, Invariance, PTL
=============================================================================
