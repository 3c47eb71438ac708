----------------------------- MODULE ExportJob ------------------------------
(***************************************************************************)
(* One export: core.StreamExport renders the rows of a query into a writer *)
(* which is either one end of an io.Pipe whose other end PutObject reads   *)
(* (processExport, run by the worker), or the HTTP response (SyncExport).  *)
(* JobQueue sees the first as StartExport and FinishExport or FailExport.  *)
(*                                                                         *)
(* The table is the number of rows the query's filters let through; a      *)
(* query returns rows 1, 2, ... of the table at that moment.               *)
(***************************************************************************)
EXTENDS Naturals, Sequences

CONSTANTS MaxRows,    \* most rows the table ever has
          MaxFaults   \* bound on failures of the database, S3 and the client

ASSUME ExportAssumption == {MaxRows, MaxFaults} \subseteq Nat

VARIABLES
  via, format,    \* "pipe" or "http"; what the request asked for
  table,          \* rows that match now
  wpc,            \* the worker: "none" for a synchronous export
  status,         \* job.Status, TotalRows, ProcessedRows; ResultKey is set
  total, processed, resultKey,
  blame,          \* whose error job.ErrorMessage reports
  spc,            \* the streaming goroutine, or the handler
  rows, conn,     \* rows of the query; it holds a database connection
  count,          \* records rendered
  cut,            \* history: the query broke off
  buffer,         \* rendered and not yet read from the other side
  pipe,           \* "open", closed with "eof", closed with an "error"
  rowCount, exportErr,   \* shared by the goroutine and the worker; err of a handler
  received,       \* what the other side has read
  client,         \* the HTTP client is there
  object, stored, \* the object in the bucket, if it is
  faults          \* failures so far

jobVars    == <<wpc, status, total, processed, resultKey, blame>>
queryVars  == <<rows, conn, count, cut>>
closeVars  == <<pipe, rowCount, exportErr>>
objectVars == <<object, stored>>
vars == <<via, format, table, jobVars, spc, queryVars, buffer, closeVars, received,
          client, objectVars, faults>>

\* One piece of output: a record, or punctuation.
Item(n) == <<"record", n>>
Mark(m) == <<m, 0>>
Pieces  == {Mark(m) : m \in {"header", "[", ",", "]"}} \cup {Item(n) : n \in 1..MaxRows}

ExportTypeOK ==
  /\ via \in {"pipe", "http"}
  /\ format \in {"csv", "json", "ndjson"} \/ (via = "http" /\ format = "other")
  /\ {table, total, processed, rows, count, rowCount} \subseteq 0..MaxRows
  /\ wpc \in {"none", "start", "uploading", "done"}
  /\ status \in {"PROCESSING", "COMPLETED", "FAILED"}
  /\ {resultKey, conn, cut, exportErr, client, stored} \subseteq BOOLEAN
  /\ blame \in {"nobody", "stream", "upload"}
  /\ spc \in {"none", "begin", "query", "rows", "finish", "close", "failed",
              "closeErr", "returned"}
  /\ {buffer, received, object} \subseteq Seq(Pieces)
  /\ pipe \in {"open", "eof", "error"}
  /\ faults \in Nat

\* AsyncExport refuses other formats; SyncExport takes any.
Init ==
  /\ via \in {"pipe", "http"}
  /\ format \in {"csv", "json", "ndjson"} \/ (via = "http" /\ format = "other")
  /\ table \in 0..MaxRows
  /\ IF via = "pipe" THEN wpc = "start" /\ spc = "none" ELSE wpc = "none" /\ spc = "begin"
  /\ status = "PROCESSING" /\ total = 0 /\ processed = 0 /\ resultKey = FALSE
  /\ blame = "nobody"
  /\ rows = 0 /\ conn = FALSE /\ count = 0 /\ cut = FALSE
  /\ buffer = <<>> /\ received = <<>>
  /\ pipe = "open" /\ rowCount = 0 /\ exportErr = FALSE
  /\ client = TRUE
  /\ object = <<>> /\ stored = FALSE
  /\ faults = 0

Fault == faults < MaxFaults /\ faults' = faults + 1

\* Other requests insert and delete rows.
TableChanges ==
  /\ table' \in 0..MaxRows
  /\ UNCHANGED <<via, format, jobVars, spc, queryVars, buffer, closeVars, received,
                 client, objectVars, faults>>
-----------------------------------------------------------------------------
(***************************************************************************)
(* StreamExport.                                                           *)
(***************************************************************************)

\* The bracket of a JSON array is written before the query is made.
Begin ==
  /\ spc = "begin"
  /\ spc' = "query"
  /\ buffer' = IF format = "json" THEN <<Mark("[")>> ELSE <<>>
  /\ UNCHANGED <<via, format, table, jobVars, queryVars, closeVars, received, client,
                 objectVars, faults>>

OpenRows ==
  /\ spc = "query" /\ buffer = <<>>
  /\ \/ /\ rows' = table /\ conn' = TRUE
        /\ spc' = "rows"
        /\ UNCHANGED faults
     \/ Fault /\ spc' = "failed" /\ UNCHANGED <<rows, conn>>
  /\ UNCHANGED <<via, format, table, jobVars, count, cut, buffer, closeVars, received,
                 client, objectVars>>

\* A write to the pipe or the response returns when it was read, but what goes
\* through the csv.Writer may wait in its buffer.
Written == buffer = <<>> \/ format = "csv"

\* Mutant: a comma before the first value too.
RenderedComma == CASE format = "csv"  /\ count = 0 -> <<Mark("header"), Item(1)>>
                   [] format = "json" -> <<Mark(","), Item(count + 1)>>
                   [] OTHER -> <<Item(count + 1)>>

\* writeRecord: the header comes with the first row, a comma before every other.
Rendered == CASE format = "csv"  /\ count = 0 -> <<Mark("header"), Item(1)>>
              [] format = "json" /\ count > 0 -> <<Mark(","), Item(count + 1)>>
              [] OTHER -> <<Item(count + 1)>>

\* Mutant: one row more than there are.
WriteRecordPast ==
  /\ spc = "rows" /\ Written
  /\ count <= rows
  /\ buffer' = buffer \o Rendered
  /\ count' = count + 1
  /\ UNCHANGED <<via, format, table, jobVars, spc, rows, conn, cut, closeVars, received,
                 client, objectVars, faults>>

WriteRecord ==
  /\ spc = "rows" /\ Written
  /\ count < rows
  /\ buffer' = buffer \o Rendered
  /\ count' = count + 1
  /\ UNCHANGED <<via, format, table, jobVars, spc, rows, conn, cut, closeVars, received,
                 client, objectVars, faults>>

\* Mutant: the rows of a loop that is left early are not closed.
EndRowsUnclosed ==
  /\ spc = "rows" /\ Written
  /\ \/ count = rows /\ conn' = FALSE /\ UNCHANGED <<cut, faults>>
     \/ count < rows /\ Fault /\ cut' = TRUE /\ UNCHANGED conn
  /\ spc' = "finish"
  /\ buffer' = IF format = "json" THEN <<Mark("]")>> ELSE buffer
  /\ UNCHANGED <<via, format, table, jobVars, rows, count, closeVars, received, client,
                 objectVars>>

\* rows.Next says no: there are no more, or the connection broke, which nobody
\* looks up in rows.Err.  Either way the connection is given back.
EndRows ==
  /\ spc = "rows" /\ Written
  /\ \/ count = rows /\ UNCHANGED <<cut, faults>>
     \/ count < rows /\ Fault /\ cut' = TRUE
  /\ conn' = FALSE
  /\ spc' = "finish"
  /\ buffer' = IF format = "json" THEN <<Mark("]")>> ELSE buffer
  /\ UNCHANGED <<via, format, table, jobVars, rows, count, closeVars, received, client,
                 objectVars>>

\* Mutant: the pipe is closed before rowCount is set.
FinishClosingFirst ==
  /\ \/ /\ spc = "finish" /\ buffer = <<>>
        /\ IF via = "pipe" THEN spc' = "close" /\ pipe' = "eof"
                           ELSE spc' = "returned" /\ UNCHANGED pipe
        /\ UNCHANGED rowCount
     \/ /\ spc = "close"
        /\ spc' = "returned" /\ rowCount' = count
        /\ UNCHANGED pipe
  /\ UNCHANGED <<via, format, table, jobVars, queryVars, buffer, exportErr, received,
                 client, objectVars, faults>>

\* Flushed by a deferred call, StreamExport returns; the goroutine sets rowCount
\* and then closes the pipe.
Finish ==
  /\ \/ /\ spc = "finish" /\ buffer = <<>>
        /\ IF via = "pipe" THEN spc' = "close" /\ rowCount' = count
                           ELSE spc' = "returned" /\ UNCHANGED rowCount
        /\ UNCHANGED pipe
     \/ /\ spc = "close"
        /\ spc' = "returned" /\ pipe' = "eof"
        /\ UNCHANGED rowCount
  /\ UNCHANGED <<via, format, table, jobVars, queryVars, buffer, exportErr, received,
                 client, objectVars, faults>>

\* Mutant: the pipe is told before the worker.
FinishWithErrorLate ==
  /\ \/ /\ spc = "failed"
        /\ spc' = "closeErr" /\ pipe' = IF via = "pipe" THEN "error" ELSE pipe
        /\ UNCHANGED exportErr
     \/ /\ spc = "closeErr"
        /\ spc' = "returned" /\ exportErr' = TRUE
        /\ UNCHANGED pipe
  /\ UNCHANGED <<via, format, table, jobVars, queryVars, buffer, rowCount, received,
                 client, objectVars, faults>>

\* Mutant: the pipe is left open.
FinishWithErrorOpen ==
  /\ spc = "failed"
  /\ spc' = "returned"
  /\ exportErr' = TRUE
  /\ UNCHANGED <<via, format, table, jobVars, queryVars, buffer, pipe, rowCount, received,
                 client, objectVars, faults>>

\* StreamExport returns an error; the goroutine tells the worker, then the pipe.
FinishWithError ==
  /\ \/ /\ spc = "failed"
        /\ spc' = IF via = "pipe" THEN "closeErr" ELSE "returned"
        /\ exportErr' = TRUE
        /\ UNCHANGED pipe
     \/ /\ spc = "closeErr"
        /\ spc' = "returned" /\ pipe' = "error"
        /\ UNCHANGED exportErr
  /\ UNCHANGED <<via, format, table, jobVars, queryVars, buffer, rowCount, received,
                 client, objectVars, faults>>
-----------------------------------------------------------------------------
(***************************************************************************)
(* The HTTP client.                                                        *)
(***************************************************************************)
Receive == /\ buffer # <<>>
           /\ received' = received \o buffer
           /\ buffer' = <<>>

ClientReads ==
  /\ via = "http" /\ client
  /\ Receive
  /\ UNCHANGED <<via, format, table, jobVars, spc, queryVars, closeVars, client,
                 objectVars, faults>>

ClientLeaves ==
  /\ via = "http" /\ client
  /\ Fault
  /\ client' = FALSE
  /\ UNCHANGED <<via, format, table, jobVars, spc, queryVars, buffer, closeVars,
                 received, objectVars>>

\* A write to a client that is gone: it is lost, and the error is looked at only
\* when it comes from a record.
WriteLost ==
  /\ via = "http" /\ ~client
  /\ buffer # <<>>
  /\ buffer' = <<>>
  /\ \/ UNCHANGED <<spc, conn>>
     \/ spc = "rows" /\ spc' = "failed" /\ conn' = FALSE
  /\ UNCHANGED <<via, format, table, jobVars, rows, count, cut, closeVars, received,
                 client, objectVars, faults>>
-----------------------------------------------------------------------------
(***************************************************************************)
(* processExport and the end of executeJob.                                *)
(***************************************************************************)

\* The estimate, zero when the count fails; then the goroutine is started.
StartExport ==
  /\ wpc = "start"
  /\ wpc' = "uploading" /\ spc' = "begin"
  /\ (total' = table /\ UNCHANGED faults) \/ (total' = 0 /\ Fault)
  /\ UNCHANGED <<via, format, table, status, processed, resultKey, blame, queryVars,
                 buffer, closeVars, received, client, objectVars>>

\* PutObject reads from the pipe.
UploadReads ==
  /\ wpc = "uploading"
  /\ Receive
  /\ UNCHANGED <<via, format, table, jobVars, spc, queryVars, closeVars, client,
                 objectVars, faults>>

\* What follows PutObject: the goroutine's error is looked at first.
Conclude(uploadErr) ==
  /\ wpc' = "done"
  /\ IF exportErr \/ uploadErr
     THEN /\ status' = "FAILED"
          /\ blame' = IF exportErr THEN "stream" ELSE "upload"
          /\ UNCHANGED <<total, processed, resultKey>>
     ELSE /\ status' = "COMPLETED"
          /\ processed' = rowCount /\ total' = rowCount
          /\ resultKey' = TRUE
          /\ UNCHANGED blame

UploadSucceeds ==
  /\ wpc = "uploading" /\ pipe = "eof"
  /\ object' = received /\ stored' = TRUE
  /\ Conclude(FALSE)
  /\ UNCHANGED <<via, format, table, spc, queryVars, buffer, closeVars, received, client,
                 faults>>

\* The pipe hands its error on, or S3 refuses or breaks off, perhaps after it
\* has stored the object.  Nobody closes the read end: a goroutine that still
\* has something to write waits for ever.
UploadFails ==
  /\ wpc = "uploading"
  /\ \/ pipe = "error" /\ UNCHANGED <<objectVars, faults>>
     \/ Fault /\ UNCHANGED objectVars
     \/ Fault /\ pipe = "eof" /\ object' = received /\ stored' = TRUE
  /\ Conclude(TRUE)
  /\ UNCHANGED <<via, format, table, spc, queryVars, buffer, closeVars, received, client>>
-----------------------------------------------------------------------------
StreamExport == Begin \/ OpenRows \/ WriteRecord \/ EndRows \/ Finish \/ FinishWithError

ProcessExport == StartExport \/ UploadReads \/ UploadSucceeds \/ UploadFails

Next == \/ TableChanges
        \/ StreamExport
        \/ ClientReads \/ ClientLeaves \/ WriteLost
        \/ ProcessExport

\* The goroutine and the worker run; an HTTP client need not read.
Spec == Init /\ [][Next]_vars /\ WF_vars(StreamExport) /\ WF_vars(ProcessExport)
-----------------------------------------------------------------------------
(***************************************************************************)
(* Properties.                                                             *)
(***************************************************************************)

\* The file that n rows make in each format: a header line and a line each for
\* CSV (no header when there are none), separated values in brackets for JSON, a
\* line each otherwise.
File(n) ==
  LET lines     == [i \in 1..n |-> Item(i)]
      separated == [i \in 1..(IF n = 0 THEN 0 ELSE 2 * n - 1) |->
                      IF i % 2 = 1 THEN Item((i + 1) \div 2) ELSE Mark(",")]
  IN CASE format = "csv"  -> IF n = 0 THEN <<>> ELSE <<Mark("header")>> \o lines
       [] format = "json" -> <<Mark("[")>> \o separated \o <<Mark("]")>>
       [] OTHER -> lines

\* A completed export has its object in the bucket: a whole file of exactly
\* ProcessedRows records, which TotalRows repeats whatever the estimate was, and
\* all that the query saw unless the query broke off.
CompletedExportExact ==
  status = "COMPLETED" =>
    /\ resultKey /\ stored /\ ~exportErr
    /\ object = File(processed)
    /\ total = processed
    /\ cut \/ processed = rows

\* A synchronous export whose client stays gets the whole file, unless the query
\* failed or broke off.
ResponseExact ==
  via = "http" /\ spc = "returned" /\ client /\ ~exportErr =>
    /\ received = File(count)
    /\ cut \/ count = rows

\* A database connection outlives the export only when the upload failed on its
\* own: then the goroutine is left waiting at the pipe with its query open.
ConnectionReturned ==
  (spc = "returned" \/ wpc = "done") /\ conn => blame = "upload" /\ faults > 0

\* A job says its upload failed only when it did: an upload that ended because
\* the query failed is always reported as an error of streaming.
BlameRight ==
  /\ blame = "upload" => pipe # "error" \/ faults > 1
  /\ blame = "stream" => exportErr
  /\ status = "FAILED" => faults > 0 /\ ~resultKey

\* The worker always gets past an export: goroutine and upload never wait for
\* each other, and an upload that fails does not wait for the goroutine.
ExportEnds == via = "pipe" => <>(wpc = "done")

-----------------------------------------------------------------------------
(* What a comment says and the code does not do.                           *)

\* processor.go: the pipe is closed "with error so the S3 reader knows something
\* went wrong".  An export whose query broke off is not reported as completed.
BrokenStreamNoticed == cut => status # "COMPLETED"
=============================================================================
