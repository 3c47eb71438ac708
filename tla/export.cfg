\* Tables of up to three rows, so that a JSON array has commas and a CSV buffer
\* holds several records, and two failures: one of the stream and one of the upload.
SPECIFICATION Spec
CONSTANTS
  MaxRows = 3
  MaxFaults = 2
INVARIANTS
  ExportTypeOK
  CompletedExportExact
  ResponseExact
  ConnectionReturned
  BlameRight
PROPERTIES
  ExportEnds
CHECK_DEADLOCK FALSE
