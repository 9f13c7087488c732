SPECIFICATION Spec
CONSTANTS
  U32Max = 1000
  U16EntryMax = 9
  MaxFieldLen = 5
  DosMinUnix = 20
  DosMaxUnix = 1000
  MaxEntries = 1
  MaxData = 2
  ShortWrites = {10}
  WriteSizes = {1, 2}
  DrainSizes = {1}
  Requests <- AllRequests
  CommentLens <- NotesAllowed
PROPERTIES
  AbortReportsBusy
CHECK_DEADLOCK FALSE
