SPECIFICATION Spec
CONSTANTS
  U32Max = 100
  U16EntryMax = 3
  MaxFieldLen = 5
  DosMinUnix = 20
  DosMaxUnix = 1000
  MaxEntries = 3
  MaxData = 101
  ShortWrites = {}
  WriteSizes = {50, 51}
  DrainSizes = {50, 51}
  Requests <- BigRequests
  CommentLens <- NoNote
INVARIANTS
  ArchiveReadable
CHECK_DEADLOCK FALSE
