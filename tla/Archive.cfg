SPECIFICATION Spec
CONSTANTS
  U32Max = 100
  U16EntryMax = 2
  MaxFieldLen = 5
  DosMinUnix = 20
  DosMaxUnix = 1000
  MaxEntries = 2
  MaxData = 101
  ShortWrites = {10}
  WriteSizes = {50, 51}
  DrainSizes = {50, 51}
  Requests <- AllRequests
  CommentLens <- NotesAllowed
INVARIANTS
  TypeOK
  RestingStateHonest
  PosMatchesSink
  RegisteredEntriesInSink
  ChecksumCoversData
  NoTornEntry
  SinkOpenUntilFinished
  ArchiveReadable
PROPERTIES
  ImplementsContract
CHECK_DEADLOCK FALSE
