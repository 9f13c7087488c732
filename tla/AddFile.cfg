SPECIFICATION FileSpec
CONSTANTS
  Old = Old
  New = New
  Link = Link
  Fifo = Fifo
  Dir = Dir
  Sock = Sock
  None = None
  Inodes <- MCInodes
  FirstInode <- MCFirstInode
  Member <- MCMember
  MaxMembers <- MCMaxMembers
  MaxLen = 2
INVARIANTS
  FileTypeOK
  OnlyRegularOpened
  MemberIsOneFile
  MemberHoldsFile
PROPERTIES
  PathErrorHarmless
  
