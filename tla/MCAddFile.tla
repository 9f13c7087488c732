----------------------------- MODULE MCAddFile -----------------------------
EXTENDS AddFile

CONSTANTS Old, New, Link, Fifo, Dir, Sock

Regular(perms, len) ==
  [type |-> "file", mode |-> perms \cup {15}, mtime |-> 1, len |-> len, to |-> None]

Other(type, to) ==
  [type |-> type, mode |-> 0..8, mtime |-> 2, len |-> 0, to |-> to]

MCInodes == {Old, New, Link, Fifo, Dir, Sock}

MCFirstInode ==
  [i \in MCInodes |->
     CASE i = Old  -> Regular({7, 8}, 1)
       [] i = New  -> Regular({8}, 0)
       [] i = Link -> Other("symlink", Old)
       [] i = Fifo -> Other("fifo", None)
       [] i = Dir  -> Other("directory", None)
       [] i = Sock -> Other("socket", None)]

MCMaxMembers == [s \in BOOLEAN |-> IF s THEN 1 ELSE 2]

MCMember ==
  [options: Options, from: MCInodes, atOpen: Nat, len: Nat]
=============================================================================
