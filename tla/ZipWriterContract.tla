------------------------- MODULE ZipWriterContract -------------------------
(* ZipWriter implements ArchiveContract: the mapping takes the members     *)
(* from the writer's table, and the catalogue from the sink alone.         *)
EXTENDS ZipWriter

ContractState ==
  CASE pc = "done"         -> "sealed"
    [] pc = "gone"         -> "gone"
    [] pc \in FinishPcs    -> "closing"
    [] pc = "idle"         -> IF holder = "zip" THEN "open" ELSE "lost"
    [] OTHER               -> "adding"

AsMember(x) == [req |-> x.req, csize |-> x.csize, usize |-> x.usize]

ContractMembers == [i \in 1..Len(entries) |-> AsMember(entries[i])]

ContractCatalogue == IF pc = "done" THEN Listing(out, sinkLen) ELSE <<>>

Contract ==
  INSTANCE ArchiveContract WITH
    Member <- [req: Requests, csize: Nat, usize: Nat],
    state <- ContractState, members <- ContractMembers,
    catalogue <- ContractCatalogue, answer <- ret

(* Every behaviour of the writer is one the contract allows: an entry that *)
(* returned Ok stays, one that did not ends the archive, the loss is       *)
(* reported as Poisoned by every later call, and what a reader finds after *)
(* a successful finish is the list of entries whose calls returned Ok.     *)
ImplementsContract == Contract!Spec
=============================================================================
