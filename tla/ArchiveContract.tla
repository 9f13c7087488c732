-------------------------- MODULE ArchiveContract --------------------------
(***************************************************************************)
(* What a ZipWriter promises its caller, without sinks, offsets or flags:  *)
(* entries are added one at a time; an entry is either a member for good   *)
(* or its loss ends the archive, and from then on every call is told so;   *)
(* a finish that returns Ok leaves exactly the members, in order, for a    *)
(* reader to find.                                                         *)
(***************************************************************************)
EXTENDS Integers, Sequences

CONSTANT Member   \* what can be known of an entry: its request and sizes

VARIABLES
  state,      \* "open", "adding", "lost", "closing", "sealed" or "gone"
  members,    \* entries added so far
  catalogue,  \* what a reader of the sink finds, once sealed
  answer      \* result of the last call that returned

cVars == <<state, members, catalogue, answer>>

InputErrors == {"InvalidInput", "FieldTooLong", "Io"}

Init ==
  state = "open" /\ members = <<>> /\ catalogue = <<>> /\ answer = "none"

(* A call that is refused says why, and "Poisoned" means the sink is lost. *)
Refuse ==
  /\ state \in {"open", "lost"}
  /\ answer' \in InputErrors \cup (IF state = "lost" THEN {"Poisoned"} ELSE {})
  /\ UNCHANGED <<state, members, catalogue>>

Begin ==
  /\ state = "open" /\ state' = "adding" /\ answer' = "none"
  /\ UNCHANGED <<members, catalogue>>

(* start_file returns its EntryWriter, EntryWriter::finish is called.      *)
Hold ==
  /\ state = "adding" /\ answer' \in {"Ok", "none"}
  /\ UNCHANGED <<state, members, catalogue>>

Commit ==
  /\ state = "adding" /\ state' = "open" /\ answer' = "Ok"
  /\ Len(members') = Len(members) + 1
  /\ SubSeq(members', 1, Len(members)) = members
  /\ members'[Len(members')] \in Member
  /\ UNCHANGED catalogue

Lose ==
  /\ state = "adding" /\ state' = "lost" /\ answer' \in {"Io", "none"}
  /\ UNCHANGED <<members, catalogue>>

Close ==
  /\ state = "open" /\ state' = "closing" /\ answer' = "none"
  /\ UNCHANGED <<members, catalogue>>

Seal ==
  /\ state = "closing" /\ state' = "sealed" /\ answer' = "Ok"
  /\ catalogue' = members /\ UNCHANGED members

(* The ZipWriter is consumed without an archive: abort, a finish that is   *)
(* refused, fails or is cancelled.                                         *)
Abandon ==
  /\ \/ state = "open"    /\ answer' \in {"Ok", "FieldTooLong"}
     \/ state = "lost"    /\ answer' \in {"Poisoned", "FieldTooLong"}
     \/ state = "closing" /\ answer' \in {"Io", "none"}
  /\ state' = "gone" /\ UNCHANGED <<members, catalogue>>

Next == Refuse \/ Begin \/ Hold \/ Commit \/ Lose \/ Close \/ Seal \/ Abandon

Spec == Init /\ [][Next]_cVars
=============================================================================
