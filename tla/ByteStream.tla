----------------------------- MODULE ByteStream -----------------------------
(***************************************************************************)
(* What EntryWriter and add_reader rely on in the encoder they write to,   *)
(* without buffers or a compressor: a stream that takes tokens 1, 2, ...   *)
(* from its caller and delivers them to its sink, later, in order and once *)
(* each, and after them the end of the stream, when it was asked for.      *)
(***************************************************************************)
EXTENDS Integers, Sequences

CONSTANT EndMark   \* the end of the stream

VARIABLES
  asked,      \* the call that is running, or "none"
  answer,     \* what the last call returned
  taken,      \* tokens the caller was told are accepted
  delivered,  \* what has reached the sink
  phase       \* "open", "ending" (no more tokens) or "closed"

streamVars == <<asked, answer, taken, delivered, phase>>

Init ==
  /\ asked = "none" /\ answer = "none"
  /\ taken = 0 /\ delivered = <<>> /\ phase = "open"

Tokens == [i \in 1..taken |-> i]
Whole  == Append(Tokens, EndMark)

IsPart(s, t) == Len(s) <= Len(t) /\ s = SubSeq(t, 1, Len(s))

Call ==
  /\ asked = "none" /\ phase # "closed"
  /\ asked' \in {"write", "flush", "shutdown"} /\ answer' = "none"
  /\ UNCHANGED <<taken, delivered, phase>>

(* A write that returns Ok has taken something; nothing else takes.        *)
Take ==
  /\ asked = "write" /\ phase = "open"
  /\ taken' \in Nat /\ taken' > taken
  /\ asked' = "none" /\ answer' = "ok"
  /\ UNCHANGED <<delivered, phase>>

Deliver ==
  /\ asked # "none"
  /\ IsPart(delivered, delivered')
  /\ IsPart(delivered', IF phase = "open" THEN Tokens ELSE Whole)
  /\ UNCHANGED <<asked, answer, taken, phase>>

End ==
  /\ asked = "shutdown" /\ phase = "open" /\ phase' = "ending"
  /\ UNCHANGED <<asked, answer, taken, delivered>>

(* A shutdown that returns Ok has left nothing behind.                     *)
Close ==
  /\ asked = "shutdown" /\ phase = "ending" /\ delivered = Whole
  /\ phase' = "closed" /\ asked' = "none" /\ answer' = "ok"
  /\ UNCHANGED <<taken, delivered>>

(* A flush may succeed with tokens left inside (see FlushLeavesNothing).   *)
Flushed ==
  /\ asked = "flush" /\ asked' = "none" /\ answer' = "ok"
  /\ UNCHANGED <<taken, delivered, phase>>

(* Any call may have to wait or fail, and then has taken nothing.          *)
NotDone ==
  /\ asked # "none" /\ asked' = "none" /\ answer' \in {"pending", "err"}
  /\ UNCHANGED <<taken, delivered, phase>>

Late ==
  /\ phase = "closed" /\ answer' \in {"ok", "err"}
  /\ UNCHANGED <<asked, taken, delivered, phase>>

Next == Call \/ Take \/ Deliver \/ End \/ Close \/ Flushed \/ NotDone \/ Late

Spec == Init /\ [][Next]_streamVars
=============================================================================
