---------------------------- MODULE Compressor ----------------------------
(***************************************************************************)
(* The external compressor (flate2::Compress) as DeflateEncoder uses it: a *)
(* call takes some of the input, returns at most `room` symbols of output  *)
(* and a status.  The output is abstracted to the input tokens themselves, *)
(* Marker for the empty block of a sync flush and EndMark for the end of   *)
(* the stream; how many symbols leave, and when, is left open.             *)
(*                                                                         *)
(*   hold    tokens consumed, whose block is still being built             *)
(*   queue   output of closed blocks that did not fit the caller's buffer  *)
(*   fin     Finish was asked for;  ended: EndMark was handed out          *)
(*   synced  the last call was a sync flush and nothing came after it      *)
(***************************************************************************)
EXTENDS Integers, Sequences

CONSTANTS
  HoldMax,     \* tokens the compressor keeps before it closes a block
  RepeatSync,  \* a second sync flush in a row appends another empty block
  Balky        \* a full compressor may refuse input and output nothing

ASSUME CompressorAssumption ==
  HoldMax \in Nat \ {0} /\ RepeatSync \in BOOLEAN /\ Balky \in BOOLEAN

Marker  == 0
EndMark == -1

Fresh == [hold |-> <<>>, queue |-> <<>>, fin |-> FALSE, ended |-> FALSE,
          bad |-> FALSE, synced |-> FALSE]

(* The tokens still inside the compressor, in the order they will leave.   *)
Inside(c) == c.queue \o c.hold

Least(a, b) == IF a < b THEN a ELSE b
First(s, n) == SubSeq(s, 1, Least(n, Len(s)))
Rest(s, n)  == SubSeq(s, Least(n, Len(s)) + 1, Len(s))

Outcome(c, consumed, produced, status) ==
  [comp |-> c, consumed |-> consumed, produced |-> produced, status |-> status]

NoProgress(c) == Outcome(c, 0, <<>>, "BufError")
Misuse(c)     == Outcome([c EXCEPT !.bad = TRUE], 0, <<>>, "Error")

(* Hand out what fits of the output `all`, keep the rest queued.           *)
HandOut(c, all, hold, consumed, room) ==
  Outcome([c EXCEPT !.queue = Rest(all, room), !.hold = hold, !.synced = FALSE],
          consumed, First(all, room), "Ok")

(* Without a flush: input stops being consumed only when the output is     *)
(* full.  The open block is kept, or closed after k tokens of the input.   *)
CompressNone(c, in, room) ==
  IF c.bad \/ (c.fin /\ ~c.ended) THEN {Misuse(c)}
  ELSE IF c.ended THEN {NoProgress(c)}
  ELSE IF Len(c.queue) >= room THEN {HandOut(c, c.queue, c.hold, 0, room)}
  ELSE LET Closed(k) ==
             LET all == Inside(c) \o First(in, k)
             IN IF Len(all) < room
                THEN HandOut(c, all, Rest(in, k), Len(in), room)
                ELSE HandOut(c, all, <<>>, k, room)
           Kept == HandOut(c, c.queue, c.hold \o in, Len(in), room)
       IN  {Closed(k) : k \in {j \in 0..Len(in) : Len(c.hold) + j > 0}}
           \cup (IF Len(c.hold) + Len(in) <= HoldMax THEN {Kept} ELSE {})
           \cup (IF Balky /\ c.queue = <<>> /\ Len(c.hold) >= HoldMax
                 THEN {NoProgress(c)} ELSE {})

(* A sync flush first gets rid of queued output, and does no more in that  *)
(* call; otherwise it closes the block and appends an empty one.           *)
CompressSync(c, room) ==
  IF c.bad \/ (c.fin /\ ~c.ended) THEN {Misuse(c)}
  ELSE IF c.ended THEN {NoProgress(c)}
  ELSE IF c.queue # <<>> THEN {HandOut(c, c.queue, c.hold, 0, room)}
  ELSE IF c.synced /\ ~RepeatSync THEN {NoProgress(c)}
  ELSE LET o == HandOut(c, Append(c.hold, Marker), <<>>, 0, room)
       IN  {[o EXCEPT !.comp.synced = TRUE]}

CompressFinish(c, room) ==
  IF c.bad THEN {Misuse(c)}
  ELSE IF c.ended THEN {Outcome(c, 0, <<>>, "StreamEnd")}
  ELSE LET all == IF c.fin THEN c.queue ELSE Append(Inside(c), EndMark)
           o   == HandOut([c EXCEPT !.fin = TRUE], all, <<>>, 0, room)
       IN  {IF Len(all) > room THEN o
            ELSE [o EXCEPT !.comp.ended = TRUE, !.status = "StreamEnd"]}
=============================================================================
