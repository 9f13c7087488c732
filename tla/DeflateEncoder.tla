--------------------------- MODULE DeflateEncoder ---------------------------
(***************************************************************************)
(* DeflateEncoder of src/src/deflate_encoder.rs: an AsyncWrite that feeds  *)
(* a compressor and drains its output to an inner writer, both of which    *)
(* may stop it half way.  A poll is a sequence of steps from pc = "caller" *)
(* back to it: drains (one inner poll_write each) and compressor calls.    *)
(* The data of an entry is the sequence of tokens 1, 2, ...; a caller      *)
(* presents the tokens it has not yet been told were accepted.             *)
(***************************************************************************)
EXTENDS Compressor

CONSTANTS
  InitBuf,      \* initial capacity of out_buf, in symbols
  MaxOutBuf,    \* MAX_OUT_BUF, the capacity it may grow to
  WriteSizes,   \* lengths of the buffers poll_write is called with
  MaxTokens,    \* bound: tokens of the entry
  U64           \* `written` is a 64-bit counter, here modulo U64

ASSUME EncoderAssumption ==
  /\ InitBuf \in Nat \ {0} /\ MaxOutBuf \in Nat /\ InitBuf <= MaxOutBuf
  /\ WriteSizes \subseteq Nat \ {0} /\ MaxTokens \in Nat /\ U64 \in Nat \ {0}

VARIABLES
  comp,      \* the compressor
  outBuf,    \* out_buf[out_pos..out_len], output not yet drained
  cap,       \* out_buf.len()
  finished,  \* DeflateEncoder.finished
  written,   \* DeflateEncoder.written
  pc,        \* where the running poll is
  buf,       \* the buffer of the running poll_write
  accepted,  \* tokens the caller was told are accepted
  sink,      \* tokens and end mark the inner writer accepted
  sinkLen,   \* symbols the inner writer accepted, modulo U64
  result     \* what the last poll returned

vars == <<comp, outBuf, cap, finished, written, pc, buf, accepted, sink,
          sinkLen, result>>

Tokens  == 1..MaxTokens
Symbols == {Marker, EndMark} \cup Tokens

(* The elements of s that are in X, in order.                              *)
Keep(s, X) ==
  LET kept[i \in 0..Len(s)] ==
        IF i = 0 THEN <<>>
        ELSE IF s[i] \in X THEN Append(kept[i - 1], s[i]) ELSE kept[i - 1]
  IN kept[Len(s)]

(* What symbols mean in the sink: an empty block stands for nothing.       *)
Seen(s) == Keep(s, Tokens \cup {EndMark})
Data(s) == Keep(s, Tokens)

DrainPcs == {"w_drain", "f_drain", "f_drain_sync", "s_drain", "s_drain_end"}
CallPcs  == {"w_none", "w_sync", "f_sync", "s_finish"}

Init ==
  /\ comp = Fresh /\ outBuf = <<>> /\ cap = InitBuf
  /\ finished = FALSE /\ written = 0
  /\ pc = "caller" /\ buf = <<>> /\ accepted = 0
  /\ sink = <<>> /\ sinkLen = 0 /\ result = "none"

Return(value) == pc' = "caller" /\ buf' = <<>> /\ result' = value
-----------------------------------------------------------------------------
(* The calls.  Each begins by draining what an earlier call left.          *)

Enter(start) ==
  /\ pc' = start /\ result' = "none"
  /\ UNCHANGED <<comp, outBuf, cap, finished, written, accepted, sink, sinkLen>>

PollWrite(n) ==
  /\ pc = "caller" /\ ~finished /\ accepted + n <= MaxTokens
  /\ buf' = [i \in 1..n |-> accepted + i]
  /\ Enter("w_drain")

PollFlush    == pc = "caller" /\ ~finished /\ UNCHANGED buf /\ Enter("f_drain")
PollShutdown == pc = "caller" /\ ~finished /\ UNCHANGED buf /\ Enter("s_drain")

(* After the end of the stream nothing is written: flush and shutdown      *)
(* succeed at once, a write fails.                                         *)
CallFinished ==
  /\ pc = "caller" /\ finished
  /\ result' \in {"ok", "err"}
  /\ UNCHANGED <<comp, outBuf, cap, finished, written, pc, buf, accepted, sink, sinkLen>>
-----------------------------------------------------------------------------
(* poll_drain.                                                             *)

(* Fault: what was offered is counted, not what was accepted.              *)
SinkAcceptsOvercounted(n) ==
  /\ pc \in DrainPcs /\ n <= Len(outBuf)
  /\ outBuf' = SubSeq(outBuf, n + 1, Len(outBuf))
  /\ written' = (written + Len(outBuf)) % U64
  /\ sinkLen' = (sinkLen + n) % U64
  /\ sink' = sink \o Seen(SubSeq(outBuf, 1, n))
  /\ UNCHANGED <<comp, cap, finished, pc, buf, accepted, result>>

(* Fault: a buffer accepted in part is taken for drained.                  *)
SinkAcceptsForgetsRest(n) ==
  /\ pc \in DrainPcs /\ n <= Len(outBuf)
  /\ outBuf' = <<>>
  /\ written' = (written + n) % U64
  /\ sinkLen' = (sinkLen + n) % U64
  /\ sink' = sink \o Seen(SubSeq(outBuf, 1, n))
  /\ UNCHANGED <<comp, cap, finished, pc, buf, accepted, result>>

SinkAccepts(n) ==
  /\ pc \in DrainPcs /\ n <= Len(outBuf)
  /\ outBuf' = SubSeq(outBuf, n + 1, Len(outBuf))
  /\ written' = (written + n) % U64
  /\ sinkLen' = (sinkLen + n) % U64
  /\ sink' = sink \o Seen(SubSeq(outBuf, 1, n))
  /\ UNCHANGED <<comp, cap, finished, pc, buf, accepted, result>>

(* The inner writer is not ready.                                          *)
SinkPending ==
  /\ pc \in DrainPcs /\ outBuf # <<>>
  /\ Return("pending")
  /\ UNCHANGED <<comp, outBuf, cap, finished, written, accepted, sink, sinkLen>>

(* It returns an error, or accepts no byte.                                *)
SinkFails ==
  /\ pc \in DrainPcs /\ outBuf # <<>>
  /\ Return("err")
  /\ UNCHANGED <<comp, outBuf, cap, finished, written, accepted, sink, sinkLen>>

Drained ==
  /\ pc \in DrainPcs /\ outBuf = <<>>
  /\ CASE pc = "w_drain" -> pc' = "w_none" /\ UNCHANGED <<buf, result, finished>>
       [] pc = "f_drain" -> pc' = "f_sync" /\ UNCHANGED <<buf, result, finished>>
       [] pc = "s_drain" -> pc' = "s_finish" /\ UNCHANGED <<buf, result, finished>>
       [] pc = "f_drain_sync" -> Return("ok") /\ UNCHANGED finished
       [] pc = "s_drain_end"  -> Return("ok") /\ finished' = TRUE
  /\ UNCHANGED <<comp, outBuf, cap, written, accepted, sink, sinkLen>>
-----------------------------------------------------------------------------
(* do_compress, and what each poll does with its result.                   *)

Outcomes ==
  CASE pc = "w_none"   -> CompressNone(comp, buf, cap)
    [] pc \in {"w_sync", "f_sync"} -> CompressSync(comp, cap)
    [] pc = "s_finish" -> CompressFinish(comp, cap)

Stuck(o) == o.status = "BufError" /\ o.consumed = 0 /\ o.produced = <<>>

(* Taken as do_compress's result: neither an error nor a reason to grow.   *)
DoCompress(o) ==
  /\ o.status # "Error" /\ ~(Stuck(o) /\ cap < MaxOutBuf)
  /\ comp' = o.comp /\ outBuf' = o.produced
  /\ UNCHANGED <<cap, written, sink, sinkLen>>

(* Fault: the buffer doubles past its limit.                               *)
GrowBufferUnbounded ==
  /\ pc \in CallPcs /\ cap < MaxOutBuf
  /\ \E o \in Outcomes : Stuck(o) /\ comp' = o.comp
  /\ cap' = 2 * cap
  /\ UNCHANGED <<outBuf, finished, written, pc, buf, accepted, sink, sinkLen, result>>

GrowBuffer ==
  /\ pc \in CallPcs /\ cap < MaxOutBuf
  /\ \E o \in Outcomes : Stuck(o) /\ comp' = o.comp
  /\ cap' = IF 2 * cap < MaxOutBuf THEN 2 * cap ELSE MaxOutBuf
  /\ UNCHANGED <<outBuf, finished, written, pc, buf, accepted, sink, sinkLen, result>>

CompressError ==
  /\ pc \in CallPcs
  /\ \E o \in Outcomes : o.status = "Error" /\ comp' = o.comp
  /\ Return("err")
  /\ UNCHANGED <<outBuf, cap, finished, written, accepted, sink, sinkLen>>

(* Fault: output is drained before the consumed input is reported, so a    *)
(* sink that is not ready makes the caller present the input again.        *)
WriteCompressedDrainsFirst ==
  /\ pc = "w_none"
  /\ \E o \in Outcomes :
       /\ DoCompress(o)
       /\ accepted' = accepted + (IF o.produced = <<>> THEN o.consumed ELSE 0)
       /\ IF o.consumed > 0
          THEN Return(IF o.produced = <<>> THEN "ok" ELSE "pending")
          ELSE /\ pc' = IF o.produced = <<>> THEN "w_sync" ELSE "w_drain"
               /\ UNCHANGED <<buf, result>>
  /\ UNCHANGED finished

(* poll_write: any consumed input is reported at once, whatever is left in *)
(* out_buf; without any, drain and retry, or sync to make room.            *)
WriteCompressed ==
  /\ pc = "w_none"
  /\ \E o \in Outcomes :
       /\ DoCompress(o)
       /\ accepted' = accepted + o.consumed
       /\ IF o.consumed > 0 THEN Return("ok")
          ELSE /\ pc' = IF o.produced = <<>> THEN "w_sync" ELSE "w_drain"
               /\ UNCHANGED <<buf, result>>
  /\ UNCHANGED finished

(* Fault: a sync flush without output is simply tried again.               *)
WriteSyncedRetries ==
  /\ pc = "w_sync"
  /\ \E o \in Outcomes :
       /\ DoCompress(o)
       /\ pc' = (IF o.produced = <<>> THEN "w_none" ELSE "w_drain")
  /\ UNCHANGED <<finished, accepted, buf, result>>

WriteSynced ==
  /\ pc = "w_sync"
  /\ \E o \in Outcomes :
       /\ DoCompress(o)
       /\ IF o.produced = <<>> THEN Return("err")
          ELSE pc' = "w_drain" /\ UNCHANGED <<buf, result>>
  /\ UNCHANGED <<finished, accepted>>

(* Fault: flush until a sync flush yields no output any more.              *)
FlushSyncedRepeats ==
  /\ pc = "f_sync"
  /\ \E o \in Outcomes :
       /\ DoCompress(o)
       /\ IF o.produced = <<>> THEN Return("ok")
          ELSE pc' = "f_drain" /\ UNCHANGED <<buf, result>>
  /\ UNCHANGED <<finished, accepted>>

(* Fault: a sync flush without output is taken for a sink not ready.       *)
FlushSyncedWaits ==
  /\ pc = "f_sync"
  /\ \E o \in Outcomes :
       /\ DoCompress(o)
       /\ IF o.produced = <<>> THEN Return("pending")
          ELSE pc' = "f_drain_sync" /\ UNCHANGED <<buf, result>>
  /\ UNCHANGED <<finished, accepted>>

FlushSynced ==
  /\ pc = "f_sync"
  /\ \E o \in Outcomes :
       /\ DoCompress(o)
       /\ IF o.produced = <<>> THEN Return("ok")
          ELSE pc' = "f_drain_sync" /\ UNCHANGED <<buf, result>>
  /\ UNCHANGED <<finished, accepted>>

(* Fault: any progress is taken for the end of the stream.                 *)
ShutdownFinishedEarly ==
  /\ pc = "s_finish"
  /\ \E o \in Outcomes :
       /\ DoCompress(o)
       /\ IF Stuck(o) THEN Return("err")
          ELSE pc' = "s_drain_end" /\ UNCHANGED <<buf, result>>
  /\ UNCHANGED <<finished, accepted>>

ShutdownFinished ==
  /\ pc = "s_finish"
  /\ \E o \in Outcomes :
       /\ DoCompress(o)
       /\ IF Stuck(o) THEN Return("err")
          ELSE /\ pc' = IF o.status = "StreamEnd" THEN "s_drain_end" ELSE "s_drain"
               /\ UNCHANGED <<buf, result>>
  /\ UNCHANGED <<finished, accepted>>
-----------------------------------------------------------------------------
(* The steps the running poll takes by itself.                             *)
PollStep ==
  \/ Drained \/ GrowBuffer \/ CompressError
  \/ WriteCompressed \/ WriteSynced \/ FlushSynced \/ ShutdownFinished

SinkStep ==
  \/ \E n \in 1..MaxOutBuf : SinkAccepts(n)
  \/ SinkPending \/ SinkFails

Call ==
  \/ \E n \in WriteSizes : PollWrite(n)
  \/ PollFlush \/ PollShutdown \/ CallFinished

Next == PollStep \/ SinkStep \/ Call

Spec == Init /\ [][Next]_vars

(* A poll is a synchronous function: once called it runs on, and the inner *)
(* writer answers each poll_write.                                         *)
Fairness == WF_vars(PollStep) /\ WF_vars(SinkStep)

FairSpec == Spec /\ Fairness
-----------------------------------------------------------------------------
(* Every variable has its type; out_buf holds no more than its capacity,   *)
(* which do_compress grows, but never beyond the limit.                    *)
EncoderTypeOK ==
  /\ comp \in [hold: Seq(Tokens), queue: Seq(Symbols), fin: BOOLEAN,
               ended: BOOLEAN, bad: BOOLEAN, synced: BOOLEAN]
  /\ outBuf \in Seq(Symbols) /\ Len(outBuf) <= cap
  /\ cap \in InitBuf..MaxOutBuf
  /\ finished \in BOOLEAN /\ written \in 0..(U64 - 1) /\ sinkLen \in 0..(U64 - 1)
  /\ pc \in {"caller"} \cup DrainPcs \cup CallPcs
  /\ buf \in Seq(Tokens) /\ accepted \in 0..MaxTokens
  /\ sink \in Seq(Symbols \ {Marker})
  /\ result \in {"none", "ok", "pending", "err"}

(* No input is lost, duplicated or reordered, whatever the inner writer    *)
(* and the compressor do and however the caller retries: the tokens in the *)
(* sink, in out_buf and in the compressor are those the caller was told    *)
(* are accepted (the comment in poll_write on never returning Pending      *)
(* after input was consumed; NoOverwrite of out_buf is a part of it).      *)
StreamFaithful ==
  Data(sink) \o Data(outBuf) \o Data(Inside(comp)) = [i \in 1..accepted |-> i]

(* A finished encoder has nothing left: the sink ends with the end mark    *)
(* and holds all the data, so that EntryWriter::finish may go on to write  *)
(* its descriptor.                                                         *)
FinishedIsComplete ==
  finished => /\ outBuf = <<>>
              /\ sink = Append([i \in 1..accepted |-> i], EndMark)

(* `written`, the entry's compressed size, counts what the sink accepted.  *)
WrittenMatchesSink == written = sinkLen

(* Every poll comes back to its caller.                                    *)
EveryPollReturns == pc # "caller" ~> pc = "caller"

(* poll_flush, when it returns Ok, has left nothing of the accepted input  *)
(* behind ("Flush compressor internal state").                             *)
FlushReturnsOk ==
  pc \in {"f_sync", "f_drain_sync"} /\ pc' = "caller" /\ result' = "ok"

FlushLeavesNothing ==
  [][FlushReturnsOk => Data(outBuf' \o Inside(comp')) = <<>>]_vars
=============================================================================
