----------------------------- MODULE AddReader -----------------------------
(***************************************************************************)
(* ZipWriter::add_reader on a deflated entry, after the local header: the  *)
(* task that runs tokio::io::copy and then EntryWriter::finish, polled by  *)
(* its executor whenever the sink or the reader wakes it.  The reader has  *)
(* MaxTokens tokens.  The entry is finished when its encoder is shut down; *)
(* the descriptor that follows is a plain write of ZipWriter.              *)
(*                                                                         *)
(* tokio::io::copy is external: it presents what it has read, flushes the  *)
(* writer while the reader is pending and something was written since the  *)
(* last flush, and at the end of the input flushes until a flush succeeds. *)
(***************************************************************************)
EXTENDS DeflateEncoder

VARIABLES
  phase,      \* "copy", "wait" (flush, reader pending), "eof" (flush at the
              \* end), "finish", "done" or "failed"
  needFlush   \* CopyBuffer.need_flush

taskVars == <<vars, phase, needFlush>>

TaskInit == Init /\ phase = "copy" /\ needFlush = FALSE
-----------------------------------------------------------------------------
(* The task's calls; a call that was left Pending is made again.           *)

CopyWrite ==
  /\ phase = "copy" /\ result # "err"
  /\ \E n \in WriteSizes : PollWrite(n)
  /\ needFlush' = TRUE /\ UNCHANGED phase

ReaderPending ==
  /\ phase = "copy" /\ result # "err" /\ needFlush
  /\ PollFlush
  /\ phase' = "wait" /\ UNCHANGED needFlush

FlushAtEof ==
  /\ phase = "eof" /\ result \in {"none", "pending"}
  /\ PollFlush /\ UNCHANGED <<phase, needFlush>>

FinishEntry ==
  /\ phase = "finish" /\ result \in {"none", "pending"}
  /\ PollShutdown /\ UNCHANGED <<phase, needFlush>>

(* What the task makes of the answers.                                     *)
Proceed(next) ==
  /\ pc = "caller" /\ phase' = next /\ result' = "none"
  /\ UNCHANGED <<comp, outBuf, cap, finished, written, pc, buf, accepted, sink, sinkLen>>

WaitOver ==
  /\ phase = "wait" /\ result \in {"ok", "pending"}
  /\ Proceed("copy") /\ needFlush' = (needFlush /\ result = "pending")

EndOfReader ==
  /\ phase = "copy" /\ accepted = MaxTokens /\ result # "err"
  /\ Proceed("eof") /\ UNCHANGED needFlush

Flushed  == phase = "eof" /\ result = "ok" /\ Proceed("finish") /\ UNCHANGED needFlush
Finished == phase = "finish" /\ result = "ok" /\ Proceed("done") /\ UNCHANGED needFlush
Failed   == phase \in {"copy", "wait", "eof", "finish"} /\ result = "err"
            /\ Proceed("failed") /\ UNCHANGED needFlush

TaskStep ==
  \/ CopyWrite \/ FlushAtEof \/ FinishEntry
  \/ WaitOver \/ EndOfReader \/ Flushed \/ Finished \/ Failed

Encoder(step) == step /\ UNCHANGED <<phase, needFlush>>

TaskNext ==
  \/ TaskStep \/ ReaderPending
  \/ Encoder(PollStep) \/ Encoder(SinkStep)

(* The executor polls a woken task again; a reader is not pending for ever *)
(* (its own readiness is what CopyWrite and EndOfReader are fair about);   *)
(* a poll runs on and the sink answers; and a sink that is offered bytes   *)
(* again and again accepts some again and again, as tests/slow_sink.rs     *)
(* does on every second call.                                              *)
TaskSpec ==
  /\ TaskInit /\ [][TaskNext]_taskVars
  /\ WF_taskVars(TaskStep)
  /\ WF_taskVars(Encoder(PollStep)) /\ WF_taskVars(Encoder(SinkStep))
  /\ SF_taskVars(\E n \in 1..MaxOutBuf : Encoder(SinkAccepts(n)))
-----------------------------------------------------------------------------
(* When add_reader succeeds, the whole of the reader is in the sink, once  *)
(* and in order, and the deflate stream is ended.                          *)
AddReaderComplete ==
  phase = "done" =>
    /\ sink = Append([i \in 1..MaxTokens |-> i], EndMark)
    /\ finished /\ written = sinkLen

Over == phase \in {"done", "failed"}

(* add_reader "reads until EOF, writing all data into the entry, then      *)
(* finishes it": with a sink that keeps accepting it comes to an end.      *)
AddReaderReturns == <>Over

(* It does come to an end once the sink is never Pending any more.         *)
AddReaderReturnsOnReadySink == <>[][~SinkPending]_taskVars => <>Over
=============================================================================
