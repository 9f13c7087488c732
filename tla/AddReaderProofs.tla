-------------------------- MODULE AddReaderProofs --------------------------
(***************************************************************************)
(* That add_reader, when it succeeds, has written the whole reader, for    *)
(* every compressor and sink, all limits and any length of the reader.     *)
(***************************************************************************)
EXTENDS AddReader, DeflateEncoderProofs

ShutdownPcs == {"s_drain", "s_finish", "s_drain_end"}

(* How far the task is bounds where the encoder can be.                    *)
PhaseInv ==
  /\ phase \in {"eof", "finish", "done"} => accepted = MaxTokens /\ pc \notin WritingPcs
  /\ phase = "finish" => pc \in {"caller"} \cup ShutdownPcs /\ (result = "ok" => finished)
  /\ phase = "done" => finished

TaskInv == EncoderInv /\ PhaseInv

(* Outside of a write no token is accepted and no write begins; a shutdown *)
(* stays one and returns Ok only as it sets `finished`.                    *)
LEMMA QuietSteps ==
  ASSUME PollStep \/ SinkStep, pc \notin WritingPcs
  PROVE  /\ accepted' = accepted /\ pc' \notin WritingPcs
         /\ pc \in ShutdownPcs =>
              /\ pc' \in {"caller"} \cup ShutdownPcs
              /\ result' = "ok" => result = "ok" \/ finished'
         /\ finished => finished'
<1>1. CASE \E n \in 1..MaxOutBuf : SinkAccepts(n)
  BY <1>1 DEF SinkAccepts
<1>2. CASE SinkPending \/ SinkFails
  BY <1>2 DEF SinkPending, SinkFails, Return, WritingPcs
<1>3. CASE Drained
  BY <1>3 DEF Drained, Return, WritingPcs, ShutdownPcs, DrainPcs
<1>4. CASE GrowBuffer
  BY <1>4 DEF GrowBuffer
<1>5. CASE CompressError
  BY <1>5 DEF CompressError, Return, WritingPcs
<1>6. CASE WriteCompressed \/ WriteSynced
  BY <1>6 DEF WriteCompressed, WriteSynced, WritingPcs
<1>7. CASE FlushSynced
  BY <1>7 DEF FlushSynced, Return, WritingPcs, ShutdownPcs
<1>8. CASE ShutdownFinished
  BY <1>8 DEF ShutdownFinished, Return, WritingPcs, ShutdownPcs
<1>9. QED
  BY <1>1, <1>2, <1>3, <1>4, <1>5, <1>6, <1>7, <1>8 DEF PollStep, SinkStep

LEMMA TaskInitInv == TaskInit => TaskInv
BY EncoderInit DEF TaskInit, TaskInv, PhaseInv

LEMMA ProceedKeepsInv ==
  ASSUME EncoderInv, NEW next, Proceed(next)
  PROVE  EncoderInv'
<1>1. EncoderTypeOK' /\ PollInv'
  BY DEF EncoderInv, EncoderTypeOK, PollInv, Proceed
<1>2. QED
  BY <1>1, DataUnmoved DEF EncoderInv, Proceed

LEMMA TaskStepInv == TaskInv /\ [TaskNext]_taskVars => TaskInv'
<1> SUFFICES ASSUME TaskInv, [TaskNext]_taskVars PROVE TaskInv'
  OBVIOUS
<1> USE DEF TaskInv
<1>0. accepted \in 0..MaxTokens
  BY DEF EncoderInv, EncoderTypeOK
<1>1. CASE CopyWrite
  <2>1. EncoderInv'
    BY <1>1, CallsKeepInv DEF CopyWrite, Call
  <2>2. QED
    BY <1>1, <2>1 DEF CopyWrite, PhaseInv
<1>2. CASE ReaderPending
  <2>1. EncoderInv'
    BY <1>2, CallsKeepInv DEF ReaderPending, Call
  <2>2. QED
    BY <1>2, <2>1 DEF ReaderPending, PhaseInv
<1>3. CASE FlushAtEof
  <2>1. EncoderInv'
    BY <1>3, CallsKeepInv DEF FlushAtEof, Call
  <2>2. QED
    BY <1>3, <2>1 DEF FlushAtEof, PollFlush, Enter, PhaseInv, WritingPcs
<1>4. CASE FinishEntry
  <2>1. EncoderInv'
    BY <1>4, CallsKeepInv DEF FinishEntry, Call
  <2>2. QED
    BY <1>4, <2>1 DEF FinishEntry, PollShutdown, Enter, PhaseInv, WritingPcs, ShutdownPcs
<1>5. CASE WaitOver
  BY <1>5, ProceedKeepsInv DEF WaitOver, Proceed, PhaseInv
<1>6. CASE EndOfReader
  BY <1>6, ProceedKeepsInv DEF EndOfReader, Proceed, PhaseInv, WritingPcs
<1>7. CASE Flushed
  BY <1>7, ProceedKeepsInv DEF Flushed, Proceed, PhaseInv, WritingPcs
<1>8. CASE Finished
  BY <1>8, ProceedKeepsInv DEF Finished, Proceed, PhaseInv, WritingPcs
<1>9. CASE Failed
  BY <1>9, ProceedKeepsInv DEF Failed, Proceed, PhaseInv
<1>10. CASE Encoder(PollStep) \/ Encoder(SinkStep)
  <2>1. PollStep \/ SinkStep
    BY <1>10 DEF Encoder
  <2>2. phase' = phase
    BY <1>10 DEF Encoder
  <2>3. EncoderInv'
    BY <2>1, SinkKeepsInv, PollKeepsInv
  <2>4. pc # "caller"
    BY <2>1 DEF PollStep, SinkStep, Drained, GrowBuffer, CompressError, WriteCompressed,
      WriteSynced, FlushSynced, ShutdownFinished, SinkAccepts, SinkPending, SinkFails,
      DrainPcs, CallPcs
  <2>5. phase # "done"
    BY <2>4 DEF PhaseInv, EncoderInv, PollInv
  <2>6. PhaseInv'
    BY <2>1, <2>2, <2>4, <2>5, QuietSteps DEF PhaseInv
  <2>7. QED
    BY <2>3, <2>6
<1>11. CASE UNCHANGED taskVars
  <2>1. EncoderInv'
    BY <1>11, EncoderStep DEF taskVars
  <2>2. QED
    BY <1>11, <2>1 DEF taskVars, vars, PhaseInv
<1>12. QED
  BY <1>1, <1>2, <1>3, <1>4, <1>5, <1>6, <1>7, <1>8, <1>9, <1>10, <1>11 DEF TaskNext, TaskStep

(* An add_reader that returned Ok has put the whole of the reader into the *)
(* sink, once and in order and with the end of the stream after it,        *)
(* however often sink and reader made it wait.                             *)
THEOREM AddReaderAlwaysComplete == TaskSpec => []AddReaderComplete
<1>1. TaskInv => AddReaderComplete
  <2> SUFFICES ASSUME TaskInv, phase = "done" PROVE AddReaderComplete
    BY DEF AddReaderComplete
  <2>1. finished /\ accepted = MaxTokens
    BY DEF TaskInv, PhaseInv
  <2>2. comp.ended /\ outBuf = <<>> /\ written = sinkLen
    BY <2>1 DEF TaskInv, EncoderInv, PollInv, WrittenMatchesSink
  <2>3. sink = Append(AcceptedTokens, EndMark)
    BY <2>2, EndedComplete DEF TaskInv
  <2>4. QED
    BY <2>1, <2>2, <2>3 DEF AddReaderComplete, AcceptedTokens, FirstTokens
<1>2. QED
  BY <1>1, TaskInitInv, TaskStepInv, PTL DEF TaskSpec
=============================================================================
