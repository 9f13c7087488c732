-------------------------- MODULE ZipWriterProofs --------------------------
(***************************************************************************)
(* Proofs about ZipWriter, for every value of its constants.               *)
(***************************************************************************)
EXTENDS ZipWriter, TLAPS

(* Lengths are natural numbers, and Chunk is what each await is writing.   *)
LEMMA LengthsNat ==
  /\ \A r \in Requests, s \in BOOLEAN : LocalFileHeader(r, s).len \in Nat
  /\ \A k, c, u : DataDescriptor(k, c, u).len \in Nat
  /\ \A e \in StoredEntries : CentralDirEntry(e).len \in Nat
  /\ \A t, s, o : Zip64Eocdr(t, s, o).len \in Nat
  /\ \A o : Zip64EocdrLocator(o).len \in Nat
  /\ \A t, s, o : \A n \in Nat : Eocdr(t, s, o, n).len \in Nat
<1>0. \A r \in Requests : r.nameLen \in Nat /\ r.commentLen \in Nat
  BY WriterAssumption DEF RequestType
<1>1. \A r \in Requests, s \in BOOLEAN : LocalFileHeader(r, s).len \in Nat
  BY <1>0 DEF LocalFileHeader, TimestampExtraLen
<1>2. \A k, c, u : DataDescriptor(k, c, u).len \in Nat
  BY DEF DataDescriptor
<1>3. \A e \in StoredEntries : CentralDirEntry(e).len \in Nat
  <2>1. \A u, c, o : Zip64ExtraLen(Zip64Extra(u, c, o)) \in {0, 28}
    <3> SUFFICES ASSUME NEW u, NEW c, NEW o
                 PROVE  Zip64ExtraLen(Zip64Extra(u, c, o)) \in {0, 28}
      OBVIOUS
    <3>1. CASE EntryNeedsZip64(c, u, o)
      <4>1. /\ <<u, c, o>> # <<>>
            /\ Len(<<u, c, o>>) = 3
        OBVIOUS
      <4>2. QED
        BY <3>1, <4>1 DEF Zip64Extra, Zip64ExtraLen
    <3>2. CASE ~EntryNeedsZip64(c, u, o)
      BY <3>2 DEF Zip64Extra, Zip64ExtraLen
    <3>3. QED
      BY <3>1, <3>2
  <2>2. \A ids : UnixUidGidExtraLen(ids) \in {0, 15}
    BY DEF UnixUidGidExtraLen
  <2>3. QED
    BY <1>0, <2>1, <2>2
    DEF CentralDirEntry, ToCentralDirEntry, TimestampExtraLen, StoredEntries
<1>4. QED
  BY <1>1, <1>2, <1>3 DEF Zip64Eocdr, Zip64EocdrLocator, Eocdr

ChunkByPc ==
  /\ pc = "lfh" => Chunk = LocalFileHeader(cur.req, cur.stored)
  /\ pc = "target" => Chunk = [rec |-> "data", len |-> cur.req.targetLen]
  /\ pc \in {"dd", "entry_dd"} => Chunk = EntryDescriptor(cur)
  /\ pc = "cd" => Chunk = CentralDirEntry(entries[fin.listed + 1])
  /\ pc = "eocdr64" => Chunk = Zip64Eocdr(Len(entries), fin.cdSize, fin.cdOffset)
  /\ pc = "locator" => Chunk = Zip64EocdrLocator(fin.eocdr64Offset)
  /\ pc = "eocdr" => Chunk = Eocdr(Len(entries), fin.cdSize, fin.cdOffset, comment)

LEMMA ChunkIs == ChunkByPc
  BY DEF ChunkByPc, Chunk

LEMMA ChunkIsNext == ChunkByPc'
  BY DEF ChunkByPc, Chunk
-----------------------------------------------------------------------------
(* Who holds the sink, and how far finish has come.                        *)
Custody ==
  /\ pc = "idle" => /\ holder \in {"zip", "dropped", "leaked"}
                    /\ poisoned <=> holder # "zip"
  /\ pc = "entry" => holder = "entry" /\ poisoned
  /\ pc \in WritePcs \cup {"encoder", "shutdown"} => holder = "op" /\ poisoned
  /\ SinkOpenUntilFinished

Progress ==
  /\ pc \in FinishPcs => fin.cdOffset <= pos /\ fin.listed <= Len(entries)
  /\ pc = "cd" => fin.listed < Len(entries)

Bookkeeping == TypeOK /\ Custody /\ Progress

LEMMA ChunkLenNat == Bookkeeping /\ pc \in WritePcs => Chunk.len \in Nat
<1> SUFFICES ASSUME Bookkeeping, pc \in WritePcs PROVE Chunk.len \in Nat
  OBVIOUS
<1>1. CASE pc = "lfh"
  BY <1>1, ChunkIs, LengthsNat DEF ChunkByPc, Bookkeeping, TypeOK, EntryOpPcs, EntryState
<1>2. CASE pc = "target"
  BY <1>2, ChunkIs, WriterAssumption
     DEF ChunkByPc, Bookkeeping, TypeOK, EntryOpPcs, EntryState, RequestType
<1>3. CASE pc \in {"dd", "entry_dd"}
  BY <1>3, ChunkIs, LengthsNat DEF ChunkByPc, EntryDescriptor
<1>4. CASE pc = "cd"
  <2>1. fin.listed + 1 \in 1..Len(entries)
    BY <1>4 DEF Bookkeeping, TypeOK, Progress
  <2>2. entries[fin.listed + 1] \in StoredEntries
    BY <2>1 DEF Bookkeeping, TypeOK
  <2>3. QED
    BY <1>4, <2>2, ChunkIs, LengthsNat DEF ChunkByPc
<1>5. CASE pc \in {"eocdr64", "locator"}
  BY <1>5, ChunkIs, LengthsNat DEF ChunkByPc
<1>6. CASE pc = "eocdr"
  BY <1>6, ChunkIs, LengthsNat, WriterAssumption DEF ChunkByPc, Bookkeeping, TypeOK
<1>7. QED
  BY <1>1, <1>2, <1>3, <1>4, <1>5, <1>6 DEF WritePcs
-----------------------------------------------------------------------------
LEMMA RequestFacts ==
  /\ \A r \in Requests : r.targetLen \in Nat /\ r.kind \in Kinds
  /\ \A n \in ShortWrites \cup WriteSizes \cup DrainSizes : n \in Nat /\ n > 0
  /\ \A c \in EntryState : StoredEntry(c) \in StoredEntries /\ CompressedSize(c) \in Nat
  BY WriterAssumption DEF RequestType, EntryState, StoredEntry, StoredEntries, CompressedSize

(* A registered entry is appended to a sequence of its type.               *)
LEMMA Registered ==
  ASSUME entries \in Seq(StoredEntries), cur \in EntryState,
         entries' = Append(entries, StoredEntry(cur))
  PROVE  /\ entries' \in Seq(StoredEntries)
         /\ Len(entries') = Len(entries) + 1
         /\ \A i \in 1..Len(entries) : entries'[i] = entries[i]
         /\ entries'[Len(entries) + 1] = StoredEntry(cur)
  BY RequestFacts

(* The choice of the next record of finish keeps finish's locals in range. *)
LEMMA NextRecordKeeps ==
  ASSUME Bookkeeping, NEW cdOffset \in Nat, NEW listed \in Nat, NEW newPos \in Nat,
         cdOffset <= newPos, listed <= Len(entries),
         NextRecord(cdOffset, listed, newPos)
  PROVE  /\ pc' \in {"cd", "eocdr64", "eocdr"} /\ left' \in Nat
         /\ fin' \in [cdOffset: Nat, cdSize: Nat, listed: Nat, eocdr64Offset: Nat]
         /\ fin'.cdOffset = cdOffset /\ fin'.listed = listed
         /\ pc' = "cd" => listed < Len(entries)
<1>0. entries \in Seq(StoredEntries) /\ comment \in Nat
      /\ fin \in [cdOffset: Nat, cdSize: Nat, listed: Nat, eocdr64Offset: Nat]
  BY WriterAssumption DEF Bookkeeping, TypeOK
<1>1. CASE listed < Len(entries)
  <2>1. entries[listed + 1] \in StoredEntries
    BY <1>0, <1>1
  <2>2. QED
    BY <1>0, <1>1, <2>1, LengthsNat DEF NextRecord
<1>2. CASE ~(listed < Len(entries))
  <2> DEFINE cdSize == newPos - cdOffset
  <2>1. cdSize \in Nat
    OBVIOUS
  <2>2. fin' = [fin EXCEPT !.cdOffset = cdOffset, !.listed = listed,
                           !.cdSize = cdSize, !.eocdr64Offset = newPos]
    BY <1>2 DEF NextRecord
  <2>3. pc' \in {"eocdr64", "eocdr"} /\ left' \in Nat
    <3>1. CASE ArchiveNeedsZip64(Len(entries), cdSize, cdOffset)
      BY <1>2, <3>1, LengthsNat DEF NextRecord
    <3>2. CASE ~ArchiveNeedsZip64(Len(entries), cdSize, cdOffset)
      BY <1>0, <1>2, <3>2, LengthsNat DEF NextRecord
    <3>3. QED
      BY <3>1, <3>2
  <2> HIDE DEF cdSize
  <2>4. QED
    BY <1>0, <2>1, <2>2, <2>3
<1>3. QED
  BY <1>1, <1>2
-----------------------------------------------------------------------------
LEMMA BookkeepingInit == Init => Bookkeeping
<1> SUFFICES ASSUME Init PROVE Bookkeeping
  OBVIOUS
<1> USE DEF Init, Pcs, WritePcs, FinishPcs, EntryOpPcs, Results
<1>1. entries \in Seq(StoredEntries)
  OBVIOUS
<1>2. fin \in [cdOffset: Nat, cdSize: Nat, listed: Nat, eocdr64Offset: Nat]
  BY DEF NoFin
<1>3. TypeOK
  BY <1>1, <1>2 DEF TypeOK
<1>4. Custody /\ Progress
  BY DEF Custody, SinkOpenUntilFinished, Progress
<1>5. QED
  BY <1>3, <1>4 DEF Bookkeeping

LEMMA BookkeepingStep == Bookkeeping /\ [Next]_vars => Bookkeeping'
<1> SUFFICES ASSUME Bookkeeping, [Next]_vars PROVE Bookkeeping'
  OBVIOUS
<1> USE DEF Bookkeeping, TypeOK, Custody, SinkOpenUntilFinished, Progress, Pcs, WritePcs, FinishPcs,
            EntryOpPcs, Results
<1>0. ASSUME WithCompressionLevel \/ WithComment PROVE Bookkeeping'
  BY <1>0 DEF WithCompressionLevel, WithComment, opVars, sinkVars
<1>1. ASSUME NEW r \in Requests, RefuseInput(r) PROVE Bookkeeping'
  <2>1. ret' \in Results /\ UNCHANGED <<zipVars, sinkVars, pc, cur, left, fin>>
    BY <1>1 DEF RefuseInput, Refuse
  <2>2. QED
    BY <2>1 DEF zipVars, sinkVars
<1>2. ASSUME NEW r \in Requests, RefuseStart(r) PROVE Bookkeeping'
  BY <1>2 DEF RefuseStart, Refuse, TakeError, zipVars, sinkVars
<1>3. ASSUME NEW r \in Requests, StartEntry(r) PROVE Bookkeeping'
  <2>1. cur' = NewEntry(r) /\ cur' \in EntryState
    BY <1>3 DEF StartEntry, NewEntry, EntryState
  <2>2. left' \in Nat
    BY <1>3, <2>1, LengthsNat DEF StartEntry, EntryState
  <2>3. QED
    BY <1>3, <2>1, <2>2 DEF StartEntry, TakeInner, sinkVars
<1>4. ASSUME NEW n \in ShortWrites, WriteShort(n) PROVE Bookkeeping'
  BY <1>4, RequestFacts DEF WriteShort, zipVars
<1>5. ASSUME ChunkWritten
      PROVE  sinkLen' \in Nat /\ Chunk.len \in Nat /\ sinkOpen' = sinkOpen
  BY <1>5, ChunkLenNat DEF ChunkWritten
<1>6. CASE DirectoryHeaderWritten
  <2>1. entries' \in Seq(StoredEntries)
    BY <1>6, Registered DEF DirectoryHeaderWritten
  <2>2. pos' \in Nat /\ sinkLen' \in Nat /\ sinkOpen
    BY <1>5, <1>6 DEF DirectoryHeaderWritten
  <2>3. sinkOpen'
    BY <1>5, <1>6, <2>2 DEF DirectoryHeaderWritten
  <2>4. QED
    BY <1>6, <2>1, <2>2, <2>3 DEF DirectoryHeaderWritten, HandBack
<1>7. CASE LinkHeaderWritten
  <2>1. cur \in EntryState
    BY <1>7 DEF LinkHeaderWritten
  <2>2. cur.req.targetLen \in Nat
    BY <2>1, RequestFacts DEF EntryState
  <2>3. pos' \in Nat /\ sinkLen' \in Nat /\ sinkOpen' = sinkOpen
    BY <1>5, <1>7 DEF LinkHeaderWritten
  <2>4. QED
    BY <1>7, <2>1, <2>2, <2>3 DEF LinkHeaderWritten
<1>8. CASE TargetWritten
  <2>1. cur' \in EntryState /\ cur.req.targetLen \in Nat
    BY <1>8, RequestFacts DEF TargetWritten, EntryState
  <2>2. left' \in Nat
    BY <1>8, LengthsNat DEF TargetWritten, EntryDescriptor
  <2>3. pc' = "dd" /\ pos' \in Nat
    BY <1>8, <2>1 DEF TargetWritten
  <2>4. sinkLen' \in Nat /\ sinkOpen' = sinkOpen
    BY <1>5, <1>8 DEF TargetWritten
  <2>5. UNCHANGED <<stored, comment, holder, poisoned, entries, fin, ret>>
        /\ holder = "op" /\ poisoned /\ sinkOpen
    BY <1>8 DEF TargetWritten
  <2>6. sinkOpen'
    BY <2>4, <2>5
  <2>7. Custody' /\ Progress'
    BY <2>3, <2>5, <2>6
  <2>8. TypeOK'
    BY <2>1, <2>2, <2>3, <2>4, <2>5, <2>6
  <2>9. QED
    BY <2>7, <2>8
<1>9. CASE LinkDescriptorWritten
  <2>1. entries' \in Seq(StoredEntries)
    BY <1>9, Registered DEF LinkDescriptorWritten
  <2>2. pos' \in Nat /\ sinkLen' \in Nat /\ sinkOpen
    BY <1>5, <1>9 DEF LinkDescriptorWritten
  <2>3. sinkOpen'
    BY <1>5, <1>9, <2>2 DEF LinkDescriptorWritten
  <2>4. QED
    BY <1>9, <2>1, <2>2, <2>3 DEF LinkDescriptorWritten, HandBack
<1>10. CASE FileHeaderWritten
  BY <1>5, <1>10 DEF FileHeaderWritten
<1>11. ASSUME NEW m \in WriteSizes, NEW n \in WriteSizes, PollWrite(m, n)
       PROVE  Bookkeeping'
  <2>1. n \in Nat /\ cur \in EntryState
    BY <1>11, RequestFacts DEF PollWrite
  <2>2. cur' \in EntryState
    <3>1. cur' = [cur EXCEPT !.usize = cur.usize + n, !.crc = cur.crc + n]
      BY <1>11 DEF PollWrite
    <3>2. cur.usize + n \in Nat /\ cur.crc + n \in Nat
      BY <2>1 DEF EntryState
    <3>3. QED
      BY <2>1, <3>1, <3>2 DEF EntryState
  <2>3. sinkLen' \in Nat
    BY <1>11, <2>1 DEF PollWrite
  <2>4. QED
    BY <1>11, <2>2, <2>3 DEF PollWrite, zipVars
<1>12. ASSUME NEW n \in DrainSizes, EncoderDrain(n) PROVE Bookkeeping'
  <2>1. n \in Nat /\ cur \in EntryState
    BY <1>12, RequestFacts DEF EncoderDrain
  <2>2. cur' \in EntryState
    <3>1. cur' = [cur EXCEPT !.written = cur.written + n]
      BY <1>12 DEF EncoderDrain
    <3>2. cur.written + n \in Nat
      BY <2>1 DEF EntryState
    <3>3. QED
      BY <2>1, <3>1, <3>2 DEF EntryState
  <2>3. sinkLen' \in Nat
    BY <1>12, <2>1 DEF EncoderDrain
  <2>4. QED
    BY <1>12, <2>2, <2>3 DEF EncoderDrain, zipVars
<1>13. CASE EntryShutdown
  <2>1. cur' \in EntryState
    BY <1>13 DEF EntryShutdown, EntryState
  <2>2. QED
    BY <1>13, <2>1 DEF EntryShutdown, zipVars, sinkVars
<1>14. CASE FinishEntry
  BY <1>14, LengthsNat DEF FinishEntry, EntryDescriptor, sinkVars
<1>15. CASE EncoderFinished
  BY <1>15, LengthsNat DEF EncoderFinished, EntryDescriptor, zipVars, sinkVars
<1>16. CASE EntryDescriptorWritten
  <2>1. cur \in EntryState /\ entries' \in Seq(StoredEntries)
    BY <1>16, Registered DEF EntryDescriptorWritten
  <2>2. pos' \in Nat
    BY <1>5, <1>16, <2>1, RequestFacts DEF EntryDescriptorWritten
  <2>3. QED
    BY <1>5, <1>16, <2>1, <2>2 DEF EntryDescriptorWritten, HandBack
<1>17. CASE DropEntry
  BY <1>17 DEF DropEntry, sinkVars
<1>18. CASE LeakEntry
  BY <1>18 DEF LeakEntry, sinkVars
<1>19. CASE Fail
  BY <1>19 DEF Fail, sinkVars
<1>20. CASE Cancel
  BY <1>20 DEF Cancel, sinkVars
<1>21. CASE FinishRefused
  BY <1>21 DEF FinishRefused, Gone, TakeError, sinkVars
<1>22. CASE Finish
  <2>1. NextRecord(pos, 0, pos)
    BY <1>22 DEF Finish
  <2>2. 0 <= Len(entries)
    OBVIOUS
  <2>3. QED
    BY <1>22, <2>1, <2>2, NextRecordKeeps DEF Finish, TakeInner, sinkVars
<1>23. CASE CentralEntryWritten
  <2>1. pos' \in Nat /\ pos <= pos' /\ fin.cdOffset <= pos'
    BY <1>5, <1>23 DEF CentralEntryWritten
  <2>2. fin.listed + 1 \in Nat /\ fin.listed + 1 <= Len(entries)
    BY <1>23 DEF CentralEntryWritten
  <2>3. NextRecord(fin.cdOffset, fin.listed + 1, pos')
    BY <1>23 DEF CentralEntryWritten
  <2>4. QED
    <3>1. /\ pc' \in {"cd", "eocdr64", "eocdr"} /\ left' \in Nat
          /\ fin' \in [cdOffset: Nat, cdSize: Nat, listed: Nat, eocdr64Offset: Nat]
          /\ fin'.cdOffset = fin.cdOffset /\ fin'.listed = fin.listed + 1
          /\ pc' = "cd" => fin.listed + 1 < Len(entries)
      BY <2>1, <2>2, <2>3, NextRecordKeeps
    <3>2. sinkLen' \in Nat /\ sinkOpen' = sinkOpen
      BY <1>5, <1>23 DEF CentralEntryWritten
    <3>3. QED
      BY <1>23, <2>1, <2>2, <3>1, <3>2 DEF CentralEntryWritten
<1>24. CASE Eocdr64Written
  BY <1>5, <1>24, LengthsNat DEF Eocdr64Written
<1>25. CASE LocatorWritten
  BY <1>5, <1>25, LengthsNat, WriterAssumption DEF LocatorWritten
<1>26. CASE EocdrWritten
  BY <1>5, <1>26 DEF EocdrWritten, zipVars
<1>27. CASE ShutdownDone
  BY <1>27 DEF ShutdownDone, sinkVars
<1>28. CASE FailFinish \/ CancelFinish
  BY <1>28 DEF FailFinish, CancelFinish, Gone, sinkVars
<1>29. CASE Abort
  BY <1>29 DEF Abort, Gone, TakeError, sinkVars
<1>30. CASE UNCHANGED vars
  BY <1>30 DEF vars, zipVars, opVars, sinkVars
<1>31. QED
  BY <1>0, <1>1, <1>2, <1>3, <1>4, <1>6, <1>7, <1>8, <1>9, <1>10, <1>11, <1>12, <1>13,
     <1>14, <1>15, <1>16, <1>17, <1>18, <1>19, <1>20, <1>21, <1>22, <1>23, <1>24,
     <1>25, <1>26, <1>27, <1>28, <1>29, <1>30
     DEF Next

THEOREM BookkeepingAlways == Spec => []Bookkeeping
  BY BookkeepingInit, BookkeepingStep, PTL DEF Spec

(* Every variable keeps its type, for all requests, sizes and limits.      *)
THEOREM TypeCorrect == Spec => []TypeOK
<1>1. Bookkeeping => TypeOK
  BY DEF Bookkeeping
<1>2. QED
  BY <1>1, BookkeepingAlways, PTL

(* Only the end of a finish shuts the sink down.                           *)
THEOREM SinkStaysOpen == Spec => []SinkOpenUntilFinished
<1>1. Bookkeeping => SinkOpenUntilFinished
  BY DEF Bookkeeping, Custody
<1>2. QED
  BY <1>1, BookkeepingAlways, PTL

(* Between two calls `poisoned` tells whether the sink is lost.            *)
THEOREM PoisonedIsHonest == Spec => []RestingStateHonest
<1>1. Bookkeeping => RestingStateHonest
  BY DEF Bookkeeping, Custody, RestingStateHonest
<1>2. QED
  BY <1>1, BookkeepingAlways, PTL
-----------------------------------------------------------------------------
(* The sink.  A chunk that completes lands at pos, or after the entry data *)
(* that finish has not counted yet.                                        *)
Base == IF pc = "entry_dd" THEN pos + CompressedSize(cur) ELSE pos

LEMMA Placed ==
  ASSUME Bookkeeping, PosMatchesSink, ChunkWritten
  PROVE  /\ Base \in Nat /\ Chunk.len \in Nat
         /\ sinkLen' = Base + Chunk.len
         /\ out' = out \cup {[off |-> Base, hdr |-> Chunk]}
<1>1. Chunk.len \in Nat /\ pos \in Nat /\ left \in Nat /\ sinkLen \in Nat
  BY ChunkLenNat DEF ChunkWritten, Bookkeeping, TypeOK
<1>2. Base \in Nat
  BY <1>1, RequestFacts DEF Base, Bookkeeping, TypeOK, EntryOpPcs
<1>3. sinkLen = Base + Chunk.len - left
  BY <1>1, <1>2 DEF ChunkWritten, PosMatchesSink, Base, WritePcs
<1>4. sinkLen + left = Base + Chunk.len /\ sinkLen + left - Chunk.len = Base
  BY <1>1, <1>2, <1>3
<1>5. QED
  BY <1>1, <1>2, <1>4 DEF ChunkWritten

(* A chunk none of which has been written keeps the position exact.        *)
LEMMA NewChunk ==
  ASSUME pc' \in {"lfh", "target", "dd", "cd", "eocdr64", "locator", "eocdr"},
         left' = Chunk'.len, left' \in Nat, sinkLen' = pos', pos' \in Nat
  PROVE  PosMatchesSink'
  BY DEF PosMatchesSink

LEMMA NextRecordChunk ==
  ASSUME Bookkeeping, NEW cdOffset \in Nat, NEW listed \in Nat, NEW newPos \in Nat,
         NextRecord(cdOffset, listed, newPos), UNCHANGED <<entries, comment>>
  PROVE  left' = Chunk'.len
<1>1. CASE listed < Len(entries)
  <2>1. pc' = "cd" /\ left' = CentralDirEntry(entries[listed + 1]).len
        /\ fin' = [fin EXCEPT !.cdOffset = cdOffset, !.listed = listed]
    BY <1>1 DEF NextRecord
  <2>2. fin'.listed = listed
    BY <2>1 DEF Bookkeeping, TypeOK
  <2>3. QED
    BY <2>1, <2>2, ChunkIsNext DEF ChunkByPc
<1>2. CASE ~(listed < Len(entries))
  <2> DEFINE cdSize == newPos - cdOffset
  <2>1. fin' = [fin EXCEPT !.cdOffset = cdOffset, !.listed = listed,
                           !.cdSize = cdSize, !.eocdr64Offset = newPos]
    BY <1>2 DEF NextRecord
  <2>2. fin'.cdOffset = cdOffset /\ fin'.cdSize = cdSize
    BY <2>1 DEF Bookkeeping, TypeOK
  <2>3. CASE ArchiveNeedsZip64(Len(entries), cdSize, cdOffset)
    BY <1>2, <2>2, <2>3, ChunkIsNext DEF NextRecord, ChunkByPc
  <2>4. CASE ~ArchiveNeedsZip64(Len(entries), cdSize, cdOffset)
    BY <1>2, <2>2, <2>4, ChunkIsNext DEF NextRecord, ChunkByPc
  <2>5. QED
    BY <2>3, <2>4
<1>3. QED
  BY <1>1, <1>2
-----------------------------------------------------------------------------
(* The entry under construction: its header is in the sink, and pos is     *)
(* where its data begins (after a link's target, where it ends).           *)
EntryPcs == {"target", "dd", "entry", "encoder", "entry_dd"}

HeaderOf(c) == LocalFileHeader(c.req, c.stored)

InProgress ==
  /\ pc = "lfh" => /\ cur.offset = pos /\ cur.usize = 0 /\ cur.written = 0
                   /\ cur.req.kind # "file" => cur.stored
  /\ pc \in {"target", "dd"} => cur.stored
  /\ pc \in EntryPcs => [off |-> cur.offset, hdr |-> HeaderOf(cur)] \in out
  /\ pc \in EntryPcs \ {"dd"} => pos = cur.offset + HeaderOf(cur).len
  /\ pc = "dd" => pos = cur.offset + HeaderOf(cur).len + cur.usize

(* Whose the local headers in the sink are.                                *)
HeadersOwned ==
  \A x \in out : x.hdr.rec = "lfh" =>
    \/ \E i \in 1..Len(entries) : entries[i].offset = x.off
    \/ pc \in EntryPcs /\ x.off = cur.offset
    \/ holder \in {"dropped", "leaked"} \/ pc = "gone"

SinkInv == PosMatchesSink /\ InProgress /\ RegisteredEntriesInSink /\ HeadersOwned

LEMMA KeepRegistered ==
  ASSUME RegisteredEntriesInSink, entries' = entries, out \subseteq out'
  PROVE  RegisteredEntriesInSink'
  BY DEF RegisteredEntriesInSink, EntryInSink

LEMMA AddRegistered ==
  ASSUME NEW e, RegisteredEntriesInSink, entries \in Seq(StoredEntries),
         e \in StoredEntries, entries' = Append(entries, e),
         out \subseteq out', EntryInSink(e)'
  PROVE  RegisteredEntriesInSink'
<1> SUFFICES ASSUME NEW i \in 1..Len(entries') PROVE EntryInSink(entries[i])'
  BY DEF RegisteredEntriesInSink
<1>1. CASE i = Len(entries) + 1
  <2>1. entries'[i] = e
    BY <1>1
  <2>2. QED
    BY <2>1 DEF EntryInSink
<1>2. CASE i \in 1..Len(entries)
  <2>1. entries'[i] = entries[i] /\ EntryInSink(entries[i])
    BY <1>2 DEF RegisteredEntriesInSink
  <2>2. QED
    BY <2>1 DEF EntryInSink
<1>3. QED
  BY <1>1, <1>2

(* The entry under construction is registered as it lies in the sink.      *)
LEMMA CurrentInSink ==
  ASSUME cur \in EntryState,
         [off |-> cur.offset, hdr |-> HeaderOf(cur)] \in out',
         cur.req.kind # "directory" =>
           [off |-> cur.offset + HeaderOf(cur).len + CompressedSize(cur),
            hdr |-> EntryDescriptor(cur)] \in out',
         NEW e, e = StoredEntry(cur)
  PROVE  EntryInSink(e)'
<1>1. /\ e.req = cur.req /\ e.offset = cur.offset /\ e.stored = cur.stored
      /\ e.csize = CompressedSize(cur) /\ e.usize = cur.usize /\ e.crc = cur.crc
  BY DEF StoredEntry
<1>2. QED
  BY <1>1 DEF EntryInSink, HeaderOf, EntryDescriptor

(* Headers stay owned when none is added and the entry they belong to is   *)
(* still under construction, registered or lost.                           *)
LEMMA KeepOwned ==
  ASSUME HeadersOwned, entries \in Seq(StoredEntries),
         entries' = entries \/ \E e : entries' = Append(entries, e),
         \A x \in out' : x.hdr.rec = "lfh" => x \in out,
         pc \in EntryPcs =>
           \/ pc' \in EntryPcs /\ cur'.offset = cur.offset
           \/ \E i \in 1..Len(entries') : entries'[i].offset = cur.offset
           \/ holder' \in {"dropped", "leaked"} \/ pc' = "gone",
         holder \in {"dropped", "leaked"} => holder' = holder \/ pc' = "gone",
         pc = "gone" => pc' = "gone"
  PROVE  HeadersOwned'
<1>1. \A i \in 1..Len(entries) : i \in 1..Len(entries') /\ entries'[i] = entries[i]
  OBVIOUS
<1> SUFFICES ASSUME NEW x \in out', x.hdr.rec = "lfh"
             PROVE \/ \E i \in 1..Len(entries') : entries'[i].offset = x.off
                   \/ pc' \in EntryPcs /\ x.off = cur'.offset
                   \/ holder' \in {"dropped", "leaked"} \/ pc' = "gone"
  BY DEF HeadersOwned
<1>2. \/ \E i \in 1..Len(entries) : entries[i].offset = x.off
      \/ pc \in EntryPcs /\ x.off = cur.offset
      \/ holder \in {"dropped", "leaked"} \/ pc = "gone"
  BY DEF HeadersOwned
<1>3. QED
  BY <1>1, <1>2
-----------------------------------------------------------------------------
LEMMA SinkInit == Init => SinkInv
  BY DEF Init, SinkInv, PosMatchesSink, InProgress, RegisteredEntriesInSink,
         HeadersOwned, EntryPcs

(* Calls that are refused, and a writer that is given up, touch nothing.   *)
LEMMA SinkQuiet ==
  ASSUME Bookkeeping, SinkInv, UNCHANGED <<out, sinkLen, pos, entries>>,
         pc' = "idle" /\ holder' = "zip" => pc = "idle" /\ holder = "zip",
         pc' \in {"idle", "done", "gone", "shutdown"},
         pc \in EntryPcs => holder' \in {"dropped", "leaked"},
         holder \in {"dropped", "leaked"} => holder' = holder \/ pc' = "gone",
         pc = "gone" => pc' = "gone"
  PROVE  SinkInv'
<1> USE DEF SinkInv
<1>1. PosMatchesSink' /\ InProgress'
  BY DEF PosMatchesSink, InProgress, EntryPcs
<1>2. RegisteredEntriesInSink'
  BY KeepRegistered
<1>3. HeadersOwned'
  BY KeepOwned DEF Bookkeeping, TypeOK
<1>4. QED
  BY <1>1, <1>2, <1>3

LEMMA SinkStep == Bookkeeping /\ Bookkeeping' /\ SinkInv /\ [Next]_vars => SinkInv'
<1> SUFFICES ASSUME Bookkeeping, Bookkeeping', SinkInv, [Next]_vars PROVE SinkInv'
  OBVIOUS
<1>0. /\ entries \in Seq(StoredEntries) /\ pos \in Nat /\ left \in Nat /\ sinkLen \in Nat
      /\ left' \in Nat /\ pos' \in Nat
      /\ pc \in EntryPcs \cup {"lfh"} => cur \in EntryState
      /\ pc \in WritePcs \cup {"encoder", "shutdown"} => holder = "op"
      /\ pc = "entry" => holder = "entry"
  BY DEF Bookkeeping, TypeOK, Custody, EntryPcs, EntryOpPcs
<1>a. ASSUME WithCompressionLevel \/ WithComment PROVE SinkInv'
  <2>1. UNCHANGED <<out, sinkLen, pos, entries, pc, holder>> /\ pc = "idle"
    BY <1>a DEF WithCompressionLevel, WithComment, opVars, sinkVars
  <2>2. QED
    BY <2>1, SinkQuiet DEF EntryPcs
<1>1. ASSUME NEW r \in Requests, RefuseInput(r) \/ RefuseStart(r) PROVE SinkInv'
  <2>1. UNCHANGED <<out, sinkLen, pos, entries, pc, holder>> /\ pc = "idle"
    BY <1>1 DEF RefuseInput, RefuseStart, Refuse, zipVars, sinkVars
  <2>2. QED
    BY <2>1, SinkQuiet DEF EntryPcs
<1>2. ASSUME NEW r \in Requests, StartEntry(r) PROVE SinkInv'
  <2>1. /\ pc = "idle" /\ holder = "zip" /\ pc' = "lfh" /\ cur' = NewEntry(r)
        /\ UNCHANGED <<out, sinkLen, pos, entries>>
        /\ left' = LocalFileHeader(r, cur'.stored).len
    BY <1>2 DEF StartEntry, TakeInner, sinkVars
  <2>2. cur'.req = r /\ cur'.offset = pos /\ cur'.usize = 0 /\ cur'.written = 0
        /\ cur'.stored = (r.kind # "file" \/ stored)
    BY <2>1 DEF NewEntry
  <2>3. sinkLen = pos
    BY <2>1 DEF SinkInv, PosMatchesSink
  <2>4. left' = Chunk'.len
    BY <2>1, <2>2, ChunkIsNext DEF ChunkByPc
  <2>5. PosMatchesSink'
    BY <1>0, <2>1, <2>3, <2>4, NewChunk
  <2>6. InProgress'
    BY <2>1, <2>2 DEF InProgress, EntryPcs
  <2>7. RegisteredEntriesInSink' /\ HeadersOwned'
    BY <1>0, <2>1, KeepRegistered, KeepOwned DEF SinkInv, EntryPcs
  <2>8. QED
    BY <2>5, <2>6, <2>7 DEF SinkInv
<1>3. ASSUME NEW n \in ShortWrites, WriteShort(n) PROVE SinkInv'
  <2>1. /\ UNCHANGED <<pos, entries, out, pc, cur, fin, comment, holder>>
        /\ left' = left - n /\ sinkLen' = sinkLen + n /\ n \in Nat /\ pc \in WritePcs
    BY <1>3, RequestFacts DEF WriteShort, zipVars
  <2>2. Chunk' = Chunk /\ Chunk.len \in Nat
    BY <2>1, ChunkLenNat DEF Chunk
  <2>3. CompressedSize(cur)' = CompressedSize(cur)
    BY <2>1 DEF CompressedSize
  <2>4. pc = "entry_dd" => CompressedSize(cur) \in Nat
    BY <1>0, RequestFacts DEF EntryPcs
  <2>5. PosMatchesSink'
    <3>1. (Chunk.len - left)' = (Chunk.len - left) + n
      BY <1>0, <2>1, <2>2
    <3>2. Chunk.len - left \in Int
      BY <1>0, <2>2
    <3>3. CASE pc = "entry_dd"
      <4>1. sinkLen = pos + CompressedSize(cur) + (Chunk.len - left)
        BY <3>3 DEF SinkInv, PosMatchesSink
      <4>2. sinkLen' = pos' + CompressedSize(cur)' + (Chunk.len - left)'
        BY <1>0, <2>1, <2>3, <2>4, <3>1, <3>2, <3>3, <4>1
      <4>3. QED
        BY <2>1, <3>3, <4>2 DEF PosMatchesSink
    <3>4. CASE pc # "entry_dd"
      <4>1. sinkLen = pos + (Chunk.len - left)
        BY <2>1, <3>4 DEF SinkInv, PosMatchesSink, WritePcs
      <4>2. sinkLen' = pos' + (Chunk.len - left)'
        BY <1>0, <2>1, <3>1, <3>2, <4>1
      <4>3. QED
        BY <2>1, <3>4, <4>2 DEF PosMatchesSink, WritePcs
    <3>5. QED
      BY <3>3, <3>4
  <2>6. InProgress' /\ RegisteredEntriesInSink' /\ HeadersOwned'
    BY <2>1 DEF SinkInv, InProgress, HeaderOf, RegisteredEntriesInSink, EntryInSink,
                HeadersOwned
  <2>7. QED
    BY <2>5, <2>6 DEF SinkInv
<1>4. ASSUME ChunkWritten
      PROVE  /\ Base \in Nat /\ Chunk.len \in Nat /\ sinkLen' = Base + Chunk.len
             /\ out' = out \cup {[off |-> Base, hdr |-> Chunk]} /\ out \subseteq out'
             /\ pc # "entry_dd" => Base = pos
  BY <1>4, Placed DEF SinkInv, Base
<1>5. ASSUME ChunkWritten, Chunk.rec # "lfh"
      PROVE  \A x \in out' : x.hdr.rec = "lfh" => x \in out
  BY <1>4, <1>5
<1>6. EntryDescriptor(cur).rec # "lfh"
  BY DEF EntryDescriptor, DataDescriptor
<1>7. CASE DirectoryHeaderWritten
  <2>1. /\ pc = "lfh" /\ cur.req.kind = "directory" /\ ChunkWritten
        /\ pos' = pos + Chunk.len /\ pc' = "idle" /\ cur \in EntryState
        /\ entries' = Append(entries, StoredEntry(cur))
    BY <1>0, <1>7 DEF DirectoryHeaderWritten, HandBack
  <2>2. Base = pos /\ sinkLen' = pos' /\ out \subseteq out'
        /\ out' = out \cup {[off |-> pos, hdr |-> HeaderOf(cur)]}
    BY <1>4, <2>1, ChunkIs DEF ChunkByPc, HeaderOf
  <2>3. PosMatchesSink' /\ InProgress'
    BY <2>1, <2>2 DEF PosMatchesSink, InProgress, EntryPcs
  <2>4. cur.offset = pos
    BY <2>1 DEF SinkInv, InProgress
  <2>5. RegisteredEntriesInSink'
    BY <1>0, <2>1, <2>2, <2>4, CurrentInSink, AddRegistered, RequestFacts DEF SinkInv
  <2>6. HeadersOwned'
    <3>1. SUFFICES ASSUME NEW x \in out', x.hdr.rec = "lfh"
                   PROVE  \E i \in 1..Len(entries') : entries'[i].offset = x.off
      BY DEF HeadersOwned
    <3>2. Len(entries') = Len(entries) + 1 /\ entries'[Len(entries) + 1].offset = pos
          /\ \A i \in 1..Len(entries) : entries'[i] = entries[i]
      BY <1>0, <2>1, <2>4, Registered DEF StoredEntry
    <3>3. CASE x.off = pos
      BY <1>0, <3>2, <3>3
    <3>4. CASE x \in out
      <4>1. \E i \in 1..Len(entries) : entries[i].offset = x.off
        BY <1>0, <2>1, <3>1, <3>4 DEF SinkInv, HeadersOwned, EntryPcs, WritePcs
      <4>2. QED
        BY <1>0, <3>2, <4>1
    <3>5. QED
      BY <2>2, <3>3, <3>4
  <2>7. QED
    BY <2>3, <2>5, <2>6 DEF SinkInv
(* The header of a file or a link is complete: its entry is in progress.   *)
<1>8. ASSUME pc = "lfh", ChunkWritten, pc' \in {"target", "entry"},
             UNCHANGED <<cur, entries>>, pos' = pos + Chunk.len, holder' # "zip",
             pc' = "target" => cur.req.kind # "file"
      PROVE  /\ InProgress' /\ RegisteredEntriesInSink' /\ HeadersOwned'
             /\ sinkLen' = pos'
  <2>1. /\ sinkLen' = pos' /\ out \subseteq out' /\ Chunk = HeaderOf(cur)
        /\ out' = out \cup {[off |-> pos, hdr |-> HeaderOf(cur)]} /\ cur.offset = pos
        /\ cur.req.kind # "file" => cur.stored
    BY <1>4, <1>8, ChunkIs DEF ChunkByPc, HeaderOf, SinkInv, InProgress
  <2>2. HeadersOwned'
    BY <1>0, <1>8, <2>1 DEF SinkInv, HeadersOwned, EntryPcs, WritePcs
  <2>3. RegisteredEntriesInSink'
    BY <1>8, <2>1, KeepRegistered DEF SinkInv
  <2>4. HeaderOf(cur)' = HeaderOf(cur)
    BY <1>8 DEF HeaderOf
  <2>5. [off |-> cur'.offset, hdr |-> HeaderOf(cur)'] \in out'
    BY <1>8, <2>1, <2>4
  <2>6. pos' = cur'.offset + HeaderOf(cur)'.len
    BY <1>8, <2>1, <2>4
  <2>7. pc' = "target" => cur'.stored
    BY <1>8, <2>1
  <2>8. InProgress'
    BY <1>8, <2>5, <2>6, <2>7 DEF InProgress, EntryPcs
  <2>9. QED
    BY <2>1, <2>2, <2>3, <2>8
<1>9. CASE LinkHeaderWritten
  <2>1. /\ pc = "lfh" /\ ChunkWritten /\ pc' = "target" /\ UNCHANGED <<cur, entries, holder>>
        /\ pos' = pos + Chunk.len /\ left' = cur.req.targetLen
        /\ cur.req.kind = "symlink"
    BY <1>9 DEF LinkHeaderWritten
  <2>2. left' = Chunk'.len
    BY <2>1, ChunkIsNext DEF ChunkByPc
  <2>3. /\ RegisteredEntriesInSink' /\ HeadersOwned' /\ sinkLen' = pos' /\ InProgress'
    BY <1>0, <1>8, <2>1 DEF WritePcs
  <2>4. QED
    BY <1>0, <2>1, <2>2, <2>3, NewChunk DEF SinkInv
<1>10. CASE FileHeaderWritten
  <2>1. /\ pc = "lfh" /\ ChunkWritten /\ pc' = "entry" /\ UNCHANGED <<cur, entries>>
        /\ pos' = pos + Chunk.len /\ holder' = "entry"
    BY <1>10 DEF FileHeaderWritten
  <2>2. /\ RegisteredEntriesInSink' /\ HeadersOwned' /\ sinkLen' = pos' /\ InProgress'
    BY <1>8, <2>1
  <2>3. CompressedSize(cur)' = 0
    BY <2>1 DEF CompressedSize, SinkInv, InProgress
  <2>4. PosMatchesSink'
    BY <1>0, <2>1, <2>2, <2>3 DEF PosMatchesSink
  <2>5. QED
    BY <2>2, <2>4 DEF SinkInv
<1>11. CASE TargetWritten
  <2>1. /\ pc = "target" /\ ChunkWritten /\ pc' = "dd" /\ UNCHANGED <<entries, holder>>
        /\ pos' = pos + cur.req.targetLen /\ left' = EntryDescriptor(cur').len
        /\ cur' = [cur EXCEPT !.usize = cur.req.targetLen, !.crc = cur.req.targetLen]
        /\ cur \in EntryState
    BY <1>0, <1>11 DEF TargetWritten, EntryPcs
  <2>2. cur'.usize = cur.req.targetLen /\ cur'.offset = cur.offset /\ cur'.req = cur.req
        /\ cur'.stored = cur.stored /\ HeaderOf(cur)' = HeaderOf(cur)
    BY <2>1 DEF EntryState, HeaderOf
  <2>3. Chunk.len = cur.req.targetLen /\ Chunk.rec # "lfh" /\ left' = Chunk'.len
    BY <2>1, ChunkIs, ChunkIsNext DEF ChunkByPc
  <2>4. sinkLen' = pos' /\ out \subseteq out'
    BY <1>4, <2>1, <2>3
  <2>5. PosMatchesSink'
    BY <1>0, <2>1, <2>3, <2>4, NewChunk
  <2>6. InProgress'
    BY <2>1, <2>2, <2>4 DEF SinkInv, InProgress, EntryPcs
  <2>7. RegisteredEntriesInSink' /\ HeadersOwned'
    BY <1>0, <1>5, <2>1, <2>2, <2>3, <2>4, KeepRegistered, KeepOwned
       DEF SinkInv, EntryPcs
  <2>8. QED
    BY <2>5, <2>6, <2>7 DEF SinkInv
(* A descriptor is complete: the entry it ends is registered.              *)
<1>12. ASSUME pc \in {"dd", "entry_dd"}, ChunkWritten, pc' = "idle",
              pos' = Base + Chunk.len, entries' = Append(entries, StoredEntry(cur))
       PROVE  SinkInv'
  <2>1. /\ cur \in EntryState /\ Chunk = EntryDescriptor(cur)
        /\ sinkLen' = pos' /\ out \subseteq out'
        /\ out' = out \cup {[off |-> Base, hdr |-> EntryDescriptor(cur)]}
    BY <1>0, <1>4, <1>12, ChunkIs DEF ChunkByPc, EntryPcs
  <2>2. Base = cur.offset + HeaderOf(cur).len + CompressedSize(cur)
        /\ [off |-> cur.offset, hdr |-> HeaderOf(cur)] \in out
    BY <1>12 DEF SinkInv, InProgress, EntryPcs, Base, CompressedSize
  <2>3. PosMatchesSink' /\ InProgress'
    BY <1>12, <2>1 DEF PosMatchesSink, InProgress, EntryPcs
  <2>4. StoredEntry(cur) \in StoredEntries /\ StoredEntry(cur).offset = cur.offset
    BY <2>1, RequestFacts DEF StoredEntry
  <2>5. RegisteredEntriesInSink'
    BY <1>0, <1>12, <2>1, <2>2, <2>4, CurrentInSink, AddRegistered DEF SinkInv
  <2>6. \E i \in 1..Len(entries') : entries'[i].offset = cur.offset
    BY <1>0, <1>12, <2>1, <2>4, Registered
  <2>7. HeadersOwned'
    BY <1>0, <1>5, <1>6, <1>12, <2>1, <2>6, KeepOwned DEF SinkInv, WritePcs
  <2>8. QED
    BY <2>3, <2>5, <2>7 DEF SinkInv
<1>13. CASE LinkDescriptorWritten
  <2>1. pc = "dd" /\ ChunkWritten /\ pc' = "idle" /\ pos' = pos + Chunk.len
        /\ entries' = Append(entries, StoredEntry(cur))
    BY <1>13 DEF LinkDescriptorWritten, HandBack
  <2>2. QED
    BY <1>12, <2>1 DEF Base
<1>14. CASE EntryDescriptorWritten
  <2>1. pc = "entry_dd" /\ ChunkWritten /\ pc' = "idle"
        /\ pos' = pos + CompressedSize(cur) + Chunk.len
        /\ entries' = Append(entries, StoredEntry(cur))
    BY <1>14 DEF EntryDescriptorWritten, HandBack
  <2>2. QED
    BY <1>12, <2>1 DEF Base
(* The entry takes data, which the sink receives at once or compressed.    *)
<1>15. ASSUME pc \in {"entry", "encoder"}, cur' \in EntryState,
              UNCHANGED <<pos, entries, pc, holder, out>>,
              cur'.req = cur.req /\ cur'.offset = cur.offset /\ cur'.stored = cur.stored,
              sinkLen' - sinkLen = CompressedSize(cur') - CompressedSize(cur)
       PROVE  SinkInv'
  <2>1. cur \in EntryState /\ CompressedSize(cur) \in Nat /\ CompressedSize(cur') \in Nat
        /\ sinkLen' \in Nat
    BY <1>0, <1>15, RequestFacts DEF EntryPcs, Bookkeeping, TypeOK
  <2>2. sinkLen = pos + CompressedSize(cur)
    BY <1>15 DEF SinkInv, PosMatchesSink
  <2>3. sinkLen' = pos' + CompressedSize(cur')
    <3>1. pos \in Nat /\ sinkLen \in Nat /\ pos' = pos
      BY <1>0, <1>15 DEF Bookkeeping, TypeOK
    <3>2. \A x, y, z, d, e \in Nat : x - y = e - d /\ y = z + d => x = z + e
      OBVIOUS
    <3>3. sinkLen' = pos + CompressedSize(cur')
      BY <1>15, <2>1, <2>2, <3>1, <3>2
    <3>4. QED
      BY <3>1, <3>3
  <2>4. PosMatchesSink'
    BY <1>15, <2>3 DEF PosMatchesSink
  <2>5. HeaderOf(cur)' = HeaderOf(cur)
    BY <1>15 DEF HeaderOf
  <2>6. InProgress'
    BY <1>15, <2>5 DEF SinkInv, InProgress, EntryPcs
  <2>7. RegisteredEntriesInSink' /\ HeadersOwned'
    BY <1>0, <1>15, KeepRegistered, KeepOwned DEF SinkInv
  <2>8. QED
    BY <2>4, <2>6, <2>7 DEF SinkInv
<1>16. ASSUME NEW m \in WriteSizes, NEW n \in WriteSizes, PollWrite(m, n)
       PROVE  SinkInv'
  <2>1. /\ pc = "entry" /\ cur \in EntryState /\ n \in Nat
        /\ cur' = [cur EXCEPT !.usize = cur.usize + n, !.crc = cur.crc + n]
        /\ sinkLen' = IF cur.stored THEN sinkLen + n ELSE sinkLen
        /\ UNCHANGED <<pos, entries, pc, holder, out>>
    BY <1>0, <1>16, RequestFacts DEF PollWrite, zipVars, EntryPcs
  <2>2. cur'.usize = cur.usize + n /\ cur'.written = cur.written /\ cur.usize \in Nat
        /\ cur.written \in Nat
        /\ cur'.req = cur.req /\ cur'.offset = cur.offset /\ cur'.stored = cur.stored
    BY <2>1 DEF EntryState
  <2>3. sinkLen' - sinkLen = CompressedSize(cur') - CompressedSize(cur)
    BY <1>0, <2>1, <2>2 DEF CompressedSize
  <2>4. cur' \in EntryState
    BY <2>1 DEF Bookkeeping, TypeOK
  <2>5. QED
    BY <1>15, <2>1, <2>2, <2>3, <2>4
<1>17. ASSUME NEW n \in DrainSizes, EncoderDrain(n) PROVE SinkInv'
  <2>1. /\ pc \in {"entry", "encoder"} /\ cur \in EntryState /\ n \in Nat /\ ~cur.stored
        /\ cur' = [cur EXCEPT !.written = cur.written + n]
        /\ sinkLen' = sinkLen + n
        /\ UNCHANGED <<pos, entries, pc, holder, out>>
    BY <1>0, <1>17, RequestFacts DEF EncoderDrain, zipVars, EntryPcs
  <2>2. cur'.written = cur.written + n /\ cur.written \in Nat
        /\ cur'.req = cur.req /\ cur'.offset = cur.offset /\ cur'.stored = cur.stored
    BY <2>1 DEF EntryState
  <2>3. sinkLen' - sinkLen = CompressedSize(cur') - CompressedSize(cur)
    BY <1>0, <2>1, <2>2 DEF CompressedSize
  <2>4. cur' \in EntryState
    BY <2>1 DEF Bookkeeping, TypeOK, EntryOpPcs
  <2>5. QED
    BY <1>15, <2>1, <2>2, <2>3, <2>4
<1>18. CASE EntryShutdown
  <2>1. /\ pc \in {"entry", "encoder"} /\ cur \in EntryState
        /\ cur' = cur \/ cur' = [cur EXCEPT !.closed = TRUE]
        /\ UNCHANGED <<pos, entries, pc, holder, out, sinkLen>>
    BY <1>0, <1>18 DEF EntryShutdown, zipVars, sinkVars, EntryPcs
  <2>2. cur'.usize = cur.usize /\ cur'.written = cur.written /\ cur' \in EntryState
        /\ cur'.req = cur.req /\ cur'.offset = cur.offset /\ cur'.stored = cur.stored
    BY <2>1 DEF EntryState
  <2>3. CompressedSize(cur') = CompressedSize(cur) /\ CompressedSize(cur) \in Nat
    BY <2>1, <2>2, RequestFacts DEF CompressedSize
  <2>4. QED
    BY <1>0, <1>15, <2>1, <2>2, <2>3
(* EntryWriter::finish moves on without writing.                           *)
<1>19. CASE FinishEntry \/ EncoderFinished
  <2>1. /\ pc \in {"entry", "encoder"} /\ pc' \in {"encoder", "entry_dd"}
        /\ UNCHANGED <<pos, entries, cur, out, sinkLen>> /\ cur \in EntryState
        /\ pc' = "entry_dd" => left' = EntryDescriptor(cur).len
    BY <1>0, <1>19 DEF FinishEntry, EncoderFinished, zipVars, sinkVars, EntryPcs
  <2>2. sinkLen' = pos' + CompressedSize(cur)' /\ CompressedSize(cur) \in Nat
    BY <2>1, RequestFacts DEF SinkInv, PosMatchesSink, CompressedSize
  <2>3. pc' = "entry_dd" => left' = Chunk'.len
    BY <2>1, ChunkIsNext DEF ChunkByPc
  <2>4. PosMatchesSink'
    BY <1>0, <2>1, <2>2, <2>3 DEF PosMatchesSink
  <2>5. InProgress'
    BY <2>1 DEF SinkInv, InProgress, EntryPcs, HeaderOf
  <2>6. RegisteredEntriesInSink' /\ HeadersOwned'
    BY <1>0, <2>1, KeepRegistered, KeepOwned DEF SinkInv, EntryPcs, WritePcs
  <2>7. QED
    BY <2>4, <2>5, <2>6 DEF SinkInv
<1>20. CASE DropEntry \/ LeakEntry \/ Fail \/ Cancel
  <2>1. /\ UNCHANGED <<out, sinkLen, pos, entries>> /\ pc' = "idle"
        /\ holder' \in {"dropped", "leaked"} /\ holder \in {"op", "entry"} /\ pc # "gone"
    BY <1>0, <1>20
       DEF DropEntry, LeakEntry, Fail, Cancel, sinkVars, EntryOpPcs, WritePcs
  <2>2. QED
    BY <2>1, SinkQuiet
<1>21. CASE FinishRefused \/ Abort \/ FailFinish \/ CancelFinish
  <2>1. /\ UNCHANGED <<out, sinkLen, pos, entries>> /\ pc' = "gone"
        /\ pc \in FinishPcs \cup {"idle"}
    BY <1>21 DEF FinishRefused, Abort, FailFinish, CancelFinish, Gone, sinkVars
  <2>2. QED
    BY <2>1, SinkQuiet DEF EntryPcs, FinishPcs
<1>22. CASE Finish
  <2>1. /\ pc = "idle" /\ holder = "zip" /\ UNCHANGED <<out, sinkLen, pos, entries, comment>>
        /\ NextRecord(pos, 0, pos)
    BY <1>22 DEF Finish, TakeInner, sinkVars
  <2>2. pc' \in {"cd", "eocdr64", "eocdr"}
    BY <2>1 DEF NextRecord
  <2>3. left' = Chunk'.len
    BY <1>0, <2>1, NextRecordChunk
  <2>4. sinkLen' = pos'
    BY <2>1 DEF SinkInv, PosMatchesSink
  <2>5. PosMatchesSink'
    BY <1>0, <2>2, <2>3, <2>4, NewChunk
  <2>6. InProgress' /\ RegisteredEntriesInSink' /\ HeadersOwned'
    BY <1>0, <2>1, <2>2, KeepRegistered, KeepOwned DEF SinkInv, InProgress, EntryPcs
  <2>7. QED
    BY <2>5, <2>6 DEF SinkInv
(* A record of finish other than the last is complete.                     *)
<1>23. ASSUME pc \in {"cd", "eocdr64", "locator"}, ChunkWritten, pos' = pos + Chunk.len,
              pc' \in {"cd", "eocdr64", "locator", "eocdr"}, left' = Chunk'.len,
              UNCHANGED <<entries, holder>>
       PROVE  SinkInv'
  <2>1. sinkLen' = pos' /\ out \subseteq out' /\ Chunk.rec # "lfh"
    BY <1>4, <1>23, ChunkIs
       DEF ChunkByPc, CentralDirEntry, Zip64Eocdr, Zip64EocdrLocator
  <2>2. PosMatchesSink'
    BY <1>0, <1>23, <2>1, NewChunk
  <2>3. InProgress' /\ RegisteredEntriesInSink' /\ HeadersOwned'
    BY <1>0, <1>5, <1>23, <2>1, KeepRegistered, KeepOwned DEF SinkInv, InProgress, EntryPcs
  <2>4. QED
    BY <2>2, <2>3 DEF SinkInv
<1>24. CASE CentralEntryWritten
  <2>1. /\ pc = "cd" /\ ChunkWritten /\ pos' = pos + Chunk.len
        /\ UNCHANGED <<entries, holder, comment>>
        /\ NextRecord(fin.cdOffset, fin.listed + 1, pos')
    BY <1>24 DEF CentralEntryWritten
  <2>2. fin.cdOffset \in Nat /\ fin.listed + 1 \in Nat
    BY DEF Bookkeeping, TypeOK
  <2>3. left' = Chunk'.len
    BY <1>0, <2>1, <2>2, NextRecordChunk
  <2>4. pc' \in {"cd", "eocdr64", "eocdr"}
    BY <2>1 DEF NextRecord
  <2>5. QED
    BY <1>23, <2>1, <2>3, <2>4
<1>25. CASE Eocdr64Written \/ LocatorWritten
  <2>1. /\ pc \in {"eocdr64", "locator"} /\ ChunkWritten /\ pos' = pos + Chunk.len
        /\ UNCHANGED <<entries, holder, comment, fin>> /\ pc' \in {"locator", "eocdr"}
    BY <1>25 DEF Eocdr64Written, LocatorWritten
  <2>2. left' = Chunk'.len
    BY <1>25, <2>1, ChunkIsNext DEF ChunkByPc, Eocdr64Written, LocatorWritten
  <2>3. QED
    BY <1>23, <2>1, <2>2
<1>26. CASE EocdrWritten
  <2>1. pc = "eocdr" /\ ChunkWritten /\ pc' = "shutdown" /\ UNCHANGED <<entries, holder>>
    BY <1>26 DEF EocdrWritten, zipVars
  <2>2. out \subseteq out' /\ Chunk.rec # "lfh"
    BY <1>4, <2>1, ChunkIs DEF ChunkByPc, Eocdr
  <2>3. PosMatchesSink' /\ InProgress'
    BY <2>1 DEF PosMatchesSink, InProgress, EntryPcs
  <2>4. RegisteredEntriesInSink' /\ HeadersOwned'
    BY <1>0, <1>5, <2>1, <2>2, KeepRegistered, KeepOwned DEF SinkInv, EntryPcs
  <2>5. QED
    BY <2>3, <2>4 DEF SinkInv
<1>27. CASE ShutdownDone
  <2>1. /\ UNCHANGED <<out, sinkLen, pos, entries>> /\ pc' = "done" /\ pc = "shutdown"
        /\ holder = "op"
    BY <1>0, <1>27 DEF ShutdownDone, sinkVars
  <2>2. QED
    BY <2>1, SinkQuiet DEF EntryPcs
<1>28. CASE UNCHANGED vars
  BY <1>28 DEF vars, zipVars, opVars, sinkVars, SinkInv, PosMatchesSink, InProgress,
               RegisteredEntriesInSink, HeadersOwned, EntryInSink, Chunk,
               CompressedSize, HeaderOf
<1>29. QED
  BY <1>a, <1>1, <1>2, <1>3, <1>7, <1>9, <1>10, <1>11, <1>13, <1>14, <1>16, <1>17, <1>18,
     <1>19, <1>20, <1>21, <1>22, <1>24, <1>25, <1>26, <1>27, <1>28
     DEF Next

THEOREM SinkAlways == Spec => [](Bookkeeping /\ SinkInv)
<1>1. Init => Bookkeeping /\ SinkInv
  BY BookkeepingInit, SinkInit
<1>2. Bookkeeping /\ SinkInv /\ [Next]_vars => (Bookkeeping /\ SinkInv)'
  BY BookkeepingStep, SinkStep
<1>3. QED
  BY <1>1, <1>2, PTL DEF Spec

(* `pos` is the length of the sink, in every archive.                      *)
THEOREM PositionExact == Spec => []PosMatchesSink
<1>1. SinkInv => PosMatchesSink
  BY DEF SinkInv
<1>2. QED
  BY <1>1, SinkAlways, PTL

(* Every registered entry's header and descriptor are where it says.       *)
THEOREM EntriesInSink == Spec => []RegisteredEntriesInSink
<1>1. SinkInv => RegisteredEntriesInSink
  BY DEF SinkInv
<1>2. QED
  BY <1>1, SinkAlways, PTL

(* No entry is left torn in an archive that can still be used.             *)
THEOREM NothingTorn == Spec => []NoTornEntry
<1>1. Bookkeeping /\ SinkInv => NoTornEntry
  BY DEF SinkInv, HeadersOwned, NoTornEntry, EntryPcs, Bookkeeping, Custody
<1>2. QED
  BY <1>1, SinkAlways, PTL
-----------------------------------------------------------------------------
(* What has been hashed of the entry under construction is what counts as  *)
(* its size.                                                               *)
ChecksumInv ==
  /\ pc \in EntryOpPcs \cup {"entry"} => cur.crc = cur.usize
  /\ ChecksumCoversData

LEMMA ChecksumStep == Bookkeeping /\ ChecksumInv /\ [Next]_vars => ChecksumInv'
<1> SUFFICES ASSUME Bookkeeping, ChecksumInv, [Next]_vars PROVE ChecksumInv'
  OBVIOUS
<1>0. /\ entries \in Seq(StoredEntries)
      /\ pc \in EntryOpPcs \cup {"entry"} => cur \in EntryState /\ cur.crc = cur.usize
  BY DEF Bookkeeping, TypeOK, ChecksumInv
<1>1. ASSUME UNCHANGED <<entries, cur>>,
             pc' \in EntryOpPcs \cup {"entry"} => pc \in EntryOpPcs \cup {"entry"}
      PROVE  ChecksumInv'
  BY <1>1 DEF ChecksumInv, ChecksumCoversData
(* An entry is registered with the checksum and the size it has.           *)
<1>2. ASSUME pc \in EntryOpPcs, entries' = Append(entries, StoredEntry(cur)), pc' = "idle"
      PROVE  ChecksumInv'
  <2>1. cur.crc = cur.usize /\ cur \in EntryState
    BY <1>0, <1>2
  <2>2. /\ StoredEntry(cur).crc = StoredEntry(cur).usize
        /\ StoredEntry(cur).stored => StoredEntry(cur).csize = StoredEntry(cur).usize
    BY <2>1 DEF StoredEntry, CompressedSize, EntryState
  <2>3. ASSUME NEW i \in 1..Len(entries')
        PROVE  /\ entries'[i].crc = entries'[i].usize
               /\ entries'[i].stored => entries'[i].csize = entries'[i].usize
    <3>1. CASE i \in 1..Len(entries)
      BY <1>0, <1>2, <2>1, <3>1, Registered DEF ChecksumInv, ChecksumCoversData
    <3>2. CASE i = Len(entries) + 1
      BY <1>0, <1>2, <2>1, <2>2, <3>2, Registered
    <3>3. QED
      BY <1>0, <1>2, <2>1, <2>3, <3>1, <3>2, Registered
  <2>4. QED
    BY <1>2, <2>3 DEF ChecksumInv, ChecksumCoversData, EntryOpPcs
<1>3. CASE DirectoryHeaderWritten \/ LinkDescriptorWritten \/ EntryDescriptorWritten
  BY <1>2, <1>3 DEF DirectoryHeaderWritten, LinkDescriptorWritten,
                    EntryDescriptorWritten, HandBack, EntryOpPcs
(* The steps that change the entry under construction.                     *)
<1>4. ASSUME UNCHANGED entries, cur'.crc = cur'.usize PROVE ChecksumInv'
  BY <1>4 DEF ChecksumInv, ChecksumCoversData
<1>5. ASSUME NEW r \in Requests, StartEntry(r) PROVE ChecksumInv'
  BY <1>4, <1>5 DEF StartEntry, NewEntry
<1>6. CASE TargetWritten
  BY <1>0, <1>4, <1>6 DEF TargetWritten, EntryOpPcs, EntryState
<1>7. ASSUME NEW m \in WriteSizes, NEW n \in WriteSizes, PollWrite(m, n)
      PROVE  ChecksumInv'
  BY <1>0, <1>4, <1>7, RequestFacts DEF PollWrite, zipVars, EntryState, ChecksumInv
<1>8. CASE EntryShutdown \/ \E n \in DrainSizes : EncoderDrain(n)
  <2>1. /\ UNCHANGED entries /\ cur \in EntryState /\ cur.crc = cur.usize
        /\ \/ cur' = cur \/ cur' = [cur EXCEPT !.closed = TRUE]
           \/ \E n \in DrainSizes : cur' = [cur EXCEPT !.written = cur.written + n]
    BY <1>0, <1>8 DEF EntryShutdown, EncoderDrain, zipVars, EntryOpPcs
  <2>2. cur'.crc = cur'.usize
    BY <2>1 DEF EntryState
  <2>3. QED
    BY <1>4, <2>1, <2>2
(* The others leave the entry and the list alone, or end the entry.        *)
<1>9. ASSUME UNCHANGED entries, pc' \notin EntryOpPcs \cup {"entry"} PROVE ChecksumInv'
  BY <1>9 DEF ChecksumInv, ChecksumCoversData
<1>10. ASSUME NEW r \in Requests, RefuseInput(r) \/ RefuseStart(r) PROVE ChecksumInv'
  BY <1>1, <1>10 DEF RefuseInput, RefuseStart, Refuse, zipVars
<1>11. CASE WithCompressionLevel \/ WithComment
  BY <1>1, <1>11 DEF WithCompressionLevel, WithComment, opVars
<1>12. CASE (\E n \in ShortWrites : WriteShort(n)) \/ LinkHeaderWritten \/ FileHeaderWritten
            \/ FinishEntry \/ EncoderFinished
  BY <1>1, <1>12 DEF WriteShort, LinkHeaderWritten, FileHeaderWritten, FinishEntry,
                     EncoderFinished, zipVars, EntryOpPcs
<1>13. CASE DropEntry \/ LeakEntry \/ Fail \/ Cancel
  BY <1>9, <1>13 DEF DropEntry, LeakEntry, Fail, Cancel, EntryOpPcs
<1>14. CASE FinishRefused \/ Finish \/ CentralEntryWritten \/ Eocdr64Written \/ LocatorWritten
            \/ EocdrWritten \/ ShutdownDone \/ FailFinish \/ CancelFinish \/ Abort
  BY <1>9, <1>14 DEF FinishRefused, Finish, CentralEntryWritten, Eocdr64Written,
                     LocatorWritten, EocdrWritten, ShutdownDone, FailFinish, CancelFinish,
                     Abort, Gone, NextRecord, EntryOpPcs, zipVars
<1>15. CASE UNCHANGED vars
  BY <1>1, <1>15 DEF vars, zipVars, opVars
<1>16. QED
  BY <1>3, <1>5, <1>6, <1>7, <1>8, <1>10, <1>11, <1>12, <1>13, <1>14, <1>15 DEF Next

(* Every registered entry's checksum and size cover the same bytes, those  *)
(* its poll_write calls accepted, however the writes were cut.             *)
THEOREM ChecksumExact == Spec => []ChecksumCoversData
<1>1. Init => ChecksumInv
  BY DEF Init, ChecksumInv, ChecksumCoversData, EntryOpPcs
<1>2. ChecksumInv => ChecksumCoversData
  BY DEF ChecksumInv
<1>3. QED
  BY <1>1, <1>2, BookkeepingAlways, ChecksumStep, PTL DEF Spec
=============================================================================
