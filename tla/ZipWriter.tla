----------------------------- MODULE ZipWriter -----------------------------
(***************************************************************************)
(* ZipWriter and EntryWriter of src/src/writer: how the one sink of an     *)
(* archive moves between the ZipWriter, an operation in progress and an    *)
(* entry under construction, and what ends up in the sink.                 *)
(*                                                                         *)
(* A step is what one operation does between two awaits: every write_all   *)
(* may be cut into short writes, fail, or be cancelled by dropping the     *)
(* future.  ZipWriter and EntryWriter share their state by `&mut`, so one  *)
(* operation runs at a time.  The sink is the list of complete records it  *)
(* holds, each at the offset its first byte landed on; positions the code  *)
(* records (pos, offsets) are counted by the code, apart from sinkLen.     *)
(* The compressor decides how many bytes an entry takes: see               *)
(* DeflateEncoder for the encoder itself.                                  *)
(***************************************************************************)
EXTENDS ZipReader

CONSTANTS
  Requests,     \* what callers ask for: a set of RequestType
  CommentLens,  \* lengths of the comments with_comment is called with
  ShortWrites,  \* sizes of a write the sink accepts only in part
  WriteSizes,   \* bytes a poll_write of an entry is offered, and accepts
  DrainSizes,   \* compressed bytes the sink accepts from the encoder at once
  MaxEntries,   \* bound: entries of an archive
  MaxData       \* bound: bytes of an entry, before and after compression

ASSUME WriterAssumption ==
  /\ Requests \subseteq RequestType
  /\ CommentLens \subseteq Nat
  /\ ShortWrites \subseteq Nat \ {0}
  /\ WriteSizes \subseteq Nat \ {0}
  /\ DrainSizes \subseteq Nat \ {0}
  /\ MaxEntries \in Nat /\ MaxData \in Nat

VARIABLES
  stored,      \* level is CompressionLevel::none
  comment,     \* length of the archive comment
  holder,      \* who owns the sink; ZipWriter.inner is Some iff it is "zip"
  poisoned,    \* ZipWriter.poisoned
  pos,         \* ZipWriter.pos
  entries,     \* ZipWriter.entries
  pc,          \* the await the running operation is at; "idle" between calls
  cur,         \* the entry under construction (EntryWriter, or locals)
  left,        \* bytes of Chunk the sink has not accepted
  fin,         \* locals of finish
  out,         \* complete records in the sink
  sinkLen,     \* bytes the sink has accepted
  sinkOpen,    \* the sink has not been shut down
  ret          \* result of the last operation that returned

zipVars  == <<stored, comment, holder, poisoned, pos, entries>>
opVars   == <<pc, cur, left, fin, ret>>
sinkVars == <<out, sinkLen, sinkOpen>>
vars     == <<zipVars, opVars, sinkVars>>

NoEntry == <<>>
NoFin   == [cdOffset |-> 0, cdSize |-> 0, listed |-> 0, eocdr64Offset |-> 0]

FinishPcs == {"cd", "eocdr64", "locator", "eocdr", "shutdown"}
WritePcs  == {"lfh", "target", "dd", "entry_dd", "cd", "eocdr64", "locator", "eocdr"}
Pcs       == {"idle", "entry", "encoder", "done", "gone"} \cup FinishPcs \cup WritePcs
Results   == {"none", "Ok", "Io", "Poisoned", "WriterBusy", "InvalidInput", "FieldTooLong"}
-----------------------------------------------------------------------------
CompressedSize(c) == IF c.stored THEN c.usize ELSE c.written

EntryDescriptor(c) == DataDescriptor(c.crc, CompressedSize(c), c.usize)

(* The bytes a write_all is writing: the scratch buffer, or the target.    *)
Chunk ==
  CASE pc = "lfh"                -> LocalFileHeader(cur.req, cur.stored)
    [] pc = "target"             -> [rec |-> "data", len |-> cur.req.targetLen]
    [] pc \in {"dd", "entry_dd"} -> EntryDescriptor(cur)
    [] pc = "cd"                 -> CentralDirEntry(entries[fin.listed + 1])
    [] pc = "eocdr64" -> Zip64Eocdr(Len(entries), fin.cdSize, fin.cdOffset)
    [] pc = "locator" -> Zip64EocdrLocator(fin.eocdr64Offset)
    [] pc = "eocdr"   -> Eocdr(Len(entries), fin.cdSize, fin.cdOffset, comment)

(* The last bytes of the chunk reach the sink and complete the record.     *)
ChunkWritten ==
  /\ pc \in WritePcs
  /\ sinkLen' = sinkLen + left
  /\ out' = out \cup {[off |-> sinkLen + left - Chunk.len, hdr |-> Chunk]}
  /\ UNCHANGED sinkOpen

(* Fault: the two sizes are exchanged.                                     *)
StoredEntrySwapped(c) ==
  [req |-> c.req, offset |-> c.offset, stored |-> c.stored, crc |-> c.crc,
   csize |-> c.usize, usize |-> CompressedSize(c)]

(* StoredEntry: what the central directory will need of entry c.           *)
StoredEntry(c) ==
  [req |-> c.req, offset |-> c.offset, stored |-> c.stored, crc |-> c.crc,
   csize |-> CompressedSize(c), usize |-> c.usize]

TakeError == IF poisoned THEN "Poisoned" ELSE "WriterBusy"

(* Fault: the flag is left to the code that notices a failure.             *)
TakeInnerUnmarked == holder = "zip" /\ UNCHANGED poisoned

TakeInner == holder = "zip" /\ poisoned' = TRUE

(* The operation ends well: the sink is handed back and the flag cleared.  *)
HandBack ==
  /\ holder' = "zip" /\ poisoned' = FALSE
  /\ pc' = "idle" /\ cur' = NoEntry /\ left' = 0 /\ ret' = "Ok"

(* The operation returns without having touched the writer.                *)
Refuse(error) ==
  /\ ret' = error
  /\ UNCHANGED <<zipVars, sinkVars, pc, cur, left, fin>>

(* ZipWriter::new: the default level compresses, there is no comment.      *)
Init ==
  /\ stored = FALSE /\ comment = 0
  /\ holder = "zip" /\ poisoned = FALSE
  /\ pos = 0 /\ entries = <<>>
  /\ pc = "idle" /\ cur = NoEntry /\ left = 0 /\ fin = NoFin /\ ret = "none"
  /\ out = {} /\ sinkLen = 0 /\ sinkOpen = TRUE

(* The builders take and return the writer; nothing makes their caller use *)
(* them before the first entry only.                                       *)
WithCompressionLevel ==
  /\ pc = "idle" /\ stored' \in BOOLEAN
  /\ UNCHANGED <<comment, holder, poisoned, pos, entries, opVars, sinkVars>>

WithComment ==
  /\ pc = "idle" /\ comment' \in CommentLens
  /\ UNCHANGED <<stored, holder, poisoned, pos, entries, opVars, sinkVars>>
-----------------------------------------------------------------------------
(* start_file, add_directory, add_symlink up to their first await;         *)
(* add_file and add_reader start a file entry in the same way.  The checks *)
(* of names, comments and targets are folded into `sane` and the lengths:  *)
(* a request that is wrong in two ways may be refused for either.          *)

FieldTooLong(r) == r.nameLen > MaxFieldLen \/ r.commentLen > MaxFieldLen

Malformed(r) == ~r.sane \/ r.nameLen = 0 \/ (r.kind = "symlink" /\ r.targetLen = 0)

(* The last disjunct is add_file: the path is not a regular file, or it    *)
(* cannot be examined or opened.                                           *)
RefuseInput(r) ==
  /\ pc = "idle"
  /\ \/ Malformed(r) /\ Refuse("InvalidInput")
     \/ FieldTooLong(r) /\ Refuse("FieldTooLong")
     \/ r.kind = "file" /\ (Refuse("InvalidInput") \/ Refuse("Io"))

Accepted(r) == ~Malformed(r) /\ ~FieldTooLong(r)

RefuseStart(r) ==
  /\ pc = "idle" /\ Accepted(r)
  /\ holder # "zip" /\ Refuse(TakeError)

NewEntry(r) ==
  [req |-> r, offset |-> pos, usize |-> 0, crc |-> 0, written |-> 0,
   closed |-> FALSE, stored |-> r.kind # "file" \/ stored]

StartEntry(r) ==
  /\ pc = "idle" /\ Accepted(r) /\ Len(entries) < MaxEntries
  /\ TakeInner /\ holder' = "op"
  /\ pc' = "lfh" /\ cur' = NewEntry(r) /\ ret' = "none"
  /\ left' = LocalFileHeader(r, cur'.stored).len
  /\ UNCHANGED <<stored, comment, pos, entries, fin, sinkVars>>

(* Fault: a short write is counted without looking at what was left.       *)
WriteShortUnguarded(n) ==
  /\ pc \in WritePcs
  /\ left' = left - n /\ sinkLen' = sinkLen + n
  /\ UNCHANGED <<zipVars, pc, cur, fin, ret, out, sinkOpen>>

(* A sink that takes n bytes of a write_all and then keeps it waiting.     *)
WriteShort(n) ==
  /\ pc \in WritePcs /\ n < left
  /\ left' = left - n /\ sinkLen' = sinkLen + n
  /\ UNCHANGED <<zipVars, pc, cur, fin, ret, out, sinkOpen>>
-----------------------------------------------------------------------------
(* The rest of add_directory and add_symlink.                              *)

DirectoryHeaderWritten ==
  /\ pc = "lfh" /\ cur.req.kind = "directory" /\ ChunkWritten
  /\ pos' = pos + Chunk.len
  /\ entries' = Append(entries, StoredEntry(cur))
  /\ HandBack
  /\ UNCHANGED <<stored, comment, fin>>

LinkHeaderWritten ==
  /\ pc = "lfh" /\ cur.req.kind = "symlink" /\ ChunkWritten
  /\ pos' = pos + Chunk.len
  /\ pc' = "target" /\ left' = cur.req.targetLen
  /\ UNCHANGED <<stored, comment, holder, poisoned, entries, cur, fin, ret>>

(* Fault: the target's bytes are not counted.                              *)
TargetWrittenUncounted ==
  /\ pc = "target" /\ ChunkWritten
  /\ cur' = [cur EXCEPT !.usize = cur.req.targetLen, !.crc = cur.req.targetLen]
  /\ pc' = "dd" /\ left' = EntryDescriptor(cur').len
  /\ UNCHANGED <<stored, comment, holder, poisoned, pos, entries, fin, ret>>

TargetWritten ==
  /\ pc = "target" /\ ChunkWritten
  /\ pos' = pos + cur.req.targetLen
  /\ cur' = [cur EXCEPT !.usize = cur.req.targetLen, !.crc = cur.req.targetLen]
  /\ pc' = "dd" /\ left' = EntryDescriptor(cur').len
  /\ UNCHANGED <<stored, comment, holder, poisoned, entries, fin, ret>>

LinkDescriptorWritten ==
  /\ pc = "dd" /\ ChunkWritten
  /\ pos' = pos + Chunk.len
  /\ entries' = Append(entries, StoredEntry(cur))
  /\ HandBack
  /\ UNCHANGED <<stored, comment, fin>>
-----------------------------------------------------------------------------
(* start_file returns an EntryWriter; its caller writes, flushes, shuts    *)
(* down, finishes, drops or leaks it.                                      *)

FileHeaderWritten ==
  /\ pc = "lfh" /\ cur.req.kind = "file" /\ ChunkWritten
  /\ pos' = pos + Chunk.len
  /\ pc' = "entry" /\ left' = 0 /\ holder' = "entry" /\ ret' = "Ok"
  /\ UNCHANGED <<stored, comment, poisoned, entries, cur, fin>>

(* Fault: the whole buffer is hashed, whatever was accepted of it.         *)
PollWriteHashesBuffer(offered, n) ==
  /\ pc = "entry" /\ ~cur.closed /\ n <= offered /\ cur.usize + n <= MaxData
  /\ cur' = [cur EXCEPT !.usize = @ + n, !.crc = @ + offered]
  /\ sinkLen' = IF cur.stored THEN sinkLen + n ELSE sinkLen
  /\ UNCHANGED <<zipVars, pc, left, fin, ret, out, sinkOpen>>

(* EntryWriter::poll_write is offered a buffer, of which n bytes are taken *)
(* and hashed: a stored entry passes them to the sink, a deflated one to   *)
(* the compressor, until it is shut down.                                  *)
PollWrite(offered, n) ==
  /\ pc = "entry" /\ ~cur.closed /\ n <= offered /\ cur.usize + n <= MaxData
  /\ cur' = [cur EXCEPT !.usize = @ + n, !.crc = @ + n]
  /\ sinkLen' = IF cur.stored THEN sinkLen + n ELSE sinkLen
  /\ UNCHANGED <<zipVars, pc, left, fin, ret, out, sinkOpen>>

(* The sink accepts n bytes of the encoder's output, during a poll_write,  *)
(* a poll_flush or a poll_shutdown.                                        *)
EncoderDrain(n) ==
  /\ pc \in {"entry", "encoder"} /\ ~cur.stored /\ ~cur.closed
  /\ cur.written + n <= MaxData
  /\ cur' = [cur EXCEPT !.written = @ + n]
  /\ sinkLen' = sinkLen + n
  /\ UNCHANGED <<zipVars, pc, left, fin, ret, out, sinkOpen>>

(* Fault: the shutdown of a stored entry reaches the sink.                 *)
EntryShutdownForwarded ==
  /\ pc \in {"entry", "encoder"} /\ ~cur.closed
  /\ IF cur.stored THEN sinkOpen' = FALSE /\ UNCHANGED cur
     ELSE /\ cur.written > 0 /\ cur' = [cur EXCEPT !.closed = TRUE]
          /\ UNCHANGED sinkOpen
  /\ UNCHANGED <<zipVars, out, sinkLen, pc, left, fin, ret>>

(* A poll_shutdown succeeds.  The encoder has drained the end of its       *)
(* stream; a stored entry has only flushed the sink, which stays open.     *)
EntryShutdown ==
  /\ pc \in {"entry", "encoder"} /\ ~cur.closed
  /\ IF cur.stored THEN UNCHANGED cur
     ELSE cur.written > 0 /\ cur' = [cur EXCEPT !.closed = TRUE]
  /\ UNCHANGED <<zipVars, sinkVars, pc, left, fin, ret>>

FinishEntry ==
  /\ pc = "entry"
  /\ \/ cur.stored /\ pc' = "entry_dd" /\ left' = EntryDescriptor(cur).len
     \/ ~cur.stored /\ pc' = "encoder" /\ left' = 0
  /\ holder' = "op" /\ ret' = "none"
  /\ UNCHANGED <<stored, comment, poisoned, pos, entries, cur, fin, sinkVars>>

EncoderFinished ==
  /\ pc = "encoder" /\ cur.closed
  /\ pc' = "entry_dd" /\ left' = EntryDescriptor(cur).len
  /\ UNCHANGED <<zipVars, sinkVars, cur, fin, ret>>

EntryDescriptorWritten ==
  /\ pc = "entry_dd" /\ ChunkWritten
  /\ pos' = pos + CompressedSize(cur) + Chunk.len
  /\ entries' = Append(entries, StoredEntry(cur))
  /\ HandBack
  /\ UNCHANGED <<stored, comment, fin>>

(* Drop runs and poisons the archive; a leaked entry never runs it.  An    *)
(* add_reader whose copy fails drops its entry and returns the error.      *)
DropEntry ==
  /\ pc = "entry"
  /\ poisoned' = TRUE /\ holder' = "dropped"
  /\ pc' = "idle" /\ cur' = NoEntry /\ ret' \in {"none", "Io"}
  /\ UNCHANGED <<stored, comment, pos, entries, left, fin, sinkVars>>

LeakEntry ==
  /\ pc = "entry"
  /\ holder' = "leaked"
  /\ pc' = "idle" /\ cur' = NoEntry /\ ret' = "none"
  /\ UNCHANGED <<stored, comment, poisoned, pos, entries, left, fin, sinkVars>>
-----------------------------------------------------------------------------
(* An await that fails or is never resumed, outside finish of the archive. *)
EntryOpPcs == {"lfh", "target", "dd", "encoder", "entry_dd"}

(* Fault: a failed operation puts the sink back "to recover it".           *)
FailHandsBack ==
  /\ pc \in EntryOpPcs
  /\ holder' = "zip" /\ poisoned' = FALSE /\ ret' = "Io"
  /\ pc' = "idle" /\ cur' = NoEntry /\ left' = 0
  /\ UNCHANGED <<stored, comment, pos, entries, fin, sinkVars>>

Fail ==
  /\ pc \in EntryOpPcs
  /\ holder' = "dropped" /\ poisoned' = TRUE /\ ret' = "Io"
  /\ pc' = "idle" /\ cur' = NoEntry /\ left' = 0
  /\ UNCHANGED <<stored, comment, pos, entries, fin, sinkVars>>

(* Dropping the future of EntryWriter::finish also drops the EntryWriter;  *)
(* the other futures own nothing that poisons the archive.                 *)
Cancel ==
  /\ pc \in EntryOpPcs
  /\ holder' = "dropped" /\ ret' = "none"
  /\ poisoned' = (poisoned \/ pc \in {"encoder", "entry_dd"})
  /\ pc' = "idle" /\ cur' = NoEntry /\ left' = 0
  /\ UNCHANGED <<stored, comment, pos, entries, fin, sinkVars>>
-----------------------------------------------------------------------------
(* ZipWriter::finish and abort consume the ZipWriter.                      *)

Gone(error) ==
  /\ pc' = "gone" /\ ret' = error
  /\ UNCHANGED <<stored, comment, pos, entries, poisoned, cur, left, fin, sinkVars>>

FinishRefused ==
  /\ pc = "idle"
  /\ IF comment > MaxFieldLen
       THEN holder' = (IF holder = "zip" THEN "dropped" ELSE holder) /\ Gone("FieldTooLong")
       ELSE holder # "zip" /\ UNCHANGED holder /\ Gone(TakeError)

(* Fault: the last entry is not listed.                                    *)
NextRecordShort(cdOffset, listed, newPos) ==
  IF listed + 1 < Len(entries)
  THEN /\ pc' = "cd" /\ left' = CentralDirEntry(entries[listed + 1]).len
       /\ fin' = [fin EXCEPT !.cdOffset = cdOffset, !.listed = listed]
  ELSE LET cdSize == newPos - cdOffset
       IN /\ fin' = [fin EXCEPT !.cdOffset = cdOffset, !.listed = listed,
                                !.cdSize = cdSize, !.eocdr64Offset = newPos]
          /\ IF ArchiveNeedsZip64(Len(entries), cdSize, cdOffset)
             THEN /\ pc' = "eocdr64"
                  /\ left' = Zip64Eocdr(Len(entries), cdSize, cdOffset).len
             ELSE /\ pc' = "eocdr"
                  /\ left' = Eocdr(Len(entries), cdSize, cdOffset, comment).len

NextRecord(cdOffset, listed, newPos) ==
  IF listed < Len(entries)
  THEN /\ pc' = "cd" /\ left' = CentralDirEntry(entries[listed + 1]).len
       /\ fin' = [fin EXCEPT !.cdOffset = cdOffset, !.listed = listed]
  ELSE LET cdSize == newPos - cdOffset
       IN /\ fin' = [fin EXCEPT !.cdOffset = cdOffset, !.listed = listed,
                                !.cdSize = cdSize, !.eocdr64Offset = newPos]
          /\ IF ArchiveNeedsZip64(Len(entries), cdSize, cdOffset)
             THEN /\ pc' = "eocdr64"
                  /\ left' = Zip64Eocdr(Len(entries), cdSize, cdOffset).len
             ELSE /\ pc' = "eocdr"
                  /\ left' = Eocdr(Len(entries), cdSize, cdOffset, comment).len

Finish ==
  /\ pc = "idle" /\ comment <= MaxFieldLen
  /\ TakeInner /\ holder' = "op" /\ ret' = "none"
  /\ NextRecord(pos, 0, pos)
  /\ UNCHANGED <<stored, comment, pos, entries, cur, sinkVars>>

CentralEntryWritten ==
  /\ pc = "cd" /\ ChunkWritten
  /\ pos' = pos + Chunk.len
  /\ NextRecord(fin.cdOffset, fin.listed + 1, pos')
  /\ UNCHANGED <<stored, comment, holder, poisoned, entries, cur, ret>>

Eocdr64Written ==
  /\ pc = "eocdr64" /\ ChunkWritten
  /\ pos' = pos + Chunk.len
  /\ pc' = "locator" /\ left' = Zip64EocdrLocator(fin.eocdr64Offset).len
  /\ UNCHANGED <<stored, comment, holder, poisoned, entries, cur, fin, ret>>

LocatorWritten ==
  /\ pc = "locator" /\ ChunkWritten
  /\ pos' = pos + Chunk.len
  /\ pc' = "eocdr" /\ left' = Eocdr(Len(entries), fin.cdSize, fin.cdOffset, comment).len
  /\ UNCHANGED <<stored, comment, holder, poisoned, entries, cur, fin, ret>>

EocdrWritten ==
  /\ pc = "eocdr" /\ ChunkWritten
  /\ pc' = "shutdown" /\ left' = 0
  /\ UNCHANGED <<zipVars, cur, fin, ret>>

ShutdownDone ==
  /\ pc = "shutdown"
  /\ pc' = "done" /\ holder' = "caller" /\ ret' = "Ok" /\ sinkOpen' = FALSE
  /\ UNCHANGED <<stored, comment, poisoned, pos, entries, cur, left, fin, out, sinkLen>>

FailFinish   == pc \in FinishPcs /\ holder' = "dropped" /\ Gone("Io")
CancelFinish == pc \in FinishPcs /\ holder' = "dropped" /\ Gone("none")

Abort ==
  /\ pc = "idle"
  /\ IF holder = "zip" THEN holder' = "caller" /\ Gone("Ok")
                       ELSE UNCHANGED holder /\ Gone(TakeError)
-----------------------------------------------------------------------------
Next ==
  \/ WithCompressionLevel \/ WithComment
  \/ \E r \in Requests : RefuseInput(r) \/ RefuseStart(r) \/ StartEntry(r)
  \/ \E n \in ShortWrites : WriteShort(n)
  \/ DirectoryHeaderWritten \/ LinkHeaderWritten \/ TargetWritten
  \/ LinkDescriptorWritten \/ FileHeaderWritten
  \/ \E offered, n \in WriteSizes : PollWrite(offered, n)
  \/ \E n \in DrainSizes : EncoderDrain(n)
  \/ EntryShutdown \/ FinishEntry \/ EncoderFinished
  \/ EntryDescriptorWritten \/ DropEntry \/ LeakEntry
  \/ Fail \/ Cancel
  \/ FinishRefused \/ Finish \/ CentralEntryWritten \/ Eocdr64Written
  \/ LocatorWritten \/ EocdrWritten \/ ShutdownDone
  \/ FailFinish \/ CancelFinish \/ Abort

Spec == Init /\ [][Next]_vars
-----------------------------------------------------------------------------
EntryState ==
  [req: Requests, offset: Nat, usize: Nat, crc: Nat, written: Nat,
   closed: BOOLEAN, stored: BOOLEAN]

StoredEntries ==
  [req: Requests, offset: Nat, stored: BOOLEAN, crc: Nat, csize: Nat, usize: Nat]

(* Every variable has its type, and an entry is under construction exactly *)
(* while one of its operations runs.                                       *)
TypeOK ==
  /\ stored \in BOOLEAN /\ comment \in CommentLens \cup {0}
  /\ holder \in {"zip", "op", "entry", "dropped", "leaked", "caller"}
  /\ poisoned \in BOOLEAN
  /\ pos \in Nat /\ left \in Nat /\ sinkLen \in Nat /\ sinkOpen \in BOOLEAN
  /\ entries \in Seq(StoredEntries)
  /\ pc \in Pcs /\ ret \in Results
  /\ IF pc \in EntryOpPcs \cup {"entry"} THEN cur \in EntryState ELSE cur = NoEntry
  /\ fin \in [cdOffset: Nat, cdSize: Nat, listed: Nat, eocdr64Offset: Nat]

(* Between two calls the flag tells the truth: `poisoned` is set exactly   *)
(* when the sink is lost, so that a caller is told Poisoned and never the  *)
(* misleading WriterBusy (the comments of take_inner and write_scratch),   *)
(* whatever failed, was cancelled, dropped or leaked before.               *)
RestingStateHonest == pc = "idle" => (poisoned <=> holder # "zip")

(* `pos` is what the archive's offsets are taken from: it is the length of *)
(* the sink before the chunk and the entry data in progress.               *)
PosMatchesSink ==
  LET sent == Chunk.len - left
  IN /\ pc = "idle" /\ holder = "zip" => sinkLen = pos
     /\ pc \in {"lfh", "target", "dd", "cd", "eocdr64", "locator", "eocdr"}
          => sinkLen = pos + sent
     /\ pc \in {"entry", "encoder"} => sinkLen = pos + CompressedSize(cur)
     /\ pc = "entry_dd" => sinkLen = pos + CompressedSize(cur) + sent

(* The local header and the descriptor of a registered entry are in the    *)
(* sink, at the offset and around the sizes recorded for it.               *)
EntryInSink(e) ==
  LET header == LocalFileHeader(e.req, e.stored)
  IN /\ [off |-> e.offset, hdr |-> header] \in out
     /\ e.req.kind # "directory" =>
          [off |-> e.offset + header.len + e.csize,
           hdr |-> DataDescriptor(e.crc, e.csize, e.usize)] \in out

RegisteredEntriesInSink == \A i \in 1..Len(entries) : EntryInSink(entries[i])

(* The CRC-32 and the size of an entry are counted apart from what the     *)
(* encoder and the sink take, one poll_write at a time: when the entry is  *)
(* registered both stand for the same bytes, the ones that were accepted.  *)
ChecksumCoversData ==
  \A i \in 1..Len(entries) :
    /\ entries[i].crc = entries[i].usize
    /\ entries[i].stored => entries[i].csize = entries[i].usize

(* A writer that can still be used holds no torn entry: each local header  *)
(* in the sink belongs to a registered entry, so nothing can follow the    *)
(* remains of an entry that failed, was cancelled or was dropped.          *)
NoTornEntry ==
  pc \in {"idle", "done"} /\ holder \in {"zip", "caller"} =>
    \A x \in out : x.hdr.rec = "lfh" =>
      \E i \in 1..Len(entries) : entries[i].offset = x.off

(* The sink is shut down last of all: no entry closes it under the records *)
(* that are still to come, and abort hands back a sink that is open.       *)
SinkOpenUntilFinished == sinkOpen \/ pc = "done"

(* When finish returns Ok, a reader that knows only the sink finds every   *)
(* entry, with the sizes, flags and times its local header announced.      *)
ArchiveReadable == pc = "done" => Readable(out, sinkLen)

(* The documentation of abort: "Returns WriterBusy if an EntryWriter is    *)
(* still active (the inner writer has been moved into that entry)".  abort *)
(* consumes the ZipWriter, so such an entry is one that was leaked.        *)
AbortReportsBusy == [][Abort /\ holder = "leaked" => ret' = "WriterBusy"]_vars
=============================================================================
