--------------------------- MODULE ArchiveProofs ---------------------------
(***************************************************************************)
(* That a finished archive is readable, whatever its entries, sizes and    *)
(* limits: the directory and the end records are where the reader looks    *)
(* for them, and it decodes from them what the writer recorded.            *)
(***************************************************************************)
EXTENDS ZipWriterProofs, FiniteSetTheorems, FunctionTheorems

LEMMA SmallFieldKept ==
  /\ \A x \in Nat : x < U32Max => AsU32(x) = x
  /\ \A x \in Nat : x < U16EntryMax => AsU16(x) = x
  BY FormatAssumption DEF AsU32, AsU16

(* Each field of a central header, through its marker or without, decodes  *)
(* to the value recorded for the entry.                                    *)
LEMMA DecodedIsRecorded ==
  ASSUME NEW e \in StoredEntries
  PROVE  /\ Decoded(CentralDirEntry(e)) =
              [usize |-> e.usize, csize |-> e.csize, offset |-> e.offset]
         /\ Decodable(CentralDirEntry(e))
<1> DEFINE h == CentralDirEntry(e)
<1>0. e.usize \in Nat /\ e.csize \in Nat /\ e.offset \in Nat /\ U32Max \in Nat /\ U32Max > 0
  BY FormatAssumption DEF StoredEntries
<1>1. CASE EntryNeedsZip64(e.csize, e.usize, e.offset)
  <2>1. /\ h.usize = U32Max /\ h.csize = U32Max /\ h.offset = U32Max
        /\ h.zip64 = <<e.usize, e.csize, e.offset>> /\ h.version = 45
    BY <1>1 DEF CentralDirEntry, ToCentralDirEntry, Zip64Extra
  <2> HIDE DEF h
  <2>2. Mark(h.usize) = 1 /\ Mark(h.csize) = 1 /\ Mark(h.offset) = 1
    BY <2>1 DEF Mark
  <2>3. Decoded(h) = [usize |-> e.usize, csize |-> e.csize, offset |-> e.offset]
    BY <2>1, <2>2 DEF Decoded
  <2>4. Decodable(h)
    BY <2>1, <2>2 DEF Decodable
  <2>5. QED
    BY <2>3, <2>4 DEF h
<1>2. CASE ~EntryNeedsZip64(e.csize, e.usize, e.offset)
  <2>1. e.usize < U32Max /\ e.csize < U32Max /\ e.offset < U32Max
    BY <1>0, <1>2 DEF EntryNeedsZip64
  <2>2. AsU32(e.usize) = e.usize /\ AsU32(e.csize) = e.csize /\ AsU32(e.offset) = e.offset
    BY <1>0, <2>1, SmallFieldKept
  <2>3. /\ h.usize = e.usize /\ h.csize = e.csize /\ h.offset = e.offset
        /\ h.zip64 = <<>>
    BY <1>2, <2>2 DEF CentralDirEntry, ToCentralDirEntry, Zip64Extra
  <2> HIDE DEF h
  <2>4. Mark(h.usize) = 0 /\ Mark(h.csize) = 0 /\ Mark(h.offset) = 0
    BY <1>0, <2>1, <2>3 DEF Mark
  <2>5. Decoded(h) = [usize |-> e.usize, csize |-> e.csize, offset |-> e.offset]
    BY <1>0, <2>1, <2>3 DEF Decoded
  <2>6. Decodable(h)
    BY <2>3, <2>4 DEF Decodable
  <2>7. QED
    BY <2>5, <2>6 DEF h
<1>3. QED
  BY <1>1, <1>2

(* The external attributes give back the kind and the permissions.         *)
LEMMA AttributesAlwaysRestored ==
  ASSUME NEW e \in StoredEntries
  PROVE  AttributesRestored(CentralDirEntry(e))
<1> DEFINE r == e.req
           h == CentralDirEntry(e)
           mode == (IF r.setPerms THEN r.perms ELSE DefaultPerm[r.kind])
                     \cup FileTypeBit[r.kind]
<1>0. r.kind \in Kinds /\ r.perms \subseteq 0..31 /\ r.setPerms \in BOOLEAN
  BY WriterAssumption DEF StoredEntries, RequestType
<1>1. h.req = r /\ h.attrs = {bit + 16 : bit \in mode \cap 0..15}
                               \cup (IF r.kind = "directory" THEN {4} ELSE {})
  BY DEF CentralDirEntry, ToCentralDirEntry, ExternalFileAttributes
<1>2. FileTypeBit[r.kind] = ModeTypes[r.kind] /\ FileTypeBit[r.kind] \subseteq 12..15
  <2>1. CASE r.kind = "file"
    BY <2>1 DEF FileTypeBit, ModeTypes, Kinds
  <2>2. CASE r.kind = "directory"
    BY <2>2 DEF FileTypeBit, ModeTypes, Kinds
  <2>3. CASE r.kind = "symlink"
    BY <2>3 DEF FileTypeBit, ModeTypes, Kinds
  <2>4. QED
    BY <1>0, <2>1, <2>2, <2>3 DEF Kinds
<1>3. DefaultPerm[r.kind] \subseteq 0..8
  BY <1>0 DEF DefaultPerm, Kinds
<1> HIDE DEF h, mode
<1>4. mode \subseteq 0..31
  BY <1>0, <1>2, <1>3 DEF mode
<1>5. Mode(h) = mode \cap 0..15
  <2>1. Mode(h) = {bit - 16 : bit \in h.attrs \cap 16..31}
    BY DEF Mode
  <2>2. ASSUME NEW b \in mode \cap 0..15 PROVE b \in Mode(h)
    <3>1. b + 16 \in h.attrs \cap 16..31 /\ b = (b + 16) - 16
      BY <1>1, <2>2
    <3>2. QED
      BY <2>1, <3>1
  <2>3. ASSUME NEW b \in Mode(h) PROVE b \in mode \cap 0..15
    <3>1. PICK a \in h.attrs \cap 16..31 : b = a - 16
      BY <2>1, <2>3
    <3>2. PICK c \in mode \cap 0..15 : a = c + 16
      BY <1>1, <3>1
    <3>3. QED
      BY <3>1, <3>2
  <2>4. QED
    BY <2>2, <2>3
<1>6. ForeignType(r) \/ KindsOf(h) = {r.kind}
  <2> SUFFICES ASSUME ~ForeignType(r) PROVE KindsOf(h) = {r.kind}
    OBVIOUS
  <2>1. Mode(h) \cap 12..15 = ModeTypes[r.kind]
    BY <1>0, <1>2, <1>3, <1>5 DEF ForeignType, mode
  <2>2. DOMAIN ModeTypes = Kinds
    BY DEF ModeTypes, Kinds
  <2>3. \A k, l \in Kinds : k # l => ModeTypes[k] # ModeTypes[l]
    BY DEF ModeTypes, Kinds
  <2>4. QED
    BY <1>0, <2>1, <2>2, <2>3 DEF KindsOf
<1>7. 4 \in h.attrs <=> r.kind = "directory"
  BY <1>1
<1>8. r.setPerms => Mode(h) \cap 0..11 = r.perms \cap 0..11
  BY <1>2, <1>5 DEF mode
<1>9. QED
  BY <1>1, <1>6, <1>7, <1>8 DEF AttributesRestored, h

(* A registered entry is found by the reader as a member of the archive.   *)
EntrySound(e) ==
  /\ EntryInSink(e)
  /\ e.crc = e.usize /\ (e.stored => e.csize = e.usize)
  /\ e.req.kind = "directory" => e.csize = 0 /\ e.usize = 0

LEMMA SoundEntryPresent ==
  ASSUME NEW e \in StoredEntries, EntrySound(e)
  PROVE  MemberPresent(out, CentralDirEntry(e))
<1> DEFINE h == CentralDirEntry(e)
           m == [usize |-> e.usize, csize |-> e.csize, offset |-> e.offset]
           header == LocalFileHeader(e.req, e.stored)
           l == [off |-> e.offset, hdr |-> header]
           desc == DataDescriptor(e.crc, e.csize, e.usize)
<1>0. /\ e.usize \in Nat /\ e.csize \in Nat /\ e.offset \in Nat /\ e.stored \in BOOLEAN
      /\ e.req.mtime \in Int /\ DosMinUnix \in Nat /\ DosMaxUnix \in Nat
      /\ DosMinUnix <= DosMaxUnix /\ U32Max \in Nat /\ U32Max > 0
  BY FormatAssumption, WriterAssumption DEF StoredEntries, RequestType
<1>1. Decoded(h) = m /\ Decodable(h) /\ AttributesRestored(h)
  BY DecodedIsRecorded, AttributesAlwaysRestored
<1>2. /\ h.crc = e.crc /\ h.req = e.req /\ h.stored = e.stored
      /\ h.utf8 = EntryNeedsUtf8Flag(e.req) /\ h.dataDesc = (e.req.kind # "directory")
      /\ h.time = UnixSecsToMsDos(SystemTimeToUnixSecs(e.req.mtime))
      /\ h.utime = ExtendedTimestamp(SystemTimeToUnixSecs(e.req.mtime))
  BY DEF CentralDirEntry, ToCentralDirEntry
(* Both headers clamp a time before 1970 to the same one.                  *)
<1>3. UnixSecsToMsDos(SystemTimeToUnixSecs(e.req.mtime)) = UnixSecsToMsDos(e.req.mtime)
  BY <1>0 DEF UnixSecsToMsDos, SystemTimeToUnixSecs
<1>4. /\ header.rec = "lfh" /\ header.req = e.req /\ header.stored = e.stored
      /\ header.utf8 = EntryNeedsUtf8Flag(e.req)
      /\ header.dataDesc = (e.req.kind # "directory")
      /\ header.time = UnixSecsToMsDos(e.req.mtime)
      /\ header.utime = ExtendedTimestamp(SystemTimeToUnixSecs(e.req.mtime))
  BY DEF LocalFileHeader
<1> HIDE DEF h, header
<1>5. l \in At(out, m.offset, "lfh") /\ l.hdr = header
  BY <1>4 DEF EntrySound, EntryInSink, At, header
<1>6. h.dataDesc => DescriptorMatches(out, m.offset + l.hdr.len + m.csize, h, m)
  <2> SUFFICES ASSUME h.dataDesc
               PROVE  DescriptorMatches(out, m.offset + header.len + m.csize, h, m)
    BY <1>5
  <2> DEFINE d == [off |-> e.offset + header.len + e.csize, hdr |-> desc]
  <2>1. d \in out
    BY <1>2 DEF EntrySound, EntryInSink, header
  <2>2. \A x \in Nat : x < U32Max => x % (U32Max + 1) = x
    BY <1>0
  <2>3. /\ desc.rec = "dd" /\ desc.crc = e.crc
        /\ desc.csize = e.csize /\ desc.usize = e.usize
        /\ desc.len = IF e.csize >= U32Max \/ e.usize >= U32Max THEN 24 ELSE 16
    BY <1>0, <2>2 DEF DataDescriptor, DataDescriptorNeedsZip64, AsU32
  <2> HIDE DEF desc
  <2>4. d \in At(out, m.offset + header.len + m.csize, "dd")
    BY <2>1, <2>3 DEF At
  <2>5. QED
    BY <1>2, <2>3, <2>4 DEF DescriptorMatches
<1>7. ~h.dataDesc => m.csize = 0 /\ m.usize = 0
  BY <1>2 DEF EntrySound
<1>8. h.crc = m.usize /\ (h.stored => m.csize = m.usize)
  BY <1>2 DEF EntrySound
<1> HIDE DEF m, l
<1>9. /\ l.hdr.req = h.req /\ l.hdr.stored = h.stored /\ l.hdr.utf8 = h.utf8
      /\ l.hdr.time = h.time /\ l.hdr.utime = h.utime /\ l.hdr.dataDesc = h.dataDesc
  BY <1>2, <1>3, <1>4, <1>5
<1>10. MemberPresent(out, h)
  BY <1>1, <1>5, <1>6, <1>7, <1>8, <1>9 DEF MemberPresent
<1>11. QED
  BY <1>10 DEF h
-----------------------------------------------------------------------------
(* The tail of the archive.  The first n central headers follow one        *)
(* another from `start`; f gives their offsets, and where they end.        *)
Placement(f, start, n) ==
  /\ f \in [1..(n + 1) -> Nat] /\ f[1] = start
  /\ \A i \in 1..n : f[i + 1] = f[i] + CentralDirEntry(entries[i]).len
  /\ \A i, j \in 1..(n + 1) : i < j => f[i] < f[j]

Records(o, kind) == {x \in o : x.hdr.rec = kind}

Listed(f, n) == {[off |-> f[i], hdr |-> CentralDirEntry(entries[i])] : i \in 1..n}

TailKinds == {"cd", "eocdr64", "locator", "eocdr"}

NeedsZip64 == ArchiveNeedsZip64(Len(entries), fin.cdSize, fin.cdOffset)

(* The central headers in the sink are those of the first entries, in      *)
(* order; once all are written, the locals of finish tell where they lie.  *)
DirectoryPlaced ==
  \E f : /\ Placement(f, fin.cdOffset, fin.listed)
         /\ Records(out, "cd") = Listed(f, fin.listed)
         /\ pc = "cd" => f[fin.listed + 1] = pos
         /\ pc # "cd" => /\ fin.listed = Len(entries)
                         /\ f[fin.listed + 1] = fin.cdOffset + fin.cdSize
                         /\ fin.eocdr64Offset = fin.cdOffset + fin.cdSize

(* The end records in the sink are those finish has come past.             *)
EndRecords ==
  /\ Records(out, "eocdr64") =
       IF pc \in {"locator", "eocdr", "shutdown", "done"} /\ NeedsZip64
       THEN {[off |-> fin.eocdr64Offset,
              hdr |-> Zip64Eocdr(Len(entries), fin.cdSize, fin.cdOffset)]}
       ELSE {}
  /\ Records(out, "locator") =
       IF pc \in {"eocdr", "shutdown", "done"} /\ NeedsZip64
       THEN {[off |-> fin.eocdr64Offset + 56,
              hdr |-> Zip64EocdrLocator(fin.eocdr64Offset)]}
       ELSE {}
  /\ Records(out, "eocdr") =
       IF pc \in {"shutdown", "done"}
       THEN {[off |-> pos, hdr |-> Eocdr(Len(entries), fin.cdSize, fin.cdOffset, comment)]}
       ELSE {}

TailPos ==
  /\ pc \in {"eocdr64", "locator"} => NeedsZip64
  /\ pc = "eocdr64" => pos = fin.eocdr64Offset
  /\ pc = "locator" => pos = fin.eocdr64Offset + 56
  /\ pc \in {"eocdr", "shutdown", "done"}
       => pos = fin.eocdr64Offset + (IF NeedsZip64 THEN 76 ELSE 0)
  /\ pc \in {"shutdown", "done"} => sinkLen = pos + 22 + comment

TailInv ==
  /\ pc \notin FinishPcs \cup {"done", "gone"} => \A x \in out : x.hdr.rec \notin TailKinds
  /\ pc \in FinishPcs \cup {"done"} => DirectoryPlaced /\ EndRecords /\ TailPos

LEMMA RecordsAfter ==
  \A o, x, kind : Records(o \cup {x}, kind) =
                    Records(o, kind) \cup (IF x.hdr.rec = kind THEN {x} ELSE {})
  BY DEF Records

LEMMA ChunkKind ==
  ASSUME pc \in WritePcs
  PROVE  /\ pc \in TailKinds => Chunk.rec = pc
         /\ pc \notin TailKinds => Chunk.rec \notin TailKinds
         /\ pc \in {"eocdr64", "locator"} => Chunk.len = IF pc = "locator" THEN 20 ELSE 56
         /\ pc = "eocdr" => Chunk.len = 22 + comment
  BY ChunkIs DEF ChunkByPc, WritePcs, FinishPcs, TailKinds, LocalFileHeader, EntryDescriptor,
                 DataDescriptor, CentralDirEntry, Zip64Eocdr, Zip64EocdrLocator, Eocdr

LEMMA CentralLenPositive ==
  ASSUME NEW e \in StoredEntries
  PROVE  CentralDirEntry(e).len \in Nat \ {0}
<1>1. e.req.nameLen \in Nat /\ e.req.commentLen \in Nat
  BY WriterAssumption DEF StoredEntries, RequestType
<1>2. ToCentralDirEntry(e).extraLen \in Nat
  <2>1. \A v : v = <<>> \/ (\E a, b, c : v = <<a, b, c>>) => Zip64ExtraLen(v) \in Nat
    BY DEF Zip64ExtraLen
  <2>2. Zip64ExtraLen(Zip64Extra(e.usize, e.csize, e.offset)) \in Nat
    BY <2>1 DEF Zip64Extra
  <2>3. QED
    BY <2>2 DEF ToCentralDirEntry, TimestampExtraLen, UnixUidGidExtraLen
<1>3. CentralDirEntry(e).len
        = 46 + e.req.nameLen + ToCentralDirEntry(e).extraLen + e.req.commentLen
  BY DEF CentralDirEntry
<1>4. QED
  BY <1>1, <1>2, <1>3

(* What the choice of the next record makes of the headers placed so far.  *)
LEMMA NextRecordTail ==
  ASSUME Bookkeeping, NEW start \in Nat, NEW n \in Nat, start <= pos', pos' \in Nat,
         n <= Len(entries), NextRecord(start, n, pos'), UNCHANGED <<entries, comment>>,
         NEW f, Placement(f, start, n), f[n + 1] = pos',
         Records(out', "cd") = Listed(f, n),
         \A kind \in TailKinds \ {"cd"} : Records(out', kind) = {}
  PROVE  pc' \in FinishPcs /\ DirectoryPlaced' /\ EndRecords' /\ TailPos'
<1>0. /\ entries \in Seq(StoredEntries)
      /\ fin \in [cdOffset: Nat, cdSize: Nat, listed: Nat, eocdr64Offset: Nat]
  BY DEF Bookkeeping, TypeOK
<1>1. Placement(f, start, n)' /\ Listed(f, n)' = Listed(f, n)
  BY DEF Placement, Listed
<1>2. CASE n < Len(entries)
  <2>1. pc' = "cd" /\ fin' = [fin EXCEPT !.cdOffset = start, !.listed = n]
    BY <1>2 DEF NextRecord
  <2>2. fin'.cdOffset = start /\ fin'.listed = n
    BY <1>0, <2>1
  <2>3. DirectoryPlaced'
    BY <1>1, <2>1, <2>2 DEF DirectoryPlaced
  <2>4. EndRecords' /\ TailPos'
    BY <2>1 DEF EndRecords, TailPos, TailKinds
  <2>5. QED
    BY <2>1, <2>3, <2>4 DEF FinishPcs
<1>3. CASE ~(n < Len(entries))
  <2>1. /\ fin' = [fin EXCEPT !.cdOffset = start, !.listed = n,
                              !.cdSize = pos' - start, !.eocdr64Offset = pos']
        /\ pc' = IF ArchiveNeedsZip64(Len(entries), pos' - start, start)
                 THEN "eocdr64" ELSE "eocdr"
    BY <1>3 DEF NextRecord
  <2>2. fin'.cdOffset = start /\ fin'.listed = n /\ fin'.cdSize = pos' - start
        /\ fin'.eocdr64Offset = pos'
    BY <1>0, <2>1
  <2>3. NeedsZip64' = ArchiveNeedsZip64(Len(entries), pos' - start, start)
    BY <2>2 DEF NeedsZip64
  <2>4. n = Len(entries) /\ n = Len(entries') /\ pos' = start + (pos' - start)
    <3>1. Len(entries) \in Nat /\ entries' = entries
      BY <1>0
    <3>2. n = Len(entries) /\ n = Len(entries')
      BY <1>3, <3>1
    <3>3. \A a, b \in Nat : a = b + (a - b)
      OBVIOUS
    <3>4. QED
      BY <3>2, <3>3
  <2>5. DirectoryPlaced'
    BY <1>1, <2>1, <2>2, <2>4 DEF DirectoryPlaced
  <2>6. EndRecords' /\ TailPos'
    BY <2>1, <2>2, <2>3 DEF EndRecords, TailPos, TailKinds
  <2>7. QED
    BY <2>1, <2>5, <2>6 DEF FinishPcs
<1>4. QED
  BY <1>2, <1>3

LEMMA TailInit == Init => TailInv
  BY DEF Init, TailInv, FinishPcs

(* Outside finish no record of the tail is written.                        *)
LEMMA TailOutside ==
  ASSUME TailInv, pc \notin FinishPcs \cup {"done", "gone"},
         pc' \notin FinishPcs \cup {"done"},
         out' = out \/ ChunkWritten
  PROVE  TailInv'
<1>1. \A x \in out : x.hdr.rec \notin TailKinds
  BY DEF TailInv
<1>2. \A x \in out' : x.hdr.rec \notin TailKinds
  <2>1. CASE ChunkWritten
    <3>1. Chunk.rec \notin TailKinds
      BY <2>1, ChunkKind DEF ChunkWritten, TailKinds, FinishPcs
    <3>2. QED
      BY <1>1, <2>1, <3>1 DEF ChunkWritten
  <2>2. QED
    BY <1>1, <2>1
<1>3. QED
  BY <1>2 DEF TailInv

(* A record of finish other than the last, complete in the sink.           *)
LEMMA TailWritten ==
  ASSUME Bookkeeping, SinkInv, TailInv, ChunkWritten, pc \in TailKinds
  PROVE  /\ out' = out \cup {[off |-> pos, hdr |-> Chunk]}
         /\ \A kind \in TailKinds \ {pc} : Records(out', kind) = Records(out, kind)
         /\ Records(out', pc) = Records(out, pc) \cup {[off |-> pos, hdr |-> Chunk]}
         /\ Chunk.len \in Nat /\ pos \in Nat /\ sinkLen' = pos + Chunk.len
         /\ DirectoryPlaced /\ EndRecords /\ TailPos
<1>1. pc \in WritePcs /\ Base = pos
  BY DEF TailKinds, WritePcs, FinishPcs, Base
<1>2. /\ out' = out \cup {[off |-> pos, hdr |-> Chunk]}
      /\ Chunk.len \in Nat /\ pos \in Nat /\ sinkLen' = pos + Chunk.len
  BY <1>1, Placed DEF SinkInv
<1>3. Chunk.rec = pc
  BY <1>1, ChunkKind
<1>4. DirectoryPlaced /\ EndRecords /\ TailPos
  BY DEF TailInv, FinishPcs, TailKinds
<1>5. /\ \A kind \in TailKinds \ {pc} : Records(out', kind) = Records(out, kind)
      /\ Records(out', pc) = Records(out, pc) \cup {[off |-> pos, hdr |-> Chunk]}
  <2> DEFINE x == [off |-> pos, hdr |-> Chunk]
  <2>1. x.hdr.rec = pc /\ out' = out \cup {x}
    BY <1>2, <1>3
  <2> HIDE DEF x
  <2>2. \A kind : Records(out', kind) = Records(out, kind) \cup (IF kind = pc THEN {x} ELSE {})
    BY <2>1, RecordsAfter
  <2>3. QED
    BY <2>2 DEF x
<1>6. QED
  BY <1>2, <1>4, <1>5

LEMMA CentralEntryTail ==
  ASSUME Bookkeeping, SinkInv, TailInv, CentralEntryWritten
  PROVE  TailInv'
<1>0. /\ entries \in Seq(StoredEntries) /\ fin.cdOffset \in Nat /\ fin.listed \in Nat
      /\ pos \in Nat
      /\ fin.cdOffset <= pos /\ fin.listed < Len(entries) /\ Len(entries) \in Nat
  BY DEF CentralEntryWritten, Bookkeeping, TypeOK, Progress, FinishPcs
<1> DEFINE n == fin.listed
           start == fin.cdOffset
           entry == CentralDirEntry(entries[n + 1])
<1>1. /\ pc = "cd" /\ ChunkWritten /\ UNCHANGED <<entries, comment>>
      /\ pos' = pos + Chunk.len /\ NextRecord(start, n + 1, pos')
  BY DEF CentralEntryWritten
<1>2. Chunk = entry /\ Chunk.len \in Nat \ {0} /\ pos' \in Nat /\ pos < pos'
  <2>1. Chunk = entry
    BY <1>1, ChunkIs DEF ChunkByPc
  <2>2. entries[n + 1] \in StoredEntries
    BY <1>0
  <2>3. entry.len \in Nat \ {0}
    BY <2>2, CentralLenPositive
  <2>4. QED
    BY <1>0, <1>1, <2>1, <2>3
<1>3. PICK f : /\ Placement(f, start, n) /\ Records(out, "cd") = Listed(f, n)
               /\ f[n + 1] = pos
  BY <1>1, TailWritten DEF DirectoryPlaced, TailKinds
<1> DEFINE g == [i \in 1..(n + 2) |-> IF i <= n + 1 THEN f[i] ELSE pos']
<1>4. Placement(g, start, n + 1) /\ g[n + 2] = pos' /\ g[n + 1] = pos
      /\ \A i \in 1..n : g[i] = f[i]
  <2>1. /\ f \in [1..(n + 1) -> Nat] /\ f[1] = start
        /\ \A i \in 1..n : f[i + 1] = f[i] + CentralDirEntry(entries[i]).len
        /\ \A i, j \in 1..(n + 1) : i < j => f[i] < f[j]
    BY <1>3 DEF Placement
  <2>2. g \in [1..(n + 2) -> Nat] /\ g[1] = start /\ g[n + 2] = pos'
        /\ \A i \in 1..(n + 1) : g[i] = f[i]
    BY <1>0, <1>2, <2>1
  <2>3. \A i \in 1..(n + 1) : f[i] <= pos
    <3> SUFFICES ASSUME NEW i \in 1..(n + 1) PROVE f[i] <= pos
      OBVIOUS
    <3>0. n + 1 \in 1..(n + 1) /\ pos \in Nat
      BY <1>0
    <3>1. n + 1 \in 1..(n + 1) /\ f[i] \in Nat /\ pos \in Nat
      BY <2>1, <3>0
    <3>2. CASE i = n + 1
      BY <1>3, <3>1, <3>2
    <3>3. CASE i < n + 1
      BY <1>3, <2>1, <3>1, <3>3
    <3>4. QED
      BY <1>0, <3>2, <3>3
  <2> HIDE DEF g
  <2>4. ASSUME NEW i \in 1..(n + 1)
        PROVE  g[i + 1] = g[i] + CentralDirEntry(entries[i]).len
    <3>1. CASE i = n + 1
      <4>1. i + 1 = n + 2 /\ CentralDirEntry(entries[i]) = entry
        BY <1>0, <3>1
      <4>2. g[i + 1] = pos' /\ g[i] = pos
        BY <1>3, <2>2, <3>1, <4>1
      <4>3. QED
        BY <1>1, <1>2, <4>1, <4>2
    <3>2. CASE i \in 1..n
      BY <1>0, <2>1, <2>2, <3>2
    <3>3. QED
      BY <1>0, <3>1, <3>2
  <2>5. ASSUME NEW i \in 1..(n + 2), NEW j \in 1..(n + 2), i < j
        PROVE  g[i] < g[j]
    <3>0. i \in 1..(n + 1)
      BY <1>0, <2>5
    <3>1. g[i] = f[i] /\ f[i] \in Nat
      BY <2>1, <2>2, <3>0
    <3>2. CASE j = n + 2
      BY <1>0, <1>2, <2>2, <2>3, <3>0, <3>1, <3>2
    <3>3. CASE j \in 1..(n + 1)
      BY <2>1, <2>2, <2>5, <3>0, <3>1, <3>3
    <3>4. QED
      BY <1>0, <3>2, <3>3
  <2>6. QED
    BY <1>0, <1>3, <2>2, <2>4, <2>5 DEF Placement
<1> HIDE DEF g
<1>5. Records(out', "cd") = Listed(g, n + 1)
  <2>1. Records(out', "cd") = Listed(f, n) \cup {[off |-> pos, hdr |-> entry]}
    BY <1>1, <1>2, <1>3, TailWritten DEF TailKinds
  <2>2. Listed(g, n + 1) = Listed(f, n) \cup {[off |-> pos, hdr |-> entry]}
    <3>1. ASSUME NEW x \in Listed(g, n + 1)
          PROVE  x \in Listed(f, n) \cup {[off |-> pos, hdr |-> entry]}
      <4>1. PICK i \in 1..(n + 1) : x = [off |-> g[i], hdr |-> CentralDirEntry(entries[i])]
        BY <3>1 DEF Listed
      <4>2. CASE i = n + 1
        BY <1>4, <4>1, <4>2
      <4>3. CASE i \in 1..n
        BY <1>4, <4>1, <4>3 DEF Listed
      <4>4. QED
        BY <1>0, <4>2, <4>3
    <3>2. ASSUME NEW x \in Listed(f, n) PROVE x \in Listed(g, n + 1)
      <4>1. PICK i \in 1..n : x = [off |-> f[i], hdr |-> CentralDirEntry(entries[i])]
        BY <3>2 DEF Listed
      <4>2. i \in 1..(n + 1) /\ g[i] = f[i]
        BY <1>0, <1>4
      <4>3. QED
        BY <4>1, <4>2 DEF Listed
    <3>3. [off |-> pos, hdr |-> entry] \in Listed(g, n + 1)
      <4>1. n + 1 \in 1..(n + 1)
        BY <1>0
      <4>2. QED
        BY <1>4, <4>1 DEF Listed
    <3>4. QED
      BY <3>1, <3>2, <3>3
  <2>3. QED
    BY <2>1, <2>2
<1>6. \A kind \in TailKinds \ {"cd"} : Records(out', kind) = {}
  BY <1>1, TailWritten DEF EndRecords, TailKinds
<1>7. start <= pos' /\ n + 1 \in Nat /\ n + 1 <= Len(entries) /\ g[(n + 1) + 1] = pos'
  <2>1. start <= pos' /\ n + 1 \in Nat /\ n + 1 <= Len(entries) /\ (n + 1) + 1 = n + 2
    BY <1>0, <1>2
  <2>2. QED
    BY <1>4, <2>1
<1>8. pc' \in FinishPcs /\ DirectoryPlaced' /\ EndRecords' /\ TailPos'
  BY <1>0, <1>1, <1>2, <1>4, <1>5, <1>6, <1>7, NextRecordTail
<1>9. QED
  BY <1>8 DEF TailInv

LEMMA FinishTail ==
  ASSUME Bookkeeping, TailInv, Finish
  PROVE  TailInv'
<1>0. /\ entries \in Seq(StoredEntries) /\ pos \in Nat /\ Len(entries) \in Nat
  BY DEF Bookkeeping, TypeOK
<1>1. /\ pc = "idle" /\ UNCHANGED <<entries, comment, pos, out>> /\ NextRecord(pos, 0, pos')
  BY DEF Finish, sinkVars
<1> DEFINE f == [i \in 1..1 |-> pos]
<1>2. Placement(f, pos, 0) /\ f[0 + 1] = pos'
  BY <1>0, <1>1 DEF Placement
<1>3. Listed(f, 0) = {}
  BY DEF Listed
<1>4. \A kind \in TailKinds : Records(out', kind) = {}
  BY <1>1 DEF TailInv, FinishPcs, Records
<1> HIDE DEF f
<1>5. /\ pos' \in Nat /\ pos <= pos' /\ 0 \in Nat /\ 0 <= Len(entries)
      /\ UNCHANGED <<entries, comment>> /\ NextRecord(pos, 0, pos')
  BY <1>0, <1>1
<1>6. /\ Records(out', "cd") = Listed(f, 0)
      /\ \A kind \in TailKinds \ {"cd"} : Records(out', kind) = {}
  BY <1>3, <1>4 DEF TailKinds
<1>7. pc' \in FinishPcs /\ DirectoryPlaced' /\ EndRecords' /\ TailPos'
  BY <1>0, <1>2, <1>5, <1>6, NextRecordTail
<1>8. QED
  BY <1>7 DEF TailInv

(* The directory stays placed while the end records follow it.             *)
LEMMA DirectoryStays ==
  ASSUME DirectoryPlaced, pc # "cd", pc' # "cd", UNCHANGED <<entries, fin>>,
         Records(out', "cd") = Records(out, "cd")
  PROVE  DirectoryPlaced'
  BY DEF DirectoryPlaced, Placement, Listed

LEMMA EndRecordTail ==
  ASSUME Bookkeeping, SinkInv, TailInv, Eocdr64Written \/ LocatorWritten \/ EocdrWritten
  PROVE  TailInv'
<1>0. /\ pc \in {"eocdr64", "locator", "eocdr"} /\ ChunkWritten
      /\ UNCHANGED <<entries, fin, comment>>
      /\ pc = "eocdr64" => pc' = "locator" /\ pos' = pos + Chunk.len
      /\ pc = "locator" => pc' = "eocdr" /\ pos' = pos + Chunk.len
      /\ pc = "eocdr" => pc' = "shutdown" /\ pos' = pos
  BY DEF Eocdr64Written, LocatorWritten, EocdrWritten, zipVars
<1>1. /\ \A kind \in TailKinds \ {pc} : Records(out', kind) = Records(out, kind)
      /\ Records(out', pc) = Records(out, pc) \cup {[off |-> pos, hdr |-> Chunk]}
      /\ Chunk.len \in Nat /\ pos \in Nat /\ sinkLen' = pos + Chunk.len
      /\ DirectoryPlaced /\ EndRecords /\ TailPos
  BY <1>0, TailWritten DEF TailKinds
<1>2. DirectoryPlaced'
  BY <1>0, <1>1, DirectoryStays DEF TailKinds
<1>3. NeedsZip64' = NeedsZip64 /\ pc' \in FinishPcs
  BY <1>0 DEF NeedsZip64, FinishPcs
<1>4. /\ pc \in {"eocdr64", "locator"} => Chunk.len = IF pc = "locator" THEN 20 ELSE 56
      /\ pc = "eocdr" => Chunk.len = 22 + comment
      /\ comment \in Nat /\ fin.eocdr64Offset \in Nat
  BY <1>0, ChunkKind, WriterAssumption DEF WritePcs, Bookkeeping, TypeOK
<1>5. CASE pc = "eocdr64"
  <2>1. Chunk = Zip64Eocdr(Len(entries), fin.cdSize, fin.cdOffset)
    BY <1>5, ChunkIs DEF ChunkByPc
  <2>2. EndRecords'
    BY <1>0, <1>1, <1>3, <1>5, <2>1 DEF EndRecords, TailPos, TailKinds
  <2>3. TailPos'
    BY <1>0, <1>1, <1>3, <1>4, <1>5 DEF TailPos
  <2>4. QED
    BY <1>2, <1>3, <2>2, <2>3 DEF TailInv
<1>6. CASE pc = "locator"
  <2>1. Chunk = Zip64EocdrLocator(fin.eocdr64Offset)
    BY <1>6, ChunkIs DEF ChunkByPc
  <2>2. EndRecords'
    BY <1>0, <1>1, <1>3, <1>6, <2>1 DEF EndRecords, TailPos, TailKinds
  <2>3. TailPos'
    BY <1>0, <1>1, <1>3, <1>4, <1>6 DEF TailPos
  <2>4. QED
    BY <1>2, <1>3, <2>2, <2>3 DEF TailInv
<1>7. CASE pc = "eocdr"
  <2>1. Chunk = Eocdr(Len(entries), fin.cdSize, fin.cdOffset, comment)
    BY <1>7, ChunkIs DEF ChunkByPc
  <2>2. EndRecords'
    BY <1>0, <1>1, <1>3, <1>7, <2>1 DEF EndRecords, TailKinds
  <2>3. TailPos'
    BY <1>0, <1>1, <1>3, <1>4, <1>7 DEF TailPos
  <2>4. QED
    BY <1>2, <1>3, <2>2, <2>3 DEF TailInv
<1>8. QED
  BY <1>0, <1>5, <1>6, <1>7

LEMMA TailStep == Bookkeeping /\ SinkInv /\ TailInv /\ [Next]_vars => TailInv'
<1> SUFFICES ASSUME Bookkeeping, SinkInv, TailInv, [Next]_vars PROVE TailInv'
  OBVIOUS
(* Steps that write nothing, outside finish, and entries' own records.     *)
<1>1. CASE \/ WithCompressionLevel \/ WithComment
           \/ \E r \in Requests : RefuseInput(r) \/ RefuseStart(r) \/ StartEntry(r)
  <2>1. pc = "idle" /\ pc' \in {"idle", "lfh"} /\ out' = out
    BY <1>1 DEF WithCompressionLevel, WithComment, RefuseInput, RefuseStart, Refuse,
                StartEntry, opVars, sinkVars
  <2>2. QED
    BY <2>1, TailOutside DEF FinishPcs
<1>2. CASE DirectoryHeaderWritten \/ LinkHeaderWritten \/ TargetWritten
           \/ LinkDescriptorWritten \/ FileHeaderWritten \/ EntryDescriptorWritten
  <2>1. pc \in EntryOpPcs /\ pc' \in {"idle", "target", "dd", "entry"} /\ ChunkWritten
    BY <1>2 DEF DirectoryHeaderWritten, LinkHeaderWritten, TargetWritten,
                LinkDescriptorWritten, FileHeaderWritten, EntryDescriptorWritten,
                HandBack, EntryOpPcs
  <2>2. QED
    BY <2>1, TailOutside DEF FinishPcs, EntryOpPcs
<1>3. CASE \/ \E offered, n \in WriteSizes : PollWrite(offered, n)
           \/ \E n \in DrainSizes : EncoderDrain(n)
           \/ EntryShutdown \/ FinishEntry \/ EncoderFinished
           \/ DropEntry \/ LeakEntry \/ Fail \/ Cancel
  <2>1. /\ pc \in EntryOpPcs \cup {"entry"} /\ out' = out
        /\ pc' \in {pc, "idle", "encoder", "entry_dd"}
    BY <1>3 DEF PollWrite, EncoderDrain, EntryShutdown, FinishEntry, EncoderFinished,
                DropEntry, LeakEntry, Fail, Cancel, sinkVars, EntryOpPcs
  <2>2. QED
    BY <2>1, TailOutside DEF FinishPcs, EntryOpPcs
(* A writer that is consumed without an archive is not read.               *)
<1>4. CASE FinishRefused \/ Abort \/ FailFinish \/ CancelFinish
  <2>1. pc' = "gone"
    BY <1>4 DEF FinishRefused, Abort, FailFinish, CancelFinish, Gone
  <2>2. QED
    BY <2>1 DEF TailInv, FinishPcs
(* The steps of finish.                                                    *)
<1>5. ASSUME NEW n \in ShortWrites, WriteShort(n) PROVE TailInv'
  <2>1. pc \in WritePcs /\ UNCHANGED <<pc, pos, entries, fin, out, comment>>
    BY <1>5 DEF WriteShort, zipVars
  <2>2. DirectoryPlaced' <=> DirectoryPlaced
    BY <2>1 DEF DirectoryPlaced, Placement, Listed
  <2>3. EndRecords' <=> EndRecords
    BY <2>1 DEF EndRecords, NeedsZip64
  <2>4. TailPos' <=> TailPos
    BY <2>1 DEF TailPos, NeedsZip64, WritePcs
  <2>5. QED
    BY <2>1, <2>2, <2>3, <2>4 DEF TailInv
<1>6. CASE Finish
  BY <1>6, FinishTail
<1>7. CASE CentralEntryWritten
  BY <1>7, CentralEntryTail
<1>8. CASE Eocdr64Written \/ LocatorWritten \/ EocdrWritten
  BY <1>8, EndRecordTail
<1>9. CASE ShutdownDone
  <2>1. pc = "shutdown" /\ pc' = "done" /\ UNCHANGED <<pos, entries, fin, out, sinkLen, comment>>
    BY <1>9 DEF ShutdownDone
  <2>2. DirectoryPlaced /\ EndRecords /\ TailPos
    BY <2>1 DEF TailInv, FinishPcs
  <2>3. DirectoryPlaced'
    BY <2>1, <2>2, DirectoryStays
  <2>4. EndRecords' /\ TailPos'
    BY <2>1, <2>2 DEF EndRecords, TailPos, NeedsZip64
  <2>5. QED
    BY <2>1, <2>3, <2>4 DEF TailInv, FinishPcs
<1>10. CASE UNCHANGED vars
  <2>1. UNCHANGED <<pc, pos, entries, fin, out, sinkLen, comment>>
    BY <1>10 DEF vars, zipVars, opVars, sinkVars
  <2>2. DirectoryPlaced' <=> DirectoryPlaced
    BY <2>1 DEF DirectoryPlaced, Placement, Listed
  <2>3. EndRecords' <=> EndRecords
    BY <2>1 DEF EndRecords, NeedsZip64
  <2>4. TailPos' <=> TailPos
    BY <2>1 DEF TailPos, NeedsZip64
  <2>5. QED
    BY <2>1, <2>2, <2>3, <2>4 DEF TailInv
<1>11. QED
  BY <1>1, <1>2, <1>3, <1>4, <1>5, <1>6, <1>7, <1>8, <1>9, <1>10 DEF Next
-----------------------------------------------------------------------------
(* A directory entry has no data: it is the only kind that is registered   *)
(* without a descriptor.  A writer that is done has handed back the sink.  *)
KindInv ==
  /\ pc \in {"target", "dd"} => cur.req.kind = "symlink"
  /\ pc \in {"entry", "encoder", "entry_dd"} => cur.req.kind = "file"
  /\ \A i \in 1..Len(entries) :
       entries[i].req.kind = "directory" => entries[i].csize = 0 /\ entries[i].usize = 0
  /\ pc = "done" => holder = "caller"

LEMMA KindStep == Bookkeeping /\ SinkInv /\ KindInv /\ [Next]_vars => KindInv'
<1> SUFFICES ASSUME Bookkeeping, SinkInv, KindInv, [Next]_vars PROVE KindInv'
  OBVIOUS
<1>0. /\ entries \in Seq(StoredEntries)
      /\ pc \in EntryOpPcs \cup {"entry"} => cur \in EntryState
  BY DEF Bookkeeping, TypeOK
<1>1. ASSUME UNCHANGED entries, pc' \notin {"target", "dd", "entry", "encoder", "entry_dd", "done"}
      PROVE  KindInv'
  BY <1>1 DEF KindInv
<1>2. ASSUME UNCHANGED <<entries, pc, holder>>, cur' = cur \/ cur'.req = cur.req PROVE KindInv'
  BY <1>2 DEF KindInv
(* An entry is registered.                                                 *)
<1>3. ASSUME entries' = Append(entries, StoredEntry(cur)), pc' = "idle", cur \in EntryState,
             cur.req.kind = "directory" => cur.usize = 0 /\ CompressedSize(cur) = 0
      PROVE  KindInv'
  <2>1. ASSUME NEW i \in 1..Len(entries'), entries'[i].req.kind = "directory"
        PROVE  entries'[i].csize = 0 /\ entries'[i].usize = 0
    <3>1. CASE i \in 1..Len(entries)
      <4>1. entries'[i] = entries[i]
        BY <1>0, <1>3, <3>1, Registered
      <4>2. QED
        BY <2>1, <3>1, <4>1 DEF KindInv
    <3>2. CASE i = Len(entries) + 1
      <4>1. entries'[i] = StoredEntry(cur)
        BY <1>0, <1>3, <3>2, Registered
      <4>2. QED
        BY <1>3, <2>1, <4>1 DEF StoredEntry
    <3>3. QED
      BY <1>0, <1>3, <3>1, <3>2, Registered
  <2>2. QED
    BY <1>3, <2>1 DEF KindInv
<1>4. CASE DirectoryHeaderWritten
  <2>1. /\ pc = "lfh" /\ pc' = "idle" /\ entries' = Append(entries, StoredEntry(cur))
        /\ cur.req.kind = "directory"
    BY <1>4 DEF DirectoryHeaderWritten, HandBack
  <2>2. cur \in EntryState /\ cur.usize = 0 /\ cur.written = 0
    BY <1>0, <2>1 DEF SinkInv, InProgress, EntryOpPcs
  <2>3. QED
    BY <1>3, <2>1, <2>2 DEF CompressedSize
<1>5. CASE LinkDescriptorWritten \/ EntryDescriptorWritten
  <2>1. pc \in {"dd", "entry_dd"} /\ pc' = "idle" /\ entries' = Append(entries, StoredEntry(cur))
    BY <1>5 DEF LinkDescriptorWritten, EntryDescriptorWritten, HandBack
  <2>2. cur \in EntryState /\ cur.req.kind \in {"file", "symlink"}
    BY <1>0, <2>1 DEF KindInv, EntryOpPcs
  <2>3. QED
    BY <1>3, <2>1, <2>2
(* An entry goes on.                                                       *)
<1>6. CASE LinkHeaderWritten \/ FileHeaderWritten
  BY <1>6 DEF LinkHeaderWritten, FileHeaderWritten, KindInv
<1>7. CASE TargetWritten
  <2>1. pc = "target" /\ cur \in EntryState /\ pc' = "dd" /\ UNCHANGED entries
        /\ cur' = [cur EXCEPT !.usize = cur.req.targetLen, !.crc = cur.req.targetLen]
    BY <1>0, <1>7 DEF TargetWritten, EntryOpPcs
  <2>2. cur'.req = cur.req
    BY <2>1 DEF EntryState
  <2>3. QED
    BY <2>1, <2>2 DEF KindInv
<1>8. CASE FinishEntry \/ EncoderFinished
  <2>1. /\ pc \in {"entry", "encoder"} /\ pc' \in {"encoder", "entry_dd"}
        /\ UNCHANGED <<entries, cur>>
    BY <1>8 DEF FinishEntry, EncoderFinished, zipVars
  <2>2. QED
    BY <2>1 DEF KindInv
<1>9. ASSUME NEW m \in WriteSizes, NEW n \in WriteSizes, PollWrite(m, n) PROVE KindInv'
  BY <1>0, <1>2, <1>9 DEF PollWrite, zipVars, EntryState
<1>10. ASSUME NEW n \in DrainSizes, EncoderDrain(n) PROVE KindInv'
  BY <1>0, <1>2, <1>10 DEF EncoderDrain, zipVars, EntryState, EntryOpPcs
<1>11. CASE EntryShutdown
  BY <1>0, <1>2, <1>11 DEF EntryShutdown, zipVars, EntryState, EntryOpPcs
<1>12. ASSUME NEW n \in ShortWrites, WriteShort(n) PROVE KindInv'
  BY <1>2, <1>12 DEF WriteShort, zipVars
(* The others end an entry, or have none.                                  *)
<1>13. ASSUME NEW r \in Requests, RefuseInput(r) \/ RefuseStart(r) \/ StartEntry(r)
       PROVE  KindInv'
  BY <1>1, <1>13 DEF RefuseInput, RefuseStart, Refuse, StartEntry, zipVars
<1>14. CASE WithCompressionLevel \/ WithComment \/ DropEntry \/ LeakEntry \/ Fail \/ Cancel
  BY <1>1, <1>14 DEF WithCompressionLevel, WithComment, DropEntry, LeakEntry, Fail, Cancel, opVars
<1>15. CASE FinishRefused \/ Finish \/ CentralEntryWritten \/ Eocdr64Written \/ LocatorWritten
            \/ EocdrWritten \/ FailFinish \/ CancelFinish \/ Abort
  BY <1>1, <1>15 DEF FinishRefused, Finish, CentralEntryWritten, Eocdr64Written,
                     LocatorWritten, EocdrWritten, FailFinish, CancelFinish,
                     Abort, Gone, NextRecord, zipVars
<1>16. CASE ShutdownDone
  BY <1>16 DEF ShutdownDone, KindInv
<1>17. CASE UNCHANGED vars
  BY <1>2, <1>17 DEF vars, zipVars, opVars
<1>18. QED
  BY <1>4, <1>5, <1>6, <1>7, <1>8, <1>9, <1>10, <1>11, <1>12, <1>13, <1>14, <1>15, <1>16,
     <1>17 DEF Next

(* Everything that is true of the archive at any time.                     *)
ArchiveInv == Bookkeeping /\ SinkInv /\ TailInv /\ KindInv /\ ChecksumInv

THEOREM ArchiveAlways == Spec => []ArchiveInv
<1>1. Init => ArchiveInv
  <2>1. Init => KindInv
    BY DEF Init, KindInv
  <2>2. Init => ChecksumInv
    BY DEF Init, ChecksumInv, ChecksumCoversData, EntryOpPcs
  <2>3. QED
    BY <2>1, <2>2, BookkeepingInit, SinkInit, TailInit DEF ArchiveInv
<1>2. ArchiveInv /\ [Next]_vars => ArchiveInv'
  BY BookkeepingStep, SinkStep, TailStep, KindStep, ChecksumStep DEF ArchiveInv
<1>3. QED
  BY <1>1, <1>2, PTL DEF Spec
-----------------------------------------------------------------------------
(* What the reader finds.                                                  *)
Directory == [total |-> Len(entries), cdSize |-> fin.cdSize, cdOffset |-> fin.cdOffset]

(* From the last record, through the ZIP64 records where they are needed,  *)
(* a reader is led to the one true directory.                              *)
LEMMA DirectoryFound ==
  ASSUME ArchiveInv, pc = "done"
  PROVE  Directories(out, sinkLen) = {Directory}
<1>0. /\ EndRecords /\ TailPos /\ comment \in Nat /\ pos \in Nat /\ sinkLen \in Nat
      /\ fin.eocdr64Offset \in Nat /\ fin.cdSize \in Nat /\ fin.cdOffset \in Nat
      /\ Len(entries) \in Nat
  BY WriterAssumption DEF ArchiveInv, TailInv, FinishPcs, Bookkeeping, TypeOK
<1>a. /\ U32Max \in Nat /\ U32Max > 0 /\ U16EntryMax \in Nat /\ U16EntryMax > 0
  BY FormatAssumption
<1> DEFINE h == Eocdr(Len(entries), fin.cdSize, fin.cdOffset, comment)
           e == [off |-> pos, hdr |-> h]
           z == [off |-> fin.eocdr64Offset,
                 hdr |-> Zip64Eocdr(Len(entries), fin.cdSize, fin.cdOffset)]
           l == [off |-> fin.eocdr64Offset + 56,
                 hdr |-> Zip64EocdrLocator(fin.eocdr64Offset)]
<1>1. EndingAt(out, sinkLen, "eocdr") = {e}
  <2>1. Records(out, "eocdr") = {e}
    BY <1>0 DEF EndRecords
  <2>2. e.off = pos /\ e.hdr.len = 22 + comment /\ e.off + e.hdr.len = sinkLen
    BY <1>0 DEF Eocdr, TailPos
  <2> HIDE DEF e
  <2>3. QED
    BY <2>1, <2>2 DEF Records, EndingAt
<1>2. Zip64Marked(h) <=> NeedsZip64
  <2>1. CASE NeedsZip64
    BY <2>1 DEF NeedsZip64, Eocdr, Zip64Marked
  <2>2. CASE ~NeedsZip64
    <3>1. Len(entries) < U16EntryMax /\ fin.cdSize < U32Max /\ fin.cdOffset < U32Max
      BY <1>0, <1>a, <2>2 DEF NeedsZip64, ArchiveNeedsZip64
    <3>2. /\ h.total = AsU16(Len(entries)) /\ h.cdSize = AsU32(fin.cdSize)
          /\ h.cdOffset = AsU32(fin.cdOffset)
      BY <2>2 DEF NeedsZip64, Eocdr
    <3>3. /\ AsU16(Len(entries)) = Len(entries) /\ AsU32(fin.cdSize) = fin.cdSize
          /\ AsU32(fin.cdOffset) = fin.cdOffset
      BY <1>0, <1>a, <3>1, SmallFieldKept
    <3>4. QED
      BY <1>0, <1>a, <2>2, <3>1, <3>2, <3>3 DEF Zip64Marked
  <2>3. QED
    BY <2>1, <2>2
<1>3. CASE ~NeedsZip64
  <2>1. Len(entries) < U16EntryMax /\ fin.cdSize < U32Max /\ fin.cdOffset < U32Max
    BY <1>0, <1>a, <1>3 DEF NeedsZip64, ArchiveNeedsZip64
  <2>2. Where(h) = Directory
    <3>1. /\ h.total = AsU16(Len(entries)) /\ h.cdSize = AsU32(fin.cdSize)
          /\ h.cdOffset = AsU32(fin.cdOffset)
      BY <1>3 DEF NeedsZip64, Eocdr
    <3>2. QED
      BY <1>0, <1>a, <2>1, <3>1, SmallFieldKept DEF Where, Directory
  <2>3. e.hdr = h
    OBVIOUS
  <2> HIDE DEF h, e
  <2>4. QED
    BY <1>1, <1>2, <1>3, <2>2, <2>3 DEF Directories
<1>4. CASE NeedsZip64
  <2>1. EndingAt(out, e.off, "locator") = {l}
    <3>1. Records(out, "locator") = {l}
      BY <1>0, <1>4 DEF EndRecords
    <3>2. l.off + l.hdr.len = e.off
      BY <1>0, <1>4 DEF Zip64EocdrLocator, TailPos
    <3> HIDE DEF e, l
    <3>3. QED
      BY <3>1, <3>2 DEF Records, EndingAt
  <2>2. At(out, l.hdr.offset, "eocdr64") = {z}
    <3>1. Records(out, "eocdr64") = {z}
      BY <1>0, <1>4 DEF EndRecords
    <3>2. z.off = l.hdr.offset
      BY DEF Zip64EocdrLocator
    <3> HIDE DEF z, l
    <3>3. QED
      BY <3>1, <3>2 DEF Records, At
  <2>3. Where(z.hdr) = Directory /\ e.hdr = h
    BY DEF Where, Zip64Eocdr, Directory
  <2> HIDE DEF h, e, z, l
  <2>4. QED
    BY <1>1, <1>2, <1>4, <2>1, <2>2, <2>3 DEF Directories
<1>5. QED
  BY <1>3, <1>4

(* Headers at increasing offsets are as many as they are.                  *)
LEMMA ListedCount ==
  ASSUME NEW f, NEW n \in Nat,
         \A i \in 1..n : f[i] \in Nat,
         \A i, j \in 1..n : i < j => f[i] < f[j]
  PROVE  Cardinality(Listed(f, n)) = n
<1> DEFINE g == [i \in 1..n |-> [off |-> f[i], hdr |-> CentralDirEntry(entries[i])]]
<1>1. g \in [1..n -> Listed(f, n)]
  BY DEF Listed
<1>2. ASSUME NEW i \in 1..n, NEW j \in 1..n, g[i] = g[j] PROVE i = j
  <2>1. f[i] = f[j]
    <3>1. g[i].off = f[i] /\ g[j].off = f[j]
      OBVIOUS
    <3>2. QED
      BY <1>2, <3>1
  <2>2. QED
    BY <2>1
<1>3. ASSUME NEW x \in Listed(f, n) PROVE \E i \in 1..n : g[i] = x
  BY <1>3 DEF Listed
<1> HIDE DEF g
<1>4. g \in Bijection(1..n, Listed(f, n))
  BY <1>1, <1>2, <1>3, Fun_IsBij
<1>5. QED
  BY <1>4, FS_CountingElements DEF ExistsBijection

(* The headers between the bounds of the directory are those of the        *)
(* entries, in order and without a gap.                                    *)
LEMMA HeadersFound ==
  ASSUME ArchiveInv, pc = "done"
  PROVE  \E f : /\ Placement(f, fin.cdOffset, Len(entries))
                /\ f[Len(entries) + 1] = EndOf(Directory)
                /\ Headers(out, Directory) = Listed(f, Len(entries))
<1>0. /\ entries \in Seq(StoredEntries) /\ Len(entries) \in Nat /\ DirectoryPlaced
      /\ fin.cdSize \in Nat /\ fin.cdOffset \in Nat
  BY DEF ArchiveInv, TailInv, FinishPcs, Bookkeeping, TypeOK
<1> DEFINE n == Len(entries)
<1>1. PICK f : /\ Placement(f, fin.cdOffset, n) /\ Records(out, "cd") = Listed(f, n)
               /\ f[n + 1] = fin.cdOffset + fin.cdSize
  BY <1>0 DEF DirectoryPlaced
<1>2. ASSUME NEW x \in Listed(f, n)
      PROVE  fin.cdOffset <= x.off /\ x.off + x.hdr.len <= fin.cdOffset + fin.cdSize
  <2>1. PICK i \in 1..n : x = [off |-> f[i], hdr |-> CentralDirEntry(entries[i])]
    BY <1>2 DEF Listed
  <2>2. /\ f[1] = fin.cdOffset /\ f \in [1..(n + 1) -> Nat]
        /\ f[i + 1] = f[i] + CentralDirEntry(entries[i]).len
        /\ \A j, k \in 1..(n + 1) : j < k => f[j] < f[k]
    BY <1>1 DEF Placement
  <2>3. 1 \in 1..(n + 1) /\ i \in 1..(n + 1) /\ i + 1 \in 1..(n + 1) /\ n + 1 \in 1..(n + 1)
    BY <1>0
  <2>4. f[1] <= f[i] /\ f[i + 1] <= f[n + 1]
    <3>1. i = 1 \/ 1 < i
      OBVIOUS
    <3>2. i + 1 = n + 1 \/ i + 1 < n + 1
      BY <1>0
    <3>3. f[1] \in Nat /\ f[i] \in Nat /\ f[i + 1] \in Nat /\ f[n + 1] \in Nat
      BY <2>2, <2>3
    <3>4. QED
      BY <2>2, <2>3, <3>1, <3>2, <3>3
  <2>5. QED
    BY <1>1, <2>1, <2>2, <2>4
<1>3. Directory.cdOffset = fin.cdOffset /\ EndOf(Directory) = fin.cdOffset + fin.cdSize
      /\ Directory.cdSize = fin.cdSize
  BY DEF Directory, EndOf
<1>4. Headers(out, Directory) = Listed(f, n)
  <2>1. Headers(out, Directory) \subseteq Records(out, "cd")
    BY DEF Headers, Records
  <2>2. \A x \in Records(out, "cd") : x \in Listed(f, n) => x \in Headers(out, Directory)
    BY <1>2, <1>3 DEF Headers, Records
  <2>3. QED
    BY <1>1, <2>1, <2>2
<1>5. QED
  BY <1>1, <1>3, <1>4

LEMMA DirectoryContiguous ==
  ASSUME ArchiveInv, pc = "done"
  PROVE  Contiguous(out, Directory)
<1> DEFINE n == Len(entries)
           H == Headers(out, Directory)
<1>0. n \in Nat /\ fin.cdOffset \in Nat /\ fin.cdSize \in Nat
  BY DEF ArchiveInv, Bookkeeping, TypeOK
<1>1. PICK f : /\ Placement(f, fin.cdOffset, n) /\ f[n + 1] = EndOf(Directory)
               /\ H = Listed(f, n)
  BY HeadersFound
<1>2. /\ f[1] = fin.cdOffset /\ f \in [1..(n + 1) -> Nat]
      /\ \A i \in 1..n : f[i + 1] = f[i] + CentralDirEntry(entries[i]).len
      /\ \A i, j \in 1..(n + 1) : i < j => f[i] < f[j]
  BY <1>1 DEF Placement
<1>3. Cardinality(H) = n
  <2>1. \A i \in 1..n : i \in 1..(n + 1)
    BY <1>0
  <2>2. /\ \A i \in 1..n : f[i] \in Nat
        /\ \A i, j \in 1..n : i < j => f[i] < f[j]
    BY <1>2, <2>1
  <2> HIDE DEF H, n
  <2>3. Cardinality(Listed(f, n)) = n
    BY <1>0, <2>2, ListedCount
  <2>4. QED
    BY <1>1, <2>3 DEF n
<1>4. Directory.total = n /\ Directory.cdOffset = fin.cdOffset /\ Directory.cdSize = fin.cdSize
      /\ EndOf(Directory) = fin.cdOffset + fin.cdSize
  BY DEF Directory, EndOf
<1>5. n = 0 => fin.cdSize = 0
  BY <1>0, <1>1, <1>2, <1>4
<1>6. n > 0 => \E x \in H : x.off = fin.cdOffset
  <2> SUFFICES ASSUME n > 0 PROVE \E x \in H : x.off = fin.cdOffset
    OBVIOUS
  <2>1. 1 \in 1..n
    BY <1>0
  <2>2. [off |-> f[1], hdr |-> CentralDirEntry(entries[1])] \in H
    BY <1>1, <2>1 DEF Listed
  <2>3. QED
    BY <1>2, <2>2
<1>7. ASSUME NEW x \in H
      PROVE  LET next == x.off + x.hdr.len
             IN next = EndOf(Directory) \/ \E y \in H : y.off = next
  <2>1. PICK i \in 1..n : x = [off |-> f[i], hdr |-> CentralDirEntry(entries[i])]
    BY <1>1, <1>7 DEF Listed
  <2>2. x.off + x.hdr.len = f[i + 1]
    BY <1>2, <2>1
  <2>3. CASE i = n
    BY <1>1, <2>2, <2>3
  <2>4. CASE i # n
    <3>1. i + 1 \in 1..n
      BY <1>0, <2>4
    <3>2. [off |-> f[i + 1], hdr |-> CentralDirEntry(entries[i + 1])] \in H
      BY <1>1, <3>1 DEF Listed
    <3>3. QED
      BY <2>2, <3>2
  <2>5. QED
    BY <2>3, <2>4
<1> HIDE DEF H, n
<1>8. QED
  BY <1>3, <1>4, <1>5, <1>6, <1>7 DEF Contiguous, H

(* When finish returns Ok a reader that knows only the sink finds every    *)
(* entry as it was recorded, for every archive.                            *)
THEOREM ArchiveAlwaysReadable == Spec => []ArchiveReadable
<1>1. ArchiveInv => ArchiveReadable
  <2> SUFFICES ASSUME ArchiveInv, pc = "done" PROVE Readable(out, sinkLen)
    BY DEF ArchiveReadable
  <2>0. /\ entries \in Seq(StoredEntries) /\ holder = "caller" /\ fin.cdSize \in Nat
        /\ fin.cdOffset \in Nat /\ fin.eocdr64Offset \in Nat /\ comment \in Nat
        /\ DirectoryPlaced /\ TailPos /\ pos \in Nat
    BY WriterAssumption DEF ArchiveInv, KindInv, Bookkeeping, TypeOK, TailInv, FinishPcs
  <2>1. Directory \in Directories(out, sinkLen)
    BY DirectoryFound
  <2>2. Contiguous(out, Directory)
    BY DirectoryContiguous
  <2>3. EndOf(Directory) <= sinkLen
    <3>1. EndOf(Directory) = fin.eocdr64Offset
      BY <2>0 DEF DirectoryPlaced, EndOf, Directory
    <3>2. fin.eocdr64Offset <= pos /\ sinkLen = pos + 22 + comment
      BY <2>0 DEF TailPos
    <3>3. QED
      BY <2>0, <3>1, <3>2
  <2>4. PICK f : Headers(out, Directory) = Listed(f, Len(entries))
    BY HeadersFound
  <2>5. \A i \in 1..Len(entries) : entries[i] \in StoredEntries
    BY <2>0
  <2>6. ASSUME NEW x \in Headers(out, Directory) PROVE MemberPresent(out, x.hdr)
    <3>1. PICK i \in 1..Len(entries) : x.hdr = CentralDirEntry(entries[i])
      BY <2>4, <2>6 DEF Listed
    <3>2. EntrySound(entries[i])
      BY DEF EntrySound, ArchiveInv, SinkInv, RegisteredEntriesInSink, ChecksumInv,
             ChecksumCoversData, KindInv
    <3>3. QED
      BY <2>5, <3>1, <3>2, SoundEntryPresent
  <2>7. ASSUME NEW l \in out, l.hdr.rec = "lfh"
        PROVE  \E x \in Headers(out, Directory) : Decoded(x.hdr).offset = l.off
    <3>1. PICK i \in 1..Len(entries) : entries[i].offset = l.off
      BY <2>0, <2>7 DEF ArchiveInv, SinkInv, HeadersOwned, EntryPcs
    <3> DEFINE x == [off |-> f[i], hdr |-> CentralDirEntry(entries[i])]
    <3>2. x \in Headers(out, Directory)
      BY <2>4 DEF Listed
    <3>3. Decoded(x.hdr).offset = l.off
      BY <2>5, <3>1, DecodedIsRecorded
    <3>4. QED
      BY <3>2, <3>3
  <2>8. QED
    BY <2>1, <2>2, <2>3, <2>6, <2>7 DEF Readable
<1>2. QED
  BY <1>1, ArchiveAlways, PTL
=============================================================================
