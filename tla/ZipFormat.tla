------------------------------ MODULE ZipFormat ------------------------------
(***************************************************************************)
(* The records of a ZIP archive as src/src/zip_format builds them.  A      *)
(* record is modelled by its length in bytes and by the fields a reader    *)
(* navigates with; bytes, signatures and reserved fields are left out.     *)
(* The fixed lengths are the literal ones of the code.  The field widths   *)
(* are constants, so that a small instance reaches the ZIP64 thresholds.   *)
(***************************************************************************)
EXTENDS Integers, Sequences

CONSTANTS
  U32Max,       \* u32::MAX, the largest 32-bit field value and the ZIP64 marker
  U16EntryMax,  \* 0xFFFF, the same for the 16-bit entry count of the EOCDR
  MaxFieldLen,  \* 0xFFFF, the longest entry name or comment
  DosMinUnix,   \* first and last Unix second a DOS timestamp can represent
  DosMaxUnix

ASSUME FormatAssumption ==
  /\ U32Max \in Nat /\ U32Max > 0
  /\ U16EntryMax \in Nat /\ U16EntryMax > 0
  /\ MaxFieldLen \in Nat /\ MaxFieldLen > 0
  /\ DosMinUnix \in Nat /\ DosMaxUnix \in Nat /\ DosMinUnix <= DosMaxUnix
-----------------------------------------------------------------------------
\* `x as u32`, `x as u16`: the casts keep the low bits.
AsU32(x) == x % (U32Max + 1)
AsU16(x) == x % (U16EntryMax + 1)

DataDescriptorNeedsZip64(csize, usize) == csize >= U32Max \/ usize >= U32Max

(* Fault: the marker value itself is taken to fit its 32-bit field.        *)
EntryNeedsZip64Above(csize, usize, offset) ==
  csize > U32Max \/ usize > U32Max \/ offset > U32Max

EntryNeedsZip64(csize, usize, offset) ==
  csize >= U32Max \/ usize >= U32Max \/ offset >= U32Max

ArchiveNeedsZip64(total, cdSize, cdOffset) ==
  total >= U16EntryMax \/ cdSize >= U32Max \/ cdOffset >= U32Max
-----------------------------------------------------------------------------
(* Timestamps.  A SystemTime is a signed number of seconds since the Unix  *)
(* epoch.  The calendar conversion is one-to-one on two-second units, so   *)
(* a DOS timestamp is modelled by the clamped second divided by two.       *)
(* Fault: no clamp, so a time before 1970 differs between the two headers. *)
UnixSecsToMsDosUnclamped(t) == t \div 2

UnixSecsToMsDos(t) ==
  (IF t < DosMinUnix THEN DosMinUnix
   ELSE IF t > DosMaxUnix THEN DosMaxUnix ELSE t) \div 2

SystemTimeToUnixSecs(t) == IF t < 0 THEN 0 ELSE t

(* A request is what the caller hands to start_file, add_directory or      *)
(* add_symlink: the kind of entry, whether the name and target pass the    *)
(* content checks (sane), the lengths and the metadata that end up in the  *)
(* headers.  utf8Name / utf8Comment: the field has a non-ASCII byte.       *)
(* perms: the bits of the mode the caller set, if any (setPerms).          *)
Kinds == {"file", "directory", "symlink"}

RequestType ==
  [kind: Kinds, sane: BOOLEAN, nameLen: Nat, commentLen: Nat, targetLen: Nat,
   utf8Name: BOOLEAN, utf8Comment: BOOLEAN, mtime: Int, ids: BOOLEAN,
   setPerms: BOOLEAN, perms: SUBSET (0..31)]

EntryNeedsUtf8Flag(r) == r.utf8Name \/ r.utf8Comment

(* The extended timestamp: absent for second 0, saturated to 32 bits.      *)
ExtendedTimestamp(secs) ==
  IF secs = 0 THEN <<>> ELSE <<IF secs < U32Max THEN secs ELSE U32Max>>

TimestampExtraLen(t) == IF SystemTimeToUnixSecs(t) # 0 THEN 9 ELSE 0

UnixUidGidExtraLen(ids) == IF ids THEN 15 ELSE 0

(* Zip64Extra: all three values, in the order they are written, or none.   *)
Zip64Extra(usize, csize, offset) ==
  IF EntryNeedsZip64(csize, usize, offset) THEN <<usize, csize, offset>> ELSE <<>>

Zip64ExtraLen(values) == IF values = <<>> THEN 0 ELSE 4 + 8 * Len(values)
-----------------------------------------------------------------------------
(* A mode is the set of the bits that are set in it.  The external file    *)
(* attributes hold it in the high half, `<< 16` dropping what does not fit *)
(* a u32, and the MS-DOS directory attribute 0x10 in the low half.         *)
FileTypeBit ==
  [kind \in Kinds |->
    CASE kind = "symlink"   -> {13, 15}  \* S_IFLNK
      [] kind = "directory" -> {14}      \* S_IFDIR
      [] kind = "file"      -> {15}]     \* S_IFREG

DefaultPerm ==
  [kind \in Kinds |->
    CASE kind = "symlink"   -> 0..8                      \* 0o777
      [] kind = "directory" -> {0, 2, 3, 5, 6, 7, 8}     \* 0o755
      [] kind = "file"      -> {2, 5, 7, 8}]             \* 0o644

(* Fault: the default stays when the caller has set a mode.                *)
ExternalFileAttributesJoined(r) ==
  LET mode == r.perms \cup DefaultPerm[r.kind] \cup FileTypeBit[r.kind]
  IN {bit + 16 : bit \in mode \cap 0..15}
       \cup (IF r.kind = "directory" THEN {4} ELSE {})

ExternalFileAttributes(r) ==
  LET mode == (IF r.setPerms THEN r.perms ELSE DefaultPerm[r.kind])
                \cup FileTypeBit[r.kind]
  IN {bit + 16 : bit \in mode \cap 0..15}
       \cup (IF r.kind = "directory" THEN {4} ELSE {})
-----------------------------------------------------------------------------
LocalFileHeader(r, stored) ==
  [rec |-> "lfh",
   len |-> 30 + r.nameLen + TimestampExtraLen(r.mtime),
   version |-> IF stored THEN 10 ELSE 20,
   stored |-> stored,
   dataDesc |-> r.kind # "directory",
   utf8 |-> EntryNeedsUtf8Flag(r),
   time |-> UnixSecsToMsDos(r.mtime),
   utime |-> ExtendedTimestamp(SystemTimeToUnixSecs(r.mtime)),
   req |-> r]

(* A CRC-32 is modelled by how many of the entry's bytes were hashed.      *)
DataDescriptor(crc, csize, usize) ==
  LET zip64 == DataDescriptorNeedsZip64(csize, usize)
  IN [rec |-> "dd",
      len |-> IF zip64 THEN 24 ELSE 16,
      crc |-> crc,
      csize |-> IF zip64 THEN csize ELSE AsU32(csize),
      usize |-> IF zip64 THEN usize ELSE AsU32(usize)]

(* StoredEntry::to_central_dir_entry                                       *)
ToCentralDirEntry(e) ==
  LET secs  == SystemTimeToUnixSecs(e.req.mtime)
      zip64 == Zip64Extra(e.usize, e.csize, e.offset)
  IN [extraLen |-> TimestampExtraLen(secs) + UnixUidGidExtraLen(e.req.ids)
                     + Zip64ExtraLen(zip64),
      version |-> IF zip64 # <<>> THEN 45 ELSE IF e.stored THEN 10 ELSE 20,
      dataDesc |-> e.req.kind # "directory",
      utf8 |-> EntryNeedsUtf8Flag(e.req),
      time |-> UnixSecsToMsDos(secs),
      utime |-> ExtendedTimestamp(secs),
      attrs |-> ExternalFileAttributes(e.req),
      zip64 |-> zip64]

(* CentralDirEntry::write_to decides again whether the fields fit.         *)
CentralDirEntry(e) ==
  LET c        == ToCentralDirEntry(e)
      useZip64 == EntryNeedsZip64(e.csize, e.usize, e.offset)
      Field(x) == IF useZip64 THEN U32Max ELSE AsU32(x)
  IN [rec |-> "cd",
      len |-> 46 + e.req.nameLen + c.extraLen + e.req.commentLen,
      version |-> IF useZip64 THEN 45 ELSE c.version,
      stored |-> e.stored, dataDesc |-> c.dataDesc, utf8 |-> c.utf8,
      time |-> c.time, utime |-> c.utime, attrs |-> c.attrs, crc |-> e.crc,
      csize |-> Field(e.csize), usize |-> Field(e.usize), offset |-> Field(e.offset),
      zip64 |-> c.zip64,
      req |-> e.req]

Zip64Eocdr(total, cdSize, cdOffset) ==
  [rec |-> "eocdr64", len |-> 56,
   total |-> total, cdSize |-> cdSize, cdOffset |-> cdOffset]

Zip64EocdrLocator(offset) == [rec |-> "locator", len |-> 20, offset |-> offset]

Eocdr(total, cdSize, cdOffset, commentLen) ==
  LET zip64 == ArchiveNeedsZip64(total, cdSize, cdOffset)
  IN [rec |-> "eocdr", len |-> 22 + commentLen,
      total |-> IF zip64 THEN U16EntryMax ELSE AsU16(total),
      cdSize |-> IF zip64 THEN U32Max ELSE AsU32(cdSize),
      cdOffset |-> IF zip64 THEN U32Max ELSE AsU32(cdOffset)]
=============================================================================
