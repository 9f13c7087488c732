----------------------------- MODULE ZipReader -----------------------------
(***************************************************************************)
(* What a reader finds in a finished archive: it starts from the record at *)
(* the end of the sink, follows the offsets it reads there, and takes no   *)
(* value from the writer's state.  A file is a set `o` of complete records *)
(* [off, hdr] and its size in bytes.  The rules are those of the ZIP       *)
(* format the tests' reader applies: a field that holds its largest value  *)
(* is replaced by the next value of the ZIP64 record or extra field.       *)
(***************************************************************************)
EXTENDS ZipFormat, FiniteSets

At(o, off, kind) == {x \in o : x.off = off /\ x.hdr.rec = kind}

EndingAt(o, end, kind) ==
  {x \in o : x.hdr.rec = kind /\ x.off + x.hdr.len = end}

(* The central directory the end records point to: one [total, cdSize,     *)
(* cdOffset] if they are consistent, none otherwise.                       *)
Zip64Marked(h) ==
  h.total = U16EntryMax \/ h.cdSize = U32Max \/ h.cdOffset = U32Max

Where(h) == [total |-> h.total, cdSize |-> h.cdSize, cdOffset |-> h.cdOffset]

Directories(o, size) ==
  UNION { IF ~Zip64Marked(e.hdr) THEN {Where(e.hdr)}
          ELSE UNION { {Where(z.hdr) : z \in At(o, l.hdr.offset, "eocdr64")}
                       : l \in EndingAt(o, e.off, "locator") }
        : e \in EndingAt(o, size, "eocdr") }

(* The central headers between cdOffset and cdOffset + cdSize.             *)
Headers(o, d) ==
  {x \in o : x.hdr.rec = "cd" /\ d.cdOffset <= x.off
                              /\ x.off + x.hdr.len <= d.cdOffset + d.cdSize}

EndOf(d) == d.cdOffset + d.cdSize

(* d.total headers follow one another from cdOffset, with no gap.          *)
Contiguous(o, d) ==
  LET H == Headers(o, d)
  IN /\ Cardinality(H) = d.total
     /\ d.total = 0 => d.cdSize = 0
     /\ d.total > 0 => \E x \in H : x.off = d.cdOffset
     /\ \A x \in H : LET next == x.off + x.hdr.len
                     IN next = EndOf(d) \/ \E y \in H : y.off = next

(* Sizes and offset of central header h: each field that holds its marker  *)
(* takes the next value of the ZIP64 extra field.                          *)
Mark(field) == IF field = U32Max THEN 1 ELSE 0

Decodable(h) ==
  /\ Mark(h.usize) + Mark(h.csize) + Mark(h.offset) <= Len(h.zip64)
  /\ h.zip64 # <<>> => h.version >= 45

Decoded(h) ==
  LET Field(x, before) == IF x = U32Max THEN h.zip64[before + 1] ELSE x
  IN [usize  |-> Field(h.usize, 0),
      csize  |-> Field(h.csize, Mark(h.usize)),
      offset |-> Field(h.offset, Mark(h.usize) + Mark(h.csize))]

(* The mode an unpacker on Unix restores, and the kind it takes the entry  *)
(* for: the one whose S_IFMT bits the mode holds.                          *)
Mode(h)    == {bit - 16 : bit \in h.attrs \cap 16..31}
ModeTypes  == [file |-> {15}, directory |-> {14}, symlink |-> {13, 15}]
KindsOf(h) == {kind \in DOMAIN ModeTypes : ModeTypes[kind] = Mode(h) \cap 12..15}

(* The entry is restored as what it was added as, with the permissions the *)
(* caller set.  A mode that names another file type is not the caller's to *)
(* set ("the file type bit is added automatically by the writer").         *)
ForeignType(r) == \E bit \in r.perms \cap 12..15 : bit \notin ModeTypes[r.kind]

AttributesRestored(h) ==
  LET r == h.req
  IN /\ ForeignType(r) \/ KindsOf(h) = {r.kind}
     /\ 4 \in h.attrs <=> r.kind = "directory"
     /\ r.setPerms => Mode(h) \cap 0..11 = r.perms \cap 0..11

(* The local header and the descriptor agree with the central header.      *)
DescriptorMatches(o, after, h, m) ==
  \E d \in At(o, after, "dd") :
    /\ d.hdr.csize = m.csize /\ d.hdr.usize = m.usize /\ d.hdr.crc = h.crc
    /\ d.hdr.len = IF m.csize >= U32Max \/ m.usize >= U32Max THEN 24 ELSE 16

MemberPresent(o, h) ==
  /\ Decodable(h) /\ AttributesRestored(h)
  /\ h.crc = Decoded(h).usize   \* the checksum of the bytes that are unpacked
  /\ LET m == Decoded(h)
     IN \E l \in At(o, m.offset, "lfh") :
          /\ l.hdr.req = h.req
          /\ l.hdr.stored = h.stored /\ l.hdr.utf8 = h.utf8
          /\ l.hdr.time = h.time /\ l.hdr.utime = h.utime
          /\ l.hdr.dataDesc = h.dataDesc
          /\ h.stored => m.csize = m.usize
          /\ IF h.dataDesc
             THEN DescriptorMatches(o, m.offset + l.hdr.len + m.csize, h, m)
             ELSE m.csize = 0 /\ m.usize = 0

(* The archive is well formed and lists every local header it holds.       *)
Readable(o, size) ==
  \E d \in Directories(o, size) :
    /\ Contiguous(o, d) /\ EndOf(d) <= size
    /\ \A x \in Headers(o, d) : MemberPresent(o, x.hdr)
    /\ \A l \in {x \in o : x.hdr.rec = "lfh"} :
         \E x \in Headers(o, d) : Decoded(x.hdr).offset = l.off

(* The members in the order of their central headers.                      *)
Listing(o, size) ==
  LET d == CHOOSE d \in Directories(o, size) : TRUE
      H == Headers(o, d)
      Nth(i) == CHOOSE x \in H : Cardinality({y \in H : y.off < x.off}) = i - 1
      Member(h) == [req |-> h.req, csize |-> Decoded(h).csize, usize |-> Decoded(h).usize]
  IN [i \in 1..Cardinality(H) |-> Member(Nth(i).hdr)]
=============================================================================
