--------------------------- MODULE AddFileProofs ---------------------------
(***************************************************************************)
(* Proofs about AddFile, for any files, lengths and number of calls.       *)
(***************************************************************************)
EXTENDS AddFile, TLAPS

Metadata == [options: Options, len: 0..MaxLen]

LEMMA MetadataType ==
  ASSUME NEW n \in Inode
  PROVE  [options |-> FromMetadata(n), len |-> n.len] \in Metadata
<1>1. n.mtime \in Int /\ n.mode \cap 0..11 \in SUBSET (0..31) /\ n.len \in 0..MaxLen
  BY DEF Inode
<1>2. FromMetadata(n) \in Options
  BY <1>1 DEF FromMetadata, WithUidGid, WithUnixPermissions, Default, Options
<1>3. QED
  BY <1>1, <1>2 DEF Metadata

LEMMA FollowedType ==
  ASSUME nodes \in [Inodes -> Inode], NEW i \in Inodes \cup {None}
  PROVE  /\ Followed(i) \in Inodes \cup {None}
         /\ \A j \in Inodes \cup {None} :
              TypeOf(j) # "none" /\ j # None => j \in Inodes /\ TypeOf(j) = nodes[j].type
         /\ TypeOf(None) = "none"
<1>1. \A j \in Inodes : nodes[j] \in Inode /\ nodes[j].to \in Inodes \cup {None}
  BY DEF Inode
<1>2. QED
  BY <1>1 DEF Followed, TypeOf
-----------------------------------------------------------------------------
(* Type correctness.                                                       *)

LEMMA TypeInit == FileInit => FileTypeOK
<1> SUFFICES ASSUME FileInit PROVE FileTypeOK
  OBVIOUS
<1>1. 0 \in 0..MaxLen /\ nodes \in [Inodes -> Inode]
  BY FileAssumption DEF FileInit
<1>2. members = <<>> /\ members \in Seq(Member)
  BY DEF FileInit, Init
<1>3. QED
  BY <1>1, <1>2 DEF FileInit, Init, FileTypeOK

LEMMA DoneType ==
  ASSUME FileTypeOK, Done, UNCHANGED fsVars, state' # "adding", members' \in Seq(Member)
  PROVE  FileTypeOK'
<1>1. 0 \in 0..MaxLen
  BY FileAssumption
<1>2. QED
  BY <1>1 DEF FileTypeOK, Done, fsVars

LEMMA TypeStep == FileTypeOK /\ [FileNext]_fileVars => FileTypeOK'
<1> SUFFICES ASSUME FileTypeOK, [FileNext]_fileVars PROVE FileTypeOK'
  OBVIOUS
<1> DEFINE i == Followed(path)
<1>0. /\ nodes \in [Inodes -> Inode] /\ path \in Inodes \cup {None}
      /\ members \in Seq(Member)
      /\ state = "adding" <=> phase \in {"copy", "finish"}
  BY DEF FileTypeOK
<1>1. i \in Inodes \cup {None} /\ (TypeOf(i) # "none" => i # None)
  BY <1>0, FollowedType
<1>2. ASSUME i \in Inodes
      PROVE  /\ nodes[i].len \in 0..MaxLen
             /\ [options |-> FromMetadata(nodes[i]), len |-> nodes[i].len] \in Metadata
  BY <1>0, <1>2, MetadataType DEF Inode
<1> HIDE DEF i
<1>3. CASE Call
  BY <1>3 DEF Call, FileTypeOK, cVars, fsVars
<1>4. CASE Stat
  <2>1. Stat => \/ \E e : Refused(e) /\ UNCHANGED fsVars /\ phase = "stat"
                \/ TypeOf(i) = "file" /\ Examined(i) /\ phase = "stat"
    BY DEF Stat, i
  <2>2. CASE \E e : Refused(e) /\ UNCHANGED fsVars /\ phase = "stat"
    BY <1>0, <2>2, DoneType DEF Refused
  <2>3. CASE TypeOf(i) = "file" /\ Examined(i) /\ phase = "stat"
    BY <1>1, <1>2, <2>3 DEF Examined, FileTypeOK, Metadata, cVars, fsVars
  <2>4. QED
    BY <1>4, <2>1, <2>2, <2>3
<1>5. CASE Open
  <2>1. Open => /\ phase = "open" /\ UNCHANGED fsVars
                /\ \/ Refused("Io")
                   \/ /\ i \in Inodes /\ phase' \in {"blocked", "start"}
                      /\ handle' = i /\ atOpen' = nodes[i].len
                      /\ UNCHANGED <<cVars, meta, read>>
    BY <1>1 DEF Open, i
  <2>2. CASE Refused("Io")
    BY <1>0, <1>5, <2>1, <2>2, DoneType DEF Refused
  <2>3. CASE /\ i \in Inodes /\ phase' \in {"blocked", "start"}
             /\ handle' = i /\ atOpen' = nodes[i].len /\ UNCHANGED <<cVars, meta, read>>
    BY <1>2, <1>5, <2>1, <2>3, FileAssumption DEF FileTypeOK, cVars, fsVars
  <2>4. QED
    BY <1>5, <2>1, <2>2, <2>3
<1>6. CASE StartRefused
  BY <1>0, <1>6, DoneType DEF StartRefused, Refuse
<1>7. CASE StartEntry
  BY <1>7 DEF StartEntry, Begin, FileTypeOK, fsVars
<1>8. CASE Copy
  <2>1. handle \in Inodes
    BY <1>8 DEF Copy, FileTypeOK
  <2>2. Available(handle) \in 0..MaxLen
    BY <1>0, <2>1, FileAssumption DEF Inode, Available
  <2>3. read' \in 0..MaxLen
    BY <1>8, <2>2, FileAssumption DEF Copy, FileTypeOK
  <2>4. QED
    BY <1>8, <2>3 DEF Copy, FileTypeOK, cVars, fsVars
<1>9. CASE EndOfFile
  BY <1>9 DEF EndOfFile, FileTypeOK, cVars, fsVars
<1>10. CASE FinishEntry
  <2>1. state' = "open" /\ Done /\ UNCHANGED fsVars
    BY <1>10 DEF FinishEntry, Commit
  <2>2. members' \in Seq(Member)
    <3> DEFINE m == [options |-> meta.options, from |-> handle, atOpen |-> atOpen,
                     len |-> read]
    <3>1. members' = Append(members, m) /\ members'[Len(members')] \in Member
      BY <1>10 DEF FinishEntry, Commit
    <3> HIDE DEF m
    <3>2. members'[Len(members')] = m
      BY <1>0, <3>1
    <3>3. QED
      BY <1>0, <3>1, <3>2
  <2>3. QED
    BY <2>1, <2>2, DoneType
<1>11. CASE Broken
  BY <1>0, <1>11, DoneType DEF Broken, Lose
<1>12. CASE Cancel
  BY <1>0, <1>12, DoneType DEF Cancel, Lose, cVars
<1>13. CASE Grow
  <2>1. PICK k \in Inodes : /\ nodes[k].type = "file" /\ nodes[k].len < MaxLen
                            /\ nodes' = [nodes EXCEPT ![k].len = @ + 1]
    BY <1>13 DEF Grow
  <2>2. nodes[k].len + 1 \in 0..MaxLen /\ nodes[k] \in Inode
    BY <1>0, <2>1, FileAssumption DEF Inode
  <2>3. [nodes[k] EXCEPT !.len = @ + 1] \in Inode
    BY <2>2 DEF Inode
  <2>4. nodes' \in [Inodes -> Inode]
    BY <1>0, <2>1, <2>3
  <2>5. QED
    BY <1>13, <2>4 DEF Grow, FileTypeOK, cVars, callVars
<1>14. CASE Replace
  <2>1. nodes' \in [Inodes -> Inode] /\ path' \in Inodes \cup {None}
    <3>1. CASE path' \in Inodes \cup {None} /\ UNCHANGED nodes
      BY <1>0, <3>1
    <3>2. CASE \E k \in Inodes, j \in Inodes \cup {None} :
                 /\ nodes[k].type = "symlink" /\ nodes' = [nodes EXCEPT ![k].to = j]
                 /\ UNCHANGED path
      <4>1. PICK k \in Inodes, j \in Inodes \cup {None} :
              nodes' = [nodes EXCEPT ![k].to = j] /\ UNCHANGED path
        BY <3>2
      <4>2. [nodes[k] EXCEPT !.to = j] \in Inode
        BY <1>0 DEF Inode
      <4>3. QED
        BY <1>0, <4>1, <4>2
    <3>3. QED
      BY <1>14, <3>1, <3>2 DEF Replace
  <2>2. QED
    BY <1>14, <2>1 DEF Replace, FileTypeOK, cVars, callVars
<1>15. CASE OpenAnswered
  <2>1. CASE Refused("Io")
    BY <1>0, <1>15, <2>1, DoneType DEF OpenAnswered, Refused
  <2>2. CASE phase' = "start" /\ UNCHANGED <<cVars, meta, handle, atOpen, read>>
    BY <1>15, <2>2 DEF OpenAnswered, FileTypeOK, cVars, fsVars
  <2>3. QED
    BY <1>15, <2>1, <2>2 DEF OpenAnswered
<1>16. CASE UNCHANGED fileVars
  BY <1>16 DEF fileVars, cVars, fsVars, callVars, FileTypeOK
<1>17. QED
  BY <1>3, <1>4, <1>5, <1>6, <1>7, <1>8, <1>9, <1>10, <1>11, <1>12, <1>13, <1>14, <1>15, <1>16
     DEF FileNext, AddFileStep

(* Every variable keeps its type; an entry is under construction exactly   *)
(* while its file is being read.                                           *)
THEOREM FileTypeCorrect == FileSpec => []FileTypeOK
BY TypeInit, TypeStep, PTL DEF FileSpec
-----------------------------------------------------------------------------
(* A call that has opened no file cannot cost the caller the archive,      *)
(* whichever way the path or its open fails, names left alone or not.      *)
THEOREM PathErrorsHarmless == FileSpec => PathErrorHarmless
<1>1. FileTypeOK /\ [FileNext]_fileVars =>
        [state = "open" /\ phase \in {"stat", "open", "blocked"} => state' = "open"]_fileVars
  <2> SUFFICES ASSUME FileTypeOK, FileNext, state = "open", phase \in {"stat", "open", "blocked"}
               PROVE  state' = "open"
    OBVIOUS
  <2>1. CASE Stat
    BY <2>1 DEF Stat, Refused, Examined, cVars
  <2>2. CASE Open
    BY <2>2 DEF Open, Refused, cVars
  <2>3. CASE OpenAnswered
    BY <2>3 DEF OpenAnswered, Refused, cVars
  <2>4. CASE Cancel
    BY <2>4 DEF Cancel, cVars
  <2>5. CASE Grow \/ Replace
    BY <2>5 DEF Grow, Replace, cVars
  <2>6. QED
    BY <2>1, <2>2, <2>3, <2>4, <2>5
       DEF FileNext, AddFileStep, Call, StartRefused, StartEntry, Copy, EndOfFile,
           FinishEntry, Broken
<1>2. QED
  BY <1>1, FileTypeCorrect, PTL DEF FileSpec, PathErrorHarmless
-----------------------------------------------------------------------------
(* A member holds its file.  An inode keeps its type and never shrinks     *)
(* (Kept), so what was true of an open file, and of a file that was copied *)
(* to its end, stays true of it.                                           *)

Held(m, ns) ==
  /\ m.from \in Inodes /\ ns[m.from].type # "directory"
  /\ m.len \in Nat
  /\ ns[m.from].type = "file" => m.atOpen <= m.len /\ m.len <= ns[m.from].len

HoldInv ==
  /\ phase \in {"blocked", "start", "copy", "finish"} =>
       /\ atOpen <= nodes[handle].len
       /\ nodes[handle].type = "file" => read <= nodes[handle].len
  /\ phase \notin {"copy", "finish"} => read = 0
  /\ phase = "finish" =>
       /\ nodes[handle].type # "directory"
       /\ nodes[handle].type = "file" => atOpen <= read
  /\ \A i \in 1..Len(members) : Held(members[i], nodes)

LEMMA Kept ==
  ASSUME FileTypeOK, [FileNext]_fileVars
  PROVE  /\ nodes' \in [Inodes -> Inode]
         /\ \A i \in Inodes : /\ nodes[i].len \in Nat /\ nodes'[i].len \in Nat
                              /\ nodes'[i].type = nodes[i].type
                              /\ nodes'[i].mode = nodes[i].mode
                              /\ nodes[i].len <= nodes'[i].len
<1>1. nodes \in [Inodes -> Inode] /\ nodes' \in [Inodes -> Inode]
  BY TypeStep DEF FileTypeOK
<1>2. \A i \in Inodes : nodes[i].len \in Nat /\ nodes'[i].len \in Nat
  BY <1>1, FileAssumption DEF Inode
<1>3. UNCHANGED nodes \/ Grow \/ (Replace /\ ~UNCHANGED nodes)
  BY DEF FileNext, AddFileStep, Call, Stat, Open, OpenAnswered, StartRefused, StartEntry, Copy, EndOfFile,
         FinishEntry, Broken, Cancel, Examined, fileVars, fsVars
<1>4. CASE UNCHANGED nodes
  BY <1>1, <1>2, <1>4
<1>5. CASE Grow
  <2>1. PICK k \in Inodes : nodes' = [nodes EXCEPT ![k].len = @ + 1]
    BY <1>5 DEF Grow
  <2>2. \A i \in Inodes : /\ nodes'[i].type = nodes[i].type
                          /\ nodes'[i].mode = nodes[i].mode
                          /\ nodes'[i].len = IF i = k THEN nodes[i].len + 1 ELSE nodes[i].len
    BY <1>1, <2>1 DEF Inode
  <2>3. QED
    BY <1>1, <1>2, <2>2
<1>6. CASE Replace /\ ~UNCHANGED nodes
  <2>1. PICK k \in Inodes, j \in Inodes \cup {None} : nodes' = [nodes EXCEPT ![k].to = j]
    BY <1>6 DEF Replace
  <2>2. \A i \in Inodes : /\ nodes'[i].type = nodes[i].type
                          /\ nodes'[i].mode = nodes[i].mode
                          /\ nodes'[i].len = nodes[i].len
    BY <1>1, <2>1 DEF Inode
  <2>3. QED
    BY <1>1, <1>2, <2>2
<1>7. QED
  BY <1>3, <1>4, <1>5, <1>6

LEMMA HeldStays ==
  ASSUME FileTypeOK, [FileNext]_fileVars, NEW m, Held(m, nodes)
  PROVE  Held(m, nodes')
BY Kept DEF Held

LEMMA HoldInit == FileInit => HoldInv
BY DEF FileInit, Init, HoldInv

(* An entry is appended by FinishEntry only, which has copied all of it.   *)
LEMMA MembersHeld ==
  ASSUME FileTypeOK, HoldInv, [FileNext]_fileVars
  PROVE  \A i \in 1..Len(members') : Held(members'[i], nodes')
<1>1. CASE FinishEntry
  <2> DEFINE m == [options |-> meta.options, from |-> handle, atOpen |-> atOpen, len |-> read]
  <2>1. members' = Append(members, m) /\ phase = "finish" /\ nodes' = nodes
    BY <1>1 DEF FinishEntry, fsVars
  <2>2. handle \in Inodes /\ read \in Nat
    BY <2>1, FileAssumption DEF FileTypeOK
  <2>3. Held(m, nodes)
    BY <2>1, <2>2 DEF HoldInv, Held
  <2> HIDE DEF m
  <2>4. Held(m, nodes')
    BY <2>1, <2>3 DEF Held
  <2>5. members \in Seq(Member)
    BY DEF FileTypeOK
  <2>6. ASSUME NEW i \in 1..Len(members') PROVE Held(members'[i], nodes')
    <3>1. CASE i \in 1..Len(members)
      <4>1. members'[i] = members[i] /\ Held(members[i], nodes)
        BY <2>1, <2>5, <3>1 DEF HoldInv
      <4>2. QED
        BY <4>1, <2>1 DEF Held
    <3>2. CASE i = Len(members) + 1
      <4>1. members'[i] = m
        BY <2>1, <2>5, <3>2
      <4>2. QED
        BY <4>1, <2>4 DEF Held
    <3>3. QED
      BY <2>1, <2>5, <3>1, <3>2
  <2>7. QED
    BY <2>6
<1>2. CASE UNCHANGED members
  <2>1. ASSUME NEW i \in 1..Len(members) PROVE Held(members[i], nodes')
    <3>1. Held(members[i], nodes)
      BY DEF HoldInv
    <3>2. QED
      BY <3>1, Kept DEF Held
  <2>2. QED
    BY <1>2, <2>1
<1>3. FinishEntry \/ UNCHANGED members
  BY DEF FileNext, AddFileStep, Call, Stat, Open, OpenAnswered, StartRefused, StartEntry, Copy, EndOfFile,
         Broken, Cancel, Grow, Replace, Examined, Refused, Refuse, Begin, Lose, fileVars, cVars
<1>4. QED
  BY <1>1, <1>2, <1>3

LEMMA HoldStep == FileTypeOK /\ HoldInv /\ [FileNext]_fileVars => HoldInv'
<1> SUFFICES ASSUME FileTypeOK, HoldInv, [FileNext]_fileVars PROVE HoldInv'
  OBVIOUS
<1> DEFINE opened == {"blocked", "start", "copy", "finish"}
           CallInv == /\ phase \in opened =>
                           /\ atOpen <= nodes[handle].len
                           /\ nodes[handle].type = "file" => read <= nodes[handle].len
                      /\ phase \notin {"copy", "finish"} => read = 0
                      /\ phase = "finish" =>
                           /\ nodes[handle].type # "directory"
                           /\ nodes[handle].type = "file" => atOpen <= read
<1>1. CallInv
  BY DEF HoldInv
<1>2. /\ phase \in opened => handle \in Inodes
      /\ atOpen \in Nat /\ read \in Nat
      /\ phase \notin opened => handle = None
  BY FileAssumption DEF FileTypeOK
<1>3. CallInv'
  <2>1. CASE Open
    <3>1. /\ read' = 0
          /\ \/ phase' \notin opened
             \/ /\ phase' \in {"blocked", "start"} /\ handle' \in Inodes
                /\ atOpen' = nodes[handle'].len /\ nodes' = nodes
      BY <1>1, <2>1, FollowedType DEF Open, Refused, Done, fsVars, FileTypeOK
    <3>2. CASE phase' \in {"blocked", "start"}
      <4>1. atOpen' <= nodes'[handle'].len /\ read' <= nodes'[handle'].len
        BY <3>1, <3>2, Kept
      <4>2. QED
        BY <3>1, <3>2, <4>1
    <3>3. QED
      BY <3>1, <3>2
  <2>2. CASE StartEntry \/ Copy \/ EndOfFile
    BY <1>1, <1>2, <2>2, Kept DEF StartEntry, Copy, EndOfFile, Available, fsVars
  <2>3. CASE UNCHANGED callVars
    BY <1>1, <1>2, <2>3, Kept DEF callVars
  <2>4. CASE phase' \notin opened /\ read' = 0
    BY <2>4
  <2>5. CASE OpenAnswered
    <3>1. CASE Refused("Io")
      BY <3>1 DEF Refused, Done
    <3>2. CASE phase' = "start" /\ UNCHANGED <<handle, atOpen, read>>
      BY <1>1, <1>2, <2>5, <3>2, Kept DEF OpenAnswered
    <3>3. QED
      BY <2>5, <3>1, <3>2 DEF OpenAnswered
  <2>6. QED
    BY <1>1, <2>1, <2>2, <2>3, <2>4, <2>5
       DEF FileNext, AddFileStep, Call, Stat, StartRefused, FinishEntry, Broken, Cancel, Grow,
           Replace, Examined, Refused, Done, fileVars
<1>4. QED
  BY <1>3, MembersHeld DEF HoldInv

(* A member made of a regular file holds it to its end, and none is made   *)
(* of a directory, whatever other processes did to the path while it was   *)
(* examined, opened and copied.                                            *)
THEOREM MembersHoldFiles == FileSpec => []MemberHoldsFile
<1>1. HoldInv => MemberHoldsFile
  BY DEF HoldInv, Held, MemberHoldsFile
<1>2. QED
  BY <1>1, HoldInit, HoldStep, FileTypeCorrect, PTL DEF FileSpec
-----------------------------------------------------------------------------
(* The file that is opened is the one that was examined, provided that     *)
(* names are left alone while add_file is at work.                         *)

Described(o, i) == o.setPerms /\ o.perms = nodes[i].mode \cap 0..11

OneFileInv ==
  /\ phase = "open" =>
       LET i == Followed(path)
       IN i \in Inodes /\ TypeOf(i) = "file" /\ Described(meta.options, i)
  /\ handle # None => nodes[handle].type = "file" /\ Described(meta.options, handle)
  /\ \A i \in 1..Len(members) :
       members[i].from \in Inodes /\ Described(members[i].options, members[i].from)

LEMMA NamesKept ==
  ASSUME ~shared, FileTypeOK, [FileNext]_fileVars, phase # "idle"
  PROVE  path' = path /\ Followed(path)' = Followed(path)
<1>1. /\ path' = path /\ path \in Inodes \cup {None}
      /\ \A i \in Inodes : nodes'[i].to = nodes[i].to /\ nodes'[i].type = nodes[i].type
  <2>1. UNCHANGED fsVars \/ Grow
    BY DEF FileNext, AddFileStep, Call, Stat, Open, OpenAnswered, StartRefused, StartEntry, Copy, EndOfFile,
           FinishEntry, Broken, Cancel, Replace, Examined, fileVars, fsVars
  <2>2. CASE Grow
    <3>1. PICK k \in Inodes : nodes' = [nodes EXCEPT ![k].len = @ + 1]
      BY <2>2 DEF Grow
    <3>2. QED
      BY <2>2, <3>1 DEF Grow, FileTypeOK, Inode
  <2>3. QED
    BY <2>1, <2>2 DEF fsVars, FileTypeOK
<1>2. QED
  BY <1>1 DEF Followed, TypeOf

LEMMA OneFileInit == FileInit => OneFileInv
BY DEF FileInit, Init, OneFileInv

LEMMA DescribedStays ==
  ASSUME FileTypeOK, [FileNext]_fileVars, NEW i \in Inodes, NEW o, Described(o, i)
  PROVE  o.setPerms /\ o.perms = nodes'[i].mode \cap 0..11
BY Kept DEF Described

LEMMA OneFileMembers ==
  ASSUME FileTypeOK, OneFileInv, [FileNext]_fileVars, NEW i \in 1..Len(members')
  PROVE  LET m == members'[i]
         IN /\ m.from \in Inodes
            /\ m.options.setPerms /\ m.options.perms = nodes'[m.from].mode \cap 0..11
<1>1. CASE FinishEntry
  <2> DEFINE m == [options |-> meta.options, from |-> handle, atOpen |-> atOpen, len |-> read]
  <2>1. members' = Append(members, m) /\ phase = "finish" /\ members \in Seq(Member)
    BY <1>1 DEF FinishEntry, FileTypeOK
  <2>2. /\ handle \in Inodes /\ m.from = handle
        /\ m.options.setPerms /\ m.options.perms = nodes'[handle].mode \cap 0..11
    BY <2>1, DescribedStays DEF FileTypeOK, OneFileInv
  <2> HIDE DEF m
  <2>3. CASE i \in 1..Len(members)
    <3>1. members'[i] = members[i]
      BY <2>1, <2>3
    <3>2. members[i].from \in Inodes /\ Described(members[i].options, members[i].from)
      BY <2>3 DEF OneFileInv
    <3>3. QED
      BY <3>1, <3>2, DescribedStays
  <2>4. CASE i = Len(members) + 1
    <3>1. members'[i] = m
      BY <2>1, <2>4
    <3>2. QED
      BY <2>2, <3>1
  <2>5. QED
    BY <2>1, <2>3, <2>4
<1>2. CASE UNCHANGED members
  <2>1. members[i].from \in Inodes /\ Described(members[i].options, members[i].from)
    BY <1>2 DEF OneFileInv
  <2>2. QED
    BY <1>2, <2>1, DescribedStays
<1>3. FinishEntry \/ UNCHANGED members
  BY DEF FileNext, AddFileStep, Call, Stat, Open, OpenAnswered, StartRefused, StartEntry, Copy, EndOfFile,
         Broken, Cancel, Grow, Replace, Examined, Refused, Refuse, Begin, Lose, fileVars, cVars
<1>4. QED
  BY <1>1, <1>2, <1>3

LEMMA OneFileStep ==
  ASSUME ~shared, FileTypeOK, OneFileInv, [FileNext]_fileVars
  PROVE  OneFileInv'
<1> DEFINE i == Followed(path)
<1>1. /\ i \in Inodes \cup {None}
      /\ TypeOf(i) = "file" => i \in Inodes /\ nodes[i].type = "file"
      /\ \A j \in Inodes : TypeOf(j) = nodes[j].type
  BY FollowedType, FileAssumption DEF FileTypeOK, TypeOf
<1>2. \A j \in Inodes : TypeOf(j)' = nodes'[j].type
  BY FileAssumption DEF TypeOf
<1>3. phase = "open" =>
        i \in Inodes /\ nodes[i].type = "file" /\ Described(meta.options, i)
  BY <1>1 DEF OneFileInv
<1> HIDE DEF i
<1>4. phase' = "open" =>
        LET f == Followed(path)
        IN (f \in Inodes /\ TypeOf(f) = "file" /\ Described(meta.options, f))'
  <2> SUFFICES ASSUME phase' = "open"
               PROVE  (i \in Inodes /\ TypeOf(i) = "file" /\ Described(meta.options, i))'
    BY DEF i
  <2>1. \/ TypeOf(i) = "file" /\ Examined(i) /\ phase = "stat"
        \/ phase = "open" /\ UNCHANGED meta
    BY DEF FileNext, AddFileStep, Call, Stat, Open, OpenAnswered, StartRefused, StartEntry, Copy, EndOfFile,
           FinishEntry, Broken, Cancel, Grow, Replace, Refused, Done, fileVars, callVars, i
  <2>2. i' = i
    BY <2>1, NamesKept DEF i
  <2>3. i \in Inodes /\ nodes[i].type = "file"
          /\ meta'.options.setPerms /\ meta'.options.perms = nodes[i].mode \cap 0..11
    <3>1. CASE TypeOf(i) = "file" /\ Examined(i)
      BY <1>1, <3>1
         DEF Examined, FromMetadata, WithUidGid, WithUnixPermissions, Default
    <3>2. CASE phase = "open" /\ UNCHANGED meta
      BY <1>3, <3>2 DEF Described
    <3>3. QED
      BY <2>1, <3>1, <3>2
  <2>4. QED
    BY <1>2, <2>2, <2>3, Kept DEF Described
<1>5. handle' # None =>
        nodes'[handle'].type = "file" /\ Described(meta.options, handle)'
  <2> SUFFICES ASSUME handle' # None
               PROVE  nodes'[handle'].type = "file" /\ Described(meta.options, handle)'
    OBVIOUS
  <2>1. \/ Open /\ phase = "open" /\ handle' = i /\ UNCHANGED meta
        \/ handle # None /\ handle' = handle /\ UNCHANGED meta
    BY DEF FileNext, AddFileStep, Call, Stat, Open, OpenAnswered, StartRefused, StartEntry, Copy, EndOfFile,
           FinishEntry, Broken, Cancel, Grow, Replace, Examined, Refused, Done, FileTypeOK,
           fileVars, callVars, i
  <2>2. handle' \in Inodes /\ nodes[handle'].type = "file" /\ Described(meta.options, handle')
    BY <1>3, <2>1 DEF OneFileInv, FileTypeOK
  <2>3. QED
    BY <2>1, <2>2, Kept DEF Described
<1>6. QED
  BY <1>4, <1>5, OneFileMembers DEF OneFileInv, Described

LEMMA OneFileAlways == FileSpec => [](~shared => OneFileInv)
<1>1. FileTypeOK /\ (~shared => OneFileInv) /\ [FileNext]_fileVars => (~shared => OneFileInv)'
  <2>1. [FileNext]_fileVars => shared' = shared
    BY DEF FileNext, AddFileStep, Call, Stat, Open, OpenAnswered, StartRefused, StartEntry,
           Copy, EndOfFile, FinishEntry, Broken, Cancel, Grow, Replace, Examined, fileVars,
           fsVars
  <2>2. QED
    BY <2>1, OneFileStep
<1>2. QED
  BY <1>1, OneFileInit, FileTypeCorrect, PTL DEF FileSpec

(* While names are left alone, nothing but a regular file is opened, and   *)
(* add_file does not wait for a FIFO's peer.                               *)
THEOREM RegularFilesOnly == FileSpec => []OnlyRegularOpened
<1>1. (~shared => OneFileInv) => OnlyRegularOpened
  BY DEF OneFileInv, OnlyRegularOpened, RejectedUpFront
<1>2. QED
  BY <1>1, OneFileAlways, PTL

(* While names are left alone, a member has the permissions of the file    *)
(* its contents came from.                                                 *)
THEOREM MembersAreOneFile == FileSpec => []MemberIsOneFile
<1>1. (~shared => OneFileInv) => MemberIsOneFile
  BY DEF OneFileInv, Described, MemberIsOneFile
<1>2. QED
  BY <1>1, OneFileAlways, PTL
=============================================================================
