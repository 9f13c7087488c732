------------------------------ MODULE AddFile ------------------------------
(***************************************************************************)
(* ZipWriter::add_file: examine the path, open it, and hand the file to    *)
(* add_reader, while other processes use the same filesystem.  What        *)
(* start_file, the copy and finish do to the archive is what               *)
(* ArchiveContract allows; AddReader and ZipWriter have their steps.       *)
(*                                                                         *)
(* The path names an inode; a symbolic link leads on to another (a chain   *)
(* of links stands as one, a link to a link as a loop).  An open file      *)
(* stays the inode it was, whatever becomes of its name.  Files only       *)
(* grow, so that contents are told apart by their length, and keep their   *)
(* permissions, by which they are told apart themselves.                   *)
(***************************************************************************)
EXTENDS ArchiveContract, EntryOptions

CONSTANTS
  Inodes,       \* the files, directories and so on there are
  None,         \* no inode
  FirstInode,   \* inode -> [type, mode, mtime, len, to], at the beginning
  MaxLen,       \* bound: length a file may grow to
  MaxMembers    \* bound: entries of the archive, by the value of shared

FileTypes == {"file", "directory", "fifo", "socket", "symlink"}

Inode ==
  [type: FileTypes, mode: SUBSET (0..15), mtime: Int, len: 0..MaxLen,
   to: Inodes \cup {None}]

ASSUME FileAssumption ==
  /\ None \notin Inodes /\ MaxLen \in Nat /\ MaxMembers \in [BOOLEAN -> Nat]
  /\ FirstInode \in [Inodes -> Inode]

VARIABLES
  nodes,    \* the inodes
  path,     \* the inode the path names, or None
  shared,   \* names may go to other inodes at any time, not only between calls
  phase,    \* the await add_file is at; "idle" between calls
  meta,     \* what it was told of the path: [options, len]
  handle,   \* the inode it has opened or, if "blocked", is opening, or None
  atOpen,   \* how long that inode was then
  read      \* how much of it was copied

fsVars   == <<nodes, path, shared>>
callVars == <<phase, meta, handle, atOpen, read>>
fileVars == <<cVars, fsVars, callVars>>

NoMeta == <<>>

FileInit ==
  /\ Init
  /\ nodes = FirstInode /\ path \in Inodes \cup {None} /\ shared \in BOOLEAN
  /\ phase = "idle" /\ meta = NoMeta /\ handle = None /\ atOpen = 0 /\ read = 0

TypeOf(i) == IF i = None THEN "none" ELSE nodes[i].type

(* tokio::fs::metadata and File::open follow a symbolic link.              *)
Followed(i) == IF TypeOf(i) = "symlink" THEN nodes[i].to ELSE i

Done == phase' = "idle" /\ meta' = NoMeta /\ handle' = None /\ atOpen' = 0 /\ read' = 0

(* The call returns an error and has not touched the writer.               *)
Refused(error) ==
  /\ answer' = error /\ UNCHANGED <<state, members, catalogue>> /\ Done
-----------------------------------------------------------------------------
Call ==
  /\ phase = "idle" /\ Len(members) < MaxMembers[shared] /\ state \in {"open", "lost"}
  /\ phase' = "stat"
  /\ UNCHANGED <<cVars, fsVars, meta, handle, atOpen, read>>

Examined(i) ==
  /\ phase' = "open"
  /\ meta' = [options |-> FromMetadata(nodes[i]), len |-> nodes[i].len]
  /\ UNCHANGED <<cVars, fsVars, handle, atOpen, read>>

(* Faults: any path that exists will do; links are examined themselves.    *)
StatUnchecked ==
  /\ phase = "stat"
  /\ LET i == Followed(path)
     IN \/ Refused("Io") /\ UNCHANGED fsVars
        \/ i # None /\ Examined(i)

StatLink ==
  /\ phase = "stat"
  /\ \/ Refused("Io") /\ UNCHANGED fsVars
     \/ TypeOf(path) \notin {"none", "file", "symlink"}
          /\ Refused("InvalidInput") /\ UNCHANGED fsVars
     \/ TypeOf(path) \in {"file", "symlink"} /\ Examined(path)

(* metadata(path), is_file.  There may be no such path, and metadata may   *)
(* fail at any other: no permission to search a directory, an I/O error.   *)
Stat ==
  /\ phase = "stat"
  /\ LET i == Followed(path)
     IN \/ Refused("Io") /\ UNCHANGED fsVars
        \/ TypeOf(i) \notin {"none", "file", "symlink"}
             /\ Refused("InvalidInput") /\ UNCHANGED fsVars
        \/ TypeOf(i) = "file" /\ Examined(i)

(* Fault: the entry is started before its file is opened.                  *)
OpenStarted ==
  /\ phase = "open"
  /\ LET i == Followed(path)
     IN \/ state = "open" /\ Begin /\ UNCHANGED <<fsVars, callVars>>
        \/ /\ state = "adding"
           /\ \/ Lose /\ answer' = "Io" /\ Done
              \/ /\ TypeOf(i) \in {"file", "directory"}
                 /\ phase' = "copy" /\ handle' = i /\ atOpen' = nodes[i].len
                 /\ UNCHANGED <<cVars, meta, read>>
           /\ UNCHANGED fsVars

(* File::open(path) may fail for anything, a regular file included (no     *)
(* permission, no descriptor left, an I/O error), and always does for a    *)
(* socket, a loop or where there is nothing; a FIFO waits for a peer.      *)
Open ==
  /\ phase = "open"
  /\ LET i == Followed(path)
     IN \/ Refused("Io")
        \/ /\ TypeOf(i) \in {"file", "directory", "fifo"}
           /\ phase' = IF TypeOf(i) = "fifo" THEN "blocked" ELSE "start"
           /\ handle' = i /\ atOpen' = nodes[i].len
           /\ UNCHANGED <<cVars, meta, read>>
  /\ UNCHANGED fsVars

(* The FIFO's peer has come, or its open fails after all.                  *)
OpenAnswered ==
  /\ phase = "blocked"
  /\ \/ Refused("Io")
     \/ phase' = "start" /\ UNCHANGED <<cVars, meta, handle, atOpen, read>>
  /\ UNCHANGED fsVars

(* add_reader: start_file is refused, or its local header is written.      *)
StartRefused ==
  /\ phase = "start" /\ Refuse /\ Done /\ UNCHANGED fsVars

StartEntry ==
  /\ phase = "start" /\ Begin /\ phase' = "copy"
  /\ UNCHANGED <<fsVars, meta, handle, atOpen, read>>

(* What there is to read: the file, or what the peers of a FIFO write.     *)
Available(i) == IF nodes[i].type = "fifo" THEN MaxLen ELSE nodes[i].len

Copy ==
  /\ phase = "copy" /\ nodes[handle].type # "directory"
  /\ read' \in read + 1 .. Available(handle)
  /\ UNCHANGED <<cVars, fsVars, phase, meta, handle, atOpen>>

(* Fault: no more is copied than the file was said to hold.                *)
EndOfFileAsExamined ==
  /\ phase = "copy" /\ nodes[handle].type # "directory"
  /\ nodes[handle].type = "file" => read >= meta.len \/ read = nodes[handle].len
  /\ phase' = "finish"
  /\ UNCHANGED <<cVars, fsVars, meta, handle, atOpen, read>>

EndOfFile ==
  /\ phase = "copy" /\ nodes[handle].type # "directory"
  /\ nodes[handle].type = "file" => read = nodes[handle].len
  /\ phase' = "finish"
  /\ UNCHANGED <<cVars, fsVars, meta, handle, atOpen, read>>

(* EntryWriter::finish                                                     *)
FinishEntry ==
  /\ phase = "finish"
  /\ members' = Append(members, [options |-> meta.options,
                                 from |-> handle, atOpen |-> atOpen, len |-> read])
  /\ Commit /\ Done /\ UNCHANGED fsVars

(* A read or a write fails; of a directory, any read (EISDIR).             *)
Broken ==
  /\ phase \in {"copy", "finish"} /\ Lose /\ answer' = "Io"
  /\ Done /\ UNCHANGED fsVars

(* The future is dropped.                                                  *)
Cancel ==
  /\ phase # "idle"
  /\ IF state = "adding" THEN Lose /\ answer' = "none" ELSE UNCHANGED cVars
  /\ Done /\ UNCHANGED fsVars
-----------------------------------------------------------------------------
(* What other processes do.                                                *)
Grow ==
  /\ \E i \in Inodes :
       /\ nodes[i].type = "file" /\ nodes[i].len < MaxLen
       /\ nodes' = [nodes EXCEPT ![i].len = @ + 1]
  /\ UNCHANGED <<cVars, path, shared, callVars>>

Replace ==
  /\ shared \/ phase = "idle"
  /\ \/ path' \in Inodes \cup {None} /\ UNCHANGED nodes
     \/ \E i \in Inodes, j \in Inodes \cup {None} :
          /\ nodes[i].type = "symlink" /\ nodes' = [nodes EXCEPT ![i].to = j]
          /\ UNCHANGED path
  /\ UNCHANGED <<cVars, shared, callVars>>
-----------------------------------------------------------------------------
AddFileStep ==
  \/ Stat \/ Open \/ StartRefused \/ StartEntry \/ Copy \/ EndOfFile
  \/ FinishEntry \/ Broken

FileNext == Call \/ AddFileStep \/ OpenAnswered \/ Cancel \/ Grow \/ Replace

(* The task is polled when the filesystem, the reader or the sink has      *)
(* answered.  Of a FIFO no answer is assumed, to its open or to a read.    *)
Answered == AddFileStep /\ (handle # None => nodes[handle].type # "fifo")

FileSpec == FileInit /\ [][FileNext]_fileVars /\ WF_fileVars(Answered)
-----------------------------------------------------------------------------
(* Every variable has its type; an entry is under construction exactly     *)
(* while its file is read, and a file is held from its open to the end.    *)
FileTypeOK ==
  /\ nodes \in [Inodes -> Inode] /\ path \in Inodes \cup {None} /\ shared \in BOOLEAN
  /\ phase \in {"idle", "stat", "open", "blocked", "start", "copy", "finish"}
  /\ state = "adding" <=> phase \in {"copy", "finish"}
  /\ handle \in Inodes \cup {None}
  /\ handle = None <=> phase \in {"idle", "stat", "open"}
  /\ IF phase \in {"idle", "stat"} THEN meta = NoMeta
     ELSE meta \in [options: Options, len: 0..MaxLen]
  /\ atOpen \in 0..MaxLen /\ read \in 0..MaxLen
  /\ members \in Seq(Member)

(* "Only regular files are accepted.  Directories, FIFOs, sockets, and     *)
(* device nodes are rejected up front ... opening a FIFO or device node    *)
(* can block indefinitely": what the documentation promises in any case.   *)
RejectedUpFront == handle # None => nodes[handle].type = "file"

(* The code keeps that promise while names are left alone during a call.   *)
OnlyRegularOpened == ~shared => RejectedUpFront

(* A path that is missing, that cannot be examined, is no regular file or  *)
(* cannot be opened costs the call, never the archive: only once a file is *)
(* open may its entry be left torn.                                        *)
PathErrorHarmless ==
  [][state = "open" /\ phase \in {"stat", "open", "blocked"} => state' = "open"]_fileVars

(* "Symbolic links are followed ... Metadata is likewise read from the     *)
(* link target": permissions and contents are those of one file, while     *)
(* names are left alone during a call.                                     *)
MemberIsOneFile ==
  ~shared => \A i \in 1..Len(members) :
    LET m == members[i]
    IN m.options.setPerms /\ m.options.perms = nodes[m.from].mode \cap 0..11

(* A member made of a regular file holds it to its end: at least all it    *)
(* held when it was opened, and nothing it never held, also when the name  *)
(* was given to another file or the file grew meanwhile.  No member is     *)
(* made of a directory, even if its name was given to one.                 *)
MemberHoldsFile ==
  \A i \in 1..Len(members) :
    LET m == members[i]
    IN /\ nodes[m.from].type # "directory"
       /\ nodes[m.from].type = "file" =>
            m.atOpen <= m.len /\ m.len <= nodes[m.from].len

=============================================================================
