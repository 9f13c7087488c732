---------------------------- MODULE MCZipWriter ----------------------------
(* Values for ZipWriter's constants.  The 32-bit and 16-bit limits and the *)
(* DOS range are scaled down so that short archives cross them.  What the  *)
(* writer sees of a name is what the calls of EntryNames make of it, and   *)
(* the metadata are EntryOptions.                                          *)
EXTENDS ZipWriterContract

Names == INSTANCE EntryNames WITH
  RawNames <- {}, Targets <- {}, call <- "", raw <- <<>>, target <- <<>>,
  commentLen <- 0, answer <- "", name <- <<>>

Options == INSTANCE EntryOptions

Call == [file |-> "start_file", directory |-> "add_directory", symlink |-> "add_symlink"]

Letters(n) == [i \in 1..n |-> "letter"]

Request(kind, name, target, o) ==
  LET outcome == Names!Outcome(Call[kind], name, target, o.commentLen)
  IN [kind |-> kind, sane |-> outcome[1] # "InvalidInput",
      nameLen |-> Names!ByteLen(outcome[2]), utf8Name |-> ~Names!IsAscii(outcome[2]),
      commentLen |-> o.commentLen, utf8Comment |-> FALSE,
      targetLen |-> Names!ByteLen(target), mtime |-> o.mtime, ids |-> o.ids,
      setPerms |-> o.setPerms, perms |-> o.perms]

(* A file from before 1970 with a whole st_mode, 0o100600; the metadata of *)
(* a directory, 0o40755; a link with a comment from beyond the DOS range.  *)
AFile ==
  Request("file", <<"letter", "\\", "wide">>, <<>>,
          Options!WithUnixPermissions(Options!Default(-5), {7, 8, 15}))
ADirectory ==
  Request("directory", Letters(1), <<>>,
          Options!FromMetadata([mtime |-> 50, mode |-> {0, 2, 3, 5, 6, 7, 8, 14}]))
ALink ==
  [Request("symlink", Letters(1), Letters(3),
           Options!WithComment(Options!Symlink(5000), 2)) EXCEPT !.utf8Comment = TRUE]

Plain    == Options!Default(0)
BigLink  == Request("symlink", Letters(1), Letters(100), Plain)
LongName == Request("directory", Letters(MaxFieldLen), <<>>, Plain)
LongNote == Request("directory", Letters(1), <<>>,
                    Options!WithComment(Plain, MaxFieldLen + 1))
NoTarget == Request("symlink", Letters(1), <<>>, Plain)
Escaping == Request("file", <<".", ".", "\\", "letter">>, <<>>,
                    Options!WithMtime(Options!File(9), 0))

AllRequests  == {AFile, ADirectory, ALink, LongName, LongNote, NoTarget, Escaping}
BigRequests  == {AFile, ADirectory, BigLink}
NotesAllowed == {0, MaxFieldLen, MaxFieldLen + 1}
NoNote       == {0}
=============================================================================
