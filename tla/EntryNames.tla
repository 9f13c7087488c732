----------------------------- MODULE EntryNames -----------------------------
(***************************************************************************)
(* Which entry names start_file, add_directory and add_symlink accept, and *)
(* under which name the entry is stored: sanitize_entry_name of            *)
(* src/src/writer/zip_writer.rs and the checks of src/src/validate.rs, in  *)
(* the order each call makes them.  A name is a sequence of characters, of *)
(* which only what the checks and an unpacker tell apart is kept.  A       *)
(* state is a call about to be made, or its answer.                        *)
(***************************************************************************)
EXTENDS Integers, Sequences, FiniteSets

CONSTANTS
  MaxFieldLen,   \* 0xFFFF, the longest name or comment in bytes
  RawNames,      \* names the caller may ask for
  Targets,       \* symlink targets it may ask for
  CommentLens    \* lengths of entry comments

\* "letter" is an ASCII letter, "wide" a character that takes two bytes
Chars == {"letter", "wide", ".", "/", "\\", ":", "NUL"}
Calls == {"start_file", "add_directory", "add_symlink"}

ASSUME NameAssumption ==
  /\ MaxFieldLen \in Nat
  /\ RawNames \subseteq Seq(Chars) /\ Targets \subseteq Seq(Chars)
  /\ CommentLens \subseteq Nat

VARIABLES
  call, raw, target, commentLen,  \* the call and its arguments
  answer,                         \* "none" before it returns
  name                            \* the name the entry is stored under

nameVars == <<call, raw, target, commentLen, answer, name>>

(* String::len: the bytes of the UTF-8 encoding.                           *)
ByteLen(s) == Len(s) + Cardinality({i \in 1..Len(s) : s[i] = "wide"})

IsAscii(s) == \A i \in 1..Len(s) : s[i] # "wide"

EndsWithSlash(s) == s # <<>> /\ s[Len(s)] = "/"

Contains(s, c) == \E i \in 1..Len(s) : s[i] = c
-----------------------------------------------------------------------------
(* sanitize_entry_name.                                                    *)

(* name.replace('\\', "/")                                                 *)
Normalized(s) == [i \in 1..Len(s) |-> IF s[i] = "\\" THEN "/" ELSE s[i]]

(* name.split('/'): what lies between two neighbouring cuts.               *)
Cuts(s) == {0, Len(s) + 1} \cup {i \in 1..Len(s) : s[i] = "/"}

NextCut(s, i) ==
  CHOOSE j \in Cuts(s) : i < j /\ \A k \in Cuts(s) : k <= i \/ j <= k

Components(s) ==
  {SubSeq(s, i + 1, NextCut(s, i) - 1) : i \in Cuts(s) \ {Len(s) + 1}}

(* Fault: two dots anywhere in the name are taken for a parent.            *)
HasParentAnywhere(s) == \E i \in 2..Len(s) : s[i - 1] = "." /\ s[i] = "."

HasParent(s) == <<".", ".">> \in Components(s)

(* The two bytes that are looked at are those of the name itself: a '/'    *)
(* among them is neither a letter nor a colon.                             *)
HasDrivePrefix(s) == Len(s) >= 2 /\ s[1] = "letter" /\ s[2] = ":"

Rejected(s) == s = <<>> \/ s[1] = "/" \/ HasParent(s) \/ HasDrivePrefix(s)

(* Faults: the checks look at the name before it is normalised; they look  *)
(* at a normalised copy and the name is kept as it was given.              *)
SanitizedBefore(s) ==
  IF Rejected(s) THEN <<"InvalidInput", s>> ELSE <<"Ok", Normalized(s)>>

SanitizedCopy(s) ==
  IF Rejected(Normalized(s)) THEN <<"InvalidInput", s>> ELSE <<"Ok", s>>

Sanitized(s) ==
  LET n == Normalized(s)
  IN IF Rejected(n) THEN <<"InvalidInput", n>> ELSE <<"Ok", n>>
-----------------------------------------------------------------------------
(* validate_input: the name, then the comment.                             *)
ValidateInput(n, comment) ==
  IF n = <<>> THEN "InvalidInput"
  ELSE IF ByteLen(n) > MaxFieldLen THEN "FieldTooLong"
  ELSE IF Contains(n, "NUL") THEN "InvalidInput"
  ELSE IF comment > MaxFieldLen THEN "FieldTooLong"
  ELSE "Ok"

ValidateSymlinkTarget(t) ==
  IF t = <<>> \/ Contains(t, "NUL") THEN "InvalidInput" ELSE "Ok"

FirstError(a, b) == IF a # "Ok" THEN a ELSE b

(* Fault: the trailing slash is looked for in the name as it was given.    *)
StartFileRawSlash(s, comment) ==
  LET n == Sanitized(s)[2]
  IN <<FirstError(Sanitized(s)[1],
         IF EndsWithSlash(s) THEN "InvalidInput" ELSE ValidateInput(n, comment)), n>>

StartFile(s, comment) ==
  LET n == Sanitized(s)[2]
  IN <<FirstError(Sanitized(s)[1],
         IF EndsWithSlash(n) THEN "InvalidInput" ELSE ValidateInput(n, comment)), n>>

(* Faults: the slash is appended after the validation; it is appended to   *)
(* every name.                                                             *)
AddDirectorySlashLate(s, comment) ==
  LET n == Sanitized(s)[2]
  IN <<FirstError(Sanitized(s)[1], ValidateInput(n, comment)),
       IF EndsWithSlash(n) THEN n ELSE Append(n, "/")>>

AddDirectorySlashAlways(s, comment) ==
  LET n == Append(Sanitized(s)[2], "/")
  IN <<FirstError(Sanitized(s)[1], ValidateInput(n, comment)), n>>

AddDirectory(s, comment) ==
  LET given == Sanitized(s)[2]
      n     == IF EndsWithSlash(given) THEN given ELSE Append(given, "/")
  IN <<FirstError(Sanitized(s)[1], ValidateInput(n, comment)), n>>

AddSymlink(s, t, comment) ==
  LET file == StartFile(s, comment)
  IN <<FirstError(file[1], ValidateSymlinkTarget(t)), file[2]>>

Outcome(c, s, t, comment) ==
  CASE c = "start_file"    -> StartFile(s, comment)
    [] c = "add_directory" -> AddDirectory(s, comment)
    [] c = "add_symlink"   -> AddSymlink(s, t, comment)
-----------------------------------------------------------------------------
Init ==
  /\ call \in Calls /\ raw \in RawNames /\ commentLen \in CommentLens
  /\ target \in IF call = "add_symlink" THEN Targets ELSE {<<>>}
  /\ answer = "none" /\ name = <<>>

Answer ==
  /\ answer = "none"
  /\ LET o == Outcome(call, raw, target, commentLen)
     IN answer' = o[1] /\ name' = IF o[1] = "Ok" THEN o[2] ELSE <<>>
  /\ UNCHANGED <<call, raw, target, commentLen>>

Next == Answer

Spec == Init /\ [][Next]_nameVars
-----------------------------------------------------------------------------
(* What is stored holds no NUL and no backslash, so that an unpacker on    *)
(* Windows splits it as one on Unix does.                                  *)
TypeOK ==
  /\ call \in Calls /\ raw \in RawNames /\ commentLen \in CommentLens
  /\ target \in Targets \cup {<<>>}
  /\ answer \in {"none", "Ok", "InvalidInput", "FieldTooLong"}
  /\ name \in Seq(Chars \ {"NUL", "\\"})

(* What an unpacker makes of a name, character by character.  A separator  *)
(* or an end of the name at i delimits a part of the path.                 *)
Unix    == {"/"}
Windows == {"/", "\\"}

Delimits(s, i, sep) == i < 1 \/ i > Len(s) \/ s[i] \in sep

\* the parts "..", and the parts that lead into a directory, ending at i
UpAt(s, i, sep) ==
  /\ i >= 2 /\ s[i] = "." /\ s[i - 1] = "."
  /\ Delimits(s, i - 2, sep) /\ Delimits(s, i + 1, sep)

DownAt(s, i, sep) ==
  /\ s[i] \notin sep /\ Delimits(s, i + 1, sep)
  /\ ~UpAt(s, i, sep) /\ ~(s[i] = "." /\ Delimits(s, i - 1, sep))

(* The path leaves the directory it is unpacked in: it does not start      *)
(* there, or at some point has gone up more often than down.               *)
Escapes(s, sep) ==
  \/ s # <<>> /\ s[1] \in sep
  \/ \E i \in 1..Len(s) :
       Cardinality({k \in 1..i : UpAt(s, k, sep)})
         > Cardinality({k \in 1..i : DownAt(s, k, sep)})

OnDrive(s) == Len(s) >= 2 /\ s[1] = "letter" /\ s[2] = ":"

Accepted == answer = "Ok"

(* An accepted name stays below the directory it is unpacked in, on any    *)
(* system ("judged against every OS the archive might later be unpacked    *)
(* on"), whichever of the calls stored it and whatever the order of its    *)
(* separators, dots and letters was.                                       *)
NoEscape ==
  Accepted => ~Escapes(name, Unix) /\ ~Escapes(name, Windows) /\ ~OnDrive(name)

(* A reader tells a directory by the trailing slash: only add_directory    *)
(* stores such a name, and always does.                                    *)
SlashTellsDirectory == Accepted => (EndsWithSlash(name) <=> call = "add_directory")

(* The length written into the 16-bit field of the headers is the one the  *)
(* name has, slash included: it was not cut.                               *)
StoredNameFits == Accepted => ByteLen(name) <= MaxFieldLen

(* A name read back from an archive can be stored again, as it is.         *)
Canonical ==
  Accepted => Outcome(call, name, target, commentLen) = <<"Ok", name>>

(* Nothing is refused without cause: a refused name leaves the directory,  *)
(* goes up somewhere, names a drive, holds a NUL or is no name for what    *)
(* was to be added; a field that is too long has more bytes than fit.      *)
RefusalJustified ==
  /\ answer = "InvalidInput" =>
       \/ raw = <<>> \/ OnDrive(raw) \/ Contains(raw, "NUL") \/ raw[1] \in Windows
       \/ \E i \in 1..Len(raw) : UpAt(raw, i, Windows)
       \/ call # "add_directory" /\ raw[Len(raw)] \in Windows
       \/ call = "add_symlink" /\ (target = <<>> \/ Contains(target, "NUL"))
  /\ answer = "FieldTooLong" =>
       \/ commentLen > MaxFieldLen
       \/ ByteLen(raw) + (IF call = "add_directory" /\ raw[Len(raw)] \notin Windows
                          THEN 1 ELSE 0) > MaxFieldLen
=============================================================================
