-------------------------- MODULE EntryNamesProofs --------------------------
(***************************************************************************)
(* Proofs about EntryNames, for names of every length.                     *)
(***************************************************************************)
EXTENDS EntryNames, FiniteSetTheorems, SequenceTheorems, WellFoundedInduction, TLAPS

Name == Seq(Chars)

(* Dots that go up are a component of their own.                           *)
LEMMA NoUp ==
  ASSUME NEW s \in Name, ~HasParent(s), NEW i \in 1..Len(s)
  PROVE  ~UpAt(s, i, Unix)
<1> SUFFICES ASSUME UpAt(s, i, Unix) PROVE FALSE
  OBVIOUS
<1>1. /\ i >= 2 /\ s[i] = "." /\ s[i - 1] = "."
      /\ Delimits(s, i - 2, Unix) /\ Delimits(s, i + 1, Unix)
  BY DEF UpAt
<1>2. i - 2 \in Cuts(s) /\ i + 1 \in Cuts(s)
  BY <1>1 DEF Delimits, Unix, Cuts
<1>3. \A k \in Cuts(s) : k <= i - 2 \/ i + 1 <= k
  BY <1>1 DEF Cuts
<1>4. SubSeq(s, i - 1, i) = <<".", ".">>
  <2>1. SubSeq(s, i - 1, i) \in Seq(Chars) /\ Len(SubSeq(s, i - 1, i)) = 2
    BY <1>1 DEF Name
  <2>2. SubSeq(s, i - 1, i)[1] = "." /\ SubSeq(s, i - 1, i)[2] = "."
    BY <1>1 DEF Name
  <2>3. <<".", ".">> \in Seq(Chars) /\ Len(<<".", ".">>) = 2
    BY DEF Chars
  <2>4. \A k \in 1..2 : SubSeq(s, i - 1, i)[k] = <<".", ".">>[k]
    BY <2>2
  <2>5. QED
    BY <2>1, <2>3, <2>4, SeqEqual
<1>5. NextCut(s, i - 2) = i + 1
  <2>1. i + 1 \in Cuts(s) /\ i - 2 < i + 1 /\ Cuts(s) \subseteq Int
    BY <1>2 DEF Cuts, Name
  <2>2. \A j \in Cuts(s) :
          (i - 2 < j /\ \A k \in Cuts(s) : k <= i - 2 \/ j <= k) => j = i + 1
    BY <1>3, <2>1
  <2>3. QED
    BY <1>3, <2>1, <2>2 DEF NextCut
<1>6. SubSeq(s, (i - 2) + 1, NextCut(s, i - 2) - 1) \in Components(s)
  <2>1. Len(s) \in Nat
    BY DEF Name
  <2>2. i - 2 \in Cuts(s) \ {Len(s) + 1}
    BY <1>2, <2>1
  <2>3. QED
    BY <2>2 DEF Components
<1>7. (i - 2) + 1 = i - 1 /\ NextCut(s, i - 2) - 1 = i
  BY <1>5
<1>8. QED
  BY <1>4, <1>6, <1>7 DEF HasParent

(* The next cut is the nearest one on the right.                           *)
LEMMA NextCutFacts ==
  ASSUME NEW s \in Name, NEW c \in Cuts(s), c # Len(s) + 1
  PROVE  NextCut(s, c) \in Cuts(s) /\ c < NextCut(s, c)
<1> DEFINE Right == {j \in Cuts(s) : c < j}
<1>1. Len(s) \in Nat /\ Cuts(s) \subseteq Nat /\ \A k \in Cuts(s) : k <= Len(s) + 1
  BY DEF Cuts, Name
<1>2. Right \subseteq Nat /\ Right # {}
  <2>1. Len(s) + 1 \in Cuts(s) /\ c < Len(s) + 1
    BY <1>1 DEF Cuts
  <2>2. QED
    BY <1>1, <2>1
<1>3. PICK j \in Right : \A k \in Right : ~(<<k, j>> \in OpToRel(<, Nat))
  BY <1>2, NatLessThanWellFounded, WFMin
<1>4. \A k \in Right : j <= k
  <2>1. \A k \in Right : ~(k < j)
    BY <1>2, <1>3 DEF OpToRel
  <2>2. QED
    BY <1>2, <2>1
<1>5. j \in Cuts(s) /\ c < j /\ \A k \in Cuts(s) : k <= c \/ j <= k
  BY <1>1, <1>4
<1>6. QED
  BY <1>5 DEF NextCut

(* And a component of two dots goes up.                                    *)
LEMMA ParentGoesUp ==
  ASSUME NEW s \in Name, HasParent(s)
  PROVE  \E i \in 1..Len(s) : UpAt(s, i, Unix)
<1>1. PICK c \in Cuts(s) \ {Len(s) + 1} :
        SubSeq(s, c + 1, NextCut(s, c) - 1) = <<".", ".">>
  BY DEF HasParent, Components
<1> DEFINE j == NextCut(s, c)
<1>2. j \in Cuts(s) /\ c < j
  BY <1>1, NextCutFacts
<1>3. Len(s) \in Nat /\ c \in 0..Len(s) /\ j \in 1..(Len(s) + 1)
  BY <1>2 DEF Cuts, Name
<1> HIDE DEF j
<1> DEFINE part == SubSeq(s, c + 1, j - 1)
<1>4. Len(part) = j - 1 - c
  BY <1>2, <1>3 DEF Name
<1>5. part = <<".", ".">>
  BY <1>1 DEF j
<1> HIDE DEF part
<1>6. j = c + 3
  <2>1. Len(part) = 2
    BY <1>5
  <2>2. c \in Int /\ j \in Int
    BY <1>3
  <2>3. j - 1 - c = 2
    BY <1>4, <2>1
  <2>4. QED
    BY <2>2, <2>3
<1>7. s[c + 1] = "." /\ s[c + 2] = "."
  <2>1. part[1] = s[c + 1] /\ part[2] = s[c + 2]
    BY <1>3, <1>6 DEF part, Name
  <2>2. QED
    BY <1>5, <2>1
<1>8. Delimits(s, c, Unix) /\ Delimits(s, c + 3, Unix)
  BY <1>1, <1>2, <1>3, <1>6 DEF Delimits, Cuts, Unix
<1>9. UpAt(s, c + 2, Unix)
  BY <1>3, <1>7, <1>8 DEF UpAt
<1>10. QED
  BY <1>3, <1>6, <1>9

LEMMA NormalizedFacts ==
  ASSUME NEW s \in Name
  PROVE  /\ Normalized(s) \in Name /\ Len(Normalized(s)) = Len(s)
         /\ \A i \in 1..Len(s) : Normalized(s)[i] # "\\"
  BY DEF Normalized, Name, Chars

(* Normalising makes every separator a '/', and changes nothing else.      *)
LEMMA NormalizedChars ==
  ASSUME NEW s \in Name, NEW i \in 1..Len(s)
  PROVE  /\ Normalized(s)[i] = "/" <=> s[i] \in Windows
         /\ \A c : c \notin Windows => (Normalized(s)[i] = c <=> s[i] = c)
  BY DEF Normalized, Windows, Name

LEMMA NormalizedUp ==
  ASSUME NEW s \in Name, NEW i \in 1..Len(s)
  PROVE  UpAt(Normalized(s), i, Unix) <=> UpAt(s, i, Windows)
<1>1. Len(Normalized(s)) = Len(s) /\ Len(s) \in Nat
  BY NormalizedFacts DEF Name
<1>2. \A k \in Int : Delimits(Normalized(s), k, Unix) <=> Delimits(s, k, Windows)
  <2> SUFFICES ASSUME NEW k \in Int
               PROVE Delimits(Normalized(s), k, Unix) <=> Delimits(s, k, Windows)
    OBVIOUS
  <2>1. CASE k \in 1..Len(s)
    BY <1>1, <2>1, NormalizedChars DEF Delimits, Unix
  <2>2. CASE k < 1 \/ k > Len(s)
    BY <1>1, <2>2 DEF Delimits
  <2>3. QED
    BY <1>1, <2>1, <2>2
<1>3. \A k \in 1..Len(s) : Normalized(s)[k] = "." <=> s[k] = "."
  <2>1. "." \notin Windows
    BY DEF Windows
  <2>2. QED
    BY <2>1, NormalizedChars
<1>4. i >= 2 => i - 1 \in 1..Len(s)
  BY <1>1
<1>5. i - 2 \in Int /\ i + 1 \in Int
  BY <1>1
<1>6. QED
  BY <1>2, <1>3, <1>4, <1>5 DEF UpAt

LEMMA ByteLenType ==
  ASSUME NEW s \in Name
  PROVE  ByteLen(s) \in Int
<1>1. Len(s) \in Nat
  BY DEF Name
<1>2. IsFiniteSet(1..Len(s))
  BY <1>1, FS_Interval
<1>3. IsFiniteSet({i \in 1..Len(s) : s[i] = "wide"})
  BY <1>2, FS_Subset
<1>4. QED
  BY <1>1, <1>3, FS_CardinalityType DEF ByteLen

LEMMA NormalizedBytes ==
  ASSUME NEW s \in Name
  PROVE  ByteLen(Normalized(s)) = ByteLen(s)
<1>1. Len(Normalized(s)) = Len(s)
  BY NormalizedFacts
<1>2. \A i \in 1..Len(s) : Normalized(s)[i] = "wide" <=> s[i] = "wide"
  <2>1. "wide" \notin Windows
    BY DEF Windows
  <2>2. QED
    BY <2>1, NormalizedChars
<1>3. {i \in 1..Len(Normalized(s)) : Normalized(s)[i] = "wide"}
        = {i \in 1..Len(s) : s[i] = "wide"}
  BY <1>1, <1>2
<1>4. QED
  BY <1>1, <1>3 DEF ByteLen

(* The name of a directory takes the byte of its slash more.               *)
LEMMA SlashBytes ==
  ASSUME NEW s \in Name
  PROVE  ByteLen(Append(s, "/")) = ByteLen(s) + 1
<1> DEFINE d == Append(s, "/")
<1>1. Len(d) = Len(s) + 1 /\ Len(s) \in Nat /\ d[Len(s) + 1] = "/"
      /\ \A i \in 1..Len(s) : d[i] = s[i]
  BY DEF Name
<1> HIDE DEF d
<1>2. {i \in 1..Len(d) : d[i] = "wide"} = {i \in 1..Len(s) : s[i] = "wide"}
  BY <1>1
<1>3. IsFiniteSet({i \in 1..Len(s) : s[i] = "wide"})
  <2>1. IsFiniteSet(1..Len(s))
    BY <1>1, FS_Interval
  <2>2. QED
    BY <2>1, FS_Subset
<1>4. Cardinality({i \in 1..Len(s) : s[i] = "wide"}) \in Nat
  BY <1>3, FS_CardinalityType
<1>5. ByteLen(d) = ByteLen(s) + 1
  <2> DEFINE b == Cardinality({i \in 1..Len(s) : s[i] = "wide"})
  <2>1. ByteLen(d) = Len(d) + b /\ ByteLen(s) = Len(s) + b /\ b \in Nat
    BY <1>2, <1>4 DEF ByteLen
  <2> HIDE DEF b
  <2>2. QED
    BY <1>1, <2>1
<1>6. QED
  BY <1>5 DEF d

(* A name sanitize_entry_name refuses is absolute, goes up or names a      *)
(* drive, for an unpacker on Windows.                                      *)
LEMMA RejectedCause ==
  ASSUME NEW s \in Name, Rejected(Normalized(s))
  PROVE  \/ s = <<>> \/ OnDrive(s) \/ s[1] \in Windows
         \/ \E i \in 1..Len(s) : UpAt(s, i, Windows)
<1> DEFINE n == Normalized(s)
<1>1. n \in Name /\ Len(n) = Len(s) /\ Len(s) \in Nat
  BY NormalizedFacts DEF Name
<1>2. CASE n = <<>>
  BY <1>1, <1>2 DEF Name
<1>3. CASE s # <<>> /\ n[1] = "/"
  <2>1. 1 \in 1..Len(s)
    BY <1>1, <1>3 DEF Name
  <2>2. QED
    BY <1>3, <2>1, NormalizedChars
<1>4. CASE HasParent(n)
  <2>1. PICK i \in 1..Len(n) : UpAt(n, i, Unix)
    BY <1>1, <1>4, ParentGoesUp
  <2>2. QED
    BY <1>1, <2>1, NormalizedUp
<1>5. CASE HasDrivePrefix(n)
  <2>1. Len(s) >= 2 /\ n[1] = "letter" /\ n[2] = ":"
    BY <1>1, <1>5 DEF HasDrivePrefix
  <2>2. 1 \in 1..Len(s) /\ 2 \in 1..Len(s) /\ "letter" \notin Windows /\ ":" \notin Windows
    BY <1>1, <2>1 DEF Windows
  <2>3. s[1] = "letter" /\ s[2] = ":"
    BY <2>1, <2>2, NormalizedChars
  <2>4. QED
    BY <2>1, <2>3 DEF OnDrive
<1>6. QED
  BY <1>2, <1>3, <1>4, <1>5 DEF Rejected

(* What sanitize_entry_name lets through.                                  *)
Sane(n) ==
  /\ n \in Name /\ n # <<>> /\ n[1] # "/" /\ ~OnDrive(n)
  /\ \A i \in 1..Len(n) : n[i] # "\\" /\ ~UpAt(n, i, Unix)

LEMMA SanitizedFacts ==
  ASSUME NEW s \in Name
  PROVE  /\ Sanitized(s)[2] \in Name
         /\ Sanitized(s)[1] = "Ok" => Sane(Sanitized(s)[2])
         /\ Sanitized(s)[1] \in {"Ok", "InvalidInput"}
<1>1. Normalized(s) \in Name /\ \A i \in 1..Len(Normalized(s)) : Normalized(s)[i] # "\\"
  BY NormalizedFacts
<1>2. Sanitized(s)[2] = Normalized(s) /\ Sanitized(s)[1] \in {"Ok", "InvalidInput"}
      /\ (Sanitized(s)[1] = "Ok" => ~Rejected(Normalized(s)))
  BY DEF Sanitized
<1>3. ASSUME ~Rejected(Normalized(s)) PROVE Sane(Normalized(s))
  <2>1. ~HasParent(Normalized(s))
    BY <1>3 DEF Rejected
  <2>2. \A i \in 1..Len(Normalized(s)) : ~UpAt(Normalized(s), i, Unix)
    BY <1>1, <2>1, NoUp
  <2>3. QED
    BY <1>1, <1>3, <2>2 DEF Sane, Rejected, HasDrivePrefix, OnDrive
<1>4. QED
  <2> DEFINE n == Normalized(s)
  <2>1. n \in Name
    BY <1>1
  <2>2. Sanitized(s)[2] = n /\ Sanitized(s)[1] \in {"Ok", "InvalidInput"}
        /\ (Sanitized(s)[1] = "Ok" => Sane(n))
    BY <1>2, <1>3
  <2> HIDE DEF n
  <2>3. QED
    BY <2>1, <2>2

(* A slash at the end of a sane name keeps it sane.                        *)
LEMMA SlashKeepsSane ==
  ASSUME NEW n, Sane(n)
  PROVE  Sane(Append(n, "/")) /\ EndsWithSlash(Append(n, "/"))
<1> DEFINE d == Append(n, "/")
<1>1. n \in Name /\ n # <<>> /\ Len(n) \in Nat /\ Len(n) >= 1
  BY DEF Sane, Name
<1>2. d \in Name /\ Len(d) = Len(n) + 1 /\ d[Len(d)] = "/"
      /\ \A i \in 1..Len(n) : d[i] = n[i]
  BY <1>1 DEF Name, Chars
<1> HIDE DEF d
<1>3. d # <<>> /\ d[1] # "/"
  BY <1>1, <1>2 DEF Sane, Name
<1>4. ~OnDrive(d)
  <2>1. CASE Len(n) >= 2
    BY <1>1, <1>2, <2>1 DEF Sane, OnDrive
  <2>2. CASE Len(n) = 1
    BY <1>1, <1>2, <2>2 DEF OnDrive
  <2>3. \A k \in Nat : k >= 1 => k >= 2 \/ k = 1
    OBVIOUS
  <2>4. QED
    BY <1>1, <2>1, <2>2, <2>3
<1>5. ASSUME NEW i \in 1..Len(d) PROVE d[i] # "\\" /\ ~UpAt(d, i, Unix)
  <2>1. CASE i = Len(d)
    BY <1>2, <2>1 DEF UpAt
  <2>2. CASE i \in 1..Len(n)
    <3>1. d[i] = n[i] /\ n[i] # "\\" /\ ~UpAt(n, i, Unix)
      BY <1>2, <2>2 DEF Sane
    <3>2. ASSUME UpAt(d, i, Unix) PROVE UpAt(n, i, Unix)
      <4>1. i >= 2 /\ n[i] = "." /\ n[i - 1] = "."
        BY <1>1, <1>2, <2>2, <3>2 DEF UpAt
      <4>2. Delimits(n, i - 2, Unix)
        BY <1>1, <1>2, <2>2, <3>2, <4>1 DEF UpAt, Delimits
      <4>3. Delimits(n, i + 1, Unix)
        BY <1>1, <1>2, <2>2, <3>2 DEF UpAt, Delimits
      <4>4. QED
        BY <4>1, <4>2, <4>3 DEF UpAt
    <3>3. QED
      BY <3>1, <3>2
  <2>3. QED
    BY <1>1, <1>2, <2>1, <2>2
<1>6. QED
  BY <1>2, <1>3, <1>4, <1>5 DEF Sane, EndsWithSlash, d

(* The name a call stores when it succeeds.                                *)
LEMMA OutcomeFacts ==
  ASSUME NEW c \in Calls, NEW s \in Name, NEW t \in Name, NEW m \in Nat
  PROVE  LET o == Outcome(c, s, t, m)
         IN  /\ o[1] \in {"Ok", "InvalidInput", "FieldTooLong"}
             /\ o[1] = "Ok" => /\ Sane(o[2]) /\ ~Contains(o[2], "NUL")
                               /\ ByteLen(o[2]) <= MaxFieldLen
                               /\ EndsWithSlash(o[2]) <=> c = "add_directory"
                               /\ ~(m > MaxFieldLen)
                               /\ c = "add_symlink" => ValidateSymlinkTarget(t) = "Ok"
<1> DEFINE given == Sanitized(s)[2]
<1>1. given \in Name /\ Sanitized(s)[1] \in {"Ok", "InvalidInput"}
      /\ (Sanitized(s)[1] = "Ok" => Sane(given))
  BY SanitizedFacts
<1>2. \A n : /\ ValidateInput(n, m) \in {"Ok", "InvalidInput", "FieldTooLong"}
             /\ ValidateInput(n, m) = "Ok" => /\ ~(ByteLen(n) > MaxFieldLen)
                                              /\ ~Contains(n, "NUL")
                                              /\ ~(m > MaxFieldLen)
  BY DEF ValidateInput
<1>3. \A n \in Name : ~(ByteLen(n) > MaxFieldLen) => ByteLen(n) <= MaxFieldLen
  <2> SUFFICES ASSUME NEW n \in Name PROVE ByteLen(n) \in Int /\ MaxFieldLen \in Int
    OBVIOUS
  <2>1. QED
    BY ByteLenType, NameAssumption
<1> HIDE DEF given
<1>4. StartFile(s, m)[1] \in {"Ok", "InvalidInput", "FieldTooLong"}
      /\ (StartFile(s, m)[1] = "Ok" =>
            /\ Sane(StartFile(s, m)[2]) /\ ~Contains(StartFile(s, m)[2], "NUL")
            /\ ByteLen(StartFile(s, m)[2]) <= MaxFieldLen
            /\ ~EndsWithSlash(StartFile(s, m)[2]) /\ ~(m > MaxFieldLen))
  <2>1. StartFile(s, m)[2] = given
        /\ StartFile(s, m)[1] = FirstError(Sanitized(s)[1],
             IF EndsWithSlash(given) THEN "InvalidInput" ELSE ValidateInput(given, m))
    BY DEF StartFile, given
  <2>2. QED
    BY <1>1, <1>2, <1>3, <2>1 DEF FirstError
<1>5. CASE c = "start_file"
  BY <1>4, <1>5 DEF Outcome
<1>6. CASE c = "add_symlink"
  <2>1. Outcome(c, s, t, m) = AddSymlink(s, t, m)
    BY <1>6 DEF Outcome
  <2>2. AddSymlink(s, t, m)[2] = StartFile(s, m)[2]
        /\ AddSymlink(s, t, m)[1] = FirstError(StartFile(s, m)[1], ValidateSymlinkTarget(t))
    BY DEF AddSymlink
  <2>3. ValidateSymlinkTarget(t) \in {"Ok", "InvalidInput"}
    BY DEF ValidateSymlinkTarget
  <2>4. QED
    BY <1>4, <1>6, <2>1, <2>2, <2>3 DEF FirstError
<1>7. CASE c = "add_directory"
  <2> DEFINE n == IF EndsWithSlash(given) THEN given ELSE Append(given, "/")
  <2>1. Outcome(c, s, t, m)[2] = n
        /\ Outcome(c, s, t, m)[1] = FirstError(Sanitized(s)[1], ValidateInput(n, m))
    BY <1>7 DEF Outcome, AddDirectory, given
  <2>2. Sanitized(s)[1] = "Ok" => Sane(n) /\ EndsWithSlash(n)
    BY <1>1, SlashKeepsSane
  <2>3. Sane(n) => n \in Name
    BY DEF Sane
  <2> HIDE DEF n
  <2>4. QED
    BY <1>1, <1>2, <1>3, <1>7, <2>1, <2>2, <2>3 DEF FirstError
<1>8. QED
  BY <1>5, <1>6, <1>7 DEF Calls
(* What each call refuses, and why.                                        *)
Unfit(c, s, t) ==
  \/ s = <<>> \/ OnDrive(s) \/ Contains(s, "NUL") \/ s[1] \in Windows
  \/ \E i \in 1..Len(s) : UpAt(s, i, Windows)
  \/ c # "add_directory" /\ s[Len(s)] \in Windows
  \/ c = "add_symlink" /\ (t = <<>> \/ Contains(t, "NUL"))

SlashByte(c, s) == IF c = "add_directory" /\ s[Len(s)] \notin Windows THEN 1 ELSE 0

LEMMA RefusalFacts ==
  ASSUME NEW c \in Calls, NEW s \in Name, NEW t \in Name, NEW m \in Nat
  PROVE  LET o == Outcome(c, s, t, m)
         IN  /\ o[1] = "InvalidInput" => Unfit(c, s, t)
             /\ o[1] = "FieldTooLong" =>
                  m > MaxFieldLen \/ ByteLen(s) + SlashByte(c, s) > MaxFieldLen
<1> DEFINE n == Normalized(s)
<1>1. n \in Name /\ Len(n) = Len(s) /\ Len(s) \in Nat /\ ByteLen(n) = ByteLen(s)
  BY NormalizedFacts, NormalizedBytes DEF Name
<1>2. Sanitized(s)[2] = n /\ Sanitized(s)[1] \in {"Ok", "InvalidInput"}
      /\ (Sanitized(s)[1] # "Ok" => Rejected(n)) /\ (Sanitized(s)[1] = "Ok" => n # <<>>)
  BY DEF Sanitized, Rejected
<1>3. Rejected(n) => Unfit(c, s, t)
  BY RejectedCause DEF Unfit
<1>4. n # <<>> => s # <<>> /\ Len(s) \in 1..Len(s)
  BY <1>1 DEF Name
<1>5. n # <<>> => (EndsWithSlash(n) <=> s[Len(s)] \in Windows)
  BY <1>1, <1>4, NormalizedChars DEF EndsWithSlash
<1>6. Contains(n, "NUL") => Contains(s, "NUL")
  <2>1. "NUL" \notin Windows
    BY DEF Windows
  <2>2. QED
    BY <1>1, <2>1, NormalizedChars DEF Contains
<1>7. \A d : /\ ValidateInput(d, m) = "InvalidInput" => d = <<>> \/ Contains(d, "NUL")
             /\ ValidateInput(d, m) = "FieldTooLong" =>
                  ByteLen(d) > MaxFieldLen \/ m > MaxFieldLen
  BY DEF ValidateInput
<1>8. ByteLen(s) \in Int
  BY ByteLenType
<1> HIDE DEF n
<1>9. ASSUME c # "add_directory"
      PROVE  /\ StartFile(s, m)[1] = "InvalidInput" => Unfit(c, s, t)
             /\ StartFile(s, m)[1] = "FieldTooLong" =>
                  m > MaxFieldLen \/ ByteLen(s) + SlashByte(c, s) > MaxFieldLen
  <2>1. StartFile(s, m)[1] = FirstError(Sanitized(s)[1],
          IF EndsWithSlash(n) THEN "InvalidInput" ELSE ValidateInput(n, m))
    BY <1>2 DEF StartFile
  <2>2. Sanitized(s)[1] # "Ok" => StartFile(s, m)[1] = "InvalidInput" /\ Unfit(c, s, t)
    BY <1>2, <1>3, <2>1 DEF FirstError
  <2>3. ASSUME Sanitized(s)[1] = "Ok", EndsWithSlash(n) 
        PROVE  StartFile(s, m)[1] = "InvalidInput" /\ Unfit(c, s, t)
    BY <1>2, <1>5, <1>9, <2>1, <2>3 DEF FirstError, Unfit
  <2>4. ASSUME Sanitized(s)[1] = "Ok", ~EndsWithSlash(n)
        PROVE  /\ StartFile(s, m)[1] = "InvalidInput" => Unfit(c, s, t)
               /\ StartFile(s, m)[1] = "FieldTooLong" =>
                    m > MaxFieldLen \/ ByteLen(s) > MaxFieldLen
    <3>1. StartFile(s, m)[1] = ValidateInput(n, m)
      BY <2>1, <2>4 DEF FirstError
    <3>2. n # <<>>
      BY <1>2, <2>4
    <3>3. Contains(s, "NUL") => Unfit(c, s, t)
      BY DEF Unfit
    <3>4. QED
      BY <1>1, <1>6, <1>7, <3>1, <3>2, <3>3
  <2>5. ByteLen(s) + SlashByte(c, s) = ByteLen(s)
    BY <1>8, <1>9 DEF SlashByte
  <2>6. QED
    BY <2>2, <2>3, <2>4, <2>5
<1>10. CASE c = "start_file"
  BY <1>9, <1>10 DEF Outcome
<1>11. CASE c = "add_symlink"
  <2>1. Outcome(c, s, t, m)[1] = FirstError(StartFile(s, m)[1], ValidateSymlinkTarget(t))
    BY <1>11 DEF Outcome, AddSymlink
  <2>2. ValidateSymlinkTarget(t) \in {"Ok", "InvalidInput"}
        /\ (ValidateSymlinkTarget(t) = "InvalidInput" => Unfit(c, s, t))
    BY <1>11 DEF ValidateSymlinkTarget, Unfit
  <2>3. QED
    BY <1>9, <1>11, <2>1, <2>2 DEF FirstError
<1>12. CASE c = "add_directory"
  <2> DEFINE d == IF EndsWithSlash(n) THEN n ELSE Append(n, "/")
  <2>1. Outcome(c, s, t, m)[1] = FirstError(Sanitized(s)[1], ValidateInput(d, m))
    BY <1>2, <1>12 DEF Outcome, AddDirectory
  <2>2. d # <<>>
    BY <1>1 DEF EndsWithSlash, Name
  <2>3. Contains(d, "NUL") => Unfit(c, s, t)
    <3>1. CASE EndsWithSlash(n)
      BY <1>6, <3>1 DEF Unfit
    <3>2. CASE ~EndsWithSlash(n)
      <4>1. Contains(Append(n, "/"), "NUL") => Contains(n, "NUL")
        BY <1>1 DEF Contains, Name
      <4>2. QED
        BY <1>6, <3>2, <4>1 DEF Unfit
    <3>3. QED
      BY <3>1, <3>2
  <2>4. n # <<>> => ByteLen(d) = ByteLen(s) + SlashByte(c, s)
    <3>1. ByteLen(Append(n, "/")) = ByteLen(n) + 1
      BY <1>1, SlashBytes
    <3>2. QED
      BY <1>1, <1>5, <1>8, <1>12, <3>1 DEF SlashByte
  <2> HIDE DEF d
  <2>5. CASE Sanitized(s)[1] # "Ok"
    BY <1>2, <1>3, <2>1, <2>5 DEF FirstError
  <2>6. CASE Sanitized(s)[1] = "Ok"
    <3>1. Outcome(c, s, t, m)[1] = ValidateInput(d, m) /\ n # <<>>
      BY <1>2, <2>1, <2>6 DEF FirstError
    <3>2. QED
      BY <1>7, <2>2, <2>3, <2>4, <3>1
  <2>7. QED
    BY <2>5, <2>6
<1>13. QED
  BY <1>10, <1>11, <1>12 DEF Calls
-----------------------------------------------------------------------------
(* The arguments stay, and an accepted name is one a call lets through.    *)
AnswerInv ==
  /\ call \in Calls /\ raw \in RawNames /\ commentLen \in CommentLens
  /\ target \in Targets \cup {<<>>}
  /\ answer \in {"none", "Ok", "InvalidInput", "FieldTooLong"}
  /\ answer # "Ok" => name = <<>>
  /\ answer = "Ok" => /\ Sane(name) /\ ~Contains(name, "NUL")
                      /\ ByteLen(name) <= MaxFieldLen
                      /\ EndsWithSlash(name) <=> call = "add_directory"
                      /\ ~(commentLen > MaxFieldLen)
                      /\ call = "add_symlink" => ValidateSymlinkTarget(target) = "Ok"
  /\ answer # "none" => answer = Outcome(call, raw, target, commentLen)[1]

THEOREM AnswerAlways == Spec => []AnswerInv
<1>1. Init => AnswerInv
  BY DEF Init, AnswerInv
<1>2. AnswerInv /\ [Next]_nameVars => AnswerInv'
  <2> SUFFICES ASSUME AnswerInv, [Next]_nameVars PROVE AnswerInv'
    OBVIOUS
  <2>1. CASE Answer
    <3>0. <<>> \in Name
      BY DEF Name
    <3>1. raw \in Name /\ target \in Name /\ commentLen \in Nat /\ call \in Calls
      BY <3>0, NameAssumption DEF AnswerInv, Name
    <3>2. UNCHANGED <<call, raw, target, commentLen>>
          /\ answer' = Outcome(call, raw, target, commentLen)[1]
          /\ name' = IF answer' = "Ok" THEN Outcome(call, raw, target, commentLen)[2]
                     ELSE <<>>
      BY <2>1 DEF Answer
    <3>3. /\ answer' \in {"Ok", "InvalidInput", "FieldTooLong"}
          /\ answer' = "Ok" =>
                /\ Sane(name') /\ ~Contains(name', "NUL")
                /\ ByteLen(name') <= MaxFieldLen
                /\ EndsWithSlash(name') <=> call = "add_directory"
                /\ ~(commentLen > MaxFieldLen)
                /\ call = "add_symlink" => ValidateSymlinkTarget(target) = "Ok"
      BY <3>1, <3>2, OutcomeFacts
    <3>4. QED
      BY <3>2, <3>3 DEF AnswerInv
  <2>2. CASE UNCHANGED nameVars
    BY <2>2 DEF nameVars, AnswerInv
  <2>3. QED
    BY <2>1, <2>2 DEF Next
<1>3. QED
  BY <1>1, <1>2, PTL DEF Spec

(* The stored name is a name without NULs and backslashes.                 *)
THEOREM NamesTypeCorrect == Spec => []TypeOK
<1>1. ASSUME Sane(name), ~Contains(name, "NUL")
      PROVE  name \in Seq(Chars \ {"NUL", "\\"})
  <2>1. name \in Seq(Chars) /\ \A i \in 1..Len(name) : name[i] \in Chars \ {"NUL", "\\"}
    BY <1>1 DEF Sane, Name, Contains
  <2> DEFINE Plain == Chars \ {"NUL", "\\"}
  <2>2. \A i \in 1..Len(name) : name[i] \in Plain
    BY <2>1
  <2> HIDE DEF Plain
  <2>3. name \in Seq(Plain)
    BY <2>1, <2>2
  <2>4. QED
    BY <2>3 DEF Plain
<1>2. <<>> \in Seq(Chars \ {"NUL", "\\"})
  OBVIOUS
<1>3. AnswerInv => name \in Seq(Chars \ {"NUL", "\\"})
  <2>1. AnswerInv => name = <<>> \/ (Sane(name) /\ ~Contains(name, "NUL"))
    BY DEF AnswerInv
  <2>2. QED
    BY <1>1, <1>2, <2>1
<1>4. AnswerInv => TypeOK
  BY <1>3 DEF AnswerInv, TypeOK
<1>5. QED
  BY <1>4, AnswerAlways, PTL

(* Nothing is left to normalise or to refuse in an accepted name.          *)
LEMMA AcceptedAgain ==
  ASSUME NEW c \in Calls, NEW n, NEW t, NEW m, Sane(n), ~Contains(n, "NUL"),
         ~(ByteLen(n) > MaxFieldLen), ~(m > MaxFieldLen),
         EndsWithSlash(n) <=> c = "add_directory",
         c = "add_symlink" => ValidateSymlinkTarget(t) = "Ok"
  PROVE  Outcome(c, n, t, m) = <<"Ok", n>>
<1>1. n \in Name /\ n # <<>>
  BY DEF Sane
<1>2. Normalized(n) = n
  <2>1. Normalized(n) = [i \in 1..Len(n) |-> n[i]]
    BY DEF Normalized, Sane
  <2>2. n = [i \in 1..Len(n) |-> n[i]]
    BY <1>1 DEF Name
  <2>3. QED
    BY <2>1, <2>2
<1>3. ~Rejected(n)
  <2>1. ~HasParent(n)
    BY <1>1, ParentGoesUp DEF Sane
  <2>2. QED
    BY <2>1 DEF Sane, Rejected, HasDrivePrefix, OnDrive
<1>4. Sanitized(n) = <<"Ok", n>>
  BY <1>2, <1>3 DEF Sanitized
<1>5. Sanitized(n)[1] = "Ok" /\ Sanitized(n)[2] = n
  BY <1>4
<1>6. ValidateInput(n, m) = "Ok"
  BY <1>1 DEF ValidateInput
<1>7. ~EndsWithSlash(n) => StartFile(n, m) = <<"Ok", n>>
  BY <1>5, <1>6 DEF StartFile, FirstError
<1>8. EndsWithSlash(n) => AddDirectory(n, m) = <<"Ok", n>>
  BY <1>5, <1>6 DEF AddDirectory, FirstError
<1>9. ~EndsWithSlash(n) /\ ValidateSymlinkTarget(t) = "Ok" =>
        AddSymlink(n, t, m) = <<"Ok", n>>
  BY <1>7 DEF AddSymlink, FirstError
<1>10. QED
  BY <1>7, <1>8, <1>9 DEF Outcome, Calls

(* A name read back from an archive can be stored again, as it is.         *)
THEOREM AlwaysCanonical == Spec => []Canonical
<1>1. AnswerInv => Canonical
  <2> SUFFICES ASSUME AnswerInv, answer = "Ok"
               PROVE  Outcome(call, name, target, commentLen) = <<"Ok", name>>
    BY DEF Canonical, Accepted
  <2>1. ByteLen(name) \in Int /\ MaxFieldLen \in Int
    BY ByteLenType, NameAssumption DEF AnswerInv, Sane
  <2>2. ~(ByteLen(name) > MaxFieldLen)
    BY <2>1 DEF AnswerInv
  <2>3. QED
    BY <2>2, AcceptedAgain DEF AnswerInv
<1>2. QED
  BY <1>1, AnswerAlways, PTL

(* A call that is refused had a cause one can see in its arguments.        *)
THEOREM RefusalsJustified == Spec => []RefusalJustified
<1>1. AnswerInv => RefusalJustified
  <2> SUFFICES ASSUME AnswerInv PROVE RefusalJustified
    OBVIOUS
  <2>1. <<>> \in Name
    BY DEF Name
  <2>2. call \in Calls /\ raw \in Name /\ target \in Name /\ commentLen \in Nat
    BY <2>1, NameAssumption DEF AnswerInv, Name
  <2>3. answer # "none" => answer = Outcome(call, raw, target, commentLen)[1]
    BY DEF AnswerInv
  <2>4. /\ answer = "InvalidInput" => Unfit(call, raw, target)
        /\ answer = "FieldTooLong" =>
             \/ commentLen > MaxFieldLen
             \/ ByteLen(raw) + SlashByte(call, raw) > MaxFieldLen
    BY <2>2, <2>3, RefusalFacts
  <2>5. QED
    BY <2>4 DEF RefusalJustified, Unfit, SlashByte
<1>2. QED
  BY <1>1, AnswerAlways, PTL

(* The stored name is short enough for its length field, slash included.   *)
THEOREM NameAlwaysFits == Spec => []StoredNameFits
<1>1. AnswerInv => StoredNameFits
  BY DEF AnswerInv, StoredNameFits, Accepted
<1>2. QED
  BY <1>1, AnswerAlways, PTL

(* Directories, and only directories, are stored with a trailing slash.    *)
THEOREM SlashIsDirectory == Spec => []SlashTellsDirectory
<1>1. AnswerInv => SlashTellsDirectory
  BY DEF AnswerInv, SlashTellsDirectory, Accepted
<1>2. QED
  BY <1>1, AnswerAlways, PTL

(* A sane name never goes up, so it cannot go up too often.                *)
LEMMA SaneStays ==
  ASSUME NEW n, Sane(n), NEW sep \in {Unix, Windows}
  PROVE  ~Escapes(n, sep)
<1>1. n \in Name /\ n # <<>> /\ n[1] \notin sep
  BY DEF Sane, Unix, Windows, Name
<1>2. \A i \in 1..Len(n) : ~UpAt(n, i, sep)
  BY DEF Sane, Unix, Windows, UpAt, Delimits, Name
<1>3. ASSUME NEW i \in 1..Len(n)
      PROVE  ~(Cardinality({k \in 1..i : UpAt(n, k, sep)})
                 > Cardinality({k \in 1..i : DownAt(n, k, sep)}))
  <2>1. Len(n) \in Nat
    BY <1>1 DEF Name
  <2>2. {k \in 1..i : UpAt(n, k, sep)} = {}
    BY <1>2, <2>1
  <2>3. IsFiniteSet({k \in 1..i : DownAt(n, k, sep)})
    <3>1. IsFiniteSet(1..i)
      BY <2>1, FS_Interval
    <3>2. {k \in 1..i : DownAt(n, k, sep)} \subseteq 1..i
      OBVIOUS
    <3>3. QED
      BY <3>1, <3>2, FS_Subset
  <2>4. Cardinality({k \in 1..i : DownAt(n, k, sep)}) \in Nat
    BY <2>3, FS_CardinalityType
  <2>5. Cardinality({k \in 1..i : UpAt(n, k, sep)}) = 0
    BY <2>2, FS_EmptySet
  <2> DEFINE down == Cardinality({k \in 1..i : DownAt(n, k, sep)})
  <2>6. ~(0 > down)
    <3>1. down \in Nat
      BY <2>4
    <3> HIDE DEF down
    <3>2. QED
      BY <3>1
  <2>7. QED
    BY <2>5, <2>6
<1>4. QED
  BY <1>1, <1>3 DEF Escapes

(* No accepted name leads out of the directory it is unpacked in.          *)
THEOREM NeverEscapes == Spec => []NoEscape
<1>1. Sane(name) => ~Escapes(name, Unix) /\ ~Escapes(name, Windows) /\ ~OnDrive(name)
  BY SaneStays DEF Sane
<1>2. AnswerInv => NoEscape
  BY <1>1 DEF AnswerInv, NoEscape, Accepted
<1>3. QED
  BY <1>2, AnswerAlways, PTL
=============================================================================
