------------------------ MODULE DeflateEncoderProofs ------------------------
(***************************************************************************)
(* Proofs about DeflateEncoder, for every compressor and sink the model    *)
(* allows, all buffer limits and any length of the data.                   *)
(***************************************************************************)
EXTENDS EncoderStream, SequenceTheorems, WellFoundedInduction, TLAPS

(* Induction on the naturals and on sequences, for properties given as     *)
(* the set of the values that have them.                                   *)
LEMMA LeastNatural == \A T \in SUBSET Nat : T # {} => \E n \in T : \A m \in T : n <= m
<1> SUFFICES ASSUME NEW T \in SUBSET Nat, T # {} PROVE \E n \in T : \A m \in T : n <= m
  OBVIOUS
<1> DEFINE R == OpToRel(<, Nat)
<1>1. IsWellFoundedOn(R, Nat)
  BY NatLessThanWellFounded
<1>2. \A m, n \in Nat : m < n => <<m, n>> \in R
  BY DEF OpToRel
<1> HIDE DEF R
<1>3. PICK x \in T : \A y \in T : ~(<<y, x>> \in R)
  BY <1>1, WFMin
<1>4. \A y \in T : x <= y
  <2>1. \A y \in T : ~(y < x)
    BY <1>2, <1>3
  <2>2. QED
    BY <2>1
<1>5. QED
  BY <1>4

LEMMA Induction ==
  \A T : 0 \in T /\ (\A n \in Nat : n \in T => n + 1 \in T) => Nat \subseteq T
<1> SUFFICES ASSUME NEW T, 0 \in T, \A n \in Nat : n \in T => n + 1 \in T,
                    NEW k \in Nat, k \notin T
             PROVE  FALSE
  OBVIOUS
<1>1. PICK n \in Nat \ T : \A m \in Nat \ T : n <= m
  BY LeastNatural
<1>2. n # 0 /\ n - 1 \in Nat
  BY <1>1
<1>3. n - 1 \in T
  BY <1>1, <1>2
<1>4. QED
  BY <1>1, <1>2, <1>3

LEMMA SequenceInduction ==
  ASSUME NEW S, NEW T, <<>> \in T,
         \A s \in Seq(S), e \in S : s \in T => Append(s, e) \in T
  PROVE  Seq(S) \subseteq T
<1> DEFINE N == {n \in Nat : \A s \in Seq(S) : Len(s) = n => s \in T}
<1>1. 0 \in N
  <2>1. \A s \in Seq(S) : Len(s) = 0 => s = <<>>
    BY EmptySeq
  <2>2. QED
    BY <2>1
<1>2. ASSUME NEW n \in Nat, n \in N PROVE n + 1 \in N
  <2> SUFFICES ASSUME NEW s \in Seq(S), Len(s) = n + 1 PROVE s \in T
    OBVIOUS
  <2>1. s # <<>>
    BY EmptySeq
  <2>2. PICK t \in Seq(S), e \in S : s = Append(t, e)
    BY <2>1, SequenceEmptyOrAppend
  <2>3. Len(t) \in Nat /\ Len(s) = Len(t) + 1
    BY <2>2, AppendProperties, LenProperties
  <2>4. t \in T
    BY <1>2, <2>3
  <2>5. QED
    BY <2>2, <2>4
<1>3. Nat \subseteq N
  <2> HIDE DEF N
  <2>1. QED
    BY <1>1, <1>2, Induction
<1>4. QED
  BY <1>3, LenProperties
-----------------------------------------------------------------------------
(* Keep.  Its recursive function is given by what it does at each index.   *)
Keeps(g, s, X) ==
  g = [i \in 0..Len(s) |->
         IF i = 0 THEN <<>> ELSE IF s[i] \in X THEN Append(g[i - 1], s[i]) ELSE g[i - 1]]

LEMMA KeepsAt ==
  ASSUME NEW g, NEW s, NEW X, Keeps(g, s, X), Len(s) \in Nat
  PROVE  /\ g[0] = <<>>
         /\ \A i \in 1..Len(s) :
              g[i] = IF s[i] \in X THEN Append(g[i - 1], s[i]) ELSE g[i - 1]
<1> DEFINE val(i) == IF i = 0 THEN <<>>
                     ELSE IF s[i] \in X THEN Append(g[i - 1], s[i]) ELSE g[i - 1]
<1>1. g = [i \in 0..Len(s) |-> val(i)]
  BY DEF Keeps
<1>2. val(0) = <<>>
  OBVIOUS
<1>3. \A i \in 1..Len(s) : val(i) = IF s[i] \in X THEN Append(g[i - 1], s[i]) ELSE g[i - 1]
  OBVIOUS
<1> HIDE DEF val
<1>4. \A i \in 0..Len(s) : g[i] = val(i)
  BY <1>1
<1>5. 0 \in 0..Len(s) /\ 1..Len(s) \subseteq 0..Len(s)
  OBVIOUS
<1>6. QED
  BY <1>2, <1>3, <1>4, <1>5

LEMMA KeepsUnique ==
  ASSUME NEW g, NEW h, NEW S, NEW s \in Seq(S), NEW t \in Seq(S), NEW X,
         Keeps(g, s, X), Keeps(h, t, X), Len(s) <= Len(t),
         \A i \in 1..Len(s) : s[i] = t[i]
  PROVE  \A i \in 0..Len(s) : g[i] = h[i]
<1> DEFINE N == {i \in Nat : i <= Len(s) => g[i] = h[i]}
<1>0. Len(s) \in Nat /\ Len(t) \in Nat
  BY LenProperties
<1>1. 0 \in N
  BY <1>0, KeepsAt
<1>2. ASSUME NEW n \in Nat, n \in N PROVE n + 1 \in N
  <2> SUFFICES ASSUME n + 1 <= Len(s) PROVE g[n + 1] = h[n + 1]
    OBVIOUS
  <2>1. g[n] = h[n] /\ s[n + 1] = t[n + 1]
    BY <1>0, <1>2
  <2>2. n + 1 \in 1..Len(s) /\ n + 1 \in 1..Len(t) /\ (n + 1) - 1 = n
    BY <1>0
  <2>3. g[n + 1] = IF s[n + 1] \in X THEN Append(g[n], s[n + 1]) ELSE g[n]
    BY <1>0, <2>2, KeepsAt
  <2>4. h[n + 1] = IF t[n + 1] \in X THEN Append(h[n], t[n + 1]) ELSE h[n]
    BY <1>0, <2>2, KeepsAt
  <2>5. QED
    BY <2>1, <2>3, <2>4
<1> HIDE DEF N
<1>3. Nat \subseteq N
  BY <1>1, <1>2, Induction
<1>4. QED
  BY <1>0, <1>3 DEF N

LEMMA KeepsExtended ==
  ASSUME NEW g, NEW S, NEW s \in Seq(S), NEW e \in S, NEW X, Keeps(g, s, X)
  PROVE  LET last == IF e \in X THEN Append(g[Len(s)], e) ELSE g[Len(s)]
         IN \E h : Keeps(h, Append(s, e), X) /\ h[Len(s) + 1] = last
<1> DEFINE n    == Len(s)
           t    == Append(s, e)
           last == IF e \in X THEN Append(g[n], e) ELSE g[n]
           h    == [i \in 0..(n + 1) |-> IF i = n + 1 THEN last ELSE g[i]]
<1>1. n \in Nat /\ Len(t) = n + 1 /\ t[n + 1] = e /\ \A i \in 1..n : t[i] = s[i]
  BY AppendProperties, LenProperties
<1>2. h[n + 1] = last /\ \A i \in 0..n : h[i] = g[i]
  BY <1>1
<1>3. ASSUME NEW i \in 0..(n + 1)
      PROVE  h[i] = IF i = 0 THEN <<>>
                    ELSE IF t[i] \in X THEN Append(h[i - 1], t[i]) ELSE h[i - 1]
  <2>1. CASE i = n + 1
    <3>1. i # 0 /\ i - 1 \in 0..n /\ i - 1 = n
      BY <1>1, <2>1
    <3> HIDE DEF h, t, last
    <3>2. h[i] = last /\ h[i - 1] = g[n] /\ t[i] = e
      BY <1>1, <1>2, <2>1, <3>1
    <3> USE DEF last
    <3>3. QED
      BY <3>1, <3>2
  <2>2. CASE i # n + 1
    <3>1. i \in 0..n /\ (i # 0 => i \in 1..n /\ i - 1 \in 0..n)
      BY <1>1, <2>2
    <3>2. g[i] = IF i = 0 THEN <<>>
                 ELSE IF s[i] \in X THEN Append(g[i - 1], s[i]) ELSE g[i - 1]
      BY <3>1 DEF Keeps
    <3> HIDE DEF h, t
    <3>3. QED
      BY <1>1, <1>2, <3>1, <3>2
  <2>3. QED
    BY <2>1, <2>2
<1>4. Keeps(h, t, X)
  <2>1. h = [i \in 0..(n + 1) |-> h[i]]
    OBVIOUS
  <2> HIDE DEF h, t
  <2>2. QED
    BY <1>1, <1>3, <2>1 DEF Keeps
<1> HIDE DEF h
<1>5. QED
  BY <1>1, <1>2, <1>4

LEMMA KeepsExists == ASSUME NEW S, NEW s \in Seq(S), NEW X PROVE \E g : Keeps(g, s, X)
<1> DEFINE T == {t \in Seq(S) : \E g : Keeps(g, t, X)}
<1>1. <<>> \in T
  <2> DEFINE g == [i \in 0..0 |-> <<>>]
  <2>1. Keeps(g, <<>>, X)
    BY EmptySeq DEF Keeps
  <2> HIDE DEF g
  <2>2. QED
    BY <2>1, EmptySeq
<1>2. ASSUME NEW t \in Seq(S), NEW e \in S, t \in T PROVE Append(t, e) \in T
  BY <1>2, KeepsExtended, AppendProperties
<1> HIDE DEF T
<1>3. s \in T
  BY <1>1, <1>2, SequenceInduction
<1>4. QED
  BY <1>3 DEF T

LEMMA KeepIs ==
  ASSUME NEW S, NEW s \in Seq(S), NEW X, NEW g, Keeps(g, s, X)
  PROVE  Keep(s, X) = g[Len(s)]
<1> DEFINE h == CHOOSE k : k = [i \in 0..Len(s) |->
                   IF i = 0 THEN <<>> ELSE IF s[i] \in X THEN Append(k[i - 1], s[i]) ELSE k[i - 1]]
<1>1. Keep(s, X) = h[Len(s)]
  BY DEF Keep
<1>2. Keeps(h, s, X)
  <2>1. \E k : k = [i \in 0..Len(s) |->
                   IF i = 0 THEN <<>> ELSE IF s[i] \in X THEN Append(k[i - 1], s[i]) ELSE k[i - 1]]
    BY DEF Keeps
  <2>2. h = [i \in 0..Len(s) |->
               IF i = 0 THEN <<>> ELSE IF s[i] \in X THEN Append(h[i - 1], s[i]) ELSE h[i - 1]]
    BY <2>1
  <2>3. QED
    BY <2>2 DEF Keeps
<1> HIDE DEF h
<1>3. Len(s) \in Nat /\ Len(s) \in 0..Len(s)
  BY LenProperties
<1>4. QED
  BY <1>1, <1>2, <1>3, KeepsUnique

LEMMA KeepEmpty == \A X : Keep(<<>>, X) = <<>>
<1> TAKE X
<1>1. PICK g : Keeps(g, <<>>, X)
  BY KeepsExists, EmptySeq
<1>2. Keep(<<>>, X) = g[0]
  BY <1>1, KeepIs, EmptySeq
<1>3. QED
  BY <1>1, <1>2 DEF Keeps

LEMMA KeepAppend ==
  ASSUME NEW S, NEW s \in Seq(S), NEW e \in S, NEW X
  PROVE  Keep(Append(s, e), X) = IF e \in X THEN Append(Keep(s, X), e) ELSE Keep(s, X)
<1>1. PICK g : Keeps(g, s, X)
  BY KeepsExists
<1>2. PICK h : /\ Keeps(h, Append(s, e), X)
               /\ h[Len(s) + 1] = IF e \in X THEN Append(g[Len(s)], e) ELSE g[Len(s)]
  BY <1>1, KeepsExtended
<1>3. Keep(s, X) = g[Len(s)]
  BY <1>1, KeepIs
<1>4. Keep(Append(s, e), X) = h[Len(s) + 1]
  <2>1. Append(s, e) \in Seq(S) /\ Len(Append(s, e)) = Len(s) + 1
    BY AppendProperties
  <2>2. Keep(Append(s, e), X) = h[Len(Append(s, e))]
    BY <1>2, <2>1, KeepIs
  <2>3. QED
    BY <2>1, <2>2
<1>5. QED
  BY <1>2, <1>3, <1>4

(* What is kept of s and of t is what is kept of s \o t; keeping twice     *)
(* keeps what is in both sets; what is kept is in the set.                 *)
LEMMA KeepType ==
  ASSUME NEW S, NEW s \in Seq(S), NEW X
  PROVE  Keep(s, X) \in Seq(S \cap X)
<1> DEFINE T == {t \in Seq(S) : Keep(t, X) \in Seq(S \cap X)}
<1>1. <<>> \in T
  BY KeepEmpty, EmptySeq
<1>2. ASSUME NEW t \in Seq(S), NEW e \in S, t \in T PROVE Append(t, e) \in T
  <2>1. Append(t, e) \in Seq(S)
    BY AppendProperties
  <2>2. e \in X => Append(Keep(t, X), e) \in Seq(S \cap X)
    BY <1>2, AppendProperties
  <2>3. QED
    BY <1>2, <2>1, <2>2, KeepAppend
<1> HIDE DEF T
<1>3. s \in T
  BY <1>1, <1>2, SequenceInduction
<1>4. QED
  BY <1>3 DEF T

(* Folded, the equation costs the provers nothing to instantiate.          *)
Regroups(a, b, c) == (a \o b) \o c = a \o (b \o c)

LEMMA Regrouped ==
  ASSUME NEW S, NEW a \in Seq(S), NEW b \in Seq(S), NEW c \in Seq(S)
  PROVE  Regroups(a, b, c)
  BY ConcatAssociative DEF Regroups

LEMMA AppendConcat ==
  ASSUME NEW S, NEW s \in Seq(S), NEW t \in Seq(S), NEW e \in S
  PROVE  s \o Append(t, e) = Append(s \o t, e)
<1>1. s \o t \in Seq(S) /\ <<e>> \in Seq(S)
  BY ConcatProperties
<1>2. Append(t, e) = t \o <<e>> /\ Append(s \o t, e) = (s \o t) \o <<e>>
  BY <1>1, AppendIsConcat
<1>3. QED
  BY <1>1, <1>2, ConcatAssociative

LEMMA KeepConcat ==
  ASSUME NEW S, NEW s \in Seq(S), NEW t \in Seq(S), NEW X
  PROVE  Keep(s \o t, X) = Keep(s, X) \o Keep(t, X)
<1> DEFINE T == {u \in Seq(S) : Keep(s \o u, X) = Keep(s, X) \o Keep(u, X)}
<1>0. Keep(s, X) \in Seq(S \cap X)
  BY KeepType
<1>1. <<>> \in T
  BY <1>0, KeepEmpty, EmptySeq, ConcatEmptySeq
<1>2. ASSUME NEW u \in Seq(S), NEW e \in S, u \in T PROVE Append(u, e) \in T
  <2>1. Append(u, e) \in Seq(S) /\ s \o u \in Seq(S) /\ Keep(u, X) \in Seq(S \cap X)
    BY AppendProperties, ConcatProperties, KeepType
  <2>2. Keep(s \o Append(u, e), X)
          = IF e \in X THEN Append(Keep(s \o u, X), e) ELSE Keep(s \o u, X)
    <3>1. s \o Append(u, e) = Append(s \o u, e)
      BY AppendConcat
    <3>2. Keep(Append(s \o u, e), X)
            = IF e \in X THEN Append(Keep(s \o u, X), e) ELSE Keep(s \o u, X)
      BY <2>1, KeepAppend
    <3>3. QED
      BY <3>1, <3>2
  <2>3. Keep(Append(u, e), X) = IF e \in X THEN Append(Keep(u, X), e) ELSE Keep(u, X)
    BY KeepAppend
  <2>4. e \in X => Keep(s, X) \o Append(Keep(u, X), e) = Append(Keep(s, X) \o Keep(u, X), e)
    BY <1>0, <2>1, AppendConcat
  <2>5. QED
    BY <1>2, <2>1, <2>2, <2>3, <2>4
<1> HIDE DEF T
<1>3. t \in T
  BY <1>1, <1>2, SequenceInduction
<1>4. QED
  BY <1>3 DEF T

LEMMA KeepKeep ==
  ASSUME NEW S, NEW s \in Seq(S), NEW X, NEW Y
  PROVE  Keep(Keep(s, X), Y) = Keep(s, X \cap Y)
<1> DEFINE T == {t \in Seq(S) : Keep(Keep(t, X), Y) = Keep(t, X \cap Y)}
<1>1. <<>> \in T
  BY KeepEmpty, EmptySeq
<1>2. ASSUME NEW t \in Seq(S), NEW e \in S, t \in T PROVE Append(t, e) \in T
  <2>1. Append(t, e) \in Seq(S) /\ Keep(t, X) \in Seq(S \cap X)
    BY AppendProperties, KeepType
  <2>2. Keep(Append(t, e), X) = IF e \in X THEN Append(Keep(t, X), e) ELSE Keep(t, X)
    BY KeepAppend
  <2>3. Keep(Append(t, e), X \cap Y)
          = IF e \in X \cap Y THEN Append(Keep(t, X \cap Y), e) ELSE Keep(t, X \cap Y)
    BY KeepAppend
  <2>4. e \in X => Keep(Append(Keep(t, X), e), Y)
                    = IF e \in Y THEN Append(Keep(Keep(t, X), Y), e) ELSE Keep(Keep(t, X), Y)
    <3> SUFFICES ASSUME e \in X
                 PROVE  Keep(Append(Keep(t, X), e), Y)
                          = IF e \in Y THEN Append(Keep(Keep(t, X), Y), e) ELSE Keep(Keep(t, X), Y)
      OBVIOUS
    <3> DEFINE k == Keep(t, X)
               Z == S \cap X
    <3>1. e \in Z /\ k \in Seq(Z)
      BY <2>1
    <3> HIDE DEF k, Z
    <3>2. Keep(Append(k, e), Y) = IF e \in Y THEN Append(Keep(k, Y), e) ELSE Keep(k, Y)
      BY <3>1, KeepAppend
    <3>3. QED
      BY <3>2 DEF k
  <2>5. Keep(Keep(t, X), Y) = Keep(t, X \cap Y)
    BY <1>2
  <2>6. Keep(Keep(Append(t, e), X), Y) = Keep(Append(t, e), X \cap Y)
    <3>1. CASE e \in X
      <4>1. Keep(Append(t, e), X) = Append(Keep(t, X), e) /\ (e \in X \cap Y <=> e \in Y)
        BY <2>2, <3>1
      <4>2. Keep(Append(Keep(t, X), e), Y)
              = IF e \in Y THEN Append(Keep(Keep(t, X), Y), e) ELSE Keep(Keep(t, X), Y)
        BY <2>4, <3>1
      <4>3. QED
        BY <2>3, <2>5, <4>1, <4>2
    <3>2. CASE e \notin X
      BY <2>2, <2>3, <2>5, <3>2
    <3>3. QED
      BY <3>1, <3>2
  <2>7. QED
    BY <2>1, <2>6
<1> HIDE DEF T
<1>3. s \in T
  BY <1>1, <1>2, SequenceInduction
<1>4. QED
  BY <1>3 DEF T

LEMMA KeepAll == ASSUME NEW X, NEW s \in Seq(X) PROVE Keep(s, X) = s
<1> DEFINE T == {t \in Seq(X) : Keep(t, X) = t}
<1>1. <<>> \in T
  BY KeepEmpty, EmptySeq
<1>2. ASSUME NEW t \in Seq(X), NEW e \in X, t \in T PROVE Append(t, e) \in T
  BY <1>2, KeepAppend, AppendProperties
<1> HIDE DEF T
<1>3. s \in T
  BY <1>1, <1>2, SequenceInduction
<1>4. QED
  BY <1>3 DEF T
-----------------------------------------------------------------------------
(* The compressor.  A call returns, in order, what was inside it and the   *)
(* input it consumed, and between them a mark if it was asked for one.     *)
CompressorType ==
  [hold: Seq(Tokens), queue: Seq(Symbols), fin: BOOLEAN, ended: BOOLEAN, bad: BOOLEAN,
   synced: BOOLEAN]

(* Once the end was asked for no block is open; once it was handed out     *)
(* nothing is left.                                                        *)
Orderly(c) ==
  /\ c.fin => c.hold = <<>>
  /\ c.ended => c.fin /\ c.queue = <<>>

LEMMA FirstRest ==
  ASSUME NEW S, NEW s \in Seq(S), NEW n \in Nat
  PROVE  /\ First(s, n) \in Seq(S) /\ Rest(s, n) \in Seq(S)
         /\ Len(First(s, n)) <= n /\ Len(First(s, n)) = Least(n, Len(s))
         /\ \A i \in 1..Least(n, Len(s)) : First(s, n)[i] = s[i]
         /\ First(s, n) \o Rest(s, n) = s
         /\ Len(s) <= n => First(s, n) = s /\ Rest(s, n) = <<>>
         /\ n = 0 => First(s, n) = <<>>
<1> DEFINE k == Least(n, Len(s))
<1>1. Len(s) \in Nat /\ k \in 0..Len(s) /\ k <= n /\ (Len(s) <= n => k = Len(s))
      /\ (n = 0 => k = 0)
  BY LenProperties DEF Least
<1> HIDE DEF k
<1>2. \A i \in 1..Len(s) : s[i] \in S
  BY ElementOfSeq
<1>3. /\ SubSeq(s, 1, k) \in Seq(S) /\ Len(SubSeq(s, 1, k)) = k
      /\ \A i \in 1..k : SubSeq(s, 1, k)[i] = s[i]
  <2>1. \A i \in 1..k : s[i] \in S
    BY <1>1, <1>2
  <2>2. QED
    BY <1>1, <2>1, SubSeqProperties
<1>4. SubSeq(s, k + 1, Len(s)) \in Seq(S)
  <2>1. \A i \in (k + 1)..Len(s) : s[i] \in S
    BY <1>1, <1>2
  <2>2. QED
    BY <1>1, <2>1, SubSeqProperties
<1>5. SubSeq(s, 1, k) \o SubSeq(s, k + 1, Len(s)) = s
  <2>1. SubSeq(s, 1, k) \o SubSeq(s, k + 1, Len(s)) = SubSeq(s, 1, Len(s))
    <3>1. 1 \in 1..(Len(s) + 1) /\ k \in (1 - 1)..Len(s) /\ Len(s) \in k..Len(s)
      BY <1>1
    <3>2. QED
      BY <3>1, ConcatAdjacentSubSeq
  <2>2. QED
    BY <2>1, SubSeqFull
<1>6. Len(s) <= n => SubSeq(s, 1, k) = s /\ SubSeq(s, k + 1, Len(s)) = <<>>
  BY <1>1, SubSeqFull, SubSeqEmpty
<1>7. n = 0 => SubSeq(s, 1, k) = <<>>
  BY <1>1, SubSeqEmpty
<1>8. QED
  BY <1>1, <1>3, <1>4, <1>5, <1>6, <1>7 DEF First, Rest, k

LEMMA TokensAreSymbols ==
  /\ \A s \in Seq(Tokens) : s \in Seq(Symbols)
  /\ Marker \in Symbols /\ EndMark \in Symbols
  /\ \A c \in CompressorType : Inside(c) \in Seq(Symbols)
<1>1. Tokens \subseteq Symbols /\ Marker \in Symbols /\ EndMark \in Symbols
  BY DEF Symbols
<1>2. \A s \in Seq(Tokens) : s \in Seq(Symbols)
  BY <1>1, SeqMonotonic
<1>3. ASSUME NEW c \in CompressorType PROVE Inside(c) \in Seq(Symbols)
  BY <1>2, ConcatProperties DEF Inside, CompressorType
<1>4. QED
  BY <1>1, <1>2, <1>3

(* What any outcome of a call is.                                          *)
Sound(o, room) ==
  /\ o.comp \in CompressorType /\ Orderly(o.comp)
  /\ o.produced \in Seq(Symbols) /\ Len(o.produced) <= room

(* What leaves with o and what stays behind make up s.                     *)
Gives(o, s) == o.produced \o Inside(o.comp) = s

GivesBoth(o, s, t) == o.produced \o Inside(o.comp) = s \o t

Balanced(o, c, added) == Gives(o, Inside(c) \o added)

Divided(all, hold, c, in, n) == all \o hold = Inside(c) \o First(in, n)

LEMMA HandOutFacts ==
  ASSUME NEW c \in CompressorType, NEW all \in Seq(Symbols), NEW hold \in Seq(Tokens),
         NEW consumed, NEW room \in Nat
  PROVE  LET o == HandOut(c, all, hold, consumed, room)
         IN /\ o.comp \in CompressorType
            /\ o.comp.fin = c.fin /\ o.comp.ended = c.ended
            /\ o.comp.hold = hold /\ o.comp.queue = Rest(all, room)
            /\ o.produced \in Seq(Symbols) /\ Len(o.produced) <= room
            /\ o.consumed = consumed /\ o.status = "Ok"
<1> DEFINE o == HandOut(c, all, hold, consumed, room)
<1>1. /\ o.comp = [c EXCEPT !.queue = Rest(all, room), !.hold = hold, !.synced = FALSE]
      /\ o.produced = First(all, room) /\ o.consumed = consumed /\ o.status = "Ok"
  BY DEF HandOut, Outcome
<1>2. /\ First(all, room) \in Seq(Symbols) /\ Rest(all, room) \in Seq(Symbols)
      /\ Len(First(all, room)) <= room
  BY FirstRest
<1> HIDE DEF o
<1>3. /\ o.comp \in CompressorType
      /\ o.comp.fin = c.fin /\ o.comp.ended = c.ended
      /\ o.comp.hold = hold /\ o.comp.queue = Rest(all, room)
  BY <1>1, <1>2 DEF CompressorType
<1>4. QED
  BY <1>1, <1>2, <1>3 DEF o

LEMMA HandOutOrder ==
  ASSUME NEW c \in CompressorType, NEW all \in Seq(Symbols), NEW hold \in Seq(Tokens),
         NEW consumed, NEW room \in Nat
  PROVE  LET o == HandOut(c, all, hold, consumed, room)
         IN GivesBoth(o, all, hold)
<1> DEFINE o == HandOut(c, all, hold, consumed, room)
<1>1. o.produced = First(all, room) /\ o.comp.hold = hold /\ o.comp.queue = Rest(all, room)
  <2>1. o.produced = First(all, room)
    BY DEF HandOut, Outcome
  <2>2. o.comp.hold = hold /\ o.comp.queue = Rest(all, room)
    BY HandOutFacts
  <2>3. QED
    BY <2>1, <2>2
<1>2. First(all, room) \in Seq(Symbols) /\ Rest(all, room) \in Seq(Symbols) /\ hold \in Seq(Symbols)
  BY FirstRest, TokensAreSymbols
<1>3. Regroups(First(all, room), Rest(all, room), hold)
  BY <1>2, Regrouped
<1>4. First(all, room) \o Rest(all, room) = all
  BY FirstRest
<1> HIDE DEF o
<1>5. QED
  BY <1>1, <1>3, <1>4 DEF Inside, GivesBoth, Regroups, o

(* Handed out, with no block left open.                                    *)
HandsOut(o, c, all, room) ==
  /\ o.comp \in CompressorType
  /\ o.comp.fin = c.fin /\ o.comp.ended = c.ended
  /\ o.comp.hold = <<>> /\ o.comp.queue = Rest(all, room)
  /\ o.produced \in Seq(Symbols) /\ Len(o.produced) <= room
  /\ o.consumed = 0 /\ o.status = "Ok"
  /\ Gives(o, all)

LEMMA HandOutAll ==
  ASSUME NEW c \in CompressorType, NEW all \in Seq(Symbols), NEW room \in Nat
  PROVE  HandsOut(HandOut(c, all, <<>>, 0, room), c, all, room)
<1> DEFINE none == <<>>
           o    == HandOut(c, all, none, 0, room)
<1>1. all \o none = all
  BY ConcatEmptySeq
<1>2. none \in Seq(Tokens)
  BY EmptySeq
<1> HIDE DEF none
<1>3. /\ o.comp \in CompressorType
      /\ o.comp.fin = c.fin /\ o.comp.ended = c.ended
      /\ o.comp.hold = none /\ o.comp.queue = Rest(all, room)
      /\ o.produced \in Seq(Symbols) /\ Len(o.produced) <= room
      /\ o.consumed = 0 /\ o.status = "Ok"
  BY <1>2, HandOutFacts
<1>4. GivesBoth(o, all, none)
  BY <1>2, HandOutOrder
<1> HIDE DEF o
<1>5. Gives(o, all)
  BY <1>1, <1>4 DEF Gives, GivesBoth
<1>6. QED
  BY <1>3, <1>5 DEF o, none, HandsOut

(* A call that changes nothing but a flag.                                 *)
LEMMA QuietFacts ==
  ASSUME NEW c \in CompressorType, Orderly(c), NEW room \in Nat,
         NEW o, o \in {Misuse(c), NoProgress(c)} \/ o = Outcome(c, 0, <<>>, "StreamEnd")
  PROVE  /\ Sound(o, room) /\ Balanced(o, c, <<>>)
         /\ o.consumed = 0 /\ o.produced = <<>>
         /\ o.comp.fin = c.fin /\ o.comp.ended = c.ended
         /\ o.status # "Error" => o.comp = c
<1>1. /\ o.comp = c \/ o.comp = [c EXCEPT !.bad = TRUE]
      /\ o.status # "Error" => o.comp = c
      /\ o.consumed = 0 /\ o.produced = <<>>
  <2>1. CASE o = Misuse(c)
    BY <2>1 DEF Misuse, Outcome
  <2>2. CASE o = NoProgress(c)
    BY <2>2 DEF NoProgress, Outcome
  <2>3. CASE o = Outcome(c, 0, <<>>, "StreamEnd")
    BY <2>3 DEF Outcome
  <2>4. QED
    BY <2>1, <2>2, <2>3
<1>2. /\ o.comp \in CompressorType /\ o.comp.queue = c.queue /\ o.comp.hold = c.hold
      /\ o.comp.fin = c.fin /\ o.comp.ended = c.ended
  BY <1>1 DEF CompressorType
<1>3. Inside(o.comp) = Inside(c) /\ Inside(c) \in Seq(Symbols)
  BY <1>2, TokensAreSymbols DEF Inside
<1>4. QED
  BY <1>1, <1>2, <1>3, ConcatEmptySeq, EmptySeq DEF Sound, Balanced, Gives, Orderly

LEMMA HandedOut ==
  ASSUME NEW c \in CompressorType, ~c.fin, ~c.ended,
         NEW in \in Seq(Tokens), NEW room \in Nat, NEW all \in Seq(Symbols), NEW hold \in Seq(Tokens),
         NEW consumed \in 0..Len(in), Divided(all, hold, c, in, consumed)
  PROVE  LET o == HandOut(c, all, hold, consumed, room)
         IN /\ Sound(o, room) /\ o.consumed \in 0..Len(in)
            /\ Balanced(o, c, First(in, o.consumed))
            /\ o.comp.fin = c.fin /\ o.comp.ended = c.ended
            /\ o.status # "BufError"
<1> DEFINE o == HandOut(c, all, hold, consumed, room)
<1>1. /\ o.comp \in CompressorType
      /\ o.comp.fin = c.fin /\ o.comp.ended = c.ended
      /\ o.produced \in Seq(Symbols) /\ Len(o.produced) <= room
      /\ o.consumed = consumed /\ o.status = "Ok"
  BY HandOutFacts
<1>2. GivesBoth(o, all, hold)
  BY HandOutOrder
<1> HIDE DEF o
<1>3. Sound(o, room)
  BY <1>1 DEF Sound, Orderly
<1>4. Balanced(o, c, First(in, o.consumed))
  BY <1>1, <1>2 DEF Balanced, Gives, GivesBoth, Divided
<1>5. QED
  BY <1>1, <1>3, <1>4 DEF o

LEMMA CompressNoneFacts ==
  ASSUME NEW c \in CompressorType, Orderly(c), NEW in \in Seq(Tokens), NEW room \in Nat,
         NEW o \in CompressNone(c, in, room)
  PROVE  /\ Sound(o, room) /\ o.consumed \in 0..Len(in)
         /\ Balanced(o, c, First(in, o.consumed))
         /\ o.comp.fin = c.fin /\ o.comp.ended = c.ended
         /\ o.consumed > 0 => ~c.fin
         /\ o.status = "BufError" => o.comp = c
<1> DEFINE Quiet  == o \in {Misuse(c), NoProgress(c)}
           Out(k) == Inside(c) \o First(in, k)
           Close(k) == IF Len(Out(k)) < room
                       THEN HandOut(c, Out(k), Rest(in, k), Len(in), room)
                       ELSE HandOut(c, Out(k), <<>>, k, room)
<1>0. Len(in) \in Nat
  BY LenProperties
<1>4. c.queue \in Seq(Symbols) /\ c.hold \in Seq(Tokens)
  BY DEF CompressorType
<1>5. c.hold \in Seq(Symbols) /\ in \in Seq(Symbols)
  BY <1>4, TokensAreSymbols
<1>6. Inside(c) \in Seq(Symbols)
  BY TokensAreSymbols
<1>7. First(in, 0) = <<>> /\ First(in, Len(in)) = in
  BY <1>0, FirstRest
<1>1. CASE Quiet
  <2>1. /\ Sound(o, room) /\ Balanced(o, c, <<>>) /\ o.consumed = 0
        /\ o.comp.fin = c.fin /\ o.comp.ended = c.ended
        /\ o.status # "Error" => o.comp = c
    BY <1>1, QuietFacts
  <2>2. QED
    BY <1>0, <1>7, <2>1
<1>2. CASE ~Quiet /\ (c.bad \/ (c.fin /\ ~c.ended) \/ c.ended)
  BY <1>2 DEF CompressNone
<1>3. CASE ~Quiet /\ ~c.bad /\ ~c.fin /\ ~c.ended
  <2>1. \/ o = HandOut(c, c.queue, c.hold, 0, room)
        \/ \E k \in 0..Len(in) : o = Close(k)
        \/ o = HandOut(c, c.queue, c.hold \o in, Len(in), room)
    BY <1>3 DEF CompressNone
  <2> HIDE DEF Quiet
  <2>3. CASE o = HandOut(c, c.queue, c.hold, 0, room)
    <3>1. c.queue \o c.hold = Inside(c) \o First(in, 0)
      <4>1. Inside(c) \o <<>> = Inside(c)
        BY <1>6, ConcatEmptySeq
      <4>2. QED
        BY <1>7, <4>1 DEF Inside
    <3>2. 0 \in 0..Len(in)
      BY <1>0
    <3> DEFINE q == c.queue
               h == c.hold
    <3>3. /\ q \in Seq(Symbols) /\ h \in Seq(Tokens) /\ Divided(q, h, c, in, 0)
          /\ o = HandOut(c, q, h, 0, room) /\ ~c.fin /\ ~c.ended
      BY <1>3, <1>4, <2>3, <3>1 DEF CompressorType, Divided
    <3> HIDE DEF q, h
    <3>4. QED
      BY <1>3, <3>2, <3>3, HandedOut
  <2>4. CASE o = HandOut(c, c.queue, c.hold \o in, Len(in), room)
    <3>1. c.queue \o (c.hold \o in) = Inside(c) \o First(in, Len(in))
      <4> DEFINE q == c.queue
                 h == c.hold
      <4>0. q \in Seq(Symbols) /\ h \in Seq(Symbols)
        BY <1>4, <1>5
      <4> HIDE DEF q, h
      <4>1. Regroups(q, h, in)
        BY <1>5, <4>0, Regrouped
      <4> USE DEF q, h
      <4>2. QED
        BY <1>7, <4>1 DEF Inside, Regroups
    <3> DEFINE hold == c.hold \o in
    <3>2. hold \in Seq(Tokens) /\ Len(in) \in 0..Len(in)
      BY <1>0, <1>4, ConcatProperties
    <3>3. o = HandOut(c, c.queue, hold, Len(in), room)
      BY <2>4
    <3>4. c.queue \o hold = Inside(c) \o First(in, Len(in))
      BY <3>1
    <3> DEFINE q == c.queue
    <3>5. /\ q \in Seq(Symbols) /\ Divided(q, hold, c, in, Len(in))
          /\ o = HandOut(c, q, hold, Len(in), room) /\ ~c.fin /\ ~c.ended
      BY <1>3, <1>4, <3>3, <3>4 DEF CompressorType, Divided
    <3> HIDE DEF hold, q
    <3>6. QED
      BY <1>3, <3>2, <3>5, HandedOut
  <2>5. ASSUME NEW k \in 0..Len(in), o = Close(k)
        PROVE  /\ Sound(o, room) /\ o.consumed \in 0..Len(in)
               /\ Balanced(o, c, First(in, o.consumed))
               /\ o.comp.fin = c.fin /\ o.comp.ended = c.ended
               /\ o.status # "BufError"
    <3>1. First(in, k) \in Seq(Tokens) /\ Rest(in, k) \in Seq(Tokens)
      BY FirstRest
    <3>2. First(in, k) \in Seq(Symbols) /\ Rest(in, k) \in Seq(Symbols)
      BY <3>1, TokensAreSymbols
    <3>3. Out(k) \in Seq(Symbols)
      BY <1>6, <3>2, ConcatProperties
    <3>4. CASE o = HandOut(c, Out(k), Rest(in, k), Len(in), room)
      <4>1. Out(k) \o Rest(in, k) = Inside(c) \o First(in, Len(in))
        <5>1. Out(k) \o Rest(in, k) = Inside(c) \o (First(in, k) \o Rest(in, k))
          <6>1. Regroups(Inside(c), First(in, k), Rest(in, k))
            BY <1>6, <3>2, Regrouped
          <6>2. QED
            BY <6>1 DEF Regroups
        <5>2. First(in, k) \o Rest(in, k) = in
          BY FirstRest
        <5>3. QED
          BY <1>7, <5>1, <5>2
      <4>2. Len(in) \in 0..Len(in)
        BY <1>0
      <4> HIDE DEF Out
      <4>3. Divided(Out(k), Rest(in, k), c, in, Len(in))
        BY <4>1 DEF Divided
      <4>4. QED
        BY <1>3, <3>1, <3>3, <3>4, <4>2, <4>3, HandedOut
    <3>5. CASE o = HandOut(c, Out(k), <<>>, k, room)
      <4>1. Out(k) \o <<>> = Inside(c) \o First(in, k)
        BY <3>3, ConcatEmptySeq
      <4> DEFINE none == <<>>
      <4>2. none \in Seq(Tokens) /\ Divided(Out(k), none, c, in, k)
            /\ o = HandOut(c, Out(k), none, k, room)
        BY <3>5, <4>1, EmptySeq DEF Divided
      <4> HIDE DEF Out, none
      <4>3. QED
        BY <1>3, <3>3, <4>2, HandedOut
    <3>6. QED
      BY <2>5, <3>4, <3>5
  <2> HIDE DEF Close
  <2>6. QED
    BY <1>3, <2>1, <2>3, <2>4, <2>5
<1>8. QED
  BY <1>1, <1>2, <1>3 DEF Orderly

LEMMA CompressSyncFacts ==
  ASSUME NEW c \in CompressorType, Orderly(c), NEW room \in Nat, NEW o \in CompressSync(c, room)
  PROVE  /\ Sound(o, room) /\ o.consumed = 0
         /\ Balanced(o, c, <<>>) \/ Balanced(o, c, <<Marker>>)
         /\ o.comp.fin = c.fin /\ o.comp.ended = c.ended
         /\ o.status = "BufError" => o.comp = c
<1> DEFINE sync == HandOut(c, Append(c.hold, Marker), <<>>, 0, room)
<1>0. c.queue \in Seq(Symbols) /\ c.hold \in Seq(Tokens)
  BY DEF CompressorType
<1>6. c.hold \in Seq(Symbols) /\ Marker \in Symbols
  BY <1>0, TokensAreSymbols
<1>7. Inside(c) \in Seq(Symbols)
  BY TokensAreSymbols
<1>1. \/ o \in {Misuse(c), NoProgress(c)}
      \/ ~c.fin /\ ~c.ended /\ \/ o = HandOut(c, c.queue, c.hold, 0, room)
                               \/ c.queue = <<>> /\ o = [sync EXCEPT !.comp.synced = TRUE]
  BY DEF CompressSync, Orderly
<1>2. CASE o \in {Misuse(c), NoProgress(c)}
  <2>1. /\ Sound(o, room) /\ Balanced(o, c, <<>>) /\ o.consumed = 0
        /\ o.comp.fin = c.fin /\ o.comp.ended = c.ended
        /\ o.status # "Error" => o.comp = c
    BY <1>2, QuietFacts
  <2>2. QED
    BY <2>1
<1>3. CASE ~c.fin /\ ~c.ended /\ o = HandOut(c, c.queue, c.hold, 0, room)
  <2>1. /\ o.comp \in CompressorType
        /\ o.comp.fin = c.fin /\ o.comp.ended = c.ended
        /\ o.produced \in Seq(Symbols) /\ Len(o.produced) <= room
        /\ o.consumed = 0 /\ o.status = "Ok"
    BY <1>0, <1>3, HandOutFacts
  <2>2. GivesBoth(o, c.queue, c.hold)
    BY <1>0, <1>3, HandOutOrder
  <2>3. Inside(c) \o <<>> = c.queue \o c.hold
    <3>1. Inside(c) \o <<>> = Inside(c)
      BY <1>7, ConcatEmptySeq
    <3>2. QED
      BY <3>1 DEF Inside
  <2>4. QED
    BY <1>3, <2>1, <2>2, <2>3 DEF Sound, Balanced, Gives, GivesBoth, Orderly
<1>4. CASE ~c.fin /\ ~c.ended /\ c.queue = <<>> /\ o = [sync EXCEPT !.comp.synced = TRUE]
  <2>1. Append(c.hold, Marker) \in Seq(Symbols)
    BY <1>6, AppendProperties
  <2>2. /\ sync.comp \in CompressorType
        /\ sync.comp.fin = c.fin /\ sync.comp.ended = c.ended
        /\ sync.produced \in Seq(Symbols) /\ Len(sync.produced) <= room
        /\ sync.consumed = 0 /\ sync.status = "Ok"
        /\ Gives(sync, Append(c.hold, Marker))
    <3> DEFINE closed == Append(c.hold, Marker)
    <3>1. closed \in Seq(Symbols)
      BY <2>1
    <3> HIDE DEF closed
    <3>2. HandsOut(HandOut(c, closed, <<>>, 0, room), c, closed, room)
      BY <3>1, HandOutAll
    <3>3. QED
      BY <3>2 DEF HandsOut, closed
  <2>3. /\ o.comp = [sync.comp EXCEPT !.synced = TRUE] /\ o.produced = sync.produced
        /\ o.consumed = sync.consumed /\ o.status = sync.status
    BY <1>4 DEF HandOut, Outcome
  <2> HIDE DEF sync
  <2>4. /\ o.comp \in CompressorType /\ o.comp.fin = c.fin /\ o.comp.ended = c.ended
        /\ o.comp.queue = sync.comp.queue /\ o.comp.hold = sync.comp.hold
    BY <2>2, <2>3 DEF CompressorType
  <2>5. o.produced \o Inside(o.comp) = Inside(c) \o <<Marker>>
    <3>1. Inside(c) = c.hold
      BY <1>4, <1>6, ConcatEmptySeq DEF Inside
    <3>2. Append(c.hold, Marker) = c.hold \o <<Marker>>
      BY <1>6, AppendIsConcat
    <3>3. Inside(o.comp) = Inside(sync.comp)
      BY <2>4 DEF Inside
    <3>4. QED
      BY <2>2, <2>3, <3>1, <3>2, <3>3 DEF Gives
  <2>6. QED
    BY <1>4, <2>2, <2>3, <2>4, <2>5 DEF Sound, Balanced, Gives, Orderly
<1>5. QED
  BY <1>1, <1>2, <1>3, <1>4

LEMMA CompressFinishFacts ==
  ASSUME NEW c \in CompressorType, Orderly(c), NEW room \in Nat, NEW o \in CompressFinish(c, room)
  PROVE  /\ Sound(o, room) /\ o.consumed = 0
         /\ Balanced(o, c, IF o.comp.fin /\ ~c.fin THEN <<EndMark>> ELSE <<>>)
         /\ c.fin => o.comp.fin
         /\ o.status = "Error" => o.comp.fin = c.fin /\ o.comp.ended = c.ended
         /\ o.status # "Error" => o.comp.fin
         /\ o.status = "StreamEnd" => o.comp.ended
         /\ c.ended => o.comp.ended
         /\ o.status # "BufError"
<1> DEFINE all == IF c.fin THEN c.queue ELSE Append(Inside(c), EndMark)
           f   == [c EXCEPT !.fin = TRUE]
           h   == HandOut(f, all, <<>>, 0, room)
           e   == [h EXCEPT !.comp.ended = TRUE, !.status = "StreamEnd"]
<1>0. c.queue \in Seq(Symbols) /\ c.hold \in Seq(Tokens) /\ c.fin \in BOOLEAN
  BY DEF CompressorType
<1>5. Inside(c) \in Seq(Symbols) /\ EndMark \in Symbols
  BY TokensAreSymbols
<1>6. <<>> \in Seq(Tokens)
  BY EmptySeq
<1>1. \/ o = Misuse(c)
      \/ c.ended /\ o = Outcome(c, 0, <<>>, "StreamEnd")
      \/ ~c.ended /\ Len(all) > room /\ o = h
      \/ ~c.ended /\ ~(Len(all) > room) /\ o = e
  BY DEF CompressFinish
<1>2. CASE o = Misuse(c) \/ (c.ended /\ o = Outcome(c, 0, <<>>, "StreamEnd"))
  <2>1. /\ Sound(o, room) /\ Balanced(o, c, <<>>) /\ o.consumed = 0
        /\ o.comp.fin = c.fin /\ o.comp.ended = c.ended
    BY <1>2, QuietFacts
  <2>2. \/ o.status = "Error"
        \/ o.status = "StreamEnd" /\ c.ended
    BY <1>2 DEF Misuse, Outcome
  <2>3. QED
    BY <2>1, <2>2 DEF Orderly
<1>3. CASE ~c.ended /\ ((Len(all) > room /\ o = h) \/ (~(Len(all) > room) /\ o = e))
  <2>1. f \in CompressorType /\ f.fin /\ f.ended = c.ended
    BY DEF CompressorType
  <2>2. all \in Seq(Symbols)
    BY <1>0, <1>5, AppendProperties
  <2>8. all = Inside(c) \o (IF c.fin THEN <<>> ELSE <<EndMark>>)
    <3>1. CASE c.fin
      BY <1>0, <1>5, <3>1, ConcatEmptySeq DEF Orderly, Inside
    <3>2. CASE ~c.fin
      BY <1>5, <3>2, AppendIsConcat
    <3>3. QED
      BY <3>1, <3>2
  <2> HIDE DEF f, all
  <2>9. HandsOut(h, f, all, room)
    BY <2>1, <2>2, HandOutAll
  <2>3. /\ h.comp \in CompressorType
        /\ h.comp.fin = f.fin /\ h.comp.ended = f.ended
        /\ h.comp.hold = <<>> /\ h.comp.queue = Rest(all, room)
        /\ h.produced \in Seq(Symbols) /\ Len(h.produced) <= room
        /\ h.consumed = 0 /\ h.status = "Ok"
    BY <2>9 DEF HandsOut
  <2>4. Gives(h, all)
    BY <2>9 DEF HandsOut
  <2>5. CASE o = h
    <3> HIDE DEF h
    <3>1. QED
      BY <1>3, <2>1, <2>8, <2>3, <2>4, <2>5 DEF Sound, Balanced, Gives, Orderly
  <2>6. CASE o = e /\ ~(Len(all) > room)
    <3>1. /\ o.comp = [h.comp EXCEPT !.ended = TRUE] /\ o.produced = h.produced
          /\ o.consumed = h.consumed /\ o.status = "StreamEnd"
      BY <2>6 DEF HandOut, Outcome
    <3>2. h.comp.queue = <<>>
      <4>1. Len(all) \in Nat
        BY <2>2, LenProperties
      <4>2. QED
        BY <2>2, <2>3, <2>6, <4>1, FirstRest
    <3> HIDE DEF h, e
    <3>3. /\ o.comp \in CompressorType /\ o.comp.fin /\ o.comp.ended
          /\ o.comp.hold = <<>> /\ o.comp.queue = <<>>
      BY <2>1, <2>3, <3>1, <3>2 DEF CompressorType
    <3>4. Inside(o.comp) = Inside(h.comp)
      BY <2>3, <3>2, <3>3 DEF Inside
    <3>5. QED
      BY <2>8, <2>3, <2>4, <3>1, <3>3, <3>4 DEF Sound, Balanced, Gives, Orderly
  <2>7. QED
    BY <1>3, <2>5, <2>6
<1>4. QED
  BY <1>1, <1>2, <1>3

-----------------------------------------------------------------------------
(* What symbols mean in the sink.                                          *)
LEMMA SeenFacts ==
  /\ \A s, t \in Seq(Symbols) : Seen(s \o t) = Seen(s) \o Seen(t)
  /\ \A s \in Seq(Symbols) : Seen(s) \in Seq(Symbols \ {Marker})
  /\ \A s \in Seq(Tokens) : Seen(s) = s
  /\ Seen(<<>>) = <<>> /\ Seen(<<Marker>>) = <<>> /\ Seen(<<EndMark>>) = <<EndMark>>
<1> DEFINE X == Tokens \cup {EndMark}
<1>1. \A s : Seen(s) = Keep(s, X)
  BY DEF Seen
<1>2. Marker \notin X /\ EndMark \in X /\ Tokens \subseteq X
      /\ Symbols \cap X = Symbols \ {Marker}
  BY EncoderAssumption DEF Marker, EndMark, Tokens, Symbols
<1>3. Marker \in Symbols /\ EndMark \in Symbols
  BY DEF Symbols
<1> HIDE DEF X
<1>4. ASSUME NEW s \in Seq(Symbols), NEW t \in Seq(Symbols)
      PROVE  Seen(s \o t) = Seen(s) \o Seen(t)
  <2>1. Keep(s \o t, X) = Keep(s, X) \o Keep(t, X)
    BY KeepConcat
  <2>2. QED
    BY <2>1 DEF Seen, X
<1>5. \A s \in Seq(Symbols) : Seen(s) \in Seq(Symbols \ {Marker})
  <2>1. \A s \in Seq(Symbols) : Seen(s) \in Seq(Symbols \cap X)
    BY <1>1, KeepType
  <2>2. QED
    BY <1>2, <2>1
<1>6. \A s \in Seq(Tokens) : Seen(s) = s
  <2>1. \A s \in Seq(Tokens) : s \in Seq(X)
    BY <1>2, SeqMonotonic
  <2>2. QED
    BY <1>1, <2>1, KeepAll
<1>7. Seen(<<>>) = <<>>
  BY <1>1, KeepEmpty
<1>8. ASSUME NEW e \in Symbols PROVE Seen(<<e>>) = IF e \in X THEN <<e>> ELSE <<>>
  <2>1. Append(<<>>, e) = <<e>>
    OBVIOUS
  <2>2. Keep(Append(<<>>, e), X) = IF e \in X THEN Append(Keep(<<>>, X), e) ELSE Keep(<<>>, X)
    BY EmptySeq, KeepAppend
  <2>3. QED
    BY <1>1, <2>1, <2>2, KeepEmpty
<1>9. QED
  BY <1>2, <1>3, <1>4, <1>5, <1>6, <1>7, <1>8

(* A call of the compressor, where do_compress calls it.                   *)
Added(o) ==
  IF pc = "w_none" THEN First(buf, o.consumed)
  ELSE IF o.comp.fin /\ ~comp.fin THEN <<EndMark>> ELSE <<>>

AddsSeen(o, added) == Seen(o.produced) \o Seen(Inside(o.comp)) = Seen(Inside(comp)) \o added

Adds(o) == AddsSeen(o, Added(o))

LEMMA SeenBalance ==
  ASSUME NEW o, NEW room, Sound(o, room), comp \in CompressorType, NEW added \in Seq(Symbols),
         Balanced(o, comp, added)
  PROVE  AddsSeen(o, Seen(added))
<1> DEFINE p == o.produced
           i == Inside(o.comp)
           j == Inside(comp)
<1>1. p \in Seq(Symbols) /\ i \in Seq(Symbols) /\ j \in Seq(Symbols)
  BY TokensAreSymbols DEF Sound
<1>2. p \o i = j \o added
  BY DEF Balanced, Gives
<1> HIDE DEF p, i, j
<1>3. Seen(p \o i) = Seen(p) \o Seen(i) /\ Seen(j \o added) = Seen(j) \o Seen(added)
  BY <1>1, SeenFacts
<1>4. Seen(p) \o Seen(i) = Seen(j) \o Seen(added)
  BY <1>2, <1>3
<1>5. QED
  BY <1>4 DEF AddsSeen, p, i, j

LEMMA Errors ==
  ASSUME NEW c \in CompressorType, NEW in, NEW room, NEW o,
         o \in CompressNone(c, in, room) \/ o \in CompressSync(c, room)
           \/ o \in CompressFinish(c, room),
         o.status = "Error"
  PROVE  o.comp = [c EXCEPT !.bad = TRUE]
<1>0. /\ NoProgress(c).status # "Error" /\ Outcome(c, 0, <<>>, "StreamEnd").status # "Error"
      /\ \A d, all, hold, consumed : HandOut(d, all, hold, consumed, room).status # "Error"
  BY DEF HandOut, NoProgress, Outcome
<1>1. o = Misuse(c)
  <2>1. CASE o \in CompressNone(c, in, room)
    BY <1>0, <2>1 DEF CompressNone
  <2>2. CASE o \in CompressSync(c, room)
    <3>1. \A d, all, hold : [HandOut(d, all, hold, 0, room) EXCEPT !.comp.synced = TRUE].status = "Ok"
      BY DEF HandOut, Outcome
    <3>2. QED
      BY <1>0, <2>2, <3>1 DEF CompressSync
  <2>3. CASE o \in CompressFinish(c, room)
    <3> DEFINE all == IF c.fin THEN c.queue ELSE Append(Inside(c), EndMark)
               h   == HandOut([c EXCEPT !.fin = TRUE], all, <<>>, 0, room)
               e   == [h EXCEPT !.comp.ended = TRUE, !.status = "StreamEnd"]
    <3>1. o = Misuse(c) \/ o = Outcome(c, 0, <<>>, "StreamEnd") \/ o = h \/ o = e
      BY <2>3 DEF CompressFinish
    <3>2. h.status # "Error" /\ e.status # "Error"
      BY DEF HandOut, Outcome
    <3>3. QED
      BY <1>0, <3>1, <3>2
  <2>4. QED
    BY <2>1, <2>2, <2>3
<1>2. QED
  BY <1>1 DEF Misuse, Outcome

(* The running poll.                                                       *)
WritingPcs == {"w_drain", "w_none", "w_sync"}

PollInv ==
  /\ pc \in CallPcs => outBuf = <<>>
  /\ pc \in WritingPcs => /\ accepted + Len(buf) <= MaxTokens
                          /\ \A i \in 1..Len(buf) : buf[i] = accepted + i
  /\ pc = "s_drain_end" \/ finished => comp.ended
  /\ finished => pc = "caller" /\ outBuf = <<>>

FirstTokens(n) == [i \in 1..n |-> i]
AcceptedTokens == FirstTokens(accepted)

(* The symbols in the sink, in out_buf and in the compressor: what was     *)
(* accepted, and the end mark once the end was asked for.                  *)
Content == sink \o (Seen(outBuf) \o Seen(Inside(comp)))

ContentInv ==
  Content = IF comp.fin THEN Append(AcceptedTokens, EndMark) ELSE AcceptedTokens

EncoderInv ==
  EncoderTypeOK /\ Orderly(comp) /\ PollInv /\ ContentInv /\ WrittenMatchesSink

LEMMA TypeFacts ==
  ASSUME EncoderTypeOK
  PROVE  /\ comp \in CompressorType /\ cap \in Nat /\ cap <= MaxOutBuf
         /\ Len(buf) \in Nat /\ accepted \in Nat /\ MaxTokens \in Nat
         /\ Inside(comp) \in Seq(Symbols)
<1>1. comp \in CompressorType /\ cap \in Nat /\ cap <= MaxOutBuf
      /\ Len(buf) \in Nat /\ accepted \in Nat /\ MaxTokens \in Nat
  BY EncoderAssumption, LenProperties DEF EncoderTypeOK, CompressorType
<1>2. QED
  BY <1>1, TokensAreSymbols

LEMMA OutcomeFacts ==
  ASSUME EncoderTypeOK, Orderly(comp), pc \in CallPcs, NEW o \in Outcomes
  PROVE  /\ Sound(o, cap) /\ Adds(o)
         /\ o.consumed \in 0..Len(buf)
         /\ pc # "w_none" => o.consumed = 0
         /\ o.consumed > 0 => ~comp.fin
         /\ pc # "s_finish" => o.comp.fin = comp.fin /\ o.comp.ended = comp.ended
         /\ pc = "s_finish" => /\ comp.ended => o.comp.ended
                               /\ comp.fin => o.comp.fin
                               /\ o.status # "Error" => o.comp.fin
                               /\ o.status = "StreamEnd" => o.comp.ended
                               /\ o.status # "BufError"
         /\ o.status = "BufError" => o.comp = comp
         /\ o.status = "Error" => o.comp = [comp EXCEPT !.bad = TRUE]
<1>1. /\ comp \in CompressorType /\ cap \in Nat /\ buf \in Seq(Tokens)
      /\ Len(buf) \in Nat /\ <<>> \in Seq(Symbols) /\ <<Marker>> \in Seq(Symbols)
      /\ <<EndMark>> \in Seq(Symbols)
  BY TypeFacts, EmptySeq DEF EncoderTypeOK, Symbols
<1>2. o.status = "Error" => o.comp = [comp EXCEPT !.bad = TRUE]
  <2>1. \/ o \in CompressNone(comp, buf, cap) \/ o \in CompressSync(comp, cap)
        \/ o \in CompressFinish(comp, cap)
    BY DEF Outcomes, CallPcs
  <2>2. QED
    BY <1>1, <2>1, Errors
<1>3. CASE pc = "w_none"
  <2>1. /\ Sound(o, cap) /\ o.consumed \in 0..Len(buf)
        /\ Balanced(o, comp, First(buf, o.consumed))
        /\ o.comp.fin = comp.fin /\ o.comp.ended = comp.ended
        /\ o.consumed > 0 => ~comp.fin
        /\ o.status = "BufError" => o.comp = comp
    <3>1. o \in CompressNone(comp, buf, cap)
      BY <1>3 DEF Outcomes
    <3>2. QED
      BY <1>1, <3>1, CompressNoneFacts
  <2>2. First(buf, o.consumed) \in Seq(Tokens)
    BY <1>1, <2>1, FirstRest
  <2>3. Adds(o)
    <3>1. First(buf, o.consumed) \in Seq(Symbols) /\ Seen(First(buf, o.consumed)) = First(buf, o.consumed)
      BY <2>2, TokensAreSymbols, SeenFacts
    <3>2. AddsSeen(o, Seen(First(buf, o.consumed)))
      BY <1>1, <2>1, <3>1, SeenBalance
    <3>3. QED
      BY <1>3, <3>1, <3>2 DEF Adds, Added
  <2>4. QED
    BY <1>2, <1>3, <2>1, <2>3
<1>4. CASE pc \in {"w_sync", "f_sync"}
  <2>1. /\ Sound(o, cap) /\ o.consumed = 0
        /\ Balanced(o, comp, <<>>) \/ Balanced(o, comp, <<Marker>>)
        /\ o.comp.fin = comp.fin /\ o.comp.ended = comp.ended
        /\ o.status = "BufError" => o.comp = comp
    <3>1. o \in CompressSync(comp, cap)
      BY <1>4 DEF Outcomes
    <3>2. QED
      BY <1>1, <3>1, CompressSyncFacts
  <2>2. Adds(o)
    <3>1. AddsSeen(o, <<>>)
      <4>0. Seen(<<>>) = <<>> /\ Seen(<<Marker>>) = <<>>
        BY SeenFacts
      <4>1. ASSUME Balanced(o, comp, <<>>) PROVE AddsSeen(o, <<>>)
        <5>1. AddsSeen(o, Seen(<<>>))
          BY <1>1, <2>1, <4>1, SeenBalance
        <5>2. QED
          BY <4>0, <5>1
      <4>2. ASSUME Balanced(o, comp, <<Marker>>) PROVE AddsSeen(o, <<>>)
        <5>1. AddsSeen(o, Seen(<<Marker>>))
          BY <1>1, <2>1, <4>2, SeenBalance
        <5>2. QED
          BY <4>0, <5>1
      <4>3. QED
        BY <2>1, <4>1, <4>2
    <3>2. QED
      BY <1>4, <2>1, <3>1 DEF Adds, Added
  <2>3. QED
    BY <1>1, <1>2, <1>4, <2>1, <2>2
<1>5. CASE pc = "s_finish"
  <2> DEFINE added == IF o.comp.fin /\ ~comp.fin THEN <<EndMark>> ELSE <<>>
  <2>1. /\ Sound(o, cap) /\ o.consumed = 0 /\ Balanced(o, comp, added)
        /\ comp.fin => o.comp.fin
        /\ o.status # "Error" => o.comp.fin
        /\ o.status = "StreamEnd" => o.comp.ended
        /\ comp.ended => o.comp.ended
        /\ o.status # "BufError"
    <3>1. o \in CompressFinish(comp, cap)
      BY <1>5 DEF Outcomes
    <3>2. QED
      BY <1>1, <3>1, CompressFinishFacts
  <2>2. added \in Seq(Symbols) /\ Seen(added) = added
    BY <1>1, SeenFacts
  <2>3. Adds(o)
    <3> HIDE DEF added
    <3>1. AddsSeen(o, Seen(added))
      BY <1>1, <2>1, <2>2, SeenBalance
    <3>2. QED
      BY <1>5, <2>2, <3>1 DEF Adds, Added, added
  <2>4. QED
    BY <1>1, <1>2, <1>5, <2>1, <2>3
<1>6. QED
  BY <1>3, <1>4, <1>5 DEF CallPcs
-----------------------------------------------------------------------------
LEMMA FirstTokensExtended ==
  ASSUME NEW n \in Nat, NEW s \in Seq(Tokens), \A i \in 1..Len(s) : s[i] = n + i
  PROVE  FirstTokens(n) \o s = FirstTokens(n + Len(s))
<1> DEFINE t == FirstTokens(n)
<1>1. t \in Seq(Nat) /\ Len(t) = n /\ \A i \in 1..n : t[i] = i
  BY DEF FirstTokens
<1>2. Len(s) \in Nat /\ s \in Seq(Int)
  BY LenProperties, SeqMonotonic DEF Tokens
<1>3. FirstTokens(n + Len(s)) \in Seq(Nat) /\ Len(FirstTokens(n + Len(s))) = n + Len(s)
      /\ \A i \in 1..(n + Len(s)) : FirstTokens(n + Len(s))[i] = i
  BY <1>2 DEF FirstTokens
<1> HIDE DEF t
<1>4. t \in Seq(Int)
  BY <1>1, SeqMonotonic
<1>5. /\ t \o s \in Seq(Int) /\ Len(t \o s) = n + Len(s)
      /\ \A i \in 1..(n + Len(s)) : (t \o s)[i] = IF i <= n THEN t[i] ELSE s[i - n]
  <2>1. /\ t \o s \in Seq(Int) /\ Len(t \o s) = Len(t) + Len(s)
        /\ \A i \in 1..(Len(t) + Len(s)) :
             (t \o s)[i] = IF i <= Len(t) THEN t[i] ELSE s[i - Len(t)]
    BY <1>2, <1>4, ConcatProperties
  <2>2. Len(t) = n
    BY <1>1
  <2>3. QED
    BY <2>1, <2>2
<1>6. \A i \in 1..(n + Len(s)) : (t \o s)[i] = i
  <2> TAKE i \in 1..(n + Len(s))
  <2>1. CASE i <= n
    BY <1>1, <1>5, <2>1
  <2>2. CASE ~(i <= n)
    BY <1>2, <1>5, <2>2
  <2>3. QED
    BY <2>1, <2>2
<1>7. FirstTokens(n + Len(s)) \in Seq(Int)
  BY <1>3, SeqMonotonic
<1>8. t \o s = FirstTokens(n + Len(s))
  BY <1>2, <1>3, <1>5, <1>6, <1>7, SeqEqual
<1>9. QED
  BY <1>8 DEF t

LEMMA ContentType ==
  ASSUME EncoderTypeOK
  PROVE  /\ sink \in Seq(Symbols \ {Marker}) /\ sink \in Seq(Symbols)
         /\ Seen(outBuf) \in Seq(Symbols \ {Marker})
         /\ Seen(Inside(comp)) \in Seq(Symbols \ {Marker})
         /\ Content \in Seq(Symbols \ {Marker})
         /\ Content \in Seq(Symbols)
<1>1. sink \in Seq(Symbols \ {Marker}) /\ Seen(outBuf) \in Seq(Symbols \ {Marker})
      /\ Seen(Inside(comp)) \in Seq(Symbols \ {Marker})
  BY TypeFacts, SeenFacts DEF EncoderTypeOK
<1>2. Content \in Seq(Symbols \ {Marker})
  BY <1>1, ConcatProperties DEF Content
<1>3. \A s \in Seq(Symbols \ {Marker}) : s \in Seq(Symbols)
  BY SeqMonotonic
<1>4. QED
  BY <1>1, <1>2, <1>3

(* A call of the compressor adds what it adds, and an inner write nothing. *)
LEMMA ContentAfterCall ==
  ASSUME EncoderTypeOK, outBuf = <<>>, NEW o, Sound(o, cap), Adds(o), Added(o) \in Seq(Symbols),
         comp' = o.comp, outBuf' = o.produced, sink' = sink
  PROVE  Content' = Content \o Added(o)
<1> DEFINE i == Seen(Inside(comp))
           a == Added(o)
<1>1. /\ i \in Seq(Symbols \ {Marker}) /\ sink \in Seq(Symbols) /\ a \in Seq(Symbols)
      /\ Seen(outBuf) = <<>>
  BY ContentType, SeenFacts
<1>2. i \in Seq(Symbols)
  BY <1>1, SeqMonotonic
<1>3. Content' = sink \o (i \o a)
  <2>1. Content' = sink \o (Seen(o.produced) \o Seen(Inside(o.comp)))
    BY DEF Content, Inside
  <2>2. QED
    BY <2>1 DEF Adds, AddsSeen
<1>4. Content = sink \o i
  BY <1>1, <1>2, ConcatEmptySeq DEF Content
<1> HIDE DEF i, a
<1>5. Regroups(sink, i, a)
  BY <1>1, <1>2, Regrouped
<1>6. QED
  BY <1>3, <1>4, <1>5 DEF Regroups, a

LEMMA ContentAfterSink ==
  ASSUME EncoderTypeOK, NEW n \in 1..MaxOutBuf, SinkAccepts(n)
  PROVE  /\ Content' = Content
         /\ outBuf' \in Seq(Symbols) /\ Len(outBuf') = Len(outBuf) - n
         /\ sink' \in Seq(Symbols \ {Marker})
         /\ SubSeq(outBuf, 1, n) \in Seq(Symbols)
<1> DEFINE f == SubSeq(outBuf, 1, n)
           r == SubSeq(outBuf, n + 1, Len(outBuf))
           b == outBuf
           i == Seen(Inside(comp))
<1>0. Len(b) \in Nat /\ n \in 1..Len(b) /\ b \in Seq(Symbols)
  BY EncoderAssumption, LenProperties DEF SinkAccepts, EncoderTypeOK
<1>1. f \in Seq(Symbols) /\ r \in Seq(Symbols) /\ Len(r) = Len(b) - n
  <2>1. \A k \in 1..Len(b) : b[k] \in Symbols
    BY <1>0, ElementOfSeq
  <2>2. QED
    BY <1>0, <2>1, SubSeqProperties
<1>2. f \o r = b
  <2>1. f \o r = SubSeq(b, 1, Len(b))
    <3>1. 1 \in 1..(Len(b) + 1) /\ n \in (1 - 1)..Len(b) /\ Len(b) \in n..Len(b)
      BY <1>0
    <3>2. QED
      BY <1>0, <3>1, ConcatAdjacentSubSeq
  <2>2. QED
    BY <1>0, <2>1, SubSeqFull
<1>3. sink' = sink \o Seen(f) /\ outBuf' = r /\ comp' = comp
  BY DEF SinkAccepts
<1> HIDE DEF f, r
<1>4. /\ Seen(f) \in Seq(Symbols \ {Marker}) /\ Seen(r) \in Seq(Symbols \ {Marker})
      /\ i \in Seq(Symbols \ {Marker}) /\ sink \in Seq(Symbols \ {Marker})
  BY <1>1, SeenFacts, ContentType
<1>5. Seen(b) = Seen(f) \o Seen(r)
  <2>1. Seen(f \o r) = Seen(f) \o Seen(r)
    BY <1>1, SeenFacts
  <2>2. QED
    BY <1>2, <2>1
<1>6. Content' = (sink \o Seen(f)) \o (Seen(r) \o i)
  BY <1>3 DEF Content, Inside
<1>7. Content = sink \o ((Seen(f) \o Seen(r)) \o i)
  BY <1>5 DEF Content
<1>8. (sink \o Seen(f)) \o (Seen(r) \o i) = sink \o ((Seen(f) \o Seen(r)) \o i)
  <2> DEFINE w == Seen(f)
             x == Seen(r)
             S == Symbols \ {Marker}
  <2>1. w \in Seq(S) /\ x \in Seq(S) /\ i \in Seq(S) /\ sink \in Seq(S)
    BY <1>4
  <2> HIDE DEF w, x, i, S
  <2>2. x \o i \in Seq(S)
    BY <2>1, ConcatProperties
  <2>3. (sink \o w) \o (x \o i) = sink \o (w \o (x \o i))
    <3> DEFINE y == x \o i
               v == sink
    <3>1. v \in Seq(S) /\ w \in Seq(S) /\ y \in Seq(S)
      BY <2>1, <2>2
    <3> HIDE DEF v, y
    <3>2. Regroups(v, w, y)
      BY <3>1, Regrouped
    <3>3. QED
      BY <3>2 DEF Regroups, v, y
  <2>4. Regroups(w, x, i)
    BY <2>1, Regrouped
  <2>5. QED
    BY <2>3, <2>4 DEF Regroups, w, x
<1>9. sink' \in Seq(Symbols \ {Marker})
  BY <1>3, <1>4, ConcatProperties
<1>10. QED
  BY <1>1, <1>3, <1>6, <1>7, <1>8, <1>9 DEF f

LEMMA ContentInvAfterCall ==
  ASSUME EncoderTypeOK, Orderly(comp), PollInv, ContentInv, pc \in CallPcs, NEW o \in Outcomes,
         comp' = o.comp, outBuf' = o.produced, sink' = sink,
         accepted' = accepted + o.consumed
  PROVE  ContentInv'
<1> DEFINE a == Added(o)
<1>0. /\ buf \in Seq(Tokens) /\ accepted \in Nat /\ Len(buf) \in Nat /\ outBuf = <<>>
      /\ Content \in Seq(Symbols)
  BY TypeFacts, ContentType DEF EncoderTypeOK, PollInv
<1>1. /\ Sound(o, cap) /\ Adds(o) /\ o.consumed \in 0..Len(buf)
      /\ pc # "w_none" => o.consumed = 0
      /\ o.consumed > 0 => ~comp.fin
      /\ pc # "s_finish" => o.comp.fin = comp.fin
      /\ comp.fin => o.comp.fin
  BY OutcomeFacts
<1>2. a \in Seq(Symbols)
  <2>1. First(buf, o.consumed) \in Seq(Tokens)
    BY <1>0, <1>1, FirstRest
  <2>2. First(buf, o.consumed) \in Seq(Symbols)
    BY <2>1, TokensAreSymbols
  <2>3. <<>> \in Seq(Symbols) /\ <<EndMark>> \in Seq(Symbols)
    BY TokensAreSymbols
  <2>4. QED
    BY <2>2, <2>3 DEF Added
<1>3. Content' = Content \o a
  BY <1>0, <1>1, <1>2, ContentAfterCall
<1>4. CASE pc = "w_none" /\ o.consumed > 0
  <2>1. /\ First(buf, o.consumed) \in Seq(Tokens) /\ Len(First(buf, o.consumed)) = o.consumed
        /\ \A i \in 1..o.consumed : First(buf, o.consumed)[i] = accepted + i
    <3>1. o.consumed \in Nat /\ Least(o.consumed, Len(buf)) = o.consumed
      BY <1>0, <1>1 DEF Least
    <3>2. /\ First(buf, o.consumed) \in Seq(Tokens) /\ Len(First(buf, o.consumed)) = o.consumed
          /\ \A i \in 1..o.consumed : First(buf, o.consumed)[i] = buf[i]
      BY <1>0, <3>1, FirstRest
    <3>3. \A i \in 1..o.consumed : i \in 1..Len(buf) /\ buf[i] = accepted + i
      BY <1>0, <1>1, <1>4 DEF PollInv, WritingPcs
    <3>4. QED
      BY <3>2, <3>3
  <2>2. FirstTokens(accepted) \o First(buf, o.consumed) = FirstTokens(accepted + o.consumed)
    BY <1>0, <2>1, FirstTokensExtended
  <2>3. ~comp.fin /\ ~o.comp.fin /\ a = First(buf, o.consumed)
    BY <1>1, <1>4 DEF Added
  <2>4. Content = FirstTokens(accepted)
    BY <2>3 DEF ContentInv, AcceptedTokens
  <2> HIDE DEF a
  <2>5. Content' = FirstTokens(accepted + o.consumed)
    BY <1>3, <2>2, <2>3, <2>4
  <2>6. QED
    BY <2>3, <2>5 DEF ContentInv, AcceptedTokens
<1>5. CASE pc = "s_finish" /\ o.comp.fin /\ ~comp.fin
  <2>1. Content = FirstTokens(accepted) /\ a = <<EndMark>> /\ accepted' = accepted
    BY <1>0, <1>1, <1>5 DEF ContentInv, AcceptedTokens, Added
  <2> HIDE DEF a
  <2>2. Append(Content, EndMark) = Content \o <<EndMark>>
    <3>1. EndMark \in Symbols
      BY TokensAreSymbols
    <3>2. QED
      BY <1>0, <3>1, AppendIsConcat
  <2>3. Content' = Append(FirstTokens(accepted), EndMark)
    BY <1>3, <2>1, <2>2
  <2>4. QED
    BY <1>5, <2>1, <2>3 DEF ContentInv, AcceptedTokens
<1>6. CASE /\ ~(pc = "w_none" /\ o.consumed > 0)
           /\ ~(pc = "s_finish" /\ o.comp.fin /\ ~comp.fin)
  <2>1. o.consumed = 0
    BY <1>0, <1>1, <1>6
  <2>2. o.comp.fin <=> comp.fin
    BY <1>1, <1>6
  <2>3. a = <<>>
    <3>1. First(buf, 0) = <<>>
      BY <1>0, FirstRest
    <3>2. QED
      BY <1>6, <2>1, <2>2, <3>1 DEF Added
  <2>4. accepted' = accepted
    BY <1>0, <2>1
  <2> HIDE DEF a
  <2>5. Content' = Content
    BY <1>0, <1>3, <2>3, ConcatEmptySeq
  <2>6. QED
    BY <2>2, <2>4, <2>5 DEF ContentInv, AcceptedTokens
<1>7. QED
  BY <1>4, <1>5, <1>6
-----------------------------------------------------------------------------
(* The initial state has the invariant and every action keeps it.          *)
LEMMA EncoderInit == Init => EncoderInv
<1> SUFFICES ASSUME Init PROVE EncoderInv
  OBVIOUS
<1>1. EncoderTypeOK
  <2>1. <<>> \in Seq(Tokens) /\ <<>> \in Seq(Symbols) /\ <<>> \in Seq(Symbols \ {Marker})
        /\ Len(<<>>) = 0
    BY EmptySeq
  <2>2. comp \in CompressorType
    BY <2>1 DEF Init, Fresh, CompressorType
  <2>3. cap \in InitBuf..MaxOutBuf /\ 0 <= cap /\ 0 \in 0..(U64 - 1) /\ 0 \in 0..MaxTokens
    BY EncoderAssumption DEF Init
  <2>4. QED
    BY <2>1, <2>2, <2>3 DEF Init, EncoderTypeOK, CompressorType
<1>2. Orderly(comp) /\ PollInv /\ WrittenMatchesSink
  BY DEF Init, Orderly, Fresh, PollInv, CallPcs, WritingPcs, WrittenMatchesSink
<1>3. ContentInv
  <2>1. Inside(comp) = <<>> /\ ~comp.fin
    BY EmptySeq, ConcatEmptySeq DEF Init, Fresh, Inside
  <2>2. Content = <<>>
    BY <2>1, SeenFacts, EmptySeq, ConcatEmptySeq DEF Init, Content
  <2>3. FirstTokens(0) = <<>>
    BY DEF FirstTokens
  <2>4. QED
    BY <2>1, <2>2, <2>3 DEF Init, ContentInv, AcceptedTokens
<1>4. QED
  BY <1>1, <1>2, <1>3 DEF EncoderInv

(* An action that leaves the data where it is.                             *)
LEMMA DataUnmoved ==
  ASSUME EncoderInv, UNCHANGED <<comp, outBuf, written, accepted, sink, sinkLen>>
  PROVE  Orderly(comp)' /\ ContentInv' /\ WrittenMatchesSink'
BY DEF EncoderInv, Orderly, ContentInv, Content, Seen, Inside, AcceptedTokens, WrittenMatchesSink

LEMMA CallsKeepInv == EncoderInv /\ Call => EncoderInv'
<1> SUFFICES ASSUME EncoderInv, Call PROVE EncoderInv'
  OBVIOUS
<1>0. accepted \in Nat /\ MaxTokens \in Nat
  BY TypeFacts DEF EncoderInv
<1>1. CASE \E n \in WriteSizes : PollWrite(n)
  <2>1. PICK n \in WriteSizes : PollWrite(n)
    BY <1>1
  <2>2. n \in Nat
    BY EncoderAssumption
  <2>3. /\ buf' \in Seq(Tokens) /\ Len(buf') = n
        /\ \A i \in 1..n : buf'[i] = accepted + i
    BY <1>0, <2>1, <2>2 DEF PollWrite, Tokens
  <2>4. EncoderTypeOK'
    BY <2>1, <2>3 DEF EncoderInv, EncoderTypeOK, PollWrite, Enter, DrainPcs
  <2>5. PollInv'
    BY <2>1, <2>3 DEF EncoderInv, PollInv, PollWrite, Enter, CallPcs, WritingPcs
  <2>6. QED
    BY <2>1, <2>4, <2>5, DataUnmoved DEF EncoderInv, PollWrite, Enter
<1>2. CASE PollFlush \/ PollShutdown
  <2>1. EncoderTypeOK'
    BY <1>2 DEF EncoderInv, EncoderTypeOK, PollFlush, PollShutdown, Enter, DrainPcs
  <2>2. PollInv'
    BY <1>2 DEF EncoderInv, PollInv, PollFlush, PollShutdown, Enter, CallPcs, WritingPcs
  <2>3. QED
    BY <1>2, <2>1, <2>2, DataUnmoved DEF EncoderInv, PollFlush, PollShutdown, Enter
<1>3. CASE CallFinished
  <2>1. EncoderTypeOK'
    BY <1>3 DEF EncoderInv, EncoderTypeOK, CallFinished
  <2>2. PollInv'
    BY <1>3 DEF EncoderInv, PollInv, CallFinished
  <2>3. QED
    BY <1>3, <2>1, <2>2, DataUnmoved DEF EncoderInv, CallFinished
<1>4. QED
  BY <1>1, <1>2, <1>3 DEF Call

LEMMA SinkKeepsInv == EncoderInv /\ SinkStep => EncoderInv'
<1> SUFFICES ASSUME EncoderInv, SinkStep PROVE EncoderInv'
  OBVIOUS
<1>1. CASE \E n \in 1..MaxOutBuf : SinkAccepts(n)
  <2>1. PICK n \in 1..MaxOutBuf : SinkAccepts(n)
    BY <1>1
  <2>2. /\ Content' = Content
        /\ outBuf' \in Seq(Symbols) /\ Len(outBuf') = Len(outBuf) - n
        /\ sink' \in Seq(Symbols \ {Marker})
    BY <2>1, ContentAfterSink DEF EncoderInv
  <2>3. n \in Nat /\ Len(outBuf) \in Nat /\ cap \in Nat
    BY EncoderAssumption, LenProperties, TypeFacts DEF EncoderInv, EncoderTypeOK
  <2>4. written' \in 0..(U64 - 1) /\ sinkLen' = written'
    BY <2>1, <2>3, EncoderAssumption DEF SinkAccepts, EncoderInv, WrittenMatchesSink, EncoderTypeOK
  <2>5. Len(outBuf') <= cap
    BY <2>2, <2>3 DEF EncoderInv, EncoderTypeOK
  <2>6. EncoderTypeOK'
    BY <2>1, <2>2, <2>4, <2>5 DEF EncoderInv, EncoderTypeOK, SinkAccepts
  <2>7. PollInv'
    BY <2>1 DEF EncoderInv, PollInv, SinkAccepts, CallPcs, DrainPcs
  <2>8. ContentInv'
    BY <2>1, <2>2 DEF EncoderInv, ContentInv, AcceptedTokens, SinkAccepts
  <2>9. Orderly(comp)' /\ WrittenMatchesSink'
    BY <2>1, <2>4 DEF EncoderInv, Orderly, SinkAccepts, WrittenMatchesSink
  <2>10. QED
    BY <2>6, <2>7, <2>8, <2>9 DEF EncoderInv
<1>2. CASE SinkPending \/ SinkFails
  <2>1. EncoderTypeOK'
    BY <1>2, EmptySeq DEF EncoderInv, EncoderTypeOK, SinkPending, SinkFails, Return
  <2>2. PollInv'
    BY <1>2 DEF EncoderInv, PollInv, SinkPending, SinkFails, Return, CallPcs, DrainPcs, WritingPcs
  <2>3. QED
    BY <1>2, <2>1, <2>2, DataUnmoved DEF EncoderInv, SinkPending, SinkFails, Return
<1>3. QED
  BY <1>1, <1>2 DEF SinkStep

(* A call of the compressor whose outcome do_compress returns.             *)
LEMMA CallDone ==
  ASSUME EncoderInv, pc \in CallPcs, NEW o \in Outcomes, DoCompress(o),
         accepted' = accepted + o.consumed
  PROVE  /\ comp' \in CompressorType /\ Orderly(comp)'
         /\ outBuf' \in Seq(Symbols) /\ Len(outBuf') <= cap /\ ContentInv'
         /\ accepted' \in 0..MaxTokens /\ WrittenMatchesSink'
         /\ ~finished
<1>1. /\ comp' = o.comp /\ outBuf' = o.produced /\ sink' = sink
      /\ written' = written /\ sinkLen' = sinkLen
  BY DEF DoCompress
<1>2. Sound(o, cap) /\ o.consumed \in 0..Len(buf) /\ (pc # "w_none" => o.consumed = 0)
  BY OutcomeFacts DEF EncoderInv
<1>3. ContentInv'
  BY <1>1, ContentInvAfterCall DEF EncoderInv
<1>4. accepted' \in 0..MaxTokens
  <2>1. accepted \in 0..MaxTokens /\ Len(buf) \in Nat /\ MaxTokens \in Nat
    BY TypeFacts, EncoderAssumption DEF EncoderInv, EncoderTypeOK
  <2>2. pc = "w_none" => accepted + Len(buf) <= MaxTokens
    BY DEF EncoderInv, PollInv, WritingPcs
  <2>3. QED
    BY <1>2, <2>1, <2>2
<1>5. QED
  BY <1>1, <1>2, <1>3, <1>4 DEF Sound, Orderly, EncoderInv, WrittenMatchesSink, PollInv, CallPcs

LEMMA PollKeepsInv == EncoderInv /\ PollStep => EncoderInv'
<1> SUFFICES ASSUME EncoderInv, PollStep PROVE EncoderInv'
  OBVIOUS
<1>0. accepted \in Nat /\ Len(buf) \in Nat
  BY TypeFacts DEF EncoderInv
<1>1. CASE Drained
  <2>1. EncoderTypeOK'
    <3>1. /\ UNCHANGED <<comp, outBuf, cap, written, accepted, sink, sinkLen>>
          /\ finished' = finished \/ finished' = TRUE
          /\ buf' = buf \/ buf' = <<>>
          /\ result' = result \/ result' = "ok"
          /\ pc' \in {"caller"} \cup CallPcs
      BY <1>1 DEF Drained, Return, DrainPcs, CallPcs
    <3>2. <<>> \in Seq(Tokens)
      BY EmptySeq
    <3>3. QED
      BY <3>1, <3>2 DEF EncoderInv, EncoderTypeOK
  <2>2. PollInv'
    BY <1>1 DEF EncoderInv, PollInv, Drained, Return, DrainPcs, CallPcs, WritingPcs
  <2>3. QED
    BY <1>1, <2>1, <2>2, DataUnmoved DEF EncoderInv, Drained
<1>2. CASE GrowBuffer
  <2>1. comp' = comp
    <3>1. PICK o \in Outcomes : Stuck(o) /\ comp' = o.comp
      BY <1>2 DEF GrowBuffer
    <3>2. QED
      BY <1>2, <3>1, OutcomeFacts DEF EncoderInv, GrowBuffer, Stuck
  <2>2. outBuf = <<>> /\ cap' \in InitBuf..MaxOutBuf
    BY <1>2, EncoderAssumption DEF EncoderInv, EncoderTypeOK, PollInv, GrowBuffer
  <2>3. Len(outBuf') <= cap'
    BY <1>2, <2>2, EncoderAssumption, EmptySeq DEF GrowBuffer
  <2>4. EncoderTypeOK'
    BY <1>2, <2>1, <2>2, <2>3 DEF EncoderInv, EncoderTypeOK, GrowBuffer
  <2>5. PollInv'
    BY <1>2, <2>1 DEF EncoderInv, PollInv, GrowBuffer
  <2>6. QED
    BY <1>2, <2>1, <2>4, <2>5, DataUnmoved DEF EncoderInv, GrowBuffer
<1>3. CASE CompressError
  <2>1. comp' = [comp EXCEPT !.bad = TRUE]
    <3>1. PICK o \in Outcomes : o.status = "Error" /\ comp' = o.comp
      BY <1>3 DEF CompressError
    <3>2. QED
      BY <1>3, <3>1, OutcomeFacts DEF EncoderInv, CompressError
  <2>2. /\ comp' \in CompressorType /\ comp'.queue = comp.queue /\ comp'.hold = comp.hold
        /\ comp'.fin = comp.fin /\ comp'.ended = comp.ended
    BY <2>1, TypeFacts DEF EncoderInv, CompressorType
  <2>3. EncoderTypeOK'
    BY <1>3, <2>2, EmptySeq DEF EncoderInv, EncoderTypeOK, CompressError, Return, CompressorType
  <2>4. PollInv'
    BY <1>3, <2>2 DEF EncoderInv, PollInv, CompressError, Return, CallPcs, WritingPcs
  <2>5. ContentInv'
    <3>1. Inside(comp') = Inside(comp)
      BY <2>2 DEF Inside
    <3>2. Content' = Content
      BY <1>3, <3>1 DEF Content, CompressError, Inside, Seen
    <3>3. QED
      BY <1>3, <2>2, <3>2 DEF EncoderInv, ContentInv, AcceptedTokens, CompressError
  <2>6. Orderly(comp)' /\ WrittenMatchesSink'
    BY <1>3, <2>2 DEF EncoderInv, Orderly, CompressError, WrittenMatchesSink
  <2>7. QED
    BY <2>3, <2>4, <2>5, <2>6 DEF EncoderInv
<1>4. CASE WriteCompressed
  <2>1. PICK o \in Outcomes :
          /\ DoCompress(o) /\ accepted' = accepted + o.consumed
          /\ IF o.consumed > 0 THEN Return("ok")
             ELSE /\ pc' = IF o.produced = <<>> THEN "w_sync" ELSE "w_drain"
                  /\ UNCHANGED <<buf, result>>
    BY <1>4 DEF WriteCompressed
  <2>2. pc = "w_none" /\ pc \in CallPcs /\ finished' = finished
    BY <1>4 DEF WriteCompressed, CallPcs
  <2>3. /\ comp' \in CompressorType /\ Orderly(comp)'
        /\ outBuf' \in Seq(Symbols) /\ Len(outBuf') <= cap /\ ContentInv'
        /\ accepted' \in 0..MaxTokens /\ WrittenMatchesSink' /\ ~finished
    BY <2>1, <2>2, CallDone
  <2>4. o.consumed \in 0..Len(buf)
    BY <2>2, OutcomeFacts DEF EncoderInv
  <2>5. EncoderTypeOK'
    BY <2>1, <2>2, <2>3, EmptySeq
    DEF EncoderInv, EncoderTypeOK, DoCompress, Return, DrainPcs, CallPcs, CompressorType
  <2>6. PollInv'
    BY <1>0, <2>1, <2>2, <2>3, <2>4 DEF EncoderInv, PollInv, DoCompress, Return, CallPcs, WritingPcs
  <2>7. QED
    BY <2>3, <2>5, <2>6 DEF EncoderInv
<1>5. ASSUME pc \in {"w_sync", "f_sync", "s_finish"}, finished' = finished, accepted' = accepted,
             NEW o \in Outcomes, DoCompress(o),
             \/ Return("err") \/ Return("ok")
             \/ /\ UNCHANGED <<buf, result>>
                /\ \/ pc = "w_sync" /\ pc' = "w_drain"
                   \/ pc = "f_sync" /\ pc' = "f_drain_sync"
                   \/ pc = "s_finish" /\ pc' = "s_drain"
                   \/ pc = "s_finish" /\ pc' = "s_drain_end" /\ o.status = "StreamEnd"
      PROVE  EncoderInv'
  <2>1. pc \in CallPcs
    BY <1>5 DEF CallPcs
  <2>2. o.consumed = 0 /\ (pc = "s_finish" /\ o.status = "StreamEnd" => o.comp.ended)
    BY <1>5, <2>1, OutcomeFacts DEF EncoderInv
  <2>3. accepted' = accepted + o.consumed
    BY <1>0, <1>5, <2>2
  <2>4. /\ comp' \in CompressorType /\ Orderly(comp)'
        /\ outBuf' \in Seq(Symbols) /\ Len(outBuf') <= cap /\ ContentInv'
        /\ accepted' \in 0..MaxTokens /\ WrittenMatchesSink' /\ ~finished
    BY <1>5, <2>1, <2>3, CallDone
  <2>5. EncoderTypeOK'
    BY <1>5, <2>4, EmptySeq
    DEF EncoderInv, EncoderTypeOK, DoCompress, Return, DrainPcs, CallPcs, CompressorType
  <2>6. PollInv'
    BY <1>5, <2>2, <2>4 DEF EncoderInv, PollInv, DoCompress, Return, CallPcs, WritingPcs
  <2>7. QED
    BY <2>4, <2>5, <2>6 DEF EncoderInv
<1>6. CASE WriteSynced
  BY <1>5, <1>6 DEF WriteSynced
<1>7. CASE FlushSynced
  BY <1>5, <1>7 DEF FlushSynced
<1>8. CASE ShutdownFinished
  BY <1>5, <1>8 DEF ShutdownFinished
<1>9. QED
  BY <1>1, <1>2, <1>3, <1>4, <1>6, <1>7, <1>8 DEF PollStep

LEMMA EncoderStep == EncoderInv /\ [Next]_vars => EncoderInv'
<1>1. ASSUME EncoderInv, UNCHANGED vars PROVE EncoderInv'
  <2>1. EncoderTypeOK' /\ PollInv'
    BY <1>1 DEF EncoderInv, EncoderTypeOK, PollInv, vars
  <2>2. QED
    BY <1>1, <2>1, DataUnmoved DEF EncoderInv, vars
<1>2. QED
  BY <1>1, CallsKeepInv, SinkKeepsInv, PollKeepsInv DEF Next

LEMMA EncoderAlways == Spec => []EncoderInv
<1>1. QED
  BY EncoderInit, EncoderStep, PTL DEF Spec
-----------------------------------------------------------------------------
(* EncoderTypeOK holds in every reachable state.                           *)
THEOREM EncoderTypeCorrect == Spec => []EncoderTypeOK
<1>1. EncoderInv => EncoderTypeOK
  BY DEF EncoderInv
<1>2. QED
  BY <1>1, EncoderAlways, PTL

(* `written`, which EntryWriter::finish reports as the compressed size, is *)
(* what the sink accepted, however the inner writer splits and fails.      *)
THEOREM WrittenAlwaysMatchesSink == Spec => []WrittenMatchesSink
<1>1. EncoderInv => WrittenMatchesSink
  BY DEF EncoderInv
<1>2. QED
  BY <1>1, EncoderAlways, PTL

LEMMA EndedComplete ==
  ASSUME EncoderInv, comp.ended, outBuf = <<>>
  PROVE  sink = Append(AcceptedTokens, EndMark)
<1>1. comp.fin /\ Inside(comp) = <<>>
  BY EmptySeq, ConcatEmptySeq DEF EncoderInv, Orderly, Inside
<1>2. Content = sink
  <2>1. sink \in Seq(Symbols)
    BY ContentType DEF EncoderInv
  <2>2. Seen(outBuf) \o Seen(Inside(comp)) = <<>>
    BY <1>1, SeenFacts, EmptySeq, ConcatEmptySeq
  <2>3. QED
    BY <2>1, <2>2, ConcatEmptySeq DEF Content
<1>3. QED
  BY <1>1, <1>2 DEF EncoderInv, ContentInv

(* A finished encoder has handed everything to the sink, the end mark      *)
(* last: a shutdown that returned Ok has left nothing in out_buf or in the *)
(* compressor.                                                             *)
THEOREM FinishedAlwaysComplete == Spec => []FinishedIsComplete
<1>1. EncoderInv => FinishedIsComplete
  BY EndedComplete DEF EncoderInv, PollInv, FinishedIsComplete, AcceptedTokens, FirstTokens
<1>2. QED
  BY <1>1, EncoderAlways, PTL

LEMMA DataOfSeen == \A s \in Seq(Symbols) : Data(Seen(s)) = Data(s)
<1> SUFFICES ASSUME NEW s \in Seq(Symbols) PROVE Data(Seen(s)) = Data(s)
  OBVIOUS
<1> DEFINE X == Tokens \cup {EndMark}
<1>1. X \cap Tokens = Tokens
  OBVIOUS
<1>2. Keep(Keep(s, X), Tokens) = Keep(s, X \cap Tokens)
  BY KeepKeep
<1>3. QED
  BY <1>1, <1>2 DEF Data, Seen

LEMMA DataOfConcat ==
  ASSUME NEW s \in Seq(Symbols), NEW t \in Seq(Symbols)
  PROVE  Data(s \o t) = Data(s) \o Data(t)
<1>1. Keep(s \o t, Tokens) = Keep(s, Tokens) \o Keep(t, Tokens)
  BY KeepConcat
<1>2. QED
  BY <1>1 DEF Data

LEMMA FirstTokensType == \A n \in 0..MaxTokens : FirstTokens(n) \in Seq(Tokens)
<1> SUFFICES ASSUME NEW n \in 0..MaxTokens PROVE FirstTokens(n) \in Seq(Tokens)
  OBVIOUS
<1>1. n \in Nat /\ \A i \in 1..n : i \in Tokens
  BY EncoderAssumption DEF Tokens
<1>2. QED
  BY <1>1 DEF FirstTokens

LEMMA StreamFaithfulHolds == EncoderInv => StreamFaithful
<1> SUFFICES ASSUME EncoderInv PROVE StreamFaithful
  OBVIOUS
<1> DEFINE b == outBuf
           i == Inside(comp)
           x == Seen(b)
           y == Seen(i)
           v == sink
           t == AcceptedTokens
<1>1. /\ b \in Seq(Symbols) /\ i \in Seq(Symbols) /\ v \in Seq(Symbols)
      /\ x \in Seq(Symbols \ {Marker}) /\ y \in Seq(Symbols \ {Marker})
  BY TypeFacts, ContentType DEF EncoderInv, EncoderTypeOK
<1>2. x \in Seq(Symbols) /\ y \in Seq(Symbols)
  BY <1>1, SeqMonotonic
<1>3. t \in Seq(Tokens) /\ t \in Seq(Symbols)
  BY FirstTokensType, TokensAreSymbols DEF EncoderInv, EncoderTypeOK, AcceptedTokens
<1>4. Content = v \o (x \o y)
  BY DEF Content
<1>5. Data(x) = Data(b) /\ Data(y) = Data(i)
  BY <1>1, DataOfSeen
<1> HIDE DEF b, i, x, y, v, t
<1>6. Data(v \o (x \o y)) = Data(v) \o (Data(x) \o Data(y))
  <2> DEFINE z == x \o y
  <2>1. z \in Seq(Symbols)
    BY <1>2, ConcatProperties
  <2>2. Data(z) = Data(x) \o Data(y)
    BY <1>2, DataOfConcat
  <2> HIDE DEF z
  <2>3. Data(v \o z) = Data(v) \o Data(z)
    BY <1>1, <2>1, DataOfConcat
  <2>4. QED
    BY <2>2, <2>3 DEF z
<1>7. Data(Content) = t
  <2>1. Data(t) = t
    BY <1>3, KeepAll DEF Data
  <2>2. Data(Append(t, EndMark)) = Data(t)
    <3>1. EndMark \in Symbols /\ EndMark \notin Tokens
      BY TokensAreSymbols, EncoderAssumption DEF EndMark, Tokens
    <3>2. Keep(Append(t, EndMark), Tokens)
            = IF EndMark \in Tokens THEN Append(Keep(t, Tokens), EndMark) ELSE Keep(t, Tokens)
      BY <1>3, <3>1, KeepAppend
    <3>3. QED
      BY <3>1, <3>2 DEF Data
  <2>3. Content = t \/ Content = Append(t, EndMark)
    BY DEF EncoderInv, ContentInv, t
  <2>4. QED
    BY <2>1, <2>2, <2>3
<1>8. Data(v) \o (Data(b) \o Data(i)) = t
  BY <1>4, <1>5, <1>6, <1>7
<1>9. Data(v) \o (Data(b) \o Data(i)) = (Data(v) \o Data(b)) \o Data(i)
  <2> DEFINE p == Data(v)
             q == Data(b)
             r == Data(i)
  <2>1. \A s \in Seq(Symbols) : Data(s) \in Seq(Symbols \cap Tokens)
    BY KeepType DEF Data
  <2>2. /\ p \in Seq(Symbols \cap Tokens) /\ q \in Seq(Symbols \cap Tokens)
        /\ r \in Seq(Symbols \cap Tokens)
    BY <1>1, <2>1
  <2> HIDE DEF p, q, r
  <2>3. Regroups(p, q, r)
    BY <2>2, Regrouped
  <2>4. QED
    BY <2>3 DEF Regroups, p, q, r
<1>10. QED
  BY <1>8, <1>9 DEF StreamFaithful, AcceptedTokens, FirstTokens, t, v, b, i

(* No input is lost, duplicated or reordered between poll_write and the    *)
(* sink, for every compressor, inner writer and order of polls: what was   *)
(* accepted is in the sink, in out_buf and in the compressor, in order.    *)
THEOREM StreamAlwaysFaithful == Spec => []StreamFaithful
<1>1. QED
  BY StreamFaithfulHolds, EncoderAlways, PTL
-----------------------------------------------------------------------------
(* DeflateEncoder implements ByteStream.                                   *)
Mapped == <<Asked, result, accepted, sink, Phase>>

LEMMA PartOfConcat ==
  ASSUME NEW S, NEW s \in Seq(S), NEW t \in Seq(S)
  PROVE  Stream!IsPart(s, s \o t)
<1> DEFINE u == s \o t
           f == SubSeq(u, 1, Len(s))
<1>1. /\ Len(s) \in Nat /\ Len(t) \in Nat
      /\ u \in Seq(S) /\ Len(u) = Len(s) + Len(t)
      /\ \A i \in 1..Len(s) : u[i] = s[i]
  BY LenProperties, ConcatProperties
<1> HIDE DEF u
<1>2. \A i \in 1..Len(s) : i \in 1..Len(u) /\ u[i] \in S
  BY <1>1, ElementOfSeq
<1>3. f \in Seq(S) /\ Len(f) = Len(s) /\ \A i \in 1..Len(s) : f[i] = u[i]
  BY <1>1, <1>2, SubSeqProperties
<1> HIDE DEF f
<1>4. f = s
  BY <1>1, <1>3, SeqEqual
<1>5. QED
  BY <1>1, <1>4 DEF Stream!IsPart, f, u

LEMMA PollAsks ==
  ASSUME EncoderInv
  PROVE  /\ pc \in DrainPcs \cup CallPcs => ~finished /\ Asked # "none"
         /\ pc = "caller" => Asked = "none"
BY DEF EncoderInv, PollInv, DrainPcs, CallPcs, Asked

LEMMA StreamInit == Init => Stream!Init
<1> SUFFICES ASSUME Init PROVE Stream!Init
  OBVIOUS
<1>1. Asked = "none" /\ Phase = "open"
  BY DEF Init, Asked, Phase, Fresh
<1>2. QED
  BY <1>1 DEF Init, Stream!Init

(* What the sink accepted is the beginning of what was accepted from the   *)
(* caller.                                                                 *)
LEMMA SinkDelivers ==
  ASSUME EncoderInv, EncoderInv', NEW n \in 1..MaxOutBuf, SinkAccepts(n)
  PROVE  Stream!Deliver
<1>1. Asked' = Asked /\ Phase' = Phase /\ result' = result /\ accepted' = accepted
  BY DEF SinkAccepts, Asked, Phase
<1>2. Asked # "none" /\ ~finished
  BY PollAsks DEF SinkAccepts
<1>3. Stream!IsPart(sink, sink')
  <2> DEFINE S == Symbols \ {Marker}
             t == Seen(SubSeq(outBuf, 1, n))
  <2>1. sink \in Seq(S) /\ t \in Seq(S) /\ sink' = sink \o t
    BY ContentType, ContentAfterSink, SeenFacts DEF EncoderInv, SinkAccepts
  <2> HIDE DEF S, t
  <2>2. Stream!IsPart(sink, sink \o t)
    BY <2>1, PartOfConcat
  <2>3. QED
    BY <2>1, <2>2
<1>4. Stream!IsPart(sink', Content')
  <2> DEFINE S == Symbols \ {Marker}
             x == Seen(outBuf)'
             y == Seen(Inside(comp))'
             v == sink'
  <2>1. v \in Seq(S) /\ x \in Seq(S) /\ y \in Seq(S)
    <3>1. /\ sink' \in Seq(S) /\ outBuf' \in Seq(Symbols) /\ comp' \in CompressorType
      BY DEF EncoderInv, EncoderTypeOK, CompressorType
    <3>2. Seen(outBuf') \in Seq(S) /\ Seen(Inside(comp')) \in Seq(S)
      BY <3>1, SeenFacts, TokensAreSymbols
    <3>3. Seen(outBuf)' = Seen(outBuf') /\ Seen(Inside(comp))' = Seen(Inside(comp'))
      BY DEF Seen, Inside
    <3>4. QED
      BY <3>1, <3>2, <3>3
  <2>2. Content' = v \o (x \o y)
    BY DEF Content
  <2> HIDE DEF S, x, y, v
  <2>3. x \o y \in Seq(S)
    BY <2>1, ConcatProperties
  <2>4. Stream!IsPart(v, v \o (x \o y))
    BY <2>1, <2>3, PartOfConcat
  <2>5. QED
    BY <2>2, <2>4 DEF v
<1>5. Content' = IF Phase = "open" THEN Stream!Tokens ELSE Stream!Whole
  <2>1. Content' = Content /\ ContentInv
    BY ContentAfterSink DEF EncoderInv
  <2>2. Phase = "open" <=> ~comp.fin
    BY <1>2 DEF Phase
  <2>3. QED
    BY <2>1, <2>2
    DEF ContentInv, AcceptedTokens, FirstTokens, Stream!Tokens, Stream!Whole
<1>6. QED
  BY <1>1, <1>2, <1>3, <1>4, <1>5 DEF Stream!Deliver

LEMMA StreamStep ==
  EncoderInv /\ EncoderInv' /\ [Next]_vars => [Stream!Next]_(Stream!streamVars)
<1> SUFFICES ASSUME EncoderInv, EncoderInv', [Next]_vars
             PROVE  Stream!Next \/ UNCHANGED Mapped
  BY DEF Mapped, Stream!streamVars
<1>0. accepted \in Nat
  BY TypeFacts DEF EncoderInv
<1>1. CASE (\E n \in WriteSizes : PollWrite(n)) \/ PollFlush \/ PollShutdown
  <2>1. /\ pc = "caller" /\ ~finished /\ pc' \in {"w_drain", "f_drain", "s_drain"}
        /\ result' = "none" /\ UNCHANGED <<comp, finished, accepted, sink>>
    BY <1>1 DEF PollWrite, PollFlush, PollShutdown, Enter
  <2>2. Asked = "none" /\ Asked' \in {"write", "flush", "shutdown"}
    BY <2>1 DEF Asked
  <2>3. Phase # "closed" /\ Phase' = Phase
    BY <2>1 DEF Phase
  <2>4. QED
    BY <2>1, <2>2, <2>3 DEF Stream!Next, Stream!Call
<1>2. CASE CallFinished
  <2>1. Phase = "closed" /\ Phase' = Phase /\ Asked' = Asked
    BY <1>2 DEF CallFinished, Phase, Asked
  <2>2. QED
    BY <1>2, <2>1 DEF CallFinished, Stream!Next, Stream!Late
<1>3. CASE \E n \in 1..MaxOutBuf : SinkAccepts(n)
  BY <1>3, SinkDelivers DEF Stream!Next
<1>4. CASE SinkPending \/ SinkFails
  <2>1. pc \in DrainPcs /\ pc' = "caller" /\ result' \in {"pending", "err"}
        /\ UNCHANGED <<comp, finished, accepted, sink>>
    BY <1>4 DEF SinkPending, SinkFails, Return
  <2>2. Asked # "none" /\ Asked' = "none" /\ Phase' = Phase
    BY <2>1, PollAsks DEF Asked, Phase
  <2>3. QED
    BY <2>1, <2>2 DEF Stream!Next, Stream!NotDone
<1>5. CASE Drained
  <2>0. outBuf = <<>> /\ UNCHANGED <<comp, accepted, sink>>
    BY <1>5 DEF Drained
  <2>1. CASE pc \in {"w_drain", "f_drain", "s_drain"}
    <3>1. /\ pc' = IF pc = "w_drain" THEN "w_none" ELSE IF pc = "f_drain" THEN "f_sync"
                   ELSE "s_finish"
          /\ UNCHANGED <<result, finished>>
      BY <1>5, <2>1 DEF Drained
    <3>2. Asked' = Asked /\ Phase' = Phase
      BY <2>0, <2>1, <3>1 DEF Asked, Phase
    <3>3. QED
      BY <2>0, <3>1, <3>2 DEF Mapped
  <2>2. CASE pc = "f_drain_sync"
    <3>1. pc' = "caller" /\ result' = "ok" /\ finished' = finished
      BY <1>5, <2>2 DEF Drained, Return
    <3>2. Asked = "flush" /\ Asked' = "none" /\ Phase' = Phase
      BY <2>0, <2>2, <3>1 DEF Asked, Phase
    <3>3. QED
      BY <2>0, <3>1, <3>2 DEF Stream!Next, Stream!Flushed
  <2>3. CASE pc = "s_drain_end"
    <3>1. pc' = "caller" /\ result' = "ok" /\ finished' = TRUE
      BY <1>5, <2>3 DEF Drained, Return
    <3>2. ~finished /\ comp.ended /\ comp.fin
      BY <2>3, PollAsks DEF EncoderInv, PollInv, Orderly, DrainPcs
    <3>3. Asked = "shutdown" /\ Asked' = "none" /\ Phase = "ending" /\ Phase' = "closed"
      BY <2>3, <3>1, <3>2 DEF Asked, Phase
    <3>4. sink = Stream!Whole
      BY <2>0, <3>2, EndedComplete DEF AcceptedTokens, FirstTokens, Stream!Whole, Stream!Tokens
    <3>5. QED
      BY <2>0, <3>1, <3>3, <3>4 DEF Stream!Next, Stream!Close
  <2>4. QED
    BY <1>5, <2>1, <2>2, <2>3 DEF Drained, DrainPcs
<1>6. CASE GrowBuffer
  <2>1. comp' = comp
    <3>1. PICK o \in Outcomes : Stuck(o) /\ comp' = o.comp
      BY <1>6 DEF GrowBuffer
    <3>2. QED
      BY <1>6, <3>1, OutcomeFacts DEF EncoderInv, GrowBuffer, Stuck
  <2>2. QED
    BY <1>6, <2>1 DEF Mapped, Asked, Phase, GrowBuffer
<1>7. CASE CompressError
  <2>1. comp'.fin = comp.fin
    <3>1. PICK o \in Outcomes : o.status = "Error" /\ comp' = o.comp
      BY <1>7 DEF CompressError
    <3>2. comp' = [comp EXCEPT !.bad = TRUE]
      BY <1>7, <3>1, OutcomeFacts DEF EncoderInv, CompressError
    <3>3. QED
      BY <3>2, TypeFacts DEF EncoderInv, CompressorType
  <2>2. pc \in CallPcs /\ pc' = "caller" /\ result' = "err" /\ UNCHANGED <<finished, accepted, sink>>
    BY <1>7 DEF CompressError, Return
  <2>3. Asked # "none" /\ Asked' = "none" /\ Phase' = Phase
    BY <2>1, <2>2, PollAsks DEF Asked, Phase
  <2>4. QED
    BY <2>2, <2>3 DEF Stream!Next, Stream!NotDone
<1>8. CASE WriteCompressed
  <2>1. PICK o \in Outcomes :
          /\ DoCompress(o) /\ accepted' = accepted + o.consumed
          /\ IF o.consumed > 0 THEN Return("ok")
             ELSE /\ pc' = IF o.produced = <<>> THEN "w_sync" ELSE "w_drain"
                  /\ UNCHANGED <<buf, result>>
    BY <1>8 DEF WriteCompressed
  <2>2. pc = "w_none" /\ pc \in CallPcs /\ finished' = finished /\ ~finished
    BY <1>8, PollAsks DEF WriteCompressed, CallPcs
  <2>3. /\ o.comp.fin = comp.fin /\ o.consumed \in Nat
        /\ o.consumed > 0 => ~comp.fin
    BY <2>2, OutcomeFacts, TypeFacts DEF EncoderInv
  <2>4. Phase' = Phase /\ sink' = sink
    BY <2>1, <2>2, <2>3 DEF DoCompress, Phase
  <2>5. CASE o.consumed > 0
    <3>1. Asked = "write" /\ Asked' = "none" /\ Phase = "open"
      BY <2>1, <2>2, <2>3, <2>5 DEF Asked, Phase, Return
    <3>2. QED
      BY <1>0, <2>1, <2>3, <2>4, <2>5, <3>1 DEF Stream!Next, Stream!Take, Return
  <2>6. CASE ~(o.consumed > 0)
    <3>1. Asked = "write" /\ Asked' = "write" /\ accepted' = accepted /\ result' = result
      BY <1>0, <2>1, <2>2, <2>3, <2>6 DEF Asked
    <3>2. QED
      BY <2>4, <3>1 DEF Mapped
  <2>7. QED
    BY <2>5, <2>6
<1>9. CASE WriteSynced \/ FlushSynced
  <2>1. PICK o \in Outcomes :
          /\ DoCompress(o)
          /\ IF o.produced = <<>> THEN Return(IF pc = "w_sync" THEN "err" ELSE "ok")
             ELSE /\ pc' = IF pc = "w_sync" THEN "w_drain" ELSE "f_drain_sync"
                  /\ UNCHANGED <<buf, result>>
    BY <1>9 DEF WriteSynced, FlushSynced
  <2>2. /\ pc \in {"w_sync", "f_sync"} /\ pc \in CallPcs
        /\ finished' = finished /\ accepted' = accepted
    BY <1>9 DEF WriteSynced, FlushSynced, CallPcs
  <2>3. o.comp.fin = comp.fin
    BY <2>2, OutcomeFacts DEF EncoderInv
  <2>4. Phase' = Phase /\ sink' = sink
    BY <2>1, <2>2, <2>3 DEF DoCompress, Phase
  <2>5. Asked = IF pc = "w_sync" THEN "write" ELSE "flush"
    BY <2>2 DEF Asked
  <2>6. CASE o.produced = <<>>
    <3>1. Asked' = "none" /\ result' = IF pc = "w_sync" THEN "err" ELSE "ok"
      BY <2>1, <2>6 DEF Asked, Return
    <3>2. QED
      BY <2>2, <2>4, <2>5, <3>1 DEF Stream!Next, Stream!NotDone, Stream!Flushed
  <2>7. CASE o.produced # <<>>
    <3>1. Asked' = Asked /\ result' = result
      BY <2>1, <2>2, <2>5, <2>7 DEF Asked
    <3>2. QED
      BY <2>2, <2>4, <3>1 DEF Mapped
  <2>8. QED
    BY <2>6, <2>7
<1>10. CASE ShutdownFinished
  <2>1. PICK o \in Outcomes :
          /\ DoCompress(o)
          /\ IF Stuck(o) THEN Return("err")
             ELSE /\ pc' = IF o.status = "StreamEnd" THEN "s_drain_end" ELSE "s_drain"
                  /\ UNCHANGED <<buf, result>>
    BY <1>10 DEF ShutdownFinished
  <2>2. /\ pc = "s_finish" /\ pc \in CallPcs
        /\ finished' = finished /\ accepted' = accepted /\ ~finished
    BY <1>10, PollAsks DEF ShutdownFinished, CallPcs
  <2>3. ~Stuck(o) /\ o.comp.fin
    BY <2>1, <2>2, OutcomeFacts DEF EncoderInv, Stuck, DoCompress
  <2>4. /\ pc' \in {"s_drain", "s_drain_end"} /\ result' = result /\ comp'.fin
        /\ sink' = sink
    BY <2>1, <2>3 DEF DoCompress
  <2>5. Asked = "shutdown" /\ Asked' = "shutdown"
    BY <2>2, <2>4 DEF Asked
  <2>6. Phase' = "ending" /\ Phase \in {"open", "ending"}
    BY <2>2, <2>4 DEF Phase
  <2>7. QED
    BY <2>2, <2>4, <2>5, <2>6 DEF Mapped, Stream!Next, Stream!End
<1>11. CASE UNCHANGED vars
  BY <1>11 DEF vars, Mapped, Asked, Phase
<1>12. QED
  BY <1>1, <1>2, <1>3, <1>4, <1>5, <1>6, <1>7, <1>8, <1>9, <1>10, <1>11
  DEF Next, PollStep, SinkStep, Call

(* Every behaviour of the encoder is one of a stream without buffers or a  *)
(* compressor: a write takes what it says or nothing, the sink gets the    *)
(* tokens once and in order with the end after them, and a shutdown that   *)
(* returned Ok has delivered them all.                                     *)
THEOREM EncoderImplementsStream == Spec => ImplementsStream
<1>1. EncoderInv /\ EncoderInv' /\ [Next]_vars => [Stream!Next]_(Stream!streamVars)
  BY StreamStep
<1>2. QED
  BY <1>1, StreamInit, EncoderAlways, PTL DEF Spec, ImplementsStream, Stream!Spec
=============================================================================
