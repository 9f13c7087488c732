---------------------------- MODULE MCEntryNames ----------------------------
(* All names of up to MaxNameLen characters, for a field of a few bytes.   *)
EXTENDS EntryNames

CONSTANT MaxNameLen

AllNames   == UNION {[1..n -> Chars] : n \in 0..MaxNameLen}
SomeTargets == {<<>>, <<"letter">>, <<".", ".">>, <<"letter", "NUL">>}
SomeLens   == {0, MaxFieldLen, MaxFieldLen + 1}
=============================================================================
