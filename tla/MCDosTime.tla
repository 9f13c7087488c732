----------------------------- MODULE MCDosTime -----------------------------
EXTENDS DosTime

(* Every day of the DOS range, some beyond both of its ends and beyond the *)
(* end of the 32-bit seconds, at seconds around a rollover; and every      *)
(* second of a few hours.                                                  *)
MCDays == (-4000..-3998) \cup {-1, 0} \cup (3640..50410) \cup {100000}

MCInstants ==
  [day : MCDays, sec : {0, 86399}]
    \cup [day : {3711}, sec : 32000..44000] \cup [day : {49710}, sec : 23290..23300]
=============================================================================
