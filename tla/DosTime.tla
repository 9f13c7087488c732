------------------------------- MODULE DosTime -------------------------------
(***************************************************************************)
(* The modification time of an entry on its way into the archive:          *)
(* src/src/zip_format/time.rs and the extended timestamp.  The local       *)
(* header converts the SystemTime, the central header the seconds that     *)
(* were recorded with the entry.  ZipFormat abstracts a DOS timestamp to   *)
(* its two-second unit; here it is the two packed 16-bit fields.           *)
(*                                                                         *)
(* An instant is [day, sec]: days since 1970-01-01, seconds of that day,   *)
(* which TLC's 32-bit integers can count.  A fraction of a second is left  *)
(* out: before 1970 it is rounded up, where the range starts in 1980.      *)
(***************************************************************************)
EXTENDS Integers, Sequences

CONSTANT Instants   \* the modification times examined

DaySeconds  == {s \in Nat : s < 86400}
InstantType == [day : Int, sec : DaySeconds]

ASSUME InstantAssumption == Instants \subseteq InstantType

VARIABLES
  mtime,      \* EntryOptions.mtime
  local,      \* the time fields of the local header, once written
  unixMtime,  \* StoredEntry.unix_mtime, once the entry is registered
  central     \* the time fields of the central header, once written

timeVars == <<mtime, local, unixMtime, central>>

Before(t, u) == t.day < u.day \/ (t.day = u.day /\ t.sec < u.sec)

Epoch   == [day |-> 0, sec |-> 0]
DosMin  == [day |-> 3652, sec |-> 0]        \* DOS_MIN_UNIX,   315_532_800
DosMax  == [day |-> 50402, sec |-> 86399]   \* DOS_MAX_UNIX, 4_354_819_199
U32Last == [day |-> 49710, sec |-> 23295]   \* u32::MAX,     4_294_967_295
-----------------------------------------------------------------------------
(* OffsetDateTime of the crate `time`: the Gregorian calendar.             *)
LeapYear(y)   == y % 4 = 0 /\ (y % 100 # 0 \/ y % 400 = 0)
LeapDaysTo(y) == (y - 1) \div 4 - (y - 1) \div 100 + (y - 1) \div 400
YearStart(y)  == 365 * (y - 1970) + LeapDaysTo(y) - LeapDaysTo(1970)

MonthStart(y, m) ==
  <<0, 31, 59, 90, 120, 151, 181, 212, 243, 273, 304, 334>>[m]
    + IF m > 2 /\ LeapYear(y) THEN 1 ELSE 0

DayNumber(y, m, d) == YearStart(y) + MonthStart(y, m) + d - 1

Year(day) ==
  CHOOSE y \in 1970 + day \div 366 .. 1970 + day \div 365 :
    YearStart(y) <= day /\ day < YearStart(y + 1)

Month(day) ==
  LET y == Year(day)
      begun == {m \in 1..12 : YearStart(y) + MonthStart(y, m) <= day}
  IN CHOOSE m \in begun : \A k \in begun : k <= m

DayOfMonth(day) == day - DayNumber(Year(day), Month(day), 1) + 1
-----------------------------------------------------------------------------
(* Faults: no upper clamp; a minute shifted into the hour's bits.          *)
ClampedBelow(t) == IF Before(t, DosMin) THEN DosMin ELSE t

Clamped(t) ==
  IF Before(t, DosMin) THEN DosMin ELSE IF Before(DosMax, t) THEN DosMax ELSE t

PackedTimeShifted(sec) ==
  (sec \div 3600) * 2048 + ((sec \div 60) % 60) * 64 + (sec % 60) \div 2

(* `hour << 11 | minute << 5 | second / 2`, the date likewise, in u16.     *)
PackedTime(sec) ==
  (sec \div 3600) * 2048 + ((sec \div 60) % 60) * 32 + (sec % 60) \div 2

PackedDate(day) ==
  ((Year(day) - 1980) * 512 + Month(day) * 32 + DayOfMonth(day)) % 65536

UnixSecsToMsDos(t) ==
  LET c == Clamped(t) IN [date |-> PackedDate(c.day), time |-> PackedTime(c.sec)]

(* Fault: the sign is dropped instead of the seconds before 1970.          *)
SystemTimeToUnixSecsAbs(t) ==
  IF t.day < 0 THEN [day |-> -t.day, sec |-> t.sec] ELSE t

SystemTimeToUnixSecs(t) == IF t.day < 0 THEN Epoch ELSE t

(* ExtendedTimestampExtra: none for second 0, saturated to 32 bits.        *)
(* Fault: not saturated.                                                   *)
ExtendedTimestampWide(t) == IF t = Epoch THEN <<>> ELSE <<t>>

ExtendedTimestamp(t) ==
  IF t = Epoch THEN <<>> ELSE <<IF Before(U32Last, t) THEN U32Last ELSE t>>
-----------------------------------------------------------------------------
Init ==
  /\ mtime \in Instants
  /\ local = <<>> /\ unixMtime = <<>> /\ central = <<>>

(* LocalFileHeader::new                                                    *)
WriteLocalHeader ==
  /\ local = <<>>
  /\ local' = <<[dos |-> UnixSecsToMsDos(mtime),
                 utime |-> ExtendedTimestamp(SystemTimeToUnixSecs(mtime))]>>
  /\ UNCHANGED <<mtime, unixMtime, central>>

(* EntryWriter::finish, add_directory, add_symlink                         *)
RegisterEntry ==
  /\ local # <<>> /\ unixMtime = <<>>
  /\ unixMtime' = <<SystemTimeToUnixSecs(mtime)>>
  /\ UNCHANGED <<mtime, local, central>>

(* StoredEntry::to_central_dir_entry                                       *)
WriteCentralHeader ==
  /\ unixMtime # <<>> /\ central = <<>>
  /\ central' = <<[dos |-> UnixSecsToMsDos(unixMtime[1]),
                   utime |-> ExtendedTimestamp(unixMtime[1])]>>
  /\ UNCHANGED <<mtime, local, unixMtime>>

Next == WriteLocalHeader \/ RegisterEntry \/ WriteCentralHeader

Spec == Init /\ [][Next]_timeVars
-----------------------------------------------------------------------------
(* The fields of a header, as a reader takes them apart.                   *)
ReadDay(dos) ==
  DayNumber(dos.date \div 512 + 1980, (dos.date \div 32) % 16, dos.date % 32)

ReadSec(dos) ==
  (dos.time \div 2048) * 3600 + ((dos.time \div 32) % 64) * 60 + (dos.time % 32) * 2

DosInstant(dos) == [day |-> ReadDay(dos), sec |-> ReadSec(dos)]

\* a calendar date and a time of day, in 16 bits each
FieldsValid(dos) ==
  /\ dos.date \in Nat /\ dos.date < 65536 /\ dos.time \in Nat /\ dos.time < 65536
  /\ (dos.date \div 32) % 16 \in 1..12 /\ dos.date % 32 \in 1..31
  /\ ReadSec(dos) \in Nat /\ ReadSec(dos) < 86400

HeaderOK(h) ==
  /\ FieldsValid(h.dos)
  /\ \A i \in DOMAIN h.utime : h.utime[i] \in InstantType /\ ~Before(U32Last, h.utime[i])

TypeOK ==
  /\ mtime \in InstantType
  /\ \A i \in DOMAIN local : HeaderOK(local[i])
  /\ \A i \in DOMAIN unixMtime : unixMtime[i] \in InstantType /\ unixMtime[i].day >= 0
  /\ \A i \in DOMAIN central : HeaderOK(central[i])

(* A reader gets back the time the entry had, to the two seconds the field *)
(* can tell apart; a time out of range has become the nearest end of it,   *)
(* whatever month, leap year or century it falls in.                       *)
ToTheUnit(t) == [t EXCEPT !.sec = @ - (@ % 2)]

ClockKept ==
  local # <<>> => DosInstant(local[1].dos) = ToTheUnit(Clamped(mtime))

(* The two headers of an entry tell the same time, although one was        *)
(* converted from the signed time and the other from the recorded seconds. *)
HeadersAgree == central # <<>> => central = local

(* As numbers, date first, the packed fields are ordered like the times: a *)
(* tool that compares them takes no older file for a newer one, and two    *)
(* times in the range that are two seconds apart are told apart.           *)
Later(t, n) ==
  LET sec == t.sec + n
  IN [day |-> t.day + sec \div 86400, sec |-> sec % 86400]

PackedBefore(a, b) == a.date < b.date \/ (a.date = b.date /\ a.time < b.time)

OrderKept ==
  local # <<>> =>
    LET soon == UnixSecsToMsDos(Later(mtime, 2))
    IN \/ PackedBefore(local[1].dos, soon)
       \/ local[1].dos = soon
            /\ (Before(mtime, DosMin) \/ Before(DosMax, Later(mtime, 2)))

(* Where both can tell the time, the extended timestamp and the DOS fields *)
(* differ by no more than the odd second.                                  *)
ClocksAgree ==
  central # <<>> =>
    \A i \in DOMAIN central[1].utime :
      \/ Before(mtime, DosMin) \/ Before(U32Last, mtime)
      \/ ToTheUnit(central[1].utime[i]) = DosInstant(central[1].dos)
=============================================================================
