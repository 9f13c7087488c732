--------------------------- MODULE DosTimeProofs ---------------------------
(***************************************************************************)
(* Proofs about DosTime, for every modification time.                      *)
(***************************************************************************)
EXTENDS DosTime, TLAPS

(* Before 1970 the recorded seconds are not the time of the entry, but     *)
(* both lie before 1980 and are clamped to the same end of the range.      *)
LEMMA RecordedTimeConvertsAlike ==
  ASSUME NEW t \in InstantType
  PROVE  UnixSecsToMsDos(SystemTimeToUnixSecs(t)) = UnixSecsToMsDos(t)
<1>1. CASE t.day < 0
  <2>1. SystemTimeToUnixSecs(t) = Epoch
    BY <1>1 DEF SystemTimeToUnixSecs
  <2>2. t.day \in Int /\ DosMin.day = 3652 /\ Epoch.day = 0
    BY DEF InstantType, DosMin, Epoch
  <2>3. Before(t, DosMin) /\ Before(Epoch, DosMin)
    BY <1>1, <2>2 DEF Before
  <2>4. QED
    BY <2>1, <2>3 DEF UnixSecsToMsDos, Clamped
<1>2. CASE ~(t.day < 0)
  BY <1>2 DEF SystemTimeToUnixSecs
<1>3. QED
  BY <1>1, <1>2

LEMMA RecordedTime ==
  ASSUME NEW t \in InstantType
  PROVE  /\ SystemTimeToUnixSecs(t) \in InstantType
         /\ SystemTimeToUnixSecs(t).day >= 0
<1>1. t.day \in Int /\ Epoch \in InstantType /\ Epoch.day = 0
  <2>1. t.day \in Int
    BY DEF InstantType
  <2>2. 0 \in DaySeconds
    BY DEF DaySeconds
  <2>3. Epoch \in InstantType /\ Epoch.day = 0
    BY <2>2 DEF InstantType, Epoch
  <2>4. QED
    BY <2>1, <2>3
<1>2. QED
  BY <1>1 DEF SystemTimeToUnixSecs

(* What each variable holds, once it is written.                           *)
TimesInv ==
  /\ mtime \in InstantType
  /\ local = <<>> \/
       local = <<[dos |-> UnixSecsToMsDos(mtime),
                  utime |-> ExtendedTimestamp(SystemTimeToUnixSecs(mtime))]>>
  /\ unixMtime = <<>> \/
       (local # <<>> /\ unixMtime = <<SystemTimeToUnixSecs(mtime)>>)
  /\ central = <<>> \/
       (local # <<>>
         /\ central = <<[dos |-> UnixSecsToMsDos(SystemTimeToUnixSecs(mtime)),
                         utime |-> ExtendedTimestamp(SystemTimeToUnixSecs(mtime))]>>)

LEMMA TimesAlways == Spec => []TimesInv
<1>1. Init => TimesInv
  BY InstantAssumption DEF Init, TimesInv
<1>2. TimesInv /\ [Next]_timeVars => TimesInv'
  <2> SUFFICES ASSUME TimesInv, [Next]_timeVars PROVE TimesInv'
    OBVIOUS
  <2>1. CASE WriteLocalHeader
    BY <2>1 DEF WriteLocalHeader, TimesInv
  <2>2. CASE RegisterEntry
    BY <2>2 DEF RegisterEntry, TimesInv
  <2>3. CASE WriteCentralHeader
    <3>1. unixMtime[1] = SystemTimeToUnixSecs(mtime) /\ local # <<>>
      BY <2>3 DEF WriteCentralHeader, TimesInv
    <3>2. QED
      BY <2>3, <3>1 DEF WriteCentralHeader, TimesInv
  <2>4. CASE UNCHANGED timeVars
    BY <2>4 DEF timeVars, TimesInv
  <2>5. QED
    BY <2>1, <2>2, <2>3, <2>4 DEF Next
<1>3. QED
  BY <1>1, <1>2, PTL DEF Spec

(* The local and the central header of an entry tell the same time,        *)
(* whatever it is, although they convert it from different numbers.        *)
THEOREM HeadersAlwaysAgree == Spec => []HeadersAgree
<1>1. TimesInv => HeadersAgree
  <2> SUFFICES ASSUME TimesInv, central # <<>> PROVE central = local
    BY DEF HeadersAgree
  <2>1. UnixSecsToMsDos(SystemTimeToUnixSecs(mtime)) = UnixSecsToMsDos(mtime)
    BY RecordedTimeConvertsAlike DEF TimesInv
  <2>2. QED
    BY <2>1 DEF TimesInv
<1>2. QED
  BY <1>1, TimesAlways, PTL
-----------------------------------------------------------------------------
(* The calendar.  Year and month are chosen; that there is one to choose   *)
(* in every day of the DOS range, and only one, is what the fields rest on.*)
InDosRange(day) == day \in Int /\ 3652 <= day /\ day <= 50402

LeapDay(y) == IF LeapYear(y) THEN 1 ELSE 0

LEMMA YearStep == \A y \in Int : YearStart(y + 1) = YearStart(y) + 365 + LeapDay(y)
<1> SUFFICES ASSUME NEW y \in Int PROVE YearStart(y + 1) = YearStart(y) + 365 + LeapDay(y)
  OBVIOUS
<1>1. y \div 4 = (y - 1) \div 4 + (IF y % 4 = 0 THEN 1 ELSE 0)
  OBVIOUS
<1>2. y \div 100 = (y - 1) \div 100 + (IF y % 100 = 0 THEN 1 ELSE 0)
  OBVIOUS
<1>3. y \div 400 = (y - 1) \div 400 + (IF y % 400 = 0 THEN 1 ELSE 0)
  OBVIOUS
<1>4. (y % 400 = 0 => y % 100 = 0) /\ (y % 100 = 0 => y % 4 = 0)
  OBVIOUS
<1>5. LeapDaysTo(y + 1) = LeapDaysTo(y) + LeapDay(y)
  BY <1>1, <1>2, <1>3, <1>4 DEF LeapDaysTo, LeapDay, LeapYear
<1>6. LeapDaysTo(y) \in Int /\ LeapDaysTo(1970) \in Int /\ LeapDay(y) \in Int
  BY DEF LeapDaysTo, LeapDay
<1>7. QED
  BY <1>5, <1>6 DEF YearStart

LEMMA YearsGrow ==
  ASSUME NEW y \in Int, NEW z \in Int, y < z
  PROVE  YearStart(y + 1) <= YearStart(z)
BY DEF YearStart, LeapDaysTo

(* The years without the century 2100, and with it.                        *)
LEMMA YearStarts ==
  ASSUME NEW y \in Int
  PROVE  /\ YearStart(y) \in Int
         /\ 1970 <= y /\ y <= 2100 => YearStart(y) = (1461 * (y - 1970) + 1) \div 4
         /\ 2101 <= y /\ y <= 2108 => YearStart(y) = (1461 * (y - 1970) + 1) \div 4 - 1
BY DEF YearStart, LeapDaysTo

LEMMA YearExists ==
  ASSUME NEW day, InDosRange(day)
  PROVE  \E y \in Int : /\ 1980 <= y /\ y <= 2107
                        /\ YearStart(y) <= day /\ day < YearStart(y + 1)
<1>0. day \in Int /\ 3652 <= day /\ day <= 50402
  BY DEF InDosRange
<1>1. CASE day < 47847
  <2> DEFINE y == 1970 + (4 * day + 2) \div 1461
  <2>1. y \in Int /\ 1980 <= y /\ y <= 2100
    BY <1>0, <1>1
  <2>2. /\ (1461 * (y - 1970) + 1) \div 4 <= day
        /\ day < (1461 * (y + 1 - 1970) + 1) \div 4
        /\ y = 2100 => day < (1461 * (y + 1 - 1970) + 1) \div 4 - 1
    BY <1>0, <1>1
  <2> HIDE DEF y
  <2>3. YearStart(y) <= day
    BY <2>1, <2>2, YearStarts
  <2>4. day < YearStart(y + 1)
    BY <2>1, <2>2, YearStarts
  <2>5. QED
    BY <2>1, <2>3, <2>4
<1>2. CASE 47847 <= day
  <2> DEFINE y == 1970 + (4 * day + 6) \div 1461
  <2>1. y \in Int /\ 2101 <= y /\ y <= 2107
    BY <1>0, <1>2
  <2>2. /\ (1461 * (y - 1970) + 1) \div 4 - 1 <= day
        /\ day < (1461 * (y + 1 - 1970) + 1) \div 4 - 1
    BY <1>0, <1>2
  <2> HIDE DEF y
  <2>3. YearStart(y) <= day /\ day < YearStart(y + 1)
    BY <2>1, <2>2, YearStarts
  <2>4. QED
    BY <2>1, <2>3
<1>3. QED
  BY <1>0, <1>1, <1>2

LEMMA YearFacts ==
  ASSUME NEW day, InDosRange(day)
  PROVE  /\ Year(day) \in Int /\ 1980 <= Year(day) /\ Year(day) <= 2107
         /\ YearStart(Year(day)) <= day /\ day < YearStart(Year(day) + 1)
<1> DEFINE In(y) == YearStart(y) <= day /\ day < YearStart(y + 1)
           R == 1970 + day \div 366 .. 1970 + day \div 365
           z == Year(day)
<1>0. day \in Int /\ 3652 <= day /\ day <= 50402
  BY DEF InDosRange
<1>1. PICK x \in Int : 1980 <= x /\ x <= 2107 /\ In(x)
  BY YearExists
<1>2. x \in R
  <2>1. 365 * (x - 1970) <= YearStart(x) /\ YearStart(x + 1) <= 366 * (x + 1 - 1970)
    BY <1>1 DEF YearStart, LeapDaysTo
  <2>2. YearStart(x) \in Int /\ YearStart(x + 1) \in Int
    BY YearStarts
  <2>3. 365 * (x - 1970) <= day /\ day < 366 * (x + 1 - 1970)
    BY <1>0, <1>1, <2>1, <2>2
  <2>4. QED
    BY <1>0, <1>1, <2>3
<1>3. z \in R /\ In(z)
  BY <1>1, <1>2 DEF Year
<1>4. z \in Int
  BY <1>0, <1>3
<1> HIDE DEF z
<1>5. z = x
  <2>1. x < z => YearStart(x + 1) <= YearStart(z)
    BY <1>4, YearsGrow
  <2>2. z < x => YearStart(z + 1) <= YearStart(x)
    BY <1>4, YearsGrow
  <2>3. /\ YearStart(x) \in Int /\ YearStart(x + 1) \in Int
        /\ YearStart(z) \in Int /\ YearStart(z + 1) \in Int
    BY <1>4, YearStarts
  <2>4. QED
    BY <1>0, <1>1, <1>3, <1>4, <2>1, <2>2, <2>3
<1>6. QED
  BY <1>1, <1>5 DEF z

LEMMA MonthStartType ==
  ASSUME NEW y \in Int, NEW m \in 1..12
  PROVE  MonthStart(y, m) \in Int
BY DEF MonthStart

LEMMA MonthStarts ==
  ASSUME NEW y \in Int
  PROVE  /\ MonthStart(y, 1) = 0 /\ MonthStart(y, 12) = 334 + LeapDay(y)
         /\ \A m \in 1..11 : MonthStart(y, m + 1) <= MonthStart(y, m) + 31
BY DEF MonthStart, LeapDay

LEMMA MonthFacts ==
  ASSUME NEW day, InDosRange(day)
  PROVE  /\ Month(day) \in 1..12
         /\ DayNumber(Year(day), Month(day), 1) <= day
         /\ \A m \in 1..12 : Month(day) < m => day < DayNumber(Year(day), m, 1)
         /\ DayOfMonth(day) \in Int /\ 1 <= DayOfMonth(day) /\ DayOfMonth(day) <= 31
<1> DEFINE y == Year(day)
           S(m) == YearStart(y) + MonthStart(y, m)
           begun == {m \in 1..12 : S(m) <= day}
           M == Month(day)
<1>0. /\ day \in Int /\ y \in Int /\ YearStart(y) \in Int /\ YearStart(y) <= day
      /\ day < YearStart(y) + 365 + LeapDay(y)
      /\ LeapDay(y) \in Int
  <2>1. y \in Int /\ YearStart(y) <= day /\ day < YearStart(y + 1)
    BY YearFacts
  <2>2. YearStart(y + 1) = YearStart(y) + 365 + LeapDay(y)
    BY <2>1, YearStep
  <2>3. QED
    BY <2>1, <2>2, YearStarts DEF InDosRange, LeapDay
<1>1. /\ \A m \in 1..12 : S(m) \in Int /\ S(m) = DayNumber(y, m, 1)
      /\ S(1) = YearStart(y) /\ S(12) = YearStart(y) + 334 + LeapDay(y)
      /\ \A m \in 1..11 : S(m + 1) <= S(m) + 31
  <2> HIDE DEF y
  <2>1. \A m \in 1..12 : MonthStart(y, m) \in Int
    BY <1>0, MonthStartType
  <2>2. \A m \in 1..12 : S(m) \in Int /\ S(m) = DayNumber(y, m, 1)
    BY <1>0, <2>1 DEF DayNumber
  <2>3. S(1) = YearStart(y) /\ S(12) = YearStart(y) + 334 + LeapDay(y)
    BY <1>0, MonthStarts
  <2>4. ASSUME NEW m \in 1..11 PROVE S(m + 1) <= S(m) + 31
    <3>1. m \in 1..12 /\ m + 1 \in 1..12
      OBVIOUS
    <3>2. MonthStart(y, m + 1) <= MonthStart(y, m) + 31
      BY <1>0, MonthStarts
    <3>3. QED
      BY <1>0, <2>1, <3>1, <3>2
  <2>5. QED
    BY <2>2, <2>3, <2>4
<1>2. M = CHOOSE m \in begun : \A k \in begun : k <= m
  BY DEF Month
<1> HIDE DEF y, S, M
<1>3. \E m \in begun : \A k \in begun : k <= m
  <2>1. 1 \in begun /\ begun \subseteq 1..12
    BY <1>0, <1>1
  <2> HIDE DEF begun
  <2>2. QED
    BY <2>1
<1>4. M \in begun /\ \A k \in begun : k <= M
  BY <1>2, <1>3
<1>5. M \in 1..12 /\ S(M) <= day /\ \A m \in 1..12 : M < m => day < S(m)
  <2>1. M \in 1..12 /\ S(M) <= day
    BY <1>4
  <2>2. ASSUME NEW m \in 1..12, M < m PROVE day < S(m)
    <3>1. m \notin begun
      BY <1>4, <2>1, <2>2
    <3>2. QED
      BY <1>0, <1>1, <3>1
  <2>3. QED
    BY <2>1, <2>2
<1>6. day < S(M) + 31
  <2>1. CASE M = 12
    BY <1>0, <1>1, <1>5, <2>1 DEF LeapDay
  <2>2. CASE M # 12
    <3>1. M \in 1..11 /\ M + 1 \in 1..12 /\ M < M + 1
      BY <1>5, <2>2
    <3>2. S(M + 1) <= S(M) + 31 /\ day < S(M + 1) /\ S(M) \in Int /\ S(M + 1) \in Int
      BY <1>1, <1>5, <3>1
    <3>3. QED
      BY <1>0, <3>2
  <2>3. QED
    BY <2>1, <2>2
<1>7. /\ M \in 1..12 /\ DayNumber(y, M, 1) <= day
      /\ \A m \in 1..12 : M < m => day < DayNumber(y, m, 1)
  BY <1>1, <1>5
<1>8. DayOfMonth(day) = day - S(M) + 1
  BY <1>1, <1>5 DEF DayOfMonth, y, M
<1>9. DayOfMonth(day) \in Int /\ 1 <= DayOfMonth(day) /\ DayOfMonth(day) <= 31
  <2>1. S(M) \in Int
    BY <1>1, <1>5
  <2>2. QED
    BY <1>0, <1>5, <1>6, <1>8, <2>1
<1>10. QED
  BY <1>7, <1>9 DEF y, M

(* The packed date holds year, month and day apart, and a reader gets the  *)
(* day back.                                                               *)
LEMMA PackedDateFacts ==
  ASSUME NEW day, InDosRange(day)
  PROVE  /\ PackedDate(day) \in Nat /\ PackedDate(day) < 65536
         /\ PackedDate(day) = (Year(day) - 1980) * 512 + Month(day) * 32 + DayOfMonth(day)
         /\ PackedDate(day) \div 512 + 1980 = Year(day)
         /\ (PackedDate(day) \div 32) % 16 = Month(day)
         /\ PackedDate(day) % 32 = DayOfMonth(day)
<1> DEFINE y == Year(day) - 1980
           m == Month(day)
           d == DayOfMonth(day)
           p == y * 512 + m * 32 + d
<1>1. /\ y \in Int /\ 0 <= y /\ y <= 127 /\ m \in Int /\ 1 <= m /\ m <= 12
      /\ d \in Int /\ 1 <= d /\ d <= 31
  BY YearFacts, MonthFacts
<1>2. PackedDate(day) = p % 65536 /\ Year(day) = y + 1980
  BY YearFacts DEF PackedDate
<1> HIDE DEF y, m, d
<1>3. p \in Nat /\ p < 65536
  BY <1>1
<1>4. p \div 512 = y
  BY <1>1
<1>5. (p \div 32) % 16 = m
  BY <1>1
<1>6. p % 32 = d
  BY <1>1
<1>7. PackedDate(day) = p
  BY <1>2, <1>3
<1> HIDE DEF p
<1>8. QED
  BY <1>1, <1>2, <1>3, <1>4, <1>5, <1>6, <1>7 DEF m, d, y, p

LEMMA DayNumberType ==
  ASSUME NEW y \in Int, NEW m \in 1..12
  PROVE  /\ DayNumber(y, m, 1) \in Int
         /\ \A d \in Int : DayNumber(y, m, d) = DayNumber(y, m, 1) + d - 1
<1>1. YearStart(y) \in Int
  BY YearStarts
<1>2. MonthStart(y, m) \in Int
  BY MonthStartType
<1>3. QED
  BY <1>1, <1>2 DEF DayNumber

LEMMA DayReadBack ==
  ASSUME NEW day, InDosRange(day), NEW dos, dos.date = PackedDate(day)
  PROVE  ReadDay(dos) = day
<1> DEFINE y == Year(day)
           m == Month(day)
           d == DayOfMonth(day)
<1>1. ReadDay(dos) = DayNumber(y, m, d)
  BY PackedDateFacts DEF ReadDay
<1>2. y \in Int /\ m \in 1..12 /\ d \in Int /\ day \in Int
  BY YearFacts, MonthFacts DEF InDosRange
<1>3. d = day - DayNumber(y, m, 1) + 1
  BY DEF DayOfMonth
<1> HIDE DEF y, m, d
<1>4. DayNumber(y, m, 1) \in Int /\ DayNumber(y, m, d) = DayNumber(y, m, 1) + d - 1
  BY <1>2, DayNumberType
<1>5. QED
  BY <1>1, <1>2, <1>3, <1>4

(* An earlier day has the smaller packed date.                             *)
LEMMA PackedDateOrder ==
  ASSUME NEW c, NEW e, InDosRange(c), InDosRange(e), c < e
  PROVE  PackedDate(c) < PackedDate(e)
<1> DEFINE y == Year(c)
           z == Year(e)
           m == Month(c)
           n == Month(e)
<1>1. /\ y \in Int /\ z \in Int /\ YearStart(y) <= c /\ e < YearStart(z + 1)
      /\ m \in 1..12 /\ n \in 1..12
      /\ c \in Int /\ e \in Int
      /\ DayNumber(y, m, 1) <= c
      /\ \A k \in 1..12 : n < k => e < DayNumber(z, k, 1)
      /\ DayOfMonth(c) = c - DayNumber(y, m, 1) + 1
      /\ DayOfMonth(e) = e - DayNumber(z, n, 1) + 1
      /\ DayOfMonth(c) \in Int /\ 1 <= DayOfMonth(c) /\ DayOfMonth(c) <= 31
      /\ DayOfMonth(e) \in Int /\ 1 <= DayOfMonth(e) /\ DayOfMonth(e) <= 31
  BY YearFacts, MonthFacts DEF InDosRange, DayOfMonth
<1>2. /\ PackedDate(c) = (y - 1980) * 512 + m * 32 + DayOfMonth(c)
      /\ PackedDate(e) = (z - 1980) * 512 + n * 32 + DayOfMonth(e)
  BY PackedDateFacts
<1> HIDE DEF y, z, m, n
<1>3. YearStart(y) \in Int /\ YearStart(z + 1) \in Int
      /\ DayNumber(y, m, 1) \in Int /\ DayNumber(z, n, 1) \in Int
  <2>1. YearStart(y) \in Int /\ YearStart(z + 1) \in Int
    BY <1>1, YearStarts
  <2>2. DayNumber(y, m, 1) \in Int /\ DayNumber(z, n, 1) \in Int
    BY <1>1, DayNumberType
  <2>3. QED
    BY <2>1, <2>2
<1>4. y <= z
  <2>1. z < y => YearStart(z + 1) <= YearStart(y)
    BY <1>1, YearsGrow
  <2>2. QED
    BY <1>1, <1>3, <2>1
<1>5. CASE y < z
  BY <1>1, <1>2, <1>5
<1>6. CASE y = z
  <2>1. m <= n
    <3>1. n < m => e < DayNumber(y, m, 1)
      BY <1>1, <1>6
    <3>2. QED
      BY <1>1, <1>3, <3>1
  <2>2. CASE m < n
    BY <1>1, <1>2, <1>6, <2>2
  <2>3. CASE m = n
    <3>1. DayOfMonth(c) < DayOfMonth(e)
      BY <1>1, <1>3, <1>6, <2>3
    <3>2. QED
      BY <1>1, <1>2, <1>6, <2>3, <3>1
  <2>4. QED
    BY <1>1, <2>1, <2>2, <2>3
<1>7. QED
  BY <1>1, <1>4, <1>5, <1>6

(* Hours, minutes and two-second units of a day.                           *)
LEMMA Halves ==
  ASSUME NEW s \in Int, 0 <= s
  PROVE  /\ s % 2 \in Int /\ 0 <= s % 2 /\ s % 2 <= 1
         /\ s \div 2 \in Int /\ 0 <= s \div 2 /\ s = 2 * (s \div 2) + (s % 2)
OBVIOUS

LEMMA Sixtieths ==
  ASSUME NEW s \in Int, 0 <= s
  PROVE  /\ s % 60 \in Int /\ 0 <= s % 60 /\ s % 60 <= 59
         /\ s \div 60 \in Int /\ 0 <= s \div 60 /\ s = 60 * (s \div 60) + (s % 60)
OBVIOUS

LEMMA ClockParts ==
  ASSUME NEW sec \in Int, 0 <= sec, sec < 86400
  PROVE  LET h == sec \div 3600
             m == (sec \div 60) % 60
             x == (sec % 60) \div 2
         IN /\ h \in Int /\ 0 <= h /\ h <= 23 /\ m \in Int /\ 0 <= m /\ m <= 59
            /\ x \in Int /\ 0 <= x /\ x <= 29
            /\ h * 3600 + m * 60 + x * 2 = sec - (sec % 2)
<1> DEFINE h == sec \div 3600
           q == sec \div 60
           r == sec % 60
           g == q \div 60
           m == q % 60
           x == r \div 2
           b == r % 2
           a == sec % 2
           v == sec \div 2
<1>1. q \in Int /\ 0 <= q /\ r \in Int /\ 0 <= r /\ r <= 59 /\ sec = 60 * q + r
  BY Sixtieths
<1>2. a \in Int /\ 0 <= a /\ a <= 1 /\ v \in Int /\ sec = 2 * v + a
  BY Halves
<1>3. h \in Int /\ 3600 * h <= sec /\ sec < 3600 * h + 3600
  OBVIOUS
<1> HIDE DEF q, r, a, v, h
<1>4. g \in Int /\ 0 <= g /\ m \in Int /\ 0 <= m /\ m <= 59 /\ q = 60 * g + m
  BY <1>1, Sixtieths
<1>5. x \in Int /\ 0 <= x /\ b \in Int /\ 0 <= b /\ b <= 1 /\ r = 2 * x + b
  BY <1>1, Halves
<1> HIDE DEF g, m, x, b
<1>6. sec = 3600 * g + 60 * m + r
  BY <1>1, <1>4
<1>7. h = g
  BY <1>1, <1>3, <1>4, <1>6
<1>8. sec = 2 * (30 * q + x) + b
  BY <1>1, <1>5
<1>9. a = b
  BY <1>1, <1>2, <1>5, <1>8
<1>10. x <= 29 /\ h <= 23 /\ 0 <= h
  BY <1>1, <1>3, <1>4, <1>5, <1>7
<1>11. h * 3600 + m * 60 + x * 2 = sec - a
  BY <1>1, <1>3, <1>4, <1>5, <1>6, <1>7, <1>9
<1>12. QED
  BY <1>3, <1>4, <1>5, <1>10, <1>11 DEF h, m, x, a, q, r

(* The packed time, likewise, to its unit of two seconds.                  *)
LEMMA PackedTimeFacts ==
  ASSUME NEW sec \in DaySeconds, NEW dos, dos.time = PackedTime(sec)
  PROVE  /\ PackedTime(sec) \in Nat /\ PackedTime(sec) < 65536
         /\ ReadSec(dos) = sec - (sec % 2)
<1> DEFINE h == sec \div 3600
           m == (sec \div 60) % 60
           x == (sec % 60) \div 2
           p == h * 2048 + m * 32 + x
           e == sec - (sec % 2)
<1>0. sec \in Int /\ 0 <= sec /\ sec < 86400
  BY DEF DaySeconds
<1>1. /\ h \in Int /\ 0 <= h /\ h <= 23 /\ m \in Int /\ 0 <= m /\ m <= 59
      /\ x \in Int /\ 0 <= x /\ x <= 29
      /\ h * 3600 + m * 60 + x * 2 = e
  BY <1>0, ClockParts
<1>3. PackedTime(sec) = p
  BY DEF PackedTime
<1> HIDE DEF h, m, x, e
<1>4. p \in Nat /\ p < 65536
  BY <1>1
<1>5. p \div 2048 = h
  BY <1>1
<1>6. (p \div 32) % 64 = m
  <2>1. p \div 32 = h * 64 + m
    BY <1>1
  <2>2. (h * 64 + m) % 64 = m
    BY <1>1
  <2>3. QED
    BY <2>1, <2>2
<1>7. p % 32 = x
  BY <1>1
<1> HIDE DEF p
<1>8. ReadSec(dos) = h * 3600 + m * 60 + x * 2
  BY <1>3, <1>5, <1>6, <1>7 DEF ReadSec
<1>9. QED
  BY <1>1, <1>3, <1>4, <1>8 DEF e

LEMMA PackedTimeOrder ==
  ASSUME NEW s \in DaySeconds, NEW u \in DaySeconds
  PROVE  /\ s <= u => PackedTime(s) <= PackedTime(u)
         /\ s + 2 <= u => PackedTime(s) < PackedTime(u)
<1>0. s \in Int /\ 0 <= s /\ s < 86400 /\ u \in Int /\ 0 <= u /\ u < 86400
  BY DEF DaySeconds
<1> DEFINE h == s \div 3600
           m == (s \div 60) % 60
           x == (s % 60) \div 2
           k == u \div 3600
           n == (u \div 60) % 60
           z == (u % 60) \div 2
           a == s - (s % 2)
           b == u - (u % 2)
<1>1. /\ h \in Int /\ m \in Int /\ 0 <= m /\ m <= 59 /\ x \in Int /\ 0 <= x /\ x <= 29
      /\ h * 3600 + m * 60 + x * 2 = a
  BY <1>0, ClockParts
<1>2. /\ k \in Int /\ n \in Int /\ 0 <= n /\ n <= 59 /\ z \in Int /\ 0 <= z /\ z <= 29
      /\ k * 3600 + n * 60 + z * 2 = b
  BY <1>0, ClockParts
<1>3. /\ PackedTime(s) = h * 2048 + m * 32 + x
      /\ PackedTime(u) = k * 2048 + n * 32 + z
  BY DEF PackedTime
<1>4. a \in Int /\ b \in Int /\ (s <= u => a <= b) /\ (s + 2 <= u => a < b)
  <2> DEFINE c == s % 2
             d == s \div 2
             e == u % 2
             f == u \div 2
  <2>1. /\ c \in Int /\ 0 <= c /\ c <= 1 /\ d \in Int /\ s = 2 * d + c
        /\ e \in Int /\ 0 <= e /\ e <= 1 /\ f \in Int /\ u = 2 * f + e
    BY <1>0, Halves
  <2>2. a = s - c /\ b = u - e
    OBVIOUS
  <2> HIDE DEF a, b, c, d, e, f
  <2>3. QED
    BY <1>0, <2>1, <2>2
<1> HIDE DEF h, m, x, k, n, z, a, b
<1>5. a <= b => h * 2048 + m * 32 + x <= k * 2048 + n * 32 + z
  BY <1>1, <1>2, <1>4
<1>6. a < b => h * 2048 + m * 32 + x < k * 2048 + n * 32 + z
  BY <1>1, <1>2, <1>4
<1>7. QED
  BY <1>3, <1>4, <1>5, <1>6
-----------------------------------------------------------------------------
(* What the DOS fields of a header are, for every instant.                 *)
LEMMA ClampedFacts ==
  ASSUME NEW t \in InstantType
  PROVE  Clamped(t) \in InstantType /\ InDosRange(Clamped(t).day)
<1>1. t.day \in Int /\ t.sec \in DaySeconds
  BY DEF InstantType
<1>2. DosMin \in InstantType /\ DosMax \in InstantType
      /\ DosMin.day = 3652 /\ DosMax.day = 50402 /\ DosMin.sec = 0 /\ DosMax.sec = 86399
  BY DEF DosMin, DosMax, InstantType, DaySeconds
<1>3. CASE Before(t, DosMin)
  BY <1>2, <1>3 DEF Clamped, InDosRange
<1>4. CASE ~Before(t, DosMin) /\ Before(DosMax, t)
  BY <1>2, <1>4 DEF Clamped, InDosRange
<1>5. CASE ~Before(t, DosMin) /\ ~Before(DosMax, t)
  <2>1. 3652 <= t.day /\ t.day <= 50402
    BY <1>1, <1>2, <1>5 DEF Before
  <2>2. QED
    BY <1>1, <1>5, <2>1 DEF Clamped, InDosRange
<1>6. QED
  BY <1>3, <1>4, <1>5

LEMMA FieldsFacts ==
  ASSUME NEW t \in InstantType
  PROVE  /\ FieldsValid(UnixSecsToMsDos(t))
         /\ DosInstant(UnixSecsToMsDos(t)) = ToTheUnit(Clamped(t))
<1> DEFINE c   == Clamped(t)
           dos == UnixSecsToMsDos(t)
<1>1. c \in InstantType /\ InDosRange(c.day) /\ c.day \in Int /\ c.sec \in DaySeconds
  BY ClampedFacts DEF InstantType
<1>2. dos.date = PackedDate(c.day) /\ dos.time = PackedTime(c.sec)
  BY DEF UnixSecsToMsDos
<1> HIDE DEF c, dos
<1>3. ReadDay(dos) = c.day
  BY <1>1, <1>2, DayReadBack
<1>4. /\ ReadSec(dos) = c.sec - (c.sec % 2)
      /\ PackedTime(c.sec) \in Nat /\ PackedTime(c.sec) < 65536
  BY <1>1, <1>2, PackedTimeFacts
<1>5. FieldsValid(dos)
  <2>1. /\ dos.date \in Nat /\ dos.date < 65536
        /\ (dos.date \div 32) % 16 = Month(c.day) /\ dos.date % 32 = DayOfMonth(c.day)
    BY <1>1, <1>2, PackedDateFacts
  <2>2. /\ Month(c.day) \in 1..12
        /\ DayOfMonth(c.day) \in Int /\ 1 <= DayOfMonth(c.day) /\ DayOfMonth(c.day) <= 31
    BY <1>1, MonthFacts
  <2>3. ReadSec(dos) \in Nat /\ ReadSec(dos) < 86400
    BY <1>1, <1>4 DEF DaySeconds
  <2>4. QED
    BY <1>2, <1>4, <2>1, <2>2, <2>3 DEF FieldsValid
<1>6. DosInstant(dos) = ToTheUnit(c)
  <2>1. DosInstant(dos) = [day |-> c.day, sec |-> c.sec - (c.sec % 2)]
    BY <1>3, <1>4 DEF DosInstant
  <2> DEFINE e == c.sec - (c.sec % 2)
  <2>2. ToTheUnit(c) = [c EXCEPT !.sec = e]
    BY DEF ToTheUnit
  <2> HIDE DEF e
  <2>3. [c EXCEPT !.sec = e] = [day |-> c.day, sec |-> e]
    BY <1>1 DEF InstantType
  <2>4. QED
    BY <2>1, <2>2, <2>3 DEF e
<1>7. QED
  BY <1>5, <1>6 DEF c, dos

(* Conversion keeps the order of instants, and tells two seconds apart.    *)
LEMMA FieldsOrder ==
  ASSUME NEW c \in InstantType, NEW e \in InstantType,
         InDosRange(c.day), InDosRange(e.day), ~Before(e, c),
         NEW p, p = [date |-> PackedDate(c.day), time |-> PackedTime(c.sec)],
         NEW q, q = [date |-> PackedDate(e.day), time |-> PackedTime(e.sec)]
  PROVE  /\ PackedBefore(p, q) \/ p = q
         /\ c.day = e.day /\ c.sec + 2 <= e.sec => PackedBefore(p, q)
         /\ c.day < e.day => PackedBefore(p, q)
<1>1. /\ c.day \in Int /\ e.day \in Int /\ c.sec \in DaySeconds /\ e.sec \in DaySeconds
      /\ c.sec \in Int /\ e.sec \in Int
  BY DEF InstantType, DaySeconds
<1>2. c.day < e.day \/ (c.day = e.day /\ c.sec <= e.sec)
  BY <1>1 DEF Before
<1>3. c.day < e.day => p.date < q.date
  BY PackedDateOrder
<1>4. /\ c.day = e.day => p.date = q.date
      /\ c.sec <= e.sec => p.time <= q.time
      /\ c.sec + 2 <= e.sec => p.time < q.time
  BY <1>1, PackedTimeOrder
<1>5. p.time \in Int /\ q.time \in Int
  <2>1. PackedTime(c.sec) \in Nat /\ PackedTime(e.sec) \in Nat
    BY <1>1, PackedTimeFacts
  <2>2. QED
    BY <2>1
<1>6. p.date = q.date /\ p.time = q.time => p = q
  OBVIOUS
<1>7. QED
  BY <1>1, <1>2, <1>3, <1>4, <1>5, <1>6 DEF PackedBefore
-----------------------------------------------------------------------------
LEMMA LocalIs ==
  ASSUME TimesInv, local # <<>>
  PROVE  /\ mtime \in InstantType
         /\ local[1].dos = UnixSecsToMsDos(mtime)
         /\ local[1].utime = ExtendedTimestamp(SystemTimeToUnixSecs(mtime))
         /\ DOMAIN local = {1}
BY DEF TimesInv

LEMMA CentralIs ==
  ASSUME TimesInv, central # <<>>
  PROVE  /\ mtime \in InstantType
         /\ central[1].dos = UnixSecsToMsDos(SystemTimeToUnixSecs(mtime))
         /\ central[1].dos = UnixSecsToMsDos(mtime)
         /\ central[1].utime = ExtendedTimestamp(SystemTimeToUnixSecs(mtime))
         /\ DOMAIN central = {1}
<1>1. /\ mtime \in InstantType
      /\ central[1].dos = UnixSecsToMsDos(SystemTimeToUnixSecs(mtime))
      /\ central[1].utime = ExtendedTimestamp(SystemTimeToUnixSecs(mtime))
      /\ DOMAIN central = {1}
  BY DEF TimesInv
<1>2. QED
  BY <1>1, RecordedTimeConvertsAlike

LEMMA ExtendedFacts ==
  ASSUME NEW t \in InstantType
  PROVE  /\ ExtendedTimestamp(t) = <<>> \/ DOMAIN ExtendedTimestamp(t) = {1}
         /\ \A i \in DOMAIN ExtendedTimestamp(t) :
              /\ ExtendedTimestamp(t)[i] \in InstantType
              /\ ~Before(U32Last, ExtendedTimestamp(t)[i])
              /\ ~Before(U32Last, t) => ExtendedTimestamp(t)[i] = t
<1>1. /\ U32Last \in InstantType /\ U32Last.day \in Int /\ U32Last.sec \in Int
      /\ ~Before(U32Last, U32Last)
  BY DEF U32Last, InstantType, DaySeconds, Before
<1>2. QED
  BY <1>1 DEF ExtendedTimestamp

(* Every header that is written has a calendar date and a time of day in   *)
(* its 16-bit fields, and a timestamp of 32 bits.                          *)
THEOREM TimeTypeCorrect == Spec => []TypeOK
<1>1. TimesInv => TypeOK
  <2> SUFFICES ASSUME TimesInv PROVE TypeOK
    OBVIOUS
  <2>1. SystemTimeToUnixSecs(mtime) \in InstantType /\ SystemTimeToUnixSecs(mtime).day >= 0
    BY RecordedTime DEF TimesInv
  <2>2. mtime \in InstantType /\ FieldsValid(UnixSecsToMsDos(mtime))
    BY FieldsFacts DEF TimesInv
  <2>3. \A i \in DOMAIN local : HeaderOK(local[i])
    <3>1. CASE local = <<>>
      BY <3>1
    <3>2. CASE local # <<>>
      BY <2>1, <2>2, <3>2, LocalIs, ExtendedFacts DEF HeaderOK
    <3>3. QED
      BY <3>1, <3>2
  <2>4. \A i \in DOMAIN central : HeaderOK(central[i])
    <3>1. CASE central = <<>>
      BY <3>1
    <3>2. CASE central # <<>>
      BY <2>1, <2>2, <3>2, CentralIs, ExtendedFacts DEF HeaderOK
    <3>3. QED
      BY <3>1, <3>2
  <2>5. \A i \in DOMAIN unixMtime : unixMtime[i] \in InstantType /\ unixMtime[i].day >= 0
    BY <2>1 DEF TimesInv
  <2>6. QED
    BY <2>2, <2>3, <2>4, <2>5 DEF TypeOK
<1>2. QED
  BY <1>1, TimesAlways, PTL

(* For every instant, whatever month, leap year or century it falls in, a  *)
(* reader of the local header gets it back, to two seconds and clamped to  *)
(* the range of the DOS fields.                                            *)
THEOREM ClockAlwaysKept == Spec => []ClockKept
<1>1. TimesInv => ClockKept
  BY LocalIs, FieldsFacts DEF ClockKept
<1>2. QED
  BY <1>1, TimesAlways, PTL

LEMMA LaterFacts ==
  ASSUME NEW t \in InstantType
  PROVE  /\ Later(t, 2) \in InstantType
         /\ \/ Later(t, 2).day = t.day /\ Later(t, 2).sec = t.sec + 2
            \/ Later(t, 2).day = t.day + 1
<1> DEFINE s == t.sec + 2
           u == Later(t, 2)
<1>1. t.day \in Int /\ t.sec \in Int /\ 0 <= t.sec /\ t.sec < 86400
  BY DEF InstantType, DaySeconds
<1>2. u.day = t.day + (s \div 86400) /\ u.sec = s % 86400
      /\ u = [day |-> t.day + (s \div 86400), sec |-> s % 86400]
  BY DEF Later
<1>3. CASE s < 86400
  <2>1. s \div 86400 = 0 /\ s % 86400 = s
    BY <1>1, <1>3
  <2>2. QED
    BY <1>1, <1>2, <1>3, <2>1 DEF InstantType, DaySeconds
<1>4. CASE ~(s < 86400)
  <2>1. s \div 86400 = 1
    BY <1>1, <1>4
  <2>2. s % 86400 \in Nat /\ s % 86400 < 86400
    BY <1>1
  <2>3. QED
    BY <1>1, <1>2, <2>1, <2>2 DEF InstantType, DaySeconds
<1>5. QED
  BY <1>3, <1>4

(* The packed fields, compared as numbers, order the entries as their      *)
(* times do, and tell two instants of the range apart that are two seconds *)
(* from each other.                                                        *)
THEOREM OrderAlwaysKept == Spec => []OrderKept
<1>1. TimesInv => OrderKept
  <2> SUFFICES ASSUME TimesInv, local # <<>> PROVE OrderKept
    BY DEF OrderKept
  <2> DEFINE t == mtime
             u == Later(mtime, 2)
             c == Clamped(t)
             e == Clamped(u)
             p == UnixSecsToMsDos(t)
             q == UnixSecsToMsDos(u)
             Out == Before(t, DosMin) \/ Before(DosMax, u)
  <2>1. t \in InstantType /\ local[1].dos = p
    BY LocalIs
  <2>2. u \in InstantType /\ ((u.day = t.day /\ u.sec = t.sec + 2) \/ u.day = t.day + 1)
    BY <2>1, LaterFacts
  <2>3. /\ c \in InstantType /\ InDosRange(c.day) /\ e \in InstantType /\ InDosRange(e.day)
        /\ p = [date |-> PackedDate(c.day), time |-> PackedTime(c.sec)]
        /\ q = [date |-> PackedDate(e.day), time |-> PackedTime(e.sec)]
    BY <2>1, <2>2, ClampedFacts DEF UnixSecsToMsDos
  <2>4. /\ t.day \in Int /\ t.sec \in Int /\ u.day \in Int /\ u.sec \in Int
        /\ 0 <= t.sec /\ 0 <= u.sec /\ t.sec < 86400 /\ u.sec < 86400
        /\ DosMin.day = 3652 /\ DosMin.sec = 0 /\ DosMax.day = 50402 /\ DosMax.sec = 86399
    BY <2>1, <2>2 DEF InstantType, DaySeconds, DosMin, DosMax
  <2> HIDE DEF t, u, p, q
  <2>5. ~Before(e, c)
    <3>1. CASE Before(t, DosMin)
      BY <2>2, <2>4, <3>1 DEF Before, Clamped
    <3>2. CASE ~Before(t, DosMin) /\ Before(DosMax, t)
      BY <2>2, <2>4, <3>2 DEF Before, Clamped
    <3>3. CASE ~Before(t, DosMin) /\ ~Before(DosMax, t)
      BY <2>2, <2>4, <3>3 DEF Before, Clamped
    <3>4. QED
      BY <3>1, <3>2, <3>3
  <2>6. ~Out => c = t /\ e = u
    BY <2>2, <2>4 DEF Before, Clamped
  <2> HIDE DEF c, e, Out
  <2>7. PackedBefore(p, q) \/ p = q
    BY <2>3, <2>5, FieldsOrder
  <2>8. ~Out => PackedBefore(p, q)
    <3>1. ~Out => (c.day = e.day /\ c.sec + 2 <= e.sec) \/ c.day < e.day
      BY <2>2, <2>4, <2>6
    <3>2. QED
      BY <2>3, <2>5, <3>1, FieldsOrder
  <2>9. QED
    BY <2>1, <2>7, <2>8 DEF OrderKept, t, u, p, q, Out
<1>2. QED
  BY <1>1, TimesAlways, PTL

(* Where both can tell the time, the extended timestamp of the central     *)
(* header is the time in its DOS fields, but for the odd second.           *)
THEOREM ClocksAlwaysAgree == Spec => []ClocksAgree
<1>1. TimesInv => ClocksAgree
  <2> SUFFICES ASSUME TimesInv, central # <<>>, NEW i \in DOMAIN central[1].utime,
                      ~Before(mtime, DosMin), ~Before(U32Last, mtime)
               PROVE  ToTheUnit(central[1].utime[i]) = DosInstant(central[1].dos)
    BY DEF ClocksAgree
  <2>1. mtime \in InstantType /\ mtime.day \in Int /\ mtime.sec \in Int
    BY CentralIs DEF InstantType, DaySeconds
  <2>2. SystemTimeToUnixSecs(mtime) = mtime
    BY <2>1 DEF SystemTimeToUnixSecs, Before, DosMin
  <2>3. Clamped(mtime) = mtime
    BY <2>1 DEF Clamped, Before, DosMax, U32Last
  <2>4. central[1].utime[i] = mtime
    BY <2>1, <2>2, CentralIs, ExtendedFacts
  <2>5. QED
    BY <2>1, <2>3, <2>4, CentralIs, FieldsFacts
<1>2. QED
  BY <1>1, TimesAlways, PTL
=============================================================================
