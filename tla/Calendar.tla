------------------------------ MODULE Calendar ------------------------------
(***************************************************************************)
(* time.c: the conversions between seconds and dates, the static results   *)
(* that gmtime, localtime, asctime and ctime share, and a caller that      *)
(* sleeps until sleep returns zero.                                        *)
(*                                                                         *)
(* A minute has SECONDS seconds, an hour MINUTES minutes, a day HOURS      *)
(* hours: 60, 60 and 24 in the code, less here so that the years around    *)
(* 2000 and 2100 are within TLC's integers.  Time is in seconds, sleep in  *)
(* TICKS of a second.                                                      *)
(***************************************************************************)
EXTENDS Integers, Sequences, FiniteSetsExt

CONSTANTS
  SECONDS, MINUTES, HOURS, TICKS,
  LastYear,      \* bound: the year the loops over years go to
  Time,          \* the times asked about
  MaxConversions,\* bound: conversions in a behaviour
  Asked,         \* the seconds a caller sleeps
  MaxSignals     \* bound: interruptions of a sleep

FirstYear == 1970

ASSUME UnitsAssumption == {SECONDS, MINUTES, HOURS, TICKS} \subseteq Nat \ {0}
ASSUME YearsAssumption == LastYear \in Nat /\ LastYear >= FirstYear
ASSUME AskedAssumption == Asked \subseteq Nat

Day == SECONDS * MINUTES * HOURS

VARIABLES
  gmResult,      \* gmtime's static struct tm
  localResult,   \* localtime's
  buf,           \* asctime's static text, as the fields it prints
  lastGm, lastLocal, lastText,   \* the times they were last asked for
  conversions,   \* conversions made
  wanted,        \* seconds a caller wants to sleep
  slept,         \* ticks it has slept
  remaining,     \* seconds it still asks for
  signals        \* times it was interrupted

dateVars == <<gmResult, localResult, buf, lastGm, lastLocal, lastText, conversions>>
sleepVars == <<wanted, slept, remaining, signals>>
calendarVars == <<dateVars, sleepVars>>

-----------------------------------------------------------------------------
(* C division truncates; the remainder has the sign of the dividend.       *)
Quot(a, b) == IF a >= 0 THEN a \div b ELSE -((-a) \div b)
Rem(a, b) == a - b * Quot(a, b)

(* Mutant of Leap. *)
LeapEveryFourth(year) == year % 4 = 0

Leap(year) == year % 4 = 0 /\ (year % 100 # 0 \/ year % 400 = 0)
YearDays(year) == IF Leap(year) THEN 366 ELSE 365
MonthDays == <<31, 28, 31, 30, 31, 30, 31, 31, 30, 31, 30, 31>>
MonthLength(year, month) == MonthDays[month + 1] + (IF month = 1 /\ Leap(year) THEN 1 ELSE 0)

(* gmtime_r: seconds, minutes and hours are divided off, then whole years  *)
(* and whole months are taken off the days.                                *)
TakeYears[y \in FirstYear..LastYear] ==
  [days \in Int |->
     IF y = LastYear \/ days < YearDays(y) THEN <<y, days>> ELSE TakeYears[y + 1][days - YearDays(y)]]
TakeMonths(year) ==
  LET Take[m \in 0..11] ==
        [days \in Int |->
           IF m = 11 \/ days < MonthLength(year, m) THEN <<m, days>>
           ELSE Take[m + 1][days - MonthLength(year, m)]]
  IN Take
gmtime_r(time) ==
  LET minutes == Quot(time, SECONDS)
      hours == Quot(minutes, MINUTES)
      days == Quot(hours, HOURS)
      year == TakeYears[FirstYear][days]
      month == TakeMonths(year[1])[0][year[2]]
  IN [sec |-> Rem(time, SECONDS), min |-> Rem(minutes, MINUTES), hour |-> Rem(hours, HOURS),
      wday |-> Rem(days + 4, 7), yday |-> 0,
      year |-> year[1] - 1900, mon |-> month[1], mday |-> month[2] + 1]

localtime_r(time) == gmtime_r(time)

(* mktime: the days of the years before, of the months before and of the   *)
(* month.                                                                  *)
BeforeMonth == <<0, 31, 59, 90, 120, 151, 181, 212, 243, 273, 304, 334>>
BeforeYear[y \in FirstYear..LastYear] == IF y = FirstYear THEN 0 ELSE BeforeYear[y - 1] + YearDays(y - 1)
mktime(tm) ==
  LET year == tm.year + 1900
      days == BeforeYear[year] + BeforeMonth[tm.mon + 1]
              + (IF tm.mon > 1 /\ Leap(year) THEN 1 ELSE 0) + tm.mday - 1
  IN days * Day + (tm.hour * MINUTES + tm.min) * SECONDS + tm.sec

(* asctime_r prints every field but yday, the names through % 7 and % 12.  *)
asctime_r(tm) == <<Rem(tm.wday, 7), tm.mon % 12, tm.mday, tm.hour, tm.min, tm.sec, tm.year + 1900>>

-----------------------------------------------------------------------------
CalendarInit ==
  /\ gmResult = gmtime_r(0) /\ localResult = gmtime_r(0) /\ buf = asctime_r(gmtime_r(0))
  /\ lastGm = 0 /\ lastLocal = 0 /\ lastText = 0 /\ conversions = 0
  /\ wanted = 0 /\ slept = 0 /\ remaining = 0 /\ signals = 0

Asking ==
  /\ wanted = 0 /\ conversions < MaxConversions
  /\ conversions' = conversions + 1 /\ UNCHANGED sleepVars

Gmtime(t) ==
  /\ Asking /\ gmResult' = gmtime_r(t) /\ lastGm' = t
  /\ UNCHANGED <<localResult, buf, lastLocal, lastText>>

Localtime(t) ==
  /\ Asking /\ localResult' = localtime_r(t) /\ lastLocal' = t
  /\ UNCHANGED <<gmResult, buf, lastGm, lastText>>

(* asctime of the date gmtime or localtime left.                           *)
Asctime ==
  /\ Asking
  /\ \/ buf' = asctime_r(gmResult) /\ lastText' = lastGm
     \/ buf' = asctime_r(localResult) /\ lastText' = lastLocal
  /\ UNCHANGED <<gmResult, localResult, lastGm, lastLocal>>

(* ctime goes through localtime, and leaves the date there as well.        *)
Ctime(t) ==
  /\ Asking /\ localResult' = localtime_r(t) /\ lastLocal' = t
  /\ buf' = asctime_r(localResult') /\ lastText' = t
  /\ UNCHANGED <<gmResult, lastGm>>

(* ctime_r writes the caller's text, but its date is localtime's static.   *)
CtimeR(t) ==
  /\ Asking /\ localResult' = localtime_r(t) /\ lastLocal' = t
  /\ UNCHANGED <<gmResult, buf, lastGm, lastText>>

-----------------------------------------------------------------------------
(* sleep(seconds): nanosleep finishes, or a signal leaves a rest of which  *)
(* sleep returns the whole seconds.  The caller sleeps again for those.    *)
StartSleep(n) ==
  /\ conversions = 0 /\ wanted = 0 /\ wanted' = n /\ remaining' = n
  /\ UNCHANGED <<dateVars, slept, signals>>

SleepReturns(rest) == rest \div TICKS

Sleep ==
  /\ remaining > 0
  /\ \E rest \in 0..remaining * TICKS :
       /\ rest > 0 => signals < MaxSignals
       /\ signals' = IF rest > 0 THEN signals + 1 ELSE signals
       /\ slept' = slept + remaining * TICKS - rest
       /\ remaining' = SleepReturns(rest)
  /\ UNCHANGED <<dateVars, wanted>>

CalendarNext ==
  \/ \E t \in Time : Gmtime(t) \/ Localtime(t) \/ Ctime(t) \/ CtimeR(t)
  \/ Asctime
  \/ \E n \in Asked : StartSleep(n)
  \/ Sleep

CalendarSpec == CalendarInit /\ [][CalendarNext]_calendarVars

-----------------------------------------------------------------------------
(* The proleptic Gregorian calendar in closed form: the number of a day,   *)
(* with the year beginning in March.                                       *)
DayNumber(year, month, mday) ==
  LET y == IF month < 3 THEN year - 1 ELSE year
      m == (month + 9) % 12
  IN 365 * y + y \div 4 - y \div 100 + y \div 400 + (153 * m + 2) \div 5 + mday - 1
Epoch == DayNumber(FirstYear, 1, 1)

(* The bound on years holds for the times asked about and for the epoch.   *)
IsFollowed(time) == time \in Int /\ time < (DayNumber(LastYear + 1, 1, 1) - Epoch) * Day
ASSUME TimeAssumption == \A t \in Time \cup {0} : IsFollowed(t)

(* tm is the date of time: from the epoch on in normal form, with the day  *)
(* of the week; before it the fields are negative, and still add up.       *)
IsDateOf(tm, time) ==
  /\ mktime(tm) = time
  /\ time >= 0 =>
       /\ tm.sec \in 0..SECONDS - 1 /\ tm.min \in 0..MINUTES - 1 /\ tm.hour \in 0..HOURS - 1
       /\ tm.mon \in 0..11 /\ tm.mday \in 1..MonthLength(tm.year + 1900, tm.mon)
       /\ DayNumber(tm.year + 1900, tm.mon + 1, tm.mday) - Epoch = time \div Day
       /\ tm.wday = (time \div Day + 4) % 7

(* Every static result is the date of the last time asked of a function    *)
(* that shares it (localtime with ctime and ctime_r), by a formula for the *)
(* calendar that the loops over years and months do not use; mktime takes  *)
(* it back to that time, and the text names the same day.                  *)
Tells(text, time) ==
  time >= 0 =>
    /\ DayNumber(text[7], text[2] + 1, text[3]) - Epoch = time \div Day
    /\ text[1] = (time \div Day + 4) % 7
    /\ (text[4] * MINUTES + text[5]) * SECONDS + text[6] = time % Day
DatesReadBack ==
  IsDateOf(gmResult, lastGm) /\ IsDateOf(localResult, lastLocal) /\ Tells(buf, lastText)

(* A caller that sleeps again for what sleep returns has slept what it     *)
(* asked for, less than one second short for each interruption.            *)
SleepsLongEnough ==
  wanted * TICKS - (slept + remaining * TICKS) \in 0..signals * (TICKS - 1)

(* Dates and sleeps agree with the times that were asked for.              *)
TimesAgree == DatesReadBack /\ SleepsLongEnough
=============================================================================
