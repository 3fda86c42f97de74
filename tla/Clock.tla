------------------------------- MODULE Clock -------------------------------
(***************************************************************************)
(* The system clock (kernel/time.c): uptime counted by the timer, the time *)
(* at boot, the time zone, and the conversion to date and weekday.  Time   *)
(* counts in minutes, of a clock reading the seconds are left out.  int64  *)
(* and the int of the year do not overflow; division truncates as in C.    *)
(*                                                                         *)
(* ntp_sync does not wait for an answer: it converts the transmit time of  *)
(* its own request, 0, which puts the clock back to the year 1900.         *)
(***************************************************************************)
EXTENDS Integers, Sequences

CONSTANTS
  NtpEpoch,      \* minutes from 1900 to 1970
  Ticks,         \* minutes that pass from one look at the clock to the next
  Zones,         \* offsets of time zones
  Observed       \* bound: local times that are looked at, in days

ASSUME ClockAssumption == NtpEpoch \in Nat /\ Ticks \subseteq Nat /\ Zones \subseteq Int

VARIABLES
  system_time,              \* system_time_ms
  unix_timestamp,
  timezone_offset_minutes

clock == <<system_time, unix_timestamp, timezone_offset_minutes>>

Day == 1440

Quot(a, b) == IF a >= 0 THEN a \div b ELSE -((-a) \div b)
Rem(a, b)  == a - b * Quot(a, b)

Leap_every4(year) == year % 4 = 0                                        \* slip

Leap(year) == (year % 4 = 0 /\ year % 100 # 0) \/ year % 400 = 0

DaysInYear(year) == IF Leap(year) THEN 366 ELSE 365

DaysInMonth(year) ==
  <<31, IF Leap(year) THEN 29 ELSE 28, 31, 30, 31, 30, 31, 31, 30, 31, 30, 31>>

\* The loop over the years, until the days do not fill one
Years == [year : Nat, days : Int]

YearLoop[s \in Years] ==
  IF s.days < DaysInYear(s.year) THEN s
  ELSE YearLoop[[year |-> s.year + 1, days |-> s.days - DaysInYear(s.year)]]

\* The loop over the months: the days left in each, those before it taken off, and
\* the first that they do not fill
DaysLeft(y) ==
  LET left[month \in 1 .. 12] ==
        IF month = 1 THEN y.days ELSE left[month - 1] - DaysInMonth(y.year)[month - 1]
  IN  left

Filled(y, month) == DaysLeft(y)[month] >= DaysInMonth(y.year)[month]

MonthLoop(y) ==
  CHOOSE month \in 1 .. 12 : ~Filled(y, month) /\ \A m \in 1 .. month - 1 : Filled(y, m)

\* unix_to_datetime, of a timestamp in local time and of one that is not
DateOf(local) ==
  LET y == YearLoop[[year |-> 1970, days |-> Quot(local, Day)]]
  IN  [year |-> y.year, month |-> MonthLoop(y), day |-> DaysLeft(y)[MonthLoop(y)] + 1,
       hour |-> Quot(Rem(local, Day), 60), minute |-> Rem(Rem(local, Day), 60)]

DateTime(timestamp) == DateOf(timestamp + timezone_offset_minutes)

Now == unix_timestamp + system_time

\* get_current_time
CurrentTime == DateTime(Now)

\* get_day_of_week: Zeller's congruence, 0 is Sunday
DayOfWeek(dt) ==
  LET m == IF dt.month < 3 THEN dt.month + 12 ELSE dt.month
      y == IF dt.month < 3 THEN dt.year - 1 ELSE dt.year
      h == Rem(dt.day + Quot(13 * (m + 1), 5) + y + Quot(y, 4) - Quot(y, 100) + Quot(y, 400), 7)
  IN  Rem(h + 6, 7)

ClockInit == system_time = 0 /\ unix_timestamp = 0 /\ timezone_offset_minutes = 0

Local == Now + timezone_offset_minutes

TimerTicks(n) ==
  /\ Quot(Local + n, Day) \in Observed
  /\ system_time' = system_time + n
  /\ UNCHANGED <<unix_timestamp, timezone_offset_minutes>>

NtpSync ==
  /\ unix_timestamp' = 0 - NtpEpoch
  /\ UNCHANGED <<system_time, timezone_offset_minutes>>

\* time_init, which ends with ntp_sync
TimeInit ==
  /\ system_time' = 0 /\ timezone_offset_minutes' = 0
  /\ unix_timestamp' = 0 - NtpEpoch

DhcpSetTimezone(offset) ==
  /\ timezone_offset_minutes' = offset
  /\ UNCHANGED <<system_time, unix_timestamp>>

ClockNext ==
  \/ \E n \in Ticks : TimerTicks(n)
  \/ NtpSync \/ TimeInit
  \/ \E offset \in Zones : DhcpSetTimezone(offset)

ClockSpec == ClockInit /\ [][ClockNext]_clock

(***************************************************************************)
(* The calendar, without the arithmetic of the code: the day after a date. *)
(***************************************************************************)
Thirty == {4, 6, 9, 11}

LengthOf(month, year) ==
  IF month = 2 THEN IF year % 400 = 0 \/ (year % 4 = 0 /\ year % 100 # 0) THEN 29 ELSE 28
  ELSE IF month \in Thirty THEN 30 ELSE 31

NextDate(d) ==
  IF d.day < LengthOf(d.month, d.year) THEN [d EXCEPT !.day = @ + 1]
  ELSE IF d.month < 12 THEN [d EXCEPT !.day = 1, !.month = @ + 1]
  ELSE [d EXCEPT !.day = 1, !.month = 1, !.year = @ + 1]

Date(dt) == [year |-> dt.year, month |-> dt.month, day |-> dt.day]

(***************************************************************************)
(* From 1970 on in local time, whether time passes or the zone changes:    *)
(* when a midnight goes by, the date becomes the next of the calendar and  *)
(* the weekday the next of the week, over leap years, ends of months and   *)
(* the centuries; at other times both stay, and within a day the clock     *)
(* shows the time that has passed since midnight.                          *)
(***************************************************************************)
DatesFollow ==
  [][Local' # Local /\ Local >= 0 /\ Local' >= 0 =>
       LET old == CurrentTime
           new == CurrentTime'
       IN  /\ Local' \div Day = Local \div Day + 1 =>
                /\ Date(new) = NextDate(Date(old))
                /\ DayOfWeek(new) = (DayOfWeek(old) + 1) % 7
           /\ Local' \div Day = Local \div Day =>
                Date(new) = Date(old) /\ DayOfWeek(new) = DayOfWeek(old)
           /\ Local' % Day = new.hour * 60 + new.minute
           /\ new.hour \in 0 .. 23 /\ new.minute \in 0 .. 59]_clock
=============================================================================
