---------------------------- MODULE ScheduleTime ----------------------------
(***************************************************************************)
(* compute_next_recurring_run_at of orchestrator.rs: the instant at which  *)
(* a recurring template is due next, after a given one.  Instants are      *)
(* minutes since 1970-01-01 00:00 UTC (the code's seconds are always 0),   *)
(* months count from 0 as in struct tm.                                    *)
(*                                                                         *)
(* The state is a schedule and an instant; a step moves on to the next.    *)
(***************************************************************************)
EXTENDS Integers, FiniteSets

CONSTANTS
  Schedule,   \* the schedules tried
  StartDay,   \* days since 1970 from which they are started
  StartTime,  \* times of day (minutes) at which they are started
  LastDay     \* bound: the day a schedule is followed to

(* A row of rwo_templates holds any numbers, or none, and any word. *)
ScheduleRow == [cadence : STRING, interval : Int, hour : Int, minute : Int,
                daysOfWeek : SUBSET Int, dayOfMonth : Int]

ASSUME ScheduleAssumption ==
  /\ Schedule \subseteq ScheduleRow
  /\ StartDay \subseteq Nat /\ StartTime \subseteq Nat /\ LastDay \in Nat

VARIABLES sched, instant

schedVars == <<sched, instant>>

Hour == 60
Day == 24 * Hour
Unset == -1     \* an Option that is None

Leap(y) == (y % 4 = 0 /\ y % 100 # 0) \/ y % 400 = 0

DaysInMonth(y, m) ==
  CASE m \in {0, 2, 4, 6, 7, 9, 11} -> 31
    [] m \in {3, 5, 8, 10} -> 30
    [] m = 1 -> IF Leap(y) THEN 29 ELSE 28
    [] OTHER -> 30

(* timegm and gmtime_r of the C library: months past December run into the
   next year, days past the end of a month into the next month. *)
YearStart(y) == 365 * (y - 1970) + (y - 1969) \div 4 - (y - 1901) \div 100 + (y - 1601) \div 400
MonthStart(y, m) ==
  YearStart(y) + <<0, 31, 59, 90, 120, 151, 181, 212, 243, 273, 304, 334>>[m + 1]
    + (IF m > 1 /\ YearStart(y + 1) - YearStart(y) = 366 THEN 1 ELSE 0)
TimeGm(y, m, d, time) == (MonthStart(y + m \div 12, m % 12) + d - 1) * Day + time

YearOf(t) ==
  CHOOSE y \in 1970 + (t \div Day) \div 366 .. 1970 + (t \div Day) \div 365 :
    YearStart(y) <= t \div Day /\ t \div Day < YearStart(y + 1)
MonthOf(t) == CHOOSE m \in 0 .. 11 :
                /\ MonthStart(YearOf(t), m) <= t \div Day
                /\ m < 11 => t \div Day < MonthStart(YearOf(t), m + 1)
DayOfMonth(t) == t \div Day - MonthStart(YearOf(t), MonthOf(t)) + 1
Weekday(t) == (t \div Day + 4) % 7

Clamp(x, lo, hi) == IF x < lo THEN lo ELSE IF x > hi THEN hi ELSE x
OrElse(x, default) == IF x = Unset THEN default ELSE x
Least(x, y) == IF x < y THEN x ELSE y

-----------------------------------------------------------------------------
(* sanitize_schedule_day; no days means Monday. *)
SanitizeDay(d) == Clamp(d, 0, 6)
Weekdays(s) == IF s.daysOfWeek = {} THEN {1} ELSE {SanitizeDay(d) : d \in s.daysOfWeek}
TimeOfDay(s) == Clamp(OrElse(s.hour, 9), 0, 23) * Hour + Clamp(OrElse(s.minute, 0), 0, 59)
Interval(s) == IF s.interval < 1 THEN 1 ELSE s.interval

Midnight(t) == t - (t % Day)

NextHourly(s, from) ==
  LET candidate == from - (from % Hour) + Clamp(OrElse(s.minute, 0), 0, 59)
  IN IF candidate <= from THEN candidate + Hour * Interval(s) ELSE candidate

(* The first of the next days of the week that fits; the interval only bounds
   the search. *)
NextWeekly(s, from) ==
  LET candidates == {Midnight(from) + k * Day + TimeOfDay(s) : k \in 0 .. 7 * Interval(s)}
      good == {c \in candidates : c > from /\ Weekday(c) \in Weekdays(s)}
  IN IF good = {} THEN from + 7 * Interval(s) * Day
     ELSE CHOOSE c \in good : \A o \in good : c <= o

(* The day of this month, or else of the month that interval months after the
   candidate run into. *)
MonthlyDay(s, t) == Clamp(OrElse(s.dayOfMonth, DayOfMonth(t)), 1, 31)
InMonthOf(s, t, day) ==
  LET y == YearOf(t)  m == MonthOf(t)
  IN TimeGm(y, m, Least(day, DaysInMonth(y, m)), TimeOfDay(s))

NextMonthly(s, from) ==
  LET day == MonthlyDay(s, from)
      candidate == InMonthOf(s, from, day)
      later == TimeGm(YearOf(candidate), MonthOf(candidate) + Interval(s),
                      DayOfMonth(candidate), TimeOfDay(s))
  IN IF candidate <= from THEN InMonthOf(s, later, day) ELSE candidate

MutNextDaily(s, from) ==
  LET candidate == Midnight(from) + TimeOfDay(s)
  IN IF candidate < from THEN candidate + Day * Interval(s) ELSE candidate
NextDaily(s, from) ==
  LET candidate == Midnight(from) + TimeOfDay(s)
  IN IF candidate <= from THEN candidate + Day * Interval(s) ELSE candidate

NextRunAfter(s, from) ==
  CASE s.cadence = "hourly" -> NextHourly(s, from)
    [] s.cadence = "weekly" -> NextWeekly(s, from)
    [] s.cadence = "monthly" -> NextMonthly(s, from)
    [] OTHER -> NextDaily(s, from)   \* "daily", "custom" and any other word

-----------------------------------------------------------------------------
SchedInit ==
  /\ sched \in Schedule
  /\ instant \in {d * Day + t : d \in StartDay, t \in StartTime}

SchedNext ==
  /\ instant \div Day < LastDay
  /\ instant' = NextRunAfter(sched, instant)
  /\ UNCHANGED sched

SchedSpec == SchedInit /\ [][SchedNext]_schedVars

-----------------------------------------------------------------------------
(* What a schedule asks for: an instant it fits. *)
Fits(s, t) ==
  CASE s.cadence = "hourly" -> t % Hour = TimeOfDay(s) % Hour
    [] s.cadence = "weekly" -> t % Day = TimeOfDay(s) /\ Weekday(t) \in Weekdays(s)
    [] s.cadence = "monthly" ->
         /\ t % Day = TimeOfDay(s)
         /\ DayOfMonth(t) = MonthlyDay(s, instant) \/
            (/\ DayOfMonth(t) < MonthlyDay(s, instant)
             /\ MonthOf(t + Day) # MonthOf(t))
    [] OTHER -> t % Day = TimeOfDay(s)

(* The instants of the schedule's time of day between two others. *)
Between(s, a, b) ==
  IF s.cadence = "hourly"
  THEN {t \in {Midnight(a) + h * Hour + (TimeOfDay(s) % Hour) : h \in 0 .. 47} : a < t /\ t < b}
  ELSE {t \in {d * Day + TimeOfDay(s) : d \in a \div Day .. b \div Day} : a < t /\ t < b}

(* The day of the month is missing in the month after this one. *)
ShortMonthNext(s, t) ==
  LET y == YearOf(t)  m == MonthOf(t)
  IN MonthlyDay(s, t) > DaysInMonth(y + (m + 1) \div 12, (m + 1) % 12)

(* The next run lies strictly after the instant it is computed from (so that
   an advanced template is no longer due), on an instant the schedule fits;
   with an interval of one, and for a week whatever the interval, none is left
   out, except by a monthly schedule whose day is missing in the next month,
   which passes that month over. *)
NextRunFits ==
  LET next == NextRunAfter(sched, instant) IN
  /\ next > instant
  /\ Fits(sched, next)
  /\ \/ sched.cadence # "weekly" /\ Interval(sched) > 1
     \/ sched.cadence = "monthly" /\ ShortMonthNext(sched, instant)
     \/ \A t \in Between(sched, instant, next) : ~Fits(sched, t)
=============================================================================
