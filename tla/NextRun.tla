-------------------------------- MODULE NextRun --------------------------------
(***************************************************************************)
(* The calendar of schedules: which minutes a schedule selects in its time   *)
(* zone (is_due), and the next of them (next_run), which the scheduler page  *)
(* shows and which finds it by dates and times of day instead of by minutes. *)
(*                                                                          *)
(* Time is a number of minutes; a zone is the offset of each.  Hours, days,  *)
(* weeks and months are of the lengths that the constants give.              *)
(***************************************************************************)
EXTENDS Integers, Sequences, FiniteSetsExt

CONSTANTS
  NoRun,
  Hour, Day, Week,  \* minutes of an hour and of a day, days of a week
  MonthDays,        \* for each month of the calendar its days
  Zones,            \* for each zone the offsets of the minutes
  CalendarSchedules \* schedules: see Field

ASSUME CalendarAssumption ==
  /\ {Hour, Day, Week} \subseteq Nat \ {0} /\ Day % Hour = 0
  /\ MonthDays \in Seq(Nat \ {0})
  /\ \A s \in CalendarSchedules : s.type \in {"hourly", "monthly", "cron"}

\* The time that the clocks of a zone show at a minute.
Shown(zone, u) == u + zone[u]

\* When the clocks go back, it is to times that they showed before.
ASSUME ZonesAssumption ==
  \A zone \in Zones :
    /\ Max(DOMAIN zone) \in Nat /\ zone \in [0..Max(DOMAIN zone) -> Int]
    /\ \A u, v \in DOMAIN zone :
         u < v /\ Shown(zone, v) <= Shown(zone, u) => \E w \in 0..(v - 1) : Shown(zone, w) = Shown(zone, v)

VARIABLES
  schedule,   \* a saved schedule and its zone
  after       \* the minute of the question

calendarVars == <<schedule, after>>

Minutes == DOMAIN schedule.zone
Least(S) == IF S = {} THEN NoRun ELSE Min(S)

(***************************************************************************)
(* Local time (zoneinfo)                                                    *)
(***************************************************************************)
Local(u)    == Shown(schedule.zone, u)
MinuteOfHour(l) == l % Hour
HourOf(l) == (l % Day) \div Hour
DateOf(l) == l \div Day

\* The local time is had for the second time.
Fold(u) == \E v \in Minutes : v < u /\ Local(v) = Local(u)

\* With fold zero; a time that the clocks skip is taken with the offset before.
ToUtc(l) ==
  IF \E u \in Minutes : Local(u) = l THEN Min({u \in Minutes : Local(u) = l})
  ELSE l - schedule.zone[Max({u \in Minutes : Local(u) < l})]

FirstDate(month) == FoldFunctionOnSet(LAMBDA days, sum : days + sum, 0, MonthDays, 1..(month - 1))
MonthOf(date)    == Max({m \in DOMAIN MonthDays : FirstDate(m) <= date})
DayOfMonth(date) == date - FirstDate(MonthOf(date)) + 1
LastOfMonth(date) == MonthDays[MonthOf(date)]
Weekday(date)    == date % Week

(***************************************************************************)
(* Schedules                                                                *)
(***************************************************************************)
\* A cron field: its items <<from, to, step>>, and whether it is only a star.
Field(star, items) == [star |-> star, items |-> items]

FieldMatches(field, value) ==
  \E item \in field.items :
    item[1] <= value /\ value <= item[2] /\ (value - item[1]) % item[3] = 0

\* Sunday is 0, and also the week's number of days.
WeekdayMatches(field, value) == FieldMatches(field, value) \/ (value = 0 /\ FieldMatches(field, Week))

\* Either of the two days is enough, unless one of them is a star.
CronDate(s, date) ==
  LET dom == FieldMatches(s.day, DayOfMonth(date))
      dow == WeekdayMatches(s.weekday, Weekday(date))
  IN /\ IF s.day.star \/ s.weekday.star THEN dom /\ dow ELSE dom \/ dow
     /\ FieldMatches(s.month, MonthOf(date))

\* A day beyond the month's last is its last.
MonthlyDate(s, date) ==
  DayOfMonth(date) = (IF s.day < LastOfMonth(date) THEN s.day ELSE LastOfMonth(date))

IsDue(s, u) ==
  LET l == Local(u)
  IN ~Fold(u) /\ CASE s.type = "hourly"  -> MinuteOfHour(l) = s.minute
                   [] s.type = "monthly" -> MinuteOfHour(l) = s.minute /\ HourOf(l) = s.hour
                                            /\ MonthlyDate(s, DateOf(l))
                   [] s.type = "cron"    -> CronDate(s, DateOf(l)) /\ FieldMatches(s.minute, MinuteOfHour(l))
                                            /\ FieldMatches(s.hour, HourOf(l))

\* Both days are asked for, as if one of them were a star (mutant).
BothDays(s, date) ==
  CASE s.type = "hourly"  -> TRUE
    [] s.type = "monthly" -> MonthlyDate(s, date)
    [] s.type = "cron"    -> /\ FieldMatches(s.day, DayOfMonth(date))
                             /\ WeekdayMatches(s.weekday, Weekday(date))
                             /\ FieldMatches(s.month, MonthOf(date))

DateMatches(s, date) ==
  CASE s.type = "hourly"  -> TRUE
    [] s.type = "monthly" -> MonthlyDate(s, date)
    [] s.type = "cron"    -> CronDate(s, date)

TimeMatches(s, l) ==
  CASE s.type = "hourly"  -> MinuteOfHour(l) = s.minute
    [] s.type = "monthly" -> MinuteOfHour(l) = s.minute /\ HourOf(l) = s.hour
    [] s.type = "cron"    -> FieldMatches(s.minute, MinuteOfHour(l)) /\ FieldMatches(s.hour, HourOf(l))

(***************************************************************************)
(* The next run                                                             *)
(***************************************************************************)
\* Skipped times are not told from others (mutant).
LaterEvenSkipped(s, l, u) == ToUtc(l) > u

\* A time that the clocks skip does not come back from UTC as it was.
Later(s, l, u) == ToUtc(l) > u /\ Local(ToUtc(l)) = l

LocalTimes == {l \in Min({Local(u) : u \in Minutes})..Max({Local(u) : u \in Minutes}) : ToUtc(l) \in Minutes}

\* Dates from that of the question on, and on each the times in their order: the
\* first that is later, and due.
NextOf(s, u) ==
  LET found == {l \in LocalTimes : /\ DateOf(l) >= DateOf(Local(u))
                                   /\ DateMatches(s, DateOf(l)) /\ TimeMatches(s, l)
                                   /\ Later(s, l, u) /\ IsDue(s, ToUtc(l))}
  IN IF s.enabled /\ found /= {} THEN ToUtc(Min(found)) ELSE NoRun

CalendarInit ==
  /\ \E s \in CalendarSchedules, zone \in Zones : schedule = [saved |-> s, zone |-> zone]
  /\ after = 0

\* The question is asked at each minute.
MinutePasses ==
  /\ after + 1 \in Minutes /\ after' = after + 1
  /\ UNCHANGED schedule

CalendarNext == MinutePasses
CalendarSpec == CalendarInit /\ [][CalendarNext]_calendarVars

\* What the scheduler page tells is the first minute the scheduler registers, through
\* skipped and repeated hours and days and through short months: the two rules agree.
NextRunIsFirstDue ==
  NextOf(schedule.saved, after) =
    IF schedule.saved.enabled
    THEN Least({u \in Minutes : u > after /\ IsDue(schedule.saved, u)})
    ELSE NoRun
=============================================================================
