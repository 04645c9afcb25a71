--------------------------- MODULE SchedulePresets ---------------------------
(***************************************************************************)
(* The schedule arithmetic of the script editor                             *)
(* (src/ui/src/features/scripts-manager/schedulePresets.ts): which preset   *)
(* a saved cron expression is shown as, which expression a preset writes,    *)
(* and whether the times of day an expression selects are far enough apart. *)
(*                                                                          *)
(* A cron expression is the sets of minutes and hours it selects and its    *)
(* day field; text that is no five-field expression is NoCron.  The length  *)
(* of a day and of an hour are parameters so that TLC can use short ones.   *)
(***************************************************************************)
EXTENDS Integers, FiniteSets

CONSTANTS
  DayHours,       \* 24
  HourMinutes,    \* 60
  MinInterval,    \* 15 minutes between two runs
  Days,           \* days of the month that may be selected
  NoCron          \* text that is not a cron expression, "" among it

ASSUME SchedulePresetsAssumption ==
  /\ DayHours \in Nat \ {0, 1}
  /\ HourMinutes \in Nat \ {0}
  /\ MinInterval \in Nat \ {0}
  /\ Days \subseteq Nat \ {0} /\ 1 \in Days

Hours   == 0..(DayHours - 1)
Minutes == 0..(HourMinutes - 1)

AnyDay == 0          \* "*" in the day field

Cron == [minutes: (SUBSET Minutes) \ {{}}, hours: (SUBSET Hours) \ {{}},
         day: Days \cup {AnyDay}]

NoTime == <<>>       \* a time input that was cleared
Time == (Hours \X Minutes) \cup {NoTime}

\* slots: the minutes of the day at which the expression fires
Slots(cron) == {h * HourMinutes + m : h \in cron.hours, m \in cron.minutes}

\* The run after the last one of the day is left out (mutant).
NextSlotSameDay(slots, s) ==
  LET later == {t \in slots : t > s}
  IN IF later = {} THEN s + DayHours * HourMinutes
     ELSE CHOOSE t \in later : \A u \in later : t <= u

\* The slot after s; after the last one, the first of the next day.
NextSlot(slots, s) ==
  LET later == {t \in slots : t > s}
      first == CHOOSE t \in slots : \A u \in slots : t <= u
  IN IF later = {} THEN first + DayHours * HourMinutes
     ELSE CHOOSE t \in later : \A u \in later : t <= u

MeetsMinimumInterval(cron) ==
  \A s \in Slots(cron) : NextSlot(Slots(cron), s) - s >= MinInterval

\* What the interval is for: on any two days in a row, two different runs are
\* never closer than the minimum.
Spaced(cron) ==
  \A s, t \in Slots(cron), day \in {0, 1} :
    LET gap == t + day * DayHours * HourMinutes - s
    IN gap > 0 => gap >= MinInterval

Numeric(cron) == Cardinality(cron.minutes) = 1 /\ Cardinality(cron.hours) = 1

TheOnly(set) == CHOOSE x \in set : TRUE

\* An expression with a day stays "cron": it is never taken for monthly.
SchedulePreset(type, cron) ==
  IF type /= "cron" THEN type
  ELSE IF cron /= NoCron /\ cron \in [minutes: SUBSET Minutes, hours: SUBSET Hours, day: {AnyDay}]
          /\ Numeric(cron)
       THEN "daily" ELSE "cron"

PresetCron(preset, time, day) ==
  IF time = NoTime THEN NoCron
  ELSE [minutes |-> {time[2]}, hours |-> {time[1]},
        day |-> IF preset = "monthly" THEN day ELSE AnyDay]

\* The time that the controls of a daily or monthly preset show.
CronTime(cron) == <<TheOnly(cron.hours), TheOnly(cron.minutes)>>
=============================================================================
