------------------------------- MODULE Scheduler -------------------------------
(***************************************************************************)
(* The registration of scheduled runs (register_due_jobs with due_minutes),  *)
(* by several replicas of the API, beside administrators who save scripts.   *)
(*                                                                          *)
(* The clock counts half minutes: minute m begins at instant 2 * m.  A       *)
(* schedule is the set of minutes it selects (NextRun has the calendar).     *)
(* A pass is one transaction: its time is that of its beginning, and it      *)
(* holds the advisory lock from its first statement to its end.  A save      *)
(* locks its script's row from the stamp of its author to its commit.        *)
(***************************************************************************)
EXTENDS Integers, FiniteSets

CONSTANTS
  Never,        \* no time, no transaction
  Registered,   \* scripts
  FirstScripts, \* the rows the registration may begin with
  Replicas,     \* API processes, numbered; supervise runs one pass at a time in each
  Schedules,    \* schedules that may be saved: sets of minutes
  Malformed,    \* a stored schedule or command that cannot be evaluated
  CatchUp,      \* minutes looked back at most: 5
  LastInstant,  \* bound: the clock
  MaxSaves,     \* bound: saves
  MaxAborts     \* bound: passes that fail

ASSUME SchedulerAssumption ==
  /\ Never \notin Int /\ CatchUp \in Nat \ {0}
  /\ \A minutes \in Schedules : minutes \subseteq Nat
  /\ {LastInstant, MaxSaves, MaxAborts} \subseteq Nat

\* enabled: active, schedule_enabled, and of version 4.  at: schedule_updated_at,
\* which is set with schedule_updated_by.
Version == [selects: (SUBSET Nat) \cup {Malformed}, enabled: BOOLEAN,
            at: 0..LastInstant \cup {Never}, committed: 0..LastInstant]

\* What there is at first was saved before.
ASSUME FirstScriptsAssumption ==
  /\ FirstScripts \subseteq [Registered -> Version]
  /\ \A f \in FirstScripts : \A s \in Registered : f[s].committed = 0 /\ f[s].at \in {0, Never}

VARIABLES
  clock,
  scripts,      \* rows: what is selected, whether it is enabled, when it was saved
  saving,       \* for each script the save that has its row's lock, or Never
  lastChecked,  \* maintenance_tasks.last_checked
  passes,       \* for each replica its pass: its time and, with the lock, its rows
  occurrences,  \* the jobs with scheduled_for, and the save they name as author
  skipped,      \* history: minutes no pass looks at any more
  history,      \* history: for each script its committed versions
  saves, aborts \* counters

scheduleVars == <<clock, scripts, saving, lastChecked, passes, occurrences, skipped, history, saves, aborts>>

MinuteOf(t) == t \div 2
Begins(m)   == 2 * m
Horizon     == 0..MinuteOf(LastInstant)

SchedulerInit ==
  /\ clock = 0
  /\ scripts \in FirstScripts
  /\ saving = [s \in Registered |-> Never]
  /\ lastChecked = Never /\ passes = [r \in Replicas |-> Never]
  /\ occurrences = {} /\ skipped = {}
  /\ history = [s \in Registered |-> {scripts[s]}]
  /\ saves = 0 /\ aborts = 0

ClockAdvances ==
  /\ clock < LastInstant /\ clock' = clock + 1
  /\ UNCHANGED <<scripts, saving, lastChecked, passes, occurrences, skipped, history, saves, aborts>>

(***************************************************************************)
(* Saves                                                                    *)
(***************************************************************************)
\* update_script, and upgrade_script_configuration, which disables: the row is
\* locked, then the author is stamped.  A request is validated: it is well formed.
SaveBegins ==
  /\ saves < MaxSaves /\ saves' = saves + 1
  /\ \E s \in Registered, minutes \in Schedules, on \in BOOLEAN :
       /\ saving[s] = Never
       /\ saving' = [saving EXCEPT ![s] = [selects |-> minutes, enabled |-> on, at |-> clock]]
  /\ UNCHANGED <<clock, scripts, lastChecked, passes, occurrences, skipped, history, aborts>>

SaveCommits(s) ==
  /\ saving[s] /= Never
  /\ scripts' = [scripts EXCEPT ![s] = [selects |-> saving[s].selects, enabled |-> saving[s].enabled,
                                        at |-> saving[s].at, committed |-> clock]]
  /\ history' = [history EXCEPT ![s] = @ \cup {scripts'[s]}]
  /\ saving' = [saving EXCEPT ![s] = Never]
  /\ UNCHANGED <<clock, lastChecked, passes, occurrences, skipped, saves, aborts>>

\* The request is refused or its transaction is lost.
SaveFails(s) ==
  /\ saving[s] /= Never /\ saving' = [saving EXCEPT ![s] = Never]
  /\ UNCHANGED <<clock, scripts, lastChecked, passes, occurrences, skipped, history, saves, aborts>>

(***************************************************************************)
(* Passes                                                                   *)
(***************************************************************************)
Selects(v, m) == v.selects /= Malformed /\ m \in v.selects

Locked == \E r \in Replicas : passes[r] /= Never /\ passes[r].rows /= Never

\* SET LOCAL begins the transaction, whose CURRENT_TIMESTAMP is this time.
PassBegins(r) ==
  /\ passes[r] = Never
  /\ passes' = [passes EXCEPT ![r] = [now |-> clock, rows |-> Never]]
  /\ UNCHANGED <<clock, scripts, saving, lastChecked, occurrences, skipped, history, saves, aborts>>

\* pg_try_advisory_xact_lock: the lock is another's.
PassReturns(r) ==
  /\ passes[r] /= Never /\ passes[r].rows = Never /\ Locked
  /\ passes' = [passes EXCEPT ![r] = Never]
  /\ UNCHANGED <<clock, scripts, saving, lastChecked, occurrences, skipped, history, saves, aborts>>

Selected(s) == scripts[s].enabled /\ scripts[s].at /= Never

\* The rows the statement finds; it waits for those that are being saved.
PassSelects(r) ==
  /\ passes[r] /= Never /\ passes[r].rows = Never /\ ~Locked
  /\ passes' = [passes EXCEPT ![r].rows = {s \in Registered : Selected(s)}]
  /\ UNCHANGED <<clock, scripts, saving, lastChecked, occurrences, skipped, history, saves, aborts>>

\* The minute after the last pass is left out (mutant).
StartAfterNext(last, end) ==
  IF last = Never THEN end
  ELSE IF MinuteOf(last) + 2 > end - (CatchUp - 1) THEN MinuteOf(last) + 2 ELSE end - (CatchUp - 1)

Start(last, end) ==
  IF last = Never THEN end
  ELSE IF MinuteOf(last) + 1 > end - (CatchUp - 1) THEN MinuteOf(last) + 1 ELSE end - (CatchUp - 1)

\* Whatever was saved since (mutant).
DueRetroactively(v, now) ==
  IF v.selects = Malformed THEN {}
  ELSE v.selects \cap (Start(lastChecked, MinuteOf(now))..MinuteOf(now))

\* due_minutes
Due(v, now) ==
  IF v.selects = Malformed THEN {}
  ELSE {m \in v.selects \cap (Start(lastChecked, MinuteOf(now))..MinuteOf(now)) : Begins(m) >= v.at}

\* The cursor alone tells what was registered (mutant).
NotAsked(s, m) == TRUE

Unregistered(s, m) == \A o \in occurrences : o.script /= s \/ o.minute /= m

\* One script that cannot be evaluated ends the pass for all (mutant).
EvaluatedAll(rows, now) ==
  IF \E s \in rows : scripts[s].selects = Malformed THEN {}
  ELSE {[script |-> p[1], minute |-> p[2], author |-> scripts[p[1]].at, now |-> now] :
          p \in {q \in rows \X Horizon : q[2] \in Due(scripts[q[1]], now) /\ Unregistered(q[1], q[2])}}

\* Each script in a savepoint of its own, whose failure loses what is due of it.
Evaluated(rows, now) ==
  {[script |-> p[1], minute |-> p[2], author |-> scripts[p[1]].at, now |-> now] :
     p \in {q \in rows \X Horizon : q[2] \in Due(scripts[q[1]], now) /\ Unregistered(q[1], q[2])}}

\* The rows are read as they are once their locks are had.
PassCommits(r) ==
  /\ passes[r] /= Never /\ passes[r].rows /= Never
  /\ \A s \in passes[r].rows : saving[s] = Never
  /\ LET now == passes[r].now
     IN /\ occurrences' = occurrences \cup Evaluated({s \in passes[r].rows : Selected(s)}, now)
        /\ skipped' = skipped \cup {m \in Horizon :
                        IF lastChecked = Never THEN m < MinuteOf(now)
                        ELSE m > MinuteOf(lastChecked) /\ m <= MinuteOf(now) - CatchUp}
        /\ lastChecked' = now
  /\ passes' = [passes EXCEPT ![r] = Never]
  /\ UNCHANGED <<clock, scripts, saving, history, saves, aborts>>

\* A lock or statement timeout, a lost connection, a process that stops.
PassAborts(r) ==
  /\ passes[r] /= Never /\ aborts < MaxAborts /\ aborts' = aborts + 1
  /\ passes' = [passes EXCEPT ![r] = Never]
  /\ UNCHANGED <<clock, scripts, saving, lastChecked, occurrences, skipped, history, saves>>

\* One script that cannot be evaluated fails the pass (mutant).
OneFailsAll(r) ==
  \/ PassBegins(r) \/ PassReturns(r) \/ PassSelects(r)
  \/ PassCommits(r) /\ \A s \in passes[r].rows : scripts[s].selects /= Malformed

PassStep(r) == PassBegins(r) \/ PassReturns(r) \/ PassSelects(r) \/ PassCommits(r)

SchedulerNext ==
  \/ ClockAdvances \/ SaveBegins
  \/ \E s \in Registered : SaveCommits(s) \/ SaveFails(s)
  \/ \E r \in Replicas : PassStep(r) \/ PassAborts(r)

\* supervise starts a pass every fifteen seconds in each replica; transactions end.
SchedulerProgress(i) ==
  \/ i = 1 /\ ClockAdvances
  \/ i = 2 /\ \E s \in Registered : SaveCommits(s)
  \/ i - 2 \in Replicas /\ PassStep(i - 2)

SchedulerFairness == \A i \in 1..(2 + Cardinality(Replicas)) : WF_scheduleVars(SchedulerProgress(i))

SchedulerSpec == SchedulerInit /\ [][SchedulerNext]_scheduleVars /\ SchedulerFairness

(***************************************************************************)
(* Properties                                                               *)
(***************************************************************************)
ScheduleTypeOK ==
  /\ clock \in 0..LastInstant /\ lastChecked \in 0..clock \cup {Never}
  /\ scripts \in [Registered -> Version]
  /\ \A r \in Replicas : passes[r] /= Never => passes[r].now \in 0..clock
  /\ skipped \subseteq Horizon
  /\ \A o \in occurrences : o.script \in Registered /\ o.minute \in Horizon /\ o.now \in 0..clock

\* A due minute of a script becomes one job (unique script/time index), even when a
\* pass that began earlier ends later and sets the cursor back.
OccurrenceOnce ==
  \A o, q \in occurrences : o.script = q.script /\ o.minute = q.minute => o = q

\* A job is of a version that was saved before its minute and selected it, names its
\* author, and no version committed before that minute had replaced or disabled it
\* ("Edits apply only prospectively", docs/registered-schedules.md).
OnlyAsSaved ==
  \A o \in occurrences :
    LET versions == history[o.script]
    IN \E v \in versions :
         /\ v.at = o.author /\ v.enabled /\ Selects(v, o.minute) /\ v.at <= Begins(o.minute)
         /\ \A w \in versions : w.committed < Begins(o.minute) => w.at = Never \/ w.at <= v.at

\* A minute that was due by a version which is still the saved one, committed before
\* the minute began, has its job once a pass went beyond it, unless it was skipped:
\* whatever other scripts are, whoever ran the pass, however late it was.
DueIsRegistered ==
  lastChecked /= Never =>
    \A s \in Registered, m \in Horizon :
      LET v == scripts[s]
      IN /\ v.enabled /\ v.at /= Never /\ Selects(v, m) /\ v.committed < Begins(m)
         /\ m \notin skipped /\ m <= MinuteOf(lastChecked)
         => ~Unregistered(s, m)

\* Passes go on, whichever of them fail or come too late: the time of the last is
\* that of the clock.
PassesAreCurrent == lastChecked = LastInstant
PassesGoOn == <>[]PassesAreCurrent
=============================================================================
