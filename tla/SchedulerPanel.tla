---------------------------- MODULE SchedulerPanel ----------------------------
(***************************************************************************)
(* The health of the scheduler on the administration pages                   *)
(* (SchedulerStatus.tsx over GET /scheduler/status): each maintenance task   *)
(* records its last success, the server judges its age, the page words the   *)
(* judgement and asks again every thirty seconds until a reading fails.      *)
(*                                                                          *)
(* A task is known by the age of its last success: None, "recent" or "old".  *)
(* The page is opened for one office, or for all.                            *)
(***************************************************************************)
EXTENDS Naturals, Browser

CONSTANTS
  Tasks,            \* the maintenance tasks
  MaxStatusChanges, \* bound: changes of what the server would answer
  MaxStatusErrors,  \* bound: readings that fail
  MaxOpenings       \* bound: times the page is opened

ASSUME SchedulerPanelAssumption ==
  {MaxStatusChanges, MaxStatusErrors, MaxOpenings} \subseteq Nat /\ None \notin {"recent", "old"}

VARIABLES
  enabled, ages,    \* the setting, and the rows of maintenance_tasks
  health,           \* the query: what is shown, the reading under way, the failure
  open,
  statusChanges, statusErrors, openings  \* counters

schedulerVars == <<enabled, ages, health, open, statusChanges, statusErrors, openings>>

\* scheduler_status
HealthNow == [enabled |-> enabled, tasks |-> [t \in DOMAIN ages |-> ages[t] = "recent"]]

\* Without tasks too (mutant)
TitleOfAny(h) ==
  IF ~h.enabled THEN "disabled" ELSE IF \A t \in DOMAIN h.tasks : h.tasks[t] THEN "running" ELSE "needs attention"

Title(h) ==
  IF ~h.enabled THEN "disabled"
  ELSE IF h.tasks /= <<>> /\ \A t \in DOMAIN h.tasks : h.tasks[t] THEN "running" ELSE "needs attention"

ShownHealth ==
  IF health.failed THEN "unavailable" ELSE IF health.data = None THEN "checking" ELSE Title(health.data)

SchedulerPanelInit ==
  /\ enabled = TRUE /\ ages = <<>> /\ open = FALSE
  /\ health = [data |-> None, reading |-> None, failed |-> FALSE]
  /\ statusChanges = 0 /\ statusErrors = 0 /\ openings = 0

(***************************************************************************)
(* The server                                                               *)
(***************************************************************************)
StatusChange == statusChanges < MaxStatusChanges /\ statusChanges' = statusChanges + 1

\* A task is registered, succeeds, or has not for two minutes.
TaskAges ==
  /\ StatusChange
  /\ \E t \in Tasks, a \in {"recent", "old", None} :
       /\ IF t \in DOMAIN ages THEN a \notin {None, ages[t]} ELSE a /= "old"
       /\ ages' = [x \in DOMAIN ages \cup {t} |-> IF x = t THEN a ELSE ages[x]]
  /\ UNCHANGED <<enabled, health, open, statusErrors, openings>>

\* Restarted with the scheduler on or off
SwitchScheduler ==
  /\ StatusChange /\ enabled' = ~enabled
  /\ UNCHANGED <<ages, health, open, statusErrors, openings>>

(***************************************************************************)
(* The page                                                                 *)
(***************************************************************************)
Asked(q) == [q EXCEPT !.reading = HealthNow]

\* An errored query without data is not read on mount.
OpenScheduler ==
  /\ ~open /\ openings < MaxOpenings /\ openings' = openings + 1 /\ open' = TRUE
  /\ health' = IF health.reading = None /\ ~(health.failed /\ health.data = None) THEN Asked(health) ELSE health
  /\ UNCHANGED <<enabled, ages, statusChanges, statusErrors>>

CloseScheduler ==
  /\ open /\ open' = FALSE
  /\ UNCHANGED <<enabled, ages, health, statusChanges, statusErrors, openings>>

\* No reading after one that arrived (mutant)
PollsOnce == open /\ ~health.failed /\ health.reading = None /\ health.data = None

Polls == open /\ ~health.failed /\ health.reading = None

PollScheduler ==
  /\ Polls /\ health' = Asked(health)
  /\ UNCHANGED <<enabled, ages, open, statusChanges, statusErrors, openings>>

\* Refresh scheduler status, or the connection comes back
RefreshScheduler ==
  /\ open /\ health.failed /\ health.reading = None /\ health' = Asked(health)
  /\ UNCHANGED <<enabled, ages, open, statusChanges, statusErrors, openings>>

HealthArrives ==
  /\ health.reading /= None
  /\ health' = [data |-> health.reading, reading |-> None, failed |-> FALSE]
  /\ UNCHANGED <<enabled, ages, open, statusChanges, statusErrors, openings>>

HealthFails ==
  /\ health.reading /= None /\ statusErrors < MaxStatusErrors /\ statusErrors' = statusErrors + 1
  /\ health' = [health EXCEPT !.reading = None, !.failed = TRUE]
  /\ UNCHANGED <<enabled, ages, open, statusChanges, openings>>

SchedulerPanelNext ==
  \/ TaskAges \/ SwitchScheduler \/ OpenScheduler \/ CloseScheduler
  \/ PollScheduler \/ RefreshScheduler \/ HealthArrives \/ HealthFails

\* The interval runs while the tab is visible; a reading ends.
SchedulerProgress(i) ==
  \/ i = 1 /\ PollScheduler
  \/ i = 2 /\ (HealthArrives \/ HealthFails)
SchedulerPanelFairness == \A i \in 1..2 : WF_schedulerVars(SchedulerProgress(i))

SchedulerPanelSpec == SchedulerPanelInit /\ [][SchedulerPanelNext]_schedulerVars /\ SchedulerPanelFairness

(***************************************************************************)
(* Properties                                                               *)
(***************************************************************************)
\* Shape of the state, and of what is told: without an error on show the scheduler is
\* called running only if some task had recorded a success.
SchedulerTypeOK ==
  /\ enabled \in BOOLEAN /\ open \in BOOLEAN
  /\ DOMAIN ages \subseteq Tasks /\ \A t \in DOMAIN ages : ages[t] \in {None, "recent", "old"}
  /\ ShownHealth = "running" => \E t \in DOMAIN ages : ages[t] /= None

\* A scheduler that stays in trouble, or gets well and stays so, is told as it is on a
\* page that stays open, unless the page says that it can not know (refetchInterval,
\* which a failure ends, and the title).
SchedulerSettles ==
  []<>(ShownHealth \in {Title(HealthNow), "unavailable"} \/ ~open)
=============================================================================
