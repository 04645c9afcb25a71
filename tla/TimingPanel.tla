------------------------------ MODULE TimingPanel ------------------------------
(***************************************************************************)
(* When a script runs next and how it ran last, beside its settings and in   *)
(* its row of the list (ScheduleTiming.tsx and ScheduleSummary of            *)
(* ScriptsList.tsx over GET /scripts/{id}/schedule-status).  Both observe    *)
(* one query, kept for the version of the script that the list holds, and    *)
(* ask again every thirty seconds until a reading fails.                     *)
(*                                                                          *)
(* A version of the script is known by its updated_time, counted, and by     *)
(* whether it runs automatically; its next run is that of its version.       *)
(***************************************************************************)
EXTENDS Naturals, Browser

CONSTANTS
  MaxRevisions, \* bound: saves
  MaxFinished,  \* bound: runs that finish
  MaxGlances,   \* bound: what the user does
  MaxTimingErrors \* bound: requests that fail

ASSUME TimingPanelAssumption ==
  /\ {MaxRevisions, MaxFinished, MaxGlances, MaxTimingErrors} \subseteq Nat /\ MaxRevisions >= 1
  /\ None \notin [rev: Nat, automatic: BOOLEAN] /\ None \notin [rev: Nat, next: BOOLEAN, finished: Nat]

VARIABLES
  script,     \* the script on the server: [rev, automatic]
  finished,   \* its runs that are over
  cached,     \* the script in the list of this page
  saving,     \* answer of a save of this page that is under way, or None
  relisting,  \* answer of a reading of the list that is under way, or None
  timings,    \* for each version asked for [data, reading, failed]
  section,    \* the section shown: its schedule, or another
  row,        \* whether the search leaves the script in the list
  glances, timingErrors \* counters

timingVars == <<script, finished, cached, saving, relisting, timings, section, row, glances, timingErrors>>

NoTiming == [data |-> None, reading |-> None, failed |-> FALSE]

\* The timing is kept for the script, whichever version it is of (mutant).
KeyOfAnyVersion(s) == 1

\* queryKey
TimingKey(s) == s.rev

\* script_schedule_status
TimingNow == [rev |-> script.rev, next |-> script.automatic, finished |-> finished]

\* Who observes the query: the row of an automatic script, the section of the schedule
RowObserves(s, r)     == r /\ s.automatic
SectionObserves(sec)  == sec = "schedule"
Observing(s, sec, r)  == RowObserves(s, r) \/ SectionObserves(sec)
TimingObserved              == Observing(cached, section, row)

Timing(k) == IF k \in DOMAIN timings THEN timings[k] ELSE NoTiming

Asks(ts, k) ==
  [j \in DOMAIN ts \cup {k} |->
     IF j /= k THEN ts[j]
     ELSE IF k \notin DOMAIN ts THEN [NoTiming EXCEPT !.reading = TimingNow]
     ELSE IF ts[k].reading /= None THEN ts[k] ELSE [ts[k] EXCEPT !.reading = TimingNow]]

\* An observer that mounts, or comes to another key, asks unless the first reading failed.
Mounts(ts, s) ==
  IF TimingKey(s) \in DOMAIN ts /\ ts[TimingKey(s)].failed /\ ts[TimingKey(s)].data = None THEN ts ELSE Asks(ts, TimingKey(s))

TimingPanelInit ==
  /\ script \in [rev : {1}, automatic : BOOLEAN] /\ finished = 0 /\ cached = script
  /\ saving = None /\ relisting = None /\ section = "source" /\ row = TRUE
  /\ timings = IF script.automatic THEN [k \in {1} |-> [NoTiming EXCEPT !.reading = TimingNow]] ELSE << >>
  /\ glances = 0 /\ timingErrors = 0

(***************************************************************************)
(* What the page tells                                                      *)
(***************************************************************************)
Told(q) ==
  IF q.failed THEN "unavailable"
  ELSE IF q.data = None THEN "loading"
  ELSE IF q.data.next THEN "time"
  ELSE IF cached.automatic THEN "no occurrence" ELSE "manual"

(***************************************************************************)
(* The server                                                               *)
(***************************************************************************)
Saves == script.rev < MaxRevisions /\ \E a \in BOOLEAN : script' = [rev |-> script.rev + 1, automatic |-> a]

\* A save, a toggle or an upgrade of this page, or of another administrator
SaveHere ==
  /\ saving = None /\ Saves /\ saving' = script'
  /\ UNCHANGED <<finished, cached, relisting, timings, section, row, glances, timingErrors>>

SaveElsewhere ==
  Saves /\ UNCHANGED <<finished, cached, saving, relisting, timings, section, row, glances, timingErrors>>

RunEnds ==
  /\ finished < MaxFinished /\ finished' = finished + 1
  /\ UNCHANGED <<script, cached, saving, relisting, timings, section, row, glances, timingErrors>>

(***************************************************************************)
(* The list                                                                 *)
(***************************************************************************)
\* Another version of the script is not asked about (mutant).
ListsOnly(s, ts) == cached' = s /\ timings' = ts

\* The script of the list becomes s; ts are the timings until then.
Lists(s, ts) ==
  /\ cached' = s
  /\ timings' = IF Observing(s, section, row) /\ (TimingKey(s) /= TimingKey(cached) \/ ~TimingObserved) THEN Mounts(ts, s) ELSE ts

\* invalidateQueries: the timing that is observed is asked for anew, also when a reading
\* of it was under way.
Invalidated ==
  [k \in DOMAIN timings |->
     IF TimingObserved /\ k = TimingKey(cached) THEN [timings[k] EXCEPT !.reading = TimingNow] ELSE timings[k]]

SaveAnswered ==
  /\ saving /= None /\ saving' = None /\ Lists(saving, Invalidated)
  /\ UNCHANGED <<script, finished, relisting, section, row, glances, timingErrors>>

AskList ==
  /\ relisting = None /\ glances < MaxGlances /\ glances' = glances + 1 /\ relisting' = script
  /\ UNCHANGED <<script, finished, cached, saving, timings, section, row, timingErrors>>

\* Also after an answer of a save that the reading did not see
ListAnswered ==
  /\ relisting /= None /\ relisting' = None /\ Lists(relisting, timings)
  /\ UNCHANGED <<script, finished, saving, section, row, glances, timingErrors>>

(***************************************************************************)
(* The page                                                                 *)
(***************************************************************************)
Glance == glances < MaxGlances /\ glances' = glances + 1

Shows(sec, r) ==
  /\ section' = sec /\ row' = r
  /\ timings' = IF \/ RowObserves(cached, r) /\ ~RowObserves(cached, row)
                   \/ SectionObserves(sec) /\ ~SectionObserves(section)
                THEN Mounts(timings, cached) ELSE timings
  /\ UNCHANGED <<script, finished, cached, saving, relisting, timingErrors>>

ShowSection == Glance /\ Shows(IF section = "schedule" THEN "source" ELSE "schedule", row)
SearchList  == Glance /\ Shows(section, ~row)

\* The page asks until it has an answer (mutant).
PollsUntilRead(q) == ~q.failed /\ q.data = None

\* refetchInterval
PollsTiming(q) == ~q.failed

PollTiming ==
  /\ TimingObserved /\ PollsTiming(Timing(TimingKey(cached))) /\ Timing(TimingKey(cached)).reading = None
  /\ timings' = Asks(timings, TimingKey(cached))
  /\ UNCHANGED <<script, finished, cached, saving, relisting, section, row, glances, timingErrors>>

TimingArrives ==
  /\ \E k \in DOMAIN timings :
       /\ timings[k].reading /= None
       /\ timings' = [timings EXCEPT ![k] = [data |-> timings[k].reading, reading |-> None, failed |-> FALSE]]
  /\ UNCHANGED <<script, finished, cached, saving, relisting, section, row, glances, timingErrors>>

TimingFails ==
  /\ timingErrors < MaxTimingErrors /\ timingErrors' = timingErrors + 1
  /\ \E k \in DOMAIN timings :
       /\ timings[k].reading /= None
       /\ timings' = [timings EXCEPT ![k].reading = None, ![k].failed = TRUE]
  /\ UNCHANGED <<script, finished, cached, saving, relisting, section, row, glances>>

TimingPanelNext ==
  \/ SaveHere \/ SaveElsewhere \/ RunEnds \/ SaveAnswered \/ AskList \/ ListAnswered
  \/ ShowSection \/ SearchList \/ PollTiming \/ TimingArrives \/ TimingFails

\* The interval runs while the tab is visible, and requests end: each timing that is being
\* read is answered or refused.
TimingEnds(k) ==
  /\ k \in DOMAIN timings
  /\ TimingArrives \/ TimingFails
  /\ timings[k].reading /= timings'[k].reading
TimingProgress(i) ==
  \/ i = 1 /\ PollTiming
  \/ i = 2 /\ SaveAnswered
  \/ i = 3 /\ ListAnswered
  \/ \E k \in 1..MaxRevisions : i = 3 + k /\ TimingEnds(k)
TimingPanelFairness == \A i \in 1..(3 + MaxRevisions) : WF_timingVars(TimingProgress(i))

TimingPanelSpec == TimingPanelInit /\ [][TimingPanelNext]_timingVars /\ TimingPanelFairness

(***************************************************************************)
(* Properties                                                               *)
(***************************************************************************)
\* Shape of the state; what is observed is always asked for, answered or refused.
TimingTypeOK ==
  /\ script.rev \in 1..MaxRevisions /\ cached.rev \in 1..script.rev /\ section \in {"source", "schedule"}
  /\ DOMAIN timings \subseteq 1..MaxRevisions
  /\ TimingObserved => Timing(TimingKey(cached)) /= NoTiming

\* The next run told beside the settings is never that of settings before them, whatever
\* order saves, lists and timings are answered in (updatedTime in the key).
NextOfSettings ==
  TimingObserved /\ Told(Timing(TimingKey(cached))) \notin {"loading", "unavailable"} =>
    /\ Timing(TimingKey(cached)).data.rev >= cached.rev
    /\ Timing(TimingKey(cached)).data.rev = cached.rev => (Told(Timing(TimingKey(cached))) = "time" <=> cached.automatic)

\* A run that is over comes to be the last one told, unless the page says that it can not
\* know or shows it no longer (refetchInterval).
TimingCatchesUp ==
  []<>(TimingObserved =>
         \/ Told(Timing(TimingKey(cached))) = "unavailable"
         \/ /\ Timing(TimingKey(cached)).data /= None
            /\ Timing(TimingKey(cached)).data.finished = finished)

\* What is told of the timing belongs to the settings beside it.
TimingOfScript == TimingTypeOK /\ NextOfSettings
=============================================================================
