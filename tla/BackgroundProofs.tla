--------------------------- MODULE BackgroundProofs ---------------------------
(***************************************************************************)
(* Theorems about what runs behind the API and beside it: about Scheduler,  *)
(* for any scripts, schedules and replicas, any look-back and any clock;    *)
(* about NextRun, for any calendar and zones; about the watchdogs of        *)
(* Watchdogs and the deliveries of OutboxDelivery, for any runs, processes, *)
(* limits and numbers of failures; about a run of the local runner, the     *)
(* copies of a limit and the requests of a window; and about all that the   *)
(* parts of MCJobStore keep.                                                *)
(*                                                                          *)
(* The times carry the argument of the scheduler.  Saves of a script are    *)
(* serialised by its row's lock, so the last committed version has the      *)
(* latest author; a pass registers minutes that have begun only, so no      *)
(* later save is dated before one of them; and a row a pass did not select  *)
(* was saved after its time.                                                *)
(*                                                                          *)
(* The next run is searched for by the schedule's wall clock.  A wall time  *)
(* may come twice or never, but each is shown first only after all that     *)
(* were shown before it, so that the first match by the wall is the first   *)
(* by the clock.                                                            *)
(***************************************************************************)
EXTENDS MCJobStore, JobStoreProofs, WellFoundedInduction

(***************************************************************************)
(* The registration of due minutes                                          *)
(***************************************************************************)
\* The version a script has is the last of its history.
LatestVersion(s) ==
  /\ scripts[s] \in history[s]
  /\ scripts[s].committed <= clock
  /\ scripts[s].at /= Never => scripts[s].at <= scripts[s].committed
  /\ \A w \in history[s] : w.at /= Never => scripts[s].at /= Never /\ w.at <= scripts[s].at

\* A save under way is stamped no earlier than the version it will replace.
StampedSave(s) ==
  saving[s] /= Never =>
    /\ saving[s].selects \in Schedules /\ saving[s].enabled \in BOOLEAN
    /\ saving[s].at \in 0..clock
    /\ scripts[s].at /= Never => scripts[s].at <= saving[s].at

\* What a pass has not selected was not there at its time.
TimelyPass(r) ==
  passes[r] /= Never =>
    /\ passes[r] \in [now: 0..clock, rows: (SUBSET Registered) \cup {Never}]
    /\ passes[r].rows /= Never =>
         \A s \in Registered :
           Selected(s) /\ s \notin passes[r].rows => scripts[s].committed >= passes[r].now

\* An occurrence is of a minute that had begun.
BegunMinute(o) ==
  /\ o.script \in Registered /\ o.minute \in Horizon /\ o.now \in 0..clock
  /\ Begins(o.minute) <= o.now

\* The invariant that is proved of the registration.
ScheduleInv ==
  /\ clock \in 0..LastInstant /\ lastChecked \in 0..clock \cup {Never}
  /\ scripts \in [Registered -> Version] /\ skipped \subseteq Horizon
  /\ history \in [Registered -> SUBSET Version] /\ DOMAIN saving = Registered /\ DOMAIN passes = Replicas
  /\ \A s \in Registered : LatestVersion(s) /\ StampedSave(s)
  /\ \A r \in Replicas : TimelyPass(r)
  /\ \A o \in occurrences : BegunMinute(o)
  /\ OccurrenceOnce /\ OnlyAsSaved /\ DueIsRegistered

(***************************************************************************)
(* Time                                                                     *)
(***************************************************************************)
\* A minute has begun exactly when its beginning is not later than now.
LEMMA MinuteBegun ==
  ASSUME NEW t \in Nat, NEW m \in Nat
  PROVE  /\ MinuteOf(t) \in Nat /\ Begins(m) \in Nat
         /\ m <= MinuteOf(t) <=> Begins(m) <= t
  BY DEF MinuteOf, Begins

\* What a pass at this time looks at: minutes that have begun, none before the
\* version was saved.
LEMMA DueFacts ==
  ASSUME NEW v \in Version, v.at /= Never, NEW t \in Nat, NEW m \in Horizon,
         lastChecked \in Nat \cup {Never}
  PROVE  m \in Due(v, t) <=> /\ Selects(v, m) /\ v.at <= Begins(m)
                             /\ Start(lastChecked, MinuteOf(t)) <= m /\ Begins(m) <= t
<1>1. m \in Nat /\ MinuteOf(t) \in Nat
  BY SchedulerAssumption DEF Horizon, MinuteOf
<1>2. v.selects /= Malformed => v.selects \in SUBSET Nat
  BY DEF Version
<1>3. v.at \in Int /\ Begins(m) \in Int
  BY <1>1 DEF Version, Begins
<1>4. Start(lastChecked, MinuteOf(t)) \in Int
  BY <1>1, SchedulerAssumption DEF Start, MinuteOf
<1>5. m <= MinuteOf(t) <=> Begins(m) <= t
  BY <1>1, MinuteBegun
<1> DEFINE start == Start(lastChecked, MinuteOf(t))
<1>6. m \in start..MinuteOf(t) <=> start <= m /\ Begins(m) <= t
  BY <1>1, <1>4, <1>5
<1> HIDE DEF start
<1>7. Begins(m) >= v.at <=> v.at <= Begins(m)
  BY <1>3
<1>8. QED
  BY <1>2, <1>6, <1>7 DEF Due, Selects, start

(***************************************************************************)
(* The clock and the saves                                                  *)
(***************************************************************************)
\* Time goes on.
LEMMA ClockAdvancesInv ==
  ASSUME ScheduleInv, ClockAdvances
  PROVE  ScheduleInv'
<1>1. /\ clock' = clock + 1 /\ clock \in 0..LastInstant /\ clock' \in 0..LastInstant
      /\ UNCHANGED <<scripts, saving, lastChecked, passes, occurrences, skipped, history>>
  BY SchedulerAssumption DEF ClockAdvances, ScheduleInv
<1>2. 0..clock \subseteq 0..clock' /\ clock <= clock'
  BY <1>1
<1>3. \A s \in Registered : LatestVersion(s)' /\ StampedSave(s)'
  <2> SUFFICES ASSUME NEW s \in Registered PROVE LatestVersion(s)' /\ StampedSave(s)'
    OBVIOUS
  <2>1. scripts[s].committed \in Int
    BY DEF ScheduleInv, Version
  <2>2. QED
    BY <1>1, <1>2, <2>1 DEF ScheduleInv, LatestVersion, StampedSave
<1>4. \A r \in Replicas : TimelyPass(r)'
  BY <1>1, <1>2 DEF ScheduleInv, TimelyPass, Selected
<1>5. \A o \in occurrences : BegunMinute(o)'
  BY <1>1, <1>2 DEF ScheduleInv, BegunMinute, Begins
<1>6. OccurrenceOnce' /\ OnlyAsSaved' /\ DueIsRegistered'
  BY <1>1 DEF ScheduleInv, OccurrenceOnce, OnlyAsSaved, DueIsRegistered, Selects, Unregistered
<1>7. QED
  BY <1>1, <1>2, <1>3, <1>4, <1>5, <1>6 DEF ScheduleInv

\* A save begins: its author is stamped with the row's lock had.
LEMMA SaveBeginsInv ==
  ASSUME ScheduleInv, SaveBegins
  PROVE  ScheduleInv'
<1>1. PICK s \in Registered, minutes \in Schedules, on \in BOOLEAN :
        saving' = [saving EXCEPT ![s] = [selects |-> minutes, enabled |-> on, at |-> clock]]
  BY DEF SaveBegins
<1>2. UNCHANGED <<clock, scripts, lastChecked, passes, occurrences, skipped, history>>
  BY DEF SaveBegins
<1>3. clock \in Nat
  BY SchedulerAssumption DEF ScheduleInv
<1>4. \A t \in Registered : StampedSave(t)'
  <2> SUFFICES ASSUME NEW t \in Registered PROVE StampedSave(t)'
    OBVIOUS
  <2>1. CASE t = s
    <3>1. scripts[s].at /= Never => scripts[s].at <= clock
      <4>1. scripts[s].at \in Int \cup {Never} /\ scripts[s].committed \in Int
        BY DEF ScheduleInv, Version
      <4>2. QED
        BY <1>3, <4>1 DEF ScheduleInv, LatestVersion
    <3>2. saving'[t] = [selects |-> minutes, enabled |-> on, at |-> clock]
      BY <1>1, <2>1 DEF ScheduleInv
    <3>3. QED
      BY <1>2, <1>3, <2>1, <3>1, <3>2 DEF StampedSave
  <2>2. CASE t /= s
    BY <1>1, <1>2, <2>2 DEF ScheduleInv, StampedSave
  <2>3. QED
    BY <2>1, <2>2
<1>5. DOMAIN saving' = Registered
  BY <1>1 DEF ScheduleInv
<1>6. QED
  BY <1>2, <1>4, <1>5
  DEF ScheduleInv, LatestVersion, TimelyPass, BegunMinute, Selected, OccurrenceOnce, OnlyAsSaved,
      DueIsRegistered, Selects, Unregistered

\* A save replaces the version and ends.  Nothing registered so far is of a
\* minute that begins after it.
LEMMA SaveCommitsInv ==
  ASSUME ScheduleInv, NEW s \in Registered, SaveCommits(s)
  PROVE  ScheduleInv'
<1> DEFINE new == [selects |-> saving[s].selects, enabled |-> saving[s].enabled,
                   at |-> saving[s].at, committed |-> clock]
<1>1. /\ saving[s] /= Never
      /\ scripts' = [scripts EXCEPT ![s] = new]
      /\ history' = [history EXCEPT ![s] = history[s] \cup {scripts'[s]}]
      /\ saving' = [saving EXCEPT ![s] = Never]
      /\ UNCHANGED <<clock, lastChecked, passes, occurrences, skipped>>
  BY DEF SaveCommits
<1>2. /\ scripts \in [Registered -> Version] /\ history \in [Registered -> SUBSET Version]
      /\ DOMAIN saving = Registered /\ LatestVersion(s) /\ StampedSave(s)
      /\ clock \in 0..LastInstant /\ clock \in Nat
  BY SchedulerAssumption DEF ScheduleInv
<1>3. /\ saving[s].selects \in Schedules /\ saving[s].enabled \in BOOLEAN
      /\ saving[s].at \in 0..clock
      /\ scripts[s].at /= Never => scripts[s].at <= saving[s].at
  BY <1>1, <1>2 DEF StampedSave
<1>4. /\ new \in Version /\ new.at = saving[s].at /\ new.at /= Never /\ new.at <= clock
      /\ new.committed = clock
  BY <1>2, <1>3, SchedulerAssumption DEF Version
<1> HIDE DEF new
<1>5. /\ scripts' \in [Registered -> Version] /\ scripts'[s] = new
      /\ \A t \in Registered : t /= s => scripts'[t] = scripts[t]
      /\ history' \in [Registered -> SUBSET Version] /\ history'[s] = history[s] \cup {new}
      /\ \A t \in Registered : t /= s => history'[t] = history[t]
      /\ DOMAIN saving' = Registered /\ saving'[s] = Never
      /\ \A t \in Registered : t /= s => saving'[t] = saving[t]
  BY <1>1, <1>2, <1>4
<1>6. LatestVersion(s)'
  <2>1. ASSUME NEW w \in history[s], w.at /= Never
        PROVE  w.at <= new.at
    <3>1. scripts[s].at /= Never /\ w.at <= scripts[s].at /\ scripts[s].at <= new.at
      BY <1>2, <1>3, <1>4, <2>1 DEF LatestVersion
    <3>2. w.at \in Int /\ scripts[s].at \in Int /\ new.at \in Int
      <4>1. scripts[s].at \in Int /\ new.at \in Int
        BY <1>2, <1>3, <1>4, <3>1 DEF Version
      <4>2. w \in Version
        BY <1>2
      <4>3. QED
        BY <2>1, <4>1, <4>2 DEF Version
    <3>3. QED
      BY <3>1, <3>2
  <2>2. new.at <= new.at /\ clock <= clock
    BY <1>2, <1>3, <1>4
  <2>3. QED
    BY <1>1, <1>4, <1>5, <2>1, <2>2 DEF LatestVersion
<1>7. \A t \in Registered : LatestVersion(t)' /\ StampedSave(t)'
  <2>1. ASSUME NEW t \in Registered, t /= s
        PROVE  LatestVersion(t)' /\ StampedSave(t)'
    BY <1>1, <1>5, <2>1 DEF ScheduleInv, LatestVersion, StampedSave
  <2>2. StampedSave(s)'
    BY <1>5 DEF StampedSave
  <2>3. QED
    BY <1>6, <2>1, <2>2
<1>8. \A r \in Replicas : TimelyPass(r)'
  <2> SUFFICES ASSUME NEW r \in Replicas, passes[r] /= Never
               PROVE  TimelyPass(r)'
    BY <1>1 DEF TimelyPass
  <2>1. passes[r].now \in 0..clock /\ TimelyPass(r)
    BY DEF ScheduleInv, TimelyPass
  <2>2. clock >= passes[r].now
    BY <1>2, <2>1
  <2>3. ASSUME NEW t \in Registered, t /= s
        PROVE  Selected(t)' = Selected(t) /\ scripts'[t] = scripts[t]
    BY <1>5, <2>3 DEF Selected
  <2>4. QED
    BY <1>1, <1>4, <1>5, <2>1, <2>2, <2>3 DEF TimelyPass
<1>9. \A o \in occurrences' : BegunMinute(o)'
  BY <1>1 DEF ScheduleInv, BegunMinute
<1>10. OccurrenceOnce'
  BY <1>1 DEF ScheduleInv, OccurrenceOnce
<1>11. OnlyAsSaved'
  <2> SUFFICES ASSUME NEW o \in occurrences
               PROVE  \E v \in history'[o.script] :
                        /\ v.at = o.author /\ v.enabled /\ Selects(v, o.minute)
                        /\ v.at <= Begins(o.minute)
                        /\ \A w \in history'[o.script] :
                             w.committed < Begins(o.minute) => w.at = Never \/ w.at <= v.at
    BY <1>1 DEF OnlyAsSaved
  <2>1. BegunMinute(o)
    BY DEF ScheduleInv
  <2>2. ~(clock < Begins(o.minute))
    <3>1. o.minute \in Nat
      BY <2>1, SchedulerAssumption DEF BegunMinute, Horizon, MinuteOf
    <3>2. Begins(o.minute) \in Nat
      BY <3>1 DEF Begins
    <3>3. QED
      BY <1>2, <2>1, <3>2 DEF BegunMinute
  <2>3. PICK v \in history[o.script] :
          /\ v.at = o.author /\ v.enabled /\ Selects(v, o.minute) /\ v.at <= Begins(o.minute)
          /\ \A w \in history[o.script] :
               w.committed < Begins(o.minute) => w.at = Never \/ w.at <= v.at
    BY DEF ScheduleInv, OnlyAsSaved
  <2>4. o.script \in Registered
    BY <2>1 DEF BegunMinute
  <2>5. history'[o.script] \in {history[o.script], history[o.script] \cup {new}}
    BY <1>5, <2>4
  <2>6. QED
    BY <1>4, <2>2, <2>3, <2>5
<1>12. DueIsRegistered'
  <2> SUFFICES ASSUME lastChecked /= Never, NEW t \in Registered, NEW m \in Horizon,
                      scripts'[t].enabled, scripts'[t].at /= Never, Selects(scripts'[t], m),
                      scripts'[t].committed < Begins(m), m \notin skipped, m <= MinuteOf(lastChecked)
               PROVE  ~Unregistered(t, m)
    BY <1>1 DEF DueIsRegistered, Unregistered
  <2>1. lastChecked \in 0..clock /\ lastChecked \in Nat /\ m \in Nat
    BY SchedulerAssumption DEF ScheduleInv, Horizon, MinuteOf
  <2>2. Begins(m) <= lastChecked /\ Begins(m) \in Nat
    BY <2>1, MinuteBegun
  <2>3. ~(clock < Begins(m))
    BY <1>2, <2>1, <2>2
  <2>4. t /= s
    BY <1>4, <1>5, <2>3
  <2>5. QED
    BY <1>5, <2>4 DEF ScheduleInv, DueIsRegistered
<1>13. QED
  BY <1>1, <1>2, <1>5, <1>7, <1>8, <1>9, <1>10, <1>11, <1>12 DEF ScheduleInv

\* A save that fails leaves the version as it was.
LEMMA SaveFailsInv ==
  ASSUME ScheduleInv, NEW s \in Registered, SaveFails(s)
  PROVE  ScheduleInv'
<1>1. /\ saving' = [saving EXCEPT ![s] = Never]
      /\ UNCHANGED <<clock, scripts, lastChecked, passes, occurrences, skipped, history>>
  BY DEF SaveFails
<1>2. DOMAIN saving' = Registered
  BY <1>1 DEF ScheduleInv
<1>3. \A t \in Registered : LatestVersion(t)' /\ StampedSave(t)'
  BY <1>1 DEF ScheduleInv, LatestVersion, StampedSave
<1>4. QED
  BY <1>1, <1>2, <1>3
  DEF ScheduleInv, TimelyPass, BegunMinute, Selected, OccurrenceOnce, OnlyAsSaved, DueIsRegistered,
      Selects, Unregistered

(***************************************************************************)
(* Passes                                                                   *)
(***************************************************************************)
\* A step of one pass that registers nothing.
LEMMA PassOnlyInv ==
  ASSUME ScheduleInv, NEW r \in Replicas, NEW taken, passes' = [passes EXCEPT ![r] = taken],
         TimelyPass(r)',
         UNCHANGED <<clock, scripts, saving, lastChecked, occurrences, skipped, history>>
  PROVE  ScheduleInv'
<1>1. DOMAIN passes' = Replicas /\ \A q \in Replicas : q /= r => passes'[q] = passes[q]
  BY DEF ScheduleInv
<1>2. \A q \in Replicas : TimelyPass(q)'
  BY <1>1 DEF ScheduleInv, TimelyPass, Selected
<1>3. QED
  BY <1>1, <1>2
  DEF ScheduleInv, LatestVersion, StampedSave, BegunMinute, OccurrenceOnce, OnlyAsSaved,
      DueIsRegistered, Selects, Unregistered

\* A pass begins, returns without the lock, selects its rows, or is lost.
LEMMA PassUnregisteredInv ==
  ASSUME ScheduleInv, NEW r \in Replicas,
         PassBegins(r) \/ PassReturns(r) \/ PassSelects(r) \/ PassAborts(r)
  PROVE  ScheduleInv'
<1>1. UNCHANGED <<clock, scripts, saving, lastChecked, occurrences, skipped, history>>
  BY DEF PassBegins, PassReturns, PassSelects, PassAborts
<1>2. r \in DOMAIN passes /\ clock \in 0..clock
  BY SchedulerAssumption DEF ScheduleInv
<1>3. CASE PassBegins(r)
  <2>1. passes' = [passes EXCEPT ![r] = [now |-> clock, rows |-> Never]]
    BY <1>3 DEF PassBegins
  <2>2. passes'[r] = [now |-> clock, rows |-> Never]
    BY <1>2, <2>1
  <2>3. TimelyPass(r)'
    BY <1>1, <1>2, <2>2 DEF TimelyPass
  <2>4. QED
    BY <1>1, <2>1, <2>3, PassOnlyInv
<1>4. CASE PassReturns(r) \/ PassAborts(r)
  <2>1. passes' = [passes EXCEPT ![r] = Never]
    BY <1>4 DEF PassReturns, PassAborts
  <2>2. TimelyPass(r)'
    BY <1>2, <2>1 DEF TimelyPass
  <2>3. QED
    BY <1>1, <2>1, <2>2, PassOnlyInv
<1>5. CASE PassSelects(r)
  <2> DEFINE rows == {s \in Registered : Selected(s)}
             taken == [passes[r] EXCEPT !.rows = rows]
  <2>1. passes' = [passes EXCEPT ![r] = taken] /\ passes[r] /= Never
    BY <1>5 DEF PassSelects
  <2>2. passes[r] \in [now: 0..clock, rows: (SUBSET Registered) \cup {Never}]
    BY <2>1 DEF ScheduleInv, TimelyPass
  <2>3. /\ taken \in [now: 0..clock, rows: (SUBSET Registered) \cup {Never}]
        /\ taken.rows = rows
    BY <2>2
  <2>4. passes'[r] = taken
    BY <1>2, <2>1
  <2> HIDE DEF taken
  <2>5. TimelyPass(r)'
    BY <1>1, <2>3, <2>4 DEF TimelyPass, Selected
  <2>6. QED
    BY <1>1, <2>1, <2>5, PassOnlyInv
<1>6. QED
  BY <1>3, <1>4, <1>5

\* An occurrence a pass registers is of a version that is saved, as it is, and of a
\* minute its script had no occurrence of.
LEMMA EvaluatedFacts ==
  ASSUME ScheduleInv, NEW r \in Replicas, passes[r] /= Never, passes[r].rows /= Never,
         NEW e \in Evaluated({s \in passes[r].rows : Selected(s)}, passes[r].now)
  PROVE  /\ e = [script |-> e.script, minute |-> e.minute, author |-> scripts[e.script].at,
                 now |-> passes[r].now]
         /\ BegunMinute(e) /\ Unregistered(e.script, e.minute)
         /\ Selected(e.script) /\ Selects(scripts[e.script], e.minute)
         /\ scripts[e.script].at <= Begins(e.minute)
<1> DEFINE now == passes[r].now
<1>1. now \in 0..clock /\ now \in Nat /\ passes[r].rows \subseteq Registered
  BY SchedulerAssumption DEF ScheduleInv, TimelyPass
<1>2. PICK p \in {s \in passes[r].rows : Selected(s)} \X Horizon :
        /\ p[2] \in Due(scripts[p[1]], now) /\ Unregistered(p[1], p[2])
        /\ e = [script |-> p[1], minute |-> p[2], author |-> scripts[p[1]].at, now |-> now]
  BY DEF Evaluated
<1>3. /\ e.script = p[1] /\ e.minute = p[2] /\ e.author = scripts[p[1]].at /\ e.now = now
      /\ p[1] \in Registered /\ Selected(p[1]) /\ p[2] \in Horizon
  BY <1>1, <1>2
<1>4. scripts[p[1]] \in Version /\ scripts[p[1]].at /= Never /\ lastChecked \in Nat \cup {Never}
  BY <1>3 DEF ScheduleInv, Selected
<1>5. Selects(scripts[p[1]], p[2]) /\ scripts[p[1]].at <= Begins(p[2]) /\ Begins(p[2]) <= now
  BY <1>1, <1>2, <1>3, <1>4, DueFacts
<1> HIDE DEF now
<1>6. BegunMinute(e)
  BY <1>1, <1>3, <1>5 DEF BegunMinute, now
<1>7. QED
  BY <1>2, <1>3, <1>5, <1>6 DEF now

\* What a pass looks at of a script it selected is not missed: a minute that has begun,
\* that is not before the version, and that is neither skipped nor of a pass before.
LEMMA NothingDueIsMissed ==
  ASSUME ScheduleInv, NEW r \in Replicas, passes[r] /= Never, passes[r].rows /= Never,
         NEW s \in Registered, NEW m \in Horizon, Selected(s), Selects(scripts[s], m),
         scripts[s].committed < Begins(m), Begins(m) <= passes[r].now,
         Start(lastChecked, MinuteOf(passes[r].now)) <= m, Unregistered(s, m)
  PROVE  \E e \in Evaluated({t \in passes[r].rows : Selected(t)}, passes[r].now) :
           e.script = s /\ e.minute = m
<1> DEFINE now == passes[r].now
           e == [script |-> s, minute |-> m, author |-> scripts[s].at, now |-> now]
<1>1. now \in 0..clock /\ now \in Nat /\ passes[r].rows \subseteq Registered
  BY SchedulerAssumption DEF ScheduleInv, TimelyPass
<1>2. /\ scripts[s] \in Version /\ scripts[s].at /= Never /\ lastChecked \in Nat \cup {Never}
      /\ scripts[s].at <= scripts[s].committed
  BY DEF ScheduleInv, Selected, LatestVersion
<1>3. Begins(m) \in Int /\ scripts[s].committed \in Int /\ scripts[s].at \in Int
  BY <1>2, SchedulerAssumption DEF Version, Horizon, MinuteOf, Begins
<1>4. s \in passes[r].rows
  <2>1. ~(scripts[s].committed >= now)
    BY <1>1, <1>3
  <2>2. QED
    BY <2>1 DEF ScheduleInv, TimelyPass
<1>5. scripts[s].at <= Begins(m)
  BY <1>2, <1>3
<1>6. m \in Due(scripts[s], now)
  BY <1>1, <1>2, <1>5, DueFacts
<1>7. <<s, m>> \in {t \in passes[r].rows : Selected(t)} \X Horizon
  BY <1>4
<1>8. <<s, m>>[1] = s /\ <<s, m>>[2] = m /\ e.script = s /\ e.minute = m
  OBVIOUS
<1>9. e \in Evaluated({t \in passes[r].rows : Selected(t)}, now)
  BY <1>6, <1>7, <1>8 DEF Evaluated
<1>10. QED
  BY <1>8, <1>9

\* A pass commits its occurrences with the cursor.
LEMMA PassCommitsInv ==
  ASSUME ScheduleInv, NEW r \in Replicas, PassCommits(r)
  PROVE  ScheduleInv'
<1> DEFINE now == passes[r].now
           new == Evaluated({s \in passes[r].rows : Selected(s)}, now)
           omitted == {m \in Horizon :
                         IF lastChecked = Never THEN m < MinuteOf(now)
                         ELSE m > MinuteOf(lastChecked) /\ m <= MinuteOf(now) - CatchUp}
<1>1. /\ passes[r] /= Never /\ passes[r].rows /= Never
      /\ occurrences' = occurrences \cup new
      /\ skipped' = skipped \cup omitted
      /\ lastChecked' = now
      /\ passes' = [passes EXCEPT ![r] = Never]
      /\ UNCHANGED <<clock, scripts, saving, history>>
  BY DEF PassCommits
<1>2. now \in 0..clock /\ now \in Nat /\ clock \in Nat
  BY <1>1, SchedulerAssumption DEF ScheduleInv, TimelyPass
<1>3. \A e \in new :
        /\ e = [script |-> e.script, minute |-> e.minute, author |-> scripts[e.script].at, now |-> now]
        /\ BegunMinute(e) /\ Unregistered(e.script, e.minute)
        /\ Selected(e.script) /\ Selects(scripts[e.script], e.minute)
        /\ scripts[e.script].at <= Begins(e.minute)
  BY <1>1, EvaluatedFacts
<1>4. \A o \in occurrences' : BegunMinute(o)'
  BY <1>1, <1>3 DEF ScheduleInv, BegunMinute
<1>5. OccurrenceOnce'
  <2> SUFFICES ASSUME NEW o \in occurrences', NEW q \in occurrences',
                      o.script = q.script, o.minute = q.minute
               PROVE  o = q
    BY DEF OccurrenceOnce
  <2>1. CASE o \in occurrences /\ q \in occurrences
    BY <2>1 DEF ScheduleInv, OccurrenceOnce
  <2>2. CASE (o \in new /\ q \in occurrences) \/ (o \in occurrences /\ q \in new)
    BY <1>3, <2>2 DEF Unregistered
  <2>3. CASE o \in new /\ q \in new
    <3>1. o = [script |-> o.script, minute |-> o.minute, author |-> scripts[o.script].at, now |-> now]
      BY <1>3, <2>3
    <3>2. q = [script |-> q.script, minute |-> q.minute, author |-> scripts[q.script].at, now |-> now]
      BY <1>3, <2>3
    <3>3. QED
      BY <3>1, <3>2
  <2>4. QED
    BY <1>1, <2>1, <2>2, <2>3
<1>6. OnlyAsSaved'
  <2> SUFFICES ASSUME NEW o \in occurrences'
               PROVE  \E v \in history[o.script] :
                        /\ v.at = o.author /\ v.enabled /\ Selects(v, o.minute)
                        /\ v.at <= Begins(o.minute)
                        /\ \A w \in history[o.script] :
                             w.committed < Begins(o.minute) => w.at = Never \/ w.at <= v.at
    BY <1>1 DEF OnlyAsSaved
  <2>1. CASE o \in occurrences
    BY <2>1 DEF ScheduleInv, OnlyAsSaved
  <2>2. CASE o \in new
    <3> DEFINE v == scripts[o.script]
    <3>1. o.script \in Registered /\ LatestVersion(o.script)
      BY <1>3, <2>2 DEF ScheduleInv, BegunMinute
    <3>2. o.author = v.at /\ v.enabled /\ Selects(v, o.minute) /\ v.at <= Begins(o.minute)
      <4>1. o.author = [script |-> o.script, minute |-> o.minute, author |-> v.at, now |-> now].author
        BY <1>3, <2>2
      <4>2. QED
        BY <1>3, <2>2, <4>1 DEF Selected
    <3>3. QED
      BY <3>1, <3>2 DEF LatestVersion
  <2>3. QED
    BY <1>1, <2>1, <2>2
<1>7. DueIsRegistered'
  <2> SUFFICES ASSUME NEW s \in Registered, NEW m \in Horizon,
                      scripts[s].enabled, scripts[s].at /= Never, Selects(scripts[s], m),
                      scripts[s].committed < Begins(m),
                      m \notin skipped', m <= MinuteOf(now), Unregistered(s, m)
               PROVE  \E e \in new : e.script = s /\ e.minute = m
    <3> HIDE DEF new, now
    <3>1. \A s \in Registered, m \in Horizon : Unregistered(s, m)' => Unregistered(s, m)
      BY <1>1 DEF Unregistered
    <3>2. \A s \in Registered, m \in Horizon :
            (\E e \in new : e.script = s /\ e.minute = m) => ~Unregistered(s, m)'
      BY <1>1 DEF Unregistered
    <3>3. QED
      BY <1>1, <3>1, <3>2 DEF DueIsRegistered, Selects
  <2>1. m \in Nat /\ MinuteOf(now) \in Nat /\ Begins(m) <= now
    BY <1>2, MinuteBegun, SchedulerAssumption DEF Horizon, MinuteOf
  <2>2. m \notin omitted /\ m \notin skipped
    BY <1>1
  <2>3. lastChecked /= Never => m > MinuteOf(lastChecked) /\ MinuteOf(lastChecked) \in Nat
    <3>1. lastChecked /= Never => MinuteOf(lastChecked) \in Nat
      BY <1>2, MinuteBegun DEF ScheduleInv
    <3>2. lastChecked /= Never => ~(m <= MinuteOf(lastChecked))
      BY <2>2 DEF ScheduleInv, DueIsRegistered
    <3>3. QED
      BY <2>1, <3>1, <3>2
  <2>4. Start(lastChecked, MinuteOf(now)) <= m
    BY <2>1, <2>2, <2>3, SchedulerAssumption DEF Start
  <2>5. Selected(s)
    BY DEF Selected
  <2>6. passes[r] /= Never /\ passes[r].rows /= Never
    BY <1>1
  <2>7. Begins(m) <= passes[r].now /\ Start(lastChecked, MinuteOf(passes[r].now)) <= m
    BY <2>1, <2>4
  <2>8. \E e \in Evaluated({t \in passes[r].rows : Selected(t)}, passes[r].now) : e.script = s /\ e.minute = m
    BY <2>5, <2>6, <2>7, NothingDueIsMissed
  <2>9. QED
    BY <2>8
<1>8. \A q \in Replicas : TimelyPass(q)'
  <2>1. passes'[r] = Never /\ \A q \in Replicas : q /= r => passes'[q] = passes[q]
    BY <1>1 DEF ScheduleInv
  <2>2. QED
    BY <1>1, <2>1 DEF ScheduleInv, TimelyPass, Selected
<1>9. QED
  BY <1>1, <1>2, <1>4, <1>5, <1>6, <1>7, <1>8 DEF ScheduleInv, LatestVersion, StampedSave

(***************************************************************************)
(* The registration                                                         *)
(***************************************************************************)
\* Nothing is registered at first, and the rows are their own history.
LEMMA ScheduleInitInv == SchedulerInit => ScheduleInv
<1> SUFFICES ASSUME SchedulerInit PROVE ScheduleInv
  OBVIOUS
<1>1. /\ scripts \in [Registered -> Version]
      /\ \A s \in Registered : scripts[s].committed = 0 /\ scripts[s].at \in {0, Never}
  BY FirstScriptsAssumption DEF SchedulerInit
<1>2. history \in [Registered -> SUBSET Version] /\ \A s \in Registered : history[s] = {scripts[s]}
  BY <1>1 DEF SchedulerInit
<1>3. \A s \in Registered : LatestVersion(s) /\ StampedSave(s)
  BY <1>1, <1>2, SchedulerAssumption DEF SchedulerInit, LatestVersion, StampedSave
<1>4. QED
  BY <1>1, <1>2, <1>3, SchedulerAssumption
  DEF SchedulerInit, ScheduleInv, TimelyPass, OccurrenceOnce, OnlyAsSaved, DueIsRegistered

\* Every step of the registration keeps the invariant.
LEMMA ScheduleStep == ScheduleInv /\ [SchedulerNext]_scheduleVars => ScheduleInv'
<1> SUFFICES ASSUME ScheduleInv, [SchedulerNext]_scheduleVars PROVE ScheduleInv'
  OBVIOUS
<1>1. CASE ClockAdvances
  BY <1>1, ClockAdvancesInv
<1>2. CASE SaveBegins
  BY <1>2, SaveBeginsInv
<1>3. CASE \E s \in Registered : SaveCommits(s) \/ SaveFails(s)
  BY <1>3, SaveCommitsInv, SaveFailsInv
<1>4. CASE \E r \in Replicas : PassStep(r) \/ PassAborts(r)
  BY <1>4, PassUnregisteredInv, PassCommitsInv DEF PassStep
<1>5. CASE UNCHANGED scheduleVars
  BY <1>5
  DEF scheduleVars, ScheduleInv, LatestVersion, StampedSave, TimelyPass, BegunMinute, Selected,
      OccurrenceOnce, OnlyAsSaved, DueIsRegistered, Selects, Unregistered
<1>6. QED
  BY <1>1, <1>2, <1>3, <1>4, <1>5 DEF SchedulerNext

\* The invariant holds of every reachable state of the registration.
THEOREM ScheduleInvariant == SchedulerSpec => []ScheduleInv
BY ScheduleInitInv, ScheduleStep, PTL DEF SchedulerSpec

\* Rows, passes and occurrences have their types.
THEOREM ScheduleTypeCorrect == SchedulerSpec => []ScheduleTypeOK
<1>1. ScheduleInv => ScheduleTypeOK
  BY DEF ScheduleInv, ScheduleTypeOK, TimelyPass, BegunMinute
<1>2. QED
  BY <1>1, ScheduleInvariant, PTL

\* A due minute of a script has one job, however many replicas register it and whichever
\* of them sets the cursor back.
THEOREM RegisteredOnce == SchedulerSpec => []OccurrenceOnce
<1>1. ScheduleInv => OccurrenceOnce
  BY DEF ScheduleInv
<1>2. QED
  BY <1>1, ScheduleInvariant, PTL

\* A job is of a version that was saved before its minute, and of the latest of those
\* that were committed by then.
THEOREM RegisteredAsSaved == SchedulerSpec => []OnlyAsSaved
<1>1. ScheduleInv => OnlyAsSaved
  BY DEF ScheduleInv
<1>2. QED
  BY <1>1, ScheduleInvariant, PTL

\* What was due by the saved version is registered once a pass went beyond it, unless no
\* pass looked at that minute any more.
THEOREM DueMinutesRegistered == SchedulerSpec => []DueIsRegistered
<1>1. ScheduleInv => DueIsRegistered
  BY DEF ScheduleInv
<1>2. QED
  BY <1>1, ScheduleInvariant, PTL

(***************************************************************************)
(* The calendar                                                             *)
(***************************************************************************)
\* A set of natural numbers that is not empty has a least one.
LEMMA LeastNat ==
  ASSUME NEW T \in SUBSET Nat, T /= {}
  PROVE  \E m \in T : \A k \in T : m <= k
<1> DEFINE Less == {p \in Nat \X Nat : p[1] < p[2]}
<1>1. IsWellFoundedOn(Less, Nat)
  BY NatLessThanWellFounded DEF OpToRel
<1>2. \A k, m \in Nat : k < m => <<k, m>> \in Less
  BY Zenon
<1> HIDE DEF Less
<1>3. PICK m \in T : \A k \in T : ~(<<k, m>> \in Less)
  BY <1>1, WFMin
<1>4. \A k \in T : ~(k < m)
  BY <1>2, <1>3
<1>5. QED
  BY <1>4

\* A finite list of integers has a greatest one.
LEMMA GreatestOf ==
  ASSUME NEW n \in Nat, NEW f \in [0..n -> Int]
  PROVE  \E k \in 0..n : \A i \in 0..n : f[i] <= f[k]
<1> DEFINE without == {m \in 0..n : ~(\E k \in 0..m : \A i \in 0..m : f[i] <= f[k])}
<1>1. n \notin without => \E k \in 0..n : \A i \in 0..n : f[i] <= f[k]
  OBVIOUS
<1>2. without \in SUBSET Nat
  OBVIOUS
<1>3. ASSUME NEW m \in without, \A k \in without : m <= k
      PROVE  FALSE
  <2>1. m \in 0..n /\ ~(\E k \in 0..m : \A i \in 0..m : f[i] <= f[k])
    OBVIOUS
  <2>2. m /= 0
    BY <2>1
  <2> DEFINE before == m - 1
  <2>3. before \in 0..n /\ ~(m <= before)
    BY <2>1, <2>2
  <2>4. PICK k \in 0..(m - 1) : \A i \in 0..(m - 1) : f[i] <= f[k]
    <3>1. before \notin without
      BY <1>3, <2>3
    <3>2. QED
      BY <2>3, <3>1
  <2> HIDE DEF without
  <2>5. \A i \in 0..m : i = m \/ i \in 0..(m - 1)
    BY <2>1
  <2>6. CASE f[m] <= f[k]
    BY <2>1, <2>4, <2>5, <2>6
  <2>7. CASE ~(f[m] <= f[k])
    <3>1. f[m] \in Int /\ f[k] \in Int /\ f[k] <= f[m] /\ \A i \in 0..(m-1) : f[i] \in Int
      BY <2>1, <2>2, <2>7
    <3>2. \A i \in 0..m : f[i] <= f[m]
      BY <2>4, <2>5, <3>1
    <3>3. QED
      BY <2>1, <3>2
  <2>8. QED
    BY <2>6, <2>7
<1> HIDE DEF without
<1>4. without = {}
  BY <1>2, <1>3, LeastNat
<1>5. QED
  BY <1>1, <1>4

\* The least and the greatest element, where they are known.
LEMMA MinIs ==
  ASSUME NEW S \in SUBSET Int, NEW m \in S, \A k \in S : m <= k
  PROVE  Min(S) = m
<1> DEFINE least == CHOOSE x \in S : \A y \in S : x <= y
<1>1. least \in S /\ \A y \in S : least <= y
  OBVIOUS
<1>2. Min(S) = least
  BY DEF Min
<1> HIDE DEF least
<1>3. QED
  BY <1>1, <1>2

LEMMA MaxIs ==
  ASSUME NEW S \in SUBSET Int, NEW m \in S, \A k \in S : k <= m
  PROVE  Max(S) = m
<1> DEFINE greatest == CHOOSE x \in S : \A y \in S : x >= y
<1>1. greatest \in S /\ \A y \in S : greatest >= y
  OBVIOUS
<1>2. Max(S) = greatest
  BY DEF Max
<1> HIDE DEF greatest
<1>3. QED
  BY <1>1, <1>2

\* Later times are not of earlier dates.
LEMMA DatesInOrder ==
  ASSUME NEW k \in Int, NEW l \in Int, k <= l
  PROVE  DateOf(k) <= DateOf(l)
<1>1. Day \in Nat /\ Day > 0
  BY CalendarAssumption
<1>2. QED
  BY <1>1 DEF DateOf

\* The question is about a schedule, a zone and a minute there is.
CalendarInv == schedule \in [saved: CalendarSchedules, zone: Zones] /\ after \in Minutes

\* The zone of the question: its minutes, and clocks that show a time for the first time
\* only after all they showed before.
LEMMA ClocksGoOn ==
  ASSUME CalendarInv
  PROVE  \E last \in Nat :
           /\ schedule.zone \in [0..last -> Int] /\ Minutes = 0..last
           /\ \A u \in Minutes : Local(u) \in Int
           /\ \A u, v \in Minutes : u < v /\ ~Fold(v) => Local(u) < Local(v)
<1>1. schedule.zone \in Zones
  BY DEF CalendarInv
<1> DEFINE last == Max(DOMAIN schedule.zone)
<1>2. /\ last \in Nat /\ schedule.zone \in [0..last -> Int]
      /\ \A u, v \in DOMAIN schedule.zone :
           u < v /\ Shown(schedule.zone, v) <= Shown(schedule.zone, u)
             => \E w \in 0..(v - 1) : Shown(schedule.zone, w) = Shown(schedule.zone, v)
  BY <1>1, ZonesAssumption
<1> HIDE DEF last
<1>3. Minutes = 0..last
  BY <1>2 DEF Minutes
<1>4. \A u \in Minutes : Local(u) \in Int
  BY <1>2, <1>3 DEF Local, Shown
<1>5. ASSUME NEW u \in Minutes, NEW v \in Minutes, u < v, ~Fold(v)
      PROVE  Local(u) < Local(v)
  <2>1. \A w \in 0..(v - 1) : Local(w) /= Local(v)
    <3>1. \A w \in 0..(v - 1) : w \in Minutes /\ w < v
      BY <1>2, <1>3
    <3>2. QED
      BY <1>5, <3>1 DEF Fold
  <2>2. ~(Local(v) <= Local(u))
    BY <1>2, <1>3, <1>5, <2>1 DEF Local, Minutes
  <2>3. QED
    BY <1>4, <2>2
<1>6. QED
  BY <1>2, <1>3, <1>4, <1>5

\* The time of a minute that is not a second one comes back from UTC as that minute.
LEMMA ComesBack ==
  ASSUME CalendarInv, NEW u \in Minutes, ~Fold(u)
  PROVE  ToUtc(Local(u)) = u
<1>1. PICK last \in Nat : Minutes = 0..last
  BY ClocksGoOn
<1> DEFINE same == {v \in Minutes : Local(v) = Local(u)}
<1>2. u \in same /\ same \in SUBSET Int
  BY <1>1
<1>3. \A v \in same : u <= v
  BY <1>1 DEF Fold
<1> HIDE DEF same
<1>4. Min(same) = u
  BY <1>2, <1>3, MinIs
<1>5. QED
  BY <1>4 DEF ToUtc, same

\* The times there are: from the least to the greatest that the clocks show.
LEMMA TimesThereAre ==
  ASSUME CalendarInv, NEW u \in Minutes
  PROVE  Local(u) \in Min({Local(v) : v \in Minutes})..Max({Local(v) : v \in Minutes})
<1>1. PICK last \in Nat : Minutes = 0..last /\ \A v \in Minutes : Local(v) \in Int
  BY ClocksGoOn
<1> DEFINE shown == {Local(v) : v \in Minutes}
           up == [v \in 0..last |-> Local(v)]
           down == [v \in 0..last |-> -Local(v)]
<1>2. shown \in SUBSET Int
  BY <1>1
<1>3. PICK k \in Minutes : \A v \in Minutes : Local(v) <= Local(k)
  <2>1. up \in [0..last -> Int] /\ \A v \in Minutes : up[v] = Local(v)
    BY <1>1
  <2> HIDE DEF up
  <2>2. QED
    BY <1>1, <2>1, GreatestOf
<1>4. PICK m \in Minutes : \A v \in Minutes : Local(m) <= Local(v)
  <2>1. down \in [0..last -> Int] /\ \A v \in Minutes : down[v] = -Local(v)
    BY <1>1
  <2> HIDE DEF down
  <2>2. PICK m \in 0..last : \A v \in 0..last : down[v] <= down[m]
    BY <2>1, GreatestOf
  <2>3. ASSUME NEW v \in Minutes PROVE Local(m) <= Local(v)
    <3>1. down[m] = -Local(m) /\ down[v] = -Local(v) /\ down[v] <= down[m]
      BY <1>1, <2>1, <2>2
    <3>2. Local(m) \in Int /\ Local(v) \in Int
      BY <1>1
    <3>3. QED
      BY <3>1, <3>2
  <2>4. QED
    BY <1>1, <2>3
<1>5. Max(shown) = Local(k)
  <2>1. Local(k) \in shown /\ \A l \in shown : l <= Local(k)
    BY <1>3
  <2> HIDE DEF shown
  <2>2. QED
    BY <1>2, <2>1, MaxIs
<1>6. Min(shown) = Local(m)
  <2>1. Local(m) \in shown /\ \A l \in shown : Local(m) <= l
    BY <1>4
  <2> HIDE DEF shown
  <2>2. QED
    BY <1>2, <2>1, MinIs
<1>7. QED
  BY <1>1, <1>3, <1>4, <1>5, <1>6

\* The rule by minutes is the rule by dates and times of day.
LEMMA RulesAgree ==
  ASSUME NEW s \in CalendarSchedules, NEW u \in Minutes
  PROVE  IsDue(s, u) <=> ~Fold(u) /\ DateMatches(s, DateOf(Local(u))) /\ TimeMatches(s, Local(u))
<1>1. s.type \in {"hourly", "monthly", "cron"}
  BY CalendarAssumption
<1>2. QED
  BY <1>1 DEF IsDue, DateMatches, TimeMatches

\* The first date and time that are found are those of the first minute that is due.
LEMMA NextIsFirst ==
  ASSUME CalendarInv
  PROVE  NextRunIsFirstDue
<1> DEFINE s == schedule.saved
           dueMinutes == {u \in Minutes : u > after /\ IsDue(s, u)}
           found == {l \in LocalTimes : /\ DateOf(l) >= DateOf(Local(after))
                                        /\ DateMatches(s, DateOf(l)) /\ TimeMatches(s, l)
                                        /\ Later(s, l, after) /\ IsDue(s, ToUtc(l))}
<1>1. s \in CalendarSchedules /\ after \in Minutes
  BY DEF CalendarInv
<1>2. PICK last \in Nat :
        /\ Minutes = 0..last /\ \A u \in Minutes : Local(u) \in Int
        /\ \A u, v \in Minutes : u < v /\ ~Fold(v) => Local(u) < Local(v)
  BY ClocksGoOn
<1>3. ASSUME NEW l \in found
      PROVE  ToUtc(l) \in dueMinutes /\ Local(ToUtc(l)) = l
  BY DEF LocalTimes, Later
<1>4. ASSUME NEW u \in dueMinutes
      PROVE  Local(u) \in found /\ ToUtc(Local(u)) = u /\ ~Fold(u)
  <2>1. u \in Minutes /\ u > after /\ IsDue(s, u)
    OBVIOUS
  <2>2. ~Fold(u) /\ DateMatches(s, DateOf(Local(u))) /\ TimeMatches(s, Local(u))
    BY <1>1, <2>1, RulesAgree
  <2>3. ToUtc(Local(u)) = u
    BY <2>1, <2>2, ComesBack
  <2>4. Local(u) \in LocalTimes
    BY <2>1, <2>3, TimesThereAre DEF LocalTimes
  <2>5. DateOf(Local(u)) >= DateOf(Local(after))
    <3>1. Local(after) \in Int /\ Local(u) \in Int /\ Local(after) <= Local(u)
      BY <1>1, <1>2, <2>1, <2>2
    <3>2. QED
      BY <3>1, DatesInOrder
  <2>6. QED
    BY <2>1, <2>2, <2>3, <2>4, <2>5 DEF Later
<1>5. dueMinutes \in SUBSET Nat /\ dueMinutes \subseteq Minutes
  BY <1>2
<1>6. NextRunIsFirstDue <=>
        (IF s.enabled /\ found /= {} THEN ToUtc(Min(found)) ELSE NoRun)
          = IF s.enabled THEN Least(dueMinutes) ELSE NoRun
  BY DEF NextRunIsFirstDue, NextOf
<1> HIDE DEF found, dueMinutes, s
<1>7. CASE dueMinutes = {}
  <2>1. found = {}
    BY <1>3, <1>7
  <2>2. QED
    BY <1>6, <1>7, <2>1 DEF Least
<1>8. CASE dueMinutes /= {}
  <2>1. PICK m \in dueMinutes : \A u \in dueMinutes : m <= u
    BY <1>5, <1>8, LeastNat
  <2>2. Min(dueMinutes) = m
    BY <1>5, <2>1, MinIs
  <2>3. Local(m) \in found /\ ToUtc(Local(m)) = m
    BY <1>4
  <2>4. \A l \in found : l \in Int /\ Local(m) <= l
    <3>1. ASSUME NEW l \in found
          PROVE  l \in Int /\ Local(m) <= l
      <4>1. ToUtc(l) \in dueMinutes /\ Local(ToUtc(l)) = l
        BY <1>3
      <4>2. ~Fold(ToUtc(l)) /\ m <= ToUtc(l) /\ ToUtc(l) \in Minutes /\ m \in Minutes
        BY <1>4, <1>5, <2>1, <4>1
      <4>3. QED
        BY <1>2, <4>1, <4>2
    <3>2. QED
      BY <3>1
  <2>5. Min(found) = Local(m)
    <3>1. found \in SUBSET Int
      BY <2>4
    <3>2. QED
      BY <2>3, <2>4, <3>1, MinIs
  <2>6. QED
    BY <1>6, <1>8, <2>2, <2>3, <2>5 DEF Least
<1>9. QED
  BY <1>7, <1>8

\* The question goes on in the minutes of its zone.
LEMMA CalendarInitInv == CalendarInit => CalendarInv
<1> SUFFICES ASSUME CalendarInit PROVE CalendarInv
  OBVIOUS
<1>1. schedule \in [saved: CalendarSchedules, zone: Zones] /\ after = 0
  BY DEF CalendarInit
<1>2. 0 \in Minutes
  <2>1. schedule.zone \in Zones
    BY <1>1
  <2>2. /\ Max(DOMAIN schedule.zone) \in Nat
        /\ schedule.zone \in [0..Max(DOMAIN schedule.zone) -> Int]
    BY <2>1, ZonesAssumption
  <2>3. QED
    BY <2>2 DEF Minutes
<1>3. QED
  BY <1>1, <1>2 DEF CalendarInv

\* Only the minute changes, and stays one of the clock.
LEMMA CalendarStepInv == CalendarInv /\ [CalendarNext]_calendarVars => CalendarInv'
BY DEF CalendarInv, CalendarNext, MinutePasses, calendarVars, Minutes

\* For every schedule and zone, at each minute: the next run that is told is the first
\* minute after it that the scheduler takes as due.
THEOREM NextRunTold == CalendarSpec => []NextRunIsFirstDue
<1>1. CalendarInv => NextRunIsFirstDue
  BY NextIsFirst
<1>2. QED
  BY <1>1, CalendarInitInv, CalendarStepInv, PTL DEF CalendarSpec

(***************************************************************************)
(* Orders                                                                   *)
(***************************************************************************)
\* Rows that come after those there are leave them in one order.
LEMMA JoinedOrdered ==
  ASSUME NEW rows, NEW order, Ordered(order, rows), NEW new \in SUBSET Nat, new \cap rows = {}
  PROVE  Ordered(Joined(order, rows, new), rows \cup new)
<1> DEFINE Before(j, k)      == <<j, k>> \in order
           BeforeThen(j, k)  == <<j, k>> \in Joined(order, rows, new)
<1>1. /\ \A j, k : Before(j, k) => j \in rows /\ k \in rows
      /\ \A j, k \in rows : j /= k => (Before(j, k) <=> ~Before(k, j))
      /\ \A i, j, k \in rows : Before(i, j) /\ Before(j, k) => Before(i, k)
      /\ \A j \in rows : ~Before(j, j)
  BY DEF Ordered
<1>2. \A j, k : BeforeThen(j, k) <=>
                 (Before(j, k) \/ (j \in rows /\ k \in new) \/ (j \in new /\ k \in new /\ j < k))
  BY DEF Joined, ById
<1>3. \A j \in new : j \in Nat /\ j \notin rows
  OBVIOUS
<1>4. Joined(order, rows, new) \subseteq (rows \cup new) \X (rows \cup new)
  BY DEF Joined, ById, Ordered
<1>5. \A j, k \in new : j /= k => (j < k <=> ~(k < j))
  BY <1>3
<1>6. \A i, j, k \in new : i < j /\ j < k => i < k
  BY <1>3
<1>7. \A j \in new : ~(j < j)
  BY <1>3
<1> DEFINE Less(j, k) == j < k
<1>8. /\ \A j, k \in new : j /= k => (Less(j, k) <=> ~Less(k, j))
      /\ \A i, j, k \in new : Less(i, j) /\ Less(j, k) => Less(i, k)
      /\ \A j \in new : ~Less(j, j)
  BY <1>5, <1>6, <1>7
<1>9. \A j, k : BeforeThen(j, k) <=>
                 (Before(j, k) \/ (j \in rows /\ k \in new) \/ (j \in new /\ k \in new /\ Less(j, k)))
  BY <1>2
<1> HIDE DEF Before, BeforeThen, Less
<1>10. \A j, k \in rows \cup new : j /= k => (BeforeThen(j, k) <=> ~BeforeThen(k, j))
  BY <1>1, <1>3, <1>8, <1>9
<1>11. \A i, j, k \in rows \cup new : BeforeThen(i, j) /\ BeforeThen(j, k) => BeforeThen(i, k)
  BY <1>1, <1>3, <1>8, <1>9
<1>12. \A j \in rows \cup new : ~BeforeThen(j, j)
  BY <1>1, <1>3, <1>8, <1>9
<1>13. QED
  BY <1>4, <1>10, <1>11, <1>12 DEF Ordered, BeforeThen

\* Some of the rows are in one order as well.
LEMMA AmongOrdered ==
  ASSUME NEW rows, NEW order, Ordered(order, rows), NEW some \in SUBSET rows
  PROVE  Ordered(Among(order, some), some)
<1>1. \A j, k : <<j, k>> \in Among(order, some) <=> <<j, k>> \in order /\ j \in some /\ k \in some
  BY DEF Among
<1>2. Among(order, some) \subseteq some \X some
  BY DEF Among
<1>3. QED
  BY <1>1, <1>2 DEF Ordered

\* The first rows are some of the rows.
LEMMA FirstOfRows ==
  ASSUME NEW rows, NEW order, NEW limit
  PROVE  FirstOf(rows, order, limit) \subseteq rows
  BY DEF FirstOf

(***************************************************************************)
(* The watchdogs                                                            *)
(***************************************************************************)
\* The invariant that is proved of the watchdogs.  The lock of a task keeps its scans
\* apart, and a row's status keeps the scans of the two tasks apart.
WatchInv ==
  /\ WatchdogsTypeOK /\ GivenUpIsBatch /\ ChosenStaysDue
  /\ \A j \in Watched : GoodRow(table[j])
  /\ threads \in [Processes -> [Tasks -> (SUBSET Watched) \cup {NoScan, Hung}]]
  /\ \A p, q \in Processes, t \in Tasks : Scans(p, t) /\ Scans(q, t) => p = q
  /\ \A p \in Processes :
       Scans(p, "dispatch_watchdog") => threads[p]["dispatch_watchdog"] \cap WatchedLocal = {}

\* What a scan has chosen stays due as time goes on.
LEMMA AgedStaysDue ==
  ASSUME NEW row, GoodRow(row)
  PROVE  /\ Aged(row).status = row.status
         /\ Overdue(row) => Overdue(Aged(row))
         /\ row.status = "Cancelling" /\ row.cancelAge = CancelTimeout
              => Aged(row).cancelAge = CancelTimeout
<1>1. /\ Older(DispatchTimeout, DispatchTimeout) = DispatchTimeout
      /\ Older(CancelTimeout, CancelTimeout) = CancelTimeout
  BY JobStoreAssumption DEF Older
<1>2. CASE Unlinked(row)
  BY <1>1, <1>2 DEF Aged, Overdue, Unlinked, GoodRow, Row
<1>3. CASE ~Unlinked(row)
  BY <1>1, <1>3 DEF Aged, Overdue, Unlinked, GoodRow, Row
<1>4. QED
  BY <1>2, <1>3

\* One row that no scan has locked is replaced by a good one.
LEMMA ChangesInv ==
  ASSUME WatchInv, NEW j \in Watched, NEW row, GoodRow(row), Changes(j, row),
         j \in WatchedLocal => row.status # "Dispatch unknown"
  PROVE  WatchInv'
<1>1. /\ table' = [table EXCEPT ![j] = row] /\ j \notin LockedRows
      /\ asked' = IF row.status /= "Cancelling" THEN Among(asked, AskedRuns \ {j})
                 ELSE IF table[j].status = "Cancelling" THEN asked ELSE Joined(asked, AskedRuns, {j})
      /\ threads' = threads
  BY DEF Changes
<1>2. /\ table \in [Watched -> Row] /\ row \in Row /\ Ordered(asked, AskedRuns)
      /\ \A i \in Watched : GoodRow(table[i])
  BY DEF WatchInv, WatchdogsTypeOK, GoodRow
<1>3. /\ table' \in [Watched -> Row] /\ table'[j] = row
      /\ \A i \in Watched : i /= j => table'[i] = table[i]
  BY <1>1, <1>2
<1>4. Ordered(asked', AskedRuns')
  <2>1. CASE row.status /= "Cancelling"
    <3>1. AskedRuns' = AskedRuns \ {j} /\ AskedRuns \ {j} \in SUBSET AskedRuns
      BY <1>3, <2>1 DEF AskedRuns
    <3>2. QED
      BY <1>1, <1>2, <2>1, <3>1, AmongOrdered
  <2>2. CASE row.status = "Cancelling" /\ table[j].status = "Cancelling"
    <3>1. AskedRuns' = AskedRuns
      BY <1>3, <2>2 DEF AskedRuns
    <3>2. QED
      BY <1>1, <1>2, <2>2, <3>1
  <2>3. CASE row.status = "Cancelling" /\ table[j].status /= "Cancelling"
    <3>1. AskedRuns' = AskedRuns \cup {j} /\ {j} \cap AskedRuns = {}
      BY <1>3, <2>3 DEF AskedRuns
    <3>2. j \in Nat
      BY WatchdogsAssumption
    <3>3. {j} \in SUBSET Nat
      BY <3>2
    <3>4. QED
      BY <1>1, <1>2, <2>3, <3>1, <3>3, JoinedOrdered
  <2>4. QED
    BY <2>1, <2>2, <2>3
<1>5. ASSUME NEW p \in Processes, NEW t \in Tasks
      PROVE  /\ Scans(p, t)' = Scans(p, t)
             /\ Scans(p, t) => \A i \in threads[p][t] : i \in Watched /\ table'[i] = table[i]
  <2>1. Scans(p, t) => j \notin threads[p][t]
    BY <1>1 DEF LockedRows
  <2>2. Scans(p, t) => threads[p][t] \subseteq Watched
    BY DEF WatchInv, Scans
  <2>3. QED
    BY <1>1, <1>3, <2>1, <2>2 DEF Scans
<1>6. ChosenStaysDue'
  <2>1. "dispatch_watchdog" \in Tasks /\ "cancellation_reconciliation" \in Tasks
    BY DEF Tasks
  <2> SUFFICES ASSUME NEW p \in Processes
               PROVE  /\ Scans(p, "dispatch_watchdog") =>
                           \A i \in threads[p]["dispatch_watchdog"] : Overdue(table'[i])
                      /\ Scans(p, "cancellation_reconciliation") =>
                           \A i \in threads[p]["cancellation_reconciliation"] :
                             table'[i].status = "Cancelling" /\ table'[i].cancelAge = CancelTimeout
    BY <1>1, <1>5, <2>1 DEF ChosenStaysDue, Overdue, Unlinked
  <2>2. QED
    BY <1>5, <2>1 DEF WatchInv, ChosenStaysDue
<1>7. GivenUpIsBatch' /\ \A i \in Watched : GoodRow(table[i])'
  BY <1>2, <1>3, WatchdogsAssumption DEF WatchInv, GivenUpIsBatch, GoodRow
<1>8. QED
  BY <1>1, <1>3, <1>4, <1>6, <1>7 DEF WatchInv, WatchdogsTypeOK, Scans

\* The dispatcher links a run, a user stops one, and the runners report.
LEMMA RunChangesInv ==
  ASSUME WatchInv, NEW j \in Watched,
         RunIsLinked(j) \/ RunIsStopped(j) \/ StopConfirmed(j) \/ LocalReport(j)
  PROVE  WatchInv'
<1>1. GoodRow(table[j]) /\ (j \in WatchedLocal => table[j].status /= "Dispatch unknown")
  BY DEF WatchInv, GivenUpIsBatch
<1>2. CASE RunIsLinked(j)
  <2>1. table[j].status # "Absent" /\ SomeId \in ExternalIds /\ j \notin WatchedLocal
    BY <1>2, WatchdogsAssumption DEF RunIsLinked, Unlinked
  <2>2. GoodRow(Bind(table[j], SomeId))
    BY <1>1, <2>1, BindGood
  <2>3. QED
    BY <1>2, <2>1, <2>2, ChangesInv DEF RunIsLinked
<1>3. CASE RunIsStopped(j)
  BY <1>1, <1>3, RequestCancelGood, ChangesInv DEF RunIsStopped, LocalStep
<1>4. CASE StopConfirmed(j)
  BY <1>1, <1>4, CompleteCancelGood, ChangesInv DEF StopConfirmed, LocalStep
<1>5. CASE LocalReport(j)
  <2>1. "Running" \in {"Running", "Completed", "Failed"} /\ table[j].status # "Dispatch unknown"
    BY <1>5 DEF LocalReport
  <2>2. GoodRow(Report(table[j], "Running")) /\ LocalStep(table[j], Report(table[j], "Running"))
    BY <1>1, <2>1, ReportGood
  <2>3. QED
    BY <1>1, <1>5, <2>2, ChangesInv DEF LocalReport, LocalStep
<1>6. QED
  BY <1>2, <1>3, <1>4, <1>5

\* Time goes on for every row.
LEMMA TimeGoesOnInv ==
  ASSUME WatchInv, TimeGoesOn
  PROVE  WatchInv'
<1>1. /\ table' = [i \in Watched |-> Aged(table[i])] /\ asked' = asked /\ threads' = threads
      /\ \A i \in Watched : GoodRow(table[i])
  BY DEF TimeGoesOn, WatchInv
<1>2. \A i \in Watched :
        /\ table'[i].status = table[i].status /\ GoodRow(table'[i])
        /\ Overdue(table[i]) => Overdue(table'[i])
        /\ table[i].status = "Cancelling" /\ table[i].cancelAge = CancelTimeout
             => table'[i].cancelAge = CancelTimeout
  BY <1>1, AgedGood, AgedStaysDue
<1>3. table' \in [Watched -> Row]
  BY <1>1, <1>2 DEF GoodRow
<1>4. AskedRuns' = AskedRuns
  BY <1>2 DEF AskedRuns
<1>5. ChosenStaysDue'
  <2>1. ASSUME NEW p \in Processes, NEW t \in Tasks, Scans(p, t)
        PROVE  threads[p][t] \subseteq Watched
    BY <2>1 DEF WatchInv, Scans
  <2>2. "dispatch_watchdog" \in Tasks /\ "cancellation_reconciliation" \in Tasks
    BY DEF Tasks
  <2>3. QED
    BY <1>1, <1>2, <2>1, <2>2 DEF WatchInv, ChosenStaysDue, Scans
<1>6. QED
  BY <1>1, <1>2, <1>3, <1>4, <1>5, WatchdogsAssumption
  DEF WatchInv, WatchdogsTypeOK, GivenUpIsBatch, Scans

(***************************************************************************)
(* The scans                                                                *)
(***************************************************************************)
\* What a scan chooses is due when it is chosen.
LEMMA ChosenIsDue ==
  ASSUME WatchInv
  PROVE  /\ RowsFor("dispatch_watchdog") \subseteq Watched \ WatchedLocal
         /\ \A j \in RowsFor("dispatch_watchdog") : Overdue(table[j])
         /\ RowsFor("cancellation_reconciliation") \subseteq Watched
         /\ \A j \in RowsFor("cancellation_reconciliation") :
              table[j].status = "Cancelling" /\ table[j].cancelAge = CancelTimeout
  BY FirstOfRows DEF RowsFor, ExpiredRows, UnconfirmedRows, Expired, Unconfirmed, AskedRuns

\* A scan begins where no other of its task is under way.
LEMMA ScanBeginsInv ==
  ASSUME WatchInv, NEW p \in Processes, NEW t \in Tasks, ScanBegins(p, t)
  PROVE  WatchInv'
<1>1. /\ threads' = [threads EXCEPT ![p][t] = RowsFor(t)] /\ UNCHANGED <<table, asked>>
      /\ \A q \in Processes : ~Scans(q, t)
  BY DEF ScanBegins
<1>2. RowsFor(t) \subseteq Watched
  BY ChosenIsDue DEF Tasks
<1>3. /\ threads' \in [Processes -> [Tasks -> (SUBSET Watched) \cup {NoScan, Hung}]]
      /\ threads'[p][t] = RowsFor(t)
      /\ \A q \in Processes, u \in Tasks : q /= p \/ u /= t => threads'[q][u] = threads[q][u]
  BY <1>1, <1>2 DEF WatchInv
<1>4. \A q \in Processes, u \in Tasks : q /= p \/ u /= t => Scans(q, u)' = Scans(q, u)
  BY <1>3 DEF Scans
<1>5. \A q, o \in Processes, u \in Tasks : Scans(q, u)' /\ Scans(o, u)' => q = o
  BY <1>1, <1>4 DEF WatchInv
<1>6. "dispatch_watchdog" \in Tasks /\ "cancellation_reconciliation" \in Tasks
  BY DEF Tasks
<1>7. ASSUME NEW q \in Processes
      PROVE  /\ Scans(q, "dispatch_watchdog")' =>
                  /\ threads'[q]["dispatch_watchdog"] \cap WatchedLocal = {}
                  /\ \A j \in threads'[q]["dispatch_watchdog"] : Overdue(table[j])
             /\ Scans(q, "cancellation_reconciliation")' =>
                  \A j \in threads'[q]["cancellation_reconciliation"] :
                    table[j].status = "Cancelling" /\ table[j].cancelAge = CancelTimeout
  <2>1. CASE q = p /\ t = "dispatch_watchdog"
    BY <1>3, <1>4, <1>6, <2>1, ChosenIsDue DEF WatchInv, ChosenStaysDue
  <2>2. CASE q = p /\ t = "cancellation_reconciliation"
    BY <1>3, <1>4, <1>6, <2>2, ChosenIsDue DEF WatchInv, ChosenStaysDue
  <2>3. CASE q /= p
    BY <1>3, <1>4, <1>6, <2>3 DEF WatchInv, ChosenStaysDue
  <2>4. QED
    BY <2>1, <2>2, <2>3 DEF Tasks
<1>8. ChosenStaysDue'
  BY <1>1, <1>7 DEF ChosenStaysDue, Overdue, Unlinked
<1>9. QED
  BY <1>1, <1>3, <1>5, <1>7, <1>8 DEF WatchInv, WatchdogsTypeOK, GivenUpIsBatch, AskedRuns

\* A thread whose task hangs has locked nothing; a scan that ends has locked nothing any
\* more.
LEMMA ThreadFreedInv ==
  ASSUME WatchInv, NEW p \in Processes, NEW t \in Tasks, NEW free \in {NoScan, Hung},
         threads' = [threads EXCEPT ![p][t] = free]
  PROVE  /\ threads' \in [Processes -> [Tasks -> (SUBSET Watched) \cup {NoScan, Hung}]]
         /\ \A q \in Processes, u \in Tasks :
              Scans(q, u)' => /\ Scans(q, u) /\ threads'[q][u] = threads[q][u]
                              /\ q /= p \/ u /= t
<1>1. /\ threads' \in [Processes -> [Tasks -> (SUBSET Watched) \cup {NoScan, Hung}]]
      /\ threads'[p][t] = free
      /\ \A q \in Processes, u \in Tasks : q /= p \/ u /= t => threads'[q][u] = threads[q][u]
  BY DEF WatchInv
<1>2. QED
  BY <1>1 DEF Scans

\* A thread that hangs.
LEMMA ThreadHangsInv ==
  ASSUME WatchInv, NEW p \in Processes, NEW t \in Tasks, ThreadHangs(p, t)
  PROVE  WatchInv'
<1>1. threads' = [threads EXCEPT ![p][t] = Hung] /\ UNCHANGED <<table, asked>>
  BY DEF ThreadHangs
<1>2. /\ threads' \in [Processes -> [Tasks -> (SUBSET Watched) \cup {NoScan, Hung}]]
      /\ \A q \in Processes, u \in Tasks :
           Scans(q, u)' => Scans(q, u) /\ threads'[q][u] = threads[q][u]
  BY <1>1, ThreadFreedInv
<1>3. "dispatch_watchdog" \in Tasks /\ "cancellation_reconciliation" \in Tasks
  BY DEF Tasks
<1>4. ChosenStaysDue'
  BY <1>1, <1>2, <1>3 DEF WatchInv, ChosenStaysDue, Overdue, Unlinked
<1>5. QED
  BY <1>1, <1>2, <1>3, <1>4 DEF WatchInv, WatchdogsTypeOK, GivenUpIsBatch, AskedRuns

\* A scan writes the rows it chose, which are as they were, and frees them.
LEMMA ScanCommitsInv ==
  ASSUME WatchInv, NEW p \in Processes, NEW t \in Tasks, ScanCommits(p, t)
  PROVE  WatchInv'
<1> DEFINE chosen == threads[p][t]
<1>1. /\ Scans(p, t) /\ asked' = asked /\ threads' = [threads EXCEPT ![p][t] = NoScan]
      /\ table' = [j \in Watched |->
                     IF j \notin chosen THEN table[j]
                     ELSE IF t = "dispatch_watchdog" THEN Expire(table[j]) ELSE Flagged(table[j])]
  BY DEF ScanCommits
<1>2. /\ threads' \in [Processes -> [Tasks -> (SUBSET Watched) \cup {NoScan, Hung}]]
      /\ \A q \in Processes, u \in Tasks :
           Scans(q, u)' => /\ Scans(q, u) /\ threads'[q][u] = threads[q][u]
                           /\ q /= p \/ u /= t
  BY <1>1, ThreadFreedInv
<1>3. "dispatch_watchdog" \in Tasks /\ "cancellation_reconciliation" \in Tasks
  BY DEF Tasks
<1>4. ASSUME NEW j \in Watched
      PROVE  /\ GoodRow(table'[j])
             /\ table'[j].status = "Cancelling" <=> table[j].status = "Cancelling"
             /\ table'[j].cancelAge = table[j].cancelAge
             /\ table'[j].status /= table[j].status => t = "dispatch_watchdog" /\ j \in chosen
             /\ t /= "dispatch_watchdog" /\ Overdue(table[j]) => Overdue(table'[j])
  <2>1. GoodRow(table[j]) /\ table[j] \in Row
    BY DEF WatchInv, GoodRow
  <2>2. CASE j \notin chosen
    BY <1>1, <2>1, <2>2
  <2>3. CASE j \in chosen /\ t = "dispatch_watchdog"
    <3>1. Overdue(table[j]) /\ table'[j] = Expire(table[j])
      BY <1>1, <2>3 DEF WatchInv, ChosenStaysDue
    <3>2. GoodRow(Expire(table[j]))
      BY <2>1, ExpireGood
    <3>3. QED
      BY <2>1, <2>3, <3>1, <3>2 DEF Expire, Overdue, Unlinked, Row
  <2>4. CASE j \in chosen /\ t = "cancellation_reconciliation"
    <3>1. table[j].status = "Cancelling" /\ table'[j] = Flagged(table[j])
      BY <1>1, <2>4 DEF WatchInv, ChosenStaysDue
    <3>2. GoodRow(Flagged(table[j]))
      BY <2>1, <3>1, FlagGood DEF Flagged
    <3>3. QED
      BY <2>1, <2>4, <3>1, <3>2 DEF Flagged, Overdue, Unlinked, Row
  <2>5. QED
    BY <2>2, <2>3, <2>4 DEF Tasks
<1>5. table' \in [Watched -> Row]
  BY <1>1, <1>4 DEF GoodRow
<1>6. Ordered(asked', AskedRuns')
  <2>1. AskedRuns' = AskedRuns
    BY <1>4 DEF AskedRuns
  <2>2. QED
    BY <1>1, <2>1 DEF WatchInv, WatchdogsTypeOK
<1>7. GivenUpIsBatch'
  <2>1. t = "dispatch_watchdog" => chosen \cap WatchedLocal = {}
    BY <1>1 DEF WatchInv
  <2>2. QED
    BY <1>4, <2>1, WatchdogsAssumption DEF WatchInv, GivenUpIsBatch
<1>8. ChosenStaysDue'
  <2> SUFFICES ASSUME NEW q \in Processes
               PROVE  /\ Scans(q, "dispatch_watchdog")' =>
                           \A j \in threads'[q]["dispatch_watchdog"] : Overdue(table'[j])
                      /\ Scans(q, "cancellation_reconciliation")' =>
                           \A j \in threads'[q]["cancellation_reconciliation"] :
                             table'[j].status = "Cancelling" /\ table'[j].cancelAge = CancelTimeout
    BY DEF ChosenStaysDue, Overdue, Unlinked
  <2>1. ASSUME Scans(q, "dispatch_watchdog")', NEW j \in threads'[q]["dispatch_watchdog"]
        PROVE  Overdue(table'[j])
    <3>1. /\ Scans(q, "dispatch_watchdog") /\ j \in threads[q]["dispatch_watchdog"]
          /\ q /= p \/ t /= "dispatch_watchdog"
      BY <1>2, <1>3, <2>1
    <3>2. t /= "dispatch_watchdog"
      BY <1>1, <3>1 DEF WatchInv
    <3>3. Overdue(table[j]) /\ j \in Watched
      BY <1>3, <3>1 DEF WatchInv, ChosenStaysDue, Scans
    <3>4. QED
      BY <1>4, <3>2, <3>3
  <2>2. ASSUME Scans(q, "cancellation_reconciliation")',
               NEW j \in threads'[q]["cancellation_reconciliation"]
        PROVE  table'[j].status = "Cancelling" /\ table'[j].cancelAge = CancelTimeout
    <3>1. Scans(q, "cancellation_reconciliation") /\ j \in threads[q]["cancellation_reconciliation"]
      BY <1>2, <1>3, <2>2
    <3>2. table[j].status = "Cancelling" /\ table[j].cancelAge = CancelTimeout /\ j \in Watched
      BY <1>3, <3>1 DEF WatchInv, ChosenStaysDue, Scans
    <3>3. QED
      BY <1>4, <3>2
  <2>3. QED
    BY <2>1, <2>2
<1>9. QED
  BY <1>2, <1>3, <1>4, <1>5, <1>6, <1>7, <1>8 DEF WatchInv, WatchdogsTypeOK

\* No run is there to be watched at first.
LEMMA WatchInitInv == WatchdogsInit => WatchInv
<1> SUFFICES ASSUME WatchdogsInit PROVE WatchInv
  OBVIOUS
<1>1. /\ table = [j \in Watched |-> NewRow] /\ asked = {}
      /\ threads = [p \in Processes |-> [t \in Tasks |-> NoScan]]
  BY DEF WatchdogsInit
<1>2. GoodRow(NewRow) /\ NewRow \in Row /\ NewRow.status = "Pending"
  BY NewRowGood DEF GoodRow, NewRow, AbsentRow
<1>3. AskedRuns = {}
  BY <1>1, <1>2 DEF AskedRuns
<1>4. "dispatch_watchdog" \in Tasks /\ "cancellation_reconciliation" \in Tasks
  BY DEF Tasks
<1>5. Ordered(asked, AskedRuns)
  BY <1>1, <1>3 DEF Ordered
<1>6. QED
  BY <1>1, <1>2, <1>4, <1>5, WatchdogsAssumption
  DEF WatchInv, WatchdogsTypeOK, GivenUpIsBatch, ChosenStaysDue, Scans

\* Every step of the watchdogs, and of what else happens to their rows, keeps the invariant.
LEMMA WatchStep == WatchInv /\ [WatchdogsNext]_watchVars => WatchInv'
<1> SUFFICES ASSUME WatchInv, [WatchdogsNext]_watchVars PROVE WatchInv'
  OBVIOUS
<1>1. CASE TimeGoesOn
  BY <1>1, TimeGoesOnInv
<1>2. CASE \E j \in Watched : RunIsLinked(j) \/ RunIsStopped(j) \/ StopConfirmed(j) \/ LocalReport(j)
  BY <1>2, RunChangesInv
<1>3. CASE \E p \in Processes, t \in Tasks : RunsTask(p, t) \/ ThreadHangs(p, t)
  BY <1>3, ScanBeginsInv, ScanCommitsInv, ThreadHangsInv DEF RunsTask
<1>4. CASE UNCHANGED watchVars
  BY <1>4 DEF watchVars, WatchInv, WatchdogsTypeOK, GivenUpIsBatch, ChosenStaysDue, AskedRuns, Scans
<1>5. QED
  BY <1>1, <1>2, <1>3, <1>4 DEF WatchdogsNext

\* The invariant holds of every reachable state of the watchdogs.
THEOREM WatchInvariant == WatchdogsSpec => []WatchInv
BY WatchInitInv, WatchStep, PTL DEF WatchdogsSpec

\* Rows have their types, only Batch runs are given up as unknown, and what a scan writes
\* is of the row it chose.
THEOREM WatchdogsRight == WatchdogsSpec => [](WatchdogsTypeOK /\ GivenUpIsBatch /\ ChosenStaysDue)
<1>1. WatchInv => WatchdogsTypeOK /\ GivenUpIsBatch /\ ChosenStaysDue
  BY DEF WatchInv
<1>2. QED
  BY <1>1, WatchInvariant, PTL

(***************************************************************************)
(* Deliveries                                                               *)
(***************************************************************************)
\* Rows whose sending is known, or will be when the pass commits.
Answered(r) == r \in marked \/ (pass /= NoPass /\ r \in pass.sent)

\* The invariant that is proved of the deliveries: a message beyond the answered one is
\* paid for by a send that failed or by a pass that was lost.
OutboxInv ==
  /\ OutboxTypeOK
  /\ sends \in [Runs -> Nat] /\ delays \in [Runs -> 1..MaxDelay] /\ failures \in Nat /\ deaths \in Nat
  /\ \A r \in Runs : Answered(r) => sends[r] > 0
  /\ \A r \in Runs : sends[r] <= (IF Answered(r) THEN 1 ELSE 0) + failures + deaths

\* What the invariant promises.
LEMMA OutboxPromises ==
  ASSUME OutboxInv
  PROVE  OutboxTypeOK /\ SentIsQueued /\ SentOnceButForLosses
<1>1. \A r \in Runs : sends[r] \in Nat /\ failures \in Nat /\ deaths \in Nat
  BY DEF OutboxInv
<1>2. SentIsQueued
  BY DEF OutboxInv, OutboxTypeOK, Known, SentIsQueued, Answered
<1>3. SentOnceButForLosses
  BY <1>1 DEF OutboxInv, SentOnceButForLosses
<1>4. QED
  BY <1>2, <1>3 DEF OutboxInv

\* A run is registered with its row.
LEMMA RowAddedInv ==
  ASSUME OutboxInv, RowAdded
  PROVE  OutboxInv'
<1>1. PICK r \in Runs \ Known : due' = due \cup {r} /\ earlier' = Joined(earlier, due, {r})
  BY DEF RowAdded
<1>2. UNCHANGED <<waiting, delays, marked, pending, pass, sends, failures, deaths>>
  BY DEF RowAdded
<1>3. r \in Runs /\ r \notin due /\ r \notin DOMAIN waiting /\ r \notin marked
  BY DEF Known
<1>4. Ordered(earlier', due')
  <2>1. r \in Nat
    BY OutboxAssumption
  <2>2. {r} \in SUBSET Nat /\ {r} \cap due = {} /\ Ordered(earlier, due)
    BY <1>3, <2>1 DEF OutboxInv, OutboxTypeOK
  <2>3. QED
    BY <1>1, <2>2, JoinedOrdered
<1>5. OutboxTypeOK'
  BY <1>1, <1>2, <1>3, <1>4 DEF OutboxInv, OutboxTypeOK, Known
<1>6. QED
  BY <1>2, <1>5 DEF OutboxInv, Answered

\* A run leaves Pending.
LEMMA RunLeavesPendingInv ==
  ASSUME OutboxInv, RunLeavesPending
  PROVE  OutboxInv'
<1>1. /\ pending' \subseteq pending
      /\ UNCHANGED <<due, earlier, waiting, delays, marked, pass, sends, failures, deaths>>
  BY DEF RunLeavesPending
<1>2. OutboxTypeOK'
  BY <1>1 DEF OutboxInv, OutboxTypeOK, Known
<1>3. QED
  BY <1>1, <1>2 DEF OutboxInv, Answered

\* Time goes on for the rows that wait and for the delays the pass has set.
LEMMA TimePassesInv ==
  ASSUME OutboxInv, TimePasses
  PROVE  OutboxInv'
<1>1. /\ due' = due \cup Arriving /\ earlier' = Joined(earlier, due, Arriving)
      /\ waiting' = [r \in DOMAIN waiting \ Arriving |-> waiting[r] - 1]
      /\ pass' = IF pass = NoPass THEN NoPass
                 ELSE [pass EXCEPT !.retry = [r \in DOMAIN pass.retry |-> Nearer(pass.retry[r])]]
      /\ UNCHANGED <<delays, marked, pending, sends, failures, deaths>>
  BY DEF TimePasses
<1>2. Arriving \subseteq DOMAIN waiting /\ \A r \in DOMAIN waiting \ Arriving : ~(waiting[r] <= 1)
  BY DEF Arriving
<1>3. /\ Ordered(earlier, due) /\ DOMAIN waiting \subseteq Runs /\ due \cap DOMAIN waiting = {}
      /\ \A r \in DOMAIN waiting : waiting[r] \in 1..MaxDelay
  BY DEF OutboxInv, OutboxTypeOK, Known
<1>4. Ordered(earlier', due')
  <2>1. Arriving \in SUBSET Nat /\ Arriving \cap due = {}
    BY <1>2, <1>3, OutboxAssumption
  <2>2. QED
    BY <1>1, <1>3, <2>1, JoinedOrdered
<1>5. DOMAIN waiting' = DOMAIN waiting \ Arriving /\ \A r \in DOMAIN waiting' : waiting'[r] \in 1..MaxDelay
  <2>1. MaxDelay \in Nat
    BY OutboxAssumption
  <2>2. QED
    BY <1>1, <1>2, <1>3, <2>1
<1>6. /\ pass = NoPass <=> pass' = NoPass
      /\ pass' /= NoPass =>
           /\ pass' \in Pass /\ pass'.rows = pass.rows /\ pass'.sent = pass.sent
           /\ DOMAIN pass'.retry = DOMAIN pass.retry
  <2>1. CASE pass = NoPass
    BY <1>1, <2>1
  <2>2. CASE pass /= NoPass
    <3> DEFINE retry == [r \in DOMAIN pass.retry |-> Nearer(pass.retry[r])]
    <3>1. pass' = [pass EXCEPT !.retry = retry] /\ pass \in Pass
      BY <1>1, <2>2 DEF OutboxInv, OutboxTypeOK
    <3>2. PICK some \in SUBSET Runs : pass.retry \in [some -> 0..MaxDelay]
      BY <3>1 DEF Pass
    <3>3. retry \in [some -> 0..MaxDelay]
      BY <3>2, OutboxAssumption DEF Nearer
    <3> HIDE DEF retry
    <3>4. pass' \in Pass /\ pass'.rows = pass.rows /\ pass'.sent = pass.sent /\ pass'.retry = retry
      BY <3>1, <3>3 DEF Pass
    <3>5. QED
      BY <2>2, <3>2, <3>3, <3>4, OutboxAssumption
  <2>3. QED
    BY <2>1, <2>2
<1>7. OutboxTypeOK'
  BY <1>1, <1>2, <1>4, <1>5, <1>6 DEF OutboxInv, OutboxTypeOK, Known
<1>8. \A r \in Runs : Answered(r)' = Answered(r)
  BY <1>1, <1>6 DEF Answered
<1>9. QED
  BY <1>1, <1>7, <1>8 DEF OutboxInv

\* A pass takes rows that are due.
LEMMA DeliveryBeginsInv ==
  ASSUME OutboxInv, DeliveryBegins
  PROVE  OutboxInv'
<1>1. /\ pass = NoPass /\ pass' = [rows |-> Batch, sent |-> {}, retry |-> [r \in {} |-> 0]]
      /\ UNCHANGED <<due, earlier, waiting, delays, marked, pending, sends, failures, deaths>>
  BY DEF DeliveryBegins
<1>2. Batch \subseteq due /\ due \subseteq Runs
  BY FirstOfRows DEF Batch, OutboxInv, OutboxTypeOK, Known
<1>3. [r \in {} |-> 0] \in [{} -> 0..MaxDelay] /\ {} \in SUBSET Runs
  OBVIOUS
<1>4. /\ pass' \in Pass /\ pass'.rows = Batch /\ pass'.sent = {} /\ DOMAIN pass'.retry = {}
  BY <1>1, <1>2, <1>3 DEF Pass
<1>5. OutboxTypeOK'
  BY <1>1, <1>2, <1>4 DEF OutboxInv, OutboxTypeOK, Known
<1>6. \A r \in Runs : Answered(r)' = Answered(r)
  BY <1>1, <1>4 DEF Answered
<1>7. QED
  BY <1>1, <1>5, <1>6 DEF OutboxInv

\* A row that a pass reaches was neither sent by it nor marked before.
LEMMA ReachedUnanswered ==
  ASSUME OutboxInv, NEW r \in Runs, Reaches(r)
  PROVE  pass /= NoPass /\ pass \in Pass /\ r \in pass.rows /\ ~Answered(r)
  BY DEF OutboxInv, OutboxTypeOK, Reaches, Answered

\* The queue takes a message.
LEMMA SendSucceedsInv ==
  ASSUME OutboxInv, SendSucceeds
  PROVE  OutboxInv'
<1>1. PICK r \in Runs \ Undeliverable :
        /\ Reaches(r) /\ sends' = [sends EXCEPT ![r] = sends[r] + 1]
        /\ pass' = [pass EXCEPT !.rows = pass.rows \ {r}, !.sent = pass.sent \cup {r}]
  BY DEF SendSucceeds
<1>2. UNCHANGED <<due, earlier, waiting, delays, marked, pending, failures, deaths>>
  BY DEF SendSucceeds
<1>3. pass /= NoPass /\ pass \in Pass /\ r \in pass.rows /\ ~Answered(r)
  BY <1>1, ReachedUnanswered
<1>4. /\ pass' \in Pass /\ pass'.rows = pass.rows \ {r} /\ pass'.sent = pass.sent \cup {r}
      /\ pass'.retry = pass.retry /\ pass' /= NoPass
  <2> DEFINE Retries == UNION {[some -> 0..MaxDelay] : some \in SUBSET Runs}
  <2>1. Pass = [rows: SUBSET Runs, sent: SUBSET Runs, retry: Retries]
    BY DEF Pass
  <2> HIDE DEF Retries
  <2>2. pass.rows \in SUBSET Runs /\ pass.sent \in SUBSET Runs /\ pass.retry \in Retries
    BY <1>3, <2>1
  <2>3. pass' = [rows |-> pass.rows \ {r}, sent |-> pass.sent \cup {r}, retry |-> pass.retry]
    BY <1>1, <1>3, <2>1
  <2>4. pass' \in Pass
    BY <1>1, <2>1, <2>2, <2>3
  <2>5. QED
    BY <2>3, <2>4, OutboxAssumption
<1>5. OutboxTypeOK'
  BY <1>2, <1>3, <1>4 DEF OutboxInv, OutboxTypeOK, Known
<1>6. /\ Answered(r)' /\ \A q \in Runs : q /= r => (Answered(q)' <=> Answered(q))
  BY <1>2, <1>3, <1>4 DEF Answered
<1>7. /\ sends' \in [Runs -> Nat] /\ sends'[r] = sends[r] + 1 /\ sends[r] \in Nat
      /\ \A q \in Runs : q /= r => sends'[q] = sends[q]
  BY <1>1 DEF OutboxInv
<1>8. sends'[r] > 0 /\ sends'[r] <= 1 + failures + deaths
  BY <1>3, <1>7 DEF OutboxInv
<1>9. \A q \in Runs : /\ Answered(q)' => sends'[q] > 0
                      /\ sends'[q] <= (IF Answered(q)' THEN 1 ELSE 0) + failures + deaths
  BY <1>6, <1>7, <1>8 DEF OutboxInv
<1>10. QED
  BY <1>2, <1>5, <1>7, <1>9 DEF OutboxInv

\* A send fails, or its answer is lost.
LEMMA SendFailsInv ==
  ASSUME OutboxInv, SendFails
  PROVE  OutboxInv'
<1>1. PICK r \in Runs, accepted \in BOOLEAN :
        /\ Reaches(r)
        /\ IF r \in Undeliverable THEN ~accepted /\ UNCHANGED failures
           ELSE failures < MaxFailures /\ failures' = failures + 1
        /\ sends' = IF accepted THEN [sends EXCEPT ![r] = sends[r] + 1] ELSE sends
        /\ pass' = [pass EXCEPT !.rows = pass.rows \ {r},
                                 !.retry = [q \in {r} \cup DOMAIN pass.retry |->
                                              IF q = r THEN delays[r] ELSE pass.retry[q]]]
  BY DEF SendFails
<1>2. UNCHANGED <<due, earlier, waiting, delays, marked, pending, deaths>>
  BY DEF SendFails
<1>3. pass /= NoPass /\ pass \in Pass /\ r \in pass.rows /\ ~Answered(r)
  BY <1>1, ReachedUnanswered
<1> DEFINE retry == [q \in {r} \cup DOMAIN pass.retry |-> IF q = r THEN delays[r] ELSE pass.retry[q]]
<1>4. PICK some \in SUBSET Runs : pass.retry \in [some -> 0..MaxDelay]
  BY <1>3 DEF Pass
<1>5. DOMAIN pass.retry = some
  BY <1>4
<1>6. delays[r] \in 0..MaxDelay
  BY OutboxAssumption DEF OutboxInv
<1>7. retry \in [{r} \cup some -> 0..MaxDelay] /\ {r} \cup some \in SUBSET Runs
  BY <1>4, <1>5, <1>6
<1> HIDE DEF retry
<1>8. /\ pass' \in Pass /\ pass'.rows = pass.rows \ {r} /\ pass'.sent = pass.sent
      /\ pass'.retry = retry
  BY <1>1, <1>3, <1>7 DEF Pass, retry
<1>9. pass' /= NoPass /\ DOMAIN pass'.retry = DOMAIN pass.retry \cup {r}
  BY <1>4, <1>7, <1>8, OutboxAssumption
<1>10. OutboxTypeOK'
  BY <1>2, <1>3, <1>8, <1>9 DEF OutboxInv, OutboxTypeOK, Known
<1>11. \A q \in Runs : Answered(q)' <=> Answered(q)
  BY <1>2, <1>3, <1>8, <1>9 DEF Answered
<1>12. /\ sends' \in [Runs -> Nat] /\ failures' \in Nat /\ failures <= failures'
       /\ \A q \in Runs : sends[q] <= sends'[q] /\ sends'[q] + failures <= sends[q] + failures'
  <2>1. sends \in [Runs -> Nat] /\ failures \in Nat
    BY DEF OutboxInv
  <2>2. CASE r \in Undeliverable
    BY <1>1, <2>1, <2>2
  <2>3. CASE r \notin Undeliverable
    BY <1>1, <2>1, <2>3
  <2>4. QED
    BY <2>2, <2>3
<1>13. ASSUME NEW q \in Runs
       PROVE  /\ Answered(q)' => sends'[q] > 0
              /\ sends'[q] <= (IF Answered(q)' THEN 1 ELSE 0) + failures' + deaths
  <2>1. /\ sends[q] \in Nat /\ sends'[q] \in Nat /\ failures \in Nat /\ failures' \in Nat /\ deaths \in Nat
    BY <1>12 DEF OutboxInv
  <2>2. /\ Answered(q) => sends[q] > 0
        /\ sends[q] <= (IF Answered(q) THEN 1 ELSE 0) + failures + deaths
    BY DEF OutboxInv
  <2>3. QED
    BY <1>11, <1>12, <2>1, <2>2
<1>14. QED
  BY <1>2, <1>10, <1>12, <1>13 DEF OutboxInv

\* A pass commits: what it sent is marked, what it could not send waits.
LEMMA DeliveryCommitsInv ==
  ASSUME OutboxInv, DeliveryCommits
  PROVE  OutboxInv'
<1> DEFINE again == {r \in DOMAIN pass.retry : pass.retry[r] = 0}
<1>1. /\ pass /= NoPass /\ pass' = NoPass
      /\ due' = LeftAfterPass \cup again
      /\ earlier' = Joined(Among(earlier, LeftAfterPass), LeftAfterPass, again)
      /\ waiting' = [r \in (DOMAIN pass.retry \ again) \cup DOMAIN waiting |->
                       IF r \in DOMAIN waiting THEN waiting[r] ELSE pass.retry[r]]
      /\ marked' = marked \cup pass.sent
      /\ delays' = [r \in Runs |-> IF r \in DOMAIN pass.retry THEN Doubled(delays[r]) ELSE delays[r]]
      /\ UNCHANGED <<pending, sends, failures, deaths>>
  BY DEF DeliveryCommits, MarkedByPass
<1>2. /\ pass \in Pass /\ Ordered(earlier, due) /\ due \subseteq Runs
      /\ pass.sent \subseteq due /\ DOMAIN pass.retry \subseteq due /\ pass.sent \cap DOMAIN pass.retry = {}
      /\ due \cap DOMAIN waiting = {} /\ marked \cap (due \cup DOMAIN waiting) = {}
      /\ \A r \in DOMAIN waiting : waiting[r] \in 1..MaxDelay
  BY <1>1 DEF OutboxInv, OutboxTypeOK, Known
<1>3. \A r \in DOMAIN pass.retry : pass.retry[r] \in 0..MaxDelay
  BY <1>2 DEF Pass
<1>4. LeftAfterPass = due \ (pass.sent \cup DOMAIN pass.retry)
  BY DEF LeftAfterPass, MarkedByPass
<1>5. Ordered(earlier', due')
  <2>1. LeftAfterPass \in SUBSET due
    BY <1>4
  <2>2. again \in SUBSET Nat /\ again \cap LeftAfterPass = {}
    BY <1>2, <1>4, OutboxAssumption
  <2>3. Ordered(Among(earlier, LeftAfterPass), LeftAfterPass)
    BY <1>2, <2>1, AmongOrdered
  <2> HIDE DEF again
  <2>4. QED
    BY <1>1, <2>2, <2>3, JoinedOrdered
<1>6. /\ DOMAIN waiting' = (DOMAIN pass.retry \ again) \cup DOMAIN waiting
      /\ \A r \in DOMAIN waiting' : waiting'[r] \in 1..MaxDelay
  <2>1. \A r \in DOMAIN pass.retry \ again : pass.retry[r] \in 1..MaxDelay
    BY <1>3, OutboxAssumption
  <2> HIDE DEF again
  <2>2. QED
    BY <1>1, <1>2, <2>1
<1>7. OutboxTypeOK'
  BY <1>1, <1>2, <1>4, <1>5, <1>6 DEF OutboxInv, OutboxTypeOK, Known
<1>8. delays' \in [Runs -> 1..MaxDelay]
  BY <1>1, OutboxAssumption DEF OutboxInv, Doubled
<1>9. \A r \in Runs : Answered(r)' <=> Answered(r)
  BY <1>1 DEF Answered
<1>10. QED
  BY <1>1, <1>7, <1>8, <1>9 DEF OutboxInv

\* A pass is lost with what it has written: each of its messages may come again.
LEMMA DeliveryLostInv ==
  ASSUME OutboxInv, DeliveryLost
  PROVE  OutboxInv'
<1>1. /\ deaths' = deaths + 1 /\ pass' = NoPass
      /\ UNCHANGED <<due, earlier, waiting, delays, marked, pending, sends, failures>>
  BY DEF DeliveryLost
<1>2. OutboxTypeOK'
  BY <1>1 DEF OutboxInv, OutboxTypeOK, Known
<1>3. ASSUME NEW r \in Runs
      PROVE  /\ Answered(r)' => sends[r] > 0
             /\ sends[r] <= (IF Answered(r)' THEN 1 ELSE 0) + failures + deaths'
  <2>1. /\ sends[r] \in Nat /\ failures \in Nat /\ deaths \in Nat
        /\ Answered(r) => sends[r] > 0
        /\ sends[r] <= (IF Answered(r) THEN 1 ELSE 0) + failures + deaths
    BY DEF OutboxInv
  <2>2. Answered(r)' => Answered(r)
    BY <1>1 DEF Answered
  <2>3. QED
    BY <1>1, <2>1, <2>2
<1>4. QED
  BY <1>1, <1>2, <1>3 DEF OutboxInv

\* Nothing is registered at first.
LEMMA OutboxInitInv == OutboxInit => OutboxInv
<1> SUFFICES ASSUME OutboxInit PROVE OutboxInv
  OBVIOUS
<1>1. OutboxTypeOK
  BY DEF OutboxInit, OutboxTypeOK, Known, Ordered
<1>2. QED
  BY <1>1, OutboxAssumption DEF OutboxInit, OutboxInv, Answered

\* Every step of the deliveries keeps the invariant.
LEMMA OutboxStep == OutboxInv /\ [OutboxNext]_outboxVars => OutboxInv'
<1> SUFFICES ASSUME OutboxInv, [OutboxNext]_outboxVars PROVE OutboxInv'
  OBVIOUS
<1>1. CASE UNCHANGED outboxVars
  BY <1>1 DEF outboxVars, OutboxInv, OutboxTypeOK, Known, Answered
<1>2. QED
  BY <1>1, RowAddedInv, RunLeavesPendingInv, TimePassesInv, DeliveryBeginsInv, SendSucceedsInv,
     SendFailsInv, DeliveryCommitsInv, DeliveryLostInv DEF OutboxNext

\* The invariant holds of every reachable state of the deliveries.
THEOREM OutboxInvariant == OutboxSpec => []OutboxInv
BY OutboxInitInv, OutboxStep, PTL DEF OutboxSpec

\* A row is due, waits or is marked; what is marked was sent; and a run is sent again
\* only where an answer or a pass was lost.
THEOREM DeliveriesRight == OutboxSpec => [](OutboxTypeOK /\ SentIsQueued /\ SentOnceButForLosses)
<1>1. OutboxInv => OutboxTypeOK /\ SentIsQueued /\ SentOnceButForLosses
  BY OutboxPromises
<1>2. QED
  BY <1>1, OutboxInvariant, PTL


(***************************************************************************)
(* A local run: the row                                                     *)
(***************************************************************************)
\* The row of a local run: it has no Batch job and no dispatch to expire.
RunnerRow(row) == GoodRow(row) /\ row.status \notin {"Absent", "Dispatch unknown"} /\ row.ext = None

\* What no call does to it: to give back the claim, or to wait for its start again.
RunnerStep(old, new) ==
  /\ RunnerRow(new)
  /\ old.claimed => new.claimed
  /\ new.status = "Pending" => old.status = "Pending"

\* update_job_status with each outcome; only it completes a run, and a cancelled run
\* stays as it is.
LEMMA ReportRunner ==
  ASSUME NEW row, RunnerRow(row), NEW status \in {"Running", "Completed", "Failed"}
  PROVE  /\ RunnerStep(row, Report(row, status)) /\ Report(row, status).status /= "Pending"
         /\ Report(row, status).claimed = row.claimed
         /\ Report(row, status).status = "Completed" => status = "Completed"
         /\ Report(row, status).status = "Cancelled" => status = "Failed" \/ row.status = "Cancelled"
<1>1. GoodRow(Report(row, status)) /\ GoodStep(row, Report(row, status)) /\ LocalStep(row, Report(row, status))
  BY ReportGood DEF RunnerRow
<1>2. row \in Row
  BY DEF RunnerRow, GoodRow
<1>3. QED
  BY <1>1, <1>2 DEF RunnerRow, RunnerStep, GoodStep, LocalStep, Report, Row

\* claim_scheduled_dispatch.
LEMMA ClaimRunner ==
  ASSUME NEW row, RunnerRow(row)
  PROVE  /\ RunnerStep(row, Claim(row)) /\ Claim(row).status = row.status
         /\ Claimable(row) => Claim(row).claimed /\ row.status = "Pending" /\ ~row.claimed
         /\ ~Claimable(row) => Claim(row) = row
<1>1. GoodRow(Claim(row)) /\ GoodStep(row, Claim(row))
  BY ClaimGood DEF RunnerRow
<1>2. row \in Row
  BY DEF RunnerRow, GoodRow
<1>3. QED
  BY <1>1, <1>2 DEF RunnerRow, RunnerStep, GoodStep, Claim, Claimable, Unlinked, Row

\* request_job_cancellation: a claimed run that has not started is left alone, one that
\* is not claimed is cancelled at once.
LEMMA RequestCancelRunner ==
  ASSUME NEW row, RunnerRow(row), row.status \notin Finished
  PROVE  LET new == RequestCancel(row)
         IN /\ RunnerStep(row, new) /\ new.claimed = row.claimed /\ new.status /= "Completed"
            /\ new.status = "Cancelled" => ~row.claimed
            /\ row.status = "Pending" /\ row.claimed => new = row
            /\ Stops(row) => new.status = "Cancelling"
<1>1. GoodRow(RequestCancel(row)) /\ GoodStep(row, RequestCancel(row)) /\ LocalStep(row, RequestCancel(row))
  BY RequestCancelGood DEF RunnerRow
<1>2. row \in Row
  BY DEF RunnerRow, GoodRow
<1>3. QED
  BY <1>1, <1>2
  DEF RunnerRow, RunnerStep, GoodStep, LocalStep, RequestCancel, Stops, Claimable, Unlinked, Finished, Row

\* complete_local_cancellation and record_cancellation_failure.
LEMMA EndCancelRunner ==
  ASSUME NEW row, RunnerRow(row), NEW new \in {CompleteCancel(row), RevertCancel(row)}
  PROVE  /\ RunnerStep(row, new) /\ new.claimed = row.claimed
         /\ row.status = "Pending" => new = row
         /\ new.status = "Completed" => row.status = "Completed"
<1>1. /\ GoodRow(CompleteCancel(row)) /\ GoodStep(row, CompleteCancel(row)) /\ LocalStep(row, CompleteCancel(row))
      /\ GoodRow(RevertCancel(row)) /\ GoodStep(row, RevertCancel(row)) /\ LocalStep(row, RevertCancel(row))
  BY CompleteCancelGood, RevertCancelGood DEF RunnerRow
<1>2. row \in Row
  BY DEF RunnerRow, GoodRow
<1>3. QED
  BY <1>1, <1>2 DEF RunnerRow, RunnerStep, GoodStep, LocalStep, CompleteCancel, RevertCancel, Row

(***************************************************************************)
(* A local run: its containers and its message                              *)
(***************************************************************************)
\* States of a container.
Container == {"running", "ok", "failed"}

\* No container of the run is running.
AllEnded == \A i \in DOMAIN containers : containers[i] /= "running"

\* The message that is there may still start a container.
MayStart ==
  \/ At("starting")
  \/ executor \in {"idle", "claiming", "checking"} /\ message /= "deleted" /\ localRow.status = "Pending"

\* The types of the variables of a run.
RunnerTypeOK ==
  /\ RunnerRow(localRow) /\ scheduled \in BOOLEAN /\ message \in {"queued", "taken", "deleted"}
  /\ containers \in Seq(Container) /\ stops \in Nat
  /\ At("idle") <=> message /= "taken"

\* Each start of a container is paid for by the first taking of the message or by a stop
\* of the loop; where the executor looks at its container, there is one.
StartsPaid ==
  /\ Len(containers) + (IF MayStart THEN 1 ELSE 0) <= 1 + stops
  /\ executor \in {"started", "reporting", "waiting", "finishing"} => Len(containers) > 0
  /\ localRow.status = "Pending" => canceller = "idle"

\* A scheduled run: before its claim it has no container and after its start no second
\* one; when it is cancelled or being reported as failed, nothing of it is running.
ScheduledOnce ==
  scheduled =>
    /\ Len(containers) <= 1 /\ (~localRow.claimed => containers = <<>>)
    /\ executor \in {"checking", "starting"} =>
         localRow.claimed /\ localRow.status = "Pending" /\ containers = <<>>
    /\ (localRow.status = "Cancelled" \/ canceller = "stopped" \/ executor \in {"failing", "finishing"})
         => AllEnded

\* The invariant that is proved of a local run.
LocalInv == RunnerTypeOK /\ StartsPaid /\ ScheduledOnce /\ CompletedIsTrue

\* What the invariant promises.
LEMMA LocalPromises ==
  ASSUME LocalInv
  PROVE  LocalTypeOK /\ OccurrenceRunsOnce /\ CompletedIsTrue /\ CancelledIsStopped
<1>1. LocalTypeOK
  <2>1. \A i \in DOMAIN containers : containers[i] \in Container
    BY DEF LocalInv, RunnerTypeOK
  <2>2. QED
    BY <2>1 DEF LocalInv, RunnerTypeOK, RunnerRow, GoodRow, LocalTypeOK, Container
<1>2. OccurrenceRunsOnce
  <2>1. Len(containers) \in Nat /\ stops \in Nat
    BY DEF LocalInv, RunnerTypeOK
  <2>2. QED
    BY <2>1 DEF LocalInv, StartsPaid, ScheduledOnce, OccurrenceRunsOnce
<1>3. QED
  BY <1>1, <1>2 DEF LocalInv, ScheduledOnce, CancelledIsStopped, AllEnded

\* The loop takes, checks and deletes its message, or stops: row and containers stay.
LEMMA MessageInv ==
  ASSUME LocalInv, TakeMessage \/ CheckPending \/ DeleteMessage \/ LoopStops
  PROVE  LocalInv'
<1>1. UNCHANGED <<scheduled, localRow, containers, canceller>> /\ Len(containers) \in Nat /\ stops \in Nat
  BY DEF TakeMessage, CheckPending, DeleteMessage, LoopStops, LocalInv, RunnerTypeOK
<1>2. CompletedIsTrue' /\ (AllEnded <=> AllEnded')
  BY <1>1 DEF LocalInv, CompletedIsTrue, AllEnded
<1>3. CASE TakeMessage
  BY <1>1, <1>2, <1>3
  DEF TakeMessage, LocalInv, RunnerTypeOK, StartsPaid, ScheduledOnce, MayStart, At
<1>4. CASE CheckPending
  BY <1>1, <1>2, <1>4
  DEF CheckPending, LocalInv, RunnerTypeOK, StartsPaid, ScheduledOnce, MayStart, At
<1>5. CASE DeleteMessage
  BY <1>1, <1>2, <1>5
  DEF DeleteMessage, LocalInv, RunnerTypeOK, StartsPaid, ScheduledOnce, MayStart, At
<1>6. CASE LoopStops
  BY <1>1, <1>2, <1>6
  DEF LoopStops, LocalInv, RunnerTypeOK, StartsPaid, ScheduledOnce, MayStart, At
<1>7. QED
  BY <1>3, <1>4, <1>5, <1>6

\* The invariant where only the row changes: MayStart is not made true, and what the
\* new status and claim say of the containers holds of them.
LEMMA RowChangesInv ==
  ASSUME LocalInv, UNCHANGED <<scheduled, containers, stops>>,
         RunnerStep(localRow, localRow'), message' \in {"queued", "taken", "deleted"},
         At("idle")' <=> message' /= "taken", MayStart' => MayStart,
         executor' \in {"started", "reporting", "waiting", "finishing"} => Len(containers) > 0,
         localRow'.status = "Pending" => canceller' = "idle",
         CompletedIsTrue',
         scheduled =>
           /\ localRow.claimed = localRow'.claimed \/ containers = <<>>
           /\ executor' \in {"checking", "starting"} =>
                localRow'.claimed /\ localRow'.status = "Pending" /\ containers = <<>>
           /\ (localRow'.status = "Cancelled" \/ canceller' = "stopped" \/ executor' \in {"failing", "finishing"})
                => AllEnded
  PROVE  LocalInv'
<1>1. AllEnded' <=> AllEnded
  BY DEF AllEnded
<1>2. RunnerTypeOK'
  BY DEF LocalInv, RunnerTypeOK, RunnerStep
<1>3. StartsPaid'
  <2>1. Len(containers) \in Nat /\ stops \in Nat
    BY DEF LocalInv, RunnerTypeOK
  <2>2. QED
    BY <2>1 DEF LocalInv, StartsPaid
<1>4. ScheduledOnce'
  BY <1>1 DEF LocalInv, ScheduledOnce, RunnerStep
<1>5. QED
  BY <1>2, <1>3, <1>4 DEF LocalInv

\* The claim of an occurrence.
LEMMA ClaimOccurrenceInv ==
  ASSUME LocalInv, ClaimOccurrence
  PROVE  LocalInv'
<1>1. /\ At("claiming") /\ localRow' = Claim(localRow)
      /\ executor' = IF Claimable(localRow) THEN "checking" ELSE "done"
      /\ UNCHANGED <<scheduled, message, containers, canceller, stops, storeFails>>
  BY DEF ClaimOccurrence
<1>2. /\ RunnerStep(localRow, localRow') /\ localRow'.status = localRow.status
      /\ Claimable(localRow) => localRow'.claimed /\ localRow.status = "Pending" /\ ~localRow.claimed
      /\ ~Claimable(localRow) => localRow' = localRow
  BY <1>1, ClaimRunner DEF LocalInv, RunnerTypeOK
<1>3. CompletedIsTrue'
  BY <1>1, <1>2 DEF LocalInv, CompletedIsTrue
<1>4. /\ message' \in {"queued", "taken", "deleted"} /\ (At("idle")' <=> message' /= "taken")
      /\ MayStart' => MayStart
  BY <1>1, <1>2 DEF LocalInv, RunnerTypeOK, MayStart, At
<1>5. QED
  BY <1>1, <1>2, <1>3, <1>4, RowChangesInv DEF LocalInv, StartsPaid, ScheduledOnce, At

\* The report that the run is running.
LEMMA ReportRunningInv ==
  ASSUME LocalInv, ReportRunning
  PROVE  LocalInv'
<1>1. /\ At("reporting") /\ localRow' = Report(localRow, "Running") /\ executor' = "waiting"
      /\ UNCHANGED <<scheduled, message, containers, canceller, stops, storeFails>>
  BY DEF ReportRunning, ReportOf
<1>2. /\ RunnerStep(localRow, localRow') /\ localRow'.status \notin {"Pending", "Completed"}
      /\ localRow'.claimed = localRow.claimed
      /\ localRow'.status = "Cancelled" => localRow.status = "Cancelled"
  BY <1>1, ReportRunner DEF LocalInv, RunnerTypeOK
<1>3. CompletedIsTrue'
  BY <1>2 DEF CompletedIsTrue
<1>4. /\ message' \in {"queued", "taken", "deleted"} /\ (At("idle")' <=> message' /= "taken") /\ ~MayStart'
  BY <1>1, <1>2 DEF LocalInv, RunnerTypeOK, MayStart, At
<1>5. QED
  BY <1>1, <1>2, <1>3, <1>4, RowChangesInv DEF LocalInv, StartsPaid, ScheduledOnce, At

\* The report of the outcome: the run is completed only after its container ended well.
LEMMA ReportOutcomeInv ==
  ASSUME LocalInv, ReportOutcome
  PROVE  LocalInv'
<1> DEFINE outcome == IF Mine = "ok" THEN "Completed" ELSE "Failed"
<1>1. /\ At("finishing") /\ localRow' = Report(localRow, outcome) /\ executor' = "done"
      /\ UNCHANGED <<scheduled, message, containers, canceller, stops, storeFails>>
  BY DEF ReportOutcome, ReportOf
<1>2. outcome \in {"Running", "Completed", "Failed"}
  OBVIOUS
<1>3. Len(containers) \in DOMAIN containers
  BY <1>1 DEF LocalInv, RunnerTypeOK, StartsPaid, At
<1>4. outcome = "Completed" => \E i \in DOMAIN containers : containers[i] = "ok"
  BY <1>3 DEF Mine
<1> HIDE DEF outcome
<1>5. /\ RunnerStep(localRow, localRow') /\ localRow'.status /= "Pending"
      /\ localRow'.claimed = localRow.claimed
      /\ localRow'.status = "Completed" => outcome = "Completed"
  BY <1>1, <1>2, ReportRunner DEF LocalInv, RunnerTypeOK
<1>6. CompletedIsTrue'
  BY <1>1, <1>4, <1>5 DEF CompletedIsTrue
<1>7. /\ message' \in {"queued", "taken", "deleted"} /\ (At("idle")' <=> message' /= "taken") /\ ~MayStart'
  BY <1>1, <1>5 DEF LocalInv, RunnerTypeOK, MayStart, At
<1>8. QED
  BY <1>1, <1>5, <1>6, <1>7, RowChangesInv DEF LocalInv, StartsPaid, ScheduledOnce, At

\* The report of a failure, which ends the loop; the run is not started again.
LEMMA ReportFailureInv ==
  ASSUME LocalInv, ReportFailure
  PROVE  LocalInv'
<1>1. /\ At("failing") /\ localRow' = Report(localRow, "Failed") /\ executor' = "idle" /\ message' = "queued"
      /\ UNCHANGED <<scheduled, containers, canceller, stops, storeFails>>
  BY DEF ReportFailure, ReportOf
<1>2. /\ RunnerStep(localRow, localRow') /\ localRow'.status \notin {"Pending", "Completed"}
      /\ localRow'.claimed = localRow.claimed
  BY <1>1, ReportRunner DEF LocalInv, RunnerTypeOK
<1>3. CompletedIsTrue'
  BY <1>2 DEF CompletedIsTrue
<1>4. (At("idle")' <=> message' /= "taken") /\ ~MayStart'
  BY <1>1, <1>2 DEF MayStart, At
<1>5. QED
  BY <1>1, <1>2, <1>3, <1>4, RowChangesInv DEF LocalInv, StartsPaid, ScheduledOnce, At

\* A user cancels.
LEMMA CancelLocalInv ==
  ASSUME LocalInv, CancelLocal
  PROVE  LocalInv'
<1>1. /\ canceller = "idle" /\ localRow.status \notin Finished /\ localRow' = RequestCancel(localRow)
      /\ canceller' = IF Stops(localRow) THEN "stopping" ELSE "idle"
      /\ UNCHANGED <<scheduled, message, executor, containers, stops, storeFails>>
  BY DEF CancelLocal
<1>2. /\ RunnerStep(localRow, localRow') /\ localRow'.claimed = localRow.claimed /\ localRow'.status /= "Completed"
      /\ localRow'.status = "Cancelled" => ~localRow.claimed
      /\ localRow.status = "Pending" /\ localRow.claimed => localRow' = localRow
      /\ Stops(localRow) => localRow'.status = "Cancelling"
  BY <1>1, RequestCancelRunner DEF LocalInv, RunnerTypeOK
<1>3. CompletedIsTrue'
  BY <1>2 DEF CompletedIsTrue
<1>4. /\ message' \in {"queued", "taken", "deleted"} /\ (At("idle")' <=> message' /= "taken")
      /\ MayStart' => MayStart
  BY <1>1, <1>2 DEF LocalInv, RunnerTypeOK, MayStart, At, RunnerStep
<1>5. scheduled /\ localRow'.status = "Cancelled" => AllEnded
  BY <1>2 DEF LocalInv, ScheduledOnce, AllEnded
<1>6. QED
  BY <1>1, <1>2, <1>3, <1>4, <1>5, RowChangesInv DEF LocalInv, StartsPaid, ScheduledOnce, At

\* A request to cancel ends: the run is cancelled when its containers were stopped.
LEMMA EndCancelInv ==
  ASSUME LocalInv, EndCancel
  PROVE  LocalInv'
<1>1. /\ canceller \in {"stopped", "refused"} /\ canceller' = "idle"
      /\ localRow' = IF canceller = "stopped" THEN CompleteCancel(localRow) ELSE RevertCancel(localRow)
      /\ UNCHANGED <<scheduled, message, executor, containers, stops, storeFails>>
  BY DEF EndCancel
<1>2. /\ RunnerStep(localRow, localRow') /\ localRow'.claimed = localRow.claimed
      /\ localRow.status = "Pending" => localRow' = localRow
      /\ localRow'.status = "Completed" => localRow.status = "Completed"
  BY <1>1, EndCancelRunner DEF LocalInv, RunnerTypeOK
<1>3. scheduled /\ localRow'.status = "Cancelled" => AllEnded
  <2>1. localRow.status = "Cancelled" \/ canceller = "stopped" \/ localRow'.status /= "Cancelled"
    <3>1. localRow \in Row
      BY DEF LocalInv, RunnerTypeOK, RunnerRow, GoodRow
    <3>2. QED
      BY <1>1, <3>1 DEF RevertCancel, Row
  <2>2. QED
    BY <2>1 DEF LocalInv, ScheduledOnce
<1>4. CompletedIsTrue'
  BY <1>1, <1>2 DEF LocalInv, CompletedIsTrue
<1>5. /\ message' \in {"queued", "taken", "deleted"} /\ (At("idle")' <=> message' /= "taken")
      /\ MayStart' => MayStart
  BY <1>1, <1>2 DEF LocalInv, RunnerTypeOK, MayStart, At, RunnerStep
<1>6. QED
  BY <1>1, <1>2, <1>3, <1>4, <1>5, RowChangesInv DEF LocalInv, StartsPaid, ScheduledOnce, At

\* The output is stored, or cannot be: the container has ended.
LEMMA StoreOutputInv ==
  ASSUME LocalInv, StoreOutput
  PROVE  LocalInv'
<1>1. /\ At("waiting") /\ Mine /= "running" /\ executor' \in {"finishing", "failing"}
      /\ UNCHANGED <<scheduled, localRow, message, containers, canceller, stops>>
  BY DEF StoreOutput
<1>2. containers \in Seq(Container) /\ Len(containers) > 0
  BY <1>1 DEF LocalInv, RunnerTypeOK, StartsPaid, At
<1>3. Len(containers) <= 1 => AllEnded
  BY <1>1, <1>2 DEF Mine, AllEnded
<1>4. (AllEnded <=> AllEnded') /\ CompletedIsTrue'
  BY <1>1 DEF AllEnded, LocalInv, CompletedIsTrue
<1>5. RunnerTypeOK' /\ StartsPaid'
  BY <1>1 DEF LocalInv, RunnerTypeOK, StartsPaid, MayStart, At
<1>6. ScheduledOnce'
  BY <1>1, <1>3, <1>4 DEF LocalInv, ScheduledOnce
<1>7. QED
  BY <1>4, <1>5, <1>6 DEF LocalInv

\* A container is started, or cannot be.
LEMMA StartContainerInv ==
  ASSUME LocalInv, StartContainer
  PROVE  LocalInv'
<1>1. /\ At("starting") /\ UNCHANGED <<scheduled, localRow, message, canceller, stops, storeFails>>
      /\ \/ containers' = Append(containers, "running") /\ executor' = "started"
         \/ executor' = "failing" /\ UNCHANGED containers
  BY DEF StartContainer
<1>2. containers \in Seq(Container) /\ stops \in Nat /\ "running" \in Container
  BY DEF LocalInv, RunnerTypeOK, Container
<1>3. Len(containers) + 1 <= 1 + stops
  BY <1>1 DEF LocalInv, StartsPaid, MayStart
<1>4. ~MayStart'
  BY <1>1 DEF MayStart, At
<1>5. CASE containers' = Append(containers, "running") /\ executor' = "started"
  <2>1. /\ containers' \in Seq(Container) /\ Len(containers') = Len(containers) + 1
        /\ \A i \in DOMAIN containers : i \in DOMAIN containers' /\ containers'[i] = containers[i]
    BY <1>2, <1>5
  <2>2. RunnerTypeOK'
    BY <1>1, <1>5, <2>1 DEF LocalInv, RunnerTypeOK, At
  <2>3. StartsPaid'
    BY <1>1, <1>2, <1>3, <1>4, <1>5, <2>1 DEF LocalInv, StartsPaid
  <2>4. CompletedIsTrue'
    BY <1>1, <2>1 DEF LocalInv, CompletedIsTrue
  <2>5. ScheduledOnce'
    <3>1. scheduled => localRow.claimed /\ localRow.status = "Pending" /\ containers = <<>> /\ canceller = "idle"
      BY <1>1 DEF LocalInv, ScheduledOnce, StartsPaid, At
    <3>2. containers = <<>> => Len(containers') <= 1
      BY <2>1
    <3>3. QED
      BY <1>1, <1>5, <3>1, <3>2 DEF ScheduledOnce
  <2>6. QED
    BY <2>2, <2>3, <2>4, <2>5 DEF LocalInv
<1>6. CASE executor' = "failing" /\ UNCHANGED containers
  <2>1. RunnerTypeOK' /\ CompletedIsTrue'
    BY <1>1, <1>6 DEF LocalInv, RunnerTypeOK, CompletedIsTrue, At
  <2>2. StartsPaid'
    BY <1>1, <1>2, <1>3, <1>4, <1>6 DEF LocalInv, StartsPaid
  <2>3. ScheduledOnce'
    BY <1>1, <1>6 DEF LocalInv, ScheduledOnce, AllEnded, At
  <2>4. QED
    BY <2>1, <2>2, <2>3 DEF LocalInv
<1>7. QED
  BY <1>1, <1>5, <1>6

\* The invariant where containers only end, and those that ended stay as they are.
LEMMA ContainersEndInv ==
  ASSUME LocalInv, UNCHANGED <<scheduled, localRow, message, stops>>,
         containers' \in Seq(Container), Len(containers') = Len(containers),
         \A i \in DOMAIN containers : containers[i] /= "running" => containers'[i] = containers[i],
         At("idle")' <=> At("idle"), MayStart' => MayStart,
         executor' \in {"started", "reporting", "waiting", "finishing", "checking", "starting", "failing"}
           => executor' = executor,
         localRow.status = "Pending" => canceller' = "idle",
         canceller' = "stopped" => AllEnded' \/ canceller = "stopped"
  PROVE  LocalInv'
<1>1. containers \in Seq(Container) /\ Len(containers) \in Nat /\ stops \in Nat
  BY DEF LocalInv, RunnerTypeOK
<1>2. DOMAIN containers' = DOMAIN containers
  BY <1>1
<1>3. AllEnded => AllEnded'
  BY <1>2 DEF AllEnded
<1>4. RunnerTypeOK'
  BY DEF LocalInv, RunnerTypeOK
<1>5. StartsPaid'
  BY <1>1 DEF LocalInv, StartsPaid
<1>6. CompletedIsTrue'
  BY <1>2 DEF LocalInv, CompletedIsTrue
<1>7. containers = <<>> => containers' = <<>>
  BY <1>1
<1>8. ScheduledOnce'
  BY <1>3, <1>7 DEF LocalInv, ScheduledOnce
<1>9. QED
  BY <1>4, <1>5, <1>6, <1>8 DEF LocalInv

\* A run that was cancelled while its container started: the container is stopped.
LEMMA CheckCancelledInv ==
  ASSUME LocalInv, CheckCancelled
  PROVE  LocalInv'
<1>1. /\ At("started") /\ UNCHANGED <<scheduled, localRow, message, canceller, stops, storeFails>>
      /\ IF localRow.status = "Cancelled"
         THEN /\ containers' = [containers EXCEPT ![Len(containers)] =
                                  IF containers[Len(containers)] = "running" THEN "failed" ELSE containers[Len(containers)]]
              /\ executor' = "done"
         ELSE executor' = "reporting" /\ UNCHANGED containers
  BY DEF CheckCancelled
<1>2. containers \in Seq(Container) /\ Len(containers) > 0
  BY <1>1 DEF LocalInv, RunnerTypeOK, StartsPaid, At
<1>3. ~MayStart' /\ ~At("idle") /\ ~At("idle")'
  BY <1>1 DEF MayStart, At
<1>4. CASE localRow.status = "Cancelled"
  <2>1. /\ containers' \in Seq(Container) /\ Len(containers') = Len(containers)
        /\ \A i \in DOMAIN containers : containers[i] /= "running" => containers'[i] = containers[i]
    BY <1>1, <1>2, <1>4 DEF Container
  <2>2. QED
    BY <1>1, <1>3, <1>4, <2>1, ContainersEndInv
<1>5. CASE localRow.status /= "Cancelled"
  <2>1. RunnerTypeOK' /\ CompletedIsTrue' /\ (AllEnded' <=> AllEnded)
    BY <1>1, <1>3, <1>5 DEF LocalInv, RunnerTypeOK, CompletedIsTrue, AllEnded
  <2>2. StartsPaid'
    BY <1>1, <1>2, <1>3, <1>5 DEF LocalInv, RunnerTypeOK, StartsPaid
  <2>3. ScheduledOnce'
    BY <1>1, <1>5, <2>1 DEF LocalInv, ScheduledOnce
  <2>4. QED
    BY <2>1, <2>2, <2>3 DEF LocalInv
<1>6. QED
  BY <1>4, <1>5

\* A program ends.
LEMMA ContainerExitsInv ==
  ASSUME LocalInv, ContainerExits
  PROVE  LocalInv'
<1>1. PICK i \in DOMAIN containers, how \in {"ok", "failed"} :
        containers[i] = "running" /\ containers' = [containers EXCEPT ![i] = how]
  BY DEF ContainerExits
<1>2. UNCHANGED <<scheduled, localRow, message, executor, canceller, stops, storeFails>>
  BY DEF ContainerExits
<1>3. containers \in Seq(Container) /\ how \in Container
  BY DEF LocalInv, RunnerTypeOK, Container
<1>4. /\ containers' \in Seq(Container) /\ Len(containers') = Len(containers)
      /\ \A k \in DOMAIN containers : containers[k] /= "running" => containers'[k] = containers[k]
  BY <1>1, <1>3
<1>5. MayStart' = MayStart /\ At("idle")' = At("idle") /\ (localRow.status = "Pending" => canceller' = "idle")
  BY <1>2 DEF MayStart, At, LocalInv, StartsPaid
<1>6. QED
  BY <1>2, <1>4, <1>5, ContainersEndInv

\* The running containers of the run are stopped.
LEMMA StopContainersInv ==
  ASSUME LocalInv, StopContainers
  PROVE  LocalInv'
<1> DEFINE running == {i \in DOMAIN containers : containers[i] = "running"}
<1>1. PICK how \in {"ok", "failed"} :
        containers' = [i \in DOMAIN containers |-> IF i \in running THEN how ELSE containers[i]]
  BY DEF StopContainers
<1>2. /\ canceller = "stopping" /\ canceller' \in {"refused", "stopped"}
      /\ UNCHANGED <<scheduled, localRow, message, executor, stops, storeFails>>
  BY DEF StopContainers
<1>3. containers \in Seq(Container) /\ how \in Container
  BY DEF LocalInv, RunnerTypeOK, Container
<1>4. /\ containers' \in Seq(Container) /\ Len(containers') = Len(containers)
      /\ \A i \in DOMAIN containers : /\ containers[i] /= "running" => containers'[i] = containers[i]
                                      /\ containers'[i] /= "running"
  <2>1. \A i \in 1..Len(containers) : containers[i] \in Container
    BY <1>3
  <2>2. DOMAIN containers = 1..Len(containers)
    BY <1>3
  <2>3. QED
    BY <1>1, <1>3, <2>1, <2>2
<1>5. AllEnded'
  BY <1>1, <1>4 DEF AllEnded
<1>6. MayStart' = MayStart /\ At("idle")' = At("idle") /\ localRow.status /= "Pending"
  BY <1>2 DEF MayStart, At, LocalInv, StartsPaid
<1>7. QED
  BY <1>2, <1>4, <1>5, <1>6, ContainersEndInv

\* At first nothing has been started.
LEMMA LocalInitInv == LocalInit => LocalInv
<1> SUFFICES ASSUME LocalInit PROVE LocalInv
  OBVIOUS
<1>1. RunnerRow(localRow) /\ localRow.status = "Pending"
  <2>1. NewRow.status = "Pending" /\ NewRow.ext = None
    BY DEF NewRow, AbsentRow
  <2>2. QED
    BY <2>1, NewRowGood DEF LocalInit, RunnerRow
<1>2. containers = <<>> /\ Len(containers) = 0
  BY DEF LocalInit
<1>3. QED
  BY <1>1, <1>2
  DEF LocalInit, LocalInv, RunnerTypeOK, StartsPaid, MayStart, ScheduledOnce, AllEnded, CompletedIsTrue, At

\* Every step of a local run keeps the invariant.
LEMMA LocalStepInv == LocalInv /\ [LocalNext]_localVars => LocalInv'
<1> SUFFICES ASSUME LocalInv, [LocalNext]_localVars PROVE LocalInv'
  OBVIOUS
<1>1. CASE UNCHANGED localVars
  BY <1>1 DEF localVars, LocalInv, RunnerTypeOK, StartsPaid, MayStart, ScheduledOnce, AllEnded,
              CompletedIsTrue, At
<1>2. QED
  BY <1>1, MessageInv, ClaimOccurrenceInv, StartContainerInv, CheckCancelledInv, ReportRunningInv,
     StoreOutputInv, ReportOutcomeInv, ReportFailureInv, ContainerExitsInv, CancelLocalInv,
     StopContainersInv, EndCancelInv
  DEF LocalNext, ExecutorStep

\* The invariant holds of every reachable state of a local run.
THEOREM LocalInvariant == LocalSpec => []LocalInv
BY LocalInitInv, LocalStepInv, PTL DEF LocalSpec

\* A local run has no more containers than its message was meant to start, it is told
\* to be completed only when one of them ended well, and when it was scheduled and is
\* cancelled none of them is running.
THEOREM LocalRunsRight ==
  LocalSpec => [](LocalTypeOK /\ OccurrenceRunsOnce /\ CompletedIsTrue /\ CancelledIsStopped)
<1>1. LocalInv => LocalTypeOK /\ OccurrenceRunsOnce /\ CompletedIsTrue /\ CancelledIsStopped
  BY LocalPromises
<1>2. QED
  BY <1>1, LocalInvariant, PTL

(***************************************************************************)
(* The copies of a limit                                                    *)
(***************************************************************************)
\* A write that is under way, and an entry of the history.
Write == [phase: {"read", "committed"}, value: Values, previous: Values]
Entry == [previous: Values, new: Values]

\* The types of the variables.
CopyTypes ==
  /\ stored \in Values /\ copies \in [Workers -> Values]
  /\ sinceRefresh \in [Workers -> 0..RefreshWindow]
  /\ refreshing \in [Readers -> Values \cup {Idle, Unread}]
  /\ writing \in [Writers -> {Idle} \cup Write] /\ changes \in Seq(Entry)

\* The invariant that is proved of the history: who has read a limit to replace has the
\* lock of its row, so that it is still the stored one; and a limit that is stored after a
\* change is what the last change set.
CopyInv ==
  /\ CopyTypes /\ HistoryChains
  /\ \A p \in Writers :
       writing[p] /= Idle /\ writing[p].phase = "read" /\ writing[p].previous /= Default
         => writing[p].previous = stored
  /\ Len(changes) > 0 /\ stored /= Default => changes[Len(changes)].new = stored

\* Time goes on, and requests refresh the copy of their process.
LEMMA RefreshInv ==
  ASSUME CopyInv,
         SecondsPass \/ \E p \in Readers : RefreshBegins(p) \/ RefreshReads(p) \/ RefreshFails(p) \/ RefreshStores(p)
  PROVE  CopyInv'
<1>1. UNCHANGED <<stored, changes, writing>>
  BY DEF SecondsPass, RefreshBegins, RefreshReads, RefreshFails, RefreshStores
<1>2. \A p \in Readers : p[1] \in Workers
  BY LimitCopiesAssumption
<1>3. 0 \in 0..RefreshWindow /\ RefreshWindow \in 0..RefreshWindow /\ RefreshWindow \in Nat
  BY LimitCopiesAssumption
<1>4. CopyTypes'
  <2>1. CASE SecondsPass
    BY <1>3, <2>1 DEF SecondsPass, CopyInv, CopyTypes
  <2>2. ASSUME NEW p \in Readers, RefreshBegins(p) PROVE CopyTypes'
    BY <1>2, <1>3, <2>2 DEF RefreshBegins, CopyInv, CopyTypes
  <2>3. ASSUME NEW p \in Readers, RefreshReads(p) \/ RefreshFails(p) PROVE CopyTypes'
    BY <2>3 DEF RefreshReads, RefreshFails, CopyInv, CopyTypes
  <2>4. ASSUME NEW p \in Readers, RefreshStores(p) PROVE CopyTypes'
    BY <1>2, <2>4 DEF RefreshStores, CopyInv, CopyTypes
  <2>5. QED
    BY <2>1, <2>2, <2>3, <2>4
<1>5. QED
  BY <1>1, <1>4 DEF CopyInv, HistoryChains

\* A write begins: it reads the row, and locks it if there is one.
LEMMA WriteBeginsInv ==
  ASSUME CopyInv, NEW p \in Writers, WriteBegins(p)
  PROVE  CopyInv'
<1>1. PICK v \in Values :
        writing' = [writing EXCEPT ![p] = [phase |-> "read", value |-> v, previous |-> stored]]
  BY DEF WriteBegins
<1>2. UNCHANGED <<stored, changes, copies, sinceRefresh, refreshing>>
  BY DEF WriteBegins
<1> DEFINE new == [phase |-> "read", value |-> v, previous |-> stored]
<1>3. new \in Write /\ new.previous = stored
  BY DEF Write, CopyInv, CopyTypes
<1> HIDE DEF new
<1>4. /\ writing' \in [Writers -> {Idle} \cup Write] /\ writing'[p] = new
      /\ \A q \in Writers : q /= p => writing'[q] = writing[q]
  BY <1>1, <1>3 DEF CopyInv, CopyTypes, new
<1>5. QED
  BY <1>2, <1>3, <1>4 DEF CopyInv, CopyTypes, HistoryChains

\* A write commits: no other has read the limit it replaces.
LEMMA WriteCommitsInv ==
  ASSUME CopyInv, NEW p \in Writers, WriteCommits(p)
  PROVE  CopyInv'
<1> DEFINE entry == [previous |-> writing[p].previous, new |-> writing[p].value]
<1>1. /\ writing[p] /= Idle /\ writing[p].phase = "read" /\ ~LockedFor(p)
      /\ stored' = writing[p].value
      /\ changes' = IF writing[p].value = Default /\ writing[p].previous = Default THEN changes
                    ELSE Append(changes, entry)
      /\ writing' = [writing EXCEPT ![p] = [writing[p] EXCEPT !.phase = "committed"]]
      /\ UNCHANGED <<copies, sinceRefresh, refreshing, counts>>
  BY DEF WriteCommits
<1>2. writing[p] \in Write
  BY <1>1 DEF CopyInv, CopyTypes
<1>3. /\ [writing[p] EXCEPT !.phase = "committed"] \in Write
      /\ [writing[p] EXCEPT !.phase = "committed"].phase = "committed"
  BY <1>2 DEF Write
<1>4. entry \in Entry /\ entry.previous = writing[p].previous /\ entry.new = writing[p].value
  BY <1>2 DEF Write, Entry
<1> HIDE DEF entry
<1>5. changes \in Seq(Entry) /\ Len(changes) \in Nat
  BY DEF CopyInv, CopyTypes
<1>6. CopyTypes'
  BY <1>1, <1>2, <1>3, <1>4, <1>5 DEF CopyInv, CopyTypes, Write
<1>7. \A q \in Writers :
        writing'[q] /= Idle /\ writing'[q].phase = "read" /\ writing'[q].previous /= Default
          => writing'[q].previous = stored'
  BY <1>1, <1>3 DEF CopyInv, CopyTypes, LockedFor
<1>8. CASE writing[p].value = Default /\ writing[p].previous = Default
  BY <1>1, <1>6, <1>7, <1>8 DEF CopyInv, HistoryChains
<1>9. CASE ~(writing[p].value = Default /\ writing[p].previous = Default)
  <2>1. /\ Len(changes') = Len(changes) + 1 /\ changes'[Len(changes) + 1] = entry
        /\ \A i \in 1..Len(changes) : changes'[i] = changes[i]
    BY <1>1, <1>4, <1>5, <1>9
  <2>2. Len(changes) > 0 /\ entry.previous /= Default => changes[Len(changes)].new = entry.previous
    BY <1>1, <1>4 DEF CopyInv
  <2>3. HistoryChains'
    <3> SUFFICES ASSUME NEW i \in 2..Len(changes')
                 PROVE  changes'[i].previous \in {Default, changes'[i - 1].new}
      BY DEF HistoryChains
    <3>1. CASE i = Len(changes) + 1
      BY <1>5, <2>1, <2>2, <3>1
    <3>2. CASE i /= Len(changes) + 1
      <4>1. i \in 2..Len(changes) /\ changes'[i] = changes[i] /\ changes'[i - 1] = changes[i - 1]
        BY <1>5, <2>1, <3>2
      <4>2. QED
        BY <4>1 DEF CopyInv, HistoryChains
    <3>3. QED
      BY <3>1, <3>2
  <2>4. QED
    BY <1>1, <1>4, <1>6, <1>7, <2>1, <2>3 DEF CopyInv
<1>10. QED
  BY <1>8, <1>9

\* The process of the writer has the new limit.
LEMMA CopyIsSetInv ==
  ASSUME CopyInv, NEW p \in Writers, CopyIsSet(p)
  PROVE  CopyInv'
<1>1. /\ writing[p] /= Idle /\ copies' = [copies EXCEPT ![p[1]] = writing[p].value]
      /\ writing' = [writing EXCEPT ![p] = Idle]
      /\ UNCHANGED <<stored, changes, sinceRefresh, refreshing, counts>>
  BY DEF CopyIsSet
<1>2. p[1] \in Workers
  BY LimitCopiesAssumption
<1>3. writing[p].value \in Values
  BY <1>1 DEF CopyInv, CopyTypes, Write
<1>4. CopyTypes'
  BY <1>1, <1>2, <1>3 DEF CopyInv, CopyTypes
<1>5. QED
  BY <1>1, <1>4 DEF CopyInv, CopyTypes, HistoryChains

\* At first there is no history, and no request.
LEMMA CopyInitInv == LimitCopiesInit => CopyInv
<1> SUFFICES ASSUME LimitCopiesInit PROVE CopyInv
  OBVIOUS
<1>1. changes = <<>> /\ Len(changes) = 0 /\ changes \in Seq(Entry)
  BY DEF LimitCopiesInit
<1>2. QED
  BY <1>1, LimitCopiesAssumption DEF LimitCopiesInit, CopyInv, CopyTypes, HistoryChains, Values

\* Every step of the copies keeps the invariant.
LEMMA CopyStepInv == CopyInv /\ [LimitCopiesNext]_copyVars => CopyInv'
<1> SUFFICES ASSUME CopyInv, [LimitCopiesNext]_copyVars PROVE CopyInv'
  OBVIOUS
<1>1. CASE UNCHANGED copyVars
  BY <1>1 DEF copyVars, CopyInv, CopyTypes, HistoryChains
<1>2. QED
  BY <1>1, RefreshInv, WriteBeginsInv, WriteCommitsInv, CopyIsSetInv DEF LimitCopiesNext

\* The invariant holds of every reachable state of the limit and its copies.
THEOREM CopyInvariant == LimitCopiesSpec => []CopyInv
BY CopyInitInv, CopyStepInv, PTL DEF LimitCopiesSpec

\* What the invariant promises.
LEMMA CopyPromises ==
  ASSUME CopyInv
  PROVE  LimitCopiesTypeOK /\ HistoryChains
  BY DEF CopyInv, CopyTypes, LimitCopiesTypeOK, Write

\* An entry of the history that names the limit it replaced names the one that was set
\* before, whichever administrators write at the same time.
THEOREM HistoryHasNoGap == LimitCopiesSpec => [](LimitCopiesTypeOK /\ HistoryChains)
<1>1. CopyInv => LimitCopiesTypeOK /\ HistoryChains
  BY CopyPromises
<1>2. QED
  BY <1>1, CopyInvariant, PTL

(***************************************************************************)
(* The requests of a window                                                 *)
(***************************************************************************)
\* Times in order, none before the beginning and none later than m.
InOrder(times, m) ==
  \A i \in 1..Len(times) : times[i] \in 0..m /\ (i > 1 => times[i - 1] <= times[i])

\* A refusal with the requests that were counted then: the time told is a window after
\* the first of them, and what is counted now is what is left of them.
ExplainedBy(k) ==
  /\ Len(k) = refusal.used /\ Len(k) > 0 /\ refusal.until \in Int /\ refusal.limit \in WindowLimits
  /\ k[1] + Window <= refusal.until /\ refusal.until < k[1] + Window + SecondLength
  /\ Kept(stamps, moment) = From(k, moment - Window)

\* A status that was had tells of no more than there is room for.
ToldRight ==
  told /= Nothing =>
    /\ told.remaining \in 0..told.limit
    /\ told.remaining <= (IF told.room > 0 THEN told.room ELSE 0)

\* The invariant that is proved of the window: what is counted is what was let through and
\* has not aged, whenever it is looked at.
WindowInv ==
  /\ moment \in 0..LastMoment /\ windowLimit \in WindowLimits
  /\ stamps \in Seq(Int) /\ InOrder(stamps, moment)
  /\ request \in WindowLimits \cup {Nothing}
  /\ question /= Nothing => question.at \in 0..moment /\ question.limit \in WindowLimits
  /\ admitted.times \in Seq(Int) /\ WindowHolds
  /\ Kept(stamps, moment) = From(admitted.times, moment - Window)
  /\ refusal /= Nothing => \E k \in Seq(Int) : ExplainedBy(k)
  /\ ToldRight

\* Times from a number d of them on that are all not later than t, up to one that is.
Drops(times, t, d) ==
  /\ d \in 0..Len(times) /\ \A i \in 1..d : times[i] <= t
  /\ d < Len(times) => times[d + 1] > t

\* How many are dropped is fixed by the times, and what From leaves is the rest.
LEMMA FromDrops ==
  ASSUME NEW times \in Seq(Int), NEW t \in Int
  PROVE  \E d \in Nat : Drops(times, t, d) /\ From(times, t) = SubSeq(times, d + 1, Len(times))
<1> DEFINE firsts == {i \in 1..(Len(times) + 1) : i = Len(times) + 1 \/ times[i] > t}
<1>1. Len(times) \in Nat /\ \A i \in 1..Len(times) : times[i] \in Int
  OBVIOUS
<1>2. firsts \in SUBSET Nat /\ Len(times) + 1 \in firsts
  BY <1>1
<1>3. PICK m \in firsts : \A i \in firsts : m <= i
  <2> HIDE DEF firsts
  <2> QED BY <1>2, LeastNat
<1>4. Min(firsts) = m
  <2> HIDE DEF firsts
  <2> QED BY <1>2, <1>3, MinIs
<1>5. m \in 1..(Len(times) + 1) /\ (m <= Len(times) => times[m] > t)
  BY <1>1, <1>3
<1>6. ASSUME NEW i \in 1..(m - 1) PROVE times[i] <= t
  <2>1. i \in 1..Len(times) /\ i \in 1..(Len(times) + 1) /\ ~(m <= i)
    BY <1>1, <1>5
  <2>2. i \notin firsts
    <3> HIDE DEF firsts
    <3> QED BY <1>3, <2>1
  <2>3. ~(times[i] > t)
    BY <2>1, <2>2
  <2>4. QED
    BY <1>1, <2>1, <2>3
<1>7. Drops(times, t, m - 1)
  BY <1>1, <1>5, <1>6 DEF Drops
<1>8. From(times, t) = SubSeq(times, m, Len(times))
  BY <1>4 DEF From
<1> DEFINE d == m - 1
<1>9. d \in Nat /\ d + 1 = m
  BY <1>1, <1>5
<1>10. QED
  BY <1>7, <1>8, <1>9

\* Where a number of times may be dropped, that number is.
LEMMA DropsFrom ==
  ASSUME NEW times \in Seq(Int), NEW t \in Int, NEW d \in Nat, Drops(times, t, d)
  PROVE  From(times, t) = SubSeq(times, d + 1, Len(times))
<1>1. PICK e \in Nat : Drops(times, t, e) /\ From(times, t) = SubSeq(times, e + 1, Len(times))
  BY FromDrops
<1>2. Len(times) \in Nat /\ \A i \in 1..Len(times) : times[i] \in Int
  OBVIOUS
<1>3. ~(d < e)
  <2> SUFFICES ASSUME d < e PROVE FALSE
    OBVIOUS
  <2>1. d + 1 \in 1..e /\ d + 1 \in 1..Len(times) /\ d < Len(times)
    BY <1>1, <1>2 DEF Drops
  <2>2. times[d + 1] <= t /\ times[d + 1] > t
    BY <1>1, <2>1 DEF Drops
  <2>3. QED
    BY <1>2, <2>1, <2>2
<1>4. ~(e < d)
  <2> SUFFICES ASSUME e < d PROVE FALSE
    OBVIOUS
  <2>1. e + 1 \in 1..d /\ e + 1 \in 1..Len(times) /\ e < Len(times)
    BY <1>1, <1>2 DEF Drops
  <2>2. times[e + 1] <= t /\ times[e + 1] > t
    BY <1>1, <2>1 DEF Drops
  <2>3. QED
    BY <1>2, <2>1, <2>2
<1>5. d \in Nat /\ e \in Nat
  BY <1>1
<1>6. d = e
  BY <1>3, <1>4, <1>5
<1>7. QED
  BY <1>1, <1>6

\* Sequences as long as each other with the same elements are the same.
LEMMA SameSeq ==
  ASSUME NEW one \in Seq(Int), NEW two \in Seq(Int), Len(one) = Len(two),
         \A i \in 1..Len(one) : one[i] = two[i]
  PROVE  one = two
OBVIOUS

\* The rest of a sequence.
LEMMA Rest ==
  ASSUME NEW times \in Seq(Int), NEW d \in 0..Len(times)
  PROVE  LET rest == SubSeq(times, d + 1, Len(times))
         IN /\ rest \in Seq(Int) /\ Len(rest) = Len(times) - d
            /\ \A i \in 1..(Len(times) - d) : rest[i] = times[i + d]
  OBVIOUS

\* What From leaves is a sequence, no longer than before, without what it drops.
LEMMA FromType ==
  ASSUME NEW times \in Seq(Int), NEW t \in Int
  PROVE  From(times, t) \in Seq(Int) /\ Len(From(times, t)) \in 0..Len(times)
<1>1. PICK d \in Nat : Drops(times, t, d) /\ From(times, t) = SubSeq(times, d + 1, Len(times))
  BY FromDrops
<1>2. QED
  BY <1>1, Rest DEF Drops

\* To drop up to one time and then up to a later one is to drop up to the later one.
LEMMA FromTwice ==
  ASSUME NEW times \in Seq(Int), NEW t \in Int, NEW u \in Int, t <= u
  PROVE  From(From(times, t), u) = From(times, u)
<1>1. PICK d \in Nat : Drops(times, t, d) /\ From(times, t) = SubSeq(times, d + 1, Len(times))
  BY FromDrops
<1>2. PICK e \in Nat : Drops(times, u, e) /\ From(times, u) = SubSeq(times, e + 1, Len(times))
  BY FromDrops
<1>3. Len(times) \in Nat /\ \A i \in 1..Len(times) : times[i] \in Int
  OBVIOUS
<1>4. d <= e
  <2> SUFFICES ASSUME e < d PROVE FALSE
    BY <1>1, <1>2
  <2>1. e + 1 \in 1..d /\ e + 1 \in 1..Len(times) /\ e < Len(times)
    BY <1>1, <1>2, <1>3 DEF Drops
  <2>2. times[e + 1] <= t /\ times[e + 1] > u
    BY <1>1, <1>2, <2>1 DEF Drops
  <2>3. QED
    BY <1>3, <2>1, <2>2
<1> DEFINE rest == SubSeq(times, d + 1, Len(times))
<1>5. d \in 0..Len(times) /\ e \in 0..Len(times)
  BY <1>1, <1>2 DEF Drops
<1>6. /\ rest \in Seq(Int) /\ Len(rest) = Len(times) - d
      /\ \A i \in 1..(Len(times) - d) : rest[i] = times[i + d]
  BY <1>5, Rest
<1> HIDE DEF rest
<1>7. Drops(rest, u, e - d)
  <2>1. e - d \in 0..Len(rest)
    BY <1>3, <1>4, <1>5, <1>6
  <2>2. ASSUME NEW i \in 1..(e - d) PROVE rest[i] <= u
    <3>1. i \in 1..(Len(times) - d) /\ i + d \in 1..e
      BY <1>3, <1>4, <1>5
    <3>2. QED
      BY <1>2, <1>6, <3>1 DEF Drops
  <2>3. ASSUME e - d < Len(rest) PROVE rest[(e - d) + 1] > u
    <3>1. (e - d) + 1 \in 1..(Len(times) - d) /\ ((e - d) + 1) + d = e + 1 /\ e < Len(times)
      BY <1>3, <1>4, <1>5, <1>6, <2>3
    <3>2. rest[(e - d) + 1] = times[((e - d) + 1) + d]
      BY <1>6, <3>1
    <3>3. rest[(e - d) + 1] = times[e + 1] /\ times[e + 1] > u
      BY <1>2, <3>1, <3>2 DEF Drops
    <3>4. QED
      BY <3>3
  <2>4. QED
    BY <2>1, <2>2, <2>3 DEF Drops
<1>8. From(rest, u) = SubSeq(rest, (e - d) + 1, Len(rest))
  <2>1. e - d \in Nat
    BY <1>4
  <2>2. QED
    BY <1>6, <1>7, <2>1, DropsFrom
<1>9. SubSeq(rest, (e - d) + 1, Len(rest)) = SubSeq(times, e + 1, Len(times))
  <2> DEFINE one == SubSeq(rest, (e - d) + 1, Len(rest))
             two == SubSeq(times, e + 1, Len(times))
  <2>1. e - d \in 0..Len(rest)
    BY <1>7 DEF Drops
  <2>2. /\ one \in Seq(Int) /\ Len(one) = Len(rest) - (e - d)
        /\ \A i \in 1..(Len(rest) - (e - d)) : one[i] = rest[i + (e - d)]
    BY <1>6, <2>1, Rest
  <2>3. /\ two \in Seq(Int) /\ Len(two) = Len(times) - e
        /\ \A i \in 1..(Len(times) - e) : two[i] = times[i + e]
    BY <1>5, Rest
  <2> HIDE DEF one, two
  <2>4. Len(one) = Len(two)
    BY <1>3, <1>5, <1>6, <2>2, <2>3
  <2>5. ASSUME NEW i \in 1..Len(one) PROVE one[i] = two[i]
    <3>1. i + (e - d) \in 1..(Len(times) - d) /\ (i + (e - d)) + d = i + e
      BY <1>3, <1>4, <1>5, <1>6, <2>2
    <3>2. one[i] = rest[i + (e - d)] /\ rest[i + (e - d)] = times[i + e] /\ two[i] = times[i + e]
      BY <1>3, <1>5, <1>6, <2>2, <2>3, <2>4, <3>1
    <3>3. QED
      BY <3>2
  <2>6. one = two
    BY <2>2, <2>3, <2>4, <2>5, SameSeq
  <2>7. QED
    BY <2>6 DEF one, two
<1>10. QED
  BY <1>1, <1>2, <1>8, <1>9 DEF rest

\* A time that is later than t stays behind what From leaves.
LEMMA FromAppend ==
  ASSUME NEW times \in Seq(Int), NEW t \in Int, NEW m \in Int, t < m
  PROVE  From(Append(times, m), t) = Append(From(times, t), m)
<1>1. PICK d \in Nat : Drops(times, t, d) /\ From(times, t) = SubSeq(times, d + 1, Len(times))
  BY FromDrops
<1> DEFINE longer == Append(times, m)
<1>2. /\ longer \in Seq(Int) /\ Len(longer) = Len(times) + 1 /\ longer[Len(times) + 1] = m
      /\ \A i \in 1..Len(times) : longer[i] = times[i]
  OBVIOUS
<1>3. Len(times) \in Nat /\ d \in 0..Len(times) /\ \A i \in 1..Len(times) : times[i] \in Int
  BY <1>1 DEF Drops
<1> HIDE DEF longer
<1>4. Drops(longer, t, d)
  <2>1. d \in 0..Len(longer)
    BY <1>2, <1>3
  <2>2. ASSUME NEW i \in 1..d PROVE longer[i] <= t
    <3>1. i \in 1..Len(times)
      BY <1>3
    <3>2. longer[i] = times[i] /\ times[i] <= t
      BY <1>1, <1>2, <3>1 DEF Drops
    <3>3. QED
      BY <3>2
  <2>3. longer[d + 1] > t
    <3>1. CASE d = Len(times)
      BY <1>2, <1>3, <3>1
    <3>2. CASE d /= Len(times)
      <4>1. d < Len(times) /\ d + 1 \in 1..Len(times)
        BY <1>3, <3>2
      <4>2. longer[d + 1] = times[d + 1] /\ times[d + 1] > t
        BY <1>1, <1>2, <4>1 DEF Drops
      <4>3. QED
        BY <4>2
    <3>3. QED
      BY <3>1, <3>2
  <2>4. QED
    BY <2>1, <2>2, <2>3 DEF Drops
<1>5. From(longer, t) = SubSeq(longer, d + 1, Len(longer))
  BY <1>2, <1>4, DropsFrom
<1> DEFINE one == SubSeq(longer, d + 1, Len(longer))
           rest == SubSeq(times, d + 1, Len(times))
<1>6. /\ one \in Seq(Int) /\ Len(one) = Len(longer) - d
      /\ \A i \in 1..(Len(longer) - d) : one[i] = longer[i + d]
  <2>1. d \in 0..Len(longer)
    BY <1>2, <1>3
  <2>2. QED
    BY <1>2, <2>1, Rest
<1>7. /\ rest \in Seq(Int) /\ Len(rest) = Len(times) - d
      /\ \A i \in 1..(Len(times) - d) : rest[i] = times[i + d]
  BY <1>3, Rest
<1> HIDE DEF one, rest
<1> DEFINE two == Append(rest, m)
<1>8. /\ two \in Seq(Int) /\ Len(two) = Len(rest) + 1 /\ two[Len(rest) + 1] = m
      /\ \A i \in 1..Len(rest) : two[i] = rest[i]
  BY <1>7
<1> HIDE DEF two
<1>9. Len(one) = Len(two)
  BY <1>2, <1>3, <1>6, <1>7, <1>8
<1>10. ASSUME NEW i \in 1..Len(one) PROVE one[i] = two[i]
  <2>1. one[i] = longer[i + d]
    BY <1>6
  <2>2. CASE i = Len(rest) + 1
    BY <1>2, <1>3, <1>7, <1>8, <2>1, <2>2
  <2>3. CASE i /= Len(rest) + 1
    <3>1. i \in 1..Len(rest) /\ i \in 1..(Len(times) - d) /\ i + d \in 1..Len(times)
      BY <1>2, <1>3, <1>6, <1>7, <2>3
    <3>2. QED
      BY <1>2, <1>7, <1>8, <2>1, <3>1
  <2>4. QED
    BY <2>2, <2>3
<1>11. one = two
  BY <1>6, <1>8, <1>9, <1>10, SameSeq
<1>12. QED
  BY <1>1, <1>5, <1>11 DEF one, two, rest, longer

\* What From leaves of times in order is in order, and later than t.
LEMMA FromOrdered ==
  ASSUME NEW times \in Seq(Int), NEW t \in Int, NEW m \in Int, InOrder(times, m)
  PROVE  /\ InOrder(From(times, t), m)
         /\ Len(From(times, t)) > 0 => From(times, t)[1] > t
<1>1. PICK d \in Nat : Drops(times, t, d) /\ From(times, t) = SubSeq(times, d + 1, Len(times))
  BY FromDrops
<1>2. Len(times) \in Nat /\ d \in 0..Len(times) /\ \A i \in 1..Len(times) : times[i] \in Int
  BY <1>1 DEF Drops
<1> DEFINE rest == SubSeq(times, d + 1, Len(times))
<1>3. /\ rest \in Seq(Int) /\ Len(rest) = Len(times) - d
      /\ \A i \in 1..(Len(times) - d) : rest[i] = times[i + d]
  BY <1>2, Rest
<1> HIDE DEF rest
<1>4. ASSUME NEW i \in 1..Len(rest) PROVE rest[i] \in 0..m /\ (i > 1 => rest[i - 1] <= rest[i])
  <2>1. i \in 1..(Len(times) - d) /\ i + d \in 1..Len(times) /\ rest[i] = times[i + d]
    BY <1>2, <1>3
  <2>2. times[i + d] \in 0..m /\ (i + d > 1 => times[(i + d) - 1] <= times[i + d])
    BY <2>1 DEF InOrder
  <2>3. ASSUME i > 1 PROVE rest[i - 1] <= rest[i]
    <3>1. i - 1 \in 1..(Len(times) - d) /\ (i - 1) + d = (i + d) - 1 /\ i + d > 1
      BY <1>2, <2>1, <2>3
    <3>2. rest[i - 1] = times[(i - 1) + d]
      BY <1>3, <3>1
    <3>3. QED
      BY <2>1, <2>2, <3>1, <3>2
  <2>4. QED
    BY <2>1, <2>2, <2>3
<1>5. InOrder(rest, m)
  BY <1>3, <1>4 DEF InOrder
<1>6. ASSUME Len(rest) > 0 PROVE rest[1] > t
  <2>1. 1 \in 1..(Len(times) - d) /\ d < Len(times) /\ 1 + d = d + 1
    BY <1>2, <1>3, <1>6
  <2>2. rest[1] = times[1 + d]
    BY <1>3, <2>1
  <2>3. QED
    BY <1>1, <2>1, <2>2 DEF Drops
<1>7. QED
  BY <1>1, <1>5, <1>6 DEF rest

\* Nothing is dropped when the first is later than t, and something when it is not.
LEMMA FirstDecides ==
  ASSUME NEW times \in Seq(Int), NEW t \in Int, Len(times) > 0
  PROVE  /\ times[1] > t => From(times, t) = times
         /\ times[1] <= t => Len(From(times, t)) < Len(times)
<1>1. PICK d \in Nat : Drops(times, t, d) /\ From(times, t) = SubSeq(times, d + 1, Len(times))
  BY FromDrops
<1>2. Len(times) \in Nat /\ d \in 0..Len(times) /\ times[1] \in Int
  BY <1>1 DEF Drops
<1>3. ASSUME times[1] > t PROVE From(times, t) = times
  <2>1. ~(d > 0)
    <3> SUFFICES ASSUME d > 0 PROVE FALSE
      OBVIOUS
    <3>1. 1 \in 1..d
      BY <1>2
    <3>2. QED
      BY <1>1, <1>2, <1>3, <3>1 DEF Drops
  <2>2. d = 0
    BY <1>2, <2>1
  <2>3. QED
    BY <1>1, <2>2
<1>4. ASSUME times[1] <= t PROVE Len(From(times, t)) < Len(times)
  <2>1. d /= 0
    BY <1>1, <1>2, <1>4 DEF Drops
  <2>2. QED
    BY <1>1, <1>2, <2>1, Rest
<1>5. QED
  BY <1>3, <1>4

\* Whole seconds until a time that is to come: enough, and not a second too many.
LEMMA SecondsEnough ==
  ASSUME NEW t \in Int, NEW now \in Int, t > now
  PROVE  LET until == now + SecondLength * SecondsUntil(t, now)
         IN until \in Int /\ t <= until /\ until < t + SecondLength
<1> DEFINE x == t - now + SecondLength - 1
           q == x \div SecondLength
<1>1. SecondLength \in Nat /\ SecondLength > 0 /\ x \in Nat
  BY RequestWindowAssumption
<1>2. q \in Int /\ SecondLength * q <= x /\ x < SecondLength * q + SecondLength
  <2> HIDE DEF x
  <2> QED BY <1>1
<1>3. SecondsUntil(t, now) = q
  BY DEF SecondsUntil
<1>4. SecondLength * q \in Int
  BY <1>1, <1>2
<1> DEFINE p == SecondLength * q
<1> HIDE DEF q, p
<1>5. p \in Int /\ p <= x /\ x < p + SecondLength
  BY <1>2, <1>4 DEF p
<1>6. now + p \in Int /\ t <= now + p /\ now + p < t + SecondLength
  BY <1>1, <1>5
<1>7. QED
  BY <1>3, <1>6 DEF p, q

\* What ages is gone for what is counted at any later time too.
LEMMA KeptTwice ==
  ASSUME NEW times \in Seq(Int), NEW t \in Int, NEW u \in Int, t <= u
  PROVE  Kept(times, t) \in Seq(Int) /\ Kept(Kept(times, t), u) = Kept(times, u)
<1>1. Window \in Int
  BY RequestWindowAssumption DEF Window
<1>2. t - Window \in Int /\ u - Window \in Int /\ t - Window <= u - Window
  BY <1>1
<1> HIDE DEF Window
<1>3. QED
  BY <1>2, FromTwice, FromType DEF Kept

\* The invariant's consequence at a later time.
LEMMA KeptLater ==
  ASSUME WindowInv, NEW u \in Int, moment <= u
  PROVE  /\ Kept(stamps, u) = From(admitted.times, u - Window)
         /\ \A k \in Seq(Int) : ExplainedBy(k) => Kept(stamps, u) = From(k, u - Window)
<1>1. Window \in Int /\ moment \in Int
  BY RequestWindowAssumption DEF Window, WindowInv
<1>2. moment - Window \in Int /\ u - Window \in Int /\ moment - Window <= u - Window
  BY <1>1
<1>3. Kept(stamps, u) = From(Kept(stamps, moment), u - Window)
  BY <1>2, FromTwice DEF Kept, WindowInv
<1>4. From(From(admitted.times, moment - Window), u - Window) = From(admitted.times, u - Window)
  BY <1>2, FromTwice DEF WindowInv
<1>5. ASSUME NEW k \in Seq(Int), ExplainedBy(k) PROVE Kept(stamps, u) = From(k, u - Window)
  BY <1>2, <1>3, <1>5, FromTwice DEF ExplainedBy
<1>6. QED
  BY <1>3, <1>4, <1>5 DEF WindowInv

\* In the beginning nothing was let through.
LEMMA WindowInitInv == RequestWindowInit => WindowInv
<1> SUFFICES ASSUME RequestWindowInit PROVE WindowInv
  OBVIOUS
<1>1. stamps \in Seq(Int) /\ admitted.times = stamps /\ Len(stamps) = 0
  BY DEF RequestWindowInit
<1>2. windowLimit \in Nat /\ admitted.limit = windowLimit /\ moment = 0 /\ 0 \in 0..LastMoment
  BY RequestWindowAssumption DEF RequestWindowInit
<1>3. WindowHolds
  BY <1>1, <1>2 DEF WindowHolds
<1>4. InOrder(stamps, moment)
  BY <1>1 DEF InOrder
<1>5. QED
  BY <1>1, <1>2, <1>3, <1>4 DEF RequestWindowInit, WindowInv, Kept, ToldRight

\* Nothing is counted again when time passes.
LEMMA MomentPassesInv == WindowInv /\ MomentPasses => WindowInv'
<1> SUFFICES ASSUME WindowInv, MomentPasses PROVE WindowInv'
  OBVIOUS
<1>1. moment \in Nat /\ moment' = moment + 1 /\ moment' \in 0..LastMoment /\ stamps' = stamps /\ admitted' = admitted
  BY RequestWindowAssumption DEF WindowInv, MomentPasses
<1>2. InOrder(stamps, moment')
  BY <1>1 DEF WindowInv, InOrder
<1>3. /\ Kept(stamps, moment') = From(admitted.times, moment' - Window)
      /\ \A k \in Seq(Int) : ExplainedBy(k) => Kept(stamps, moment') = From(k, moment' - Window)
  BY <1>1, KeptLater
<1>4. ASSUME NEW k \in Seq(Int), ExplainedBy(k) PROVE ExplainedBy(k)'
  BY <1>1, <1>3, <1>4 DEF ExplainedBy, MomentPasses, Kept
<1>5. refusal' /= Nothing => \E k \in Seq(Int) : ExplainedBy(k)'
  BY <1>4 DEF WindowInv, MomentPasses
<1>6. question' /= Nothing => question'.at \in 0..moment' /\ question'.limit \in WindowLimits
  BY <1>1 DEF WindowInv, MomentPasses
<1>7. ToldRight' /\ WindowHolds'
  BY DEF WindowInv, MomentPasses, ToldRight, WindowHolds
<1>8. (Kept(stamps, moment) = From(admitted.times, moment - Window))'
  BY <1>1, <1>3 DEF Kept
<1>9. InOrder(stamps, moment)'
  BY <1>1, <1>2 DEF InOrder
<1>10. QED
  BY <1>1, <1>5, <1>6, <1>7, <1>8, <1>9 DEF WindowInv, MomentPasses

\* What was let through was judged by the limit of then.
LEMMA LimitChangesInv == WindowInv /\ LimitChanges => WindowInv'
BY DEF WindowInv, LimitChanges, WindowHolds, Kept, ExplainedBy, InOrder, ToldRight

\* A request reads the limit.
LEMMA RequestComesInv == WindowInv /\ RequestComes => WindowInv'
BY DEF WindowInv, RequestComes, WindowHolds, Kept, ExplainedBy, InOrder, ToldRight

\* A question for the status reads the time and the limit.
LEMMA StatusAskedInv == WindowInv /\ StatusAsked => WindowInv'
BY DEF WindowInv, StatusAsked, WindowHolds, Kept, ExplainedBy, InOrder, ToldRight

\* A request that finds fewer in the window than its limit adds one.
LEMMA AdmitInv == WindowInv /\ Admit => WindowInv'
<1> SUFFICES ASSUME WindowInv, Admit PROVE WindowInv'
  OBVIOUS
<1> DEFINE kept == Kept(stamps, moment)
<1>1. moment \in Nat /\ Window \in Nat /\ Window > 0 /\ moment - Window \in Int /\ request \in WindowLimits /\ request \in Nat
  <2>1. SecondLength \in Nat /\ WindowSeconds \in Nat /\ SecondLength > 0 /\ WindowSeconds > 0
    BY RequestWindowAssumption
  <2>2. SecondLength * WindowSeconds \in Nat /\ SecondLength * WindowSeconds > 0
    BY <2>1
  <2>3. moment \in Nat /\ request \in WindowLimits /\ request \in Nat
    BY RequestWindowAssumption DEF WindowInv, Admit
  <2>4. QED
    BY <2>2, <2>3 DEF Window
<1>2. kept \in Seq(Int) /\ Len(kept) < request /\ InOrder(kept, moment)
  BY <1>1, FromType, FromOrdered DEF Kept, WindowInv, Admit
<1>3. kept = From(admitted.times, moment - Window)
  BY DEF WindowInv
<1>4. stamps' = Append(kept, moment) /\ admitted' = [times |-> Append(kept, moment), limit |-> request]
  BY <1>3 DEF Admit
<1> HIDE DEF kept
<1>5. stamps' \in Seq(Int) /\ Len(stamps') = Len(kept) + 1 /\ stamps'[Len(kept) + 1] = moment
      /\ \A i \in 1..Len(kept) : stamps'[i] = kept[i]
  BY <1>1, <1>2, <1>4
<1>6. admitted'.times = stamps' /\ WindowHolds'
  BY <1>1, <1>2, <1>4, <1>5 DEF WindowHolds
<1>7. InOrder(stamps', moment)
  <2> SUFFICES ASSUME NEW i \in 1..Len(stamps')
               PROVE stamps'[i] \in 0..moment /\ (i > 1 => stamps'[i - 1] <= stamps'[i])
    BY DEF InOrder
  <2>1. CASE i = Len(kept) + 1
    <3>1. i > 1 => i - 1 \in 1..Len(kept)
      BY <1>2, <2>1
    <3>2. i > 1 => stamps'[i - 1] \in 0..moment
      BY <1>2, <1>5, <3>1 DEF InOrder
    <3>3. QED
      BY <1>1, <1>5, <2>1, <3>2
  <2>2. CASE i /= Len(kept) + 1
    <3>1. i \in 1..Len(kept) /\ (i > 1 => i - 1 \in 1..Len(kept))
      BY <1>2, <1>5, <2>2
    <3>2. QED
      BY <1>2, <1>5, <3>1 DEF InOrder
  <2>3. QED
    BY <2>1, <2>2
<1>8. moment' = moment /\ windowLimit' = windowLimit /\ question' = question /\ told' = told
      /\ request' = Nothing /\ refusal' = Nothing
  BY DEF Admit
<1>9. InOrder(stamps, moment)' /\ ToldRight'
  BY <1>7, <1>8 DEF InOrder, ToldRight, WindowInv
<1>10. (Kept(stamps, moment) = From(admitted.times, moment - Window))'
  BY <1>6, <1>8 DEF Kept
<1>11. QED
  BY <1>5, <1>6, <1>8, <1>9, <1>10 DEF WindowInv

\* A refusal tells of a window after the first that it counted.
LEMMA RefuseInv == WindowInv /\ Refuse => WindowInv'
<1> SUFFICES ASSUME WindowInv, Refuse PROVE WindowInv'
  OBVIOUS
<1> DEFINE kept == Kept(stamps, moment)
<1>1. moment \in Nat /\ Window \in Int /\ moment - Window \in Int /\ request \in WindowLimits /\ request \in Nat
      /\ request > 0 /\ SecondLength \in Nat
  BY RequestWindowAssumption DEF Window, WindowInv, Refuse
<1>2. kept \in Seq(Int) /\ Len(kept) >= request /\ Len(kept) > 0 /\ InOrder(kept, moment)
      /\ kept[1] > moment - Window
  <2>1. kept \in Seq(Int) /\ Len(kept) \in Nat
    BY <1>1, FromType DEF Kept, WindowInv
  <2>2. Len(kept) >= request
    BY DEF Refuse
  <2>3. QED
    BY <1>1, <2>1, <2>2, FromOrdered DEF Kept, WindowInv
<1>3. stamps' = kept /\ request' = Nothing /\ moment' = moment /\ windowLimit' = windowLimit
      /\ question' = question /\ told' = told /\ admitted' = admitted
  BY DEF Refuse
<1>4. refusal' = [limit |-> request, used |-> Len(kept),
                  until |-> moment + SecondLength * SecondsUntil(kept[1] + Window, moment)]
  BY DEF Refuse
<1>5. Kept(kept, moment) = kept
  BY <1>1, KeptTwice DEF WindowInv
<1>6. kept = From(admitted.times, moment - Window)
  BY DEF WindowInv
<1>7. kept = From(kept, moment - Window)
  BY <1>5 DEF Kept
<1> HIDE DEF kept
<1>8. kept[1] \in Int /\ kept[1] + Window \in Int /\ kept[1] + Window > moment
  BY <1>1, <1>2
<1>9. /\ refusal'.until \in Int
      /\ kept[1] + Window <= refusal'.until /\ refusal'.until < kept[1] + Window + SecondLength
  <2> DEFINE first == kept[1] + Window
             until == moment + SecondLength * SecondsUntil(first, moment)
  <2>1. first \in Int /\ moment \in Int /\ first > moment
    BY <1>1, <1>8
  <2> HIDE DEF first
  <2>2. until \in Int /\ first <= until /\ until < first + SecondLength
    BY <2>1, SecondsEnough
  <2>3. refusal'.until = until
    BY <1>4 DEF first
  <2> HIDE DEF until
  <2>4. QED
    BY <2>2, <2>3 DEF first
<1>10. ASSUME NEW k, k = kept PROVE ExplainedBy(k)'
  <2>1. refusal'.used = Len(kept) /\ refusal'.limit = request
    BY <1>4
  <2>2. Kept(stamps', moment') = From(k, moment' - Window)
    BY <1>3, <1>5, <1>7, <1>10
  <2>3. QED
    BY <1>1, <1>2, <1>9, <1>10, <2>1, <2>2 DEF ExplainedBy, Kept
<1>11. \E k \in Seq(Int) : ExplainedBy(k)'
  BY <1>2, <1>10
<1>12. (Kept(stamps, moment) = From(admitted.times, moment - Window))'
  BY <1>3, <1>5, <1>6 DEF Kept
<1>13. InOrder(stamps, moment)' /\ ToldRight' /\ WindowHolds'
  BY <1>2, <1>3 DEF InOrder, ToldRight, WindowHolds, WindowInv
<1>14. QED
  BY <1>2, <1>3, <1>11, <1>12, <1>13 DEF WindowInv

\* A status drops what had aged at the time it was asked for, and tells of what is left.
LEMMA StatusAnsweredInv == WindowInv /\ StatusAnswered => WindowInv'
<1> SUFFICES ASSUME WindowInv, StatusAnswered PROVE WindowInv'
  OBVIOUS
<1> DEFINE kept == Kept(stamps, question.at)
           now == Kept(stamps, moment)
<1>1. moment \in Nat /\ Window \in Int /\ question.at \in Nat /\ question.at <= moment
      /\ question.limit \in Nat /\ moment - Window \in Int /\ question.at - Window \in Int
  <2>1. moment \in Nat /\ Window \in Int
    BY RequestWindowAssumption DEF Window, WindowInv
  <2>2. question.at \in 0..moment /\ question.limit \in WindowLimits
    BY DEF WindowInv, StatusAnswered
  <2>3. \A i \in 0..moment : i \in Nat /\ i <= moment
    BY <2>1
  <2>4. question.at \in Nat /\ question.at <= moment
    BY <2>2, <2>3, Zenon
  <2>5. WindowLimits \subseteq Nat
    BY RequestWindowAssumption
  <2>6. question.limit \in Nat
    BY <2>2, <2>5, Zenon
  <2>7. QED
    BY <2>1, <2>4, <2>6
<1>2. kept \in Seq(Int) /\ InOrder(kept, moment)
  <2>1. stamps \in Seq(Int) /\ InOrder(stamps, moment) /\ moment \in Int
    BY <1>1 DEF WindowInv
  <2>2. QED
    BY <1>1, <2>1, FromType, FromOrdered DEF Kept
<1>3. Kept(kept, moment) = now
  BY <1>1, KeptTwice DEF WindowInv
<1>4. Len(kept) \in Nat /\ Len(now) \in 0..Len(kept)
  <2>1. moment - Window \in Int
    BY <1>1
  <2>2. QED
    BY <1>2, <1>3, <2>1, FromType DEF Kept
<1>5. stamps' = kept /\ question' = Nothing /\ moment' = moment /\ windowLimit' = windowLimit
      /\ request' = request /\ refusal' = refusal /\ admitted' = admitted
  BY DEF StatusAnswered
<1>6. told' = [limit |-> question.limit,
               remaining |-> IF Len(kept) < question.limit THEN question.limit - Len(kept) ELSE 0,
               room |-> question.limit - Len(now)]
  BY DEF StatusAnswered
<1>7. now = From(admitted.times, moment - Window)
  BY DEF WindowInv
<1>8. \A k \in Seq(Int) : ExplainedBy(k) => now = From(k, moment - Window)
  BY DEF ExplainedBy
<1> HIDE DEF kept, now
<1>9. ToldRight'
  BY <1>1, <1>4, <1>6 DEF ToldRight
<1>10. ASSUME NEW k \in Seq(Int), ExplainedBy(k) PROVE ExplainedBy(k)'
  BY <1>3, <1>5, <1>8, <1>10 DEF ExplainedBy, Kept
<1>11. refusal' /= Nothing => \E k \in Seq(Int) : ExplainedBy(k)'
  BY <1>5, <1>10 DEF WindowInv
<1>12. (Kept(stamps, moment) = From(admitted.times, moment - Window))'
  BY <1>3, <1>5, <1>7 DEF Kept
<1>13. InOrder(stamps, moment)' /\ WindowHolds'
  BY <1>2, <1>5 DEF InOrder, WindowHolds, WindowInv
<1>14. QED
  BY <1>2, <1>5, <1>9, <1>11, <1>12, <1>13 DEF WindowInv

\* Every step keeps it.
LEMMA WindowStepInv == WindowInv /\ [RequestWindowNext]_windowVars => WindowInv'
<1> SUFFICES ASSUME WindowInv, [RequestWindowNext]_windowVars PROVE WindowInv'
  OBVIOUS
<1>1. CASE UNCHANGED windowVars
  BY <1>1 DEF windowVars, WindowInv, WindowHolds, Kept, ExplainedBy, InOrder, ToldRight
<1>2. QED
  BY <1>1, MomentPassesInv, LimitChangesInv, RequestComesInv, AdmitInv, RefuseInv, StatusAskedInv,
     StatusAnsweredInv DEF RequestWindowNext

\* The time told with a refusal comes true: what it counted is what is left to age.
LEMMA RefusalComesTrue == WindowInv => RetryAfterHolds
<1> SUFFICES ASSUME WindowInv, refusal /= Nothing, refusal.used = refusal.limit
             PROVE  LET used == Len(Kept(stamps, moment))
                    IN /\ moment >= refusal.until /\ windowLimit >= refusal.limit => used < windowLimit
                       /\ moment + SecondLength <= refusal.until => used = refusal.limit
  BY DEF RetryAfterHolds
<1>1. PICK k \in Seq(Int) : ExplainedBy(k)
  BY DEF WindowInv
<1>2. moment \in Nat /\ Window \in Int /\ moment - Window \in Int /\ SecondLength \in Nat
      /\ windowLimit \in Nat
  BY RequestWindowAssumption DEF Window, WindowInv
<1> DEFINE left == From(k, moment - Window)
<1>3. Len(k) = refusal.limit /\ Len(k) \in Nat /\ Len(k) > 0 /\ k[1] \in Int /\ refusal.until \in Int
      /\ k[1] + Window <= refusal.until /\ refusal.until < k[1] + Window + SecondLength
  BY <1>1 DEF ExplainedBy
<1>4. Kept(stamps, moment) = left
  BY <1>1 DEF ExplainedBy
<1>5. /\ k[1] > moment - Window => left = k
      /\ k[1] <= moment - Window => Len(left) < Len(k)
  BY <1>2, <1>3, FirstDecides
<1>6. Len(left) \in Nat
  BY <1>2, FromType
<1> HIDE DEF left
<1>7. moment >= refusal.until /\ windowLimit >= refusal.limit => Len(left) < windowLimit
  BY <1>2, <1>3, <1>5, <1>6
<1>8. moment + SecondLength <= refusal.until => Len(left) = refusal.limit
  BY <1>2, <1>3, <1>5, <1>6
<1>9. QED
  BY <1>4, <1>7, <1>8

\* What the invariant promises.
LEMMA WindowPromises ==
  ASSUME WindowInv
  PROVE  WindowTypeOK /\ WindowHolds /\ RetryAfterHolds /\ StatusNotTooMany
<1>1. \A i \in DOMAIN stamps : stamps[i] \in 0..moment /\ (i > 1 => stamps[i - 1] <= stamps[i])
  BY DEF WindowInv, InOrder
<1>2. WindowTypeOK
  BY <1>1 DEF WindowInv, WindowTypeOK, ToldRight
<1>3. StatusNotTooMany
  BY DEF WindowInv, StatusNotTooMany, ToldRight
<1>4. QED
  BY <1>2, <1>3, RefusalComesTrue DEF WindowInv

\* However the limit changes and the status is asked for in between, no window has more
\* admitted requests than the limit of the last of them, the time told with a refusal
\* comes true, and a status never tells of more room than there is.
THEOREM WindowTold ==
  RequestWindowSpec => [](WindowTypeOK /\ WindowHolds /\ RetryAfterHolds /\ StatusNotTooMany)
<1>1. WindowInv => WindowTypeOK /\ WindowHolds /\ RetryAfterHolds /\ StatusNotTooMany
  BY WindowPromises
<1>2. QED
  BY <1>1, WindowInitInv, WindowStepInv, PTL DEF RequestWindowSpec

(***************************************************************************)
(* The parts together                                                       *)
(***************************************************************************)
\* The invariant of the part that runs.
PartsInv ==
  /\ part = "schedules" => ScheduleInv
  /\ part = "delivery" => OutboxInv
  /\ part = "calendar" => CalendarInv
  /\ part = "watchdogs" => WatchInv
  /\ part = "local" => LocalInv
  /\ part = "limits" => CopyInv
  /\ part = "window" => WindowInv

\* The part that is chosen keeps its invariant.
THEOREM PartsInvariant == PartSpec => []PartsInv
<1>1. PartInit => PartsInv
  BY ScheduleInitInv, OutboxInitInv, CalendarInitInv, WatchInitInv, LocalInitInv, CopyInitInv,
     WindowInitInv DEF PartInit, PartsInv
<1>2. PartsInv /\ [PartNext]_partVars => PartsInv'
  <2> SUFFICES ASSUME PartsInv, [PartNext]_partVars PROVE PartsInv'
    OBVIOUS
  <2>1. UNCHANGED part
    BY DEF PartNext, partVars
  <2>2. CASE part = "schedules"
    <3>1. [SchedulerNext]_scheduleVars
      BY <2>2 DEF PartNext, partVars
    <3>2. QED
      BY <2>1, <2>2, <3>1, ScheduleStep DEF PartsInv
  <2>3. CASE part = "delivery"
    <3>1. [OutboxNext]_outboxVars
      BY <2>3 DEF PartNext, partVars
    <3>2. QED
      BY <2>1, <2>3, <3>1, OutboxStep DEF PartsInv
  <2>4. CASE part = "watchdogs"
    <3>1. [WatchdogsNext]_watchVars
      BY <2>4 DEF PartNext, partVars
    <3>2. QED
      BY <2>1, <2>4, <3>1, WatchStep DEF PartsInv
  <2>5. CASE part = "local"
    <3>1. [LocalNext]_localVars
      BY <2>5 DEF PartNext, partVars
    <3>2. QED
      BY <2>1, <2>5, <3>1, LocalStepInv DEF PartsInv
  <2>6. CASE part = "limits"
    <3>1. [LimitCopiesNext]_copyVars
      BY <2>6 DEF PartNext, partVars
    <3>2. QED
      BY <2>1, <2>6, <3>1, CopyStepInv DEF PartsInv
  <2>7. CASE part = "calendar"
    <3>1. [CalendarNext]_calendarVars
      BY <2>7 DEF PartNext, partVars
    <3>2. QED
      BY <2>1, <2>7, <3>1, CalendarStepInv DEF PartsInv
  <2>8. CASE part = "window"
    <3>1. [RequestWindowNext]_windowVars
      BY <2>8 DEF PartNext, partVars
    <3>2. QED
      BY <2>1, <2>8, <3>1, WindowStepInv DEF PartsInv
  <2>9. CASE part \notin {"schedules", "delivery", "watchdogs", "local", "limits", "calendar", "window"}
    BY <2>1, <2>9 DEF PartsInv
  <2>10. QED
    BY <2>2, <2>3, <2>4, <2>5, <2>6, <2>7, <2>8, <2>9
<1>3. QED
  BY <1>1, <1>2, PTL DEF PartSpec

\* What runs in the background keeps its promises, whichever part it is: due minutes
\* become one run, messages are sent once but for losses, watchdogs give up what they are
\* for, local runs have their containers and outcomes, and the history its chain.
THEOREM BackgroundRight == PartSpec => []BackgroundKept
<1>1. PartsInv => BackgroundKept
  <2>1. ScheduleInv => ScheduleTypeOK /\ OccurrenceOnce /\ OnlyAsSaved /\ DueIsRegistered
    BY DEF ScheduleInv, ScheduleTypeOK, TimelyPass, BegunMinute
  <2>2. WatchInv => WatchdogsTypeOK /\ GivenUpIsBatch /\ ChosenStaysDue
    BY DEF WatchInv
  <2>3. OutboxInv => OutboxTypeOK /\ SentIsQueued /\ SentOnceButForLosses
    BY OutboxPromises
  <2>4. LocalInv => LocalTypeOK /\ OccurrenceRunsOnce /\ CompletedIsTrue /\ CancelledIsStopped
    BY LocalPromises
  <2>5. CopyInv => LimitCopiesTypeOK /\ HistoryChains
    BY CopyPromises
  <2>6. QED
    BY <2>1, <2>2, <2>3, <2>4, <2>5 DEF PartsInv, BackgroundKept
<1>2. QED
  BY <1>1, PartsInvariant, PTL

\* What is told beforehand comes true: the next run that the page of a script shows is the
\* first minute the scheduler takes as due, a refused client that waits as told is let
\* through, a status tells of no more requests than there is room for, and no window has
\* more than its limit.
THEOREM TellingRight == PartSpec => []ToldIsTrue
<1>1. PartsInv => ToldIsTrue
  BY NextIsFirst, WindowPromises DEF PartsInv, ToldIsTrue
<1>2. QED
  BY <1>1, PartsInvariant, PTL
=============================================================================
