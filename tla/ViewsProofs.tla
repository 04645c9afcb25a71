------------------------------ MODULE ViewsProofs ------------------------------
(***************************************************************************)
(* Theorems about RunViews and SchedulerPanel, as MCViews has them; about   *)
(* JobOutput, for any lengths of a stream, a page and the budget; and about *)
(* RateLimits, for any offices, drafts and numbers of writes and readings.  *)
(*                                                                          *)
(* The viewer of a run only goes forward with the server, and its row in    *)
(* the list goes with it.  What a viewer keeps of the output are lines of   *)
(* one stream in a row and its cursor is at the last of them; a page that   *)
(* begins elsewhere replaces them, and what is kept is cut at its beginning *)
(* alone.  A list of the limits lacks nothing but what a write under way    *)
(* has changed, or what no one tells the page of, and such a write reads    *)
(* the list again when it is answered.                                      *)
(***************************************************************************)
EXTENDS MCViews, TLAPS, FiniteSetTheorems, SequenceTheorems

(***************************************************************************)
(* A run as its pages show it                                               *)
(***************************************************************************)
\* What a page was told was so, and is so unless the status has changed since.
TrueOf(d) == d \in Told /\ d.at <= changes /\ (d.at = changes => d.is = status)

\* What is proved of a query: it has nothing that the server never said.
QueryRight(q) ==
  /\ q \in Queries
  /\ q.data /= None => TrueOf(q.data)
  /\ q.reading /= None => TrueOf(q.reading)

\* The invariant that is proved of the views of a run.
ViewsInv ==
  /\ status \in JobStatus /\ changes \in Nat /\ screen \in Screens
  /\ QueryRight(detail) /\ QueryRight(latest)
  /\ cancelling \in {"closed", "opened", "sent", "done"}
  /\ cancelling = "opened" => Viewed(screen)
  /\ detail.data /= None /\ detail.reading /= None => detail.reading.at >= detail.data.at
  /\ RowAgreesWithViewer

\* A reading begins, with what the server says now.
LEMMA QueryReads ==
  ASSUME status \in JobStatus, changes \in Nat, NEW q, QueryRight(q), NEW r \in {q, Reading(q), OnMount(q)}
  PROVE  /\ QueryRight(r) /\ r.data = q.data /\ r.failed = q.failed
         /\ r.reading /= q.reading => r.reading.at = changes
<1>1. PICK d : d = [is |-> status, at |-> changes]
  OBVIOUS
<1>2. TrueOf(d) /\ d.at = changes
  BY <1>1 DEF TrueOf, Told
<1>3. r \in {q, [q EXCEPT !.reading = d]}
  BY <1>1 DEF Reading, OnMount
<1>4. d \in Told
  BY <1>2 DEF TrueOf
<1>5. QED
  BY <1>2, <1>3, <1>4 DEF QueryRight, Queries

\* What the viewer says is written into the row.
LEMMA RowObserves ==
  ASSUME NEW q, QueryRight(q), NEW d, d = None \/ TrueOf(d), NEW p
  PROVE  /\ QueryRight(Observed(q, d, p))
         /\ Observed(q, d, p).data = IF Viewed(p) /\ d /= None /\ q.data /= None THEN d ELSE q.data
<1>1. CASE Viewed(p) /\ d /= None /\ q.data /= None
  <2>1. Observed(q, d, p) = [q EXCEPT !.data = d, !.failed = FALSE]
    BY <1>1 DEF Observed
  <2>2. d \in Told /\ TrueOf(d)
    BY <1>1 DEF TrueOf
  <2>3. QED
    BY <1>1, <2>1, <2>2 DEF QueryRight, Queries
<1>2. CASE ~(Viewed(p) /\ d /= None /\ q.data /= None)
  BY <1>2 DEF Observed
<1>3. QED
  BY <1>1, <1>2

\* A query whose reading was answered, or failed.
LEMMA QueryEnds ==
  ASSUME NEW q, QueryRight(q), NEW d, TrueOf(d)
  PROVE  /\ QueryRight([q EXCEPT !.reading = None, !.failed = TRUE])
         /\ [q EXCEPT !.reading = None, !.failed = TRUE].data = q.data
         /\ [q EXCEPT !.reading = None, !.failed = TRUE].reading = None
         /\ [q EXCEPT !.reading = None, !.failed = TRUE].failed
         /\ QueryRight([data |-> d, reading |-> None, failed |-> FALSE])
BY DEF QueryRight, Queries, TrueOf

LEMMA ViewsInitInv == RunViewsInit => ViewsInv
<1>1. NoQuery \in Queries /\ NoQuery.data = None /\ NoQuery.reading = None
  BY DEF NoQuery, Queries
<1>2. QED
  BY <1>1 DEF RunViewsInit, ViewsInv, QueryRight, JobStatus, Screens, RowAgreesWithViewer, Viewed

\* What was told stays true of the time it was told at, when the server moves on.
LEMMA ServerGoesOn ==
  ASSUME ViewsInv, status' \in JobStatus, UNCHANGED <<screen, detail, latest>>,
         cancelling' \in {"closed", "opened", "sent", "done"}, cancelling' = "opened" => Viewed(screen),
         changes' = changes + 1 \/ UNCHANGED <<status, changes>>
  PROVE  ViewsInv'
<1>1. changes \in Nat /\ changes' \in Nat
  BY DEF ViewsInv
<1>2. \A d : TrueOf(d) => TrueOf(d)'
  BY <1>1 DEF TrueOf, Told
<1>3. QueryRight(detail)' /\ QueryRight(latest)'
  <2>1. PICK d, l : d = detail /\ l = latest
    OBVIOUS
  <2>2. QueryRight(d)' /\ QueryRight(l)'
    BY <1>2, <2>1 DEF ViewsInv, QueryRight
  <2>3. QED
    BY <2>1, <2>2
<1>4. QED
  BY <1>1, <1>3 DEF ViewsInv, RowAgreesWithViewer, Viewed

\* The invariant is inductive, and the viewer never goes back.
LEMMA ViewsStepInv ==
  ASSUME ViewsInv, RunViewsNext
  PROVE  ViewsInv' /\ (detail.data /= None /\ detail'.data /= None => detail'.data.at >= detail.data.at)
<1>1. /\ status \in JobStatus /\ changes \in Nat /\ detail \in Queries /\ latest \in Queries
      /\ detail.data /= None => TrueOf(detail.data) /\ detail.data.at \in Nat
      /\ detail.reading /= None => TrueOf(detail.reading) /\ detail.reading.at \in Nat
      /\ latest.reading /= None => TrueOf(latest.reading)
  BY DEF ViewsInv, QueryRight, TrueOf, Told
<1>2. CASE ServerMoves
  <2>1. status' \in Becomes[status] /\ changes' = changes + 1 /\ UNCHANGED <<screen, detail, latest, cancelling>>
    BY <1>2 DEF ServerMoves
  <2>2. status' \in JobStatus
    BY <1>1, <2>1 DEF Becomes, JobStatus
  <2>3. QED
    BY <1>1, <2>1, <2>2, ServerGoesOn DEF ViewsInv
<1>3. CASE ReadDetail \/ ReadLatest \/ ReadAgain
  <2>1. /\ detail' \in {detail, Reading(detail)} /\ latest' \in {latest, Reading(latest)}
        /\ UNCHANGED <<status, changes, screen, cancelling>>
    BY <1>3 DEF ReadDetail, ReadLatest, ReadAgain
  <2>2. /\ QueryRight(detail)' /\ detail'.data = detail.data /\ detail'.failed = detail.failed
        /\ detail'.reading /= detail.reading => detail'.reading.at = changes
        /\ QueryRight(latest)' /\ latest'.data = latest.data /\ latest'.failed = latest.failed
    <3>1. PICK d, l : d = detail' /\ l = latest'
      OBVIOUS
    <3>2. /\ QueryRight(d) /\ d.data = detail.data /\ d.failed = detail.failed
          /\ d.reading /= detail.reading => d.reading.at = changes
          /\ QueryRight(l) /\ l.data = latest.data /\ l.failed = latest.failed
      BY <1>1, <2>1, <3>1, QueryReads DEF ViewsInv
    <3>3. QED
      BY <2>1, <3>1, <3>2 DEF QueryRight, TrueOf
  <2>3. detail.data /= None => detail.data.at <= changes
    BY <1>1 DEF TrueOf
  <2>4. detail'.data /= None /\ detail'.reading /= None => detail'.reading.at >= detail'.data.at
    BY <1>1, <2>2, <2>3 DEF ViewsInv
  <2>5. RowAgreesWithViewer'
    BY <2>1, <2>2 DEF ViewsInv, RowAgreesWithViewer, Viewed
  <2>6. detail.data /= None /\ detail'.data /= None => detail'.data.at >= detail.data.at
    BY <1>1, <2>2
  <2>7. QED
    BY <1>1, <2>1, <2>2, <2>4, <2>5, <2>6 DEF ViewsInv, Viewed
<1>4. CASE DetailArrives
  <2>1. /\ detail.reading /= None /\ detail' = [data |-> detail.reading, reading |-> None, failed |-> FALSE]
        /\ latest' = Observed(latest, detail.reading, screen)
        /\ UNCHANGED <<status, changes, screen, cancelling>>
    BY <1>4 DEF DetailArrives
  <2>2. PICK d, l : d = detail' /\ l = latest'
    OBVIOUS
  <2>3. /\ QueryRight(l)
        /\ l.data = IF Viewed(screen) /\ latest.data /= None THEN detail.reading ELSE latest.data
    BY <1>1, <2>1, <2>2, RowObserves DEF ViewsInv
  <2>4. QueryRight(d) /\ d.data = detail.reading /\ d.reading = None
    BY <1>1, <2>1, <2>2, QueryEnds DEF ViewsInv
  <2>5. QueryRight(detail)' /\ QueryRight(latest)'
    BY <2>1, <2>2, <2>3, <2>4 DEF QueryRight, TrueOf
  <2>6. RowAgreesWithViewer'
    BY <2>1, <2>2, <2>3, <2>4 DEF RowAgreesWithViewer, Viewed
  <2>7. detail.data /= None => detail.reading.at >= detail.data.at
    BY <2>1 DEF ViewsInv
  <2>8. QED
    BY <1>1, <2>1, <2>2, <2>4, <2>5, <2>6, <2>7 DEF ViewsInv, Viewed
<1>5. CASE LatestArrives
  <2>1. /\ latest.reading /= None /\ latest' = [data |-> Merged(latest.reading), reading |-> None, failed |-> FALSE]
        /\ UNCHANGED <<status, changes, screen, detail, cancelling>>
    BY <1>5 DEF LatestArrives
  <2>2. PICK row : row = Merged(latest.reading)
    OBVIOUS
  <2>3. TrueOf(row)
    BY <1>1, <2>1, <2>2 DEF Merged
  <2>4. PICK l : l = latest'
    OBVIOUS
  <2>5. QueryRight(l) /\ l.data = row
    BY <2>1, <2>2, <2>3, <2>4, QueryEnds DEF ViewsInv
  <2>6. QueryRight(latest)' /\ QueryRight(detail)'
    BY <2>1, <2>4, <2>5 DEF QueryRight, TrueOf, ViewsInv
  <2>7. RowAgreesWithViewer'
    BY <2>1, <2>2, <2>4, <2>5 DEF Merged, RowAgreesWithViewer, Viewed
  <2>8. QED
    BY <1>1, <2>1, <2>6, <2>7 DEF ViewsInv, Viewed
<1>6. CASE DetailFails \/ LatestFails
  <2>1. /\ detail' \in {detail, [detail EXCEPT !.reading = None, !.failed = TRUE]}
        /\ latest' \in {latest, [latest EXCEPT !.reading = None, !.failed = TRUE]}
        /\ UNCHANGED <<status, changes, screen, cancelling>>
    BY <1>6 DEF DetailFails, LatestFails
  <2>2. /\ QueryRight(detail)' /\ detail'.data = detail.data /\ (detail.failed => detail'.failed)
        /\ detail'.reading /= None => detail'.reading = detail.reading
        /\ QueryRight(latest)' /\ latest'.data = latest.data
    BY <1>1, <2>1 DEF ViewsInv, QueryRight, Queries, TrueOf
  <2>3. QED
    BY <1>1, <2>1, <2>2 DEF ViewsInv, RowAgreesWithViewer, Viewed
<1>7. CASE Go \/ CancelAnswered
  <2>1. PICK p \in Screens, d \in {detail, Reading(detail), OnMount(detail)},
              q \in {latest, Reading(latest), OnMount(latest)} :
          /\ screen' = p /\ UNCHANGED <<status, changes>> /\ detail' = d
          /\ latest' = Observed(q, detail.data, p) \/ (screen = p /\ latest' = q)
          /\ cancelling' \in {"closed", "sent", "done"}
    <3>1. CASE Go
      <4>1. PICK p \in Screens \ {screen} : Enters(p)
        BY <3>1 DEF Go
      <4>2. QED
        BY <3>1, <4>1 DEF Go, Enters
    <3>2. CASE CancelAnswered
      BY <3>2 DEF CancelAnswered, Screens
    <3>3. QED
      BY <1>7, <3>1, <3>2
  <2>2. /\ QueryRight(d) /\ d.data = detail.data /\ d.failed = detail.failed
        /\ d.reading /= detail.reading => d.reading.at = changes
        /\ QueryRight(q) /\ q.data = latest.data
    BY <1>1, <2>1, QueryReads DEF ViewsInv
  <2>3. PICK l : l = latest'
    OBVIOUS
  <2>4. /\ QueryRight(l)
        /\ \/ l.data = IF Viewed(p) /\ detail.data /= None /\ latest.data /= None THEN detail.data ELSE latest.data
           \/ screen = p /\ l.data = latest.data
    BY <1>1, <2>1, <2>2, <2>3, RowObserves
  <2>5. QueryRight(detail)' /\ QueryRight(latest)'
    BY <2>1, <2>2, <2>3, <2>4 DEF QueryRight, TrueOf
  <2>6. RowAgreesWithViewer'
    BY <2>1, <2>2, <2>3, <2>4 DEF ViewsInv, RowAgreesWithViewer, Viewed
  <2>7. d.data /= None /\ d.reading /= None => d.reading.at >= d.data.at
    BY <1>1, <2>2 DEF ViewsInv, TrueOf
  <2>8. QED
    BY <1>1, <2>1, <2>2, <2>5, <2>6, <2>7 DEF ViewsInv, Viewed
<1>8. CASE Forget
  <2>1. detail' = NoQuery /\ ~Viewed(screen) /\ UNCHANGED <<status, changes, screen, latest, cancelling>>
    BY <1>8 DEF Forget
  <2>2. NoQuery \in Queries /\ NoQuery.data = None /\ NoQuery.reading = None
    BY DEF NoQuery, Queries
  <2>3. QED
    BY <2>1, <2>2 DEF ViewsInv, QueryRight, TrueOf, RowAgreesWithViewer, Viewed
<1>9. CASE OpenCancel \/ CloseCancel \/ ConfirmCancel \/ CancelFails
  <2>1. /\ UNCHANGED <<status, changes, screen, detail, latest>>
        /\ cancelling' \in {"closed", "opened", "sent"} /\ (cancelling' = "opened" => Viewed(screen))
    BY <1>9 DEF OpenCancel, CloseCancel, ConfirmCancel, CancelFails, CancelShown
  <2>2. QED
    BY <1>1, <2>1, ServerGoesOn
<1>10. CASE CancelReceived
  <2>1. /\ status' \in {"Cancelling", "Cancelled", status} /\ cancelling' = "done"
        /\ changes' = IF status' = status THEN changes ELSE changes + 1
        /\ UNCHANGED <<screen, detail, latest>>
    BY <1>10 DEF CancelReceived
  <2>2. status' \in JobStatus /\ (changes' = changes + 1 \/ UNCHANGED <<status, changes>>)
    BY <1>1, <2>1 DEF JobStatus
  <2>3. cancelling' /= "opened"
    BY <2>1
  <2>4. QED
    BY <1>1, <2>1, <2>2, <2>3, ServerGoesOn
<1>11. QED
  BY <1>2, <1>3, <1>4, <1>5, <1>6, <1>7, <1>8, <1>9, <1>10 DEF RunViewsNext

LEMMA ViewsKept == ASSUME ViewsInv, UNCHANGED viewVars PROVE ViewsInv'
<1>1. UNCHANGED <<status, changes, screen, detail, latest, cancelling>>
  BY DEF viewVars
<1>2. QED
  BY <1>1, ServerGoesOn DEF ViewsInv

(***************************************************************************)
(* The health of the scheduler                                              *)
(***************************************************************************)
\* What the server answers, or nothing
Healths == {None} \cup [enabled: BOOLEAN, tasks: UNION {[D -> BOOLEAN] : D \in SUBSET Tasks}]

\* Who says that all tasks are well was told so by one of them.
HealthRight(h) ==
  h /= None /\ h.tasks /= <<>> /\ (\A t \in DOMAIN h.tasks : h.tasks[t]) => \E t \in DOMAIN ages : ages[t] /= None

\* The invariant that is proved of the panel.
SchedulerInv ==
  /\ enabled \in BOOLEAN /\ open \in BOOLEAN
  /\ DOMAIN ages \subseteq Tasks /\ \A t \in DOMAIN ages : ages[t] \in {None, "recent", "old"}
  /\ health \in [data: Healths, reading: Healths, failed: BOOLEAN]
  /\ HealthRight(health.data) /\ HealthRight(health.reading)

LEMMA SchedulerInitInv == SchedulerPanelInit => SchedulerInv
<1> SUFFICES ASSUME SchedulerPanelInit PROVE SchedulerInv
  OBVIOUS
<1>1. DOMAIN <<>> = {} /\ None \in Healths
  BY DEF Healths
<1>2. enabled \in BOOLEAN /\ open \in BOOLEAN /\ DOMAIN ages = {}
  BY <1>1 DEF SchedulerPanelInit
<1>3. /\ health \in [data: Healths, reading: Healths, failed: BOOLEAN]
      /\ health.data = None /\ health.reading = None
  BY <1>1 DEF SchedulerPanelInit
<1>4. QED
  BY <1>2, <1>3 DEF SchedulerInv, HealthRight

\* A reading of the health is right.
LEMMA HealthIsTold ==
  ASSUME SchedulerInv
  PROVE  HealthNow \in Healths /\ HealthRight(HealthNow)
<1> DEFINE tasks == [t \in DOMAIN ages |-> ages[t] = "recent"]
<1>1. tasks \in [DOMAIN ages -> BOOLEAN] /\ DOMAIN ages \in SUBSET Tasks
  BY DEF SchedulerInv
<1>2. DOMAIN ages = {} => tasks = <<>>
  OBVIOUS
<1>3. \A t \in DOMAIN tasks : tasks[t] => ages[t] /= None
  BY SchedulerPanelAssumption
<1>4. DOMAIN tasks = DOMAIN ages
  OBVIOUS
<1>5. HealthNow = [enabled |-> enabled, tasks |-> tasks]
  BY DEF HealthNow
<1> HIDE DEF tasks
<1>6. HealthNow \in Healths
  BY <1>1, <1>5 DEF Healths, SchedulerInv
<1>7. HealthRight(HealthNow)
  <2>1. SUFFICES ASSUME tasks /= <<>>, \A t \in DOMAIN tasks : tasks[t]
                 PROVE  \E t \in DOMAIN ages : ages[t] /= None
    BY <1>5 DEF HealthRight
  <2>2. PICK t \in DOMAIN ages : TRUE
    BY <1>2, <2>1
  <2>3. QED
    BY <1>3, <1>4, <2>1, <2>2
<1>8. QED
  BY <1>6, <1>7

LEMMA SchedulerStepInv == ASSUME SchedulerInv, SchedulerPanelNext PROVE SchedulerInv'
<1>1. CASE TaskAges
  <2>1. PICK t \in Tasks, a \in {"recent", "old", None} :
          /\ IF t \in DOMAIN ages THEN a \notin {None, ages[t]} ELSE a /= "old"
          /\ ages' = [x \in DOMAIN ages \cup {t} |-> IF x = t THEN a ELSE ages[x]]
    BY <1>1 DEF TaskAges
  <2>2. UNCHANGED <<enabled, health, open>>
    BY <1>1 DEF TaskAges
  <2>3. /\ DOMAIN ages' = DOMAIN ages \cup {t} /\ ages'[t] = a
        /\ \A x \in DOMAIN ages \ {t} : ages'[x] = ages[x]
    BY <2>1
  <2>4. (\E x \in DOMAIN ages : ages[x] /= None) => \E x \in DOMAIN ages' : ages'[x] /= None
    BY <2>1, <2>3
  <2>5. QED
    BY <2>1, <2>2, <2>3, <2>4 DEF SchedulerInv, HealthRight
<1>2. CASE SwitchScheduler \/ CloseScheduler
  BY <1>2 DEF SwitchScheduler, CloseScheduler, SchedulerInv, HealthRight
<1>3. CASE OpenScheduler \/ PollScheduler \/ RefreshScheduler
  <2>1. UNCHANGED <<enabled, ages>> /\ open' \in BOOLEAN /\ health' \in {health, Asked(health)}
    BY <1>3 DEF OpenScheduler, PollScheduler, RefreshScheduler, SchedulerInv
  <2>2. PICK h : h = HealthNow
    OBVIOUS
  <2>3. h \in Healths /\ HealthRight(h) /\ Asked(health) = [health EXCEPT !.reading = h]
    BY <2>2, HealthIsTold DEF Asked
  <2>4. QED
    BY <2>1, <2>3 DEF SchedulerInv, HealthRight
<1>4. CASE HealthArrives \/ HealthFails
  <2>1. /\ health' \in {[data |-> health.reading, reading |-> None, failed |-> FALSE],
                        [health EXCEPT !.reading = None, !.failed = TRUE]}
        /\ UNCHANGED <<enabled, ages, open>>
    BY <1>4 DEF HealthArrives, HealthFails
  <2>2. /\ health' \in [data: Healths, reading: Healths, failed: BOOLEAN]
        /\ health'.data \in {health.data, health.reading} /\ health'.reading = None
    <3>1. None \in Healths /\ health \in [data: Healths, reading: Healths, failed: BOOLEAN]
      BY DEF Healths, SchedulerInv
    <3>2. CASE health' = [data |-> health.reading, reading |-> None, failed |-> FALSE]
      BY <3>1, <3>2
    <3>3. CASE health' = [health EXCEPT !.reading = None, !.failed = TRUE]
      BY <3>1, <3>3
    <3>4. QED
      BY <2>1, <3>2, <3>3
  <2>3. HealthRight(health.data)' /\ HealthRight(health.reading)'
    BY <2>1, <2>2 DEF SchedulerInv, HealthRight
  <2>4. QED
    BY <2>1, <2>2, <2>3 DEF SchedulerInv
<1>5. QED
  BY <1>1, <1>2, <1>3, <1>4 DEF SchedulerPanelNext

LEMMA SchedulerKept == ASSUME SchedulerInv, UNCHANGED schedulerVars PROVE SchedulerInv'
BY DEF schedulerVars, SchedulerInv, HealthRight

(***************************************************************************)
(* Both                                                                     *)
(***************************************************************************)
LEMMA ScreensStep ==
  ASSUME ViewsInv, SchedulerInv, [Next]_partVars
  PROVE  ViewsInv' /\ SchedulerInv'
         /\ (detail.data /= None /\ detail'.data /= None => detail'.data.at >= detail.data.at)
<1>1. RunViewsNext \/ UNCHANGED viewVars
  BY DEF Next, partVars
<1>2. SchedulerPanelNext \/ UNCHANGED schedulerVars
  BY DEF Next, partVars
<1>3. UNCHANGED viewVars => (detail.data /= None /\ detail'.data /= None => detail'.data.at >= detail.data.at)
  BY DEF viewVars, ViewsInv, QueryRight, TrueOf, Told
<1>4. QED
  BY <1>1, <1>2, <1>3, ViewsStepInv, ViewsKept, SchedulerStepInv, SchedulerKept

\* Whatever order two readings end in, whatever fails, is cancelled or left meanwhile, the row of
\* a run agrees with its viewer, neither is ahead of the server, and what it never said is on
\* no page, wherever the server takes the run; and the scheduler is called
\* running only if a task had recorded a success.
THEOREM ScreensRight == Spec => []ScreensAgree
<1>1. Init => ViewsInv /\ SchedulerInv
  BY ViewsInitInv, SchedulerInitInv DEF Init
<1>2. ViewsInv /\ SchedulerInv /\ [Next]_partVars => ViewsInv' /\ SchedulerInv'
  BY ScreensStep
<1>3. ViewsInv /\ SchedulerInv => ScreensAgree
  <2> SUFFICES ASSUME ViewsInv, SchedulerInv PROVE ScreensAgree
    OBVIOUS
  <2>1. ViewsTypeOK
    BY DEF ViewsInv, QueryRight, TrueOf, ViewsTypeOK
  <2>2. SchedulerTypeOK
    BY DEF SchedulerInv, HealthRight, SchedulerTypeOK, ShownHealth, Title
  <2>3. QED
    BY <2>1, <2>2 DEF ViewsInv, ScreensAgree
<1>4. QED
  BY <1>1, <1>2, <1>3, PTL DEF Spec

\* The viewer of a run never shows what was so before what it shows already, whatever is read,
\* abandoned or left, and although the server itself may take the run back.
THEOREM ViewerGoesOn == Spec => DetailNeverRegresses
<1>1. Init => ViewsInv /\ SchedulerInv
  BY ViewsInitInv, SchedulerInitInv DEF Init
<1>2. ViewsInv /\ SchedulerInv /\ [Next]_partVars => ViewsInv' /\ SchedulerInv'
  BY ScreensStep
<1>3. ViewsInv /\ SchedulerInv /\ [Next]_partVars
        => [detail.data /= None /\ detail'.data /= None => detail'.data.at >= detail.data.at]_viewVars
  BY ScreensStep
<1>4. QED
  BY <1>1, <1>2, <1>3, PTL DEF Spec, DetailNeverRegresses

(***************************************************************************)
(* The output that is kept                                                   *)
(***************************************************************************)
\* Lines of one stream in a row, those after the b-th; a cursor is at the last of them.
TextAfter(l, next, s, b) ==
  /\ \A i \in DOMAIN l : l[i] = <<s, b + i>>
  /\ next /= None => s = next.stream /\ b + Len(l) = next.line

\* It says of a text that it was cut, when lines before it are missing; it is long then.
Cut(cut, l, b) == IF cut THEN b > 0 /\ Len(l) >= MaxVisible ELSE b = 0

\* A cursor is at a line that can be read, or of a stream of before.
Reached(next) ==
  next /= None => next.stream <= stream /\ (next.stream = stream => next.line <= visible)

DataRight(d) ==
  /\ d \in OutputData /\ Reached(d.next) /\ Len(d.logs) <= MaxVisible
  /\ \E s \in 1..2, b \in Nat : TextAfter(d.logs, d.next, s, b) /\ Cut(d.truncated, d.logs, b)

\* A reading that is joined to what it was read for
ReadingJoins(r) ==
  /\ r \in OutputReading /\ (r.previous /= None => DataRight(r.previous))
  /\ Joined(r) \in OutputText /\ Reached(r.page.next)
  /\ \E s \in 1..2, b \in Nat :
       /\ TextAfter(Joined(r), r.page.next, s, b)
       /\ IF Replaces(r) THEN b = 0 ELSE Cut(r.previous.truncated, Joined(r), b)

RunTyped ==
  /\ source \in {"cloudwatch", "s3"} /\ ended \in {None, "Completed", "Cancelled"}
  /\ stream \in 1..2 /\ visible \in 0..MaxLines

\* The viewer reads for the status it has, and has learnt no end before it came.
ViewerRight ==
  /\ seen \in ViewedStatuses \cup {None} /\ afresh \in BOOLEAN /\ errored \subseteq {"active", "finished"}
  /\ seen = "Completed" => ended = "Completed"
  /\ logs \in [{"active", "finished"} -> OutputData \cup {None}]
  /\ \A k \in {"active", "finished"} : logs[k] /= None => DataRight(logs[k])
  /\ reading /= None => ReadingJoins(reading) /\ seen /= None /\ reading.key = Key(seen)

\* The readings made by the interval are counted in what is kept, but for the last one
\* while it is under way, failed or given up.
Budgeted(d) ==
  /\ ended = "Completed" /\ seen \in {None, "Completed"}
  /\ d.checks = None => autos = 0
  /\ d.checks /= None => autos <= d.checks + 1
  /\ d.checks /= None /\ seen /= None /\ reading = None /\ "finished" \notin errored => autos <= d.checks

BudgetRight ==
  /\ autos \in Nat /\ autos <= FinalChecks
  /\ afresh => autos = 0
  /\ afresh /\ seen /= None /\ reading = None => Key(seen) \in errored
  /\ reading /= None /\ reading.key = "finished" /\ reading.previous /= logs["finished"] => autos = 0
  /\ logs["finished"] = None => autos = 0
  /\ logs["finished"] /= None => Budgeted(logs["finished"])

\* The invariant that is proved of the viewer.
OutputInv == RunTyped /\ ViewerRight /\ BudgetRight

(***************************************************************************)
(* Pages                                                                     *)
(***************************************************************************)
\* A page of a stream begins where its cursor is, or is no page.
LEMMA LinesTyped ==
  ASSUME RunTyped, NEW from \in Nat, NEW to \in Nat, from <= to
  PROVE  /\ Lines(from, to) \in OutputText /\ Len(Lines(from, to)) = to - from
         /\ \A i \in 1..(to - from) : Lines(from, to)[i] = <<stream, from + i>>
<1>1. to - from \in Nat
  OBVIOUS
<1>2. \A i \in 1..(to - from) : <<stream, from + i>> \in (1..2) \X Nat
  BY DEF RunTyped
<1>3. QED
  BY <1>1, <1>2 DEF Lines, OutputText

\* No lines, and lines after others, are lines.
LEMMA LinesJoin ==
  /\ <<>> \in OutputText
  /\ \A l \in OutputText : l \o <<>> = l /\ Len(l) \in Nat /\ DOMAIN l = 1..Len(l)
  /\ \A l, m \in OutputText :
       /\ l \o m \in OutputText /\ Len(l \o m) = Len(l) + Len(m)
       /\ \A i \in 1..Len(l) : (l \o m)[i] = l[i]
       /\ \A i \in 1..Len(m) : (l \o m)[Len(l) + i] = m[i]
BY DEF OutputText

\* What is kept of a text is a text, and all of it unless that is too long.
LEMMA TextSliced ==
  ASSUME NEW l \in OutputText, NEW next, NEW s, NEW b \in Nat, TextAfter(l, next, s, b)
  PROVE  /\ Sliced(l) \in OutputText /\ Len(Sliced(l)) <= MaxVisible
         /\ \E c \in Nat : /\ TextAfter(Sliced(l), next, s, c)
                           /\ IF Len(l) > MaxVisible THEN c > 0 /\ Len(Sliced(l)) = MaxVisible
                                                     ELSE c = b /\ Sliced(l) = l
<1>1. MaxVisible \in Nat /\ MaxVisible > 0 /\ Len(l) \in Nat /\ DOMAIN l = 1..Len(l)
  BY JobOutputAssumption, LinesJoin
<1>2. CASE Len(l) > MaxVisible
  <2> DEFINE m == Len(l) - MaxVisible + 1
             k == SubSeq(l, m, Len(l))
  <2>1. m \in Int /\ m - 1 \in Nat /\ m - 1 > 0 /\ m <= Len(l) /\ Len(l) - m + 1 = MaxVisible
    BY <1>1, <1>2
  <2>2. \A i \in m..Len(l) : l[i] \in (1..2) \X Nat
    BY <1>1, <2>1 DEF OutputText
  <2>3. /\ k \in Seq((1..2) \X Nat) /\ Len(k) = MaxVisible
        /\ \A i \in 1..MaxVisible : k[i] = l[m + i - 1]
    BY <1>1, <2>1, <2>2, SubSeqProperties
  <2>4. Sliced(l) = k
    BY <1>2 DEF Sliced
  <2> HIDE DEF m, k
  <2>5. DOMAIN k = 1..MaxVisible /\ k \in OutputText
    BY <2>3 DEF OutputText
  <2>6. ASSUME NEW i \in 1..MaxVisible PROVE k[i] = <<s, (b + (m - 1)) + i>>
    <3>1. m + i - 1 \in DOMAIN l /\ b + (m + i - 1) = (b + (m - 1)) + i
      BY <1>1, <2>1
    <3>2. l[m + i - 1] = <<s, b + (m + i - 1)>>
      BY <3>1 DEF TextAfter
    <3>3. QED
      BY <2>3, <3>1, <3>2
  <2>7. b + (m - 1) \in Nat /\ b + (m - 1) > 0 /\ (b + (m - 1)) + MaxVisible = b + Len(l)
    BY <1>1, <2>1
  <2>8. TextAfter(k, next, s, b + (m - 1))
    BY <2>3, <2>5, <2>6, <2>7 DEF TextAfter
  <2>9. QED
    BY <1>1, <1>2, <2>3, <2>4, <2>5, <2>7, <2>8
<1>3. CASE ~(Len(l) > MaxVisible)
  <2>1. Sliced(l) = l
    BY <1>3 DEF Sliced
  <2>2. QED
    BY <1>1, <1>3, <2>1
<1>4. QED
  BY <1>2, <1>3

\* What arrives is right when the reading joins.
LEMMA ArrivalRight ==
  ASSUME NEW r, ReadingJoins(r), NEW checks \in Nat \cup {None}, NEW d,
         d = [logs |-> Sliced(Joined(r)), next |-> r.page.next, more |-> r.page.more,
              available |-> r.page.available, live |-> r.page.live,
              truncated |-> Truncated(r), checks |-> checks]
  PROVE  DataRight(d)
<1>1. PICK s \in 1..2, b \in Nat :
        /\ TextAfter(Joined(r), r.page.next, s, b)
        /\ IF Replaces(r) THEN b = 0 ELSE Cut(r.previous.truncated, Joined(r), b)
  BY DEF ReadingJoins
<1>2. PICK l : l = Joined(r)
  OBVIOUS
<1>3. PICK k : k = Sliced(l)
  OBVIOUS
<1>4. l \in OutputText /\ Len(l) \in Nat
  BY <1>2, LinesJoin DEF ReadingJoins
<1>5. k \in OutputText /\ Len(k) <= MaxVisible
  BY <1>1, <1>2, <1>3, <1>4, TextSliced
<1>6. PICK c \in Nat :
        /\ TextAfter(k, r.page.next, s, c)
        /\ IF Len(l) > MaxVisible THEN c > 0 /\ Len(k) = MaxVisible ELSE c = b /\ k = l
  BY <1>1, <1>2, <1>3, <1>4, TextSliced
<1>7. d.logs = k /\ d.next = r.page.next /\ (d.truncated <=> Truncated(r))
  BY <1>2, <1>3
<1>8. Truncated(r) \in BOOLEAN
  BY DEF Truncated
<1>9. d \in OutputData
  <2>1. r.page \in OutputPage
    BY DEF ReadingJoins, OutputReading
  <2>2. QED
    BY <1>2, <1>3, <1>5, <1>8, <2>1 DEF OutputData, OutputPage
<1>10. MaxVisible \in Nat
  BY JobOutputAssumption
<1>11. Cut(d.truncated, k, c)
  <2>1. CASE Len(l) > MaxVisible
    <3>1. Truncated(r)
      BY <1>2, <2>1 DEF Truncated
    <3>2. QED
      BY <1>6, <1>7, <1>10, <2>1, <3>1 DEF Cut
  <2>2. CASE ~(Len(l) > MaxVisible) /\ Replaces(r)
    <3>1. ~Truncated(r)
      BY <1>2, <2>2 DEF Truncated
    <3>2. QED
      BY <1>1, <1>6, <1>7, <2>2, <3>1 DEF Cut
  <2>3. CASE ~(Len(l) > MaxVisible) /\ ~Replaces(r)
    <3>1. Truncated(r) <=> r.previous.truncated
      BY <1>2, <2>3 DEF Truncated
    <3>2. QED
      BY <1>1, <1>2, <1>6, <1>7, <2>3, <3>1 DEF Cut
  <2>4. QED
    BY <2>1, <2>2, <2>3
<1>12. Reached(d.next)
  BY <1>7 DEF ReadingJoins
<1>13. QED
  BY <1>5, <1>6, <1>7, <1>9, <1>11, <1>12 DEF DataRight

\* What the server answers, joined to what its cursor was of, are lines in a row.
LEMMA PageJoins ==
  ASSUME RunTyped, NEW k \in {"active", "finished"}, NEW p \in OutputData \cup {None}, p /= None => DataRight(p),
         NEW expired \in BOOLEAN, NEW r,
         r = [key |-> k, previous |-> p, page |-> PageFor(IF p = None THEN None ELSE p.next, expired)]
  PROVE  ReadingJoins(r)
<1> DEFINE cursor == IF p = None THEN None ELSE p.next
           page   == PageFor(cursor, expired)
<1>1. r.key = k /\ r.previous = p /\ r.page = page /\ r = [key |-> k, previous |-> p, page |-> page]
  OBVIOUS
<1>2. cursor \in OutputCursor /\ (p /= None => p.logs \in OutputText) /\ None \in OutputCursor
  BY DEF OutputData, OutputCursor
<1>3. visible \in Nat /\ MaxLines \in Nat /\ stream \in 1..2 /\ PageLines \in Nat /\ PageLines > 0
  BY JobOutputAssumption DEF RunTyped
<1>4. <<>> \in OutputText
  BY LinesJoin
<1> HIDE DEF page
\* It is enough that the page has its shape and its text.
<1>5. ASSUME page \in OutputPage, Reached(page.next), Joined(r) \in OutputText,
             NEW s \in 1..2, NEW b \in Nat, TextAfter(Joined(r), page.next, s, b),
             IF Replaces(r) THEN b = 0 ELSE Cut(p.truncated, Joined(r), b)
      PROVE  ReadingJoins(r)
  <2>1. r \in OutputReading
    BY <1>1, <1>5 DEF OutputReading
  <2>2. QED
    BY <1>1, <1>5, <2>1 DEF ReadingJoins
\* Without a line to read, what was kept stays.
<1>6. ASSUME NEW next \in OutputCursor, NEW live \in BOOLEAN, page = NoLines(next, live), next \in {None, cursor}
      PROVE  ReadingJoins(r)
  <2>1. page \in OutputPage /\ page.next = next /\ page.logs = <<>> /\ page.reset = FALSE
    BY <1>4, <1>6 DEF NoLines, OutputPage
  <2>2. Reached(next)
    BY <1>6 DEF DataRight, Reached
  <2>3. CASE p = None \/ p.next = None
    <3>1. Joined(r) = <<>> /\ Replaces(r)
      BY <1>1, <2>1, <2>3 DEF Joined, Replaces
    <3>2. next = None
      BY <1>6, <2>3
    <3>3. TextAfter(<<>>, next, 1, 0) /\ 1 \in 1..2 /\ 0 \in Nat
      BY <3>2 DEF TextAfter
    <3>4. QED
      BY <1>4, <1>5, <2>1, <2>2, <3>1, <3>3
  <2>4. CASE p /= None /\ p.next /= None
    <3>1. Joined(r) = p.logs \o <<>> /\ ~Replaces(r)
      BY <1>1, <2>1, <2>4 DEF Joined, Replaces
    <3>2. p.logs \o <<>> = p.logs
      BY <1>2, <2>4, LinesJoin
    <3>3. PICK s \in 1..2, b \in Nat : TextAfter(p.logs, p.next, s, b) /\ Cut(p.truncated, p.logs, b)
      BY <2>4 DEF DataRight
    <3>4. TextAfter(p.logs, next, s, b)
      BY <1>6, <2>4, <3>3 DEF TextAfter
    <3>5. QED
      BY <1>2, <1>5, <2>1, <2>2, <2>4, <3>1, <3>2, <3>3, <3>4
  <2>5. QED
    BY <2>3, <2>4
\* From the first line on, the page is all there is.
<1>7. ASSUME NEW to \in Nat, to <= visible, page.logs = Lines(0, to), page \in OutputPage,
             page.next = None \/ page.next = [stream |-> stream, line |-> to],
             page.reset \/ p = None \/ p.next = None
      PROVE  ReadingJoins(r)
  <2>1. Joined(r) = Lines(0, to) /\ Replaces(r)
    BY <1>1, <1>7 DEF Joined, Replaces
  <2>9. 0 \in Nat /\ 0 <= to
    BY <1>7
  <2>2. /\ Lines(0, to) \in OutputText /\ Len(Lines(0, to)) = to - 0
        /\ \A i \in 1..(to - 0) : Lines(0, to)[i] = <<stream, 0 + i>>
    BY <1>7, <2>9, LinesTyped, Zenon
  <2>7. Len(Lines(0, to)) = to /\ DOMAIN Lines(0, to) = 1..to
    BY <1>7, <2>2, LinesJoin
  <2>8. \A i \in 1..to : Lines(0, to)[i] = <<stream, i>>
    BY <1>7, <2>2
  <2>3. \A i \in DOMAIN Lines(0, to) : Lines(0, to)[i] = <<stream, i>>
    BY <2>7, <2>8
  <2>4. TextAfter(Lines(0, to), page.next, stream, 0)
    BY <1>3, <1>7, <2>3, <2>7 DEF TextAfter
  <2>5. Reached(page.next)
    BY <1>3, <1>7 DEF Reached
  <2>6. QED
    BY <1>3, <1>5, <1>7, <2>1, <2>2, <2>4, <2>5, <2>9
<1>8. CASE source = "s3"
  <2>1. CASE visible = 0
    <3>1. page = NoLines(None, FALSE)
      BY <1>8, <2>1 DEF page, PageFor, Snapshot
    <3>2. QED
      BY <1>2, <1>6, <3>1
  <2>2. CASE visible /= 0
    <3>1. page = [logs |-> Lines(0, visible), next |-> None, more |-> FALSE, reset |-> TRUE,
                  available |-> TRUE, live |-> FALSE]
      BY <1>8, <2>2 DEF page, PageFor, Snapshot
    <3>5. 0 \in Nat /\ 0 <= visible
      BY <1>3
    <3>2. Lines(0, visible) \in OutputText
      BY <1>3, <3>5, LinesTyped, Zenon
    <3>3. page \in OutputPage /\ page.logs = Lines(0, visible) /\ page.next = None /\ page.reset
      BY <1>2, <3>1, <3>2 DEF OutputPage
    <3>4. QED
      BY <1>3, <1>7, <3>3
  <2>3. QED
    BY <2>1, <2>2
<1>9. CASE source /= "s3"
  <2> DEFINE reset == cursor /= None /\ (expired \/ cursor.stream /= stream)
             from  == IF cursor = None \/ reset THEN 0 ELSE cursor.line
             to    == IF from + PageLines < visible THEN from + PageLines ELSE visible
  <2>1. CASE visible = 0
    <3>1. page = NoLines(cursor, TRUE)
      BY <1>9, <2>1 DEF page, PageFor, StreamPage
    <3>2. QED
      BY <1>2, <1>6, <3>1
  <2>2. CASE visible /= 0
    <3>1. page = [logs |-> Lines(from, to), next |-> [stream |-> stream, line |-> to],
                  more |-> to < visible, reset |-> reset, available |-> TRUE, live |-> TRUE]
      BY <1>9, <2>2 DEF page, PageFor, StreamPage
    <3>2. cursor /= None /\ ~reset => cursor.stream = stream /\ cursor.line \in Nat /\ cursor.line <= visible
      BY <1>2 DEF DataRight, Reached, OutputCursor
    <3>3. from \in Nat /\ from <= visible
      BY <1>3, <3>2
    <3>4. reset \in BOOLEAN
      OBVIOUS
    <3> HIDE DEF from, reset
    <3>5. to \in Nat /\ from <= to /\ to <= visible
      BY <1>3, <3>3
    <3> HIDE DEF to
    <3>6. /\ Lines(from, to) \in OutputText /\ Len(Lines(from, to)) = to - from
          /\ \A i \in 1..(to - from) : Lines(from, to)[i] = <<stream, from + i>>
      BY <3>3, <3>5, LinesTyped, Zenon
    <3>7. /\ page \in OutputPage /\ page.logs = Lines(from, to) /\ page.reset = reset
          /\ page.next = [stream |-> stream, line |-> to]
      BY <1>3, <3>1, <3>4, <3>5, <3>6 DEF OutputPage, OutputCursor
    <3>8. CASE cursor = None \/ reset
      <4>1. from = 0 /\ (page.reset \/ p = None \/ p.next = None)
        BY <3>7, <3>8 DEF from
      <4>2. QED
        BY <1>7, <3>5, <3>7, <4>1
    <3>9. CASE ~(cursor = None \/ reset)
      <4>1. from = p.next.line /\ p /= None /\ p.next /= None /\ p.next.stream = stream
        BY <3>2, <3>9 DEF from
      <4>2. Joined(r) = p.logs \o Lines(from, to) /\ ~Replaces(r)
        BY <1>1, <3>7, <3>9, <4>1 DEF Joined, Replaces
      <4>3. PICK s \in 1..2, b \in Nat : TextAfter(p.logs, p.next, s, b) /\ Cut(p.truncated, p.logs, b)
        BY <4>1 DEF DataRight
      <4>4. /\ p.logs \in OutputText /\ Len(p.logs) \in Nat /\ DOMAIN p.logs = 1..Len(p.logs)
            /\ b + Len(p.logs) = from /\ \A i \in DOMAIN p.logs : p.logs[i] = <<stream, b + i>>
        BY <1>2, <4>1, <4>3, LinesJoin DEF TextAfter
      <4> DEFINE l == p.logs \o Lines(from, to)
      <4>5. /\ l \in OutputText /\ Len(l) = Len(p.logs) + Len(Lines(from, to))
            /\ \A i \in 1..Len(p.logs) : l[i] = p.logs[i]
            /\ \A i \in 1..Len(Lines(from, to)) : l[Len(p.logs) + i] = Lines(from, to)[i]
        BY <3>6, <4>4, LinesJoin
      <4> HIDE DEF l
      <4>6. Len(l) \in Nat /\ DOMAIN l = 1..Len(l) /\ b + Len(l) = to /\ Len(l) >= Len(p.logs)
        <5>1. Len(l) \in Nat /\ DOMAIN l = 1..Len(l)
          BY <4>5, LinesJoin
        <5>2. Len(l) = Len(p.logs) + (to - from) /\ Len(p.logs) \in Nat /\ b + Len(p.logs) = from
          BY <3>6, <4>4, <4>5, Zenon
        <5>3. b + Len(l) = to /\ Len(l) >= Len(p.logs)
          BY <3>3, <3>5, <5>2
        <5>4. QED
          BY <5>1, <5>3
      <4>7. ASSUME NEW i \in DOMAIN l PROVE l[i] = <<stream, b + i>>
        <5>1. i \in 1..Len(l)
          BY <4>6
        <5>2. CASE i <= Len(p.logs)
          <6>1. i \in 1..Len(p.logs)
            BY <4>4, <4>6, <5>1, <5>2
          <6>2. l[i] = p.logs[i] /\ p.logs[i] = <<stream, b + i>>
            BY <4>4, <4>5, <6>1
          <6>3. QED
            BY <6>2
        <5>3. CASE i > Len(p.logs)
          <6>1. /\ i - Len(p.logs) \in 1..(to - from) /\ Len(p.logs) + (i - Len(p.logs)) = i
                /\ from + (i - Len(p.logs)) = b + i
            BY <3>3, <3>5, <4>4, <4>6, <5>1, <5>3
          <6>2. l[i] = Lines(from, to)[i - Len(p.logs)]
            BY <3>6, <4>5, <6>1
          <6>3. QED
            BY <3>6, <6>1, <6>2
        <5>4. QED
          BY <4>4, <5>1, <5>2, <5>3
      <4>8. TextAfter(l, page.next, stream, b) /\ Reached(page.next)
        BY <1>3, <3>5, <3>7, <4>6, <4>7 DEF TextAfter, Reached
      <4>9. Cut(p.truncated, l, b)
        <5>1. MaxVisible \in Nat
          BY JobOutputAssumption
        <5>2. QED
          BY <4>3, <4>4, <4>6, <5>1 DEF Cut
      <4>10. QED
        BY <1>3, <1>5, <3>7, <4>2, <4>5, <4>8, <4>9 DEF l
    <3>10. QED
      BY <3>8, <3>9
  <2>3. QED
    BY <2>1, <2>2
<1>10. QED
  BY <1>8, <1>9

(***************************************************************************)
(* Readings                                                                  *)
(***************************************************************************)
\* A reading begins with what is kept, or from the first line.
LEMMA ReadingBegins ==
  ASSUME OutputInv, NEW k \in {"active", "finished"}
  PROVE  /\ ReadingJoins(ReadingOf(k)) /\ ReadingOf(k).key = k /\ ReadingOf(k) /= None
         /\ k = "finished" /\ ReadingOf(k).previous /= logs["finished"] => autos = 0
<1>1. Previous(k) \in OutputData \cup {None} /\ (Previous(k) /= None => DataRight(Previous(k)))
  BY DEF OutputInv, ViewerRight, Previous
<1>2. ReadingOf(k) = [key |-> k, previous |-> Previous(k),
                      page |-> PageFor(IF Previous(k) = None THEN None ELSE Previous(k).next, FALSE)]
  BY DEF ReadingOf
<1>3. ReadingJoins(ReadingOf(k)) /\ ReadingOf(k).key = k /\ ReadingOf(k).previous = Previous(k)
  <2>1. PICK p : p = Previous(k)
    OBVIOUS
  <2>2. PICK r : r = ReadingOf(k)
    OBVIOUS
  <2>3. r = [key |-> k, previous |-> p, page |-> PageFor(IF p = None THEN None ELSE p.next, FALSE)]
    BY <1>2, <2>1, <2>2
  <2>4. p \in OutputData \cup {None} /\ (p /= None => DataRight(p)) /\ FALSE \in BOOLEAN /\ RunTyped
    BY <1>1, <2>1 DEF OutputInv
  <2>5. ReadingJoins(r)
    BY <2>3, <2>4, PageJoins, Zenon
  <2>6. r.key = k /\ r.previous = p
    BY <2>3
  <2>7. QED
    BY <2>1, <2>2, <2>5, <2>6
<1>4. ReadingOf(k) /= None
  BY <1>3, JobOutputAssumption DEF ReadingJoins
<1>5. k = "finished" /\ Previous(k) /= logs["finished"] => autos = 0
  BY DEF OutputInv, BudgetRight, Previous
<1>6. QED
  BY <1>3, <1>4, <1>5

\* A mounted query reads, or has failed without data.
LEMMA ReadOnMounting ==
  ASSUME OutputInv, NEW s \in ViewedStatuses
  PROVE  /\ Key(s) \in {"active", "finished"} /\ (s \in {"Pending", "Running", "Cancelled"} => Key(s) = "active")
         /\ Key("Completed") = "finished"
         /\ ReadOnMount(s) /= None =>
              /\ ReadingJoins(ReadOnMount(s)) /\ ReadOnMount(s).key = Key(s)
              /\ Key(s) = "finished" /\ ReadOnMount(s).previous /= logs["finished"] => autos = 0
         /\ ReadOnMount(s) = None => s = "Pending" \/ (Key(s) \in errored /\ logs[Key(s)] = None)
<1>1. /\ Key(s) \in {"active", "finished"} /\ (s \in {"Pending", "Running", "Cancelled"} => Key(s) = "active")
      /\ Key("Completed") = "finished"
  BY DEF Key, Finished
<1>2. CASE s = "Pending" \/ (Key(s) \in errored /\ logs[Key(s)] = None)
  <2>1. ReadOnMount(s) = None
    BY <1>2 DEF ReadOnMount
  <2>2. QED
    BY <1>1, <1>2, <2>1
<1>3. CASE ~(s = "Pending" \/ (Key(s) \in errored /\ logs[Key(s)] = None))
  <2>1. ReadOnMount(s) = ReadingOf(Key(s))
    BY <1>3 DEF ReadOnMount
  <2>2. QED
    BY <1>1, <2>1, ReadingBegins
<1>4. QED
  BY <1>2, <1>3

\* While the run stays, what was right of its output is right.
LEMMA OutputKept ==
  ASSUME UNCHANGED Run
  PROVE  /\ RunTyped => RunTyped'
         /\ \A d : DataRight(d) => DataRight(d)'
         /\ \A r : ReadingJoins(r) => ReadingJoins(r)'
BY DEF Run, RunTyped, DataRight, ReadingJoins, Reached

\* Lines that are added, and a stream begun anew, leave what was read.
LEMMA RunMoves ==
  ASSUME OutputInv, UNCHANGED <<source, ended>>, UNCHANGED Viewer, stream' \in 1..2, visible' \in 0..MaxLines,
         \/ stream' = stream /\ visible <= visible'
         \/ stream < stream'
  PROVE  OutputInv'
<1>1. \A next : next \in OutputCursor /\ Reached(next) => Reached(next)'
  BY DEF Reached, OutputCursor, OutputInv, RunTyped
<1>2. \A d : DataRight(d) => DataRight(d)'
  BY <1>1 DEF DataRight, OutputData
<1>3. \A r : ReadingJoins(r) => r.page.next \in OutputCursor
  BY DEF ReadingJoins, OutputReading, OutputPage
<1>4. \A r : ReadingJoins(r) => ReadingJoins(r)'
  BY <1>1, <1>2, <1>3 DEF ReadingJoins
<1>5. RunTyped'
  BY DEF OutputInv, RunTyped
<1>6. ViewerRight'
  BY <1>2, <1>4 DEF OutputInv, ViewerRight, Viewer
<1>7. BudgetRight'
  BY DEF OutputInv, BudgetRight, Budgeted, Viewer
<1>8. QED
  BY <1>5, <1>6, <1>7 DEF OutputInv

\* Lines come, of the attempt that runs.
LEMMA WritesInv == ASSUME OutputInv, Writes PROVE OutputInv'
<1>1. visible' \in 0..MaxLines /\ visible <= visible'
  BY JobOutputAssumption DEF Writes, OutputInv, RunTyped
<1>2. UNCHANGED <<source, ended, stream>> /\ UNCHANGED Viewer /\ stream \in 1..2
  BY DEF Writes, OutputInv, RunTyped
<1>3. QED
  BY <1>1, <1>2, RunMoves

\* Another attempt has another stream, that no cursor is in yet.
LEMMA RunRetriedInv == ASSUME OutputInv, RunRetried PROVE OutputInv'
<1>1. visible' \in 0..MaxLines /\ stream' \in 1..2 /\ stream < stream'
  BY JobOutputAssumption DEF RunRetried
<1>2. UNCHANGED <<source, ended>> /\ UNCHANGED Viewer
  BY DEF RunRetried
<1>3. QED
  BY <1>1, <1>2, RunMoves

\* Nothing was kept of a run that had not ended as of one that was over.
LEMMA EndsInv == ASSUME OutputInv, Ends PROVE OutputInv'
<1>1. ended = None /\ ended' \in {"Completed", "Cancelled"} /\ UNCHANGED <<source, stream, visible>> /\ UNCHANGED Viewer
  BY DEF Ends
<1>2. None /= "Completed"
  BY JobOutputAssumption DEF ViewedStatuses
<1>3. logs["finished"] = None /\ seen /= "Completed"
  BY <1>1, <1>2 DEF OutputInv, ViewerRight, BudgetRight, Budgeted
<1>4. RunTyped'
  BY <1>1 DEF OutputInv, RunTyped
<1>5. ViewerRight'
  <2>1. (\A d : DataRight(d) => DataRight(d)') /\ (\A r : ReadingJoins(r) => ReadingJoins(r)')
    BY <1>1 DEF DataRight, ReadingJoins, Reached
  <2>2. QED
    BY <1>1, <1>3, <2>1 DEF OutputInv, ViewerRight, Viewer
<1>6. BudgetRight'
  BY <1>1, <1>3 DEF OutputInv, BudgetRight, Viewer
<1>7. QED
  BY <1>4, <1>5, <1>6 DEF OutputInv

(***************************************************************************)
(* Answers                                                                   *)
(***************************************************************************)
\* What arrives is kept, with a check more when the run is over.
LEMMA ArrivesInv == ASSUME OutputInv, Arrives PROVE OutputInv'
<1>1. PICK recent \in BOOLEAN :
        logs' = [logs EXCEPT ![reading.key] =
                  [logs |-> Sliced(Joined(reading)), next |-> reading.page.next, more |-> reading.page.more,
                   available |-> reading.page.available, live |-> reading.page.live,
                   truncated |-> Truncated(reading), checks |-> Checks(reading, recent)]]
  BY DEF Arrives
<1>2. /\ reading /= None /\ errored' = errored \ {reading.key} /\ reading' = None /\ afresh' = FALSE
      /\ UNCHANGED Run /\ UNCHANGED <<seen, autos>>
  BY DEF Arrives
<1>3. PICK r : r = reading
  OBVIOUS
<1>4. PICK d : d = [logs |-> Sliced(Joined(r)), next |-> r.page.next, more |-> r.page.more,
                    available |-> r.page.available, live |-> r.page.live,
                    truncated |-> Truncated(r), checks |-> Checks(r, recent)]
  OBVIOUS
<1>5. ReadingJoins(r) /\ seen /= None /\ r.key = Key(seen)
  BY <1>2, <1>3 DEF OutputInv, ViewerRight
<1>6. r.key \in {"active", "finished"} /\ r.page \in OutputPage /\ r.previous \in OutputData \cup {None}
  BY <1>5 DEF ReadingJoins, OutputReading
<1>7. Checks(r, recent) \in Nat \cup {None}
  <2>1. r.previous /= None => r.previous.checks \in Nat \cup {None}
    BY <1>6 DEF OutputData
  <2>2. QED
    BY <2>1 DEF Checks
<1>8. DataRight(d) /\ d.checks = Checks(r, recent) /\ d /= None
  <2>1. DataRight(d)
    BY <1>4, <1>5, <1>7, ArrivalRight
  <2>2. d.checks = Checks(r, recent)
    BY <1>4
  <2>3. QED
    BY <2>1, <2>2, JobOutputAssumption DEF DataRight
<1>9. logs' = [logs EXCEPT ![r.key] = d]
  BY <1>1, <1>3, <1>4
<1>10. /\ logs' \in [{"active", "finished"} -> OutputData \cup {None}] /\ logs'[r.key] = d
       /\ \A k \in {"active", "finished"} : k /= r.key => logs'[k] = logs[k]
  BY <1>6, <1>8, <1>9 DEF OutputInv, ViewerRight, DataRight
<1>11. RunTyped'
  BY <1>2, OutputKept DEF OutputInv
<1>12. ViewerRight'
  <2>1. \A k \in {"active", "finished"} : logs'[k] /= None => DataRight(logs'[k])
    BY <1>8, <1>10 DEF OutputInv, ViewerRight
  <2>2. PICK kept : kept = logs'
    OBVIOUS
  <2>4. \A k \in {"active", "finished"} : kept[k] /= None => DataRight(kept[k])
    BY <2>1, <2>2
  <2>5. \A k \in {"active", "finished"} : kept[k] /= None => DataRight(kept[k])'
    BY <1>2, <2>4, OutputKept
  <2>3. QED
    BY <1>2, <1>10, <2>2, <2>5 DEF OutputInv, ViewerRight, Run
<1>13. BudgetRight'
  <2>1. CASE r.key = "active"
    <3>1. logs'["finished"] = logs["finished"] /\ seen /= "Completed"
      BY <1>5, <1>10, <2>1 DEF Key, Finished
    <3>2. seen \in ViewedStatuses
      BY <1>5 DEF OutputInv, ViewerRight
    <3>3. logs["finished"] = None
      BY <1>5, <3>1 DEF OutputInv, BudgetRight, Budgeted
    <3>4. QED
      BY <1>2, <3>1, <3>3 DEF OutputInv, BudgetRight
  <2>2. CASE r.key = "finished"
    <3>1. seen = "Completed" /\ ended = "Completed"
      BY <1>5, <2>2 DEF OutputInv, ViewerRight, ViewedStatuses, Key, Finished
    <3>2. CASE r.previous /= logs["finished"] \/ logs["finished"] = None
      <4>1. autos = 0
        BY <1>2, <1>3, <2>2, <3>2 DEF OutputInv, BudgetRight
      <4>2. Budgeted(d)'
        BY <1>2, <1>7, <1>8, <3>1, <4>1 DEF Budgeted, Run
      <4>3. QED
        BY <1>2, <1>8, <1>10, <2>2, <4>1, <4>2 DEF OutputInv, BudgetRight
    <3>3. CASE r.previous = logs["finished"] /\ logs["finished"] /= None
      <4>1. Budgeted(r.previous) /\ r.previous \in OutputData
        BY <1>6, <3>3 DEF OutputInv, BudgetRight
      <4>2. CASE r.previous.checks = None
        <5>1. autos = 0
          BY <4>1, <4>2 DEF Budgeted
        <5>2. Budgeted(d)'
          BY <1>2, <1>7, <1>8, <3>1, <5>1 DEF Budgeted, Run
        <5>3. QED
          BY <1>2, <1>8, <1>10, <2>2, <5>1, <5>2 DEF OutputInv, BudgetRight
      <4>3. CASE r.previous.checks /= None
        <5>1. d.checks = r.previous.checks + 1 /\ r.previous.checks \in Nat /\ autos <= r.previous.checks + 1
          BY <1>8, <2>2, <3>3, <4>1, <4>3 DEF Checks, Budgeted, OutputData
        <5>2. d.checks /= None /\ d.checks \in Nat /\ autos \in Nat
          BY <5>1, JobOutputAssumption DEF OutputInv, BudgetRight
        <5>3. Budgeted(d)'
          BY <1>2, <3>1, <5>1, <5>2 DEF Budgeted, Run
        <5>4. QED
          BY <1>2, <1>8, <1>10, <2>2, <5>3 DEF OutputInv, BudgetRight
      <4>4. QED
        BY <4>2, <4>3
    <3>4. QED
      BY <3>2, <3>3
  <2>3. QED
    BY <1>6, <2>1, <2>2
<1>14. QED
  BY <1>11, <1>12, <1>13 DEF OutputInv

\* A reading that fails leaves what is kept, and its key marked.
LEMMA OutputFailsInv == ASSUME OutputInv, OutputFails PROVE OutputInv'
<1>1. /\ reading /= None /\ reading' = None /\ errored' = errored \cup {reading.key}
      /\ UNCHANGED Run /\ UNCHANGED <<seen, logs, afresh, autos>>
  BY DEF OutputFails
<1>2. reading.key = Key(seen) /\ reading.key \in {"active", "finished"}
  BY <1>1 DEF OutputInv, ViewerRight, ReadingJoins, OutputReading
<1>3. (reading.key = "active" => seen /= "Completed") /\ seen /= None /\ Key(seen)' = Key(seen)
  BY <1>1, <1>2 DEF Key, Finished, OutputInv, ViewerRight
<1>4. RunTyped' /\ ViewerRight'
  BY <1>1, <1>2, OutputKept DEF OutputInv, ViewerRight, Run
<1>5. logs["finished"] /= None => Budgeted(logs["finished"])'
  BY <1>1, <1>2, <1>3 DEF OutputInv, BudgetRight, Budgeted, Run
<1>6. BudgetRight'
  BY <1>1, <1>2, <1>3, <1>5 DEF OutputInv, BudgetRight
<1>7. QED
  BY <1>4, <1>6 DEF OutputInv

\* Another reading of what was read for
LEMMA Rereads ==
  ASSUME OutputInv, UNCHANGED Run, UNCHANGED <<logs, errored>>, seen' \in ViewedStatuses, afresh' \in BOOLEAN,
         seen' = "Completed" => ended = "Completed",
         reading' /= None => ReadingJoins(reading') /\ reading'.key = Key(seen')
  PROVE  RunTyped' /\ ViewerRight'
<1>1. PICK r : r = reading'
  OBVIOUS
<1>2. r /= None => ReadingJoins(r)'
  BY <1>1, OutputKept
<1>3. seen' /= None
  BY JobOutputAssumption
<1>4. QED
  BY <1>1, <1>2, <1>3, OutputKept DEF OutputInv, ViewerRight, Run, Key, Finished

\* A reading that starts the stream again joins to nothing.
LEMMA CursorExpiresInv == ASSUME OutputInv, CursorExpires PROVE OutputInv'
<1>1. /\ reading /= None /\ reading.previous /= None
      /\ reading' = [reading EXCEPT !.page = PageFor(reading.previous.next, TRUE)]
      /\ UNCHANGED Run /\ UNCHANGED <<seen, logs, errored, afresh, autos>>
  BY DEF CursorExpires
<1>2. PICK r : r = reading
  OBVIOUS
<1>3. PICK n : n = reading'
  OBVIOUS
<1>4. ReadingJoins(r) /\ seen /= None /\ r.key = Key(seen) /\ r \in OutputReading /\ r.previous /= None
  BY <1>1, <1>2 DEF OutputInv, ViewerRight, ReadingJoins
<1>5. PICK p : p = r.previous
  OBVIOUS
<1>6. n = [key |-> r.key, previous |-> p, page |-> PageFor(IF p = None THEN None ELSE p.next, TRUE)]
  BY <1>1, <1>2, <1>3, <1>4, <1>5 DEF OutputReading
<1>7. r.key \in {"active", "finished"} /\ p \in OutputData \cup {None} /\ (p /= None => DataRight(p)) /\ TRUE \in BOOLEAN /\ RunTyped
  BY <1>4, <1>5 DEF ReadingJoins, OutputReading, OutputInv
<1>8. ReadingJoins(n)
  BY <1>6, <1>7, PageJoins, Zenon
<1>9. n.key = r.key /\ n.previous = r.previous /\ n /= None
  BY <1>5, <1>6, <1>8, JobOutputAssumption DEF ReadingJoins
<1>10. RunTyped' /\ ViewerRight'
  BY <1>1, <1>3, <1>4, <1>8, <1>9, Rereads DEF OutputInv, ViewerRight
<1>11. BudgetRight'
  <2>1. logs["finished"] /= None => Budgeted(logs["finished"])'
    BY <1>1, <1>3, <1>9 DEF OutputInv, BudgetRight, Budgeted, Run
  <2>2. QED
    BY <1>1, <1>2, <1>3, <1>9, <2>1 DEF OutputInv, BudgetRight
<1>12. QED
  BY <1>10, <1>11 DEF OutputInv

\* The interval reads a run that is over while its checks are not used up.
LEMMA PollInv == ASSUME OutputInv, Poll PROVE OutputInv'
<1> DEFINE k == Key(seen)
<1>1. /\ seen \notin {None, "Pending"} /\ reading = None /\ OutputDue(k) /\ reading' = ReadingOf(k)
      /\ autos' = IF k = "finished" THEN autos + 1 ELSE autos
      /\ UNCHANGED Run /\ UNCHANGED <<seen, logs, errored, afresh>>
  BY DEF Poll
<1>2. seen \in ViewedStatuses /\ k \in {"active", "finished"} /\ (k = "finished" => Finished(seen) /\ seen = "Completed")
  BY <1>1 DEF OutputInv, ViewerRight, Key, Finished, ViewedStatuses
<1>3. ~afresh /\ k \notin errored
  BY <1>1 DEF OutputDue, OutputInv, BudgetRight
<1>4. /\ ReadingJoins(ReadingOf(k)) /\ ReadingOf(k).key = k /\ ReadingOf(k) /= None
      /\ k = "finished" /\ ReadingOf(k).previous /= logs["finished"] => autos = 0
  BY <1>2, ReadingBegins
<1>5. afresh \in BOOLEAN /\ (seen = "Completed" => ended = "Completed")
  BY DEF OutputInv, ViewerRight
<1>6. RunTyped' /\ ViewerRight'
  BY <1>1, <1>2, <1>4, <1>5, Rereads
<1>7. CASE k = "active"
  <2>4. seen /= "Completed" /\ seen /= None
    BY <1>1, <1>7 DEF Key, Finished
  <2>1. logs["finished"] = None
    BY <2>4 DEF OutputInv, BudgetRight, Budgeted
  <2>2. BudgetRight'
    BY <1>1, <1>3, <1>4, <1>7, <2>1 DEF OutputInv, BudgetRight
  <2>3. QED
    BY <1>6, <2>2 DEF OutputInv
<1>8. CASE k = "finished"
  <2>1. /\ logs["finished"] /= None /\ logs["finished"].checks /= None
        /\ logs["finished"].checks < FinalChecks
    BY <1>1, <1>2, <1>8 DEF OutputDue, ViewedStatuses
  <2>2. Budgeted(logs["finished"]) /\ autos <= logs["finished"].checks /\ logs["finished"].checks \in Nat /\ autos \in Nat
    BY <1>1, <1>3, <1>8, <2>1 DEF OutputInv, ViewerRight, BudgetRight, Budgeted, OutputData
  <2>3. autos' = autos + 1 /\ autos' <= FinalChecks /\ autos' \in Nat
    BY <1>1, <1>8, <2>1, <2>2, JobOutputAssumption
  <2>4. Budgeted(logs["finished"])'
    BY <1>1, <1>2, <1>4, <1>8, <2>1, <2>2, <2>3 DEF Budgeted, Run
  <2>5. ReadingOf(k).previous = logs["finished"]
    BY <1>3, <1>8, <2>1 DEF ReadingOf, Previous
  <2>6. BudgetRight'
    BY <1>1, <1>3, <1>4, <2>1, <2>3, <2>4, <2>5 DEF BudgetRight
  <2>7. QED
    BY <1>6, <2>6 DEF OutputInv
<1>9. QED
  BY <1>2, <1>7, <1>8

(***************************************************************************)
(* The viewer                                                                *)
(***************************************************************************)
\* A viewer that is opened reads what it shows.
LEMMA OpenInv == ASSUME OutputInv, Open PROVE OutputInv'
<1>1. seen = None /\ afresh' = FALSE /\ UNCHANGED Run /\ UNCHANGED <<logs, errored, autos>>
  BY DEF Open
<1>2. PICK s \in {"Pending", "Running", Current} :
        (logs["finished"] /= None => s = Current) /\ seen' = s /\ reading' = ReadOnMount(s)
  BY DEF Open, Learns
<1>3. s \in ViewedStatuses /\ (s = "Completed" => ended = "Completed")
  BY <1>2 DEF OutputInv, RunTyped, Current, ViewedStatuses
<1>4. reading' /= None => ReadingJoins(reading') /\ reading'.key = Key(s)
  BY <1>2, <1>3, ReadOnMounting
<1>5. RunTyped' /\ ViewerRight'
  BY <1>1, <1>2, <1>3, <1>4, Rereads
<1>6. logs["finished"] /= None => s = "Completed" /\ reading' /= None
  <2>1. SUFFICES ASSUME logs["finished"] /= None PROVE s = "Completed" /\ reading' /= None
    OBVIOUS
  <2>2. s = "Completed"
    BY <1>2, <2>1, JobOutputAssumption DEF OutputInv, BudgetRight, Budgeted, Current, ViewedStatuses
  <2>3. Key(s) = "finished"
    BY <2>2 DEF Key, Finished
  <2>4. QED
    BY <1>2, <1>3, <2>1, <2>2, <2>3, ReadOnMounting
<1>7. logs["finished"] /= None => Budgeted(logs["finished"])'
  BY <1>1, <1>2, <1>6 DEF OutputInv, BudgetRight, Budgeted, Run
<1>8. reading' /= None /\ reading'.key = "finished" /\ reading'.previous /= logs["finished"] => autos = 0
  BY <1>2, <1>3, <1>4, ReadOnMounting
<1>9. BudgetRight'
  BY <1>1, <1>7, <1>8 DEF OutputInv, BudgetRight
<1>10. QED
  BY <1>5, <1>9 DEF OutputInv

\* The viewer learns how the run stands, and may turn to the other key.
LEMMA StatusArrivesInv == ASSUME OutputInv, StatusArrives PROVE OutputInv'
<1>1. /\ seen \notin {None, Current} /\ seen' = Current
      /\ reading' = IF Key(seen) /= Key(Current) \/ (seen = "Pending" /\ reading = None)
                    THEN ReadOnMount(Current) ELSE reading
      /\ UNCHANGED Run /\ UNCHANGED <<logs, errored, afresh, autos>>
  BY DEF StatusArrives, Learns
<1>2. PICK c : c = Current
  OBVIOUS
<1>3. c \in ViewedStatuses /\ c /= "Pending" /\ (c = "Completed" => ended = "Completed")
  BY <1>2 DEF OutputInv, RunTyped, Current, ViewedStatuses
<1>4. seen \in ViewedStatuses /\ Key(seen) \in {"active", "finished"}
  BY <1>1 DEF OutputInv, ViewerRight, Key
\* The viewer had learnt no end.
<1>5. logs["finished"] = None /\ Key(seen) = "active"
  <2>1. seen /= "Completed"
    BY <1>1, JobOutputAssumption DEF OutputInv, ViewerRight, Current, ViewedStatuses
  <2>2. QED
    BY <1>1, <1>4, <2>1 DEF OutputInv, BudgetRight, Budgeted, Key, Finished, ViewedStatuses
<1>6. /\ reading' /= None => ReadingJoins(reading') /\ reading'.key = Key(c)
      /\ afresh /\ reading' = None => Key(c) \in errored
  <2>1. CASE Key(seen) /= Key(c) \/ (seen = "Pending" /\ reading = None)
    <3>1. reading' = ReadOnMount(c)
      BY <1>1, <1>2, <2>1
    <3>2. QED
      BY <1>3, <3>1, ReadOnMounting
  <2>2. CASE ~(Key(seen) /= Key(c) \/ (seen = "Pending" /\ reading = None))
    <3>1. reading' = reading
      BY <1>1, <1>2, <2>2
    <3>2. QED
      BY <1>1, <2>2, <3>1 DEF OutputInv, ViewerRight, BudgetRight
  <2>3. QED
    BY <2>1, <2>2
<1>7. afresh \in BOOLEAN
  BY DEF OutputInv, ViewerRight
<1>8. RunTyped' /\ ViewerRight'
  BY <1>1, <1>2, <1>3, <1>6, <1>7, Rereads
<1>9. autos = 0
  BY <1>5 DEF OutputInv, BudgetRight
<1>10. Key(seen)' = Key(c)
  BY <1>1, <1>2 DEF Key, Finished
<1>11. BudgetRight'
  BY <1>1, <1>5, <1>6, <1>9, <1>10 DEF OutputInv, BudgetRight
<1>12. QED
  BY <1>8, <1>11 DEF OutputInv

\* A viewer that is closed gives its reading up.
LEMMA CloseInv == ASSUME OutputInv, Close PROVE OutputInv'
<1>1. seen' = None /\ reading' = None /\ UNCHANGED Run /\ UNCHANGED <<logs, errored, afresh, autos>>
  BY DEF Close
<1>2. None /= "Completed"
  BY JobOutputAssumption DEF ViewedStatuses
<1>3. RunTyped' /\ ViewerRight'
  BY <1>1, <1>2, OutputKept DEF OutputInv, ViewerRight, Run
<1>4. logs["finished"] /= None => Budgeted(logs["finished"])'
  BY <1>1 DEF OutputInv, BudgetRight, Budgeted, Run
<1>5. BudgetRight'
  BY <1>1, <1>4 DEF OutputInv, BudgetRight
<1>6. QED
  BY <1>3, <1>5 DEF OutputInv

\* A restart after an error begins at the first line, with a new budget.
LEMMA RefreshInv == ASSUME OutputInv, Refresh PROVE OutputInv'
<1> DEFINE k == Key(seen)
           p == IF afresh' THEN None ELSE Previous(k)
<1>1. /\ seen /= None /\ reading = None /\ afresh' = (afresh \/ k \in errored)
      /\ autos' = IF afresh' THEN 0 ELSE autos
      /\ reading' = [ReadingOf(k) EXCEPT !.previous = IF afresh' THEN None ELSE @,
                                       !.page = IF afresh' THEN PageFor(None, FALSE) ELSE @]
      /\ UNCHANGED Run /\ UNCHANGED <<seen, logs, errored>>
  BY DEF Refresh
<1>2. /\ seen \in ViewedStatuses /\ k \in {"active", "finished"} /\ (seen = "Completed" => ended = "Completed")
      /\ (k = "active" => seen /= "Completed")
  BY <1>1 DEF OutputInv, ViewerRight, Key, Finished
<1>3. afresh' \in BOOLEAN
  BY <1>1 DEF OutputInv, ViewerRight
<1>4. PICK r : r = reading'
  OBVIOUS
<1>5. PICK before : before = p
  OBVIOUS
<1>6. r = [key |-> k, previous |-> before, page |-> PageFor(IF before = None THEN None ELSE before.next, FALSE)]
  <2>1. ReadingOf(k) = [key |-> k, previous |-> Previous(k),
                        page |-> PageFor(IF Previous(k) = None THEN None ELSE Previous(k).next, FALSE)]
    BY DEF ReadingOf
  <2>5. PICK q : q = ReadingOf(k)
    OBVIOUS
  <2>6. q = [key |-> q.key, previous |-> q.previous, page |-> q.page]
        /\ q.key = k /\ q.previous = Previous(k)
        /\ q.page = PageFor(IF Previous(k) = None THEN None ELSE Previous(k).next, FALSE)
    BY <2>1, <2>5
  <2>7. r = [q EXCEPT !.previous = IF afresh' THEN None ELSE @, !.page = IF afresh' THEN PageFor(None, FALSE) ELSE @]
    BY <1>1, <1>4, <2>5
  <2>2. CASE afresh'
    <3>1. r = [key |-> k, previous |-> None, page |-> PageFor(None, FALSE)]
      BY <2>2, <2>6, <2>7
    <3>2. before = None
      BY <1>5, <2>2
    <3>3. QED
      BY <3>1, <3>2
  <2>3. CASE ~afresh'
    <3>1. r = q
      BY <2>3, <2>6, <2>7
    <3>2. before = Previous(k)
      BY <1>5, <2>3
    <3>3. QED
      BY <2>6, <3>1, <3>2
  <2>4. QED
    BY <2>2, <2>3
<1>7. before \in OutputData \cup {None} /\ (before /= None => DataRight(before)) /\ FALSE \in BOOLEAN /\ RunTyped
  BY <1>2, <1>5 DEF OutputInv, ViewerRight, Previous
<1>8. ReadingJoins(r)
  BY <1>2, <1>6, <1>7, PageJoins, Zenon
<1>9. r.key = k /\ r.previous = before /\ r /= None
  BY <1>6, <1>8, JobOutputAssumption DEF ReadingJoins
<1>10. RunTyped' /\ ViewerRight'
  BY <1>1, <1>2, <1>3, <1>4, <1>8, <1>9, Rereads
<1>11. autos' \in Nat /\ autos' <= autos /\ autos' <= FinalChecks /\ autos \in Nat
  BY <1>1, <1>3, JobOutputAssumption DEF OutputInv, BudgetRight
<1>12. k = "finished" /\ before /= logs["finished"] => autos' = 0
  BY <1>1, <1>5, <1>11 DEF OutputInv, BudgetRight, Previous
<1>13. logs["finished"] /= None => Budgeted(logs["finished"])'
  <2>1. SUFFICES ASSUME logs["finished"] /= None PROVE Budgeted(logs["finished"])'
    OBVIOUS
  <2>2. Budgeted(logs["finished"]) /\ logs["finished"].checks \in Nat \cup {None}
    BY <2>1 DEF OutputInv, BudgetRight, ViewerRight, OutputData
  <2>3. reading' /= None
    BY <1>4, <1>9
  <2>4. QED
    BY <1>1, <1>11, <2>2, <2>3 DEF Budgeted, Run
<1>14. BudgetRight'
  BY <1>1, <1>4, <1>9, <1>11, <1>12, <1>13 DEF OutputInv, BudgetRight
<1>15. QED
  BY <1>10, <1>14 DEF OutputInv

\* A pause changes nothing that is kept.
LEMMA PauseInv == ASSUME OutputInv, Pause PROVE OutputInv'
<1>1. UNCHANGED Run /\ UNCHANGED <<seen, logs, errored, reading, afresh, autos>>
  BY DEF Pause
<1>2. QED
  BY <1>1, OutputKept DEF OutputInv, ViewerRight, BudgetRight, Budgeted, Run, Key, Finished

\* With the data goes their budget.
LEMMA ForgetOutputInv == ASSUME OutputInv, ForgetOutput PROVE OutputInv'
<1>1. /\ seen = None /\ logs' = [k \in {"active", "finished"} |-> None] /\ errored' = {} /\ autos' = 0
      /\ UNCHANGED Run /\ UNCHANGED <<seen, reading, afresh>>
  BY DEF ForgetOutput, OutputInv, ViewerRight
<1>2. reading = None
  BY <1>1 DEF OutputInv, ViewerRight
<1>3. RunTyped' /\ ViewerRight'
  BY <1>1, <1>2, OutputKept DEF OutputInv, ViewerRight, Run
<1>4. BudgetRight'
  BY <1>1, <1>2, JobOutputAssumption DEF OutputInv, BudgetRight
<1>5. QED
  BY <1>3, <1>4 DEF OutputInv

\* At first nothing is kept.
LEMMA OutputInitInv == JobOutputInit => OutputInv
<1> SUFFICES ASSUME JobOutputInit PROVE OutputInv
  OBVIOUS
<1>1. None /= "Completed" /\ MaxLines \in Nat
  BY JobOutputAssumption DEF ViewedStatuses
<1>5. RunTyped
  <2>1. 0 \in 0..MaxLines /\ 1 \in 1..2
    BY <1>1
  <2>2. QED
    BY <2>1 DEF JobOutputInit, RunTyped
<1>6. ViewerRight
  <2>1. /\ seen = None /\ afresh = FALSE /\ errored = {} /\ reading = None
        /\ logs = [k \in {"active", "finished"} |-> None]
    BY DEF JobOutputInit
  <2>2. \A k \in {"active", "finished"} : logs[k] = None
    BY <2>1
  <2>3. logs \in [{"active", "finished"} -> OutputData \cup {None}]
    BY <2>1
  <2>4. QED
    BY <1>1, <2>1, <2>2, <2>3 DEF ViewerRight
<1>2. RunTyped /\ ViewerRight
  BY <1>5, <1>6
<1>3. BudgetRight
  BY JobOutputAssumption DEF JobOutputInit, BudgetRight
<1>4. QED
  BY <1>2, <1>3 DEF OutputInv

\* Every step keeps the invariant.
LEMMA OutputStepInv == OutputInv /\ [JobOutputNext]_outputVars => OutputInv'
<1> SUFFICES ASSUME OutputInv, [JobOutputNext]_outputVars PROVE OutputInv'
  OBVIOUS
<1>1. CASE Writes \/ RunRetried \/ Ends
  BY <1>1, WritesInv, RunRetriedInv, EndsInv
<1>2. CASE Arrives \/ OutputFails \/ CursorExpires \/ Poll
  BY <1>2, ArrivesInv, OutputFailsInv, CursorExpiresInv, PollInv
<1>3. CASE Open \/ StatusArrives \/ Close \/ Refresh \/ Pause \/ ForgetOutput
  BY <1>3, OpenInv, StatusArrivesInv, CloseInv, RefreshInv, PauseInv, ForgetOutputInv
<1>4. CASE UNCHANGED outputVars
  <2>1. UNCHANGED Run /\ UNCHANGED <<seen, logs, errored, reading, afresh, autos>>
    BY <1>4 DEF outputVars, Run
  <2>2. QED
    BY <2>1, OutputKept DEF OutputInv, ViewerRight, BudgetRight, Budgeted, Run, Key, Finished
<1>5. QED
  BY <1>1, <1>2, <1>3, <1>4 DEF JobOutputNext

\* For any number of lines, kept or not, of pages, restarts, errors and remounts: what the
\* viewer shows are lines of one stream in a row, from the first on unless it says that
\* they were cut, and the interval reads a run that is over FINAL_LOG_CHECKS times at most
\* (queryFn and refetchInterval of useJobLogs).
THEOREM OutputIsOneText == JobOutputSpec => []OutputFaithful
<1>1. OutputInv => OutputFaithful
  <2> SUFFICES ASSUME OutputInv PROVE OutputFaithful
    OBVIOUS
  <2>1. OutputTypeOK
    BY DEF OutputInv, RunTyped, ViewerRight, OutputTypeOK
  <2>2. ShownIsPart
    <3> SUFFICES ASSUME NEW k \in {"active", "finished"}, logs[k] /= None
                 PROVE  /\ \A i \in DOMAIN logs[k].logs :
                             logs[k].logs[i] = <<logs[k].logs[1][1], logs[k].logs[1][2] + i - 1>>
                        /\ Len(logs[k].logs) <= MaxVisible
                        /\ logs[k].truncated <=> logs[k].logs /= <<>> /\ logs[k].logs[1][2] > 1
                        /\ logs[k].truncated => Len(logs[k].logs) = MaxVisible
      BY DEF ShownIsPart, OutputInv, ViewerRight
    <3>1. PICK d : d = logs[k]
      OBVIOUS
    <3>2. DataRight(d)
      BY <3>1 DEF OutputInv, ViewerRight
    <3>3. PICK s \in 1..2, b \in Nat : TextAfter(d.logs, d.next, s, b) /\ Cut(d.truncated, d.logs, b)
      BY <3>2 DEF DataRight
    <3>4. PICK l : l = d.logs
      OBVIOUS
    <3>5. /\ l \in OutputText /\ Len(l) \in Nat /\ DOMAIN l = 1..Len(l) /\ Len(l) <= MaxVisible
          /\ MaxVisible \in Nat /\ MaxVisible > 0
      BY <3>2, <3>4, LinesJoin, JobOutputAssumption DEF DataRight, OutputData
    <3>6. \A i \in DOMAIN l : l[i] = <<s, b + i>> /\ 1 \in DOMAIN l
      BY <3>3, <3>4, <3>5 DEF TextAfter
    <3>7. \A i \in DOMAIN l : l[i] = <<l[1][1], l[1][2] + i - 1>>
      <4>1. SUFFICES ASSUME NEW i \in DOMAIN l PROVE l[i] = <<l[1][1], l[1][2] + i - 1>>
        OBVIOUS
      <4>2. l[1] = <<s, b + 1>> /\ l[i] = <<s, b + i>> /\ i \in Nat
        BY <3>5, <3>6, <4>1
      <4>3. l[1][1] = s /\ l[1][2] = b + 1 /\ (b + 1) + i - 1 = b + i
        BY <4>2
      <4>4. QED
        BY <4>2, <4>3
    <3>8. l /= <<>> => l[1][2] = b + 1
      <4>1. SUFFICES ASSUME l /= <<>> PROVE l[1][2] = b + 1
        OBVIOUS
      <4>2. 1 \in DOMAIN l
        BY <3>5, <4>1 DEF OutputText
      <4>3. QED
        BY <3>6, <4>2
    <3>9. d.truncated => b > 0 /\ Len(l) = MaxVisible /\ l /= <<>>
      BY <3>3, <3>4, <3>5 DEF Cut
    <3>10. ~d.truncated => b = 0
      BY <3>3 DEF Cut
    <3>11. d.truncated <=> l /= <<>> /\ l[1][2] > 1
      BY <3>8, <3>9, <3>10
    <3>12. QED
      BY <3>1, <3>4, <3>5, <3>7, <3>9, <3>11
  <2>3. BudgetHolds
    BY DEF OutputInv, BudgetRight, BudgetHolds
  <2>4. QED
    BY <2>1, <2>2, <2>3 DEF OutputFaithful
<1>2. QED
  BY <1>1, OutputInitInv, OutputStepInv, PTL DEF JobOutputSpec

(***************************************************************************)
(* The panel and its list                                                    *)
(***************************************************************************)
\* A limit, the list of them, a write, and what is counted per office.
Limit      == [override: Overrides, changes: Nat]
Rows       == [Offices -> Overrides] \cup {None}
WriteState == [office: Offices, kind: {"save", "reset"}, value: Drafts \cup {None, Default},
               applied: BOOLEAN, visit: Nat, number: Nat]
Counts(f)  == DOMAIN f \subseteq Offices /\ \A o \in DOMAIN f : f[o] \in Nat

PanelTyped ==
  /\ limits \in [Offices -> Limit] /\ limitRows \in Rows /\ rowsReading \in Rows /\ rowsFailed \in BOOLEAN
  /\ DOMAIN drafts \subseteq Offices /\ \A o \in DOMAIN drafts : drafts[o] \in Drafts
  /\ panel \in Nat /\ written \in Nat /\ visits \in Nat
  /\ writes \subseteq WriteState
  /\ Counts(opened) /\ Counts(histories) /\ Counts(historyReading)

\* A write that the server refuses is never applied, and a page has one per office.
WritesRight ==
  /\ \A w \in writes : w.applied => w.kind = "reset" \/ w.value \notin Refused
  /\ \A w, x \in writes : w.office = x.office /\ w.visit = x.visit => w = x

\* The value of an office that the list may lack: it was changed by a write to be answered.
Answering(o) == \E w \in writes : w.office = o /\ w.applied

\* A list has what the server has, but for changes under way or not told of.
RowsCurrent(rows) == \A o \in Offices \ unseen : rows[o] = limits[o].override \/ Answering(o)

RowsRight ==
  /\ rowsReading /= None => RowsCurrent(rowsReading)
  /\ rowsReading = None /\ limitRows /= None /\ ~rowsFailed => RowsCurrent(limitRows)

\* What an open history must have was read, or is.
HistoriesRight ==
  \A o \in DOMAIN opened :
    IF o \in DOMAIN historyReading THEN historyReading[o] >= opened[o]
    ELSE o \in DOMAIN histories /\ histories[o] >= opened[o]

\* The invariant that is proved of the panel.
LimitsInv == PanelTyped /\ WritesRight /\ RowsRight /\ HistoriesRight

(***************************************************************************)
(* Operators                                                                 *)
(***************************************************************************)
\* A list that is read is not none, and has what the server has.
LEMMA ReadIsCurrent ==
  ASSUME limits \in [Offices -> Limit]
  PROVE  LimitsRead \in [Offices -> Overrides] /\ LimitsRead /= None /\ LimitsRead \in Rows
<1>1. LimitsRead \in [Offices -> Overrides]
  BY DEF LimitsRead, Limit
<1>2. QED
  BY <1>1, RateLimitsAssumption DEF Rows

\* Counts with one more, or less some.
LEMMA WithCounts ==
  ASSUME NEW f, Counts(f), NEW o \in Offices, NEW n \in Nat
  PROVE  /\ Counts(With(f, o, n)) /\ DOMAIN With(f, o, n) = DOMAIN f \cup {o} /\ With(f, o, n)[o] = n
         /\ \A x \in DOMAIN f : x /= o => With(f, o, n)[x] = f[x]
BY DEF With, Counts

\* Offices can be taken from what is counted.
LEMMA LessCounts ==
  ASSUME NEW f, Counts(f), NEW S
  PROVE  /\ Counts(Less(f, S)) /\ DOMAIN Less(f, S) = DOMAIN f \ S
         /\ \A x \in DOMAIN f \ S : Less(f, S)[x] = f[x]
BY DEF Less, Counts

\* Nothing is counted at first.
LEMMA NoCounts == Counts(<<>>) /\ DOMAIN <<>> = {}
BY DEF Counts

\* At first nothing is read and nothing written.
LEMMA LimitsInitInv == RateLimitsInit => LimitsInv
<1> SUFFICES ASSUME RateLimitsInit PROVE LimitsInv
  OBVIOUS
<1>1. limits \in [Offices -> Limit]
  BY DEF RateLimitsInit, Limit, Overrides
<1>2. PanelTyped
  BY <1>1, ReadIsCurrent, NoCounts DEF RateLimitsInit, PanelTyped, Rows
<1>3. RowsRight
  BY DEF RateLimitsInit, RowsRight, RowsCurrent, LimitsRead
<1>4. QED
  BY <1>2, <1>3, NoCounts DEF RateLimitsInit, LimitsInv, WritesRight, HistoriesRight

(***************************************************************************)
(* The server                                                                *)
(***************************************************************************)
\* A limit that changes leaves the others, and counts the change.
LEMMA ChangedTyped ==
  ASSUME limits \in [Offices -> Limit], NEW o \in Offices, NEW v \in Overrides
  PROVE  /\ Changed(o, v) \in [Offices -> Limit]
         /\ \A x \in Offices : x /= o => Changed(o, v)[x] = limits[x]
BY DEF Changed, Limit

\* What others change is not told to the page.
LEMMA OthersChangeInv == ASSUME LimitsInv, OthersChange PROVE LimitsInv'
<1> DEFINE value == CHOOSE v \in Drafts \ Refused : TRUE
<1>1. PICK o \in Offices : limits' = Changed(o, value) /\ unseen' = unseen \cup {o}
  BY DEF OthersChange
<1>2. value \in Overrides
  BY RateLimitsAssumption DEF Overrides
<1> HIDE DEF value
<1>3. limits' \in [Offices -> Limit] /\ \A x \in Offices : x /= o => limits'[x] = limits[x]
  BY <1>1, <1>2, ChangedTyped DEF LimitsInv, PanelTyped
<1>4. UNCHANGED <<limitRows, rowsReading, rowsFailed, drafts, panel, writes, opened, histories, historyReading,
                  written, visits>>
  BY DEF OthersChange
<1>5. RowsRight'
  BY <1>1, <1>3, <1>4 DEF LimitsInv, RowsRight, RowsCurrent, Answering
<1>6. QED
  BY <1>3, <1>4, <1>5 DEF LimitsInv, PanelTyped, WritesRight, HistoriesRight

\* A limit that a write changes is one the write is yet to be answered for.
LEMMA ApplyInv == ASSUME LimitsInv, Apply PROVE LimitsInv'
<1>1. PICK w \in writes :
        /\ ~w.applied /\ ~(w.kind = "save" /\ w.value \in Refused)
        /\ writes' = (writes \ {w}) \cup {[w EXCEPT !.applied = TRUE]} /\ limits' = Applied(w)
        /\ UNCHANGED <<limitRows, rowsReading, rowsFailed, drafts, panel, opened, histories, historyReading,
                       unseen, written, visits>>
  BY DEF Apply
<1>2. PICK new : new = [w EXCEPT !.applied = TRUE]
  OBVIOUS
<1>3. w \in WriteState /\ limits \in [Offices -> Limit]
  BY DEF LimitsInv, PanelTyped
<1>4. /\ new \in WriteState /\ new.office = w.office /\ new.visit = w.visit /\ new.applied = TRUE
      /\ new.kind = w.kind /\ new.value = w.value
  BY <1>2, <1>3 DEF WriteState
<1>5. limits' \in [Offices -> Limit] /\ \A x \in Offices : x /= w.office => limits'[x] = limits[x]
  <2>1. w.office \in Offices /\ None \in Overrides
    BY <1>3 DEF WriteState, Overrides
  <2>2. w.kind = "save" => w.value \in Overrides
    BY <1>1, <1>3 DEF WriteState, Overrides
  <2>3. w.kind \in {"save", "reset"}
    BY <1>3 DEF WriteState
  <2>4. QED
    BY <1>1, <1>3, <2>1, <2>2, <2>3, ChangedTyped DEF Applied
<1>6. PanelTyped'
  BY <1>1, <1>2, <1>4, <1>5 DEF LimitsInv, PanelTyped
<1>7. WritesRight'
  <2>1. writes' = (writes \ {w}) \cup {new}
    BY <1>1, <1>2
  <2>2. new.kind = "reset" \/ new.value \notin Refused
    BY <1>1, <1>3, <1>4 DEF WriteState
  <2>3. QED
    BY <1>4, <2>1, <2>2 DEF LimitsInv, WritesRight
<1>8. RowsRight'
  <2>1. \A o \in Offices : Answering(o) => Answering(o)'
    BY <1>1, <1>2, <1>4 DEF Answering
  <2>2. Answering(w.office)'
    BY <1>1, <1>2, <1>4 DEF Answering
  <2>3. \A rows : RowsCurrent(rows) => RowsCurrent(rows)'
    BY <1>1, <1>5, <2>1, <2>2 DEF RowsCurrent
  <2>4. QED
    BY <1>1, <2>3 DEF LimitsInv, RowsRight
<1>9. QED
  BY <1>1, <1>6, <1>7, <1>8 DEF LimitsInv, HistoriesRight

(***************************************************************************)
(* Readings                                                                  *)
(***************************************************************************)
\* Where no limit and no write moves, the writes stay right, and a list that was current is.
LEMMA CurrentKept ==
  ASSUME LimitsInv, UNCHANGED <<limits, writes>>, unseen \subseteq unseen'
  PROVE  WritesRight' /\ \A rows : RowsCurrent(rows) => RowsCurrent(rows)'
BY DEF LimitsInv, WritesRight, RowsCurrent, Answering

\* The list that arrives is the one that was read.
LEMMA RowsArriveInv == ASSUME LimitsInv, RowsArrive PROVE LimitsInv'
<1>1. /\ rowsReading /= None /\ limitRows' = rowsReading /\ rowsReading' = None /\ rowsFailed' = FALSE
      /\ UNCHANGED <<limits, drafts, panel, writes, opened, histories, historyReading, unseen, written, visits>>
  BY DEF RowsArrive
<1>2. PanelTyped'
  BY <1>1 DEF LimitsInv, PanelTyped, Rows
<1>3. RowsRight'
  BY <1>1, CurrentKept DEF LimitsInv, RowsRight
<1>4. QED
  BY <1>1, <1>2, <1>3, CurrentKept DEF LimitsInv, HistoriesRight

\* Without an answer the list stays.
LEMMA RowsFailInv == ASSUME LimitsInv, RowsFail PROVE LimitsInv'
<1>1. /\ rowsReading' = None /\ rowsFailed' = TRUE
      /\ UNCHANGED <<limits, limitRows, drafts, panel, writes, opened, histories, historyReading, unseen,
                     written, visits>>
  BY DEF RowsFail
<1>2. PanelTyped'
  BY <1>1 DEF LimitsInv, PanelTyped, Rows
<1>3. QED
  BY <1>1, <1>2, CurrentKept DEF LimitsInv, RowsRight, HistoriesRight

\* A list asked for now is current, whatever was not told before.
LEMMA RowsAsked ==
  ASSUME LimitsInv, rowsReading' = LimitsRead, UNCHANGED limits
  PROVE  RowsRight'
BY ReadIsCurrent DEF LimitsInv, PanelTyped, RowsRight, RowsCurrent, LimitsRead

\* A list that failed is read again.
LEMMA RowsAgainInv == ASSUME LimitsInv, RowsAgain PROVE LimitsInv'
<1>1. /\ rowsReading' = LimitsRead
      /\ UNCHANGED <<limits, limitRows, rowsFailed, drafts, panel, writes, opened, histories, historyReading,
                     written, visits>>
  BY DEF RowsAgain
<1>2. PanelTyped'
  BY <1>1, ReadIsCurrent DEF LimitsInv, PanelTyped
<1>3. QED
  BY <1>1, <1>2, RowsAsked DEF LimitsInv, WritesRight, HistoriesRight

\* The history that arrives has what the open one must have.
LEMMA HistoryArrivesInv == ASSUME LimitsInv, HistoryArrives PROVE LimitsInv'
<1>1. PICK o \in DOMAIN historyReading :
        /\ histories' = With(histories, o, historyReading[o]) /\ historyReading' = Less(historyReading, {o})
        /\ UNCHANGED <<limits, limitRows, rowsReading, rowsFailed, drafts, panel, writes, opened,
                       unseen, written, visits>>
  BY DEF HistoryArrives
<1>2. Counts(histories) /\ Counts(historyReading) /\ o \in Offices /\ historyReading[o] \in Nat
  BY DEF LimitsInv, PanelTyped, Counts
<1>3. /\ Counts(histories') /\ DOMAIN histories' = DOMAIN histories \cup {o} /\ histories'[o] = historyReading[o]
      /\ \A x \in DOMAIN histories : x /= o => histories'[x] = histories[x]
  BY <1>1, <1>2, WithCounts
<1>4. /\ Counts(historyReading') /\ DOMAIN historyReading' = DOMAIN historyReading \ {o}
      /\ \A x \in DOMAIN historyReading \ {o} : historyReading'[x] = historyReading[x]
  BY <1>1, <1>2, LessCounts
<1>5. PanelTyped'
  BY <1>1, <1>3, <1>4 DEF LimitsInv, PanelTyped
<1>6. HistoriesRight'
  BY <1>1, <1>3, <1>4 DEF LimitsInv, HistoriesRight
<1>7. RowsRight' /\ WritesRight'
  BY <1>1 DEF LimitsInv, RowsRight, WritesRight, RowsCurrent, Answering
<1>8. QED
  BY <1>5, <1>6, <1>7 DEF LimitsInv

(***************************************************************************)
(* The panel                                                                 *)
(***************************************************************************)
\* What is typed, and what a write carries, is a draft or a value.
LEMMA InputTyped ==
  ASSUME LimitsInv, NEW o \in Offices, limitRows /= None
  PROVE  Input(o) \in Drafts \cup {None, Default}
BY DEF LimitsInv, PanelTyped, Rows, Overrides, Input

\* Typing changes a draft.
LEMMA TypeLimitInv == ASSUME LimitsInv, TypeLimit PROVE LimitsInv'
<1>1. PICK o \in Offices, v \in Drafts : drafts' = With(drafts, o, v)
  BY DEF TypeLimit
<1>2. /\ UNCHANGED <<limits, limitRows, rowsReading, rowsFailed, panel, writes, opened, histories,
                     historyReading, unseen, visits>>
      /\ written' = written + 1
  BY DEF TypeLimit, LimitWrite
<1>3. DOMAIN drafts' \subseteq Offices /\ \A x \in DOMAIN drafts' : drafts'[x] \in Drafts
  BY <1>1 DEF With, LimitsInv, PanelTyped
<1>4. PanelTyped'
  BY <1>2, <1>3 DEF LimitsInv, PanelTyped
<1>5. QED
  BY <1>2, <1>4 DEF LimitsInv, WritesRight, RowsRight, HistoriesRight, RowsCurrent, Answering

\* A page writes an office when it has no other write of it.
LEMMA WriteBegins ==
  ASSUME LimitsInv, Shows, LimitWrite, NEW o \in Offices, NEW kind \in {"save", "reset"},
         ~PendingAction(o), writes' = writes \cup {Write(o, kind)},
         UNCHANGED <<limits, limitRows, rowsReading, rowsFailed, drafts, panel, opened, histories,
                     historyReading, unseen, visits>>
  PROVE  LimitsInv'
<1>1. PICK new : new = Write(o, kind)
  OBVIOUS
<1>2. Input(o) \in Drafts \cup {None, Default}
  BY InputTyped DEF Shows
<1>3. panel \in Nat /\ written \in Nat /\ written' = written + 1
  BY DEF LimitsInv, PanelTyped, LimitWrite
<1>4. new \in WriteState /\ new.office = o /\ new.visit = panel /\ new.applied = FALSE
  BY <1>1, <1>2, <1>3 DEF Write, WriteState
<1>5. writes' = writes \cup {new}
  BY <1>1
<1>6. PanelTyped'
  BY <1>3, <1>4, <1>5 DEF LimitsInv, PanelTyped
<1>7. WritesRight'
  <2>1. \A w \in writes : ~(w.office = o /\ w.visit = panel)
    BY DEF PendingAction
  <2>2. QED
    BY <1>4, <1>5, <2>1 DEF LimitsInv, WritesRight
<1>8. RowsRight'
  BY <1>5 DEF LimitsInv, RowsRight, RowsCurrent, Answering
<1>9. QED
  BY <1>6, <1>7, <1>8 DEF LimitsInv, HistoriesRight

\* A save is a write.
LEMMA SaveLimitInv == ASSUME LimitsInv, SaveLimit PROVE LimitsInv'
BY WriteBegins DEF SaveLimit

\* A reset is a write.
LEMMA ResetLimitInv == ASSUME LimitsInv, ResetLimit PROVE LimitsInv'
BY WriteBegins DEF ResetLimit

\* An answered write is in the list, read again, or not told to a page that was left.
LEMMA WriteAnsweredInv == ASSUME LimitsInv, WriteAnswered PROVE LimitsInv'
<1>1. PICK w \in writes :
        /\ w.applied /\ writes' = writes \ {w}
        /\ limitRows' = IF w.kind = "save" /\ limitRows /= None THEN [limitRows EXCEPT ![w.office] = w.value] ELSE limitRows
        /\ AfterWrite(w) /\ Invalidated(w)
        /\ UNCHANGED <<limits, rowsFailed, panel, opened, histories, historyReading, written, visits>>
  BY DEF WriteAnswered
<1>2. w \in WriteState /\ (w.kind = "save" => w.value \in Overrides) /\ w.office \in Offices
  BY <1>1 DEF LimitsInv, PanelTyped, WritesRight, WriteState, Overrides
<1>3. limitRows' \in Rows /\ (limitRows /= None => \A o \in Offices : o /= w.office => limitRows'[o] = limitRows[o])
  BY <1>1, <1>2 DEF LimitsInv, PanelTyped, Rows
<1>4. limitRows' /= None => limitRows /= None
  BY <1>1
<1>5. DOMAIN drafts' \subseteq Offices /\ \A x \in DOMAIN drafts' : drafts'[x] \in Drafts
  <2>1. drafts' = drafts \/ drafts' = Kept(w.office)
    BY <1>1 DEF AfterWrite
  <2>2. QED
    BY <2>1 DEF Kept, Less, LimitsInv, PanelTyped
<1>6. rowsReading' \in Rows
  BY <1>1, ReadIsCurrent DEF Invalidated, LimitsInv, PanelTyped
<1>7. PanelTyped'
  BY <1>1, <1>3, <1>5, <1>6 DEF LimitsInv, PanelTyped
<1>8. RowsRight'
  <2>1. CASE panel > 0
    BY <1>1, <2>1, RowsAsked DEF Invalidated
  <2>2. CASE ~(panel > 0)
    <3>1. rowsReading' = rowsReading /\ unseen' = unseen \cup {w.office}
      BY <1>1, <2>2 DEF Invalidated
    <3>2. \A o \in Offices : o /= w.office /\ Answering(o) => Answering(o)'
      BY <1>1 DEF Answering
    <3>3. \A rows : RowsCurrent(rows) => RowsCurrent(rows)'
      BY <1>1, <3>1, <3>2 DEF RowsCurrent
    <3>4. RowsCurrent(limitRows) /\ limitRows /= None => \A o \in Offices \ unseen' : limitRows'[o] = limits[o].override \/ Answering(o)'
      BY <1>3, <3>1, <3>2 DEF RowsCurrent
    <3>5. QED
      BY <1>1, <1>4, <3>1, <3>3, <3>4 DEF LimitsInv, RowsRight, RowsCurrent
  <2>3. QED
    BY <2>1, <2>2
<1>9. QED
  BY <1>1, <1>7, <1>8 DEF LimitsInv, WritesRight, HistoriesRight

\* A refused write was never applied.
LEMMA WriteRefusedInv == ASSUME LimitsInv, WriteRefused PROVE LimitsInv'
<1>1. PICK w \in writes :
        /\ w.kind = "save" /\ w.value \in Refused /\ writes' = writes \ {w}
        /\ UNCHANGED <<limits, limitRows, rowsReading, rowsFailed, drafts, panel, opened, histories,
                       historyReading, unseen, written, visits>>
  BY DEF WriteRefused
<1>2. ~w.applied
  BY <1>1 DEF LimitsInv, WritesRight
<1>3. \A o \in Offices : Answering(o) => Answering(o)'
  BY <1>1, <1>2 DEF Answering
<1>4. RowsRight'
  BY <1>1, <1>3 DEF LimitsInv, RowsRight, RowsCurrent
<1>5. QED
  BY <1>1, <1>4 DEF LimitsInv, PanelTyped, WritesRight, HistoriesRight

\* A write whose answer is lost may have been applied.
LEMMA WriteLostInv == ASSUME LimitsInv, WriteLost PROVE LimitsInv'
<1>1. PICK w \in writes :
        /\ writes' = writes \ {w}
        /\ unseen' = IF w.applied THEN unseen \cup {w.office} ELSE unseen
        /\ UNCHANGED <<limits, limitRows, rowsReading, rowsFailed, drafts, panel, opened, histories,
                       historyReading, written, visits>>
  BY DEF WriteLost
<1>2. \A o \in Offices \ unseen' : Answering(o) => Answering(o)'
  BY <1>1 DEF Answering
<1>3. RowsRight'
  BY <1>1, <1>2 DEF LimitsInv, RowsRight, RowsCurrent
<1>4. QED
  BY <1>1, <1>3 DEF LimitsInv, PanelTyped, WritesRight, HistoriesRight

(***************************************************************************)
(* Histories, and the page left and entered                                  *)
(***************************************************************************)
\* The history of an office that is opened is read, with the changes made so far.
LEMMA OpenOfficeInv == ASSUME LimitsInv, OpenOffice PROVE LimitsInv'
<1>1. PICK o \in Offices \ DOMAIN opened :
        /\ historyReading' = HistoryOf(o)
        /\ opened' = With(opened, o, IF o \in DOMAIN historyReading THEN historyReading[o] ELSE limits[o].changes)
  BY DEF OpenOffice
<1>2. /\ UNCHANGED <<limits, limitRows, rowsReading, rowsFailed, drafts, panel, writes, histories, unseen, visits>>
      /\ written' = written + 1
  BY DEF OpenOffice, LimitWrite
<1> DEFINE n == IF o \in DOMAIN historyReading THEN historyReading[o] ELSE limits[o].changes
<1>3. Counts(opened) /\ Counts(historyReading) /\ n \in Nat
  BY DEF LimitsInv, PanelTyped, Counts, Limit
<1>4. opened' = With(opened, o, n) /\ (o \notin DOMAIN historyReading => historyReading' = With(historyReading, o, n))
  BY <1>1 DEF HistoryOf
<1>5. o \in DOMAIN historyReading => historyReading' = historyReading /\ historyReading[o] = n
  BY <1>1 DEF HistoryOf
<1> HIDE DEF n
<1>6. /\ Counts(opened') /\ DOMAIN opened' = DOMAIN opened \cup {o} /\ opened'[o] = n
      /\ \A x \in DOMAIN opened : x /= o => opened'[x] = opened[x]
  BY <1>3, <1>4, WithCounts
<1>7. /\ Counts(historyReading') /\ DOMAIN historyReading' = DOMAIN historyReading \cup {o} /\ historyReading'[o] = n
      /\ \A x \in DOMAIN historyReading : x /= o => historyReading'[x] = historyReading[x]
  BY <1>3, <1>4, <1>5, WithCounts
<1>8. PanelTyped'
  BY <1>2, <1>6, <1>7 DEF LimitsInv, PanelTyped
<1>9. HistoriesRight'
  BY <1>2, <1>3, <1>6, <1>7 DEF LimitsInv, HistoriesRight
<1>10. RowsRight' /\ WritesRight'
  BY <1>2 DEF LimitsInv, RowsRight, WritesRight, RowsCurrent, Answering
<1>11. QED
  BY <1>8, <1>9, <1>10 DEF LimitsInv

\* A history is closed.
LEMMA CloseOfficeInv == ASSUME LimitsInv, CloseOffice PROVE LimitsInv'
<1>1. PICK o \in DOMAIN opened : opened' = Less(opened, {o})
  BY DEF CloseOffice
<1>2. UNCHANGED <<limits, limitRows, rowsReading, rowsFailed, drafts, panel, writes, histories,
                  historyReading, unseen, written, visits>>
  BY DEF CloseOffice
<1>3. /\ Counts(opened') /\ DOMAIN opened' = DOMAIN opened \ {o}
      /\ \A x \in DOMAIN opened \ {o} : opened'[x] = opened[x]
  BY <1>1, LessCounts DEF LimitsInv, PanelTyped
<1>4. HistoriesRight'
  BY <1>2, <1>3 DEF LimitsInv, HistoriesRight
<1>5. RowsRight' /\ WritesRight' /\ PanelTyped'
  BY <1>2, <1>3 DEF LimitsInv, PanelTyped, RowsRight, WritesRight, RowsCurrent, Answering
<1>6. QED
  BY <1>4, <1>5 DEF LimitsInv

\* The drafts go with their page.
LEMMA LeavePanelInv == ASSUME LimitsInv, LeavePanel PROVE LimitsInv'
<1>1. /\ panel' = 0 /\ drafts' = <<>> /\ opened' = <<>>
      /\ UNCHANGED <<limits, limitRows, rowsReading, rowsFailed, writes, histories, historyReading,
                     unseen, written, visits>>
  BY DEF LeavePanel
<1>2. PanelTyped' /\ HistoriesRight'
  BY <1>1, NoCounts DEF LimitsInv, PanelTyped, HistoriesRight
<1>3. QED
  BY <1>1, <1>2 DEF LimitsInv, RowsRight, WritesRight, RowsCurrent, Answering

\* The page is entered, and the list read unless that failed.
LEMMA EnterPanelInv == ASSUME LimitsInv, EnterPanel PROVE LimitsInv'
<1>1. /\ panel' = visits + 1 /\ visits' = visits + 1
      /\ UNCHANGED <<limits, limitRows, rowsFailed, drafts, writes, opened, histories, historyReading, written>>
      /\ rowsReading' = LimitsRead \/ UNCHANGED <<rowsReading, unseen>>
  BY DEF EnterPanel
<1>2. PanelTyped'
  BY <1>1, ReadIsCurrent DEF LimitsInv, PanelTyped
<1>3. RowsRight'
  <2>1. CASE rowsReading' = LimitsRead
    BY <1>1, <2>1, RowsAsked
  <2>2. CASE UNCHANGED <<rowsReading, unseen>>
    BY <1>1, <2>2 DEF LimitsInv, RowsRight, RowsCurrent, Answering
  <2>3. QED
    BY <1>1, <2>1, <2>2
<1>4. QED
  BY <1>1, <1>2, <1>3 DEF LimitsInv, WritesRight, HistoriesRight

\* Every step keeps the invariant.
LEMMA LimitsStepInv == LimitsInv /\ [RateLimitsNext]_limitVars => LimitsInv'
<1> SUFFICES ASSUME LimitsInv, [RateLimitsNext]_limitVars PROVE LimitsInv'
  OBVIOUS
<1>1. CASE OthersChange \/ Apply \/ RowsArrive \/ RowsFail \/ RowsAgain \/ HistoryArrives
  BY <1>1, OthersChangeInv, ApplyInv, RowsArriveInv, RowsFailInv, RowsAgainInv, HistoryArrivesInv
<1>2. CASE TypeLimit \/ SaveLimit \/ ResetLimit \/ WriteAnswered \/ WriteRefused \/ WriteLost
  BY <1>2, TypeLimitInv, SaveLimitInv, ResetLimitInv, WriteAnsweredInv, WriteRefusedInv, WriteLostInv
<1>3. CASE OpenOffice \/ CloseOffice \/ LeavePanel \/ EnterPanel
  BY <1>3, OpenOfficeInv, CloseOfficeInv, LeavePanelInv, EnterPanelInv
<1>4. CASE UNCHANGED limitVars
  BY <1>4 DEF limitVars, LimitsInv, PanelTyped, RowsRight, WritesRight, HistoriesRight, RowsCurrent, Answering
<1>5. QED
  BY <1>1, <1>2, <1>3, <1>4 DEF RateLimitsNext

\* For any offices and drafts, and any number of writes, readings, errors and visits: a
\* page has one write per office, its list is what the server has when nothing is under
\* way, but for what it is not told of, and an open history has every change made before
\* (onSuccess of the mutations with invalidateQueries).
THEOREM PanelSettles == RateLimitsSpec => []LimitsCurrent
<1>1. LimitsInv => LimitsCurrent
  <2> SUFFICES ASSUME LimitsInv PROVE LimitsCurrent
    OBVIOUS
  <2>1. RateLimitsTypeOK
    BY DEF LimitsInv, PanelTyped, WritesRight, Counts, Limit, RateLimitsTypeOK
  <2>2. RowsAreCurrent
    BY DEF LimitsInv, RowsRight, RowsCurrent, Answering, Shows, RowsAreCurrent
  <2>3. HistoryIsCurrent
    BY DEF LimitsInv, HistoriesRight, HistoryIsCurrent
  <2>4. QED
    BY <2>1, <2>2, <2>3 DEF LimitsCurrent
<1>2. QED
  BY <1>1, LimitsInitInv, LimitsStepInv, PTL DEF RateLimitsSpec

\* A draft is given up only with its page, or for a write of its office that succeeded.
THEOREM DraftsOutlive == RateLimitsSpec => DraftsAreKept
<1> DEFINE KeepsDrafts == \A o \in DOMAIN drafts : o \notin DOMAIN drafts' =>
       panel' = 0 \/ \E w \in writes \ writes' : w.office = o /\ w.applied
<1>1. [RateLimitsNext]_limitVars => [KeepsDrafts]_limitVars
  <2> SUFFICES ASSUME RateLimitsNext PROVE KeepsDrafts
    OBVIOUS
  <2>1. CASE OthersChange \/ Apply \/ RowsArrive \/ RowsFail \/ RowsAgain \/ HistoryArrives
             \/ SaveLimit \/ ResetLimit \/ WriteRefused \/ WriteLost \/ OpenOffice \/ CloseOffice
             \/ LeavePanel \/ EnterPanel
    BY <2>1 DEF OthersChange, Apply, RowsArrive, RowsFail, RowsAgain, HistoryArrives, SaveLimit, ResetLimit,
       WriteRefused, WriteLost, OpenOffice, CloseOffice, LeavePanel, EnterPanel
  <2>2. CASE TypeLimit
    <3>1. PICK o \in Offices, v \in Drafts : drafts' = With(drafts, o, v)
      BY <2>2 DEF TypeLimit
    <3>2. QED
      BY <3>1 DEF With
  <2>3. CASE WriteAnswered
    <3>1. PICK w \in writes : w.applied /\ writes' = writes \ {w} /\ AfterWrite(w)
      BY <2>3 DEF WriteAnswered
    <3>2. \A o \in DOMAIN drafts : o \notin DOMAIN drafts' => o = w.office
      BY <3>1 DEF AfterWrite, Kept, Less
    <3>3. QED
      BY <3>1, <3>2
  <2>4. QED
    BY <2>1, <2>2, <2>3 DEF RateLimitsNext
<1>2. QED
  BY <1>1, PTL DEF RateLimitsSpec, DraftsAreKept
=============================================================================
