-------------------------- MODULE BatchStatusProofs --------------------------
(***************************************************************************)
(* Theorems about BatchStatus, for every number of runs, viewers and        *)
(* attempts, any clock and any time limits.                                 *)
(*                                                                          *)
(* Every step does to the table what a handler of JobStore does, so the     *)
(* invariant of JobStoreProofs carries over.  That a finished run tells the *)
(* truth rests on one more fact: what is said of an ended Batch job, by an  *)
(* event still to be delivered or an answer still to be recorded, is its    *)
(* end, and a Batch job that ended never moves again.                       *)
(* That its outcome is recorded rests on the order of times (DatedInv).     *)
(***************************************************************************)
EXTENDS BatchStatus, JobStoreProofs

\* What a row may say while its Batch job is in this state.
Truthful(row, state) ==
  /\ row.status = "Completed" => state = "SUCCEEDED"
  /\ row.status \in {"Failed", "Cancelled"} => state = "FAILED"

\* The row of a Batch run: submitted, linked to nothing but its own Batch job.
RunRow(j, row, state) ==
  /\ row.status # "Absent" /\ row.claimed
  /\ row.ext \in {None, j}
  /\ Truthful(row, state)

\* A report is current, or of a state that was left again.
TrueReport(s, state) == s \in Ended => state = s

\* The invariant that is proved of the updater and the refreshes.
StatusInv ==
  /\ StoreInv
  /\ now \in 0..LastTime
  /\ batch \in [BatchJobs -> BatchJob]
  /\ events \subseteq Event
  /\ viewer \in [Viewers -> Call]
  /\ checked \in [BatchJobs -> 0..LastTime \cup {None}]
  /\ stream \subseteq BatchJobs
  /\ stopping \subseteq [job: BatchJobs, action: {"cancel", "terminate"}]
  /\ \A j \in BatchJobs : RunRow(j, jobs[j], batch[j].state)
  /\ \A e \in events : TrueReport(e.state, batch[e.job].state)
  /\ \A v \in Viewers :
       /\ viewer[v].pc # "idle" => viewer[v].job \in BatchJobs /\ jobs[viewer[v].job].ext # None
       /\ viewer[v].pc = "answered" =>
            /\ viewer[v].state \in BatchStates
            /\ TrueReport(viewer[v].state, batch[viewer[v].job].state)

(***************************************************************************)
(* Rows                                                                     *)
(***************************************************************************)
\* Every entry of StatusMap that says a run ended is of a Batch job that did.
LEMMA StatusMapEnds ==
  ASSUME NEW s \in BatchStates, NEW state, TrueReport(s, state)
  PROVE  /\ StatusMap[s] = "Completed" => state = "SUCCEEDED"
         /\ StatusMap[s] = "Failed" => state = "FAILED"
         /\ StatusMap[s] # "Cancelled" /\ StatusMap[s] # "Absent"
  BY DEF StatusMap, BatchStates, TrueReport, Ended

\* bind_external_job_id with the id of the run's own Batch job.
LEMMA BindRunRow ==
  ASSUME NEW j, NEW row, GoodRow(row), NEW state, RunRow(j, row, state)
  PROVE  RunRow(j, Bind(row, j), state)
  BY DEF GoodRow, Row, RunRow, Truthful, Bind

\* request_job_cancellation: a submitted run was claimed, so it is never
\* cancelled on the spot.
LEMMA RequestCancelRunRow ==
  ASSUME NEW j, NEW row, GoodRow(row), NEW state, RunRow(j, row, state)
  PROVE  RunRow(j, RequestCancel(row), state)
<1>1. ~Claimable(row)
  BY DEF RunRow, Claimable
<1>2. QED
  BY <1>1 DEF GoodRow, Row, RunRow, Truthful, RequestCancel

\* record_cancellation_failure.
LEMMA RevertCancelRunRow ==
  ASSUME NEW j, NEW row, GoodRow(row), NEW state, RunRow(j, row, state)
  PROVE  RunRow(j, RevertCancel(row), state)
  BY DEF GoodRow, Row, RunRow, Truthful, RevertCancel

\* The two watchdogs and the clock.
LEMMA ExpireRunRow ==
  ASSUME NEW j, NEW row, GoodRow(row), NEW state, RunRow(j, row, state)
  PROVE  RunRow(j, Expire(row), state)
  BY DEF GoodRow, Row, RunRow, Truthful, Expire

LEMMA FlagRunRow ==
  ASSUME NEW j, NEW row, GoodRow(row), NEW state, RunRow(j, row, state)
  PROVE  RunRow(j, [row EXCEPT !.reason = "unconfirmed"], state)
  BY DEF GoodRow, Row, RunRow, Truthful

LEMMA AgedRunRow ==
  ASSUME NEW j, NEW row, GoodRow(row), NEW state, RunRow(j, row, state)
  PROVE  RunRow(j, Aged(row), state)
  BY DEF GoodRow, Row, RunRow, Truthful, Aged

\* record_batch_details of a true report.
LEMMA ObserveRunRow ==
  ASSUME NEW j, NEW row, GoodRow(row), NEW state, RunRow(j, row, state),
         NEW s \in BatchStates, NEW t, TrueReport(s, state)
  PROVE  RunRow(j, Observe(row, s, t), state)
<1> DEFINE new == StatusMap[s]
<1>1. /\ new = "Completed" => state = "SUCCEEDED"
      /\ new = "Failed" => state = "FAILED"
      /\ new # "Cancelled" /\ new # "Absent"
  BY StatusMapEnds
<1> HIDE DEF new
<1>2. CASE Observe(row, s, t) = row
  BY <1>2
<1>3. CASE /\ new = "Failed"
           /\ Observe(row, s, t) =
                [row EXCEPT !.status = "Cancelled", !.cancelAge = None,
                            !.reason = "confirmed", !.seen = t]
  BY <1>1, <1>3 DEF GoodRow, Row, RunRow, Truthful
<1>4. CASE Observe(row, s, t) = [row EXCEPT !.status = new, !.reason = "batch", !.seen = t]
  BY <1>1, <1>4 DEF GoodRow, Row, RunRow, Truthful
<1>5. QED
  BY <1>2, <1>3, <1>4 DEF Observe, new

(***************************************************************************)
(* AWS Batch                                                                *)
(***************************************************************************)
\* An ended Batch job moves no more, and an attempt is begun again only while
\* attempts are left.
LEMMA NextStatesFacts ==
  ASSUME NEW job \in BatchJob, NEW s \in NextStates(job)
  PROVE  /\ job.state \notin Ended
         /\ s \in {"RUNNABLE", "STARTING", "RUNNING", "SUCCEEDED", "FAILED"}
         /\ s = "RUNNABLE" => job.attempt < Attempts
<1>1. job.state \in {"RUNNABLE", "STARTING", "RUNNING", "SUCCEEDED", "FAILED"}
  BY DEF BatchJob
<1>2. CASE job.state = "RUNNABLE"
  BY <1>2 DEF NextStates, Ended
<1>3. CASE job.state = "STARTING"
  BY <1>3 DEF NextStates, Ended
<1>4. CASE job.state = "RUNNING"
  BY <1>4 DEF NextStates, Ended
<1>5. CASE job.state \in Ended
  <2>1. NextStates(job) = {}
    BY <1>5 DEF NextStates, Ended
  <2>2. QED
    BY <2>1
<1>6. QED
  BY <1>1, <1>2, <1>3, <1>4, <1>5 DEF Ended

\* The second in which something happens is not over yet.
LEMMA EventTimeInRange ==
  ASSUME now \in 0..LastTime
  PROVE  EventTime \in 0..LastTime
<1>1. Second \in Nat /\ Second > 0 /\ LastTime \in Nat /\ now \in Nat
  BY BatchStatusAssumption, JobStoreAssumption
<1>2. QED
  BY <1>1 DEF EventTime, SecondOf

(***************************************************************************)
(* Steps of the table                                                       *)
(***************************************************************************)
\* One row rewritten.
LEMMA RowWritten ==
  ASSUME StatusInv, NEW j \in BatchJobs, NEW row, jobs' = [jobs EXCEPT ![j] = row],
         RunRow(j, row, batch[j].state), UNCHANGED batch
  PROVE  \A i \in BatchJobs : RunRow(i, jobs'[i], batch'[i].state)
<1>1. jobs \in [Jobs -> Row] /\ j \in Jobs /\ BatchJobs \subseteq Jobs
  BY DEF StatusInv, StoreInv, BatchJobs
<1>2. jobs'[j] = row /\ \A i \in Jobs : i # j => jobs'[i] = jobs[i]
  BY <1>1
<1>3. QED
  BY <1>1, <1>2 DEF StatusInv

\* Steps that leave the table alone.
LEMMA TableUntouched ==
  ASSUME StatusInv, UNCHANGED <<jobs, batch>>
  PROVE  StoreInv' /\ TableStep /\ \A i \in BatchJobs : RunRow(i, jobs'[i], batch'[i].state)
  BY DEF StatusInv, StoreInv, TableStep, GoodStep, BatchStep

\* A run that is viewed stays linked, whatever happens to its row.
LEMMA CallsStayLinked ==
  ASSUME StatusInv, TableStep, NEW v \in Viewers, viewer[v].pc # "idle"
  PROVE  viewer[v].job \in BatchJobs /\ jobs'[viewer[v].job].ext # None
<1>1. viewer[v].job \in BatchJobs /\ jobs[viewer[v].job].ext # None
  BY DEF StatusInv
<1>2. QED
  BY <1>1 DEF TableStep, GoodStep, BatchJobs

\* A report reaches the table.
LEMMA RecordStep ==
  ASSUME StatusInv, NEW o, o.job \in BatchJobs,
         o.state \in BatchStates, o.at \in 0..LastTime,
         jobs[o.job].ext # None, TrueReport(o.state, batch[o.job].state), Record(o), UNCHANGED batch
  PROVE  /\ StoreInv' /\ TableStep
         /\ \A i \in BatchJobs : RunRow(i, jobs'[i], batch'[i].state)
         /\ stream' \subseteq BatchJobs
<1> DEFINE j   == o.job
           row == Observe(jobs[j], o.state, o.at)
<1>1. jobs' = [jobs EXCEPT ![j] = row] /\ (stream' = stream \/ stream' = stream \cup {j})
  BY DEF Record, RecordBatchDetails, Update
<1>2. j \in BatchJobs /\ j \in Jobs /\ j \notin LocalJobs /\ GoodRow(jobs[j])
      /\ RunRow(j, jobs[j], batch[j].state) /\ StoreInv /\ stream \subseteq BatchJobs
  BY DEF StatusInv, StoreInv, BatchJobs
<1>3. GoodRow(row) /\ GoodStep(jobs[j], row) /\ BatchStep(jobs[j], row)
  BY <1>2, ObserveGood DEF RunRow
<1>4. RunRow(j, row, batch[j].state)
  BY <1>2, ObserveRunRow
<1> HIDE DEF row
<1>5. StoreInv' /\ TableStep
  BY <1>1, <1>2, <1>3, UpdateGood
<1>6. QED
  BY <1>1, <1>2, <1>4, <1>5, RowWritten

\* The dispatcher binds a run.
LEMMA BindRunStep ==
  ASSUME StatusInv, NEW j \in BatchJobs, BindRun(j)
  PROVE  StatusInv' /\ TableStep
<1>1. /\ jobs' = [jobs EXCEPT ![j] = Bind(jobs[j], j)] /\ jobs[j].status # "Absent"
      /\ UNCHANGED <<now, batch, events, viewer, checked, stream, stopping>>
  BY DEF BindRun, BindExternalJobId, Update, Exists
<1>2. /\ j \in Jobs /\ j \notin LocalJobs /\ j \in ExternalIds /\ GoodRow(jobs[j])
      /\ RunRow(j, jobs[j], batch[j].state) /\ StoreInv
  BY BatchStatusAssumption DEF StatusInv, StoreInv, BatchJobs
<1>3. StoreInv' /\ TableStep
  BY <1>1, <1>2, BindGood, UpdateGood
<1>4. \A i \in BatchJobs : RunRow(i, jobs'[i], batch'[i].state)
  BY <1>1, <1>2, BindRunRow, RowWritten
<1>5. QED
  BY CallsStayLinked, <1>1, <1>3, <1>4 DEF StatusInv

\* A user asks for the run to be cancelled.
LEMMA CancelRunStep ==
  ASSUME StatusInv, NEW j \in BatchJobs, CancelRun(j)
  PROVE  StatusInv' /\ TableStep
<1>1. /\ jobs' = [jobs EXCEPT ![j] = RequestCancel(jobs[j])]
      /\ UNCHANGED <<now, batch, events, viewer, checked, stream>>
  BY DEF CancelRun, RequestJobCancellation, Update
<1>2. /\ j \in Jobs /\ j \notin LocalJobs /\ GoodRow(jobs[j])
      /\ RunRow(j, jobs[j], batch[j].state) /\ StoreInv
  BY DEF StatusInv, StoreInv, BatchJobs
<1>3. StoreInv' /\ TableStep
  BY <1>1, <1>2, RequestCancelGood, UpdateGood
<1>4. \A i \in BatchJobs : RunRow(i, jobs'[i], batch'[i].state)
  BY <1>1, <1>2, RequestCancelRunRow, RowWritten
<1>5. stopping' \subseteq [job: BatchJobs, action: {"cancel", "terminate"}]
  BY DEF CancelRun, StatusInv
<1>6. QED
  BY CallsStayLinked, <1>1, <1>3, <1>4, <1>5 DEF StatusInv

\* The watchdogs.
LEMMA WatchdogStep ==
  ASSUME StatusInv, NEW j \in BatchJobs, Watchdog(j)
  PROVE  StatusInv' /\ TableStep
<1>1. UNCHANGED <<now, batch, events, viewer, checked, stream, stopping>>
  BY DEF Watchdog
<1>2. /\ j \in Jobs /\ j \notin LocalJobs /\ GoodRow(jobs[j])
      /\ RunRow(j, jobs[j], batch[j].state) /\ StoreInv
  BY DEF StatusInv, StoreInv, BatchJobs
<1>3. CASE ExpireUnlinkedDispatch(j)
  <2>1. jobs' = [jobs EXCEPT ![j] = Expire(jobs[j])]
    BY <1>3 DEF ExpireUnlinkedDispatch, Update
  <2>2. StoreInv' /\ TableStep
    BY <1>2, <2>1, ExpireGood, UpdateGood
  <2>3. \A i \in BatchJobs : RunRow(i, jobs'[i], batch'[i].state)
    BY <1>1, <1>2, <2>1, ExpireRunRow, RowWritten
  <2>4. QED
    BY CallsStayLinked, <1>1, <2>2, <2>3 DEF StatusInv
<1>4. CASE ReconcileCancellation(j)
  <2>1. /\ jobs' = [jobs EXCEPT ![j] = [jobs[j] EXCEPT !.reason = "unconfirmed"]]
        /\ jobs[j].status = "Cancelling"
    BY <1>4 DEF ReconcileCancellation, Update
  <2>2. StoreInv' /\ TableStep
    BY <1>2, <2>1, FlagGood, UpdateGood
  <2>3. \A i \in BatchJobs : RunRow(i, jobs'[i], batch'[i].state)
    BY <1>1, <1>2, <2>1, FlagRunRow, RowWritten
  <2>4. QED
    BY CallsStayLinked, <1>1, <2>2, <2>3 DEF StatusInv
<1>5. QED
  BY <1>3, <1>4 DEF Watchdog

\* The clock.
LEMMA ClockStep ==
  ASSUME StatusInv, Clock
  PROVE  StatusInv' /\ TableStep
<1>1. Tick /\ UNCHANGED <<batch, events, viewer, checked, stream, stopping>>
  BY DEF Clock
<1>2. StoreInv' /\ TableStep
  BY <1>1, TickStep DEF StatusInv
<1>3. \A i \in BatchJobs : jobs'[i] = Aged(jobs[i]) /\ GoodRow(jobs[i])
  BY <1>1 DEF Tick, StatusInv, StoreInv, BatchJobs
<1>4. \A i \in BatchJobs : RunRow(i, jobs'[i], batch'[i].state)
  BY <1>1, <1>3, AgedRunRow DEF StatusInv
<1>5. now' \in 0..LastTime
  BY JobStoreAssumption DEF Clock, StatusInv
<1>6. QED
  BY CallsStayLinked, <1>1, <1>2, <1>4, <1>5 DEF StatusInv

(***************************************************************************)
(* Steps of AWS Batch, of the updater and of the viewers                    *)
(***************************************************************************)
\* A Batch job moves, so it had not ended: no report spoke of its end and no
\* row was finished.
LEMMA BatchJobMovesStep ==
  ASSUME StatusInv, NEW j \in BatchJobs, BatchJobMoves(j)
  PROVE  StatusInv' /\ TableStep
<1>1. PICK s \in NextStates(batch[j]) :
        /\ batch' = [batch EXCEPT ![j].state = s, ![j].since = now,
                       ![j].attempt = IF s = "RUNNABLE" THEN @ + 1 ELSE @]
        /\ events' = events \cup {[job |-> j, state |-> s, at |-> EventTime]}
        /\ UNCHANGED <<jobs, now, viewer, checked, stream, stopping>>
  BY DEF BatchJobMoves
<1>2. batch[j] \in BatchJob /\ batch \in [BatchJobs -> BatchJob]
  BY DEF StatusInv
<1>3. /\ batch[j].state \notin Ended
      /\ s \in {"RUNNABLE", "STARTING", "RUNNING", "SUCCEEDED", "FAILED"}
      /\ s = "RUNNABLE" => batch[j].attempt < Attempts
  BY <1>2, NextStatesFacts
<1> DEFINE attempt == IF s = "RUNNABLE" THEN batch[j].attempt + 1 ELSE batch[j].attempt
           moved   == [batch[j] EXCEPT !.state = s, !.since = now, !.attempt = attempt]
<1>4. batch' = [batch EXCEPT ![j] = moved]
  BY <1>1, <1>2 DEF BatchJob
<1>5. attempt \in 1..Attempts
  BY <1>2, <1>3, BatchStatusAssumption DEF BatchJob
<1> HIDE DEF attempt
<1>6. moved \in BatchJob /\ moved.state = s
  BY <1>2, <1>3, <1>5 DEF BatchJob, StatusInv
<1> HIDE DEF moved
<1>7. /\ batch' \in [BatchJobs -> BatchJob] /\ batch'[j].state = s
      /\ \A i \in BatchJobs : i # j => batch'[i] = batch[i]
  BY <1>2, <1>4, <1>6
<1>8. events' \subseteq Event
  <2>1. [job |-> j, state |-> s, at |-> EventTime] \in Event
    BY <1>3, EventTimeInRange DEF StatusInv, Event, BatchStates
  <2>2. QED
    BY <1>1, <2>1 DEF StatusInv
<1>9. \A i \in BatchJobs : RunRow(i, jobs'[i], batch'[i].state)
  <2>1. RunRow(j, jobs[j], batch'[j].state)
    BY <1>3 DEF StatusInv, RunRow, Truthful, Ended
  <2>2. QED
    BY <1>1, <1>7, <2>1 DEF StatusInv
<1>10. \A e \in events' : TrueReport(e.state, batch'[e.job].state)
  <2>1. ASSUME NEW e \in events
        PROVE  TrueReport(e.state, batch'[e.job].state)
    <3>1. e.job \in BatchJobs /\ TrueReport(e.state, batch[e.job].state)
      BY DEF StatusInv, Event
    <3>2. CASE e.job = j
      BY <1>3, <3>1, <3>2 DEF TrueReport
    <3>3. CASE e.job # j
      BY <1>7, <3>1, <3>3
    <3>4. QED
      BY <3>2, <3>3
  <2>2. ASSUME NEW e, e = [job |-> j, state |-> s, at |-> EventTime]
        PROVE  TrueReport(e.state, batch'[e.job].state)
    BY <1>7, <2>2 DEF TrueReport
  <2>3. QED
    BY <1>1, <2>1, <2>2
<1>11. ASSUME NEW v \in Viewers, viewer[v].pc = "answered"
       PROVE  TrueReport(viewer[v].state, batch'[viewer[v].job].state)
  <2>1. viewer[v].job \in BatchJobs /\ TrueReport(viewer[v].state, batch[viewer[v].job].state)
    BY <1>11 DEF StatusInv
  <2>2. CASE viewer[v].job = j
    BY <1>3, <2>1, <2>2 DEF TrueReport
  <2>3. CASE viewer[v].job # j
    BY <1>7, <2>1, <2>3
  <2>4. QED
    BY <2>2, <2>3
<1>12. QED
  BY <1>1, <1>7, <1>8, <1>9, <1>10, <1>11 DEF StatusInv, StoreInv, TableStep, GoodStep, BatchStep

\* An event is delivered, and may come again, or is given up.
LEMMA EventStep ==
  ASSUME StatusInv, NEW e \in events, DeliverEvent(e) \/ LoseEvent(e)
  PROVE  StatusInv' /\ TableStep
<1>1. e \in Event /\ TrueReport(e.state, batch[e.job].state)
  BY DEF StatusInv
<1>2. CASE DeliverEvent(e)
  <2>1. /\ Record(e) /\ events' \subseteq events /\ jobs[e.job].ext # None
        /\ UNCHANGED <<now, batch, viewer, checked, stopping>>
    BY <1>2 DEF DeliverEvent
  <2>2. /\ StoreInv' /\ TableStep /\ stream' \subseteq BatchJobs
        /\ \A i \in BatchJobs : RunRow(i, jobs'[i], batch'[i].state)
    BY <1>1, <2>1, RecordStep DEF Event
  <2>3. QED
    BY CallsStayLinked, <2>1, <2>2 DEF StatusInv
<1>3. CASE LoseEvent(e)
  BY <1>3, TableUntouched DEF LoseEvent, StatusInv
<1>4. QED
  BY <1>2, <1>3

\* A viewer's refresh begins, its observation dated before it is made.
LEMMA StartRefreshStep ==
  ASSUME StatusInv, NEW v \in Viewers, NEW j \in BatchJobs, StartRefresh(v, j)
  PROVE  StatusInv' /\ TableStep
<1> DEFINE call == [IdleCall EXCEPT !.pc = "asking", !.job = j, !.at = now]
<1>1. /\ viewer' = [viewer EXCEPT ![v] = call] /\ checked' = [checked EXCEPT ![j] = now]
      /\ UNCHANGED <<jobs, now, batch, events, stream, stopping>>
  BY DEF StartRefresh
<1>2. call \in Call /\ call.pc = "asking" /\ call.job = j
  BY DEF StatusInv, IdleCall, Call
<1> HIDE DEF call
<1>3. viewer' \in [Viewers -> Call] /\ viewer'[v] = call
      /\ \A w \in Viewers : w # v => viewer'[w] = viewer[w]
  BY <1>1, <1>2 DEF StatusInv
<1>4. checked' \in [BatchJobs -> 0..LastTime \cup {None}]
  BY <1>1 DEF StatusInv
<1>5. jobs[j].ext # None /\ TableStep /\ StoreInv' /\ \A i \in BatchJobs : RunRow(i, jobs'[i], batch'[i].state)
  BY <1>1, TableUntouched DEF StartRefresh
<1>6. \A w \in Viewers : viewer'[w].pc # "idle" =>
                              viewer'[w].job \in BatchJobs /\ jobs'[viewer'[w].job].ext # None
  BY <1>1, <1>2, <1>3, <1>5, CallsStayLinked
<1>7. QED
  BY <1>1, <1>2, <1>3, <1>4, <1>5, <1>6 DEF StatusInv

\* AWS Batch answers with the state the Batch job is in by then.
LEMMA DescribeJobsStep ==
  ASSUME StatusInv, NEW v \in Viewers, DescribeJobs(v)
  PROVE  StatusInv' /\ TableStep
<1> DEFINE state == batch[viewer[v].job].state
           call  == [viewer[v] EXCEPT !.pc = "answered", !.state = state]
<1>1. viewer[v] \in Call /\ viewer[v].job \in BatchJobs /\ viewer \in [Viewers -> Call]
  BY DEF DescribeJobs, StatusInv
<1>2. /\ viewer' = [viewer EXCEPT ![v] = call]
      /\ UNCHANGED <<jobs, now, batch, events, checked, stream, stopping>>
  BY <1>1 DEF DescribeJobs, Call
<1>3. state \in BatchStates
  BY <1>1 DEF StatusInv, BatchJob, BatchStates
<1>4. call \in Call /\ call.job = viewer[v].job /\ call.state = state
  BY <1>1, <1>3 DEF Call
<1> HIDE DEF call
<1>5. viewer' \in [Viewers -> Call] /\ viewer'[v] = call
      /\ \A w \in Viewers : w # v => viewer'[w] = viewer[w]
  BY <1>1, <1>2, <1>4
<1>6. TrueReport(call.state, batch[call.job].state)
  BY <1>4 DEF TrueReport
<1>7. TableStep /\ StoreInv' /\ \A i \in BatchJobs : RunRow(i, jobs'[i], batch'[i].state)
  BY <1>2, TableUntouched
<1>8. \A w \in Viewers : viewer'[w].pc # "idle" =>
                              viewer'[w].job \in BatchJobs /\ jobs'[viewer'[w].job].ext # None
  <2>1. viewer[v].pc # "idle"
    BY DEF DescribeJobs
  <2>2. QED
    BY <1>4, <1>5, <1>7, <2>1, CallsStayLinked
<1>9. QED
  BY <1>1, <1>2, <1>3, <1>4, <1>5, <1>6, <1>7, <1>8 DEF StatusInv

\* A refresh that ends, with or without its observation recorded.
LEMMA RefreshEndsStep ==
  ASSUME StatusInv, NEW v \in Viewers, RecordRefresh(v) \/ AbandonRefresh(v)
  PROVE  StatusInv' /\ TableStep
<1>1. viewer' = [viewer EXCEPT ![v] = IdleCall] /\ UNCHANGED <<now, batch, events, checked, stopping>>
  BY DEF RecordRefresh, AbandonRefresh
<1>2. IdleCall \in Call /\ IdleCall.pc = "idle"
  BY JobStoreAssumption DEF IdleCall, Call
<1>3. viewer' \in [Viewers -> Call] /\ viewer'[v] = IdleCall
      /\ \A w \in Viewers : w # v => viewer'[w] = viewer[w]
  BY <1>1, <1>2 DEF StatusInv
<1>4. StoreInv' /\ TableStep /\ stream' \subseteq BatchJobs /\ \A i \in BatchJobs : RunRow(i, jobs'[i], batch'[i].state)
  <2>1. CASE RecordRefresh(v)
    <3>1. /\ viewer[v].pc = "answered" /\ viewer[v] \in Call /\ viewer[v].job \in BatchJobs
          /\ viewer[v].state \in BatchStates /\ Record(viewer[v]) /\ jobs[viewer[v].job].ext # None
          /\ TrueReport(viewer[v].state, batch[viewer[v].job].state)
      BY <2>1 DEF RecordRefresh, StatusInv
    <3>2. viewer[v].at \in 0..LastTime
      BY <3>1 DEF Call
    <3>3. QED
      BY <1>1, <3>1, <3>2, RecordStep
  <2>2. CASE AbandonRefresh(v)
    BY <2>2, TableUntouched DEF AbandonRefresh, StatusInv
  <2>3. QED
    BY <2>1, <2>2
<1>5. QED
  BY CallsStayLinked, <1>1, <1>2, <1>3, <1>4 DEF StatusInv

\* The runner answers a cancel request, or the request dies.
LEMMA StopStep ==
  ASSUME StatusInv, NEW r \in stopping, StopAnswered(r)
  PROVE  StatusInv' /\ TableStep
<1>1. r.job \in BatchJobs
  BY DEF StatusInv
<1>2. CASE StopAccepted(r)
  <2>1. /\ batch' = [batch EXCEPT ![r.job] = Told(@, r.action)] /\ stopping' = stopping \ {r}
        /\ UNCHANGED <<jobs, now, events, viewer, checked, stream>>
    BY <1>2 DEF StopAccepted
  <2> DEFINE told == Told(batch[r.job], r.action)
  <2>2. told \in BatchJob /\ told.state = batch[r.job].state
    BY <1>1 DEF StatusInv, Told, BatchJob
  <2> HIDE DEF told
  <2>3. batch' = [batch EXCEPT ![r.job] = told]
    BY <2>1 DEF told
  <2>4. batch' \in [BatchJobs -> BatchJob] /\ \A i \in BatchJobs : batch'[i].state = batch[i].state
    BY <1>1, <2>2, <2>3 DEF StatusInv
  <2>5. \A e \in events : e.job \in BatchJobs
    BY DEF StatusInv, Event
  <2>6. QED
    BY <2>1, <2>4, <2>5 DEF StatusInv, StoreInv, TableStep, GoodStep, BatchStep
<1>3. CASE StopRefused(r)
  <2> DEFINE j == r.job
  <2>1. /\ jobs' = [jobs EXCEPT ![j] = RevertCancel(jobs[j])] /\ stopping' = stopping \ {r}
        /\ UNCHANGED <<now, batch, events, viewer, checked, stream>>
    BY <1>3 DEF StopRefused, RecordCancellationFailure, Update
  <2>2. /\ j \in BatchJobs /\ j \in Jobs /\ j \notin LocalJobs /\ GoodRow(jobs[j])
        /\ RunRow(j, jobs[j], batch[j].state) /\ StoreInv
    BY <1>1 DEF StatusInv, StoreInv, BatchJobs
  <2>3. StoreInv' /\ TableStep
    BY <2>1, <2>2, RevertCancelGood, UpdateGood
  <2>4. \A i \in BatchJobs : RunRow(i, jobs'[i], batch'[i].state)
    BY <2>1, <2>2, RevertCancelRunRow, RowWritten
  <2>5. QED
    BY CallsStayLinked, <2>1, <2>3, <2>4 DEF StatusInv
<1>4. CASE StopDies(r)
  BY <1>4, TableUntouched DEF StopDies, StatusInv
<1>5. QED
  BY <1>2, <1>3, <1>4 DEF StopAnswered

(***************************************************************************)
(* The end of a run reaches the table                                       *)
(*                                                                          *)
(* The event of the end is dated with the second of the end, and no other   *)
(* event of the Batch job is dated later.  What the table holds from after  *)
(* the end was told by AWS Batch after it, and so is the end itself.        *)
(***************************************************************************)
\* Overtaken, said of a row and of the time its Batch job ended.
OvertakenRow(row, since) ==
  row.seen # None /\ SecondOf(since) < row.seen /\ row.seen <= since

\* What OutcomeRecorded asks of a run whose event of the end is through.
Resolved(row, since) == row.status \in Finished \/ OvertakenRow(row, since)

\* What was seen after the end is the end.
SeenAfterIsEnd(row, since) ==
  row.seen # None /\ row.seen > since => row.status \in Finished

\* The row of run j against its Batch job.
RowSettled(j) ==
  /\ batch[j].since <= now
  /\ jobs[j].seen # None => jobs[j].seen <= now
  /\ batch[j].state \in Ended =>
       /\ SeenAfterIsEnd(jobs[j], batch[j].since)
       /\ ~EventsLost /\ EndTold(j) => Resolved(jobs[j], batch[j].since)

\* An event is not dated later than the state its Batch job is in, and the event of the
\* end is dated with the second of the end.
EventDated(e) ==
  /\ e.at <= batch[e.job].since
  /\ e.state \in Ended => e.at = SecondOf(batch[e.job].since)

\* What AWS Batch is asked after the end, it answers with the end.
CallDated(v) ==
  viewer[v].pc # "idle" =>
    LET call == viewer[v] IN
    /\ call.at <= now
    /\ /\ call.pc = "answered"
       /\ batch[call.job].state \in Ended
       /\ call.at > batch[call.job].since
       => call.state \in Ended

\* The invariant that is proved of dates, beside StatusInv.
DatedInv ==
  /\ \A j \in BatchJobs : RowSettled(j)
  /\ \A e \in events : EventDated(e)
  /\ \A v \in Viewers : CallDated(v)

\* A second begins at or before each of its times.
LEMMA SecondOfFacts ==
  ASSUME NEW t \in Nat
  PROVE  SecondOf(t) \in Int /\ SecondOf(t) <= t
<1>1. Second \in Nat /\ Second > 0
  BY BatchStatusAssumption
<1>2. QED
  BY <1>1 DEF SecondOf

\* record_batch_details after the end: a report of the end is recorded, unless a newer
\* observation is on record, and nothing takes an end or a newer observation away.
LEMMA ObserveSettles ==
  ASSUME NEW row, GoodRow(row), NEW since \in 0..LastTime,
         NEW s \in BatchStates, NEW t \in 0..LastTime,
         t > since => s \in Ended,
         SeenAfterIsEnd(row, since)
  PROVE  /\ SeenAfterIsEnd(Observe(row, s, t), since)
         /\ Resolved(row, since) => Resolved(Observe(row, s, t), since)
         /\ s \in Ended /\ t >= SecondOf(since) => Resolved(Observe(row, s, t), since)
<1> DEFINE new == StatusMap[s]
           out == Observe(row, s, t)
           second == SecondOf(since)
<1>1. second \in Int /\ second <= since
  BY SecondOfFacts, JobStoreAssumption
<1>2. /\ new \in {"Pending", "Running", "Completed", "Failed"}
      /\ s \in Ended => new \in {"Completed", "Failed"}
  BY DEF StatusMap, BatchStates, Ended
<1>3. row.seen \in 0..LastTime \cup {None} /\ LastTime \in Nat /\ None \notin Int
  BY JobStoreAssumption DEF GoodRow, Row
<1> HIDE DEF new
<1>4. \/ out = row /\ row.seen # None /\ t < row.seen
      \/ out = row /\ row.status \in Finished
      \/ /\ out.status = "Cancelled" /\ out.seen = t
         /\ row.seen # None => row.seen <= t
      \/ /\ out.status = new /\ out.seen = t
         /\ row.seen # None => row.seen <= t
         /\ row.status \in Finished => new \in Finished
  <2>1. CASE row.seen # None /\ t < row.seen
    BY <2>1 DEF Observe, ObservationDropped
  <2>2. CASE row.status \in Finished /\ new # row.status
    BY <2>2 DEF Observe, ObservationDropped, new
  <2>3. CASE /\ ~(row.seen # None /\ t < row.seen)
             /\ ~(row.status \in Finished /\ new # row.status)
    <3>1. row.seen # None => row.seen <= t
      BY <1>3, <2>3
    <3>2. CASE row.status = "Cancelling" /\ new = "Failed"
      <4>1. out = [row EXCEPT !.status = "Cancelled", !.cancelAge = None,
                              !.reason = "confirmed", !.seen = t]
        BY <2>3, <3>2 DEF Observe, ObservationDropped, new
      <4>2. QED
        BY <3>1, <4>1 DEF GoodRow, Row
    <3>3. CASE ~(row.status = "Cancelling" /\ new = "Failed")
      <4>1. out = [row EXCEPT !.status = new, !.reason = "batch", !.seen = t]
        BY <2>3, <3>3 DEF Observe, ObservationDropped, new
      <4>2. QED
        BY <2>3, <3>1, <4>1 DEF GoodRow, Row
    <3>4. QED
      BY <3>2, <3>3
  <2>4. QED
    BY <2>1, <2>2, <2>3
<1> HIDE DEF out, second
<1>5. SeenAfterIsEnd(out, since)
  BY <1>2, <1>3, <1>4 DEF SeenAfterIsEnd, Finished
<1>6. Resolved(row, since) => Resolved(out, since)
  <2>1. ASSUME OvertakenRow(row, since)
        PROVE  Resolved(out, since)
    <3>1. row.seen \in Int /\ second < row.seen /\ row.seen <= since
      BY <1>3, <2>1 DEF OvertakenRow, second
    <3>2. QED
      BY <1>1, <1>2, <1>3, <1>4, <3>1 DEF Resolved, OvertakenRow, Finished, second
  <2>2. ASSUME row.status \in Finished
        PROVE  out.status \in Finished
    BY <1>4, <2>2 DEF Finished
  <2>3. QED
    BY <2>1, <2>2 DEF Resolved
<1>7. ASSUME s \in Ended, t >= second
      PROVE  Resolved(out, since)
  <2>1. CASE out = row /\ row.seen # None /\ t < row.seen
    BY <1>1, <1>3, <1>7, <2>1 DEF Resolved, OvertakenRow, SeenAfterIsEnd, second
  <2>2. CASE out.status \in Finished
    BY <2>2 DEF Resolved
  <2>3. QED
    BY <1>2, <1>4, <1>7, <2>1, <2>2 DEF Finished
<1>8. QED
  BY <1>5, <1>6, <1>7 DEF out, second

\* Steps that neither observe nor end anything: a row that is rewritten keeps what it saw
\* and whether it is finished, Batch jobs stay where they are, and no event of an end goes.
LEMMA RowsStaySettled ==
  ASSUME StatusInv, StatusInv', DatedInv, TableStep, events' \subseteq events,
         ~EventsLost => \A e \in events : e.state \in Ended => e \in events',
         \A j \in BatchJobs : jobs'[j].seen = jobs[j].seen,
         \A j \in BatchJobs : batch'[j].state = batch[j].state /\ batch'[j].since = batch[j].since,
         now' \in {now, now + 1}
  PROVE  /\ \A j \in BatchJobs : RowSettled(j)'
         /\ \A e \in events' : EventDated(e)'
<1>1. ASSUME NEW j \in BatchJobs
      PROVE  RowSettled(j)'
  <2> j \in Jobs /\ batch[j] \in BatchJob /\ jobs[j] \in Row /\ now \in 0..LastTime
    BY DEF StatusInv, StoreInv, BatchJobs
  <2>1. /\ jobs'[j].seen = jobs[j].seen /\ batch'[j].state = batch[j].state
        /\ batch'[j].since = batch[j].since /\ RowSettled(j) /\ now' >= now
        /\ now \in Int /\ now' \in Int /\ batch[j].since \in Int
        /\ jobs[j].seen # None => jobs[j].seen \in Int
    BY JobStoreAssumption DEF DatedInv, BatchJob, Row
  <2>2. jobs[j].status \in Finished => jobs'[j].status \in Finished
    BY DEF TableStep, BatchStep
  <2>3. ~EventsLost /\ EndTold(j)' => EndTold(j)
    BY DEF EndTold
  <2>4. /\ batch'[j].since <= now'
        /\ jobs'[j].seen # None => jobs'[j].seen <= now'
    BY <2>1 DEF RowSettled
  <2>5. ASSUME batch'[j].state \in Ended
        PROVE  /\ SeenAfterIsEnd(jobs'[j], batch'[j].since)
               /\ ~EventsLost /\ EndTold(j)' => Resolved(jobs'[j], batch'[j].since)
    BY <2>1, <2>2, <2>3, <2>5 DEF RowSettled, SeenAfterIsEnd, Resolved, OvertakenRow
  <2>6. QED
    BY <2>4, <2>5 DEF RowSettled
<1>2. ASSUME NEW e \in events'
      PROVE  EventDated(e)'
  <2>1. EventDated(e) /\ e.job \in BatchJobs
    BY DEF DatedInv, StatusInv, Event
  <2>2. batch'[e.job].since = batch[e.job].since
    BY <2>1
  <2>3. QED
    BY <2>1, <2>2 DEF EventDated
<1>3. QED
  BY <1>1, <1>2

\* A refresh that such a step leaves alone.
LEMMA CallStaysDated ==
  ASSUME StatusInv, DatedInv,
         \A j \in BatchJobs : batch'[j].state = batch[j].state /\ batch'[j].since = batch[j].since,
         now' \in {now, now + 1},
         NEW v \in Viewers, viewer'[v] = viewer[v]
  PROVE  CallDated(v)'
<1>1. CASE viewer[v].pc = "idle"
  BY <1>1 DEF CallDated
<1>2. CASE viewer[v].pc # "idle"
  <2>1. viewer[v].job \in BatchJobs /\ viewer[v] \in Call /\ now \in 0..LastTime /\ CallDated(v)
    BY <1>2 DEF StatusInv, DatedInv
  <2>2. viewer[v].at \in Int /\ now \in Int /\ now' >= now
    BY <2>1, JobStoreAssumption DEF Call
  <2>3. /\ batch'[viewer[v].job].state = batch[viewer[v].job].state
        /\ batch'[viewer[v].job].since = batch[viewer[v].job].since
    BY <2>1
  <2>4. viewer[v].at <= now'
    BY <1>2, <2>1, <2>2 DEF CallDated
  <2>5. QED
    BY <1>2, <2>1, <2>3, <2>4 DEF CallDated
<1>3. QED
  BY <1>1, <1>2

\* The handlers that observe nothing leave batch_details_time alone.
LEMMA SeenStays ==
  ASSUME NEW row \in Row, NEW x
  PROVE  /\ Bind(row, x).seen = row.seen
         /\ RequestCancel(row).seen = row.seen
         /\ RevertCancel(row).seen = row.seen
         /\ Expire(row).seen = row.seen
         /\ Aged(row).seen = row.seen
         /\ [row EXCEPT !.reason = "unconfirmed"].seen = row.seen
  BY DEF Row, Bind, RequestCancel, RevertCancel, Expire, Aged

\* One row is rewritten by such a handler.
LEMMA RowKeepsSeen ==
  ASSUME StatusInv, NEW j \in BatchJobs, NEW row, row.seen = jobs[j].seen,
         jobs' = [jobs EXCEPT ![j] = row]
  PROVE  \A i \in BatchJobs : jobs'[i].seen = jobs[i].seen
<1>1. jobs \in [Jobs -> Row] /\ BatchJobs \subseteq Jobs
  BY DEF StatusInv, StoreInv, BatchJobs
<1>2. QED
  BY <1>1

\* The dispatcher, the users and the watchdogs.
LEMMA HandlerDated ==
  ASSUME StatusInv, StatusInv', DatedInv, TableStep, NEW j \in BatchJobs,
         BindRun(j) \/ CancelRun(j) \/ Watchdog(j)
  PROVE  DatedInv'
<1>1. jobs[j] \in Row
  BY DEF StatusInv, StoreInv, BatchJobs
<1>2. UNCHANGED <<now, batch, events, viewer>>
  BY DEF BindRun, CancelRun, Watchdog
<1>3. \A i \in BatchJobs : jobs'[i].seen = jobs[i].seen
  <2>1. CASE BindRun(j)
    <3>1. jobs' = [jobs EXCEPT ![j] = Bind(jobs[j], j)]
      BY <2>1 DEF BindRun, BindExternalJobId, Update
    <3>2. QED
      BY <1>1, <3>1, SeenStays, RowKeepsSeen
  <2>2. CASE CancelRun(j)
    <3>1. jobs' = [jobs EXCEPT ![j] = RequestCancel(jobs[j])]
      BY <2>2 DEF CancelRun, RequestJobCancellation, Update
    <3>2. QED
      BY <1>1, <3>1, SeenStays, RowKeepsSeen
  <2>3. CASE ExpireUnlinkedDispatch(j)
    <3>1. jobs' = [jobs EXCEPT ![j] = Expire(jobs[j])]
      BY <2>3 DEF ExpireUnlinkedDispatch, Update
    <3>2. QED
      BY <1>1, <3>1, SeenStays, RowKeepsSeen
  <2>4. CASE ReconcileCancellation(j)
    <3>1. jobs' = [jobs EXCEPT ![j] = [jobs[j] EXCEPT !.reason = "unconfirmed"]]
      BY <2>4 DEF ReconcileCancellation, Update
    <3>2. QED
      BY <1>1, <3>1, SeenStays, RowKeepsSeen
  <2>5. QED
    BY <2>1, <2>2, <2>3, <2>4 DEF Watchdog
<1>4. QED
  BY <1>2, <1>3, RowsStaySettled, CallStaysDated DEF DatedInv

\* The clock.
LEMMA ClockDated ==
  ASSUME StatusInv, StatusInv', DatedInv, TableStep, Clock
  PROVE  DatedInv'
<1>1. Tick /\ UNCHANGED <<batch, events, viewer>> /\ now' = now + 1
  BY DEF Clock
<1>2. \A i \in BatchJobs : jobs[i] \in Row /\ jobs'[i] = Aged(jobs[i])
  BY <1>1 DEF Tick, StatusInv, StoreInv, BatchJobs
<1>3. \A i \in BatchJobs : jobs'[i].seen = jobs[i].seen
  BY <1>2, SeenStays
<1>4. QED
  BY <1>1, <1>3, RowsStaySettled, CallStaysDated DEF DatedInv

\* The runner's answer to a cancel request, which changes no Batch job's state.
LEMMA StopDated ==
  ASSUME StatusInv, StatusInv', DatedInv, TableStep, NEW r \in stopping, StopAnswered(r)
  PROVE  DatedInv'
<1>1. r.job \in BatchJobs /\ jobs[r.job] \in Row /\ batch \in [BatchJobs -> BatchJob]
  BY DEF StatusInv, StoreInv, BatchJobs
<1>2. UNCHANGED <<now, events, viewer>>
  BY DEF StopAnswered, StopAccepted, StopRefused, StopDies
<1>3. \A i \in BatchJobs : jobs'[i].seen = jobs[i].seen
  <2>1. CASE StopRefused(r)
    <3>1. jobs' = [jobs EXCEPT ![r.job] = RevertCancel(jobs[r.job])]
      BY <2>1 DEF StopRefused, RecordCancellationFailure, Update
    <3>2. QED
      BY <1>1, <3>1, SeenStays, RowKeepsSeen
  <2>2. CASE StopAccepted(r) \/ StopDies(r)
    BY <2>2 DEF StopAccepted, StopDies
  <2>3. QED
    BY <2>1, <2>2 DEF StopAnswered
<1>4. \A i \in BatchJobs : batch'[i].state = batch[i].state /\ batch'[i].since = batch[i].since
  <2>1. CASE StopAccepted(r)
    <3> DEFINE told == Told(batch[r.job], r.action)
    <3>1. told.state = batch[r.job].state /\ told.since = batch[r.job].since
      BY <1>1 DEF Told, BatchJob
    <3> HIDE DEF told
    <3>2. batch' = [batch EXCEPT ![r.job] = told]
      BY <2>1 DEF StopAccepted, told
    <3>3. QED
      BY <1>1, <3>1, <3>2
  <2>2. CASE StopRefused(r) \/ StopDies(r)
    BY <2>2 DEF StopRefused, StopDies
  <2>3. QED
    BY <2>1, <2>2 DEF StopAnswered
<1>5. QED
  BY <1>2, <1>3, <1>4, RowsStaySettled, CallStaysDated DEF DatedInv

\* A refresh begins, is answered or is given up.
LEMMA RefreshDated ==
  ASSUME StatusInv, StatusInv', DatedInv, TableStep, NEW v \in Viewers,
         (\E j \in BatchJobs : StartRefresh(v, j)) \/ DescribeJobs(v) \/ AbandonRefresh(v)
  PROVE  DatedInv'
<1>1. UNCHANGED <<jobs, now, batch, events>> /\ \A w \in Viewers : w # v => viewer'[w] = viewer[w]
  BY DEF StatusInv, StartRefresh, DescribeJobs, AbandonRefresh
<1>2. viewer \in [Viewers -> Call] /\ now \in Nat
  BY JobStoreAssumption DEF StatusInv
<1>3. CallDated(v)'
  <2>1. ASSUME NEW j \in BatchJobs, StartRefresh(v, j)
        PROVE  CallDated(v)'
    <3>1. viewer'[v].pc = "asking" /\ viewer'[v].at = now
      BY <1>2, <2>1 DEF StartRefresh, IdleCall, Call
    <3>2. QED
      BY <1>1, <1>2, <3>1 DEF CallDated
  <2>2. CASE DescribeJobs(v)
    <3>1. /\ viewer'[v].state = batch[viewer[v].job].state
          /\ viewer'[v].job = viewer[v].job /\ viewer'[v].at = viewer[v].at
      BY <1>2, <2>2 DEF DescribeJobs, Call
    <3>2. viewer[v].at <= now
      BY <2>2 DEF DescribeJobs, DatedInv, CallDated
    <3>3. QED
      BY <1>1, <3>1, <3>2 DEF CallDated
  <2>3. CASE AbandonRefresh(v)
    BY <1>2, <2>3 DEF AbandonRefresh, IdleCall, CallDated
  <2>4. QED
    BY <2>1, <2>2, <2>3
<1>4. \A w \in Viewers : CallDated(w)'
  BY <1>1, <1>3, CallStaysDated
<1>5. QED
  BY <1>1, <1>4, RowsStaySettled DEF DatedInv

\* A Batch job moves: whatever was seen, asked or said of it so far is not later, and if it
\* ended, the event of the end waits.
LEMMA BatchJobMovesDated ==
  ASSUME StatusInv, StatusInv', DatedInv, NEW j \in BatchJobs, BatchJobMoves(j)
  PROVE  DatedInv'
<1>1. PICK s \in NextStates(batch[j]) :
        /\ batch' = [batch EXCEPT ![j].state = s, ![j].since = now,
                       ![j].attempt = IF s = "RUNNABLE" THEN @ + 1 ELSE @]
        /\ events' = events \cup {[job |-> j, state |-> s, at |-> EventTime]}
        /\ UNCHANGED <<jobs, now, viewer, checked, stream, stopping>>
  BY DEF BatchJobMoves
<1>2. batch[j] \in BatchJob /\ batch \in [BatchJobs -> BatchJob] /\ now \in Nat
  BY JobStoreAssumption DEF StatusInv
<1>3. batch[j].state \notin Ended
  BY <1>2, NextStatesFacts
<1>4. /\ batch'[j].state = s /\ batch'[j].since = now
      /\ \A i \in BatchJobs : i # j => batch'[i] = batch[i]
  BY <1>1, <1>2 DEF BatchJob
<1> DEFINE told == [job |-> j, state |-> s, at |-> SecondOf(now)]
<1>5. events' = events \cup {told} /\ told.job = j /\ told.state = s /\ told.at = SecondOf(now)
  BY <1>1 DEF EventTime
<1> HIDE DEF told
<1>6. ASSUME NEW i \in BatchJobs
      PROVE  RowSettled(i)'
  <2>1. RowSettled(i) /\ jobs'[i] = jobs[i] /\ now' = now
    BY <1>1 DEF DatedInv
  <2>2. EndTold(i)' => EndTold(i)
    BY <1>1 DEF EndTold
  <2>3. CASE i # j
    BY <1>4, <2>1, <2>2, <2>3 DEF RowSettled
  <2>4. CASE i = j
    <3>1. s \in Ended => ~EndTold(j)'
      BY <1>5 DEF EndTold
    <3>2. jobs[j].seen # None => jobs[j].seen <= now /\ jobs[j].seen \in Int
      <4>1. jobs[j] \in Row
        BY DEF StatusInv, StoreInv, BatchJobs
      <4>2. QED
        BY <2>1, <2>4, <4>1, JobStoreAssumption DEF RowSettled, Row
    <3>3. SeenAfterIsEnd(jobs'[j], now)
      BY <1>2, <2>1, <2>4, <3>2 DEF SeenAfterIsEnd
    <3>4. batch'[j].since <= now' /\ (jobs'[j].seen # None => jobs'[j].seen <= now')
      BY <1>2, <1>4, <2>1, <2>4, <3>2
    <3>5. batch'[j].state \in Ended =>
            /\ SeenAfterIsEnd(jobs'[j], batch'[j].since)
            /\ ~EventsLost /\ EndTold(j)' => Resolved(jobs'[j], batch'[j].since)
      BY <1>4, <3>1, <3>3
    <3>6. QED
      BY <2>4, <3>4, <3>5 DEF RowSettled
  <2>5. QED
    BY <2>3, <2>4
<1>7. ASSUME NEW e \in events'
      PROVE  EventDated(e)'
  <2>1. CASE e \in events
    <3>1. EventDated(e) /\ e.job \in BatchJobs /\ TrueReport(e.state, batch[e.job].state)
          /\ e.at \in Int
      BY <2>1 DEF DatedInv, StatusInv, Event
    <3>2. CASE e.job # j
      BY <1>4, <3>1, <3>2 DEF EventDated
    <3>3. CASE e.job = j
      <4>1. e.state \notin Ended
        BY <1>3, <3>1, <3>3 DEF TrueReport
      <4>2. batch[j].since \in Int /\ batch[j].since <= now
        BY <1>2, JobStoreAssumption DEF DatedInv, RowSettled, BatchJob
      <4>3. e.at <= now
        BY <1>2, <3>1, <3>3, <4>2 DEF EventDated
      <4>4. QED
        BY <1>4, <3>3, <4>1, <4>3 DEF EventDated
    <3>4. QED
      BY <3>2, <3>3
  <2>2. CASE e = told
    BY <1>2, <1>4, <1>5, <2>2, SecondOfFacts DEF EventDated
  <2>3. QED
    BY <1>5, <2>1, <2>2
<1>8. ASSUME NEW v \in Viewers
      PROVE  CallDated(v)'
  <2>1. viewer'[v] = viewer[v] /\ now' = now /\ CallDated(v) /\ viewer[v] \in Call
    BY <1>1 DEF DatedInv, StatusInv
  <2>2. viewer[v].pc # "idle" => viewer[v].job \in BatchJobs
    BY DEF StatusInv
  <2>3. viewer[v].at \in Int
    BY <2>1 DEF Call
  <2>4. CASE viewer[v].pc # "idle" /\ viewer[v].job = j
    BY <1>2, <1>4, <2>1, <2>3, <2>4 DEF CallDated
  <2>5. CASE viewer[v].pc # "idle" /\ viewer[v].job # j
    BY <1>4, <2>1, <2>2, <2>5 DEF CallDated
  <2>6. CASE viewer[v].pc = "idle"
    BY <2>1, <2>6 DEF CallDated
  <2>7. QED
    BY <2>4, <2>5, <2>6
<1>9. QED
  BY <1>6, <1>7, <1>8 DEF DatedInv

\* A report reaches the table: a row that was resolved stays so, and a report of the end,
\* dated with its second or later, resolves it.
LEMMA RecordDated ==
  ASSUME StatusInv, DatedInv, NEW o, o.job \in BatchJobs,
         o.state \in BatchStates, o.at \in 0..LastTime, o.at <= now, Record(o),
         UNCHANGED <<now, batch>>,
         /\ batch[o.job].state \in Ended
         /\ o.at > batch[o.job].since
         => o.state \in Ended
  PROVE  \A j \in BatchJobs :
           /\ jobs'[j].seen # None => jobs'[j].seen <= now
           /\ batch[j].state \in Ended =>
                LET since == batch[j].since IN
                /\ SeenAfterIsEnd(jobs'[j], since)
                /\ Resolved(jobs[j], since) => Resolved(jobs'[j], since)
                /\ j = o.job /\ o.state \in Ended /\ o.at >= SecondOf(since)
                     => Resolved(jobs'[j], since)
<1> DEFINE i   == o.job
           row == Observe(jobs[i], o.state, o.at)
<1>1. jobs' = [jobs EXCEPT ![i] = row]
  BY DEF Record, RecordBatchDetails, Update
<1>2. jobs \in [Jobs -> Row] /\ i \in Jobs /\ BatchJobs \subseteq Jobs /\ GoodRow(jobs[i])
  BY DEF StatusInv, StoreInv, BatchJobs
<1>3. row.seen = jobs[i].seen \/ row.seen = o.at
  BY <1>2 DEF Observe, Row
<1>4. batch[i].since \in 0..LastTime /\ RowSettled(i)
  BY DEF StatusInv, DatedInv, BatchJob
<1>5. batch[i].state \in Ended =>
        LET since == batch[i].since IN
        /\ SeenAfterIsEnd(row, since)
        /\ Resolved(jobs[i], since) => Resolved(row, since)
        /\ o.state \in Ended /\ o.at >= SecondOf(since) => Resolved(row, since)
  BY <1>2, <1>4, ObserveSettles DEF RowSettled
<1> HIDE DEF row
<1>6. jobs'[i] = row /\ \A j \in BatchJobs : j # i => jobs'[j] = jobs[j]
  BY <1>1, <1>2
<1> TAKE j \in BatchJobs
<1>7. CASE j = i
  BY <1>3, <1>4, <1>5, <1>6, <1>7 DEF RowSettled
<1>8. CASE j # i
  BY <1>6, <1>8 DEF DatedInv, RowSettled
<1>9. QED
  BY <1>7, <1>8

\* An event is delivered or given up.
LEMMA EventStepDated ==
  ASSUME StatusInv, StatusInv', DatedInv, TableStep, NEW e \in events,
         DeliverEvent(e) \/ LoseEvent(e)
  PROVE  DatedInv'
<1>1. UNCHANGED <<now, batch, viewer>> /\ events' \subseteq events
  BY DEF DeliverEvent, LoseEvent
<1>2. \A v \in Viewers : CallDated(v)'
  BY <1>1, CallStaysDated
<1>3. CASE LoseEvent(e)
  <2>1. events' = events \ {e} /\ jobs' = jobs /\ (~EventsLost => e.state \notin Ended)
    BY <1>3 DEF LoseEvent
  <2>2. QED
    BY <1>1, <1>2, <2>1, RowsStaySettled DEF DatedInv
<1>4. CASE DeliverEvent(e)
  <2>1. /\ Record(e) /\ events' \in {events, events \ {e}}
        /\ e.job \in BatchJobs /\ e.state \in BatchStates /\ e.at \in 0..LastTime
        /\ EventDated(e) /\ now \in Nat /\ batch[e.job].since \in Nat
        /\ RowSettled(e.job)
    BY <1>4, JobStoreAssumption DEF DeliverEvent, StatusInv, DatedInv, Event, BatchJob
  <2>2. e.at <= batch[e.job].since /\ batch[e.job].since <= now
    BY <2>1 DEF EventDated, RowSettled
  <2>3. e.at <= now /\ ~(e.at > batch[e.job].since)
    BY <2>1, <2>2
  <2>4. \A j \in BatchJobs :
          /\ jobs'[j].seen # None => jobs'[j].seen <= now
          /\ batch[j].state \in Ended =>
               LET since == batch[j].since IN
               /\ SeenAfterIsEnd(jobs'[j], since)
               /\ Resolved(jobs[j], since) => Resolved(jobs'[j], since)
               /\ j = e.job /\ e.state \in Ended /\ e.at >= SecondOf(since)
                    => Resolved(jobs'[j], since)
    BY <1>1, <2>1, <2>3, RecordDated
  <2>5. ASSUME NEW j \in BatchJobs
        PROVE  RowSettled(j)'
    <3>1. RowSettled(j)
      BY DEF DatedInv
    <3>2. ASSUME batch[j].state \in Ended, ~EventsLost, EndTold(j)'
          PROVE  Resolved(jobs'[j], batch[j].since)
      <4>1. CASE e.job = j /\ e.state \in Ended
        <5>1. e.at = SecondOf(batch[j].since) /\ e.at \in Int
          BY <2>1, <4>1 DEF EventDated
        <5>2. QED
          BY <2>4, <3>2, <4>1, <5>1
      <4>2. CASE ~(e.job = j /\ e.state \in Ended)
        <5>1. EndTold(j)
          BY <2>1, <3>2, <4>2 DEF EndTold
        <5>2. QED
          BY <2>4, <3>1, <3>2, <5>1 DEF RowSettled
      <4>3. QED
        BY <4>1, <4>2
    <3>3. QED
      BY <1>1, <2>4, <3>1, <3>2 DEF RowSettled
  <2>6. \A f \in events' : EventDated(f)'
    BY <1>1 DEF DatedInv, EventDated
  <2>7. QED
    BY <1>2, <2>5, <2>6 DEF DatedInv
<1>5. QED
  BY <1>3, <1>4

\* The answer to a refresh is recorded.
LEMMA RecordRefreshDated ==
  ASSUME StatusInv, StatusInv', DatedInv, NEW v \in Viewers, RecordRefresh(v)
  PROVE  DatedInv'
<1>1. /\ Record(viewer[v]) /\ viewer[v].pc = "answered"
      /\ viewer' = [viewer EXCEPT ![v] = IdleCall] /\ UNCHANGED <<now, batch, events>>
  BY DEF RecordRefresh
<1>2. /\ viewer \in [Viewers -> Call] /\ viewer[v] \in Call
      /\ viewer[v].job \in BatchJobs /\ viewer[v].state \in BatchStates
      /\ CallDated(v)
  BY <1>1 DEF StatusInv, DatedInv
<1>3. viewer[v].at \in 0..LastTime
  BY <1>2 DEF Call
<1> DEFINE call == viewer[v]
<1>4. /\ call.at <= now
      /\ batch[call.job].state \in Ended /\ call.at > batch[call.job].since => call.state \in Ended
  BY <1>1, <1>2 DEF CallDated
<1>5. \A j \in BatchJobs :
        /\ jobs'[j].seen # None => jobs'[j].seen <= now
        /\ batch[j].state \in Ended =>
             LET since == batch[j].since IN
             /\ SeenAfterIsEnd(jobs'[j], since)
             /\ Resolved(jobs[j], since) => Resolved(jobs'[j], since)
             /\ j = call.job /\ call.state \in Ended /\ call.at >= SecondOf(since)
                  => Resolved(jobs'[j], since)
  BY <1>1, <1>2, <1>3, <1>4, RecordDated
<1>6. \A j \in BatchJobs : RowSettled(j)'
  <2>1. \A j \in BatchJobs : EndTold(j)' = EndTold(j)
    BY <1>1 DEF EndTold
  <2>2. QED
    BY <1>1, <1>5, <2>1 DEF DatedInv, RowSettled
<1>7. \A e \in events' : EventDated(e)'
  BY <1>1 DEF DatedInv, EventDated
<1>8. \A w \in Viewers : CallDated(w)'
  <2>1. CallDated(v)'
    BY <1>1, <1>2 DEF IdleCall, CallDated
  <2>2. \A w \in Viewers : w # v => viewer'[w] = viewer[w]
    BY <1>1, <1>2
  <2>3. QED
    BY <1>1, <2>1, <2>2, CallStaysDated
<1>9. QED
  BY <1>6, <1>7, <1>8 DEF DatedInv

(***************************************************************************)
(* Theorems                                                                 *)
(***************************************************************************)
\* The runs as they begin: claimed and submitted a moment ago.
LEMMA StatusInitInv == StatusInit => StatusInv
<1> SUFFICES ASSUME StatusInit PROVE StatusInv
  OBVIOUS
<1> DEFINE claimed == Claim(NewRow)
<1>1. /\ NewRow.status = "Pending" /\ NewRow.ext = None /\ ~NewRow.claimed
      /\ GoodRow(NewRow) /\ NewRow \in Row /\ GoodRow(AbsentRow) /\ AbsentRow \in Row
      /\ AbsentRow.status = "Absent"
  BY NewRowGood DEF NewRow, AbsentRow, GoodRow
<1>2. claimed = [NewRow EXCEPT !.claimed = TRUE, !.age = 0]
  BY <1>1 DEF Claim, Claimable, Unlinked
<1>3. GoodRow(claimed) /\ claimed \in Row
  BY <1>1, ClaimGood DEF GoodRow
<1>4. claimed.status = "Pending" /\ claimed.ext = None /\ claimed.claimed
  BY <1>1, <1>2 DEF Row
<1> HIDE DEF claimed
<1>5. jobs = [j \in Jobs |-> IF j \in BatchJobs THEN claimed ELSE AbsentRow]
  BY DEF StatusInit, claimed
<1>6. StoreInv
  BY <1>1, <1>3, <1>4, <1>5, JobStoreAssumption DEF StoreInv
<1>7. \A j \in BatchJobs : RunRow(j, jobs[j], batch[j].state)
  BY <1>4, <1>5 DEF RunRow, Truthful, BatchJobs
<1>8. batch \in [BatchJobs -> BatchJob]
  BY BatchStatusAssumption, JobStoreAssumption DEF StatusInit, BatchJob
<1>9. viewer \in [Viewers -> Call] /\ \A v \in Viewers : viewer[v].pc = "idle"
  BY JobStoreAssumption DEF StatusInit, IdleCall, Call
<1>10. now \in 0..LastTime
  BY JobStoreAssumption DEF StatusInit
<1>11. QED
  BY <1>6, <1>7, <1>8, <1>9, <1>10 DEF StatusInit, StatusInv

\* Every step of AWS Batch, the dispatcher, the updater, the viewers, the users
\* and the watchdogs.
LEMMA StatusStep ==
  ASSUME StatusInv, [StatusNext]_vars
  PROVE  StatusInv' /\ TableStep
<1>1. CASE Clock
  BY <1>1, ClockStep
<1>2. ASSUME NEW j \in BatchJobs,
             BatchJobMoves(j) \/ BindRun(j) \/ CancelRun(j) \/ Watchdog(j)
      PROVE  StatusInv' /\ TableStep
  BY <1>2, BatchJobMovesStep, BindRunStep, CancelRunStep, WatchdogStep
<1>3. ASSUME NEW e \in events, DeliverEvent(e) \/ LoseEvent(e)
      PROVE  StatusInv' /\ TableStep
  BY <1>3, EventStep
<1>4. ASSUME NEW v \in Viewers, NEW j \in BatchJobs, StartRefresh(v, j)
      PROVE  StatusInv' /\ TableStep
  BY <1>4, StartRefreshStep
<1>5. ASSUME NEW v \in Viewers, DescribeJobs(v) \/ RecordRefresh(v) \/ AbandonRefresh(v)
      PROVE  StatusInv' /\ TableStep
  BY <1>5, DescribeJobsStep, RefreshEndsStep
<1>6. ASSUME NEW r \in stopping, StopAnswered(r)
      PROVE  StatusInv' /\ TableStep
  BY <1>6, StopStep
<1>7. CASE UNCHANGED vars
  BY <1>7 DEF vars, StatusInv, StoreInv, TableStep, GoodStep, BatchStep
<1>8. QED
  BY <1>1, <1>2, <1>3, <1>4, <1>5, <1>6, <1>7 DEF StatusNext

\* StatusInv is an invariant.
THEOREM StatusInvariant == StatusSpec => []StatusInv
<1>1. StatusInv /\ [StatusNext]_vars => StatusInv'
  BY StatusStep
<1>2. QED
  BY StatusInitInv, <1>1, PTL DEF StatusSpec

\* Every reachable state is well typed: among others no event is dated outside
\* the clock, and no Batch job is attempted more often than allowed.
THEOREM StatusTypeCorrect == StatusSpec => []StatusTypeOK
<1>1. StatusInv => StatusTypeOK
  BY DEF StatusInv, StoreInv, StatusTypeOK, TypeOK
<1>2. QED
  BY StatusInvariant, <1>1, PTL

\* Whatever stale, repeated and reordered events and refreshes reach the table,
\* and whatever cancellations and watchdogs do meanwhile, a finished run says
\* what became of its Batch job (record_batch_details, request_job_cancellation).
THEOREM OutcomesTruthful == StatusSpec => []TruthfulOutcome
<1>1. StatusInv => TruthfulOutcome
  BY DEF StatusInv, RunRow, Truthful, TruthfulOutcome
<1>2. QED
  BY StatusInvariant, <1>1, PTL

\* Dates stay in order, whatever happens.
LEMMA DatedStep ==
  ASSUME StatusInv, StatusInv', DatedInv, TableStep, [StatusNext]_vars
  PROVE  DatedInv'
<1>1. CASE Clock
  BY <1>1, ClockDated
<1>2. ASSUME NEW j \in BatchJobs,
             BatchJobMoves(j) \/ BindRun(j) \/ CancelRun(j) \/ Watchdog(j)
      PROVE  DatedInv'
  BY <1>2, BatchJobMovesDated, HandlerDated
<1>3. ASSUME NEW e \in events, DeliverEvent(e) \/ LoseEvent(e)
      PROVE  DatedInv'
  BY <1>3, EventStepDated
<1>4. ASSUME NEW v \in Viewers, NEW j \in BatchJobs, StartRefresh(v, j)
      PROVE  DatedInv'
  BY <1>4, RefreshDated
<1>5. ASSUME NEW v \in Viewers, DescribeJobs(v) \/ RecordRefresh(v) \/ AbandonRefresh(v)
      PROVE  DatedInv'
  BY <1>5, RefreshDated, RecordRefreshDated
<1>6. ASSUME NEW r \in stopping, StopAnswered(r)
      PROVE  DatedInv'
  BY <1>6, StopDated
<1>7. CASE UNCHANGED vars
  BY <1>7 DEF vars, DatedInv, RowSettled, EndTold, EventDated, CallDated
<1>8. QED
  BY <1>1, <1>2, <1>3, <1>4, <1>5, <1>6, <1>7 DEF StatusNext

\* Whatever order, repetition or delay the events of a run have, and whatever is lost of
\* the earlier ones: once the event of the end is through, the run is finished in the
\* table, or a refresh of the second of the end and before it is on record (the updater's
\* _forward_status, record_batch_details, refresh_job).
THEOREM OutcomesRecorded == StatusSpec => []OutcomeRecorded
<1>1. StatusInit => DatedInv
  <2> SUFFICES ASSUME StatusInit PROVE DatedInv
    OBVIOUS
  <2>1. /\ events = {} /\ now = 0 /\ \A v \in Viewers : viewer[v].pc = "idle"
        /\ \A j \in BatchJobs : batch[j].state = "RUNNABLE" /\ batch[j].since = 0
    BY DEF StatusInit, IdleCall
  <2>2. \A j \in BatchJobs : jobs[j].seen = None
    BY DEF StatusInit, Claim, NewRow, AbsentRow, BatchJobs
  <2>3. QED
    BY <2>1, <2>2 DEF DatedInv, RowSettled, EventDated, CallDated, Ended
<1>2. StatusInv /\ StatusInv' /\ DatedInv /\ [StatusNext]_vars => DatedInv'
  BY StatusStep, DatedStep
<1>3. DatedInv => OutcomeRecorded
  BY DEF DatedInv, RowSettled, Resolved, OvertakenRow, Overtaken, OutcomeRecorded
<1>4. QED
  BY StatusInvariant, <1>1, <1>2, <1>3, PTL DEF StatusSpec

\* Whoever reports, asks or scans: a run keeps its external id and its claim, a
\* cancelled run is not revived and a finished one keeps its outcome.
THEOREM StatusRowsFinal ==
  StatusSpec => LinkStable /\ ClaimedOnce /\ CancelledIsFinal /\ FinishedIsFinal
<1>1. StatusInv /\ [StatusNext]_vars => TableStep
  BY StatusStep
<1>2. TableStep => [\A j \in Jobs : jobs[j].ext # None => jobs'[j].ext = jobs[j].ext]_jobs
  BY DEF TableStep, GoodStep
<1>3. TableStep => [\A j \in Jobs : jobs[j].claimed => jobs'[j].claimed]_jobs
  BY DEF TableStep, GoodStep
<1>4. TableStep => [\A j \in Jobs : jobs[j].status = "Cancelled" => jobs'[j].status = "Cancelled"]_jobs
  BY DEF TableStep, GoodStep
<1>5. TableStep => [\A j \in BatchJobs :
                      jobs[j].status \in Finished => jobs'[j].status = jobs[j].status]_jobs
  BY DEF TableStep, BatchStep
<1>6. QED
  BY StatusInvariant, <1>1, <1>2, <1>3, <1>4, <1>5, PTL
  DEF StatusSpec, LinkStable, ClaimedOnce, CancelledIsFinal, FinishedIsFinal
=============================================================================
