--------------------------- MODULE JobStoreProofs ---------------------------
(***************************************************************************)
(* Theorems about JobStore, for every set of jobs and every timeout.        *)
(*                                                                          *)
(* A handler rewrites one row, so everything is proved a row at a time:     *)
(* each handler turns a good row into a good row (GoodRow) and takes an     *)
(* allowed step (GoodStep).  The invariants and the action properties of    *)
(* the module are those two, over all rows.                                 *)
(***************************************************************************)
EXTENDS JobStore, TLAPS

\* A row of the right type that satisfies the three invariants of JobStore.
GoodRow(row) ==
  /\ row \in Row
  /\ row.status = "Dispatch unknown" => row.ext = None
  /\ row.status = "Dispatch unknown" <=> row.reason = "unresolved"
  /\ row.status = "Cancelling" => row.cancelAge # None
  /\ row.status = "Absent" => row.ext = None /\ ~row.claimed

\* What no handler may do to a row: unlink it, give its claim back, or revive
\* it after a cancellation.
GoodStep(old, new) ==
  /\ old.ext # None => new.ext = old.ext
  /\ old.claimed => new.claimed
  /\ old.status = "Cancelled" => new.status = "Cancelled"

\* Only expiry makes a row unresolved, and local runs do not expire.
LocalStep(old, new) ==
  new.status = "Dispatch unknown" => old.status = "Dispatch unknown"

\* What the handlers for Batch runs may not do either: change an outcome, or go to a
\* status that the pages do not reckon with.
BatchStep(old, new) ==
  /\ old.status \in Finished => new.status = old.status
  /\ old.status # "Absent" => new.status \in {old.status} \cup Becomes[old.status]

\* The invariant that is proved of the table.
StoreInv ==
  /\ jobs \in [Jobs -> Row]
  /\ \A j \in Jobs : GoodRow(jobs[j])
  /\ \A j \in LocalJobs : jobs[j].status # "Dispatch unknown"

\* The steps between statuses, one by one.
LEMMA StatusesFollow ==
  /\ Becomes["Pending"] = JobStatus \ {"Pending"}
  /\ Becomes["Dispatch unknown"] = {"Pending", "Failed", "Cancelling"}
  /\ Becomes["Running"] = {"Pending", "Completed", "Failed", "Cancelling"}
  /\ Becomes["Cancelling"] = {"Pending", "Running", "Completed", "Cancelled"}
  BY DEF Becomes, JobStatus

\* Every entry of StatusMap is a status an observation may set.
LEMMA StatusMapType ==
  ASSUME NEW s \in BatchStates
  PROVE  StatusMap[s] \in {"Pending", "Running", "Completed", "Failed"}
  BY DEF StatusMap, BatchStates

\* The row before and after create_job.
LEMMA NewRowGood == GoodRow(AbsentRow) /\ GoodRow(NewRow)
<1>1. AbsentRow \in Row
  BY JobStoreAssumption DEF AbsentRow, Row, JobStatus, Reasons
<1>2. NewRow \in Row
  BY <1>1 DEF NewRow, Row, JobStatus
<1>3. QED
  BY <1>1, <1>2 DEF GoodRow, NewRow, AbsentRow

\* Expiry, as the watchdog and claim_dispatch do it.
LEMMA ExpireGood ==
  ASSUME NEW row, GoodRow(row)
  PROVE  GoodRow(Expire(row)) /\ GoodStep(row, Expire(row)) /\ BatchStep(row, Expire(row))
  BY StatusesFollow
  DEF GoodRow, GoodStep, BatchStep, Row, Expire, Overdue, Unlinked, JobStatus,
         Reasons, Finished

\* The claim itself.
LEMMA ClaimGood ==
  ASSUME NEW row, GoodRow(row)
  PROVE  GoodRow(Claim(row)) /\ GoodStep(row, Claim(row)) /\ LocalStep(row, Claim(row)) /\ BatchStep(row, Claim(row))
<1>1. 0 \in 0..DispatchTimeout
  BY JobStoreAssumption
<1>2. QED
  BY <1>1 DEF GoodRow, GoodStep, LocalStep, BatchStep, Row, Claim, Claimable, Unlinked, Finished

\* fail_dispatch.
LEMMA RejectGood ==
  ASSUME NEW row, GoodRow(row)
  PROVE  GoodRow(Reject(row)) /\ GoodStep(row, Reject(row)) /\ BatchStep(row, Reject(row))
  BY StatusesFollow DEF GoodRow, GoodStep, BatchStep, Row, Reject, JobStatus, Reasons, Finished

\* bind_external_job_id.
LEMMA BindGood ==
  ASSUME NEW row, GoodRow(row), row.status # "Absent", NEW x \in ExternalIds
  PROVE  GoodRow(Bind(row, x)) /\ GoodStep(row, Bind(row, x)) /\ BatchStep(row, Bind(row, x))
  BY JobStoreAssumption, StatusesFollow
  DEF GoodRow, GoodStep, BatchStep, Row, Bind, JobStatus, Reasons, Finished

\* request_job_cancellation.
LEMMA RequestCancelGood ==
  ASSUME NEW row, GoodRow(row)
  PROVE  /\ GoodRow(RequestCancel(row))
         /\ GoodStep(row, RequestCancel(row)) /\ LocalStep(row, RequestCancel(row))
         /\ BatchStep(row, RequestCancel(row))
<1>1. 0 \in 0..CancelTimeout /\ 0 # None
  BY JobStoreAssumption
<1>2. QED
  BY <1>1, StatusesFollow DEF GoodRow, GoodStep, LocalStep, BatchStep, Row, RequestCancel, Stops, Claimable, Unlinked,
      JobStatus, Reasons, Finished

\* complete_local_cancellation.
LEMMA CompleteCancelGood ==
  ASSUME NEW row, GoodRow(row)
  PROVE  GoodRow(CompleteCancel(row)) /\ GoodStep(row, CompleteCancel(row)) /\ LocalStep(row, CompleteCancel(row))
  BY DEF GoodRow, GoodStep, LocalStep, Row, CompleteCancel, JobStatus, Reasons

\* record_cancellation_failure.
LEMMA RevertCancelGood ==
  ASSUME NEW row, GoodRow(row)
  PROVE  /\ GoodRow(RevertCancel(row))
         /\ GoodStep(row, RevertCancel(row)) /\ LocalStep(row, RevertCancel(row))
         /\ BatchStep(row, RevertCancel(row))
  BY StatusesFollow DEF GoodRow, GoodStep, LocalStep, BatchStep, Row, RevertCancel, JobStatus, Reasons, Finished

\* record_batch_details, which finds the row by its external id.
LEMMA ObserveGood ==
  ASSUME NEW row, GoodRow(row), row.status # "Absent", row.ext # None,
         NEW s \in BatchStates, NEW t \in 0..LastTime
  PROVE  /\ GoodRow(Observe(row, s, t))
         /\ GoodStep(row, Observe(row, s, t))
         /\ BatchStep(row, Observe(row, s, t))
<1> DEFINE new == StatusMap[s]
<1>1. new \in {"Pending", "Running", "Completed", "Failed"}
  BY StatusMapType
<1> HIDE DEF new
<1> DEFINE old == row.seen # None /\ t < row.seen
<1> HIDE DEF old
<1>2. Observe(row, s, t) =
        IF old \/ (row.status \in Finished /\ new # row.status)
        THEN row
        ELSE IF row.status = "Cancelling" /\ new = "Failed"
        THEN [row EXCEPT !.status = "Cancelled", !.cancelAge = None,
                         !.reason = "confirmed", !.seen = t]
        ELSE [row EXCEPT !.status = new, !.reason = "batch", !.seen = t]
  BY DEF Observe, ObservationDropped, new, old
<1>3. CASE old \/ (row.status \in Finished /\ new # row.status)
  BY <1>2, <1>3 DEF GoodStep, BatchStep
<1>4. CASE ~(old \/ (row.status \in Finished /\ new # row.status))
  <2>1. CASE row.status = "Cancelling" /\ new = "Failed"
    <3>1. GoodRow(Observe(row, s, t)) /\ GoodStep(row, Observe(row, s, t))
      BY <1>2, <1>4, <2>1 DEF GoodRow, GoodStep, Row, JobStatus, Reasons, Finished
    <3>2. Observe(row, s, t).status = "Cancelled"
      BY <1>2, <1>4, <2>1 DEF GoodRow, Row
    <3>3. QED
      BY <2>1, <3>1, <3>2, StatusesFollow DEF BatchStep, Finished
  <2>2. CASE ~(row.status = "Cancelling" /\ new = "Failed")
    <3>1. GoodRow(Observe(row, s, t)) /\ GoodStep(row, Observe(row, s, t))
      BY <1>1, <1>2, <1>4, <2>2 DEF GoodRow, GoodStep, Row, JobStatus, Reasons, Finished
    <3>2. Observe(row, s, t).status = new
      BY <1>2, <1>4, <2>2 DEF GoodRow, Row
    <3>3. row.status \in JobStatus \ {"Dispatch unknown"}
      BY DEF GoodRow, Row
    <3>4. QED
      BY <1>1, <1>4, <2>2, <3>1, <3>2, <3>3, StatusesFollow DEF BatchStep, Finished, JobStatus
  <2>3. QED
    BY <2>1, <2>2
<1>5. QED
  BY <1>3, <1>4

\* update_job_status.  Only local runs are reported this way, and a local run
\* is never unresolved.
LEMMA ReportGood ==
  ASSUME NEW row, GoodRow(row), row.status # "Dispatch unknown",
         NEW status \in {"Running", "Completed", "Failed"}
  PROVE  GoodRow(Report(row, status)) /\ GoodStep(row, Report(row, status)) /\ LocalStep(row, Report(row, status))
  BY DEF GoodRow, GoodStep, LocalStep, Row, Report, JobStatus, Reasons

\* An age stays within its timeout.
LEMMA OlderBounded ==
  ASSUME NEW limit \in Nat, NEW age \in 0..limit
  PROVE  Older(age, limit) \in 0..limit
  BY DEF Older

\* The clock.
LEMMA AgedGood ==
  ASSUME NEW row, GoodRow(row)
  PROVE  GoodRow(Aged(row)) /\ GoodStep(row, Aged(row)) /\ LocalStep(row, Aged(row)) /\ BatchStep(row, Aged(row))
<1> DEFINE age    == Older(row.age, DispatchTimeout)
           cancel == Older(row.cancelAge, CancelTimeout)
<1>1. age \in 0..DispatchTimeout
  <2>1. row.age \in 0..DispatchTimeout
    BY DEF GoodRow, Row
  <2>2. QED
    BY <2>1, OlderBounded, JobStoreAssumption
<1>2. row.status = "Cancelling" => cancel \in 0..CancelTimeout /\ cancel # None
  <2>1. row.status = "Cancelling" => row.cancelAge \in 0..CancelTimeout
    BY DEF GoodRow, Row
  <2>2. QED
    BY <2>1, OlderBounded, JobStoreAssumption
<1>3. Aged(row) = IF Unlinked(row) THEN [row EXCEPT !.age = age]
                  ELSE IF row.status = "Cancelling"
                  THEN [row EXCEPT !.cancelAge = cancel] ELSE row
  BY DEF Aged
<1> HIDE DEF age, cancel
<1>4. CASE Unlinked(row)
  BY <1>1, <1>3, <1>4 DEF GoodRow, GoodStep, LocalStep, BatchStep, Row, Unlinked, Finished
<1>5. CASE ~Unlinked(row) /\ row.status = "Cancelling"
  BY <1>2, <1>3, <1>5 DEF GoodRow, GoodStep, LocalStep, BatchStep, Row, Finished
<1>6. CASE ~Unlinked(row) /\ row.status # "Cancelling"
  BY <1>3, <1>6 DEF GoodStep, LocalStep, BatchStep
<1>7. QED
  BY <1>4, <1>5, <1>6

\* reconcile_cancellations.
LEMMA FlagGood ==
  ASSUME NEW row, GoodRow(row), row.status = "Cancelling"
  PROVE  LET new == [row EXCEPT !.reason = "unconfirmed"] IN
           GoodRow(new) /\ GoodStep(row, new) /\ LocalStep(row, new) /\ BatchStep(row, new)
  BY DEF GoodRow, GoodStep, LocalStep, BatchStep, Row, Reasons, Finished

(***************************************************************************)
(* From rows to the table                                                   *)
(***************************************************************************)
\* A step of the table: every row takes a good step, rows of Batch runs one
\* that keeps their outcome, and rows of local runs one that is no expiry.
TableStep ==
  /\ \A j \in Jobs : GoodStep(jobs[j], jobs'[j])
  /\ \A j \in BatchJobs : BatchStep(jobs[j], jobs'[j])

\* One row replaced by a good one.
LEMMA UpdateGood ==
  ASSUME StoreInv, NEW j \in Jobs, NEW row, jobs' = [jobs EXCEPT ![j] = row],
         GoodRow(row), GoodStep(jobs[j], row),
         j \in LocalJobs => LocalStep(jobs[j], row),
         j \in BatchJobs => BatchStep(jobs[j], row)
  PROVE  StoreInv' /\ TableStep
<1>1. row \in Row
  BY DEF GoodRow
<1>2. /\ jobs' \in [Jobs -> Row]
      /\ jobs'[j] = row
      /\ \A i \in Jobs : i # j => jobs'[i] = jobs[i]
  BY <1>1 DEF StoreInv
<1>3. \A i \in Jobs : GoodRow(jobs'[i])
  BY <1>2 DEF StoreInv
<1>4. \A i \in LocalJobs : jobs'[i].status # "Dispatch unknown"
  BY <1>2, JobStoreAssumption DEF StoreInv, LocalStep
<1>5. TableStep
  BY <1>2 DEF TableStep, GoodStep, BatchStep, BatchJobs
<1>6. QED
  BY <1>2, <1>3, <1>4, <1>5 DEF StoreInv

\* Creating a run.
LEMMA CreateJobStep ==
  ASSUME StoreInv, NEW j \in Jobs, CreateJob(j)
  PROVE  StoreInv' /\ TableStep
<1>1. jobs[j].status = "Absent" /\ jobs[j].ext = None /\ ~jobs[j].claimed
  BY DEF CreateJob, Exists, StoreInv, GoodRow
<1>2. GoodStep(jobs[j], NewRow) /\ LocalStep(jobs[j], NewRow) /\ BatchStep(jobs[j], NewRow)
  BY <1>1 DEF GoodStep, LocalStep, BatchStep, Finished, NewRow, AbsentRow
<1>3. QED
  BY <1>2, NewRowGood, UpdateGood DEF CreateJob

\* The handlers called for both kinds of run.
LEMMA AnyCallStep ==
  ASSUME StoreInv, NEW j \in Jobs, AnyCall(j)
  PROVE  StoreInv' /\ TableStep
<1> GoodRow(jobs[j])
  BY DEF StoreInv
<1>1. CASE CreateJob(j)
  BY <1>1, CreateJobStep
<1>2. CASE RequestJobCancellation(j)
  BY <1>2, RequestCancelGood, UpdateGood DEF RequestJobCancellation, Update
<1>3. CASE RecordCancellationFailure(j)
  BY <1>3, RevertCancelGood, UpdateGood DEF RecordCancellationFailure, Update
<1>4. CASE ReconcileCancellation(j)
  BY <1>4, FlagGood, UpdateGood DEF ReconcileCancellation, Update
<1>5. QED
  BY <1>1, <1>2, <1>3, <1>4 DEF AnyCall

\* A claim expires the row first; both halves are good steps.
LEMMA ClaimDispatchStep ==
  ASSUME StoreInv, NEW j \in BatchJobs, ClaimDispatch(j)
  PROVE  StoreInv' /\ TableStep
<1> DEFINE expired == Expire(jobs[j])
           row     == Claim(expired)
<1>1. j \in Jobs /\ j \notin LocalJobs /\ GoodRow(jobs[j])
  BY DEF StoreInv, BatchJobs
<1>2. GoodRow(expired) /\ GoodStep(jobs[j], expired) /\ BatchStep(jobs[j], expired)
  BY <1>1, ExpireGood
<1>3. GoodRow(row) /\ GoodStep(expired, row) /\ BatchStep(expired, row)
  BY <1>2, ClaimGood
<1>4. GoodStep(jobs[j], row) /\ BatchStep(jobs[j], row)
  <2>1. row.status = expired.status
    <3>1. expired \in Row
      BY <1>2 DEF GoodRow
    <3>2. QED
      BY <3>1 DEF Claim, Row
  <2>2. QED
    BY <1>2, <1>3, <2>1 DEF GoodStep, BatchStep
<1>5. jobs' = [jobs EXCEPT ![j] = row]
  BY DEF ClaimDispatch, Update
<1> HIDE DEF expired, row
<1>6. QED
  BY <1>1, <1>3, <1>4, <1>5, UpdateGood

\* The handlers called for Batch runs.
LEMMA BatchCallStep ==
  ASSUME StoreInv, NEW j \in BatchJobs, BatchCall(j)
  PROVE  StoreInv' /\ TableStep
<1> j \in Jobs /\ j \notin LocalJobs /\ GoodRow(jobs[j])
  BY DEF StoreInv, BatchJobs
<1>1. CASE ClaimDispatch(j)
  BY <1>1, ClaimDispatchStep
<1>2. CASE FailDispatch(j)
  BY <1>2, RejectGood, UpdateGood DEF FailDispatch, Update
<1>3. ASSUME NEW x \in ExternalIds, BindExternalJobId(j, x)
      PROVE  StoreInv' /\ TableStep
  BY <1>3, BindGood, UpdateGood DEF BindExternalJobId, Update, Exists
<1>4. ASSUME jobs[j].ext # None, NEW s \in BatchStates, NEW t \in 0..LastTime,
             RecordBatchDetails(j, s, t)
      PROVE  StoreInv' /\ TableStep
  BY <1>4, ObserveGood, UpdateGood DEF RecordBatchDetails, Update, Exists
<1>5. CASE ExpireUnlinkedDispatch(j)
  BY <1>5, ExpireGood, UpdateGood DEF ExpireUnlinkedDispatch, Update
<1>6. QED
  BY <1>1, <1>2, <1>3, <1>4, <1>5 DEF BatchCall

\* The handlers called for local runs.
LEMMA LocalCallStep ==
  ASSUME StoreInv, NEW j \in LocalJobs, LocalCall(j)
  PROVE  StoreInv' /\ TableStep
<1> /\ j \in Jobs /\ j \notin BatchJobs /\ GoodRow(jobs[j])
    /\ jobs[j].status # "Dispatch unknown"
  BY JobStoreAssumption DEF StoreInv, BatchJobs
<1>1. CASE ClaimScheduledDispatch(j)
  BY <1>1, ClaimGood, UpdateGood DEF ClaimScheduledDispatch, Update
<1>2. ASSUME NEW status \in {"Running", "Completed", "Failed"}, UpdateJobStatus(j, status)
      PROVE  StoreInv' /\ TableStep
  BY <1>2, ReportGood, UpdateGood DEF UpdateJobStatus, Update
<1>3. CASE CompleteLocalCancellation(j)
  BY <1>3, CompleteCancelGood, UpdateGood DEF CompleteLocalCancellation, Update
<1>4. QED
  BY <1>1, <1>2, <1>3 DEF LocalCall

\* The clock moves every row at once.
LEMMA TickStep ==
  ASSUME StoreInv, Tick
  PROVE  StoreInv' /\ TableStep
<1>1. \A j \in Jobs : jobs'[j] = Aged(jobs[j]) /\ GoodRow(jobs[j])
  BY DEF Tick, StoreInv
<1>2. \A j \in Jobs : /\ GoodRow(jobs'[j])
                      /\ GoodStep(jobs[j], jobs'[j])
                      /\ LocalStep(jobs[j], jobs'[j])
                      /\ BatchStep(jobs[j], jobs'[j])
  BY <1>1, AgedGood
<1>3. \A j \in Jobs : jobs'[j] \in Row
  BY <1>2 DEF GoodRow
<1>4. jobs' \in [Jobs -> Row]
  BY <1>3 DEF Tick
<1>5. QED
  BY <1>2, <1>4, JobStoreAssumption DEF StoreInv, TableStep, LocalStep, BatchJobs

\* Every step of the table, whoever takes it.
LEMMA NextStep ==
  ASSUME StoreInv, [Next]_jobs
  PROVE  StoreInv' /\ TableStep
<1>1. CASE Tick
  BY <1>1, TickStep
<1>2. ASSUME NEW j \in Jobs, AnyCall(j)
      PROVE  StoreInv' /\ TableStep
  BY <1>2, AnyCallStep
<1>3. ASSUME NEW j \in BatchJobs, BatchCall(j)
      PROVE  StoreInv' /\ TableStep
  BY <1>3, BatchCallStep
<1>4. ASSUME NEW j \in LocalJobs, LocalCall(j)
      PROVE  StoreInv' /\ TableStep
  BY <1>4, LocalCallStep
<1>5. CASE UNCHANGED jobs
  BY <1>5 DEF StoreInv, TableStep, GoodStep, BatchStep
<1>6. QED
  BY <1>1, <1>2, <1>3, <1>4, <1>5 DEF Next

\* The empty table.
LEMMA InitGood == Init => StoreInv
<1>1. GoodRow(AbsentRow) /\ AbsentRow \in Row /\ AbsentRow.status = "Absent"
  BY NewRowGood DEF GoodRow, AbsentRow
<1>2. QED
  BY <1>1, JobStoreAssumption DEF Init, StoreInv

\* StoreInv is an invariant.
THEOREM StoreInvariant == Spec => []StoreInv
<1>1. StoreInv /\ [Next]_jobs => StoreInv'
  BY NextStep
<1>2. QED
  BY InitGood, <1>1, PTL DEF Spec

\* Every row always has its type.
THEOREM TypeCorrect == Spec => []TypeOK
<1>1. StoreInv => TypeOK
  BY DEF StoreInv, TypeOK
<1>2. QED
  BY StoreInvariant, <1>1, PTL

\* No handler, in any order and from any caller, leaves a linked run unresolved
\* (bind_external_job_id, expire_dispatch).
THEOREM LinkedRunsKnown == Spec => []LinkedNeverUnknown
<1>1. StoreInv => LinkedNeverUnknown
  BY DEF StoreInv, GoodRow, LinkedNeverUnknown
<1>2. QED
  BY StoreInvariant, <1>1, PTL

\* An unresolved run has its explanation and no other run has it: no handler
\* that moves the run on leaves the text behind.
THEOREM UnresolvedRunsExplained == Spec => []UnresolvedExplained
<1>1. StoreInv => UnresolvedExplained
  BY DEF StoreInv, GoodRow, UnresolvedExplained
<1>2. QED
  BY StoreInvariant, <1>1, PTL

\* Every run being cancelled is found by reconcile_cancellations once its time
\* is over, whatever handlers came in between.
THEOREM CancellingRunsSeen == Spec => []CancellingIsTimed
<1>1. StoreInv => CancellingIsTimed
  BY DEF StoreInv, GoodRow, CancellingIsTimed
<1>2. QED
  BY StoreInvariant, <1>1, PTL

\* A run keeps its external id: no handler, scan or late answer links it to another job.
THEOREM LinksStable == Spec => LinkStable
<1>1. StoreInv /\ [Next]_jobs
        => [\A j \in Jobs : jobs[j].ext # None => jobs'[j].ext = jobs[j].ext]_jobs
  BY NextStep DEF TableStep, GoodStep
<1>2. QED
  BY StoreInvariant, <1>1, PTL DEF Spec, LinkStable

\* A run that is claimed stays claimed, so that no second invocation submits it.
THEOREM ClaimsStable == Spec => ClaimedOnce
<1>1. StoreInv /\ [Next]_jobs => [\A j \in Jobs : jobs[j].claimed => jobs'[j].claimed]_jobs
  BY NextStep DEF TableStep, GoodStep
<1>2. QED
  BY StoreInvariant, <1>1, PTL DEF Spec, ClaimedOnce

\* Whatever is called, in any order, a Batch run moves between statuses only as the
\* pages expect: its stop is never recorded as a failure, and what is unresolved is
\* bound, failed or cancelled, never simply run.
THEOREM StatusesMove == Spec => StatusMoves
<1>1. StoreInv /\ [Next]_jobs
        => [\A j \in BatchJobs :
              Exists(j) => jobs'[j].status \in {jobs[j].status} \cup Becomes[jobs[j].status]]_jobs
  BY NextStep DEF TableStep, BatchStep, Exists
<1>2. QED
  BY StoreInvariant, <1>1, PTL DEF Spec, StatusMoves

\* A cancelled run is never revived, whichever runner it has.
THEOREM CancellationFinal == Spec => CancelledIsFinal
<1>1. StoreInv /\ [Next]_jobs
        => [\A j \in Jobs : jobs[j].status = "Cancelled" => jobs'[j].status = "Cancelled"]_jobs
  BY NextStep DEF TableStep, GoodStep
<1>2. QED
  BY StoreInvariant, <1>1, PTL DEF Spec, CancelledIsFinal

\* No late event, retry or watchdog scan changes the outcome of a Batch run.
THEOREM OutcomeFinal == Spec => FinishedIsFinal
<1>1. StoreInv /\ [Next]_jobs
        => [\A j \in BatchJobs :
              jobs[j].status \in Finished => jobs'[j].status = jobs[j].status]_jobs
  BY NextStep DEF TableStep, BatchStep
<1>2. QED
  BY StoreInvariant, <1>1, PTL DEF Spec, FinishedIsFinal
=============================================================================
