------------------------------ MODULE JobStore ------------------------------
(***************************************************************************)
(* The jobs table and the handlers that change a row of it: the methods of  *)
(* PostgresJobDatabase in                                                   *)
(* cwms_batch_events/core/job_database/postgres/postgres.py and the two     *)
(* watchdog scans of core/maintenance.py.                                   *)
(*                                                                          *)
(* Every handler takes the row's lock (SELECT ... FOR UPDATE) before it     *)
(* reads and commits once, so each one is a single step.  The module fixes  *)
(* what a handler does to a row, not who calls it: here any caller may call *)
(* any handler at any time.  Dispatch and BatchStatus add the callers.      *)
(*                                                                          *)
(* Left out: columns nothing reads back to decide anything (run_time,       *)
(* end_time, the control audit), the reason a user types, and permissions.  *)
(***************************************************************************)
EXTENDS Integers, RunStatus

CONSTANTS
  Jobs,             \* application job ids
  LocalJobs,        \* the jobs whose runner is docker-local
  ExternalIds,      \* AWS Batch job ids
  None,             \* a column that is NULL
  DispatchTimeout,  \* DISPATCH_TIMEOUT_MINUTES, in ticks of the clock
  CancelTimeout,    \* CANCELLATION_TIMEOUT_MINUTES, in ticks of the clock
  LastTime          \* bound: Batch observations carry a time in 0..LastTime

ASSUME JobStoreAssumption ==
  /\ LocalJobs \subseteq Jobs
  /\ None \notin ExternalIds
  /\ None \notin Int
  /\ DispatchTimeout \in Nat \ {0}
  /\ CancelTimeout \in Nat \ {0}
  /\ LastTime \in Nat

VARIABLE jobs       \* the table: one row for each job id

BatchJobs == Jobs \ LocalJobs

(***************************************************************************)
(* Rows.  A row is "Absent" until create_job inserts it.                    *)
(***************************************************************************)
Finished == {"Completed", "Failed", "Cancelled"}

\* STATUS_MAP: what AWS Batch reports, as an application status.
BatchStates == {"SUBMITTED", "PENDING", "RUNNABLE", "STARTING", "RUNNING",
                "SUCCEEDED", "FAILED"}

StatusMap == [s \in BatchStates |->
  CASE s = "RUNNING"   -> "Running"
    [] s = "SUCCEEDED" -> "Completed"
    [] s = "FAILED"    -> "Failed"
    [] OTHER           -> "Pending"]

\* batch_status_reason, reduced to who wrote it last.
Reasons == {"none", "user", "rejected", "unresolved", "refused",
            "unconfirmed", "confirmed", "batch"}

Row == [
  status:    JobStatus \cup {"Absent"},
  ext:       ExternalIds \cup {None},        \* external_job_id
  claimed:   BOOLEAN,                        \* dispatch_claimed_at is set
  age:       0..DispatchTimeout,             \* since the claim, or creation
  cancelAge: 0..CancelTimeout \cup {None},   \* since cancellation_requested_at
  reason:    Reasons,
  seen:      0..LastTime \cup {None}]        \* batch_details_time

AbsentRow == [status |-> "Absent", ext |-> None, claimed |-> FALSE, age |-> 0,
              cancelAge |-> None, reason |-> "none", seen |-> None]

Exists(j) == jobs[j].status # "Absent"

\* Nothing says yet whether this run reached AWS Batch.
Unlinked(row) == row.status = "Pending" /\ row.ext = None

\* Every handler works on a row that exists and writes that row only.
Update(j, row) ==
  /\ Exists(j)
  /\ jobs' = [jobs EXCEPT ![j] = row]

(***************************************************************************)
(* Dispatch                                                                 *)
(***************************************************************************)
NewRow == [AbsentRow EXCEPT !.status = "Pending"]

CreateJob(j) ==
  /\ ~Exists(j)
  /\ jobs' = [jobs EXCEPT ![j] = NewRow]

\* Mutants of Overdue: a linked row expires too; only a claimed row does.
OverdueLinked(row) == row.status = "Pending" /\ row.age = DispatchTimeout
OverdueClaimed(row) == Unlinked(row) /\ row.claimed /\ row.age = DispatchTimeout

Overdue(row) == Unlinked(row) /\ row.age = DispatchTimeout

\* Mutant of Expire: the claim is given back.
ExpireReleasing(row) ==
  IF Overdue(row)
  THEN [row EXCEPT !.status = "Dispatch unknown", !.reason = "unresolved",
                   !.claimed = FALSE]
  ELSE row

\* expire_dispatch: an expired dispatch is unresolved, it has not failed.
Expire(row) ==
  IF Overdue(row)
  THEN [row EXCEPT !.status = "Dispatch unknown", !.reason = "unresolved"]
  ELSE row

\* Mutants of Claimable: a claimed row is claimed again; a cancelled one is.
ClaimableAgain(row) == Unlinked(row)
ClaimableCancelled(row) ==
  row.status \in {"Pending", "Cancelled"} /\ row.ext = None /\ ~row.claimed

Claimable(row) == Unlinked(row) /\ ~row.claimed

Claim(row) ==
  IF Claimable(row) THEN [row EXCEPT !.claimed = TRUE, !.age = 0] ELSE row

\* An overdue row is expired first and then no longer claimable.  The answer
\* to the caller is whether the claim was granted.
ClaimGranted(j) == Claimable(Expire(jobs[j]))

ClaimDispatch(j) == Update(j, Claim(Expire(jobs[j])))

\* claim_scheduled_dispatch, which the local executor calls: no expiry here.
ClaimScheduledDispatch(j) == Update(j, Claim(jobs[j]))

\* A late failure callback never overwrites a linked or finished run.
Reject(row) ==
  IF row.ext = None /\ row.status \in {"Pending", "Dispatch unknown"}
  THEN [row EXCEPT !.status = "Failed", !.reason = "rejected"]
  ELSE row

FailDispatch(j) == Update(j, Reject(jobs[j]))

\* A second, different id is refused with an error.
BindAccepted(j, x) == jobs[j].ext \in {None, x}

\* Mutants of Bind: the explanation stays; a later id replaces the first.
BindUnexplained(row, x) ==
  IF row.ext # None THEN row
  ELSE [row EXCEPT !.ext = x,
                   !.status = IF @ = "Dispatch unknown" THEN "Pending" ELSE @]
BindAgain(row, x) == [row EXCEPT !.ext = x]

Bind(row, x) ==
  IF row.ext # None
  THEN row
  ELSE IF row.status = "Dispatch unknown"
  THEN [row EXCEPT !.ext = x, !.status = "Pending", !.reason = "none"]
  ELSE [row EXCEPT !.ext = x]

BindExternalJobId(j, x) == Update(j, Bind(jobs[j], x))

(***************************************************************************)
(* Cancellation.  request_job_cancellation has four outcomes; only Stops    *)
(* makes the router call the runner.                                        *)
(***************************************************************************)
\* already_finished and already_requested change nothing, and neither does
\* the 409 for a dispatch in progress.
Stops(row) ==
  /\ row.status \notin Finished \cup {"Absent", "Cancelling"}
  /\ ~Unlinked(row)

\* Mutant of RequestCancel: a claimed row is cancelled like a queued one.
RequestCancelClaimed(row) ==
  IF Stops(row)
  THEN [row EXCEPT !.status = "Cancelling", !.cancelAge = 0, !.reason = "user"]
  ELSE IF Unlinked(row)
  THEN [row EXCEPT !.status = "Cancelled", !.reason = "user"]
  ELSE row

RequestCancel(row) ==
  IF Stops(row)
  THEN [row EXCEPT !.status = "Cancelling", !.cancelAge = 0, !.reason = "user"]
  ELSE IF Claimable(row)
  THEN [row EXCEPT !.status = "Cancelled", !.reason = "user"]
  ELSE row

RequestJobCancellation(j) == Update(j, RequestCancel(jobs[j]))

CompleteCancel(row) ==
  IF row.status = "Cancelling"
  THEN [row EXCEPT !.status = "Cancelled", !.cancelAge = None, !.reason = "user"]
  ELSE row

CompleteLocalCancellation(j) == Update(j, CompleteCancel(jobs[j]))

\* Mutant of RevertCancel: the time is cleared and the status left.
RevertCancelHalf(row) ==
  IF row.status = "Cancelling"
  THEN [row EXCEPT !.cancelAge = None, !.reason = "refused"]
  ELSE row

\* The status the row had before the request was kept on an ORM object that
\* died with the request's first transaction, so the default applies: Running.
RevertCancel(row) ==
  IF row.status = "Cancelling"
  THEN [row EXCEPT !.status = "Running", !.cancelAge = None, !.reason = "refused"]
  ELSE row

RecordCancellationFailure(j) == Update(j, RevertCancel(jobs[j]))

(***************************************************************************)
(* What the runners report                                                  *)
(***************************************************************************)
\* Mutants of ObservationDropped: only age matters; a tie counts as older.
DroppedIfOlder(row, s, t) == row.seen # None /\ t < row.seen
DroppedIfNotNewer(row, s, t) ==
  \/ row.seen # None /\ t <= row.seen
  \/ row.status \in Finished /\ StatusMap[s] # row.status

\* An observation of the Batch job in state s made at time t, from a status
\* event or from DescribeJobs.  Older observations are dropped, and so is one
\* that would change a finished run.
ObservationDropped(row, s, t) ==
  \/ row.seen # None /\ t < row.seen
  \/ row.status \in Finished /\ StatusMap[s] # row.status

\* Mutants of Observe: the end of a job that was stopped is taken for a failure;
\* any end of a run being cancelled counts as Cancelled.
ObserveFailure(row, s, t) ==
  IF ObservationDropped(row, s, t)
  THEN row
  ELSE [row EXCEPT !.status = StatusMap[s], !.reason = "batch", !.seen = t]
ObserveStopped(row, s, t) ==
  IF ObservationDropped(row, s, t)
  THEN row
  ELSE IF row.status = "Cancelling" /\ StatusMap[s] \in Finished
  THEN [row EXCEPT !.status = "Cancelled", !.cancelAge = None,
                   !.reason = "confirmed", !.seen = t]
  ELSE [row EXCEPT !.status = StatusMap[s], !.reason = "batch", !.seen = t]

Observe(row, s, t) ==
  IF ObservationDropped(row, s, t)
  THEN row
  ELSE IF row.status = "Cancelling" /\ StatusMap[s] = "Failed"
  THEN [row EXCEPT !.status = "Cancelled", !.cancelAge = None,
                   !.reason = "confirmed", !.seen = t]
  ELSE [row EXCEPT !.status = StatusMap[s], !.reason = "batch", !.seen = t]

RecordBatchDetails(j, s, t) == Update(j, Observe(jobs[j], s, t))

\* Mutant of Report: a cancelled row is reported on like any other.
ReportCancelled(row, status) ==
  IF row.status = "Cancelling" /\ status = "Failed"
  THEN [row EXCEPT !.status = "Cancelled", !.cancelAge = None,
                   !.reason = "confirmed"]
  ELSE [row EXCEPT !.status = status]

\* update_job_status, the local executor's report.
Report(row, status) ==
  IF row.status = "Cancelled"
  THEN row
  ELSE IF row.status = "Cancelling" /\ status = "Failed"
  THEN [row EXCEPT !.status = "Cancelled", !.cancelAge = None,
                   !.reason = "confirmed"]
  ELSE [row EXCEPT !.status = status]

UpdateJobStatus(j, status) == Update(j, Report(jobs[j], status))

(***************************************************************************)
(* The clock and the watchdog scans.  Ages stop at the timeout: beyond it   *)
(* the code makes no difference between them.                               *)
(***************************************************************************)
Older(age, limit) == IF age < limit THEN age + 1 ELSE limit

Aged(row) ==
  IF Unlinked(row)
  THEN [row EXCEPT !.age = Older(row.age, DispatchTimeout)]
  ELSE IF row.status = "Cancelling"
  THEN [row EXCEPT !.cancelAge = Older(row.cancelAge, CancelTimeout)]
  ELSE row

Tick == jobs' = [j \in Jobs |-> Aged(jobs[j])]

\* expire_unlinked_dispatches handles at most 100 rows and skips locked ones,
\* so a scan that finds several expired rows amounts to several of these steps.
ExpireUnlinkedDispatch(j) ==
  /\ j \in BatchJobs
  /\ Overdue(jobs[j])
  /\ Update(j, Expire(jobs[j]))

ReconcileCancellation(j) ==
  /\ jobs[j].status = "Cancelling"
  /\ jobs[j].cancelAge = CancelTimeout
  /\ Update(j, [jobs[j] EXCEPT !.reason = "unconfirmed"])

-----------------------------------------------------------------------------
Init == jobs = [j \in Jobs |-> AbsentRow]

\* The handlers the dispatcher and the status updater call: Batch jobs only.
BatchCall(j) ==
  \/ ClaimDispatch(j)
  \/ FailDispatch(j)
  \/ \E x \in ExternalIds : BindExternalJobId(j, x)
  \/ jobs[j].ext # None
     /\ \E s \in BatchStates, t \in 0..LastTime : RecordBatchDetails(j, s, t)
  \/ ExpireUnlinkedDispatch(j)

\* The handlers the local executor and the local stop path call.
LocalCall(j) ==
  \/ ClaimScheduledDispatch(j)
  \/ \E s \in {"Running", "Completed", "Failed"} : UpdateJobStatus(j, s)
  \/ CompleteLocalCancellation(j)

AnyCall(j) ==
  \/ CreateJob(j)
  \/ RequestJobCancellation(j)
  \/ RecordCancellationFailure(j)
  \/ ReconcileCancellation(j)

Next ==
  \/ Tick
  \/ \E j \in Jobs : AnyCall(j)
  \/ \E j \in BatchJobs : BatchCall(j)
  \/ \E j \in LocalJobs : LocalCall(j)

Spec == Init /\ [][Next]_jobs

-----------------------------------------------------------------------------
TypeOK == jobs \in [Jobs -> Row]

\* What the pages take for granted of the statuses is what the handlers do, in any
\* order: a Batch run goes from a status only to those that Becomes lists.  So a run
\* being cancelled is never recorded as Failed, and an unresolved run never runs or
\* completes without being bound first.
StatusMoves ==
  [][\A j \in BatchJobs :
       Exists(j) => jobs'[j].status \in {jobs[j].status} \cup Becomes[jobs[j].status]]_jobs

\* A run that is linked to a Batch job is never shown as unresolved: binding
\* resolves it, and neither the watchdog nor a claim expires it afterwards.
\* (expire_dispatch, bind_external_job_id, claim_dispatch)
LinkedNeverUnknown ==
  \A j \in Jobs : jobs[j].status = "Dispatch unknown" => jobs[j].ext = None

\* The explanation shown for an unresolved dispatch is there exactly while the
\* run is unresolved; no other handler leaves the stale text behind.
UnresolvedExplained ==
  \A j \in Jobs :
    jobs[j].status = "Dispatch unknown" <=> jobs[j].reason = "unresolved"

\* Every run being cancelled is visible to the cancellation watchdog, whose
\* query needs cancellation_requested_at; none can hang unseen.
CancellingIsTimed ==
  \A j \in Jobs : jobs[j].status = "Cancelling" => jobs[j].cancelAge # None

\* Once a run has an external id it keeps that id.
LinkStable ==
  [][\A j \in Jobs : jobs[j].ext # None => jobs'[j].ext = jobs[j].ext]_jobs

\* A dispatch claim is never given back, so no second claim can succeed.
ClaimedOnce ==
  [][\A j \in Jobs : jobs[j].claimed => jobs'[j].claimed]_jobs

\* Whatever late report, retry, binding or watchdog scan arrives, a cancelled
\* run stays cancelled, for both runners.
CancelledIsFinal ==
  [][\A j \in Jobs :
       jobs[j].status = "Cancelled" => jobs'[j].status = "Cancelled"]_jobs

\* A finished Batch run keeps its outcome: a late event must not reopen it.
FinishedIsFinal ==
  [][\A j \in BatchJobs :
       jobs[j].status \in Finished => jobs'[j].status = jobs[j].status]_jobs
=============================================================================
