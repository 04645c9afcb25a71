------------------------------ MODULE Dispatch ------------------------------
(***************************************************************************)
(* How a run gets from the API to AWS Batch: the API's post and cancel      *)
(* handlers, the outbox, the SQS queue, the dispatcher lambda's concurrent  *)
(* invocations (lambdas/dispatch_job/dispatcher.py), AWS Batch's SubmitJob, *)
(* and the job table of JobStore between them.                              *)
(*                                                                          *)
(* Any request of a dispatcher may be given up on (timeout, lost answer)    *)
(* and still be carried out by the API later; an invocation may die         *)
(* anywhere; SQS may deliver a message any number of times, to several      *)
(* invocations at once, or not at all.                                      *)
(***************************************************************************)
EXTENDS JobStore, FiniteSets

CONSTANTS
  ScheduledJobs, \* runs the scheduler registers; the others are posted
  Reported,      \* bound: the Batch states that are ever reported here
  InFlight,      \* bound: requests under way outside the dispatcher's control
  Workers,       \* concurrent invocations of the dispatcher lambda
  BatchSize,     \* the most records SQS hands to one invocation
  SdkAttempts    \* how often the AWS client sends one SubmitJob call

ASSUME DispatchAssumption ==
  /\ None \notin Jobs
  /\ ScheduledJobs \subseteq BatchJobs
  /\ Reported \subseteq BatchStates
  /\ InFlight \in Nat
  /\ BatchSize \in Nat \ {0}
  /\ SdkAttempts \in Nat \ {0}

VARIABLES
  background,    \* manual runs whose send_job_message task has not run yet
  outbox,        \* scheduled runs whose job_outbox row is not marked sent
  queue,         \* runs with a message in SQS
  worker,        \* the state of each invocation
  late,          \* requests the dispatcher gave up on that may still arrive
  owner,         \* the BatchEventsJobId tag of every Batch job made so far
  calls,         \* history: run_job calls for each run
  stopping       \* cancel requests between their commit and the runner call

posting == <<background, outbox, queue>>
vars == <<jobs, posting, worker, late, owner, calls, stopping>>

Request == [op: {"claim", "bind", "fail"}, job: BatchJobs,
            id: ExternalIds \cup {None}]

\* pc "next": choosing the next record; "submit": claimed, before SubmitJob;
\* "bind", "reject": about to report its result.
WorkerState == [
  pc:     {"idle", "next", "submit", "bind", "reject"},
  batch:  SUBSET BatchJobs,
  todo:   SUBSET BatchJobs,
  job:    BatchJobs \cup {None},
  id:     ExternalIds \cup {None},
  failed: BOOLEAN]

Idle == [pc |-> "idle", batch |-> {}, todo |-> {}, job |-> None, id |-> None,
         failed |-> FALSE]

BatchJobsOf(j) == {x \in ExternalIds : owner[x] = j}
FreeIds == {x \in ExternalIds : owner[x] = None}

(***************************************************************************)
(* The API: posting and cancelling a run                                    *)
(***************************************************************************)
\* post_job commits the row; the message is sent after the response.
PostJob(j) ==
  /\ j \notin ScheduledJobs
  /\ CreateJob(j)
  /\ background' = background \cup {j}
  /\ UNCHANGED <<outbox, queue, worker, late, owner, calls, stopping>>

SendJobMessage(j) ==
  /\ j \in background
  /\ background' = background \ {j}
  /\ queue' = queue \cup {j}
  /\ UNCHANGED <<jobs, outbox, worker, late, owner, calls, stopping>>

\* The process stops, or SQS refuses: nothing sends this message again.
LoseJobMessage(j) ==
  /\ j \in background
  /\ background' = background \ {j}
  /\ UNCHANGED <<jobs, outbox, queue, worker, late, owner, calls, stopping>>

\* register_due_jobs inserts the row and its outbox entry in one transaction.
RegisterScheduledJob(j) ==
  /\ j \in ScheduledJobs
  /\ CreateJob(j)
  /\ outbox' = outbox \cup {j}
  /\ UNCHANGED <<background, queue, worker, late, owner, calls, stopping>>

\* deliver_pending_jobs sends, and marks the entry sent when the transaction
\* commits; a failure in between leaves it to be sent again.
DeliverPendingJob(j) ==
  /\ j \in outbox
  /\ jobs[j].status = "Pending"
  /\ queue' = queue \cup {j}
  /\ outbox' \in {outbox, outbox \ {j}}
  /\ UNCHANGED <<jobs, background, worker, late, owner, calls, stopping>>

\* cancel_job up to the call of the runner, and its outcomes.  An accepted
\* stop writes only the audit.  Without an external id boto3 refuses the
\* parameters with an error the handler does not catch.
CancelJob(j) ==
  /\ Stops(jobs[j]) => Cardinality(stopping) < InFlight
  /\ RequestJobCancellation(j)
  /\ stopping' = IF Stops(jobs[j])
                 THEN stopping \cup {[job |-> j, ext |-> jobs[j].ext]}
                 ELSE stopping
  /\ UNCHANGED <<posting, worker, late, owner, calls>>

StopEnds(r) ==
  /\ r \in stopping
  /\ stopping' = stopping \ {r}
  /\ UNCHANGED <<jobs, posting, worker, late, owner, calls>>

StopRefused(r) ==
  /\ r \in stopping
  /\ r.ext # None
  /\ RecordCancellationFailure(r.job)
  /\ stopping' = stopping \ {r}
  /\ UNCHANGED <<posting, worker, late, owner, calls>>

(***************************************************************************)
(* The dispatcher lambda: one invocation handles a batch of records, each   *)
(* to its end, and raises the first failure when all are done, so that SQS  *)
(* delivers the whole batch again.                                          *)
(***************************************************************************)
\* A message stays in SQS while it is handled, and may be delivered again
\* before that is done.  A malformed record fails the batch it comes in.
Receive(w, batch, malformed) ==
  /\ worker[w].pc = "idle"
  /\ batch # {}
  /\ Cardinality(batch) <= BatchSize
  /\ worker' = [worker EXCEPT ![w] =
       [Idle EXCEPT !.pc = "next", !.batch = batch, !.todo = batch,
                    !.failed = malformed]]
  /\ UNCHANGED <<jobs, posting, late, owner, calls, stopping>>

Handles(w, j) == worker[w].pc = "next" /\ j \in worker[w].todo

\* Mutant of ClosedToDispatch: an unresolved run is retried.
ClosedUnlessUnresolved(row) ==
  row.ext # None \/ row.status \in JobStatus \ {"Pending", "Running", "Dispatch unknown"}

\* A record the claim was refused for is done with, or must be retried.
ClosedToDispatch(row) ==
  row.ext # None \/ row.status \in JobStatus \ {"Pending", "Running"}

ClaimAnswered(w, j) ==
  /\ Handles(w, j)
  /\ ClaimDispatch(j)
  /\ \/ /\ ClaimGranted(j)
        /\ worker' = [worker EXCEPT ![w].pc = "submit", ![w].job = j,
                                    ![w].todo = worker[w].todo \ {j}]
     \/ /\ ~ClaimGranted(j)
        /\ worker' = [worker EXCEPT
             ![w].todo = worker[w].todo \ {j},
             ![w].failed = worker[w].failed \/ ~ClosedToDispatch(Expire(jobs[j]))]
  /\ UNCHANGED <<posting, late, owner, calls, stopping>>

\* A request that timed out or was not answered: the record has failed, and
\* the request may have been carried out, may be later, or never.
GiveUp(w, request, todo) ==
  /\ Cardinality(late) < InFlight
  /\ late' = late \cup {request}
  /\ worker' = [worker EXCEPT ![w].pc = "next", ![w].todo = todo, ![w].job = None,
                              ![w].id = None, ![w].failed = TRUE]
  /\ UNCHANGED <<jobs, posting, owner, calls, stopping>>

ClaimGivenUp(w, j) ==
  /\ Handles(w, j)
  /\ GiveUp(w, [op |-> "claim", job |-> j, id |-> None], worker[w].todo \ {j})

\* run_job sends SubmitJob up to SdkAttempts times: the client repeats a call
\* whose answer it did not get, and each attempt may have made a Batch job.
\* The last attempt is answered with an id, rejected, or left uncertain.
SubmitAttempts == UNION {[1..n -> FreeIds \cup {None}] : n \in 1..SdkAttempts}

Submitted(w, made) ==
  /\ worker[w].pc = "submit"
  /\ owner' = [x \in ExternalIds |->
                 IF \E n \in DOMAIN made : made[n] = x
                 THEN worker[w].job ELSE owner[x]]
  /\ calls' = [calls EXCEPT ![worker[w].job] = @ + 1]
  /\ UNCHANGED <<jobs, posting, late, stopping>>

LastAttempt(made) ==
  CHOOSE n \in DOMAIN made : \A m \in DOMAIN made : m <= n

\* Mutant of SubmitAccepted: the id is looked up by a name other runs share.
SubmitAcceptedByName(w, made) ==
  /\ Submitted(w, made)
  /\ made[LastAttempt(made)] # None
  /\ \E x \in ExternalIds :
       /\ owner'[x] # None
       /\ worker' = [worker EXCEPT ![w].pc = "bind", ![w].id = x]

SubmitAccepted(w, made) ==
  /\ Submitted(w, made)
  /\ made[LastAttempt(made)] # None
  /\ worker' = [worker EXCEPT ![w].pc = "bind",
                              ![w].id = made[LastAttempt(made)]]

\* Mutant of SubmitUncertain: any failure counts as a rejection.
SubmitFailed(w, made) ==
  /\ Submitted(w, made)
  /\ worker' = [worker EXCEPT ![w].pc = "reject"]

SubmitUncertain(w, made) ==
  /\ Submitted(w, made)
  /\ worker' = [worker EXCEPT ![w].pc = "next", ![w].job = None,
                              ![w].failed = TRUE]

SubmitRejected(w, made) ==
  /\ Submitted(w, made)
  /\ made[LastAttempt(made)] = None
  /\ worker' = [worker EXCEPT ![w].pc = "reject"]

\* MissingJobRunner: rejected without a call.
NoJobRunner(w) ==
  /\ worker[w].pc = "submit"
  /\ worker' = [worker EXCEPT ![w].pc = "reject"]
  /\ UNCHANGED <<jobs, posting, late, owner, calls, stopping>>

BindAnswered(w) ==
  /\ worker[w].pc = "bind"
  /\ BindExternalJobId(worker[w].job, worker[w].id)
  /\ worker' = [worker EXCEPT
       ![w].pc = "next", ![w].job = None, ![w].id = None,
       ![w].failed = worker[w].failed \/ ~BindAccepted(worker[w].job, worker[w].id)]
  /\ UNCHANGED <<posting, late, owner, calls, stopping>>

BindGivenUp(w) ==
  /\ worker[w].pc = "bind"
  /\ GiveUp(w, [op |-> "bind", job |-> worker[w].job, id |-> worker[w].id],
            worker[w].todo)

RejectAnswered(w) ==
  /\ worker[w].pc = "reject"
  /\ FailDispatch(worker[w].job)
  /\ worker' = [worker EXCEPT ![w].pc = "next", ![w].job = None]
  /\ UNCHANGED <<posting, late, owner, calls, stopping>>

RejectGivenUp(w) ==
  /\ worker[w].pc = "reject"
  /\ GiveUp(w, [op |-> "fail", job |-> worker[w].job, id |-> None],
            worker[w].todo)

\* The end of lambda_handler: the batch is acknowledged unless it raises.
Finish(w) ==
  /\ worker[w].pc = "next"
  /\ worker[w].todo = {}
  /\ worker' = [worker EXCEPT ![w] = Idle]
  /\ queue' = IF worker[w].failed THEN queue ELSE queue \ worker[w].batch
  /\ UNCHANGED <<jobs, background, outbox, late, owner, calls, stopping>>

\* The invocation dies or reaches its time limit; its messages reappear.  When
\* nothing is left of a failed batch that is the same step as Finish.
CrashWorker(w) ==
  /\ worker[w].pc # "idle"
  /\ worker[w].failed => worker[w].pc # "next" \/ worker[w].todo # {}
  /\ worker' = [worker EXCEPT ![w] = Idle]
  /\ UNCHANGED <<jobs, posting, late, owner, calls, stopping>>

\* The message expires or moves to the dead-letter queue.
DropMessage(j) ==
  /\ j \in queue
  /\ queue' = queue \ {j}
  /\ UNCHANGED <<jobs, background, outbox, worker, late, owner, calls, stopping>>

(***************************************************************************)
(* The API carries out, or never gets, a request that was given up on.      *)
(***************************************************************************)
ServeLate(r) ==
  /\ r \in late
  /\ late' = late \ {r}
  /\ \/ r.op = "claim" /\ ClaimDispatch(r.job)
     \/ r.op = "bind"  /\ BindExternalJobId(r.job, r.id)
     \/ r.op = "fail"  /\ FailDispatch(r.job)
  /\ UNCHANGED <<posting, worker, owner, calls, stopping>>

LoseLate(r) ==
  /\ r \in late
  /\ late' = late \ {r}
  /\ UNCHANGED <<jobs, posting, worker, owner, calls, stopping>>

\* A status event or a refresh of a linked run.  BatchStatus models when AWS
\* Batch makes which; here it may report anything at any time.
BatchReport(j) ==
  /\ jobs[j].ext # None
  /\ \E s \in Reported, t \in 0..LastTime : RecordBatchDetails(j, s, t)
  /\ UNCHANGED <<posting, worker, late, owner, calls, stopping>>

Watchdog(j) ==
  /\ ExpireUnlinkedDispatch(j) \/ ReconcileCancellation(j)
  /\ UNCHANGED <<posting, worker, late, owner, calls, stopping>>

Clock ==
  /\ Tick
  /\ UNCHANGED <<posting, worker, late, owner, calls, stopping>>

-----------------------------------------------------------------------------
DispatchInit ==
  /\ Init
  /\ background = {} /\ outbox = {} /\ queue = {}
  /\ worker = [w \in Workers |-> Idle]
  /\ late = {}
  /\ owner = [x \in ExternalIds |-> None]
  /\ calls = [j \in BatchJobs |-> 0]
  /\ stopping = {}

ApiStep(j) ==
  \/ PostJob(j) \/ SendJobMessage(j) \/ LoseJobMessage(j)
  \/ RegisterScheduledJob(j) \/ DeliverPendingJob(j)
  \/ CancelJob(j) \/ BatchReport(j) \/ Watchdog(j)

StopStep(r) == StopEnds(r) \/ StopRefused(r)

Submit(w) ==
  \E made \in SubmitAttempts :
    SubmitAccepted(w, made) \/ SubmitUncertain(w, made) \/ SubmitRejected(w, made)

\* What an invocation does when nothing goes wrong around it.
Progress(w) ==
  \/ \E batch \in SUBSET queue : Receive(w, batch, FALSE)
  \/ \E j \in worker[w].todo : ClaimAnswered(w, j)
  \/ Submit(w) \/ NoJobRunner(w) \/ BindAnswered(w) \/ RejectAnswered(w)
  \/ Finish(w)

Fault(w) ==
  \/ \E batch \in SUBSET queue : Receive(w, batch, TRUE)
  \/ \E j \in worker[w].todo : ClaimGivenUp(w, j)
  \/ BindGivenUp(w) \/ RejectGivenUp(w) \/ CrashWorker(w)

LateStep(r) == ServeLate(r) \/ LoseLate(r)

DispatchNext ==
  \/ Clock
  \/ \E j \in BatchJobs : ApiStep(j) \/ DropMessage(j)
  \/ \E r \in stopping : StopStep(r)
  \/ \E w \in Workers : Progress(w) \/ Fault(w)
  \/ \E r \in late : LateStep(r)

DispatchSpec == DispatchInit /\ [][DispatchNext]_vars

\* Time passes, and the API's supervisor runs the watchdog every 15 seconds,
\* whatever becomes of the queue and the dispatcher.
WatchdogFairness ==
  /\ WF_vars(Clock)
  /\ \A j \in BatchJobs : WF_vars(Watchdog(j))

\* Lambda keeps polling the queue and a started invocation keeps going.
WorkerFairness == \A w \in Workers : WF_vars(Progress(w))

WatchedSpec == DispatchSpec /\ WatchdogFairness

-----------------------------------------------------------------------------
DispatchTypeOK ==
  /\ TypeOK
  /\ background \subseteq BatchJobs
  /\ outbox \subseteq BatchJobs
  /\ queue \subseteq BatchJobs
  /\ worker \in [Workers -> WorkerState]
  /\ late \subseteq Request
  /\ owner \in [ExternalIds -> BatchJobs \cup {None}]
  /\ calls \in [BatchJobs -> Nat]
  /\ stopping \subseteq [job: BatchJobs, ext: ExternalIds \cup {None}]

\* run_job is called at most once for a run, whatever is redelivered, retried
\* or answered late (claim_dispatch against dispatcher.py).
AtMostOneSubmitCall == \A j \in BatchJobs : calls[j] <= 1

\* A run is linked to a Batch job that was submitted for it and no other.
LinkIsOwn ==
  \A j \in BatchJobs : jobs[j].ext # None => owner[jobs[j].ext] = j

\* A run cancelled in the queue has no Batch job, now or in any later state:
\* its message may still be in flight and its claim request may be late.
CancelledNeverExecutes ==
  \A j \in BatchJobs :
    jobs[j].status = "Cancelled" /\ jobs[j].ext = None => BatchJobsOf(j) = {}

\* A run shown as a failed dispatch may have Batch jobs only of attempts that were not
\* answered: the last one was rejected and made none, so there are fewer than attempts
\* (fail_dispatch is for proven rejections), and none with a client that sends once.
RejectedMadeNone ==
  \A j \in BatchJobs :
    jobs[j].status = "Failed" /\ jobs[j].ext = None => Cardinality(BatchJobsOf(j)) < SdkAttempts

\* All the Batch jobs of a run come from the attempts of one call of run_job: no
\* second invocation, redelivery or late claim makes another one.
JobsOfOneCall == \A j \in BatchJobs : Cardinality(BatchJobsOf(j)) <= SdkAttempts

\* docs/dispatch-outcomes.md:11: when "a network/server error leaves submission
\* uncertain, the dispatcher must not retry SubmitJob: AWS may already have started a
\* job".  The client it is built with does retry, so two Batch jobs may execute a run.
AtMostOneBatchJob ==
  \A x, y \in ExternalIds : owner[x] = owner[y] /\ owner[x] # None => x = y

\* The promise of RunOnce.
Run == INSTANCE RunOnce WITH
  Runs      <- BatchJobs,
  Works     <- ExternalIds,
  Tries     <- SdkAttempts,
  work      <- [j \in BatchJobs |-> BatchJobsOf(j)],
  link      <- [j \in BatchJobs |-> jobs[j].ext],
  cancelled <- {j \in BatchJobs : jobs[j].status = "Cancelled" /\ jobs[j].ext = None},
  rejected  <- {j \in BatchJobs : jobs[j].status = "Failed" /\ jobs[j].ext = None}

RunsOnce == Run!Spec

\* No run stays unresolved for ever: lost messages, dead invocations and lost
\* answers all end in a link, a final status or Dispatch unknown.
NoRunWaitsForever ==
  \A j \in BatchJobs : Unlinked(jobs[j]) ~> ~Unlinked(jobs[j])

\* Once nothing goes wrong any more every message is acknowledged: refused
\* claims stop raising when the run is linked, finished or unresolved, and a
\* failing record does not keep the others of its batch in the queue.
FaultStep == \E w \in Workers : Fault(w)
MessagesDrain ==
  /\ WorkerFairness
  /\ <>[][~FaultStep /\ outbox' = outbox]_vars
  => \A j \in BatchJobs : j \in queue ~> j \notin queue
=============================================================================
