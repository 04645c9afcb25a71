----------------------------- MODULE BatchStatus -----------------------------
(***************************************************************************)
(* How the table learns what became of a run that AWS Batch accepted: the   *)
(* Batch job's own life, the status events EventBridge hands to the updater *)
(* lambda, DescribeJobs on behalf of viewers (refresh_job in                *)
(* core/job_logger/cloudwatch.py), and cancel requests that are answered by *)
(* the runner while all of this goes on.                                    *)
(*                                                                          *)
(* Dispatch shows that a run is linked to one Batch job only, and to one of  *)
(* its own.  That is the job meant here, and the one of run j has the id j.  *)
(***************************************************************************)
EXTENDS JobStore

CONSTANTS
  Viewers,          \* open job pages, each refreshing some run
  Second,           \* ticks of the clock in one second
  RefreshInterval,  \* the 15 seconds between two refreshes of a run, in ticks
  Attempts,         \* bound: how often AWS Batch attempts a job
  EventsLost        \* whether the updater may give up on an event that tells of an end

ASSUME BatchStatusAssumption ==
  /\ BatchJobs \subseteq ExternalIds
  /\ Second \in Nat \ {0}
  /\ RefreshInterval \in Nat \ {0}
  /\ Attempts \in Nat \ {0}
  /\ EventsLost \in BOOLEAN

VARIABLES
  now,       \* the clock
  batch,     \* AWS Batch: the job made for each run
  events,    \* status events that may still be delivered
  viewer,    \* refresh_job calls under way
  checked,   \* batch_checked_at of each run
  stream,    \* runs whose log_stream is saved
  stopping   \* cancel requests waiting for the runner's answer

vars == <<jobs, now, batch, events, viewer, checked, stream, stopping>>

BatchJob == [state: {"RUNNABLE", "STARTING", "RUNNING", "SUCCEEDED", "FAILED"},
             attempt: 1..Attempts,
             since: 0..LastTime,     \* when it came to this state
             stopped: BOOLEAN]       \* told to stop

Ended == {"SUCCEEDED", "FAILED"}

Event == [job: BatchJobs, state: BatchStates, at: 0..LastTime]

Call == [pc: {"idle", "asking", "answered"}, job: BatchJobs \cup {None},
         state: BatchStates \cup {None}, at: 0..LastTime]

IdleCall == [pc |-> "idle", job |-> None, state |-> None, at |-> 0]

(***************************************************************************)
(* AWS Batch                                                                *)
(***************************************************************************)
NextStates(job) ==
  LET retry == {s \in {"RUNNABLE"} : ~job.stopped /\ job.attempt < Attempts}
  IN CASE job.state = "RUNNABLE" -> IF job.stopped THEN {"FAILED"}
                                    ELSE {"STARTING", "FAILED"}
       [] job.state = "STARTING" -> {"RUNNING", "FAILED"} \cup retry
       [] job.state = "RUNNING"  -> Ended \cup retry
       [] OTHER                  -> {}

\* EventBridge stamps an event with its second; the clock is finer.
SecondOf(t) == t - (t % Second)
EventTime   == SecondOf(now)

BatchJobMoves(j) ==
  \E s \in NextStates(batch[j]) :
    /\ batch' = [batch EXCEPT ![j].state = s, ![j].since = now,
                   ![j].attempt = IF s = "RUNNABLE" THEN @ + 1 ELSE @]
    /\ events' = events \cup {[job |-> j, state |-> s, at |-> EventTime]}
    /\ UNCHANGED <<jobs, now, viewer, checked, stream, stopping>>

\* CancelJob does nothing to a job that is past RUNNABLE; the call succeeds.
Told(job, action) ==
  [job EXCEPT !.stopped = @ \/ action = "terminate" \/ job.state = "RUNNABLE"]

(***************************************************************************)
(* Observations reach the table                                             *)
(***************************************************************************)
\* The dispatcher's bind, which the first events may well overtake.
BindRun(j) ==
  /\ jobs[j].ext = None
  /\ BindExternalJobId(j, j)
  /\ UNCHANGED <<now, batch, events, viewer, checked, stream, stopping>>

\* record_batch_details, which also saves the log stream.  The description of a
\* container that was started may carry one.
Record(o) ==
  /\ RecordBatchDetails(o.job, o.state, o.at)
  /\ \/ UNCHANGED stream
     \/ /\ o.state \in {"RUNNING"} \cup Ended
        /\ ~ObservationDropped(jobs[o.job], o.state, o.at)
        /\ stream' = stream \cup {o.job}

\* The updater forwards an event.  An id no run is linked to is an error, and
\* the event comes again; so may one that was answered.
DeliverEvent(e) ==
  /\ e \in events
  /\ jobs[e.job].ext # None
  /\ Record(e)
  /\ events' \in {events, events \ {e}}
  /\ UNCHANGED <<now, batch, viewer, checked, stopping>>

LoseEvent(e) ==
  /\ e \in events
  /\ EventsLost \/ e.state \notin Ended
  /\ events' = events \ {e}
  /\ UNCHANGED <<jobs, now, batch, viewer, checked, stream, stopping>>

\* claim_batch_refresh
RefreshDue(j) == checked[j] # None => now - checked[j] >= RefreshInterval

\* refresh_job up to DescribeJobs.  The time of the observation is taken first.
StartRefresh(v, j) ==
  /\ viewer[v].pc = "idle"
  /\ jobs[j].ext # None
  /\ ~(jobs[j].status \in {"Completed", "Failed"} /\ j \in stream)
  /\ RefreshDue(j)
  /\ checked' = [checked EXCEPT ![j] = now]
  /\ viewer' = [viewer EXCEPT ![v] =
                  [IdleCall EXCEPT !.pc = "asking", !.job = j, !.at = now]]
  /\ UNCHANGED <<jobs, now, batch, events, stream, stopping>>

DescribeJobs(v) ==
  /\ viewer[v].pc = "asking"
  /\ viewer' = [viewer EXCEPT ![v].pc = "answered",
                              ![v].state = batch[viewer[v].job].state]
  /\ UNCHANGED <<jobs, now, batch, events, checked, stream, stopping>>

RecordRefresh(v) ==
  /\ viewer[v].pc = "answered"
  /\ Record(viewer[v])
  /\ viewer' = [viewer EXCEPT ![v] = IdleCall]
  /\ UNCHANGED <<now, batch, events, checked, stopping>>

\* The call fails, finds no metadata, or dies with its process.
AbandonRefresh(v) ==
  /\ viewer[v].pc # "idle"
  /\ viewer' = [viewer EXCEPT ![v] = IdleCall]
  /\ UNCHANGED <<jobs, now, batch, events, checked, stream, stopping>>

(***************************************************************************)
(* Cancellation                                                             *)
(***************************************************************************)
\* cancel_job up to the runner call: CancelJob if the table says Pending.
\* Without an external id the call fails at once, unhandled.
CancelRun(j) ==
  /\ RequestJobCancellation(j)
  /\ stopping' = IF Stops(jobs[j]) /\ jobs[j].ext # None
                 THEN stopping \cup
                        {[job |-> j, action |-> IF jobs[j].status = "Pending"
                                                THEN "cancel" ELSE "terminate"]}
                 ELSE stopping
  /\ UNCHANGED <<now, batch, events, viewer, checked, stream>>

StopAccepted(r) ==
  /\ r \in stopping
  /\ batch' = [batch EXCEPT ![r.job] = Told(@, r.action)]
  /\ stopping' = stopping \ {r}
  /\ UNCHANGED <<jobs, now, events, viewer, checked, stream>>

StopRefused(r) ==
  /\ r \in stopping
  /\ RecordCancellationFailure(r.job)
  /\ stopping' = stopping \ {r}
  /\ UNCHANGED <<now, batch, events, viewer, checked, stream>>

StopDies(r) ==
  /\ r \in stopping
  /\ stopping' = stopping \ {r}
  /\ UNCHANGED <<jobs, now, batch, events, viewer, checked, stream>>

Watchdog(j) ==
  /\ ExpireUnlinkedDispatch(j) \/ ReconcileCancellation(j)
  /\ UNCHANGED <<now, batch, events, viewer, checked, stream, stopping>>

Clock ==
  /\ now < LastTime
  /\ now' = now + 1
  /\ Tick
  /\ UNCHANGED <<batch, events, viewer, checked, stream, stopping>>

-----------------------------------------------------------------------------
\* Every run has been claimed and submitted a moment ago, and not yet linked.
StatusInit ==
  /\ jobs = [j \in Jobs |-> IF j \in BatchJobs THEN Claim(NewRow) ELSE AbsentRow]
  /\ now = 0
  /\ batch = [j \in BatchJobs |->
                [state |-> "RUNNABLE", attempt |-> 1, since |-> 0, stopped |-> FALSE]]
  /\ events = {}
  /\ viewer = [v \in Viewers |-> IdleCall]
  /\ checked = [j \in BatchJobs |-> None]
  /\ stream = {}
  /\ stopping = {}

StopAnswered(r) == StopAccepted(r) \/ StopRefused(r) \/ StopDies(r)

StatusNext ==
  \/ Clock
  \/ \E j \in BatchJobs :
       BatchJobMoves(j) \/ BindRun(j) \/ CancelRun(j) \/ Watchdog(j)
  \/ \E e \in events : DeliverEvent(e) \/ LoseEvent(e)
  \/ \E v \in Viewers :
       \/ \E j \in BatchJobs : StartRefresh(v, j)
       \/ DescribeJobs(v) \/ RecordRefresh(v) \/ AbandonRefresh(v)
  \/ \E r \in stopping : StopAnswered(r)

StatusSpec == StatusInit /\ [][StatusNext]_vars

-----------------------------------------------------------------------------
StatusTypeOK ==
  /\ TypeOK
  /\ now \in 0..LastTime
  /\ batch \in [BatchJobs -> BatchJob]
  /\ events \subseteq Event
  /\ viewer \in [Viewers -> Call]
  /\ checked \in [BatchJobs -> 0..LastTime \cup {None}]
  /\ stream \subseteq BatchJobs
  /\ stopping \subseteq [job: BatchJobs, action: {"cancel", "terminate"}]

\* A finished run tells the truth about its Batch job: Completed only if that
\* succeeded, Failed or Cancelled only if it failed, whatever mix of stale,
\* repeated and reordered reports led there.
TruthfulOutcome ==
  \A j \in BatchJobs :
    /\ jobs[j].status = "Completed" => batch[j].state = "SUCCEEDED"
    /\ jobs[j].status \in {"Failed", "Cancelled"} => batch[j].state = "FAILED"

\* A refresh of the very second in which the Batch job ended, but made before that,
\* is on record: to the table it is newer than the event of the end.
Overtaken(j) ==
  jobs[j].seen # None /\ SecondOf(batch[j].since) < jobs[j].seen /\ jobs[j].seen <= batch[j].since

\* Nothing waits to tell the table of the end of the Batch job.
EndTold(j) == \A e \in events : e.job = j => e.state \notin Ended

\* The status updater settles every run but those: whatever order, repetition or delay
\* its events have, whichever of the earlier ones are lost, and whatever viewers and
\* cancellations do meanwhile, a run whose Batch job ended is finished in the table once
\* the event of the end is through, or was overtaken in the second of the end.  Ties,
\* whole seconds, late binds and refreshes that answer late lose no outcome.
OutcomeRecorded ==
  ~EventsLost =>
    \A j \in BatchJobs :
      batch[j].state \in Ended /\ EndTold(j) => jobs[j].status \in Finished \/ Overtaken(j)

\* docs/job-cancellation.md:13: a refused request leaves the run in its prior
\* state, which is Pending if the request was for CancelJob.  The prior state is
\* forgotten and becomes Running.
RefusedRestoresPrior ==
  [][\A r \in stopping :
       /\ StopRefused(r)
       /\ jobs[r.job].status = "Cancelling"
       /\ r.action = "cancel"
       => jobs'[r.job].status = "Pending"]_vars
=============================================================================
