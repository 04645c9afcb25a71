----------------------------- MODULE OutboxDelivery -----------------------------
(***************************************************************************)
(* The delivery of registered runs to the queue: deliver_pending_jobs.       *)
(*                                                                          *)
(* One pass runs at a time (the advisory lock).  It is a transaction: what   *)
(* it has sent stays sent when the pass is lost, what it has written does    *)
(* not.  Time is counted in ticks of fifteen seconds to a row's next         *)
(* attempt; rows whose time has come stand in the order they came in.        *)
(***************************************************************************)
EXTENDS Integers, FiniteSets, Orders

CONSTANTS
  NoPass,
  Runs,           \* runs, numbered by the order of their ids
  Undeliverable,  \* runs whose message the queue refuses each time
  BatchSize,      \* rows a pass takes at most: 50
  MaxDelay,       \* ticks between attempts at most: 20
  MaxFailures,    \* bound: sends of other runs that fail or lose their answer
  MaxDeaths       \* bound: passes that are lost

\* A pass: the rows it has not reached, those it has sent, and the ticks to the next
\* attempt of those it has not.
Pass == [rows: SUBSET Runs, sent: SUBSET Runs, retry: UNION {[some -> 0..MaxDelay] : some \in SUBSET Runs}]

ASSUME OutboxAssumption ==
  /\ Runs \subseteq Nat /\ Undeliverable \subseteq Runs
  /\ {BatchSize, MaxDelay} \subseteq Nat \ {0} /\ {MaxFailures, MaxDeaths} \subseteq Nat
  /\ NoPass \notin Pass

VARIABLES
  due,        \* rows not sent whose next_attempt has passed
  earlier,    \* of these: which has the earlier next_attempt
  waiting,    \* other rows not sent: the ticks to their next attempt
  delays,     \* what attempts says: the ticks from a send that fails to the next
  marked,     \* rows with sent_at
  pending,    \* runs with status Pending
  pass,       \* the pass under way, or NoPass
  sends,      \* messages the queue has accepted, for each run
  failures, deaths  \* counters: of sends and of passes

outboxVars == <<due, earlier, waiting, delays, marked, pending, pass, sends, failures, deaths>>

\* A row is there from the commit of its run.
Known == due \cup DOMAIN waiting \cup marked

\* 15 * 2 ** min(attempts, 5) seconds, at most 300.
Doubled(d) == IF 2 * d < MaxDelay THEN 2 * d ELSE MaxDelay

OutboxInit ==
  /\ due = {} /\ earlier = {} /\ waiting = [r \in {} |-> 0] /\ marked = {} /\ pass = NoPass
  /\ pending = Runs
  /\ delays = [r \in Runs |-> 1]
  /\ sends = [r \in Runs |-> 0]
  /\ failures = 0 /\ deaths = 0

\* register_due_jobs commits a run with its row; next_attempt is now.
RowAdded ==
  /\ \E r \in Runs \ Known : due' = due \cup {r} /\ earlier' = Joined(earlier, due, {r})
  /\ UNCHANGED <<waiting, delays, marked, pending, pass, sends, failures, deaths>>

\* The run starts, is cancelled or is given up.
RunLeavesPending ==
  /\ \E r \in Known : pending' = pending \ {r}
  /\ UNCHANGED <<due, earlier, waiting, delays, marked, pass, sends, failures, deaths>>

Arriving  == {r \in DOMAIN waiting : waiting[r] <= 1}
Nearer(t) == IF t > 0 THEN t - 1 ELSE 0

TimePasses ==
  /\ DOMAIN waiting /= {} \/ (pass /= NoPass /\ DOMAIN pass.retry /= {})
  /\ due' = due \cup Arriving /\ earlier' = Joined(earlier, due, Arriving)
  /\ waiting' = [r \in DOMAIN waiting \ Arriving |-> waiting[r] - 1]
  /\ pass' = IF pass = NoPass THEN NoPass
             ELSE [pass EXCEPT !.retry = [r \in DOMAIN @ |-> Nearer(@[r])]]
  /\ UNCHANGED <<delays, marked, pending, sends, failures, deaths>>

(***************************************************************************)
(* A pass                                                                   *)
(***************************************************************************)
\* Rows in the order of their ids alone (mutant).
BatchById == FirstOf(due \cap pending, ById(due), BatchSize)

\* WHERE sent_at IS NULL AND next_attempt <= now AND the run is Pending
\* ORDER BY next_attempt, job_id LIMIT 50
Batch == FirstOf(due \cap pending, earlier, BatchSize)

DeliveryBegins ==
  /\ pass = NoPass /\ Batch /= {}
  /\ pass' = [rows |-> Batch, sent |-> {}, retry |-> [r \in {} |-> 0]]
  /\ UNCHANGED <<due, earlier, waiting, delays, marked, pending, sends, failures, deaths>>

\* The rows are reached in their order.
Reaches(r) == pass /= NoPass /\ r \in pass.rows /\ \A q \in pass.rows : <<q, r>> \notin earlier

SendSucceeds ==
  /\ \E r \in Runs \ Undeliverable :
       /\ Reaches(r)
       /\ sends' = [sends EXCEPT ![r] = @ + 1]
       /\ pass' = [pass EXCEPT !.rows = @ \ {r}, !.sent = @ \cup {r}]
  /\ UNCHANGED <<due, earlier, waiting, delays, marked, pending, failures, deaths>>

\* The queue does not take the message, or it does and its answer is lost.
SendFails ==
  /\ \E r \in Runs, accepted \in BOOLEAN :
       /\ Reaches(r)
       /\ IF r \in Undeliverable THEN ~accepted /\ UNCHANGED failures
          ELSE failures < MaxFailures /\ failures' = failures + 1
       /\ sends' = IF accepted THEN [sends EXCEPT ![r] = @ + 1] ELSE sends
       /\ pass' = [pass EXCEPT !.rows = @ \ {r},
                                !.retry = [q \in {r} \cup DOMAIN @ |-> IF q = r THEN delays[r] ELSE @[q]]]
  /\ UNCHANGED <<due, earlier, waiting, delays, marked, pending, deaths>>

\* What the pass did not reach before its deadline is marked too (mutant).
MarkedTheBatch == pass.sent \cup pass.rows

\* UPDATE job_outbox SET sent_at
MarkedByPass == pass.sent

\* Rows that were sent stay among those that are due (mutant).
KeptAfterPass == due \ DOMAIN pass.retry

LeftAfterPass == due \ (MarkedByPass \cup DOMAIN pass.retry)

\* The end of the batch, or the deadline; the first row is always before it.
DeliveryCommits ==
  /\ pass /= NoPass /\ pass.sent \cup DOMAIN pass.retry /= {}
  /\ LET again == {r \in DOMAIN pass.retry : pass.retry[r] = 0}
     IN /\ due' = LeftAfterPass \cup again
        /\ earlier' = Joined(Among(earlier, LeftAfterPass), LeftAfterPass, again)
        /\ waiting' = [r \in (DOMAIN pass.retry \ again) \cup DOMAIN waiting |->
                         IF r \in DOMAIN waiting THEN waiting[r] ELSE pass.retry[r]]
  /\ marked' = marked \cup MarkedByPass
  /\ delays' = [r \in Runs |-> IF r \in DOMAIN pass.retry THEN Doubled(delays[r]) ELSE delays[r]]
  /\ pass' = NoPass
  /\ UNCHANGED <<pending, sends, failures, deaths>>

\* The process stops or the transaction fails: nothing is marked, no delay kept.
DeliveryLost ==
  /\ pass /= NoPass /\ deaths < MaxDeaths /\ deaths' = deaths + 1
  /\ pass' = NoPass
  /\ UNCHANGED <<due, earlier, waiting, delays, marked, pending, sends, failures>>

OutboxNext ==
  \/ RowAdded \/ RunLeavesPending \/ TimePasses
  \/ DeliveryBegins \/ SendSucceeds \/ SendFails \/ DeliveryCommits \/ DeliveryLost

\* supervise starts a pass every fifteen seconds; a pass ends; time goes on.
OutboxProgress(i) ==
  \/ i = 1 /\ (DeliveryBegins \/ SendSucceeds \/ SendFails \/ DeliveryCommits)
  \/ i = 2 /\ TimePasses
  \/ i = 3 /\ RowAdded

OutboxSpec ==
  OutboxInit /\ [][OutboxNext]_outboxVars /\ \A i \in 1..3 : WF_outboxVars(OutboxProgress(i))

(***************************************************************************)
(* Properties                                                               *)
(***************************************************************************)
\* A row is due, waits or is marked, and those that are due are in one order; a pass
\* has some of these: to reach, sent, or to try again.
OutboxTypeOK ==
  /\ Known \cup pending \subseteq Runs /\ Ordered(earlier, due)
  /\ due \cap DOMAIN waiting = {} /\ marked \cap (due \cup DOMAIN waiting) = {}
  /\ \A r \in DOMAIN waiting : waiting[r] \in 1..MaxDelay
  /\ pass /= NoPass =>
       /\ pass \in Pass
       /\ pass.rows \cup pass.sent \cup DOMAIN pass.retry \subseteq due
       /\ pass.rows \cap (pass.sent \cup DOMAIN pass.retry) = {} /\ pass.sent \cap DOMAIN pass.retry = {}

\* A row that is marked as sent was sent: a run whose send failed, or that the pass
\* did not reach before its deadline, is not lost.
SentIsQueued == \A r \in marked : sends[r] > 0

\* A run is sent again only where the first answer or the pass that had it was lost,
\* however the passes and the runs' own changes come.
SentOnceButForLosses == \A r \in Runs : sends[r] <= 1 + failures + deaths

\* Every run that the queue would take reaches it or leaves Pending, however many runs
\* it never takes: these do not fill the batches.
NothingLeftToSend == \A r \in Runs \ Undeliverable : r \notin pending \/ sends[r] > 0
QueuedInTheEnd == <>[]NothingLeftToSend
=============================================================================
