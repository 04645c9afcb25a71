------------------------------ MODULE QueuePanel ------------------------------
(***************************************************************************)
(* The queue dashboard of the administration pages (QueueDashboard.tsx over  *)
(* GET /admin/queues): the active runs under a filter, read again every      *)
(* thirty seconds whether or not the last reading failed, and the            *)
(* cancellation of several ticked runs at once.                              *)
(*                                                                          *)
(* Each filter has a query of its own.  Ticks are kept by the page and not   *)
(* by the list: they outlive filters and readings, and a run that has        *)
(* stopped being cancellable can not be unticked.                            *)
(***************************************************************************)
EXTENDS Naturals, FiniteSets, Browser, RunStatus

CONSTANTS
  Queued,         \* the runs
  StateFilters,   \* "all" and states to filter by
  MaxRunMoves,    \* bound: what the server does of itself
  MaxPresses,     \* bound: what the user does
  MaxQueueErrors  \* bound: requests that fail

ASSUME QueuePanelAssumption ==
  /\ "all" \in StateFilters /\ StateFilters \subseteq {"all", "Pending", "Running", "Cancelling", "Dispatch unknown"}
  /\ MaxRunMoves \in Nat /\ MaxPresses \in Nat /\ MaxQueueErrors \in Nat

VARIABLES
  served,      \* the state of each run on the server
  stateFilter,
  lists,       \* for each filter its query
  ticked, bulkOpen,
  bulks,       \* bulk cancellations under way: the runs whose request is not answered
  chosen,      \* history: runs ticked while shown as cancellable
  strays,      \* history: runs sent for cancellation that had not been chosen
  presses, queueErrors, runMoves  \* counters

queueVars == <<served, stateFilter, lists, ticked, bulkOpen, bulks, strays, chosen, presses, queueErrors, runMoves>>

\* A run in the queues, or one that has left them; the server may also take it back.
InQueues(s) == IF s \in {"Completed", "Failed", "Cancelled"} THEN "over" ELSE s
QueueStates == {InQueues(s) : s \in JobStatus}
NextState   == [s \in QueueStates |-> IF s = "over" THEN {} ELSE {InQueues(t) : t \in Becomes[s]}]

\* The rows of GET /admin/queues, all of them recent and of one office
Rows(f) == LET active == {j \in Queued : served[j] /= "over" /\ f \in {"all", served[j]}}
           IN [j \in active |-> served[j]]

Asking(q) == [q EXCEPT !.reading = Rows(stateFilter)]

QueuePanelInit ==
  /\ served = [j \in Queued |-> "Pending"] /\ stateFilter = "all"
  /\ lists = [f \in StateFilters |-> [data |-> None, failed |-> FALSE,
                                       reading |-> IF f = "all" THEN Rows(f) ELSE None]]
  /\ ticked = {} /\ bulkOpen = FALSE /\ bulks = {} /\ strays = {} /\ chosen = {}
  /\ presses = 0 /\ queueErrors = 0 /\ runMoves = 0

RunMoves ==
  /\ runMoves < MaxRunMoves /\ runMoves' = runMoves + 1
  /\ \E j \in Queued : \E s \in NextState[served[j]] : served' = [served EXCEPT ![j] = s]
  /\ UNCHANGED <<stateFilter, lists, ticked, bulkOpen, bulks, strays, chosen, presses, queueErrors>>

(***************************************************************************)
(* Readings                                                                 *)
(***************************************************************************)
QueueError == queueErrors < MaxQueueErrors /\ queueErrors' = queueErrors + 1

\* A failed list is not read again (mutant).
DueUnlessFailed(q) == q.reading = None /\ ~q.failed

\* refetchInterval, whatever the last reading did
QueueDue(q) == q.reading = None

\* The interval, Refresh queues and the notification's retry
ReadQueue ==
  /\ QueueDue(lists[stateFilter])
  /\ lists' = [lists EXCEPT ![stateFilter] = Asking(lists[stateFilter])]
  /\ UNCHANGED <<served, stateFilter, ticked, bulkOpen, bulks, strays, chosen, presses, queueErrors, runMoves>>

QueueArrives ==
  \E f \in StateFilters :
    /\ lists[f].reading /= None
    /\ lists' = [lists EXCEPT ![f] = [data |-> lists[f].reading, reading |-> None, failed |-> FALSE]]
    /\ UNCHANGED <<served, stateFilter, ticked, bulkOpen, bulks, strays, chosen, presses, queueErrors, runMoves>>

QueueFails ==
  \E f \in StateFilters :
    /\ QueueError /\ lists[f].reading /= None
    /\ lists' = [lists EXCEPT ![f].reading = None, ![f].failed = TRUE]
    /\ UNCHANGED <<served, stateFilter, ticked, bulkOpen, bulks, strays, chosen, presses, runMoves>>

(***************************************************************************)
(* The page; without a list it shows neither filters nor runs               *)
(***************************************************************************)
Listing    == lists[stateFilter].data
PanelShown == Listing /= None /\ ~lists[stateFilter].failed
Press      == PanelShown /\ presses < MaxPresses /\ presses' = presses + 1

Cancellable == {j \in DOMAIN Listing : Listing[j] \in {"Pending", "Running"}}

FilterQueue ==
  /\ Press /\ ~bulkOpen
  /\ stateFilter' \in StateFilters \ {stateFilter}
  /\ lists' = LET f == stateFilter' IN
       [lists EXCEPT ![f].reading = IF lists[f].reading = None THEN Rows(f) ELSE lists[f].reading]
  /\ UNCHANGED <<served, ticked, bulkOpen, bulks, strays, chosen, queueErrors, runMoves>>

Toggle ==
  /\ Press /\ ~bulkOpen
  /\ \E j \in Cancellable :
       /\ ticked' = IF j \in ticked THEN ticked \ {j} ELSE ticked \cup {j}
       /\ chosen' = chosen \cup {j}
  /\ UNCHANGED <<served, stateFilter, lists, bulkOpen, bulks, strays, queueErrors, runMoves>>

\* Every run of the list is ticked (mutant).
SelectEvery ==
  /\ Press /\ ~bulkOpen /\ Cancellable /= {}
  /\ ticked' = DOMAIN Listing /\ chosen' = chosen \cup Cancellable
  /\ UNCHANGED <<served, stateFilter, lists, bulkOpen, bulks, strays, queueErrors, runMoves>>

SelectAll ==
  /\ Press /\ ~bulkOpen /\ Cancellable /= {}
  /\ ticked' = Cancellable /\ chosen' = chosen \cup Cancellable
  /\ UNCHANGED <<served, stateFilter, lists, bulkOpen, bulks, strays, queueErrors, runMoves>>

OpenBulk ==
  /\ Press /\ ~bulkOpen /\ ticked /= {} /\ bulkOpen' = TRUE
  /\ UNCHANGED <<served, stateFilter, lists, ticked, bulks, strays, chosen, queueErrors, runMoves>>

CloseBulk ==
  /\ Press /\ bulkOpen /\ bulkOpen' = FALSE
  /\ UNCHANGED <<served, stateFilter, lists, ticked, bulks, strays, chosen, queueErrors, runMoves>>

\* Everything the list has now is cancelled (mutant).
BulkOfShown == Cancellable \cup ticked

Bulk == ticked

\* Confirm cancellation, which stays enabled while the requests are under way
ConfirmBulk ==
  /\ Press /\ bulkOpen
  /\ bulks' = bulks \cup {[waiting |-> Bulk, number |-> presses]} /\ strays' = strays \cup (Bulk \ chosen)
  /\ UNCHANGED <<served, stateFilter, lists, ticked, bulkOpen, chosen, queueErrors, runMoves>>

\* cancel_job: a queued run is removed or its Batch job asked to stop.
Cancelled == [s \in QueueStates |->
  IF s = "Pending" THEN {"over", "Cancelling"} ELSE IF s = "over" THEN {"over"} ELSE {"Cancelling"}]

\* A request of the bulk ends; it had its effect, unless it did not arrive.
CallEnds ==
  \E b \in bulks : \E j \in b.waiting :
    /\ bulks' = (bulks \ {b}) \cup {[b EXCEPT !.waiting = @ \ {j}]}
    /\ \/ \E s \in Cancelled[served[j]] : served' = [served EXCEPT ![j] = s] /\ UNCHANGED queueErrors
       \/ QueueError /\ UNCHANGED served
    /\ UNCHANGED <<stateFilter, lists, ticked, bulkOpen, strays, chosen, presses, runMoves>>

\* The modal is left open (mutant).
BulkEndsOpen ==
  \E b \in bulks :
    /\ b.waiting = {} /\ bulks' = bulks \ {b} /\ ticked' = {}
    /\ lists' = [lists EXCEPT ![stateFilter] = Asking(lists[stateFilter])]
    /\ UNCHANGED <<served, stateFilter, bulkOpen, strays, chosen, presses, queueErrors, runMoves>>

\* Ticks made meanwhile go too; a reading under way gives way to a new one.
BulkEnds ==
  \E b \in bulks :
    /\ b.waiting = {} /\ bulks' = bulks \ {b} /\ ticked' = {} /\ bulkOpen' = FALSE
    /\ lists' = [lists EXCEPT ![stateFilter] = Asking(lists[stateFilter])]
    /\ UNCHANGED <<served, stateFilter, strays, chosen, presses, queueErrors, runMoves>>

QueuePanelNext ==
  \/ RunMoves \/ ReadQueue \/ QueueArrives \/ QueueFails
  \/ FilterQueue \/ Toggle \/ SelectAll \/ OpenBulk \/ CloseBulk \/ ConfirmBulk \/ CallEnds \/ BulkEnds

\* The interval runs while the tab is visible; requests end.
QueueProgress(i) ==
  \/ i = 1 /\ ReadQueue
  \/ i = 2 /\ (QueueArrives \/ QueueFails)
QueuePanelFairness == \A i \in 1..2 : WF_queueVars(QueueProgress(i))

QueuePanelSpec == QueuePanelInit /\ [][QueuePanelNext]_queueVars /\ QueuePanelFairness

(***************************************************************************)
(* Properties                                                               *)
(***************************************************************************)
Tables == UNION {[S -> QueueStates] : S \in SUBSET Queued}

\* Shape of the state; what is ticked could once be cancelled.
QueueTypeOK ==
  /\ served \in [Queued -> QueueStates] /\ stateFilter \in StateFilters
  /\ \A f \in StateFilters : lists[f].data \in Tables \cup {None} /\ lists[f].reading \in Tables \cup {None}
  /\ ticked \subseteq chosen /\ bulkOpen \in BOOLEAN

\* A bulk cancellation reaches no run but those the user ticked while the list showed
\* them as cancellable, whatever the list becomes before it is confirmed or while its
\* requests are under way (selected and bulkCancel).
BulkReachesTicked == strays = {}

\* The modal never stands open about no run, although a bulk that ends takes every
\* tick, also those of a later one (setSelected and setBulkOpen of bulkCancel).
OpenBulkHasRuns == bulkOpen => ticked /= {}

\* A run that is over leaves the list, through readings that fail or are abandoned
\* and whichever filter is chosen: a list that failed recovers (refetchInterval).
QueueCatchesUp ==
  []<>((\E j \in Queued : served[j] = "over") =>
         PanelShown /\ \A j \in DOMAIN Listing : served[j] /= "over")

\* A bulk cancellation is of runs that were ticked, and never of none.
BulkAsTicked == QueueTypeOK /\ BulkReachesTicked /\ OpenBulkHasRuns
=============================================================================
