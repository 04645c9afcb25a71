-------------------------------- MODULE Watchdogs --------------------------------
(***************************************************************************)
(* The two watchdogs of the table as the API's processes run them:           *)
(* supervise, with one thread for each task and none in place of one that    *)
(* hangs, and the scans, which take the advisory lock of their task and a    *)
(* limited number of rows.                                                   *)
(*                                                                          *)
(* Rows and what is done to them are those of JobStore.  Runs are numbered   *)
(* by the time of their creation.                                            *)
(***************************************************************************)
EXTENDS JobStore, FiniteSets, Orders

CONSTANTS
  Watched,         \* runs, numbered
  WatchedLocal,    \* those of the local runner
  Processes,       \* processes of the API
  ScanLimit,       \* rows a scan takes at most: 100
  SomeId,          \* the id of a Batch job
  NoScan, Hung,    \* a thread that runs no task, and one whose task hangs
  MaxHangs         \* bound: threads that hang

ASSUME WatchdogsAssumption ==
  /\ Watched \subseteq Nat /\ WatchedLocal \subseteq Watched /\ SomeId \in ExternalIds
  /\ ScanLimit \in Nat \ {0} /\ MaxHangs \in Nat

VARIABLES
  table,    \* rows
  asked,    \* of the runs being cancelled: which was asked for before which
  threads,  \* for each process and task: NoScan, Hung, or the rows its scan has locked
  hangs     \* counter

watchVars == <<table, asked, threads, hangs>>

Tasks == {"dispatch_watchdog", "cancellation_reconciliation"}

WatchdogsInit ==
  /\ table = [j \in Watched |-> NewRow]
  /\ asked = {}
  /\ threads = [p \in Processes |-> [t \in Tasks |-> NoScan]]
  /\ hangs = 0

Scans(p, t)  == threads[p][t] \notin {NoScan, Hung}
LockedRows   == {j \in Watched : \E p \in Processes, t \in Tasks : Scans(p, t) /\ j \in threads[p][t]}
AskedRuns    == {j \in Watched : table[j].status = "Cancelling"}

\* A handler waits for the lock of its row.
Changes(j, row) ==
  /\ j \notin LockedRows /\ row /= table[j]
  /\ table' = [table EXCEPT ![j] = row]
  /\ asked' = IF row.status /= "Cancelling" THEN Among(asked, AskedRuns \ {j})
              ELSE IF table[j].status = "Cancelling" THEN asked ELSE Joined(asked, AskedRuns, {j})
  /\ UNCHANGED <<threads, hangs>>

TimeGoesOn ==
  /\ table' = [j \in Watched |-> Aged(table[j])]
  /\ UNCHANGED <<asked, threads, hangs>>

\* The dispatcher, a user and the runners, meanwhile.
RunIsLinked(j)  == j \notin WatchedLocal /\ Unlinked(table[j]) /\ Changes(j, Bind(table[j], SomeId))
RunIsStopped(j) == Changes(j, RequestCancel(table[j]))
StopConfirmed(j) == table[j].status = "Cancelling" /\ Changes(j, CompleteCancel(table[j]))
LocalReport(j)  == j \in WatchedLocal /\ table[j].status = "Pending" /\ Changes(j, Report(table[j], "Running"))

(***************************************************************************)
(* Scans                                                                    *)
(***************************************************************************)
Expired     == {j \in Watched \ WatchedLocal : Overdue(table[j])}
Unconfirmed == {j \in AskedRuns : table[j].cancelAge = CancelTimeout}

\* Runs of the local runner expire too (mutant).
ExpiredOfAny == FirstOf({j \in Watched : Overdue(table[j])}, ById(Watched), ScanLimit)

ExpiredRows == FirstOf(Expired, ById(Watched), ScanLimit)

\* Those asked for last are looked at first (mutant).
UnconfirmedLast == FirstOf(Unconfirmed, {<<a[2], a[1]>> : a \in asked}, ScanLimit)

UnconfirmedRows == FirstOf(Unconfirmed, asked, ScanLimit)

RowsFor(t) == IF t = "dispatch_watchdog" THEN ExpiredRows ELSE UnconfirmedRows

\* supervise starts a task unless its last run is still under way in this process; the
\* lock is had or the scan returns; its rows are locked.  (A scan that finds nothing is
\* left out; the rows of the two tasks differ in status, so that none skips another's.)
ScanBegins(p, t) ==
  /\ threads[p][t] = NoScan /\ \A q \in Processes : ~Scans(q, t)
  /\ RowsFor(t) /= {}
  /\ threads' = [threads EXCEPT ![p][t] = RowsFor(t)]
  /\ UNCHANGED <<table, asked, hangs>>

\* A run that hangs keeps its thread for good (it has not begun its transaction).
ThreadHangs(p, t) ==
  /\ threads[p][t] = NoScan /\ hangs < MaxHangs
  /\ threads' = [threads EXCEPT ![p][t] = Hung] /\ hangs' = hangs + 1
  /\ UNCHANGED <<table, asked>>

Flagged(row) == [row EXCEPT !.reason = "unconfirmed"]

ScanCommits(p, t) ==
  /\ Scans(p, t)
  /\ table' = [j \in Watched |->
                 IF j \notin threads[p][t] THEN table[j]
                 ELSE IF t = "dispatch_watchdog" THEN Expire(table[j]) ELSE Flagged(table[j])]
  /\ threads' = [threads EXCEPT ![p][t] = NoScan]
  /\ UNCHANGED <<asked, hangs>>

RunsTask(p, t) == ScanBegins(p, t) \/ ScanCommits(p, t)

WatchdogsNext ==
  \/ TimeGoesOn
  \/ \E j \in Watched : RunIsLinked(j) \/ RunIsStopped(j) \/ StopConfirmed(j) \/ LocalReport(j)
  \/ \E p \in Processes, t \in Tasks : RunsTask(p, t) \/ ThreadHangs(p, t)

\* Time passes, and each task is started again and again wherever its thread is free.
WatchdogsProgress(i) ==
  \/ i = 1 /\ TimeGoesOn
  \/ i = 2 /\ \E p \in Processes : RunsTask(p, "dispatch_watchdog")
  \/ i = 3 /\ \E p \in Processes : RunsTask(p, "cancellation_reconciliation")

WatchdogsSpec ==
  WatchdogsInit /\ [][WatchdogsNext]_watchVars /\ \A i \in 1..3 : WF_watchVars(WatchdogsProgress(i))

(***************************************************************************)
(* Properties                                                               *)
(***************************************************************************)
\* The rows have their types, and the runs being cancelled are in one order.
WatchdogsTypeOK == table \in [Watched -> Row] /\ Ordered(asked, AskedRuns)

\* Only a Batch run is given up as unknown, and no row a scan has locked changes under
\* it: what it writes is of the row it chose.
GivenUpIsBatch == \A j \in WatchedLocal : table[j].status /= "Dispatch unknown"
ChosenStaysDue ==
  \A p \in Processes :
    /\ Scans(p, "dispatch_watchdog") =>
         \A j \in threads[p]["dispatch_watchdog"] : Overdue(table[j])
    /\ Scans(p, "cancellation_reconciliation") =>
         \A j \in threads[p]["cancellation_reconciliation"] :
           table[j].status = "Cancelling" /\ table[j].cancelAge = CancelTimeout

\* With a process whose threads for it did not hang, no Batch run stays unlinked, however
\* many expire at once; and a cancellation that is not confirmed is flagged, unless as
\* many as a scan takes were asked for before it and are not confirmed either.
AllGivenUp == \A j \in Watched \ WatchedLocal : ~Unlinked(table[j])
Crowded(j) == Cardinality({k \in AskedRuns : <<k, j>> \in asked}) >= ScanLimit
AllFlagged == \A j \in AskedRuns : table[j].reason = "unconfirmed" \/ Crowded(j)
WatchesGoOn ==
  /\ (\E p \in Processes : threads[p]["dispatch_watchdog"] /= Hung) => AllGivenUp
  /\ (\E p \in Processes : threads[p]["cancellation_reconciliation"] /= Hung) => AllFlagged
WatchdogsGoOn == <>[]WatchesGoOn
=============================================================================
