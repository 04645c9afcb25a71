------------------------------- MODULE RunViews -------------------------------
(***************************************************************************)
(* One run as the web pages show it: the viewer's query (useJobDetails.ts),  *)
(* polled every five seconds until the run is over, the list of the latest   *)
(* runs (useJobsList.ts), polled while the scripts are listed, what each     *)
(* writes into the other, and Cancel run (CancelJobButton.tsx).              *)
(*                                                                          *)
(* A query holds its last data, the reading under way with what the server   *)
(* read for it, and whether the last reading failed, which stops the         *)
(* polling.  An errored query without data is not read again on mount        *)
(* (retryOnMount in queryClient.ts).                                         *)
(*                                                                          *)
(* The server may take a run back, from Cancelling to Running say, so what   *)
(* is read of a run carries the number of changes its status had by then:    *)
(* no page sees that number, but it tells what is older from what is newer.  *)
(***************************************************************************)
EXTENDS Naturals, Browser, RunStatus

CONSTANTS
  MaxFailures, \* bound: readings and cancellations that fail
  MaxMoves,    \* bound: pages entered
  MaxChanges   \* bound: changes of the status that no one on these pages asked for

ASSUME RunViewsAssumption == MaxFailures \in Nat /\ MaxMoves \in Nat /\ MaxChanges \in Nat

VARIABLES
  status,     \* of the job, on the server
  changes,    \* history: how often that changed
  screen,     \* the page: see Screens
  detail,     \* the viewer's query
  latest,     \* the list's query, as far as it is about this job
  cancelling, \* Cancel run: the modal and its request
  failures, moves   \* counters

viewVars == <<status, changes, screen, detail, latest, cancelling, failures, moves>>

\* The scripts list, the same with a run open beside it or an editor, the page of
\* the run, any other page
Screens  == {"scripts", "viewing", "editing", "run", "away"}
Final    == {"Completed", "Failed", "Cancelled"}

\* What a page is told of the run, and the status in it
Told     == [is : JobStatus, at : Nat]
Shown(d) == IF d = None THEN None ELSE d.is

Viewed(p)  == p \in {"viewing", "run"}
Listed(p)  == p \in {"scripts", "viewing"}
NoQuery    == [data |-> None, reading |-> None, failed |-> FALSE]

RunViewsInit ==
  /\ status = "Pending" /\ changes = 0 /\ screen = "away"
  /\ detail = NoQuery /\ latest = NoQuery
  /\ cancelling = "closed" /\ failures = 0 /\ moves = 0

ServerMoves ==
  /\ changes < MaxChanges /\ changes' = changes + 1
  /\ status' \in Becomes[status]
  /\ UNCHANGED <<screen, detail, latest, cancelling, failures, moves>>

(***************************************************************************)
(* Readings                                                                 *)
(***************************************************************************)
Reading(q) == [q EXCEPT !.reading = [is |-> status, at |-> changes]]

\* On mount: every query is stale at once, but one reading at a time.
OnMount(q) == IF q.reading = None /\ (q.data /= None \/ ~q.failed) THEN Reading(q) ELSE q

\* The effect of useJobDetails: the row of the job says what the viewer does, and a
\* list that failed counts as read again.
Observed(q, d, p) ==
  IF Viewed(p) /\ d /= None /\ q.data /= None THEN [q EXCEPT !.data = d, !.failed = FALSE] ELSE q

\* A viewer that is closed counts too (mutant).
MergedAlways(job) ==
  IF job.is \in {"Completed", "Failed"} \/ detail.failed THEN job
  ELSE IF detail.data /= None THEN detail.data ELSE job

\* The response is stored as it is (mutant).
MergedNot(job) == job

\* mergeObservedJobs
Merged(job) ==
  IF job.is \in {"Completed", "Failed"} \/ detail.failed THEN job
  ELSE IF Viewed(screen) /\ detail.data /= None THEN detail.data ELSE job

\* Only a completed or failed run ends the polling, and so does cancellation (mutant).
DetailPollsUntilCancelling ==
  Viewed(screen) /\ ~detail.failed /\ Shown(detail.data) \notin Final \cup {"Cancelling"}

DetailPolls == Viewed(screen) /\ ~detail.failed /\ Shown(detail.data) \notin Final

ReadDetail ==
  /\ DetailPolls /\ detail.reading = None /\ detail' = Reading(detail)
  /\ UNCHANGED <<status, changes, screen, latest, cancelling, failures, moves>>

ReadLatest ==
  /\ Listed(screen) /\ ~latest.failed /\ latest.reading = None /\ latest' = Reading(latest)
  /\ UNCHANGED <<status, changes, screen, detail, cancelling, failures, moves>>

\* Refresh, Retry of the page or of the notification, or the connection comes back
ReadAgain ==
  /\ \/ /\ Viewed(screen) \/ detail.failed
        /\ detail.reading = None /\ detail' = Reading(detail) /\ UNCHANGED latest
     \/ /\ Listed(screen) \/ latest.failed
        /\ latest.reading = None /\ latest' = Reading(latest) /\ UNCHANGED detail
  /\ UNCHANGED <<status, changes, screen, cancelling, failures, moves>>

DetailArrives ==
  /\ detail.reading /= None
  /\ detail' = [data |-> detail.reading, reading |-> None, failed |-> FALSE]
  /\ latest' = Observed(latest, detail.reading, screen)
  /\ UNCHANGED <<status, changes, screen, cancelling, failures, moves>>

LatestArrives ==
  /\ latest.reading /= None
  /\ latest' = [data |-> Merged(latest.reading), reading |-> None, failed |-> FALSE]
  /\ UNCHANGED <<status, changes, screen, detail, cancelling, failures, moves>>

Fails == failures < MaxFailures /\ failures' = failures + 1

DetailFails ==
  /\ Fails /\ detail.reading /= None
  /\ detail' = [detail EXCEPT !.reading = None, !.failed = TRUE]
  /\ UNCHANGED <<status, changes, screen, latest, cancelling, moves>>

LatestFails ==
  /\ Fails /\ latest.reading /= None
  /\ latest' = [latest EXCEPT !.reading = None, !.failed = TRUE]
  /\ UNCHANGED <<status, changes, screen, detail, cancelling, moves>>

(***************************************************************************)
(* What is said of the run in the list                                      *)
(***************************************************************************)
\* ScriptRunIndicators
Indicator(row) ==
  IF row \in {"Running", "Pending"} THEN "active"
  ELSE IF row \in {"Failed", "Dispatch unknown"} THEN "warning" ELSE "none"

\* LatestScriptRun
LatestRun(row) ==
  IF latest.failed THEN "unavailable"
  ELSE IF row = None THEN "loading"
  ELSE IF row = "Pending" THEN "Queued" ELSE row

(***************************************************************************)
(* Pages                                                                    *)
(***************************************************************************)
\* A viewer opens with what the list says (mutant).
EntersFromRow(p) ==
  LET opens == Viewed(p) /\ ~Viewed(screen) IN
  /\ screen' = p
  /\ detail' = IF ~opens THEN detail
               ELSE [OnMount(detail) EXCEPT !.data = IF latest.data = None THEN @ ELSE latest.data]
  /\ latest' = IF Listed(p) /\ ~Listed(screen) THEN OnMount(latest) ELSE latest

\* Entering page p mounts what it shows.  A viewer that opens with data from an
\* earlier visit writes them into the row before it has read anything.
Enters(p) ==
  /\ screen' = p
  /\ detail' = IF Viewed(p) THEN OnMount(detail) ELSE detail
  /\ latest' = LET q == IF Listed(p) /\ ~Listed(screen) THEN OnMount(latest) ELSE latest
               IN Observed(q, detail.data, p)

\* The modal outlives the page it was opened on (mutant).
GoFromModal ==
  /\ moves < MaxMoves /\ moves' = moves + 1
  /\ \E p \in Screens \ {screen} : Enters(p)
  /\ UNCHANGED <<status, changes, cancelling, failures>>

\* The modal covers the page; once confirmed it may be gone with the button.
Go ==
  /\ moves < MaxMoves /\ moves' = moves + 1 /\ cancelling \in {"closed", "sent", "done"}
  /\ \E p \in Screens \ {screen} : Enters(p)
  /\ UNCHANGED <<status, changes, cancelling, failures>>

\* Data nobody looks at are dropped after a while.
Forget ==
  /\ ~Viewed(screen) /\ detail.reading = None /\ detail' = NoQuery
  /\ UNCHANGED <<status, changes, screen, latest, cancelling, failures, moves>>

(***************************************************************************)
(* Cancel run                                                               *)
(***************************************************************************)
CancelShown == Viewed(screen) /\ Shown(detail.data) \in {"Pending", "Running"} /\ ~detail.failed

OpenCancel ==
  /\ CancelShown /\ cancelling = "closed" /\ cancelling' = "opened"
  /\ UNCHANGED <<status, changes, screen, detail, latest, failures, moves>>

\* The modal goes away when the run is seen not to be active any more.
CloseCancel ==
  /\ cancelling = "opened" /\ cancelling' = "closed"
  /\ UNCHANGED <<status, changes, screen, detail, latest, failures, moves>>

ConfirmCancel ==
  /\ CancelShown /\ cancelling = "opened" /\ cancelling' = "sent"
  /\ UNCHANGED <<status, changes, screen, detail, latest, failures, moves>>

\* A run that is over, or being cancelled, is left as it is, and one that nothing has
\* claimed is cancelled at once.
CancelReceived ==
  /\ cancelling = "sent" /\ cancelling' = "done"
  /\ \/ status \in {"Pending", "Running", "Dispatch unknown"} /\ status' = "Cancelling"
     \/ status = "Pending" /\ status' = "Cancelled"
     \/ status \in Final \cup {"Cancelling"} /\ status' = status
  /\ changes' = IF status' = status THEN changes ELSE changes + 1
  /\ UNCHANGED <<screen, detail, latest, failures, moves>>

\* Both queries are read again, a reading under way being abandoned, and the page of
\* the run is entered from wherever the user went.
CancelAnswered ==
  /\ cancelling = "done" /\ cancelling' = "closed"
  /\ screen' = "run"
  /\ detail' = IF Viewed(screen) THEN Reading(detail) ELSE OnMount(detail)
  /\ latest' = LET q == IF Listed(screen) THEN Reading(latest) ELSE latest
               IN IF screen = "run" THEN q ELSE Observed(q, detail.data, "run")
  /\ UNCHANGED <<status, changes, failures, moves>>

CancelFails ==
  /\ Fails /\ cancelling \in {"sent", "done"} /\ cancelling' = "closed"
  /\ UNCHANGED <<status, changes, screen, detail, latest, moves>>

RunViewsNext ==
  \/ ServerMoves \/ ReadDetail \/ ReadLatest \/ ReadAgain
  \/ DetailArrives \/ LatestArrives \/ DetailFails \/ LatestFails
  \/ Go \/ Forget
  \/ OpenCancel \/ CloseCancel \/ ConfirmCancel \/ CancelReceived \/ CancelAnswered \/ CancelFails

\* The five-second intervals go on while the tab is visible, and a request ends with
\* an answer or an error.
ViewsProgress(i) ==
  \/ i = 1 /\ ReadDetail
  \/ i = 2 /\ ReadLatest
  \/ i = 3 /\ (DetailArrives \/ DetailFails)
  \/ i = 4 /\ (LatestArrives \/ LatestFails)
RunViewsFairness == \A i \in 1..4 : WF_viewVars(ViewsProgress(i))

RunViewsSpec == RunViewsInit /\ [][RunViewsNext]_viewVars /\ RunViewsFairness

(***************************************************************************)
(* Properties                                                               *)
(***************************************************************************)
Queries == [data : Told \cup {None}, reading : Told \cup {None}, failed : BOOLEAN]

\* Shape of the state; no query is ahead of the server, and Cancel run is asked
\* about on a page that shows the run.
ViewsTypeOK ==
  /\ status \in JobStatus /\ changes \in Nat /\ screen \in Screens
  /\ {detail, latest} \subseteq Queries
  /\ \A d \in {detail.data, detail.reading, latest.data, latest.reading} \ {None} :
       d.at <= changes /\ (d.at = changes => d.is = status)
  /\ cancelling \in {"closed", "opened", "sent", "done"}
  /\ cancelling = "opened" => Viewed(screen)

\* The list never contradicts the run open beside it, in whatever order the two
\* readings end: its row says what the viewer says, or that the run completed or
\* failed (mergeObservedJobs and the effect of useJobDetails).
RowAgreesWithViewer ==
  Viewed(screen) /\ detail.data /= None /\ ~detail.failed /\ latest.data /= None =>
    latest.data.is \in {detail.data.is, "Completed", "Failed"}

\* While a run stays in the cache, its viewer never goes back to what the server said
\* earlier, whatever is read, abandoned, cancelled or left meanwhile: a status that it
\* had before comes again only if the server went back to it.
DetailNeverRegresses ==
  [][detail.data /= None /\ detail'.data /= None => detail'.data.at >= detail.data.at]_viewVars

\* The viewer of a run that is over says so, unless it shows an error or is closed
\* (refetchInterval of useJobDetails).
ViewerSettles ==
  []<>(status \in Final => Shown(detail.data) = status \/ detail.failed \/ ~Viewed(screen))

\* So do the badge and the latest run in the list, although each reading of the list
\* may be overwritten by what the viewer knew (mergeObservedJobs).
RowSettles ==
  []<>(status \in Final =>
         \/ Indicator(Shown(latest.data)) = Indicator(status) /\ LatestRun(Shown(latest.data)) = status
         \/ latest.failed \/ ~Listed(screen))
=============================================================================
