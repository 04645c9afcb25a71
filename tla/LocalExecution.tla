----------------------------- MODULE LocalExecution -----------------------------
(***************************************************************************)
(* One run of the local runner: the loop that takes its message, the         *)
(* executor with its container, and a user who cancels.  The row and what    *)
(* the calls do to it are those of JobStore.                                 *)
(*                                                                          *)
(* There is one loop.  It deletes a message after its run; when it stops     *)
(* before, the message comes again, to the loop that is started next.        *)
(***************************************************************************)
EXTENDS JobStore, Sequences

CONSTANTS
  MaxStops,     \* bound: times the loop stops
  MaxStoreFails \* bound: outputs that cannot be stored

ASSUME LocalAssumption == {MaxStops, MaxStoreFails} \subseteq Nat

VARIABLES
  scheduled,   \* the run is an occurrence of a schedule
  localRow,    \* its row
  message,     \* "queued", "taken" or "deleted"
  executor,    \* where the executor stands
  containers,  \* the run's containers in the order of their start: how they stand
  canceller,   \* where the request to cancel stands
  stops, storeFails

localVars == <<scheduled, localRow, message, executor, containers, canceller, stops, storeFails>>

LocalInit ==
  /\ scheduled \in BOOLEAN
  /\ localRow = NewRow
  /\ message = "queued" /\ executor = "idle" /\ containers = <<>> /\ canceller = "idle"
  /\ stops = 0 /\ storeFails = 0

Mine == containers[Len(containers)]
At(place) == executor = place
ReportOf(status) == localRow' = Report(localRow, status)

(***************************************************************************)
(* The loop and the executor                                                *)
(***************************************************************************)
TakeMessage ==
  /\ At("idle") /\ message = "queued"
  /\ message' = "taken" /\ executor' = IF scheduled THEN "claiming" ELSE "checking"
  /\ UNCHANGED <<scheduled, localRow, containers, canceller, stops, storeFails>>

\* A claimed run is claimed again (mutant).
ClaimAnew ==
  /\ At("claiming")
  /\ localRow' = Claim(localRow)
  /\ executor' = IF localRow.status = "Pending" THEN "checking" ELSE "done"
  /\ UNCHANGED <<scheduled, message, containers, canceller, stops, storeFails>>

\* claim_scheduled_dispatch: what comes again was claimed before.
ClaimOccurrence ==
  /\ At("claiming")
  /\ localRow' = Claim(localRow)
  /\ executor' = IF Claimable(localRow) THEN "checking" ELSE "done"
  /\ UNCHANGED <<scheduled, message, containers, canceller, stops, storeFails>>

\* The message is taken at its word (mutant).
CheckNothing ==
  /\ At("checking") /\ executor' = "starting"
  /\ UNCHANGED <<scheduled, localRow, message, containers, canceller, stops, storeFails>>

CheckPending ==
  /\ At("checking")
  /\ executor' = IF localRow.status = "Pending" THEN "starting" ELSE "done"
  /\ UNCHANGED <<scheduled, localRow, message, containers, canceller, stops, storeFails>>

\* containers.run; or it fails, as for a command that cannot be built.
StartContainer ==
  /\ At("starting")
  /\ \/ containers' = Append(containers, "running") /\ executor' = "started"
     \/ executor' = "failing" /\ UNCHANGED containers
  /\ UNCHANGED <<scheduled, localRow, message, canceller, stops, storeFails>>

\* A run that was cancelled while its container started is stopped.
CheckCancelled ==
  /\ At("started")
  /\ IF localRow.status = "Cancelled"
     THEN /\ containers' = [containers EXCEPT ![Len(containers)] =
                              IF @ = "running" THEN "failed" ELSE @]
          /\ executor' = "done"
     ELSE executor' = "reporting" /\ UNCHANGED containers
  /\ UNCHANGED <<scheduled, localRow, message, canceller, stops, storeFails>>

ReportRunning ==
  /\ At("reporting") /\ ReportOf("Running") /\ executor' = "waiting"
  /\ UNCHANGED <<scheduled, message, containers, canceller, stops, storeFails>>

\* container.wait, taken not to lose its connection; the output is stored before the
\* outcome.
StoreOutput ==
  /\ At("waiting") /\ Mine /= "running"
  /\ \/ executor' = "finishing" /\ UNCHANGED storeFails
     \/ storeFails < MaxStoreFails /\ storeFails' = storeFails + 1 /\ executor' = "failing"
  /\ UNCHANGED <<scheduled, localRow, message, containers, canceller, stops>>

\* Whatever the exit code (mutant).
ReportCompleted ==
  /\ At("finishing") /\ ReportOf("Completed") /\ executor' = "done"
  /\ UNCHANGED <<scheduled, message, containers, canceller, stops, storeFails>>

ReportOutcome ==
  /\ At("finishing")
  /\ ReportOf(IF Mine = "ok" THEN "Completed" ELSE "Failed")
  /\ executor' = "done"
  /\ UNCHANGED <<scheduled, message, containers, canceller, stops, storeFails>>

\* except: the run has failed, and the exception ends the loop.
ReportFailure ==
  /\ At("failing") /\ ReportOf("Failed")
  /\ executor' = "idle" /\ message' = "queued"
  /\ UNCHANGED <<scheduled, containers, canceller, stops, storeFails>>

DeleteMessage ==
  /\ At("done") /\ executor' = "idle" /\ message' = "deleted"
  /\ UNCHANGED <<scheduled, localRow, containers, canceller, stops, storeFails>>

LoopStops ==
  /\ ~At("idle") /\ stops < MaxStops /\ stops' = stops + 1
  /\ executor' = "idle" /\ message' = "queued"
  /\ UNCHANGED <<scheduled, localRow, containers, canceller, storeFails>>

ContainerExits ==
  /\ \E i \in DOMAIN containers, how \in {"ok", "failed"} :
       containers[i] = "running" /\ containers' = [containers EXCEPT ![i] = how]
  /\ UNCHANGED <<scheduled, localRow, message, executor, canceller, stops, storeFails>>

(***************************************************************************)
(* A user cancels: cancel_job                                               *)
(***************************************************************************)
CancelLocal ==
  /\ canceller = "idle" /\ localRow.status \notin Finished
  /\ localRow' = RequestCancel(localRow)
  /\ canceller' = IF Stops(localRow) THEN "stopping" ELSE "idle"
  /\ UNCHANGED <<scheduled, message, executor, containers, stops, storeFails>>

\* The containers are left to end by themselves (mutant).
StopNothing ==
  /\ canceller = "stopping" /\ canceller' = "stopped"
  /\ UNCHANGED <<scheduled, localRow, message, executor, containers, stops, storeFails>>

\* stop_local_job: every running container of the run, which may end well all the
\* same; with none it is refused.
StopContainers ==
  /\ canceller = "stopping"
  /\ LET running == {i \in DOMAIN containers : containers[i] = "running"}
     IN /\ canceller' = IF running = {} THEN "refused" ELSE "stopped"
        /\ \E how \in {"ok", "failed"} :
             containers' = [i \in DOMAIN containers |-> IF i \in running THEN how ELSE containers[i]]
  /\ UNCHANGED <<scheduled, localRow, message, executor, stops, storeFails>>

EndCancel ==
  /\ canceller \in {"stopped", "refused"} /\ canceller' = "idle"
  /\ localRow' = IF canceller = "stopped" THEN CompleteCancel(localRow) ELSE RevertCancel(localRow)
  /\ UNCHANGED <<scheduled, message, executor, containers, stops, storeFails>>

ExecutorStep ==
  \/ TakeMessage \/ ClaimOccurrence \/ CheckPending \/ StartContainer \/ CheckCancelled
  \/ ReportRunning \/ StoreOutput \/ ReportOutcome \/ ReportFailure \/ DeleteMessage

LocalNext ==
  \/ ExecutorStep \/ LoopStops \/ ContainerExits
  \/ CancelLocal \/ StopContainers \/ EndCancel

\* The loop and requests go on; programs end.
LocalProgress(i) ==
  \/ i = 1 /\ ExecutorStep
  \/ i = 2 /\ ContainerExits
  \/ i = 3 /\ (StopContainers \/ EndCancel)

LocalSpec == LocalInit /\ [][LocalNext]_localVars /\ \A i \in 1..3 : WF_localVars(LocalProgress(i))

(***************************************************************************)
(* Properties                                                               *)
(***************************************************************************)
LocalTypeOK ==
  /\ localRow \in Row /\ message \in {"queued", "taken", "deleted"}
  /\ \A i \in DOMAIN containers : containers[i] \in {"running", "ok", "failed"}
  /\ At("idle") <=> message /= "taken"

\* A scheduled run has one container, however often its message comes; a manual run has
\* another only where the loop stopped, never because it failed, ended or was cancelled.
OccurrenceRunsOnce == Len(containers) <= IF scheduled THEN 1 ELSE 1 + stops

\* A run that is told to be completed has a container that ended well, whoever
\* reported, cancelled or gave up meanwhile.
CompletedIsTrue == localRow.status = "Completed" => \E i \in DOMAIN containers : containers[i] = "ok"

\* No container of a cancelled scheduled run is left running: it can be cancelled only
\* once it is reported as running, and not before its containers were stopped.
CancelledIsStopped ==
  scheduled /\ localRow.status = "Cancelled" =>
    \A i \in DOMAIN containers : containers[i] /= "running"

\* A run whose loop does not stop ends.
LocalRunEnded == stops > 0 \/ localRow.status \in Finished
LocalRunEnds == <>[]LocalRunEnded
=============================================================================
