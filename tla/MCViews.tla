---------------------------------- MODULE MCViews ----------------------------------
(* Views of runs, of the scheduler and of the rate limits for TLC, each on its own: a *)
(* part is chosen at the start, and the others stay as they begin.                  *)
EXTENDS RunViews, JobOutput, SchedulerPanel, RateLimits

VARIABLE part  \* which part runs

partVars == <<viewVars, outputVars, schedulerVars, limitVars, part>>

Init ==
  /\ part \in {"views", "output", "scheduler", "rate limits"}
  /\ RunViewsInit
  /\ JobOutputInit
  /\ SchedulerPanelInit
  /\ RateLimitsInit
  /\ part /= "output" => source = "s3"

Next ==
  /\ UNCHANGED part
  /\ \/ part = "views" /\ RunViewsNext /\ UNCHANGED <<outputVars, schedulerVars, limitVars>>
     \/ part = "output" /\ JobOutputNext /\ UNCHANGED <<viewVars, schedulerVars, limitVars>>
     \/ part = "scheduler" /\ SchedulerPanelNext /\ UNCHANGED <<viewVars, outputVars, limitVars>>
     \/ part = "rate limits" /\ RateLimitsNext /\ UNCHANGED <<viewVars, outputVars, schedulerVars>>

\* The i-th thing that the part must go on with: the fairness of the modules, of which
\* only that of the part that runs asks for anything.
Progress(i) ==
  /\ UNCHANGED part
  /\ \/ part = "views" /\ ViewsProgress(i) /\ UNCHANGED <<outputVars, schedulerVars, limitVars>>
     \/ part = "output" /\ OutputProgress(i) /\ UNCHANGED <<viewVars, schedulerVars, limitVars>>
     \/ part = "scheduler" /\ SchedulerProgress(i) /\ UNCHANGED <<viewVars, outputVars, limitVars>>

Spec == Init /\ [][Next]_partVars /\ \A i \in 1..4 : WF_partVars(Progress(i))

\* A run's row and its viewer agree, and what is told of the scheduler has a reason.
ScreensAgree == ViewsTypeOK /\ RowAgreesWithViewer /\ SchedulerTypeOK

\* No screen goes back or gives up what was typed, and each comes to tell what holds.
ScreensSettle ==
  /\ DetailNeverRegresses
  /\ DraftsAreKept
  /\ ViewerSettles
  /\ RowSettles
  /\ FinalOutputShown
  /\ SchedulerSettles
=============================================================================
