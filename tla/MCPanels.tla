---------------------------------- MODULE MCPanels ----------------------------------
(* Panels of the web application whose progress matters, for TLC, each on its own: a  *)
(* part is chosen at the start, and the others stay as they begin.                 *)
EXTENDS Notices, QueuePanel, Offices, TimingPanel

AdministersIn == [u \in Users |-> IF u = "hec" THEN {"SWT", "LRL"} ELSE {}]
SubmitsIn == [u \in Users |-> IF u = "hec" THEN {"SWT"} ELSE {"LRL"}]

VARIABLE part  \* which part runs

partVars == <<noticeVars, queueVars, officeVars, timingVars, part>>

Init ==
  /\ part \in {"notices", "queue", "offices", "timing"}
  /\ NoticesInit
  /\ QueuePanelInit
  /\ OfficesInit
  /\ TimingPanelInit
  /\ part /= "timing" => ~script.automatic

Next ==
  /\ UNCHANGED part
  /\ \/ part = "notices" /\ NoticesNext /\ UNCHANGED <<queueVars, officeVars, timingVars>>
     \/ part = "queue" /\ QueuePanelNext /\ UNCHANGED <<noticeVars, officeVars, timingVars>>
     \/ part = "offices" /\ OfficesNext /\ UNCHANGED <<noticeVars, queueVars, timingVars>>
     \/ part = "timing" /\ TimingPanelNext /\ UNCHANGED <<noticeVars, queueVars, officeVars>>

NoticesProgress(i) ==
  \/ i = 1 /\ Expire
  \/ i = 2 /\ AnswerOf("list")
  \/ i = 3 /\ AnswerOf("job")

\* The i-th thing that the part must go on with: the fairness of the modules, of which
\* only that of the part that runs asks for anything.
Progress(i) ==
  /\ UNCHANGED part
  /\ \/ part = "notices" /\ NoticesProgress(i) /\ UNCHANGED <<queueVars, officeVars, timingVars>>
     \/ part = "queue" /\ QueueProgress(i) /\ UNCHANGED <<noticeVars, officeVars, timingVars>>
     \/ part = "offices" /\ OfficesProgress(i) /\ UNCHANGED <<noticeVars, queueVars, timingVars>>
     \/ part = "timing" /\ TimingProgress(i) /\ UNCHANGED <<noticeVars, queueVars, officeVars>>

Spec == Init /\ [][Next]_partVars /\ \A i \in 1..5 : WF_partVars(Progress(i))

\* What is cancelled is what was ticked, and the timing that is told is the script's.
PanelsTrue == BulkAsTicked /\ TimingOfScript

\* No fresh failure is hidden, and each panel comes to tell what holds.
PanelsSettle ==
  /\ FreshFailureHasToast
  /\ ErrorsExpire
  /\ QueueCatchesUp
  /\ TabsAgree
  /\ TimingCatchesUp
=============================================================================
