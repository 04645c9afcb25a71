----------------------------- MODULE MCDispatch -----------------------------
(* TLC instance of Dispatch: a scheduled run among several invocations, or  *)
(* posted runs that share the batches of one.  Runs that are posted are      *)
(* interchangeable, and so are Batch ids.                                    *)
EXTENDS Dispatch, TLC

PostedJobs == BatchJobs \ ScheduledJobs

OnlyWorker == CHOOSE w \in Workers : TRUE

Symmetry == Permutations(PostedJobs) \cup Permutations(ExternalIds)

\* Bound: there are scheduled runs alone, or posted runs alone.  For posted runs there are one
\* invocation, two Batch jobs and one late request at a time; AWS Batch has reported nothing
\* yet, and none is linked and then cancelled.
Within ==
  \/ \A j \in PostedJobs : ~Exists(j)
  \/ /\ \A j \in ScheduledJobs : ~Exists(j)
     /\ \A j \in PostedJobs : jobs[j].seen = None
     /\ \A w \in Workers \ {OnlyWorker} : worker[w] = Idle
     /\ Cardinality({x \in ExternalIds : owner[x] # None}) <= 2
     /\ Cardinality(late) <= 1 /\ stopping = {}
=============================================================================
