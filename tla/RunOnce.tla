------------------------------- MODULE RunOnce -------------------------------
(***************************************************************************)
(* What dispatch promises for a run, with no queue, dispatcher, claim or    *)
(* watchdog: a run is given to AWS Batch in one go, by one call of a client  *)
(* that may repeat its request; it is linked to nothing but a Batch job that *)
(* this call made; a run cancelled before that is never given to AWS Batch;  *)
(* and one that was rejected is never linked, its last request having made   *)
(* no Batch job.  (docs/dispatch-outcomes.md, as far as the code in          *)
(* lambdas/dispatch_job and postgres.py keeps it.)                           *)
(***************************************************************************)
EXTENDS Integers, FiniteSets

CONSTANTS
  Runs, Works, None,
  Tries      \* how often the client sends one call

VARIABLES
  work,      \* the Batch jobs that execute each run
  link,      \* the Batch job each run is linked to
  cancelled, \* the runs that were cancelled before they were given to AWS Batch
  rejected   \* the runs that AWS Batch refused

vars == <<work, link, cancelled, rejected>>

Init ==
  /\ work = [r \in Runs |-> {}]
  /\ link = [r \in Runs |-> None]
  /\ cancelled = {} /\ rejected = {}

Open(r) == r \notin cancelled \cup rejected

Start(r) ==
  /\ work[r] = {} /\ Open(r)
  /\ \E made \in SUBSET Works :
       /\ made # {} /\ IsFiniteSet(made) /\ Cardinality(made) <= Tries
       /\ \A s \in Runs : made \cap work[s] = {}
       /\ work' = [work EXCEPT ![r] = made]
  /\ UNCHANGED <<link, cancelled, rejected>>

Link(r) ==
  /\ link[r] = None /\ Open(r)
  /\ \E x \in work[r] : link' = [link EXCEPT ![r] = x]
  /\ UNCHANGED <<work, cancelled, rejected>>

Cancel(r) ==
  /\ work[r] = {} /\ Open(r)
  /\ cancelled' = cancelled \cup {r}
  /\ UNCHANGED <<work, link, rejected>>

Reject(r) ==
  /\ link[r] = None /\ Open(r)
  /\ Cardinality(work[r]) < Tries
  /\ rejected' = rejected \cup {r}
  /\ UNCHANGED <<work, link, cancelled>>

Next == \E r \in Runs : Start(r) \/ Link(r) \/ Cancel(r) \/ Reject(r)

Spec == Init /\ [][Next]_vars
=============================================================================
