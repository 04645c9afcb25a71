--------------------------- MODULE DispatchProofs ---------------------------
(***************************************************************************)
(* Theorems about Dispatch, for every number of runs, invocations, Batch    *)
(* jobs and requests under way.                                             *)
(*                                                                          *)
(* The argument: a granted claim makes its invocation the run's holder, and *)
(* a claim is never given back, so a run has one holder at most and never a *)
(* second one.  Only a holder calls run_job, and only before it reports.    *)
(* What happened to a run outside AWS Batch therefore depends on its claim: *)
(* an unclaimed run was never submitted; a run that can still be rejected   *)
(* has fewer Batch jobs than its one call had attempts, gets no more of     *)
(* them, and is not linked any more (Settled).                              *)
(***************************************************************************)
EXTENDS Dispatch, JobStoreProofs, FiniteSetTheorems

Busy == {"submit", "bind", "reject"}

\* The call for this run is over and its last attempt made no Batch job; nobody
\* submits it again or has a Batch job to bind to it.
Settled(j) ==
  /\ jobs[j].claimed
  /\ IsFiniteSet(BatchJobsOf(j)) /\ Cardinality(BatchJobsOf(j)) < SdkAttempts
  /\ \A w \in Workers : worker[w].pc \in {"submit", "bind"} => worker[w].job # j
  /\ \A r \in late : r.op = "bind" => r.job # j

\* What a holder knows about its run.
HolderInv(w) ==
  worker[w].pc \in Busy =>
    /\ worker[w].job \in BatchJobs
    /\ jobs[worker[w].job].claimed
    /\ worker[w].pc = "submit" => /\ calls[worker[w].job] = 0
                                  /\ BatchJobsOf(worker[w].job) = {}
    /\ worker[w].pc = "bind" => /\ worker[w].id \in ExternalIds
                                /\ owner[worker[w].id] = worker[w].job
    /\ worker[w].pc = "reject" => Settled(worker[w].job)

OneHolder ==
  \A v, w \in Workers :
    /\ worker[v].pc \in Busy
    /\ worker[w].pc \in Busy
    /\ worker[v].job = worker[w].job
    => v = w

\* What the row of a run tells about its submission.
RunInv(j) ==
  /\ calls[j] <= 1
  /\ ~jobs[j].claimed => calls[j] = 0 /\ BatchJobsOf(j) = {}
  /\ jobs[j].status = "Cancelled" /\ jobs[j].ext = None => ~jobs[j].claimed
  /\ jobs[j].ext # None => owner[jobs[j].ext] = j
  /\ jobs[j].status = "Failed" /\ jobs[j].ext = None => Settled(j)

\* A request that was given up on still says what its sender knew.
LateInv(r) ==
  /\ r.op = "bind" => r.id \in ExternalIds /\ owner[r.id] = r.job
  /\ r.op = "fail" => Settled(r.job)

\* The Batch jobs of a run are those of one call.
OfOneCall(j) ==
  IsFiniteSet(BatchJobsOf(j)) /\ Cardinality(BatchJobsOf(j)) <= SdkAttempts

DispatchInv ==
  /\ DispatchTypeOK
  /\ StoreInv
  /\ \A w \in Workers : HolderInv(w)
  /\ OneHolder
  /\ \A j \in BatchJobs : RunInv(j)
  /\ \A r \in late : LateInv(r)
  /\ \A j \in BatchJobs : OfOneCall(j)

(***************************************************************************)
(* Rows                                                                     *)
(***************************************************************************)
\* What a step may make of the row of run j without a holder's knowledge.
RowAllowed(j, row) ==
  /\ jobs[j].claimed => row.claimed
  /\ row.ext # None => owner[row.ext] = j
  /\ row.status = "Cancelled" /\ row.ext = None => ~row.claimed
  /\ row.status = "Failed" /\ row.ext = None => Settled(j)
  /\ Settled(j) => row.ext = jobs[j].ext

\* ... and of every row.
RowsAllowed == \A i \in BatchJobs : RowAllowed(i, jobs'[i])

\* A change of a row that says nothing new about its submission.
Quiet(old, new) ==
  /\ new.ext = old.ext
  /\ new.claimed = old.claimed
  /\ new.ext = None /\ new.status \in {"Cancelled", "Failed"} => new.status = old.status

LEMMA QuietAllowed ==
  ASSUME NEW j, RunInv(j), NEW row, Quiet(jobs[j], row)
  PROVE  RowAllowed(j, row)
  BY DEF RunInv, Quiet, RowAllowed

\* create_job, expiry, record_cancellation_failure, the cancellation watchdog
\* and the clock are quiet.
LEMMA NewRowQuiet ==
  ASSUME NEW row, GoodRow(row), row.status = "Absent"
  PROVE  Quiet(row, NewRow)
  BY DEF GoodRow, Row, Quiet, NewRow, AbsentRow

LEMMA ExpireQuiet ==
  ASSUME NEW row, GoodRow(row)
  PROVE  Quiet(row, Expire(row))
  BY DEF GoodRow, Row, Quiet, Expire

LEMMA RevertCancelQuiet ==
  ASSUME NEW row, GoodRow(row)
  PROVE  Quiet(row, RevertCancel(row))
  BY DEF GoodRow, Row, Quiet, RevertCancel

LEMMA FlagQuiet ==
  ASSUME NEW row, GoodRow(row)
  PROVE  Quiet(row, [row EXCEPT !.reason = "unconfirmed"])
  BY DEF GoodRow, Row, Quiet

LEMMA AgedQuiet ==
  ASSUME NEW row, GoodRow(row)
  PROVE  Quiet(row, Aged(row))
  BY DEF GoodRow, Row, Quiet, Aged

\* An observation of a linked run is quiet whatever it reports.
LEMMA ObserveQuiet ==
  ASSUME NEW row, GoodRow(row), row.ext # None, NEW s, NEW t
  PROVE  Quiet(row, Observe(row, s, t))
<1>1. \/ Observe(row, s, t) = row
      \/ Observe(row, s, t) = [row EXCEPT !.status = "Cancelled", !.cancelAge = None,
                                          !.reason = "confirmed", !.seen = t]
      \/ Observe(row, s, t) = [row EXCEPT !.status = StatusMap[s], !.reason = "batch",
                                          !.seen = t]
  BY DEF Observe
<1>2. row.ext = Observe(row, s, t).ext /\ row.claimed = Observe(row, s, t).claimed
  BY <1>1 DEF GoodRow, Row
<1>3. QED
  BY <1>2 DEF Quiet

\* A cancellation drops a run only while nothing has claimed it.
LEMMA RequestCancelAllowed ==
  ASSUME NEW j, GoodRow(jobs[j]), RunInv(j)
  PROVE  RowAllowed(j, RequestCancel(jobs[j]))
  BY DEF GoodRow, Row, RunInv, RowAllowed, RequestCancel, Stops, Claimable, Unlinked

\* An id is bound only to the run it was made for, while that can be rejected no more.
LEMMA BindAllowed ==
  ASSUME NEW j, GoodRow(jobs[j]), RunInv(j), NEW x, owner[x] = j, ~Settled(j)
  PROVE  RowAllowed(j, Bind(jobs[j], x))
  BY DEF GoodRow, Row, RunInv, RowAllowed, Bind

\* A rejection of a settled run.
LEMMA RejectAllowed ==
  ASSUME NEW j, GoodRow(jobs[j]), RunInv(j), Settled(j)
  PROVE  RowAllowed(j, Reject(jobs[j]))
  BY DEF GoodRow, Row, RunInv, RowAllowed, Reject

\* A claim, granted or not.
LEMMA ClaimAllowed ==
  ASSUME NEW j, GoodRow(jobs[j]), RunInv(j)
  PROVE  RowAllowed(j, Claim(Expire(jobs[j])))
<1>1. GoodRow(Expire(jobs[j])) /\ Quiet(jobs[j], Expire(jobs[j]))
  BY ExpireGood, ExpireQuiet
<1>2. RowAllowed(j, Expire(jobs[j]))
  BY <1>1, QuietAllowed
<1>3. QED
  BY <1>1, <1>2 DEF GoodRow, Row, RowAllowed, Claim, Claimable, Unlinked

\* One row replaced by an allowed one.
LEMMA OneRowAllowed ==
  ASSUME DispatchInv, NEW j \in BatchJobs, NEW row, RowAllowed(j, row),
         jobs' = [jobs EXCEPT ![j] = row]
  PROVE  RowsAllowed
<1>1. jobs'[j] = row /\ \A i \in BatchJobs : i # j => jobs'[i] = jobs[i]
  BY DEF DispatchInv, StoreInv, BatchJobs
<1>2. \A i \in BatchJobs : RowAllowed(i, jobs[i])
  BY QuietAllowed DEF DispatchInv, Quiet
<1>3. QED
  BY <1>1, <1>2 DEF RowsAllowed

\* A table that does not change is allowed.
LEMMA SameRowsAllowed ==
  ASSUME DispatchInv, UNCHANGED jobs
  PROVE  RowsAllowed
  BY QuietAllowed DEF DispatchInv, Quiet, RowsAllowed

(***************************************************************************)
(* The four things that may happen to the holders                           *)
(***************************************************************************)
\* 1. No invocation becomes a holder or submits.  Requests that are newly
\* given up on say what is known.
HoldersKept ==
  /\ UNCHANGED <<owner, calls>>
  /\ \A w \in Workers : worker'[w].pc \in Busy =>
       /\ worker'[w].pc = worker[w].pc
       /\ worker'[w].job = worker[w].job
       /\ worker'[w].id = worker[w].id
  /\ \A r \in late' : 
       \/ r \in late
       \/ LateInv(r) /\ (r.op = "bind" => ~Settled(r.job))

LEMMA HoldersKeptInv ==
  ASSUME DispatchInv, DispatchTypeOK', StoreInv', HoldersKept,
         RowsAllowed
  PROVE  DispatchInv'
<1>1. \A j \in BatchJobs : BatchJobsOf(j)' = BatchJobsOf(j)
  BY DEF HoldersKept, BatchJobsOf
<1>2. \A j \in BatchJobs : Settled(j) => Settled(j)'
  BY <1>1 DEF Settled, HoldersKept, RowsAllowed, RowAllowed, Busy
<1>3. ASSUME NEW w \in Workers
      PROVE  HolderInv(w)'
  <2>1. HolderInv(w)
    BY DEF DispatchInv
  <2>2. QED
    BY <1>1, <1>2, <2>1 DEF HolderInv, HoldersKept, RowsAllowed, RowAllowed
<1>4. OneHolder'
  BY DEF DispatchInv, OneHolder, HoldersKept
<1>5. ASSUME NEW j \in BatchJobs
      PROVE  RunInv(j)'
  <2>1. RunInv(j) /\ RowAllowed(j, jobs'[j])
    BY DEF DispatchInv, RowsAllowed
  <2>2. QED
    BY <1>1, <1>2, <2>1 DEF RunInv, RowAllowed, HoldersKept
<1>6. ASSUME NEW r \in late'
      PROVE  LateInv(r)'
  <2>1. LateInv(r) /\ r.job \in BatchJobs
    BY DEF DispatchInv, HoldersKept, DispatchTypeOK, Request
  <2>2. QED
    BY <1>2, <2>1 DEF LateInv, HoldersKept
<1>7. \A j \in BatchJobs : OfOneCall(j)'
  BY <1>1 DEF DispatchInv, OfOneCall
<1>8. QED
  BY <1>3, <1>4, <1>5, <1>6, <1>7 DEF DispatchInv

\* 2. A granted claim: w becomes the holder of j, which had none.
LEMMA ClaimGrantedInv ==
  ASSUME DispatchInv, DispatchTypeOK', StoreInv', NEW w \in Workers, NEW j \in BatchJobs,
         ClaimAnswered(w, j), ClaimGranted(j)
  PROVE  DispatchInv'
<1> DEFINE row == Claim(Expire(jobs[j]))
<1>1. GoodRow(jobs[j]) /\ RunInv(j)
  BY DEF DispatchInv, StoreInv, BatchJobs
<1>2. ~Overdue(jobs[j]) /\ Claimable(jobs[j])
  BY <1>1 DEF ClaimGranted, Expire, Claimable, Unlinked, GoodRow, Row
<1>3. row = [jobs[j] EXCEPT !.claimed = TRUE, !.age = 0]
  BY <1>2 DEF Expire, Claim
<1>4. row.claimed /\ row.ext = None /\ row.status = "Pending" /\ ~jobs[j].claimed
  BY <1>1, <1>2, <1>3 DEF GoodRow, Row, Claimable, Unlinked
<1>5. jobs' = [jobs EXCEPT ![j] = row]
  BY DEF ClaimAnswered, ClaimDispatch, Update
<1> HIDE DEF row
<1>6. jobs'[j] = row /\ \A i \in BatchJobs : i # j => jobs'[i] = jobs[i]
  BY <1>5 DEF DispatchInv, StoreInv, BatchJobs
<1>7. /\ UNCHANGED <<late, owner, calls>>
      /\ worker'[w].pc = "submit" /\ worker'[w].job = j
      /\ \A v \in Workers : v # w => worker'[v] = worker[v]
  BY DEF ClaimAnswered, DispatchInv, DispatchTypeOK, WorkerState
<1>8. calls[j] = 0 /\ BatchJobsOf(j) = {}
  BY <1>1, <1>4 DEF RunInv
<1>9. \A v \in Workers : worker[v].pc \in Busy => worker[v].job # j
  BY <1>4 DEF DispatchInv, HolderInv
<1>10. \A i \in BatchJobs : BatchJobsOf(i)' = BatchJobsOf(i)
  BY <1>7 DEF BatchJobsOf
<1>11. \A i \in BatchJobs : Settled(i) => i # j /\ Settled(i)'
  <2>1. ~Settled(j)
    BY <1>4 DEF Settled
  <2>2. ASSUME NEW i \in BatchJobs, i # j, Settled(i)
        PROVE  Settled(i)'
    BY <1>6, <1>7, <1>10, <2>2 DEF Settled
  <2>3. QED
    BY <2>1, <2>2
<1>12. ASSUME NEW v \in Workers
       PROVE  HolderInv(v)'
  <2>1. CASE v = w
    BY <1>4, <1>6, <1>7, <1>8, <1>10, <2>1 DEF HolderInv
  <2>2. CASE v # w
    <3>1. HolderInv(v)
      BY DEF DispatchInv
    <3>2. QED
      BY <1>6, <1>7, <1>9, <1>10, <1>11, <2>2, <3>1 DEF HolderInv
  <2>3. QED
    BY <2>1, <2>2
<1>13. OneHolder'
  BY <1>7, <1>9 DEF DispatchInv, OneHolder
<1>14. ASSUME NEW i \in BatchJobs
       PROVE  RunInv(i)'
  <2>1. RunInv(i)
    BY DEF DispatchInv
  <2>2. CASE i = j
    BY <1>4, <1>6, <1>7, <1>8, <2>1, <2>2 DEF RunInv
  <2>3. CASE i # j
    BY <1>6, <1>7, <1>10, <1>11, <2>1, <2>3 DEF RunInv
  <2>4. QED
    BY <2>2, <2>3
<1>15. ASSUME NEW r \in late'
       PROVE  LateInv(r)'
  <2>1. LateInv(r) /\ r.job \in BatchJobs
    BY <1>7 DEF DispatchInv, DispatchTypeOK, Request
  <2>2. QED
    BY <1>7, <1>11, <2>1 DEF LateInv
<1>16. \A i \in BatchJobs : OfOneCall(i)'
  BY <1>10 DEF DispatchInv, OfOneCall
<1>17. QED
  BY <1>12, <1>13, <1>14, <1>15, <1>16 DEF DispatchInv

\* 3. A submission by w, the holder of j: it may have made Batch jobs, all of
\* them for j, and w goes on as a holder that may report, or lets go of j.
NewJobs(made) == {x \in ExternalIds : \E n \in DOMAIN made : made[n] = x}

LEMMA AttemptFacts ==
  ASSUME NEW made \in SubmitAttempts
  PROVE  /\ LastAttempt(made) \in DOMAIN made
         /\ \A n \in DOMAIN made : made[n] \in FreeIds \cup {None}
<1>1. PICK n \in 1..SdkAttempts : made \in [1..n -> FreeIds \cup {None}]
  BY DEF SubmitAttempts
<1>2. n \in DOMAIN made /\ \A m \in DOMAIN made : m <= n
  BY <1>1, DispatchAssumption
<1>3. LastAttempt(made) \in DOMAIN made
  BY <1>2 DEF LastAttempt
<1>4. QED
  BY <1>1, <1>3

\* An attempt makes one Batch job at most, so a call makes no more than it has
\* attempts, and fewer when the last one made none.
LEMMA AttemptsBoundJobs ==
  ASSUME NEW made \in SubmitAttempts
  PROVE  /\ IsFiniteSet(NewJobs(made))
         /\ Cardinality(NewJobs(made)) <= SdkAttempts
         /\ made[LastAttempt(made)] = None => Cardinality(NewJobs(made)) < SdkAttempts
<1>1. PICK n \in 1..SdkAttempts : made \in [1..n -> FreeIds \cup {None}]
  BY DEF SubmitAttempts
<1>2. n \in Int /\ n - 1 \in Int /\ n >= 1 /\ n <= SdkAttempts /\ SdkAttempts \in Nat
  BY <1>1, DispatchAssumption
<1>3. DOMAIN made = 1..n /\ n \in 1..n
  BY <1>1, <1>2
<1>4. LastAttempt(made) = n
  <2>1. LastAttempt(made) \in 1..n /\ n <= LastAttempt(made)
    <3>1. \A m \in DOMAIN made : m <= n
      BY <1>2, <1>3
    <3>2. QED
      BY <1>3, <3>1 DEF LastAttempt
  <2>2. QED
    BY <1>2, <2>1
<1> DEFINE S == NewJobs(made)
           f == [x \in S |-> CHOOSE k \in 1..n : made[k] = x]
<1>5. \A x \in S : f[x] \in 1..n /\ made[f[x]] = x
  BY <1>3 DEF NewJobs
<1>6. ASSUME NEW T, f \in [S -> T], IsFiniteSet(T)
      PROVE  IsFiniteSet(S) /\ Cardinality(S) <= Cardinality(T)
  <2>1. \A x, y \in S : f[x] = f[y] => x = y
    BY <1>5
  <2>2. DOMAIN f = S
    OBVIOUS
  <2> HIDE DEF f, S
  <2>3. f \in Injection(S, T)
    BY <1>6, <2>1, <2>2 DEF Injection, IsInjective
  <2>4. QED
    BY <1>6, <2>3, FS_Injection
<1>7. IsFiniteSet(1..n) /\ Cardinality(1..n) = n
  BY <1>2, FS_Interval
<1>8. IsFiniteSet(S) /\ Cardinality(S) <= n
  <2>1. f \in [S -> 1..n]
    BY <1>5
  <2> HIDE DEF f, S
  <2>2. QED
    BY <1>6, <1>7, <2>1
<1>9. ASSUME made[n] = None
      PROVE  Cardinality(S) <= n - 1
  <2>1. IsFiniteSet(1..(n - 1)) /\ Cardinality(1..(n - 1)) = n - 1
    BY <1>2, FS_Interval
  <2>2. \A x \in S : f[x] # n
    BY <1>5, <1>9, JobStoreAssumption DEF NewJobs
  <2>3. \A x \in S : f[x] \in 1..(n - 1)
    <3> HIDE DEF f, S
    <3>1. QED
      BY <1>2, <1>5, <2>2
  <2>4. f \in [S -> 1..(n - 1)]
    BY <2>3
  <2> HIDE DEF f, S
  <2>5. QED
    BY <1>6, <2>1, <2>4
<1>10. Cardinality(S) \in Nat
  BY <1>8, FS_CardinalityType
<1> HIDE DEF f, S
<1>11. Cardinality(S) <= SdkAttempts
  BY <1>2, <1>8, <1>10
<1>12. made[LastAttempt(made)] = None => Cardinality(S) < SdkAttempts
  BY <1>2, <1>4, <1>9, <1>10
<1>13. QED
  BY <1>8, <1>11, <1>12 DEF S

LEMMA SubmittedInv ==
  ASSUME DispatchInv, DispatchTypeOK', StoreInv', NEW w \in Workers,
         NEW made \in SubmitAttempts, Submitted(w, made),
         \A v \in Workers : v # w => worker'[v] = worker[v],
         \/ worker'[w].pc = "next"
         \/ /\ worker'[w].pc = "bind"
            /\ worker'[w].job = worker[w].job
            /\ worker'[w].id = made[LastAttempt(made)]
            /\ worker'[w].id # None
         \/ /\ worker'[w].pc = "reject"
            /\ worker'[w].job = worker[w].job
            /\ made[LastAttempt(made)] = None
  PROVE  DispatchInv'
<1> DEFINE new(x) == \E n \in DOMAIN made : made[n] = x
<1>1. HolderInv(w) /\ worker[w].pc = "submit" /\ worker[w].pc \in Busy
  BY DEF DispatchInv, Submitted, Busy
<1> PICK j \in BatchJobs : worker[w].job = j
  BY <1>1 DEF HolderInv
<1>2. jobs[j].claimed /\ calls[j] = 0 /\ BatchJobsOf(j) = {}
  BY <1>1 DEF HolderInv
<1>3. \A v \in Workers : worker[v].pc \in Busy /\ worker[v].job = j => v = w
  BY <1>1 DEF DispatchInv, OneHolder
<1>4. /\ UNCHANGED <<jobs, late>>
      /\ calls'[j] = 1
      /\ \A i \in BatchJobs : i # j => calls'[i] = calls[i]
  BY <1>2 DEF Submitted, DispatchInv, DispatchTypeOK
<1>5. \A x \in ExternalIds : owner'[x] = IF new(x) THEN j ELSE owner[x]
  BY DEF Submitted
<1>6. \A x \in ExternalIds : new(x) => owner[x] = None
  <2>1. None \notin ExternalIds
    BY JobStoreAssumption
  <2>2. QED
    BY <2>1, AttemptFacts DEF FreeIds
<1>7. None \notin BatchJobs
  BY DispatchAssumption DEF BatchJobs
<1> HIDE DEF new
<1>8. \A x \in ExternalIds, i \in BatchJobs : owner[x] = i => owner'[x] = i
  BY <1>5, <1>6, <1>7
<1>9. \A i \in BatchJobs : i # j => BatchJobsOf(i)' = BatchJobsOf(i)
  BY <1>5, <1>6, <1>7 DEF BatchJobsOf
<1>10. \A i \in BatchJobs : Settled(i) => i # j /\ Settled(i)'
  <2>1. ~Settled(j)
    BY <1>1 DEF Settled
  <2>2. ASSUME NEW i \in BatchJobs, i # j, Settled(i)
        PROVE  Settled(i)'
    BY <1>1, <1>4, <1>9, <2>2 DEF Settled
  <2>3. QED
    BY <2>1, <2>2
<1>11. BatchJobsOf(j)' = NewJobs(made)
  BY <1>2, <1>5 DEF BatchJobsOf, NewJobs, new
<1>18. ASSUME worker'[w].pc = "reject"
       PROVE  Settled(j)'
  <2>1. made[LastAttempt(made)] = None
    BY <1>18
  <2>2. IsFiniteSet(BatchJobsOf(j)') /\ Cardinality(BatchJobsOf(j)') < SdkAttempts
    BY <1>11, <2>1, AttemptsBoundJobs
  <2>3. \A v \in Workers : worker'[v].pc \in {"submit", "bind"} => worker'[v].job # j
    BY <1>3, <1>18 DEF Busy
  <2>4. \A r \in late' : r.op = "bind" => r.job # j
    BY <1>2, <1>4 DEF DispatchInv, LateInv, BatchJobsOf
  <2>5. QED
    BY <1>2, <1>4, <2>2, <2>3, <2>4 DEF Settled
<1>12. ASSUME NEW v \in Workers
       PROVE  HolderInv(v)'
  <2>1. CASE v # w
    <3>1. HolderInv(v) /\ (worker[v].pc \in Busy => worker[v].job # j)
      BY <1>3, <2>1 DEF DispatchInv
    <3>2. QED
      BY <1>4, <1>8, <1>9, <1>10, <2>1, <3>1 DEF HolderInv
  <2>2. CASE v = w /\ worker'[w].pc = "bind"
    <3>1. worker'[w].id \in ExternalIds /\ new(worker'[w].id)
      BY <2>2, AttemptFacts DEF new, FreeIds
    <3>2. owner'[worker'[w].id] = j /\ worker'[w].job = j
      BY <1>5, <2>2, <3>1
    <3>3. QED
      BY <1>2, <1>4, <2>2, <3>1, <3>2 DEF HolderInv
  <2>3. CASE v = w /\ worker'[w].pc = "reject"
    BY <1>2, <1>4, <1>18, <2>3 DEF HolderInv
  <2>4. CASE v = w /\ worker'[w].pc = "next"
    BY <2>4 DEF HolderInv, Busy
  <2>5. QED
    BY <2>1, <2>2, <2>3, <2>4
<1>13. OneHolder'
  <2>1. worker'[w].pc \in Busy => worker'[w].job = j
    BY DEF Busy
  <2>2. \A v \in Workers : v # w /\ worker'[v].pc \in Busy => worker'[v].job # j
    BY <1>3
  <2>3. \A u, v \in Workers :
          u # w /\ v # w /\ worker[u].pc \in Busy /\ worker[v].pc \in Busy
          /\ worker[u].job = worker[v].job => u = v
    BY DEF DispatchInv, OneHolder
  <2>4. QED
    BY <2>1, <2>2, <2>3 DEF OneHolder
<1>14. ASSUME NEW i \in BatchJobs
       PROVE  RunInv(i)'
  <2>1. RunInv(i) /\ jobs[i].ext \in ExternalIds \cup {None}
    BY DEF DispatchInv, StoreInv, Row, BatchJobs
  <2>2. CASE i = j
    BY <1>2, <1>4, <1>8, <1>10, <2>1, <2>2 DEF RunInv
  <2>3. CASE i # j
    BY <1>4, <1>8, <1>9, <1>10, <2>1, <2>3 DEF RunInv
  <2>4. QED
    BY <2>2, <2>3
<1>15. ASSUME NEW r \in late'
       PROVE  LateInv(r)'
  <2>1. LateInv(r) /\ r.job \in BatchJobs
    BY <1>4 DEF DispatchInv, DispatchTypeOK, Request
  <2>2. QED
    BY <1>8, <1>10, <2>1 DEF LateInv
<1>16. \A i \in BatchJobs : OfOneCall(i)'
  <2>1. OfOneCall(j)'
    BY <1>11, AttemptsBoundJobs DEF OfOneCall
  <2>2. \A i \in BatchJobs : i # j => OfOneCall(i)'
    BY <1>9 DEF DispatchInv, OfOneCall
  <2>3. QED
    BY <2>1, <2>2
<1>17. QED
  BY <1>12, <1>13, <1>14, <1>15, <1>16 DEF DispatchInv

\* 4. A holder that has not submitted gives up: no job runner is configured.
LEMMA NoJobRunnerInv ==
  ASSUME DispatchInv, DispatchTypeOK', StoreInv', NEW w \in Workers, NoJobRunner(w)
  PROVE  DispatchInv'
<1> PICK j \in BatchJobs : worker[w].job = j
  BY DEF NoJobRunner, DispatchInv, HolderInv, Busy
<1>1. /\ worker[w].pc = "submit" /\ worker[w].pc \in Busy
      /\ worker'[w].pc = "reject" /\ worker'[w].job = j
      /\ \A v \in Workers : v # w => worker'[v] = worker[v]
      /\ UNCHANGED <<jobs, late, owner, calls>>
  BY DEF NoJobRunner, DispatchInv, DispatchTypeOK, WorkerState, Busy
<1>2. jobs[j].claimed /\ BatchJobsOf(j) = {}
  BY <1>1 DEF DispatchInv, HolderInv
<1>3. \A v \in Workers : worker[v].pc \in Busy /\ worker[v].job = j => v = w
  BY <1>1 DEF DispatchInv, OneHolder
<1>4. \A i \in BatchJobs : BatchJobsOf(i)' = BatchJobsOf(i)
  BY <1>1 DEF BatchJobsOf
<1>5. \A i \in BatchJobs : Settled(i) => Settled(i)'
  BY <1>1, <1>4 DEF Settled
<1>6. Settled(j)'
  <2>1. IsFiniteSet(BatchJobsOf(j)') /\ Cardinality(BatchJobsOf(j)') < SdkAttempts
    BY <1>2, <1>4, FS_EmptySet, DispatchAssumption
  <2>2. \A v \in Workers : worker'[v].pc \in {"submit", "bind"} => worker'[v].job # j
    BY <1>1, <1>3 DEF Busy
  <2>3. \A r \in late' : r.op = "bind" => r.job # j
    BY <1>1, <1>2 DEF DispatchInv, LateInv, BatchJobsOf
  <2>4. QED
    BY <1>1, <1>2, <2>1, <2>2, <2>3 DEF Settled
<1>7. ASSUME NEW v \in Workers
      PROVE  HolderInv(v)'
  <2>1. CASE v = w
    BY <1>1, <1>2, <1>6, <2>1 DEF HolderInv
  <2>2. CASE v # w
    <3>1. HolderInv(v)
      BY DEF DispatchInv
    <3>2. QED
      BY <1>1, <1>4, <1>5, <2>2, <3>1 DEF HolderInv
  <2>3. QED
    BY <2>1, <2>2
<1>8. OneHolder'
  BY <1>1 DEF DispatchInv, OneHolder
<1>9. ASSUME NEW i \in BatchJobs
      PROVE  RunInv(i)'
  <2>1. RunInv(i)
    BY DEF DispatchInv
  <2>2. QED
    BY <1>1, <1>4, <1>5, <2>1 DEF RunInv
<1>10. ASSUME NEW r \in late'
       PROVE  LateInv(r)'
  <2>1. LateInv(r) /\ r.job \in BatchJobs
    BY <1>1 DEF DispatchInv, DispatchTypeOK, Request
  <2>2. QED
    BY <1>1, <1>5, <2>1 DEF LateInv
<1>11. \A i \in BatchJobs : OfOneCall(i)'
  BY <1>4 DEF DispatchInv, OfOneCall
<1>12. QED
  BY <1>7, <1>8, <1>9, <1>10, <1>11 DEF DispatchInv

(***************************************************************************)
(* The steps                                                                *)
(***************************************************************************)
\* A step of the table of jobs keeps the invariant of the table.
LEMMA TableKept ==
  ASSUME DispatchInv, [Next]_jobs
  PROVE  StoreInv' /\ TypeOK'
<1>1. StoreInv'
  BY NextStep DEF DispatchInv
<1>2. QED
  BY <1>1 DEF StoreInv, TypeOK

\* A quiet change of one row.
LEMMA QuietRow ==
  ASSUME DispatchInv, NEW j \in BatchJobs, NEW row, Quiet(jobs[j], row),
         jobs' = [jobs EXCEPT ![j] = row]
  PROVE  RowsAllowed
<1>1. RowAllowed(j, row)
  BY QuietAllowed DEF DispatchInv
<1>2. QED
  BY <1>1, OneRowAllowed

\* The API's handlers, the status updater, the watchdogs and SQS leave the
\* dispatcher alone.
ApiRow(j) ==
  \/ UNCHANGED jobs
  \/ CreateJob(j)
  \/ RequestJobCancellation(j)
  \/ RecordCancellationFailure(j)
  \/ \E s \in BatchStates, t \in 0..LastTime :
       jobs[j].ext # None /\ RecordBatchDetails(j, s, t)
  \/ ExpireUnlinkedDispatch(j)
  \/ ReconcileCancellation(j)

LEMMA ApiRowKept ==
  ASSUME DispatchInv, NEW j \in BatchJobs, ApiRow(j)
  PROVE  /\ [Next]_jobs
         /\ RowsAllowed
<1> j \in Jobs /\ GoodRow(jobs[j]) /\ RunInv(j)
  BY DEF DispatchInv, StoreInv, BatchJobs
<1>1. [Next]_jobs
  BY DEF ApiRow, Next, AnyCall, BatchCall
<1>2. CASE UNCHANGED jobs
  BY <1>1, <1>2, SameRowsAllowed
<1>3. CASE CreateJob(j)
  <2>1. Quiet(jobs[j], NewRow)
    BY <1>3, NewRowQuiet DEF CreateJob, Exists
  <2>2. QED
    BY <1>1, <1>3, <2>1, QuietRow DEF CreateJob
<1>4. CASE RequestJobCancellation(j)
  BY <1>1, <1>4, RequestCancelAllowed, OneRowAllowed DEF RequestJobCancellation, Update
<1>5. CASE RecordCancellationFailure(j)
  BY <1>1, <1>5, RevertCancelQuiet, QuietRow DEF RecordCancellationFailure, Update
<1>6. ASSUME NEW s \in BatchStates, NEW t \in 0..LastTime,
             jobs[j].ext # None, RecordBatchDetails(j, s, t)
      PROVE  RowsAllowed
  BY <1>6, ObserveQuiet, QuietRow DEF RecordBatchDetails, Update
<1>7. CASE ExpireUnlinkedDispatch(j)
  BY <1>1, <1>7, ExpireQuiet, QuietRow DEF ExpireUnlinkedDispatch, Update
<1>8. CASE ReconcileCancellation(j)
  BY <1>1, <1>8, FlagQuiet, QuietRow DEF ReconcileCancellation, Update
<1>9. QED
  BY <1>1, <1>2, <1>3, <1>4, <1>5, <1>6, <1>7, <1>8 DEF ApiRow

LEMMA ApiStepRow ==
  ASSUME NEW j \in BatchJobs, ApiStep(j)
  PROVE  /\ ApiRow(j)
         /\ UNCHANGED <<worker, late, owner, calls>>
<1>1. CASE PostJob(j)
  BY <1>1 DEF PostJob, ApiRow
<1>2. CASE SendJobMessage(j) \/ LoseJobMessage(j) \/ DeliverPendingJob(j)
  BY <1>2 DEF SendJobMessage, LoseJobMessage, DeliverPendingJob, ApiRow
<1>3. CASE RegisterScheduledJob(j)
  BY <1>3 DEF RegisterScheduledJob, ApiRow
<1>4. CASE CancelJob(j)
  BY <1>4 DEF CancelJob, ApiRow
<1>5. CASE BatchReport(j)
  BY <1>5, DispatchAssumption DEF BatchReport, ApiRow
<1>6. CASE Watchdog(j)
  BY <1>6 DEF Watchdog, ApiRow
<1>7. QED
  BY <1>1, <1>2, <1>3, <1>4, <1>5, <1>6 DEF ApiStep

\* Nothing in the posting half of the state is out of type after an API step.
LEMMA ApiStepType ==
  ASSUME DispatchInv, NEW j \in BatchJobs, ApiStep(j), TypeOK',
         UNCHANGED <<worker, late, owner, calls>>
  PROVE  DispatchTypeOK'
<1> USE DEF DispatchInv, DispatchTypeOK
<1>1. background' \subseteq BatchJobs
  BY DEF ApiStep, PostJob, SendJobMessage, LoseJobMessage, RegisterScheduledJob,
         DeliverPendingJob, CancelJob, BatchReport, Watchdog, posting
<1>2. outbox' \subseteq BatchJobs
  BY DEF ApiStep, PostJob, SendJobMessage, LoseJobMessage, RegisterScheduledJob,
         DeliverPendingJob, CancelJob, BatchReport, Watchdog, posting
<1>3. queue' \subseteq BatchJobs
  BY DEF ApiStep, PostJob, SendJobMessage, LoseJobMessage, RegisterScheduledJob,
         DeliverPendingJob, CancelJob, BatchReport, Watchdog, posting
<1>4. stopping' \subseteq [job: BatchJobs, ext: ExternalIds \cup {None}]
  <2>1. jobs[j].ext \in ExternalIds \cup {None}
    BY DEF TypeOK, Row, BatchJobs
  <2>2. QED
    BY <2>1 DEF ApiStep, PostJob, SendJobMessage, LoseJobMessage, RegisterScheduledJob,
         DeliverPendingJob, CancelJob, BatchReport, Watchdog
<1>5. QED
  BY <1>1, <1>2, <1>3, <1>4

LEMMA ApiStepInv ==
  ASSUME DispatchInv, NEW j \in BatchJobs, ApiStep(j)
  PROVE  [Next]_jobs /\ RowsAllowed /\ DispatchInv'
<1>1. ApiRow(j) /\ UNCHANGED <<worker, late, owner, calls>>
  BY ApiStepRow
<1>2. [Next]_jobs /\ RowsAllowed
  BY <1>1, ApiRowKept
<1>3. StoreInv' /\ TypeOK'
  BY <1>2, TableKept
<1>4. DispatchTypeOK'
  BY <1>1, <1>3, ApiStepType
<1>5. HoldersKept
  BY <1>1 DEF HoldersKept
<1>6. QED
  BY <1>2, <1>3, <1>4, <1>5, HoldersKeptInv

\* The end of a stop call.
LEMMA StopStepInv ==
  ASSUME DispatchInv, NEW r \in stopping, StopStep(r)
  PROVE  [Next]_jobs /\ RowsAllowed /\ DispatchInv'
<1>1. r.job \in BatchJobs
  BY DEF DispatchInv, DispatchTypeOK
<1>2. /\ ApiRow(r.job)
      /\ stopping' = stopping \ {r}
      /\ UNCHANGED <<posting, worker, late, owner, calls>>
  BY DEF StopStep, StopEnds, StopRefused, ApiRow
<1>3. [Next]_jobs /\ RowsAllowed
  BY <1>1, <1>2, ApiRowKept
<1>4. StoreInv' /\ TypeOK'
  BY <1>3, TableKept
<1>5. DispatchTypeOK'
  BY <1>2, <1>4 DEF DispatchInv, DispatchTypeOK, posting
<1>6. HoldersKept
  BY <1>2 DEF HoldersKept
<1>7. QED
  BY <1>3, <1>4, <1>5, <1>6, HoldersKeptInv

\* SQS drops a message.
LEMMA DropMessageInv ==
  ASSUME DispatchInv, NEW j \in BatchJobs, DropMessage(j)
  PROVE  [Next]_jobs /\ RowsAllowed /\ DispatchInv'
<1>1. StoreInv' /\ TypeOK'
  BY TableKept DEF DropMessage
<1>2. DispatchTypeOK'
  BY <1>1 DEF DropMessage, DispatchInv, DispatchTypeOK
<1>3. HoldersKept
  BY DEF DropMessage, HoldersKept
<1>4. QED
  BY <1>1, <1>2, <1>3, SameRowsAllowed, HoldersKeptInv DEF DropMessage

\* Time passes.
LEMMA ClockInv ==
  ASSUME DispatchInv, Clock
  PROVE  [Next]_jobs /\ RowsAllowed /\ DispatchInv'
<1>1. [Next]_jobs /\ UNCHANGED <<posting, worker, late, owner, calls, stopping>>
  BY DEF Clock, Next
<1>2. StoreInv' /\ TypeOK'
  BY <1>1, TableKept
<1>3. DispatchTypeOK'
  BY <1>1, <1>2 DEF DispatchInv, DispatchTypeOK, posting
<1>4. RowsAllowed
  <2>1. \A i \in BatchJobs : jobs'[i] = Aged(jobs[i]) /\ GoodRow(jobs[i]) /\ RunInv(i)
    BY DEF Clock, Tick, DispatchInv, StoreInv, BatchJobs
  <2>2. QED
    BY <2>1, AgedQuiet, QuietAllowed DEF RowsAllowed
<1>5. HoldersKept
  BY <1>1 DEF HoldersKept
<1>6. QED
  BY <1>1, <1>2, <1>3, <1>4, <1>5, HoldersKeptInv

(***************************************************************************)
(* The dispatcher's steps                                                   *)
(***************************************************************************)
\* What the answer to each of its three requests does to the table.
LEMMA ClaimRow ==
  ASSUME DispatchInv, NEW j \in BatchJobs, ClaimDispatch(j)
  PROVE  [Next]_jobs /\ RowsAllowed
<1>1. GoodRow(jobs[j]) /\ RunInv(j)
  BY DEF DispatchInv, StoreInv, BatchJobs
<1>2. [Next]_jobs
  BY DEF Next, BatchCall
<1>3. QED
  BY <1>1, <1>2, ClaimAllowed, OneRowAllowed DEF ClaimDispatch, Update

LEMMA BindRow ==
  ASSUME DispatchInv, NEW j \in BatchJobs, NEW x \in ExternalIds, owner[x] = j,
         ~Settled(j), BindExternalJobId(j, x)
  PROVE  [Next]_jobs /\ RowsAllowed
<1>1. GoodRow(jobs[j]) /\ RunInv(j)
  BY DEF DispatchInv, StoreInv, BatchJobs
<1>2. [Next]_jobs
  BY DEF Next, BatchCall
<1>3. QED
  BY <1>1, <1>2, BindAllowed, OneRowAllowed DEF BindExternalJobId, Update

LEMMA RejectRow ==
  ASSUME DispatchInv, NEW j \in BatchJobs, Settled(j), FailDispatch(j)
  PROVE  [Next]_jobs /\ RowsAllowed
<1>1. GoodRow(jobs[j]) /\ RunInv(j)
  BY DEF DispatchInv, StoreInv, BatchJobs
<1>2. [Next]_jobs
  BY DEF Next, BatchCall
<1>3. QED
  BY <1>1, <1>2, RejectAllowed, OneRowAllowed DEF FailDispatch, Update

\* One invocation moves to another state.
LEMMA OneWorker ==
  ASSUME DispatchInv, NEW w \in Workers, NEW new \in WorkerState,
         worker' = [worker EXCEPT ![w] = new]
  PROVE  /\ worker' \in [Workers -> WorkerState]
         /\ worker'[w] = new
         /\ \A v \in Workers : v # w => worker'[v] = worker[v]
  BY DEF DispatchInv, DispatchTypeOK

\* It lets go of its run, with another failure or list of records perhaps.
LEMMA LetGo ==
  ASSUME DispatchInv, NEW w \in Workers, NEW failed \in BOOLEAN, NEW todo \in SUBSET BatchJobs,
         worker' = [worker EXCEPT ![w].pc = "next", ![w].todo = todo, ![w].job = None,
                                  ![w].id = None, ![w].failed = failed]
  PROVE  /\ worker' \in [Workers -> WorkerState]
         /\ worker'[w].pc = "next"
         /\ \A v \in Workers : v # w => worker'[v] = worker[v]
<1> DEFINE new == [worker[w] EXCEPT !.pc = "next", !.todo = todo, !.job = None,
                                    !.id = None, !.failed = failed]
<1>1. worker[w] \in WorkerState
  BY DEF DispatchInv, DispatchTypeOK
<1>2. new \in WorkerState /\ new.pc = "next"
  BY <1>1 DEF WorkerState
<1>3. worker' = [worker EXCEPT ![w] = new]
  OBVIOUS
<1> HIDE DEF new
<1>4. QED
  BY <1>2, <1>3, OneWorker

LEMMA ReceiveInv ==
  ASSUME DispatchInv, NEW w \in Workers, NEW batch \in SUBSET queue,
         NEW malformed \in BOOLEAN, Receive(w, batch, malformed)
  PROVE  [Next]_jobs /\ RowsAllowed /\ DispatchInv'
<1>1. StoreInv' /\ TypeOK' /\ RowsAllowed
  BY TableKept, SameRowsAllowed DEF Receive
<1>2. DispatchTypeOK'
  BY <1>1 DEF Receive, DispatchInv, DispatchTypeOK, posting, WorkerState, Idle
<1>3. HoldersKept
  BY DEF Receive, HoldersKept, DispatchInv, DispatchTypeOK, WorkerState, Idle, Busy
<1>4. QED
  BY <1>1, <1>2, <1>3, HoldersKeptInv DEF Receive

LEMMA ClaimAnsweredInv ==
  ASSUME DispatchInv, NEW w \in Workers, NEW j \in BatchJobs, ClaimAnswered(w, j)
  PROVE  [Next]_jobs /\ RowsAllowed /\ DispatchInv'
<1>1. [Next]_jobs /\ RowsAllowed
  BY ClaimRow DEF ClaimAnswered
<1>2. StoreInv' /\ TypeOK'
  BY <1>1, TableKept
<1>3. DispatchTypeOK'
  <2>1. worker' \in [Workers -> WorkerState]
    BY DEF ClaimAnswered, DispatchInv, DispatchTypeOK, WorkerState
  <2>2. QED
    BY <1>2, <2>1 DEF ClaimAnswered, DispatchInv, DispatchTypeOK, posting
<1>4. CASE ClaimGranted(j)
  BY <1>1, <1>2, <1>3, <1>4, ClaimGrantedInv
<1>5. CASE ~ClaimGranted(j)
  <2> PICK failed \in BOOLEAN :
        failed = (worker[w].failed \/ ~ClosedToDispatch(Expire(jobs[j])))
    OBVIOUS
  <2>0. worker' = [worker EXCEPT ![w].todo = worker[w].todo \ {j}, ![w].failed = failed]
    BY <1>5 DEF ClaimAnswered
  <2>1. worker[w].pc = "next" /\ worker[w] \in WorkerState
    BY DEF ClaimAnswered, Handles, DispatchInv, DispatchTypeOK
  <2>2. worker'[w].pc = "next" /\ \A v \in Workers : v # w => worker'[v] = worker[v]
    BY <2>0, <2>1 DEF DispatchInv, DispatchTypeOK, WorkerState
  <2>3. HoldersKept
    BY <2>2 DEF ClaimAnswered, HoldersKept, Busy
  <2>4. QED
    BY <1>1, <1>2, <1>3, <2>3, HoldersKeptInv
<1>6. QED
  BY <1>4, <1>5

\* Giving up a request that says what is known keeps the invariant.
LEMMA GiveUpInv ==
  ASSUME DispatchInv, NEW w \in Workers, NEW r \in Request, NEW todo \in SUBSET BatchJobs,
         GiveUp(w, r, todo), LateInv(r), r.op = "bind" => ~Settled(r.job)
  PROVE  [Next]_jobs /\ RowsAllowed /\ DispatchInv'
<1>1. StoreInv' /\ TypeOK' /\ RowsAllowed
  BY TableKept, SameRowsAllowed DEF GiveUp
<1>2. DispatchTypeOK'
  <2>1. worker' \in [Workers -> WorkerState]
    BY LetGo DEF GiveUp
  <2>2. QED
    BY <1>1, <2>1 DEF GiveUp, DispatchInv, DispatchTypeOK, posting
<1>3. HoldersKept
  BY DEF GiveUp, HoldersKept, DispatchInv, DispatchTypeOK, WorkerState, Busy
<1>4. QED
  BY <1>1, <1>2, <1>3, HoldersKeptInv DEF GiveUp

LEMMA ClaimGivenUpInv ==
  ASSUME DispatchInv, NEW w \in Workers, NEW j \in BatchJobs, ClaimGivenUp(w, j)
  PROVE  [Next]_jobs /\ RowsAllowed /\ DispatchInv'
<1> DEFINE r == [op |-> "claim", job |-> j, id |-> None]
           todo == worker[w].todo \ {j}
<1>1. r \in Request /\ LateInv(r) /\ r.op # "bind"
  BY DEF Request, LateInv
<1>2. todo \in SUBSET BatchJobs
  BY DEF DispatchInv, DispatchTypeOK, WorkerState
<1>3. GiveUp(w, r, todo)
  BY DEF ClaimGivenUp
<1> HIDE DEF r, todo
<1>4. QED
  BY <1>1, <1>2, <1>3, GiveUpInv

LEMMA BindGivenUpInv ==
  ASSUME DispatchInv, NEW w \in Workers, BindGivenUp(w)
  PROVE  [Next]_jobs /\ RowsAllowed /\ DispatchInv'
<1> DEFINE r == [op |-> "bind", job |-> worker[w].job, id |-> worker[w].id]
           todo == worker[w].todo
<1>1. HolderInv(w) /\ worker[w].pc = "bind"
  BY DEF DispatchInv, BindGivenUp
<1>2. r \in Request /\ LateInv(r) /\ ~Settled(r.job)
  BY <1>1 DEF HolderInv, Busy, Request, LateInv, Settled
<1>3. todo \in SUBSET BatchJobs
  BY DEF DispatchInv, DispatchTypeOK, WorkerState
<1>4. GiveUp(w, r, todo)
  BY DEF BindGivenUp
<1> HIDE DEF r, todo
<1>5. QED
  BY <1>2, <1>3, <1>4, GiveUpInv

LEMMA RejectGivenUpInv ==
  ASSUME DispatchInv, NEW w \in Workers, RejectGivenUp(w)
  PROVE  [Next]_jobs /\ RowsAllowed /\ DispatchInv'
<1> DEFINE r == [op |-> "fail", job |-> worker[w].job, id |-> None]
           todo == worker[w].todo
<1>1. HolderInv(w) /\ worker[w].pc = "reject"
  BY DEF DispatchInv, RejectGivenUp
<1>2. r \in Request /\ LateInv(r) /\ r.op # "bind"
  BY <1>1 DEF HolderInv, Busy, Request, LateInv
<1>3. todo \in SUBSET BatchJobs
  BY DEF DispatchInv, DispatchTypeOK, WorkerState
<1>4. GiveUp(w, r, todo)
  BY DEF RejectGivenUp
<1> HIDE DEF r, todo
<1>5. QED
  BY <1>2, <1>3, <1>4, GiveUpInv

\* SubmitJob, with its three kinds of answer.
LEMMA SubmitInv ==
  ASSUME DispatchInv, NEW w \in Workers, Submit(w)
  PROVE  [Next]_jobs /\ RowsAllowed /\ DispatchInv'
<1>1. PICK made \in SubmitAttempts :
        SubmitAccepted(w, made) \/ SubmitUncertain(w, made) \/ SubmitRejected(w, made)
  BY DEF Submit
<1>2. Submitted(w, made)
  BY <1>1 DEF SubmitAccepted, SubmitUncertain, SubmitRejected
<1>3. StoreInv' /\ TypeOK'
  BY <1>2, TableKept DEF Submitted
<1>4. worker[w].job \in BatchJobs
  BY <1>2 DEF Submitted, DispatchInv, HolderInv, Busy
<1>5. LastAttempt(made) \in DOMAIN made /\ made[LastAttempt(made)] \in ExternalIds \cup {None}
  BY AttemptFacts DEF FreeIds
<1>6. /\ worker' \in [Workers -> WorkerState]
      /\ \A v \in Workers : v # w => worker'[v] = worker[v]
      /\ \/ worker'[w].pc = "next"
         \/ /\ worker'[w].pc = "bind"
            /\ worker'[w].job = worker[w].job
            /\ worker'[w].id = made[LastAttempt(made)]
            /\ worker'[w].id # None
         \/ /\ worker'[w].pc = "reject"
            /\ worker'[w].job = worker[w].job
            /\ made[LastAttempt(made)] = None
  <2> worker \in [Workers -> WorkerState]
    BY DEF DispatchInv, DispatchTypeOK
  <2>1. CASE SubmitAccepted(w, made)
    BY <1>5, <2>1 DEF SubmitAccepted, WorkerState
  <2>2. CASE SubmitUncertain(w, made)
    BY <2>2 DEF SubmitUncertain, WorkerState
  <2>3. CASE SubmitRejected(w, made)
    BY <2>3 DEF SubmitRejected, WorkerState
  <2>4. QED
    BY <1>1, <2>1, <2>2, <2>3
<1>7. DispatchTypeOK'
  <2>1. owner' \in [ExternalIds -> BatchJobs \cup {None}]
    BY <1>2, <1>4 DEF Submitted, DispatchInv, DispatchTypeOK
  <2>2. calls' \in [BatchJobs -> Nat]
    BY <1>2, <1>4 DEF Submitted, DispatchInv, DispatchTypeOK
  <2>3. QED
    BY <1>2, <1>3, <1>6, <2>1, <2>2 DEF Submitted, DispatchInv, DispatchTypeOK, posting
<1>8. DispatchInv'
  BY <1>2, <1>3, <1>6, <1>7, SubmittedInv
<1>9. QED
  BY <1>2, <1>8, SameRowsAllowed DEF Submitted

LEMMA NoJobRunnerStep ==
  ASSUME DispatchInv, NEW w \in Workers, NoJobRunner(w)
  PROVE  [Next]_jobs /\ RowsAllowed /\ DispatchInv'
<1>1. StoreInv' /\ TypeOK'
  BY TableKept DEF NoJobRunner
<1>2. DispatchTypeOK'
  BY <1>1 DEF NoJobRunner, DispatchInv, DispatchTypeOK, posting, WorkerState
<1>3. QED
  BY <1>1, <1>2, NoJobRunnerInv, SameRowsAllowed DEF NoJobRunner

LEMMA BindAnsweredInv ==
  ASSUME DispatchInv, NEW w \in Workers, BindAnswered(w)
  PROVE  [Next]_jobs /\ RowsAllowed /\ DispatchInv'
<1>1. worker[w].job \in BatchJobs /\ worker[w].id \in ExternalIds
      /\ owner[worker[w].id] = worker[w].job /\ ~Settled(worker[w].job)
  BY DEF BindAnswered, DispatchInv, HolderInv, Busy, Settled
<1>2. [Next]_jobs /\ RowsAllowed
  BY <1>1, BindRow DEF BindAnswered
<1>3. StoreInv' /\ TypeOK'
  BY <1>2, TableKept
<1>4. PICK failed \in BOOLEAN :
        failed = (worker[w].failed \/ ~BindAccepted(worker[w].job, worker[w].id))
  OBVIOUS
<1>5. worker' = [worker EXCEPT ![w].pc = "next", ![w].job = None, ![w].id = None,
                               ![w].failed = failed]
  BY <1>4 DEF BindAnswered
<1>6. /\ worker' \in [Workers -> WorkerState]
      /\ worker'[w].pc = "next"
      /\ \A v \in Workers : v # w => worker'[v] = worker[v]
  <2> DEFINE new == [worker[w] EXCEPT !.pc = "next", !.job = None, !.id = None,
                                      !.failed = failed]
  <2>1. worker[w] \in WorkerState
    BY DEF DispatchInv, DispatchTypeOK
  <2>2. new \in WorkerState /\ new.pc = "next"
    BY <2>1 DEF WorkerState
  <2>3. worker' = [worker EXCEPT ![w] = new]
    BY <1>5
  <2> HIDE DEF new
  <2>4. QED
    BY <2>2, <2>3, OneWorker
<1>7. DispatchTypeOK'
  BY <1>3, <1>6 DEF BindAnswered, DispatchInv, DispatchTypeOK, posting
<1>8. HoldersKept
  BY <1>6 DEF BindAnswered, HoldersKept, Busy
<1>9. QED
  BY <1>2, <1>3, <1>7, <1>8, HoldersKeptInv

LEMMA RejectAnsweredInv ==
  ASSUME DispatchInv, NEW w \in Workers, RejectAnswered(w)
  PROVE  [Next]_jobs /\ RowsAllowed /\ DispatchInv'
<1>1. worker[w].job \in BatchJobs /\ Settled(worker[w].job)
  BY DEF RejectAnswered, DispatchInv, HolderInv, Busy
<1>2. [Next]_jobs /\ RowsAllowed
  BY <1>1, RejectRow DEF RejectAnswered
<1>3. StoreInv' /\ TypeOK'
  BY <1>2, TableKept
<1>4. DispatchTypeOK'
  <2> DEFINE new == [worker[w] EXCEPT !.pc = "next", !.job = None]
  <2>1. new \in WorkerState
    BY DEF DispatchInv, DispatchTypeOK, WorkerState
  <2>2. worker' = [worker EXCEPT ![w] = new]
    BY DEF RejectAnswered
  <2> HIDE DEF new
  <2>3. worker' \in [Workers -> WorkerState]
    BY <2>1, <2>2, OneWorker
  <2>4. QED
    BY <1>3, <2>3 DEF RejectAnswered, DispatchInv, DispatchTypeOK, posting
<1>5. worker'[w].pc = "next" /\ \A v \in Workers : v # w => worker'[v] = worker[v]
  BY DEF RejectAnswered, DispatchInv, DispatchTypeOK, WorkerState
<1>6. HoldersKept
  BY <1>5 DEF RejectAnswered, HoldersKept, Busy
<1>7. QED
  BY <1>2, <1>3, <1>4, <1>6, HoldersKeptInv

\* An invocation ends, by itself or not.
LEMMA EndInv ==
  ASSUME DispatchInv, NEW w \in Workers, Finish(w) \/ CrashWorker(w)
  PROVE  [Next]_jobs /\ RowsAllowed /\ DispatchInv'
<1>1. /\ UNCHANGED <<jobs, late, owner, calls, stopping, background, outbox>>
      /\ queue' \subseteq queue
      /\ worker' = [worker EXCEPT ![w] = Idle]
  BY DEF Finish, CrashWorker, posting
<1>2. StoreInv' /\ TypeOK' /\ RowsAllowed
  BY <1>1, TableKept, SameRowsAllowed
<1>3. DispatchTypeOK'
  BY <1>1, <1>2 DEF DispatchInv, DispatchTypeOK, WorkerState, Idle
<1>4. HoldersKept
  BY <1>1 DEF HoldersKept, DispatchInv, DispatchTypeOK, Idle, Busy
<1>5. QED
  BY <1>1, <1>2, <1>3, <1>4, HoldersKeptInv

\* A request that was given up on is carried out, or lost.
LEMMA LateStepInv ==
  ASSUME DispatchInv, NEW r \in late, LateStep(r)
  PROVE  [Next]_jobs /\ RowsAllowed /\ DispatchInv'
<1>1. r \in Request /\ r.job \in BatchJobs /\ LateInv(r)
  BY DEF DispatchInv, DispatchTypeOK, Request
<1>2. late' = late \ {r} /\ UNCHANGED <<posting, worker, owner, calls, stopping>>
  BY DEF LateStep, ServeLate, LoseLate
<1>3. [Next]_jobs /\ RowsAllowed
  <2>1. CASE r.op = "claim" /\ ClaimDispatch(r.job)
    BY <1>1, <2>1, ClaimRow
  <2>2. CASE r.op = "bind" /\ BindExternalJobId(r.job, r.id)
    BY <1>1, <2>2, BindRow DEF LateInv, Settled
  <2>3. CASE r.op = "fail" /\ FailDispatch(r.job)
    BY <1>1, <2>3, RejectRow DEF LateInv
  <2>4. CASE UNCHANGED jobs
    BY <2>4, SameRowsAllowed
  <2>5. QED
    BY <2>1, <2>2, <2>3, <2>4 DEF LateStep, ServeLate, LoseLate
<1>4. StoreInv' /\ TypeOK'
  BY <1>3, TableKept
<1>5. DispatchTypeOK'
  BY <1>2, <1>4 DEF DispatchInv, DispatchTypeOK, posting
<1>6. HoldersKept
  BY <1>2 DEF HoldersKept
<1>7. QED
  BY <1>3, <1>4, <1>5, <1>6, HoldersKeptInv

(***************************************************************************)
(* The invariant                                                            *)
(***************************************************************************)
LEMMA DispatchInitInv == DispatchInit => DispatchInv
<1> SUFFICES ASSUME DispatchInit PROVE DispatchInv
  OBVIOUS
<1>1. StoreInv /\ TypeOK
  BY InitGood DEF DispatchInit, StoreInv, TypeOK
<1>2. \A j \in BatchJobs : jobs[j] = AbsentRow
  BY DEF DispatchInit, Init, BatchJobs
<1>3. None \notin BatchJobs
  BY DispatchAssumption DEF BatchJobs
<1>4. \A w \in Workers : worker[w].pc = "idle"
  BY DEF DispatchInit, Idle
<1>5. \A x \in ExternalIds : owner[x] = None
  BY DEF DispatchInit
<1>6. DispatchTypeOK
  <2>1. Idle \in WorkerState
    BY DEF Idle, WorkerState
  <2>2. QED
    BY <1>1, <2>1 DEF DispatchInit, DispatchTypeOK
<1>7. \A w \in Workers : HolderInv(w)
  BY <1>4 DEF HolderInv, Busy
<1>8. OneHolder
  BY <1>4 DEF OneHolder, Busy
<1>9. \A j \in BatchJobs : RunInv(j)
  <2>1. \A j \in BatchJobs : calls[j] = 0 /\ BatchJobsOf(j) = {}
    BY <1>3, <1>5 DEF DispatchInit, BatchJobsOf
  <2>2. QED
    BY <1>2, <2>1 DEF RunInv, AbsentRow
<1>10. \A j \in BatchJobs : OfOneCall(j)
  <2>1. \A j \in BatchJobs : BatchJobsOf(j) = {}
    BY <1>3, <1>5 DEF BatchJobsOf
  <2>2. QED
    BY <2>1, FS_EmptySet, DispatchAssumption DEF OfOneCall
<1>11. QED
  BY <1>1, <1>6, <1>7, <1>8, <1>9, <1>10 DEF DispatchInv, DispatchInit

\* A dispatcher's step, whether or not something goes wrong around it.
LEMMA WorkerStepInv ==
  ASSUME DispatchInv, NEW w \in Workers, Progress(w) \/ Fault(w)
  PROVE  [Next]_jobs /\ RowsAllowed /\ DispatchInv'
<1>1. worker[w].todo \subseteq BatchJobs
  BY DEF DispatchInv, DispatchTypeOK, WorkerState
<1>2. ASSUME NEW batch \in SUBSET queue, NEW malformed \in BOOLEAN,
             Receive(w, batch, malformed)
      PROVE  [Next]_jobs /\ RowsAllowed /\ DispatchInv'
  BY <1>2, ReceiveInv
<1>3. ASSUME NEW j \in worker[w].todo, ClaimAnswered(w, j) \/ ClaimGivenUp(w, j)
      PROVE  [Next]_jobs /\ RowsAllowed /\ DispatchInv'
  BY <1>1, <1>3, ClaimAnsweredInv, ClaimGivenUpInv
<1>4. CASE Submit(w) \/ NoJobRunner(w)
  BY <1>4, SubmitInv, NoJobRunnerStep
<1>5. CASE BindAnswered(w) \/ BindGivenUp(w)
  BY <1>5, BindAnsweredInv, BindGivenUpInv
<1>6. CASE RejectAnswered(w) \/ RejectGivenUp(w)
  BY <1>6, RejectAnsweredInv, RejectGivenUpInv
<1>7. CASE Finish(w) \/ CrashWorker(w)
  BY <1>7, EndInv
<1>8. QED
  BY <1>2, <1>3, <1>4, <1>5, <1>6, <1>7 DEF Progress, Fault

LEMMA DispatchStep ==
  ASSUME DispatchInv, [DispatchNext]_vars
  PROVE  [Next]_jobs /\ RowsAllowed /\ DispatchInv'
<1>1. CASE Clock
  BY <1>1, ClockInv
<1>2. ASSUME NEW j \in BatchJobs, ApiStep(j) \/ DropMessage(j)
      PROVE  [Next]_jobs /\ RowsAllowed /\ DispatchInv'
  BY <1>2, ApiStepInv, DropMessageInv
<1>3. ASSUME NEW r \in stopping, StopStep(r)
      PROVE  [Next]_jobs /\ RowsAllowed /\ DispatchInv'
  BY <1>3, StopStepInv
<1>4. ASSUME NEW w \in Workers, Progress(w) \/ Fault(w)
      PROVE  [Next]_jobs /\ RowsAllowed /\ DispatchInv'
  BY <1>4, WorkerStepInv
<1>5. ASSUME NEW r \in late, LateStep(r)
      PROVE  [Next]_jobs /\ RowsAllowed /\ DispatchInv'
  BY <1>5, LateStepInv
<1>6. CASE UNCHANGED vars
  <2>1. StoreInv' /\ TypeOK'
    BY <1>6, TableKept DEF vars
  <2>2. DispatchTypeOK'
    BY <1>6, <2>1 DEF vars, posting, DispatchInv, DispatchTypeOK
  <2>3. HoldersKept
    BY <1>6 DEF vars, HoldersKept
  <2>4. QED
    BY <1>6, <2>1, <2>2, <2>3, SameRowsAllowed, HoldersKeptInv DEF vars
<1>7. QED
  BY <1>1, <1>2, <1>3, <1>4, <1>5, <1>6 DEF DispatchNext

\* DispatchInv is an invariant.
THEOREM DispatchInvariant == DispatchSpec => []DispatchInv
<1>1. DispatchInv /\ [DispatchNext]_vars => DispatchInv'
  BY DispatchStep
<1>2. QED
  BY DispatchInitInv, <1>1, PTL DEF DispatchSpec

\* The state always has its type.
THEOREM DispatchTypeCorrect == DispatchSpec => []DispatchTypeOK
<1>1. DispatchInv => DispatchTypeOK
  BY DEF DispatchInv
<1>2. QED
  BY DispatchInvariant, <1>1, PTL

\* Dispatch uses the table of jobs only through its handlers, so what is proved
\* of JobStore holds of it.
THEOREM DispatchUsesStore == DispatchSpec => Spec
<1>1. DispatchInit => Init
  BY DEF DispatchInit
<1>2. DispatchInv /\ [DispatchNext]_vars => [Next]_jobs
  BY DispatchStep
<1>3. QED
  BY DispatchInvariant, <1>1, <1>2, PTL DEF DispatchSpec, Spec

\* Whatever is redelivered, retried, answered late or lost, run_job is called
\* at most once for a run.
THEOREM SubmitCalledOnce == DispatchSpec => []AtMostOneSubmitCall
<1>1. DispatchInv => AtMostOneSubmitCall
  BY DEF DispatchInv, RunInv, AtMostOneSubmitCall
<1>2. QED
  BY DispatchInvariant, <1>1, PTL

\* A run is linked to no Batch job but its own.
THEOREM LinkedToOwn == DispatchSpec => []LinkIsOwn
<1>1. DispatchInv => LinkIsOwn
  BY DEF DispatchInv, RunInv, LinkIsOwn
<1>2. QED
  BY DispatchInvariant, <1>1, PTL

\* A run cancelled in the queue is never submitted.
THEOREM CancelledInQueue == DispatchSpec => []CancelledNeverExecutes
<1>1. DispatchInv => CancelledNeverExecutes
  BY DEF DispatchInv, RunInv, CancelledNeverExecutes
<1>2. QED
  BY DispatchInvariant, <1>1, PTL

\* However often SQS redelivers and the client repeats, all the Batch jobs of a run
\* come from the attempts of one call of run_job.
THEOREM JobsComeFromOneCall == DispatchSpec => []JobsOfOneCall
<1>1. DispatchInv => JobsOfOneCall
  BY DEF DispatchInv, OfOneCall, JobsOfOneCall
<1>2. QED
  BY DispatchInvariant, <1>1, PTL

\* A run that is shown as a failed dispatch has no Batch job of its rejected attempt,
\* however late the answers to its claim, its submission and its rejection come.
THEOREM RejectionMadeNone == DispatchSpec => []RejectedMadeNone
<1>1. DispatchInv => RejectedMadeNone
  BY DEF DispatchInv, RunInv, Settled, RejectedMadeNone
<1>2. QED
  BY DispatchInvariant, <1>1, PTL

(***************************************************************************)
(* Dispatch implements RunOnce                                              *)
(***************************************************************************)
IsCancelled(row) == row.status = "Cancelled" /\ row.ext = None
IsRejected(row) == row.status = "Failed" /\ row.ext = None

\* A step that submits nothing changes one row at most, or moves the clock.
OneRow ==
  \/ UNCHANGED jobs
  \/ Tick
  \/ \E j \in BatchJobs : \A i \in BatchJobs : i # j => jobs'[i] = jobs[i]

LEMMA UpdateIsOneRow ==
  ASSUME DispatchInv, NEW j \in BatchJobs, NEW row, jobs' = [jobs EXCEPT ![j] = row]
  PROVE  OneRow
<1>1. \A i \in BatchJobs : i # j => jobs'[i] = jobs[i]
  BY DEF DispatchInv, StoreInv, BatchJobs
<1>2. QED
  BY <1>1 DEF OneRow

LEMMA HandlerIsOneRow ==
  ASSUME DispatchInv, NEW j \in BatchJobs,
         \/ ApiRow(j) \/ ClaimDispatch(j) \/ FailDispatch(j)
         \/ \E x \in ExternalIds \cup {None} : BindExternalJobId(j, x)
  PROVE  OneRow
<1>1. UNCHANGED jobs \/ \E row : jobs' = [jobs EXCEPT ![j] = row]
  <2>1. CASE UNCHANGED jobs \/ CreateJob(j)
    BY <2>1 DEF CreateJob
  <2>2. CASE RequestJobCancellation(j) \/ RecordCancellationFailure(j)
    BY <2>2 DEF RequestJobCancellation, RecordCancellationFailure, Update
  <2>3. CASE \E s \in BatchStates, t \in 0..LastTime : RecordBatchDetails(j, s, t)
    BY <2>3 DEF RecordBatchDetails, Update
  <2>4. CASE ExpireUnlinkedDispatch(j) \/ ReconcileCancellation(j)
    BY <2>4 DEF ExpireUnlinkedDispatch, ReconcileCancellation, Update
  <2>5. CASE ClaimDispatch(j) \/ FailDispatch(j)
    BY <2>5 DEF ClaimDispatch, FailDispatch, Update
  <2>6. CASE \E x \in ExternalIds \cup {None} : BindExternalJobId(j, x)
    BY <2>6 DEF BindExternalJobId, Update
  <2>7. QED
    BY <2>1, <2>2, <2>3, <2>4, <2>5, <2>6 DEF ApiRow
<1>2. QED
  BY <1>1, UpdateIsOneRow DEF OneRow

LEMMA StepIsOneRow ==
  ASSUME DispatchInv, [DispatchNext]_vars
  PROVE  \/ OneRow /\ UNCHANGED owner
         \/ \E w \in Workers, made \in SubmitAttempts : Submitted(w, made)
<1>1. CASE Clock
  BY <1>1 DEF Clock, OneRow
<1>2. ASSUME NEW j \in BatchJobs, ApiStep(j) \/ DropMessage(j)
      PROVE  OneRow /\ UNCHANGED owner
  <2>1. ApiRow(j) /\ UNCHANGED owner
    BY <1>2, ApiStepRow DEF DropMessage, ApiRow
  <2>2. QED
    BY <2>1, HandlerIsOneRow
<1>3. ASSUME NEW r \in stopping, StopStep(r)
      PROVE  OneRow /\ UNCHANGED owner
  <2>1. r.job \in BatchJobs
    BY DEF DispatchInv, DispatchTypeOK
  <2>2. ApiRow(r.job) /\ UNCHANGED owner
    BY <1>3 DEF StopStep, StopEnds, StopRefused, ApiRow
  <2>3. QED
    BY <2>1, <2>2, HandlerIsOneRow
<1>4. ASSUME NEW w \in Workers, Progress(w) \/ Fault(w)
      PROVE  \/ OneRow /\ UNCHANGED owner
             \/ \E made \in SubmitAttempts : Submitted(w, made)
  <2>1. worker[w].todo \subseteq BatchJobs
    BY DEF DispatchInv, DispatchTypeOK, WorkerState
  <2>2. CASE Submit(w)
    BY <2>2 DEF Submit, SubmitAccepted, SubmitUncertain, SubmitRejected
  <2>3. ASSUME NEW j \in worker[w].todo, ClaimAnswered(w, j)
        PROVE  OneRow /\ UNCHANGED owner
    BY <2>1, <2>3, HandlerIsOneRow DEF ClaimAnswered
  <2>4. CASE BindAnswered(w)
    <3>1. worker[w].job \in BatchJobs /\ worker[w].id \in ExternalIds
      BY <2>4 DEF BindAnswered, DispatchInv, HolderInv, Busy
    <3>2. QED
      BY <2>4, <3>1, HandlerIsOneRow DEF BindAnswered
  <2>5. CASE RejectAnswered(w)
    <3>1. worker[w].job \in BatchJobs
      BY <2>5 DEF RejectAnswered, DispatchInv, HolderInv, Busy
    <3>2. QED
      BY <2>5, <3>1, HandlerIsOneRow DEF RejectAnswered
  <2>6. CASE UNCHANGED <<jobs, owner>>
    BY <2>6 DEF OneRow
  <2>7. QED
    BY <1>4, <2>2, <2>3, <2>4, <2>5, <2>6
    DEF Progress, Fault, Receive, NoJobRunner, Finish, ClaimGivenUp, BindGivenUp,
        RejectGivenUp, GiveUp, CrashWorker
<1>5. ASSUME NEW r \in late, LateStep(r)
      PROVE  OneRow /\ UNCHANGED owner
  <2>1. r.job \in BatchJobs /\ r.id \in ExternalIds \cup {None}
    BY DEF DispatchInv, DispatchTypeOK, Request
  <2>2. UNCHANGED owner
    BY <1>5 DEF LateStep, ServeLate, LoseLate
  <2>3. \/ UNCHANGED jobs
        \/ ClaimDispatch(r.job)
        \/ BindExternalJobId(r.job, r.id)
        \/ FailDispatch(r.job)
    BY <1>5 DEF LateStep, ServeLate, LoseLate
  <2>4. QED
    BY <2>1, <2>2, <2>3, HandlerIsOneRow DEF OneRow
<1>6. CASE UNCHANGED vars
  BY <1>6 DEF vars, OneRow
<1>7. QED
  BY <1>1, <1>2, <1>3, <1>4, <1>5, <1>6 DEF DispatchNext

\* RunOnce counts as Dispatch does.
LEMMA SameCounting ==
  ASSUME NEW S
  PROVE  Run!Cardinality(S) = Cardinality(S) /\ Run!IsFiniteSet(S) = IsFiniteSet(S)
<1>1. Run!IsFiniteSet(S) = IsFiniteSet(S)
  BY Zenon DEF Run!IsFiniteSet, IsFiniteSet
<1>2. Run!Cardinality(S) = Cardinality(S)
  BY Zenon DEF Run!Cardinality, Cardinality
<1>3. QED
  BY <1>1, <1>2

\* What RunOnce sees of the state.
Work == [j \in BatchJobs |-> BatchJobsOf(j)]
LinkOf == [j \in BatchJobs |-> jobs[j].ext]
CancelledRuns == {j \in BatchJobs : IsCancelled(jobs[j])}
RejectedRuns == {j \in BatchJobs : IsRejected(jobs[j])}

\* The invariants decide which rows RunOnce may see change, and how: a new link
\* is to a Batch job of the run's own, which was neither cancelled nor rejected, and
\* a run that is cancelled or rejected stays so.
LEMMA RowSeen ==
  ASSUME DispatchInv, DispatchInv', [Next]_jobs, RowsAllowed, UNCHANGED owner,
         NEW j \in BatchJobs
  PROVE  /\ jobs'[j].ext # jobs[j].ext =>
              /\ jobs[j].ext = None
              /\ jobs'[j].ext \in BatchJobsOf(j)
              /\ ~IsCancelled(jobs[j]) /\ ~IsRejected(jobs[j])
              /\ ~IsCancelled(jobs'[j]) /\ ~IsRejected(jobs'[j])
         /\ IsCancelled(jobs'[j]) => BatchJobsOf(j) = {}
         /\ IsRejected(jobs'[j]) => Cardinality(BatchJobsOf(j)) < SdkAttempts
         /\ jobs'[j].ext = jobs[j].ext =>
              /\ IsCancelled(jobs[j]) => IsCancelled(jobs'[j])
              /\ IsRejected(jobs[j]) => IsRejected(jobs'[j])
<1>1. GoodStep(jobs[j], jobs'[j]) /\ BatchStep(jobs[j], jobs'[j])
  BY NextStep DEF DispatchInv, TableStep, BatchJobs
<1>2. RunInv(j) /\ RunInv(j)' /\ RowAllowed(j, jobs'[j])
  BY DEF DispatchInv, RowsAllowed
<1>3. BatchJobsOf(j)' = BatchJobsOf(j)
  BY DEF BatchJobsOf
<1>4. jobs'[j].ext \in ExternalIds \cup {None}
  BY DEF DispatchInv, StoreInv, Row, BatchJobs
<1>5. jobs'[j].ext # None => jobs'[j].ext \in BatchJobsOf(j)
  BY <1>2, <1>4 DEF RunInv, BatchJobsOf
<1>6. IsCancelled(jobs[j]) => BatchJobsOf(j) = {}
  BY <1>2 DEF RunInv, IsCancelled
<1>7. IsCancelled(jobs'[j]) => BatchJobsOf(j) = {}
  BY <1>2, <1>3 DEF RunInv, IsCancelled
<1>8. IsRejected(jobs'[j]) => Cardinality(BatchJobsOf(j)) < SdkAttempts
  BY <1>2, <1>3 DEF RunInv, IsRejected, Settled
<1>9. IsRejected(jobs[j]) => jobs'[j].ext = jobs[j].ext
  BY <1>2 DEF RunInv, RowAllowed, IsRejected
<1>10. jobs'[j].ext = jobs[j].ext =>
         /\ IsCancelled(jobs[j]) => IsCancelled(jobs'[j])
         /\ IsRejected(jobs[j]) => IsRejected(jobs'[j])
  BY <1>1 DEF BatchStep, Finished, IsCancelled, IsRejected
<1>11. jobs'[j].ext # jobs[j].ext => jobs[j].ext = None /\ jobs'[j].ext # None
  BY <1>1 DEF GoodStep
<1>12. jobs'[j].ext # jobs[j].ext =>
         /\ ~IsCancelled(jobs[j]) /\ ~IsRejected(jobs[j])
         /\ ~IsCancelled(jobs'[j]) /\ ~IsRejected(jobs'[j])
  BY <1>5, <1>6, <1>9, <1>11 DEF IsCancelled, IsRejected
<1>13. QED
  BY <1>5, <1>7, <1>8, <1>10, <1>11, <1>12

LEMMA OneRowRefines ==
  ASSUME DispatchInv, DispatchInv', [Next]_jobs, RowsAllowed, UNCHANGED owner, OneRow
  PROVE  [Run!Next]_(Run!vars)
<1> USE DEF CancelledRuns, RejectedRuns
<1>1. Work' = Work
  BY DEF Work, BatchJobsOf
<1>2. ASSUME LinkOf' = LinkOf, CancelledRuns' = CancelledRuns, RejectedRuns' = RejectedRuns
      PROVE  UNCHANGED Run!vars
  BY <1>1, <1>2 DEF Run!vars, Work, LinkOf, IsCancelled, IsRejected
<1>3. CASE UNCHANGED jobs
  BY <1>2, <1>3 DEF LinkOf
<1>4. CASE Tick
  <2>1. \A i \in BatchJobs : jobs'[i] = Aged(jobs[i]) /\ jobs[i] \in Row
    BY <1>4 DEF Tick, DispatchInv, StoreInv, BatchJobs
  <2>2. \A i \in BatchJobs : jobs'[i].ext = jobs[i].ext /\ jobs'[i].status = jobs[i].status
    BY <2>1 DEF Aged, Row
  <2>3. LinkOf' = LinkOf /\ CancelledRuns' = CancelledRuns /\ RejectedRuns' = RejectedRuns
    BY <2>2 DEF LinkOf, IsCancelled, IsRejected
  <2>4. QED
    BY <1>2, <2>3
<1>5. ASSUME NEW j \in BatchJobs, \A i \in BatchJobs : i # j => jobs'[i] = jobs[i]
      PROVE  [Run!Next]_(Run!vars)
  <2>1. CASE jobs'[j].ext # jobs[j].ext
    <3>1. LinkOf[j] = None /\ jobs'[j].ext \in Work[j]
      BY <2>1, RowSeen DEF LinkOf, Work
    <3>2. LinkOf' = [LinkOf EXCEPT ![j] = jobs'[j].ext]
      BY <1>5 DEF LinkOf
    <3>3. /\ CancelledRuns' = CancelledRuns /\ RejectedRuns' = RejectedRuns
          /\ j \notin CancelledRuns \cup RejectedRuns
      BY <1>5, <2>1, RowSeen
    <3>4. Run!Link(j)
      BY <1>1, <3>1, <3>2, <3>3
      DEF Run!Link, Run!Open, LinkOf, Work, IsCancelled, IsRejected
    <3>5. QED
      BY <3>4 DEF Run!Next
  <2>2. CASE jobs'[j].ext = jobs[j].ext
    <3>1. LinkOf' = LinkOf
      BY <1>5, <2>2 DEF LinkOf
    <3>2. ~(IsCancelled(jobs'[j]) /\ IsRejected(jobs'[j]))
      BY DEF IsCancelled, IsRejected
    <3>3. CASE IsCancelled(jobs'[j]) /\ ~IsCancelled(jobs[j])
      <4>1. /\ Work[j] = {} /\ CancelledRuns' = CancelledRuns \cup {j}
            /\ RejectedRuns' = RejectedRuns /\ j \notin CancelledRuns \cup RejectedRuns
        BY <1>5, <2>2, <3>2, <3>3, RowSeen DEF Work
      <4>2. Run!Cancel(j)
        BY <1>1, <3>1, <4>1
        DEF Run!Cancel, Run!Open, LinkOf, Work, IsCancelled, IsRejected
      <4>3. QED
        BY <4>2 DEF Run!Next
    <3>4. CASE IsRejected(jobs'[j]) /\ ~IsRejected(jobs[j])
      <4>1. /\ LinkOf[j] = None /\ Cardinality(Work[j]) < SdkAttempts
            /\ RejectedRuns' = RejectedRuns \cup {j} /\ CancelledRuns' = CancelledRuns
            /\ j \notin CancelledRuns \cup RejectedRuns
        <5>1. Cardinality(BatchJobsOf(j)) < SdkAttempts
          BY <3>4, RowSeen
        <5>2. LinkOf[j] = None
          BY <2>2, <3>4 DEF LinkOf, IsRejected
        <5>3. QED
          BY <1>5, <2>2, <3>2, <3>4, <5>1, <5>2, RowSeen DEF Work
      <4>2. Run!Reject(j)
        <5>1. LinkOf[j] = jobs[j].ext /\ Work[j] = BatchJobsOf(j)
          BY DEF LinkOf, Work
        <5>2. Run!Open(j)
          BY <4>1 DEF Run!Open, IsCancelled, IsRejected
        <5>3. QED
          BY <1>1, <3>1, <4>1, <5>1, <5>2, SameCounting
          DEF Run!Reject, LinkOf, Work, IsCancelled, IsRejected
      <4>3. QED
        BY <4>2 DEF Run!Next
    <3>5. CASE /\ IsCancelled(jobs'[j]) => IsCancelled(jobs[j])
               /\ IsRejected(jobs'[j]) => IsRejected(jobs[j])
      <4>1. CancelledRuns' = CancelledRuns /\ RejectedRuns' = RejectedRuns
        BY <1>5, <2>2, <3>5, RowSeen
      <4>2. QED
        BY <1>2, <3>1, <4>1
    <3>6. QED
      BY <3>3, <3>4, <3>5
  <2>3. QED
    BY <2>1, <2>2
<1>6. QED
  BY <1>3, <1>4, <1>5 DEF OneRow

LEMMA SubmittedRefines ==
  ASSUME DispatchInv, NEW w \in Workers, NEW made \in SubmitAttempts, Submitted(w, made)
  PROVE  [Run!Next]_(Run!vars)
<1> DEFINE S == NewJobs(made)
<1>1. PICK j \in BatchJobs : j = worker[w].job
  BY DEF Submitted, DispatchInv, HolderInv, Busy
<1>2. jobs[j].claimed /\ BatchJobsOf(j) = {} /\ ~Settled(j) /\ RunInv(j)
  BY <1>1 DEF Submitted, DispatchInv, HolderInv, Busy, Settled
<1>3. LinkOf' = LinkOf /\ CancelledRuns' = CancelledRuns /\ RejectedRuns' = RejectedRuns
  BY DEF Submitted, LinkOf, CancelledRuns, RejectedRuns
<1>4. j \notin CancelledRuns \cup RejectedRuns
  BY <1>2 DEF RunInv, CancelledRuns, RejectedRuns, IsCancelled, IsRejected
<1>5. \A y \in ExternalIds : owner'[y] = IF y \in S THEN j ELSE owner[y]
  BY <1>1 DEF Submitted, NewJobs
<1>6. None \notin BatchJobs /\ None \notin ExternalIds
  BY DispatchAssumption, JobStoreAssumption DEF BatchJobs
<1>7. S \subseteq ExternalIds /\ \A x \in S : owner[x] = None
  BY <1>6, AttemptFacts DEF NewJobs, FreeIds
<1>8. IsFiniteSet(S) /\ Cardinality(S) <= SdkAttempts
  BY AttemptsBoundJobs
<1> HIDE DEF S
<1>9. \A i \in BatchJobs : BatchJobsOf(i)' = IF i = j THEN S ELSE BatchJobsOf(i)
  BY <1>2, <1>5, <1>6, <1>7 DEF BatchJobsOf
<1>10. Work' = [Work EXCEPT ![j] = S]
  BY <1>9 DEF Work
<1>11. Work[j] = {} /\ \A i \in BatchJobs : S \cap Work[i] = {}
  BY <1>2, <1>6, <1>7 DEF Work, BatchJobsOf
<1>12. CASE S = {}
  <2>1. Work' = Work
    BY <1>10, <1>11, <1>12 DEF Work
  <2>2. QED
    BY <1>3, <2>1
    DEF Run!vars, Work, LinkOf, CancelledRuns, RejectedRuns, IsCancelled, IsRejected
<1>13. CASE S # {}
  <2>1. /\ S \in SUBSET ExternalIds /\ S # {} /\ IsFiniteSet(S)
        /\ Cardinality(S) <= SdkAttempts
        /\ \A i \in BatchJobs : S \cap Work[i] = {}
        /\ Work' = [Work EXCEPT ![j] = S]
    BY <1>7, <1>8, <1>10, <1>11, <1>13
  <2>2. Run!Open(j)
    BY <1>4 DEF Run!Open, CancelledRuns, RejectedRuns, IsCancelled, IsRejected
  <2>3. Run!IsFiniteSet(S) /\ Run!Cardinality(S) <= SdkAttempts
    BY <2>1, SameCounting
  <2>4. Run!Start(j)
    BY <1>3, <1>11, <2>1, <2>2, <2>3, Zenon
    DEF Run!Start, Work, LinkOf, CancelledRuns, RejectedRuns, IsCancelled, IsRejected
  <2>5. QED
    BY <2>4 DEF Run!Next
<1>14. QED
  BY <1>12, <1>13

\* Dispatch keeps the promise of RunOnce: a run is given to AWS Batch in one go, is
\* linked to nothing else, is never given to AWS Batch once it was cancelled, and is
\* never linked once it was rejected.
THEOREM DispatchRunsOnce == DispatchSpec => RunsOnce
<1>1. DispatchInit => Run!Init
  <2>1. ASSUME DispatchInit PROVE Run!Init
    <3>1. \A j \in BatchJobs : jobs[j] = AbsentRow /\ BatchJobsOf(j) = {}
      BY <2>1, DispatchAssumption DEF DispatchInit, Init, BatchJobs, BatchJobsOf
    <3>2. QED
      BY <3>1 DEF Run!Init, AbsentRow
  <2>2. QED
    BY <2>1
<1>2. DispatchInv /\ DispatchInv' /\ [DispatchNext]_vars => [Run!Next]_(Run!vars)
  <2> SUFFICES ASSUME DispatchInv, DispatchInv', [DispatchNext]_vars
               PROVE  [Run!Next]_(Run!vars)
    OBVIOUS
  <2>1. [Next]_jobs /\ RowsAllowed
    BY DispatchStep
  <2>2. CASE OneRow /\ UNCHANGED owner
    BY <2>1, <2>2, OneRowRefines
  <2>3. CASE \E w \in Workers, made \in SubmitAttempts : Submitted(w, made)
    BY <2>3, SubmittedRefines
  <2>4. QED
    BY <2>2, <2>3, StepIsOneRow
<1>3. QED
  BY DispatchInvariant, <1>1, <1>2, PTL DEF DispatchSpec, RunsOnce, Run!Spec

=============================================================================
