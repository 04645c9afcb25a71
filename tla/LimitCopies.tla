------------------------------- MODULE LimitCopies -------------------------------
(***************************************************************************)
(* The rate limit of one office as the API's processes keep it: the row in   *)
(* the database with its history, the copy of each process                   *)
(* (OfficeRateLimitStore), which a request renews at most once a minute, and *)
(* the administrators whose writes are put into the copy of their process.   *)
(***************************************************************************)
EXTENDS Integers, Sequences, FiniteSets

CONSTANTS
  Workers,          \* API processes, numbered from 1
  Readers, Writers, \* requests that refresh, and that write: <<process, thread>>
  Limits,           \* limits an administrator may set
  Default,          \* no row: the default applies
  Idle, Unread,     \* a request that does nothing of this; one that has yet to read
  RefreshWindow,    \* the time between two refreshes: a minute
  MaxLimitWrites,   \* bound: writes
  MaxForced,        \* bound: readings by the administrators' page
  MaxReadFailures   \* bound: refreshes the database fails

ASSUME LimitCopiesAssumption ==
  /\ Readers \cup Writers \subseteq Workers \X Nat /\ Default \notin Limits /\ {Idle, Unread} \cap (Limits \cup {Default}) = {}
  /\ {RefreshWindow, MaxLimitWrites, MaxForced, MaxReadFailures} \subseteq Nat

VARIABLES
  stored,        \* office_rate_limits
  changes,       \* office_rate_limit_history: what each replaced, and by what
  copies,        \* _overrides, of each process
  sinceRefresh,  \* time since _last_refresh, up to the window
  refreshing,    \* for each reader: Idle, Unread, or what it has read
  writing,       \* for each writer: Idle, or its write with its phase
  counts         \* counters: writes, forced readings, failures

copyVars == <<stored, changes, copies, sinceRefresh, refreshing, writing, counts>>

Values == Limits \cup {Default}

LimitCopiesInit ==
  /\ stored \in Values /\ changes = <<>>
  /\ copies = [w \in Workers |-> Default]
  /\ sinceRefresh = [w \in Workers |-> RefreshWindow]
  /\ refreshing = [p \in Readers |-> Idle] /\ writing = [p \in Writers |-> Idle]
  /\ counts = [writes |-> 0, forced |-> 0, failures |-> 0]

SecondsPass ==
  /\ \E w \in Workers : sinceRefresh[w] < RefreshWindow
  /\ sinceRefresh' = [w \in Workers |-> IF sinceRefresh[w] < RefreshWindow THEN sinceRefresh[w] + 1
                                        ELSE RefreshWindow]
  /\ UNCHANGED <<stored, changes, copies, refreshing, writing, counts>>

(***************************************************************************)
(* Refreshes                                                                *)
(***************************************************************************)
\* Once read, the limits are kept (mutant).
DueOnce(w) == copies[w] = Default /\ sinceRefresh[w] = RefreshWindow

RefreshDue(w) == sinceRefresh[w] = RefreshWindow

\* The time is taken before the table is read, so that one request reads it.
RefreshBegins(p) ==
  /\ refreshing[p] = Idle
  /\ \/ RefreshDue(p[1]) /\ UNCHANGED counts
     \/ counts.forced < MaxForced /\ counts' = [counts EXCEPT !.forced = @ + 1]
  /\ sinceRefresh' = [sinceRefresh EXCEPT ![p[1]] = 0]
  /\ refreshing' = [refreshing EXCEPT ![p] = Unread]
  /\ UNCHANGED <<stored, changes, copies, writing>>

RefreshReads(p) ==
  /\ refreshing[p] = Unread
  /\ refreshing' = [refreshing EXCEPT ![p] = stored]
  /\ UNCHANGED <<stored, changes, copies, sinceRefresh, writing, counts>>

\* The last known limits stay.
RefreshFails(p) ==
  /\ refreshing[p] = Unread
  /\ counts.failures < MaxReadFailures /\ counts' = [counts EXCEPT !.failures = @ + 1]
  /\ refreshing' = [refreshing EXCEPT ![p] = Idle]
  /\ UNCHANGED <<stored, changes, copies, sinceRefresh, writing>>

RefreshStores(p) ==
  /\ refreshing[p] \in Values
  /\ copies' = [copies EXCEPT ![p[1]] = refreshing[p]]
  /\ refreshing' = [refreshing EXCEPT ![p] = Idle]
  /\ UNCHANGED <<stored, changes, sinceRefresh, writing, counts>>

(***************************************************************************)
(* Writes                                                                   *)
(***************************************************************************)
\* The row is read without its lock (mutant).
NeverLocked(p) == FALSE

\* SELECT ... FOR UPDATE locks the row there is; without one it locks nothing.
LockedFor(p) ==
  \E q \in Writers \ {p} : writing[q] /= Idle /\ writing[q].phase = "read" /\ writing[q].previous /= Default

WriteBegins(p) ==
  /\ writing[p] = Idle /\ ~LockedFor(p)
  /\ counts.writes < MaxLimitWrites /\ counts' = [counts EXCEPT !.writes = @ + 1]
  /\ \E v \in Values :
          writing' = [writing EXCEPT ![p] = [phase |-> "read", value |-> v, previous |-> stored]]
  /\ UNCHANGED <<stored, changes, copies, sinceRefresh, refreshing>>

\* update_rate_limit inserts or updates; reset_rate_limit deletes, and has nothing to
\* tell of a row it did not find.
WriteCommits(p) ==
  /\ writing[p] /= Idle /\ writing[p].phase = "read" /\ ~LockedFor(p)
  /\ stored' = writing[p].value
  /\ changes' = IF writing[p].value = Default /\ writing[p].previous = Default THEN changes
                   ELSE Append(changes, [previous |-> writing[p].previous, new |-> writing[p].value])
  /\ writing' = [writing EXCEPT ![p].phase = "committed"]
  /\ UNCHANGED <<copies, sinceRefresh, refreshing, counts>>

\* store.set, store.remove
CopyIsSet(p) ==
  /\ writing[p] /= Idle /\ writing[p].phase = "committed"
  /\ copies' = [copies EXCEPT ![p[1]] = writing[p].value]
  /\ writing' = [writing EXCEPT ![p] = Idle]
  /\ UNCHANGED <<stored, changes, sinceRefresh, refreshing, counts>>

LimitCopiesNext ==
  \/ SecondsPass
  \/ \E p \in Readers :
       RefreshBegins(p) \/ RefreshReads(p) \/ RefreshFails(p) \/ RefreshStores(p)
  \/ \E p \in Writers :
       WriteBegins(p) \/ WriteCommits(p) \/ CopyIsSet(p)

RefreshOf(w)     == RefreshDue(w) /\ \E p \in Readers : p[1] = w /\ RefreshBegins(p)
RefreshEndsOf(w) == \E p \in Readers : p[1] = w /\ (RefreshReads(p) \/ RefreshStores(p))

\* Requests come to each process, and what has begun ends.
CopiesProgress(i) ==
  \/ i = 1 /\ SecondsPass
  \/ i = 2 /\ \E p \in Writers : WriteCommits(p) \/ CopyIsSet(p)
  \/ i - 2 \in Workers /\ RefreshOf(i - 2)
  \/ i - 2 - Cardinality(Workers) \in Workers /\ RefreshEndsOf(i - 2 - Cardinality(Workers))

LimitCopiesSpec ==
  /\ LimitCopiesInit /\ [][LimitCopiesNext]_copyVars
  /\ \A i \in 1..(2 + 2 * Cardinality(Workers)) : WF_copyVars(CopiesProgress(i))

(***************************************************************************)
(* Properties                                                               *)
(***************************************************************************)
LimitCopiesTypeOK ==
  /\ stored \in Values /\ copies \in [Workers -> Values]
  /\ sinceRefresh \in [Workers -> 0..RefreshWindow]
  /\ refreshing \in [Readers -> Values \cup {Idle, Unread}]
  /\ \A p \in Writers : writing[p] /= Idle => writing[p].value \in Values

\* An entry of the history that names a limit it replaced names the one before it,
\* whoever else was writing.  Two first overrides may both name none.
HistoryChains ==
  \A i \in 2..Len(changes) :
    changes[i].previous \in {Default, changes[i - 1].new}

\* Every process comes to apply the stored limit, although a refresh that read before a
\* write may store after it, two writes may reach a copy in the wrong order, and a
\* refresh may fail.
CopiesAreCurrent == \A w \in Workers : copies[w] = stored
CopiesCatchUp == <>[]CopiesAreCurrent
=============================================================================
