------------------------------ MODULE RunHistory ------------------------------
(***************************************************************************)
(* The history of runs, page by page (JobsList.tsx, ScriptJobRuns, with      *)
(* useJobsPage): the filters, the page and its size, and one query for each  *)
(* combination of them, kept in the cache and read again whenever it is      *)
(* shown, while runs are added at the top.                                   *)
(*                                                                          *)
(* Runs are numbers in the order of their creation; the newest come first.   *)
(***************************************************************************)
EXTENDS Naturals, FiniteSets, Browser

CONSTANTS
  Filters,    \* offices and dates: from a filter to the runs it keeps
  Invalid,    \* filters whose dates are in the wrong order
  Sizes,      \* runs per page
  FirstTotal, \* runs at first
  MaxTotal,   \* bound: runs
  MaxTurns,   \* bound: what the user does
  MaxReadingErrors \* bound: readings that fail

ASSUME RunHistoryAssumption ==
  /\ FirstTotal \in 0..MaxTotal /\ MaxTotal \in Nat /\ Sizes \subseteq Nat \ {0}
  /\ DOMAIN Filters /= {} /\ \A f \in DOMAIN Filters : Filters[f] \subseteq 1..MaxTotal
  /\ Invalid \subseteq DOMAIN Filters /\ MaxTurns \in Nat /\ MaxReadingErrors \in Nat

VARIABLES
  total,    \* runs on the server
  shownKey, \* page, size and filter chosen
  previous, \* data shown while those of the key are awaited, or None
  pagesRead, \* the cache: from the keys read to their runs and total
  notRead,  \* keys whose last reading failed
  underWay, \* readings under way, with what the server answered
  walk,     \* the runs seen since page 1, going forward: see Walks
  turns, readingErrors   \* counters

historyVars == <<total, shownKey, previous, pagesRead, notRead, underWay, walk, turns, readingErrors>>

\* The server: offset and limit over the runs that match, newest first
Matching(f) == {i \in Filters[f] : i <= total}
Rank(i, f)  == Cardinality({j \in Matching(f) : j >= i})

\* The offset is counted from the page itself (mutant).
OffsetByPage(k) == k.page * k.size

Offset(k) == (k.page - 1) * k.size

ServerPage(k) ==
  [runs |-> {i \in Matching(k.filter) : Rank(i, k.filter) \in (Offset(k) + 1)..(Offset(k) + k.size)},
   total |-> Cardinality(Matching(k.filter)), until |-> total]

Read(k) == k \in DOMAIN pagesRead
Pending(k) == ~Read(k) /\ k \notin notRead
PageShown  == IF Read(shownKey) THEN pagesRead[shownKey] ELSE IF Pending(shownKey) THEN previous ELSE None
Loading == Pending(shownKey) /\ (previous /= None \/ shownKey.filter \notin Invalid)

Pages(n, size) == IF n = 0 THEN 1 ELSE (n + size - 1) \div size
PageCount == IF PageShown = None THEN 1 ELSE Pages(PageShown.total, shownKey.size)

Reader(k) == {r \in underWay : r.key = k}
PageSettled == Read(shownKey) /\ Reader(shownKey) = {} /\ shownKey \notin notRead

NoWalk == [whole |-> FALSE, at |-> 0, seen |-> {}]

RunHistoryInit ==
  /\ total = FirstTotal /\ \E f \in DOMAIN Filters \ Invalid, n \in Sizes :
                              shownKey = [page |-> 1, size |-> n, filter |-> f]
  /\ previous = None /\ pagesRead = <<>> /\ notRead = {}
  /\ underWay = {[key |-> shownKey, answer |-> ServerPage(shownKey)]}
  /\ walk = NoWalk /\ turns = 0 /\ readingErrors = 0

NewRun ==
  /\ total < MaxTotal /\ total' = total + 1
  /\ UNCHANGED <<shownKey, previous, pagesRead, notRead, underWay, walk, turns, readingErrors>>

(***************************************************************************)
(* Readings                                                                 *)
(***************************************************************************)
\* Dates in the wrong order are read like any other (mutant).
ReadingAnyDates(k) ==
  /\ underWay' = underWay \cup (IF Reader(k) /= {} THEN {} ELSE {[key |-> k, answer |-> ServerPage(k)]})
  /\ notRead' = IF Read(k) THEN notRead ELSE notRead \ {k}

\* A key that is shown is read, unless that is under way or its dates are in the wrong
\* order; without data it is pending again.
Reading(k) ==
  IF Reader(k) /= {} \/ k.filter \in Invalid THEN UNCHANGED <<underWay, notRead>>
  ELSE /\ underWay' = underWay \cup {[key |-> k, answer |-> ServerPage(k)]}
       /\ notRead' = IF Read(k) THEN notRead ELSE notRead \ {k}

\* What going forward from page 1 has shown, page after page, each one settled
Walks(k, data) ==
  IF k.page = 1 THEN [whole |-> TRUE, at |-> data.until, seen |-> data.runs]
  ELSE [walk EXCEPT !.seen = @ \cup data.runs]

Arrive ==
  \E r \in underWay :
    /\ underWay' = underWay \ {r} /\ notRead' = notRead \ {r.key}
    /\ pagesRead' = [k \in DOMAIN pagesRead \cup {r.key} |-> IF k = r.key THEN r.answer ELSE pagesRead[k]]
    /\ walk' = IF r.key = shownKey THEN Walks(r.key, r.answer) ELSE walk
    /\ UNCHANGED <<total, shownKey, previous, turns, readingErrors>>

ReadingFails ==
  /\ readingErrors < MaxReadingErrors /\ readingErrors' = readingErrors + 1
  /\ \E r \in underWay : underWay' = underWay \ {r} /\ notRead' = notRead \cup {r.key}
  /\ UNCHANGED <<total, shownKey, previous, pagesRead, walk, turns>>

(***************************************************************************)
(* The page                                                                 *)
(***************************************************************************)
Turns == turns < MaxTurns /\ turns' = turns + 1

\* keepPreviousData
Turn(k) ==
  /\ Turns /\ shownKey' = k
  /\ previous' = IF PageShown /= None THEN PageShown ELSE previous
  /\ Reading(k)
  /\ UNCHANGED <<total, pagesRead, readingErrors>>

NextPage ==
  /\ ~Loading /\ shownKey.page < PageCount
  /\ LET next == [shownKey EXCEPT !.page = @ + 1] IN
       Turn(next) /\ walk' = IF PageSettled /\ Reader(next) = {} THEN walk ELSE NoWalk

PreviousPage ==
  /\ ~Loading /\ shownKey.page > 1
  /\ Turn([shownKey EXCEPT !.page = @ - 1]) /\ walk' = NoWalk

\* The filter changes on whatever page is shown (mutant).
FilterKeepsPage ==
  /\ \E f \in DOMAIN Filters \ {shownKey.filter} : Turn([shownKey EXCEPT !.filter = f])
  /\ walk' = NoWalk

\* Offices or dates
ChooseFilter ==
  /\ \E f \in DOMAIN Filters \ {shownKey.filter} : Turn([shownKey EXCEPT !.filter = f, !.page = 1])
  /\ walk' = NoWalk

ChooseSize ==
  /\ \E n \in Sizes \ {shownKey.size} : Turn([shownKey EXCEPT !.size = n, !.page = 1])
  /\ walk' = NoWalk

\* Refresh, Retry, or a new latest run in the list of the scripts
RefreshPage ==
  /\ Turns /\ Reader(shownKey) = {} /\ shownKey.filter \notin Invalid
  /\ Reading(shownKey)
  /\ walk' = IF Read(shownKey) THEN walk ELSE NoWalk
  /\ UNCHANGED <<total, shownKey, previous, pagesRead, readingErrors>>

RunHistoryNext ==
  \/ NewRun \/ Arrive \/ ReadingFails
  \/ NextPage \/ PreviousPage \/ ChooseFilter \/ ChooseSize \/ RefreshPage

RunHistorySpec == RunHistoryInit /\ [][RunHistoryNext]_historyVars

(***************************************************************************)
(* Properties                                                               *)
(***************************************************************************)
\* Shape of the state; a query is read once at a time, and never with dates in the
\* wrong order.
HistoryTypeOK ==
  /\ total \in 0..MaxTotal /\ shownKey.page \in 1..(MaxTotal + 1) /\ shownKey.size \in Sizes
  /\ \A r, q \in underWay : r.key = q.key => r = q
  /\ \A r \in underWay : r.key.filter \notin Invalid

\* A page that was read exists: changing the filter, the size or the page never
\* leads past the last one, although the count that allowed the step was that of
\* an older reading, or of another page.
NoPageBeyond ==
  Read(shownKey) => shownKey.page <= Pages(pagesRead[shownKey].total, shownKey.size)

\* Going forward page by page passes over no run: every run that was there when page
\* 1 was read and is not older than what is shown now has been shown, however many
\* runs were added meanwhile. A page whose reading was still under way from an earlier
\* visit is excepted: its answer is taken as it comes, and can be older than page 1's.
PagingMissesNothing ==
  PageSettled /\ walk.whole =>
    \A i \in Filters[shownKey.filter] :
      i <= walk.at /\ (\E j \in pagesRead[shownKey].runs : j <= i) => i \in walk.seen

\* The history shows pages that exist and passes over no run.
HistoryComplete == HistoryTypeOK /\ NoPageBeyond /\ PagingMissesNothing
=============================================================================
