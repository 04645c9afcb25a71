------------------------------- MODULE LogSearch -------------------------------
(***************************************************************************)
(* The search of the output of runs (routes/log-search.tsx): a first request *)
(* for the form as it is, then one request after another with the cursor of  *)
(* the one before, until the server has scanned every run of the selection   *)
(* (search_logs, which reads a few pages of output per request).             *)
(*                                                                          *)
(* Runs are numbers in the order of their creation.  A selection names its   *)
(* text, what it keeps, and whether its last day is still going on: such a   *)
(* search also scans runs created after it began.                           *)
(***************************************************************************)
EXTENDS Naturals, Sequences, FiniteSets, Browser

CONSTANTS
  Selections,  \* from a selection to [text, keeps, open]
  Output,      \* for each run there may be, its pages: sets of texts; <<>> when unavailable
  FirstRuns,   \* runs at first
  Budget,      \* pages the server reads per request
  MaxSearches, \* bound: requests
  MaxSearchErrors \* bound: requests that fail

ASSUME LogSearchAssumption ==
  /\ Output \in Seq(Seq(SUBSET STRING))
  /\ \A s \in DOMAIN Selections : Selections[s].keeps \subseteq DOMAIN Output /\ Selections[s].open \in BOOLEAN
  /\ FirstRuns \in 0..Len(Output) /\ Budget \in Nat \ {0}
  /\ MaxSearches \in Nat /\ MaxSearchErrors \in Nat

\* Where a search goes on, and what is asked for
Cursors  == [offset: Nat, job: DOMAIN Output \cup {None}, page: Nat \ {0}, until: Nat, of: DOMAIN Selections]
SearchRequests == [params: DOMAIN Selections, cursor: Cursors \cup {None}]

ASSUME NoneIsNoCursor ==
  None \notin Cursors /\ None \notin SearchRequests /\ None \notin DOMAIN Output /\ None \notin DOMAIN Selections

VARIABLES
  created,    \* runs there are
  form,       \* the selection the form describes
  selection,  \* the one searched, or None
  results,    \* matching runs shown
  cursor,     \* where to go on: [offset, job, page, until, of], or None
  busy, searchError,
  searching,  \* the request under way, or None
  existed,    \* history: runs there were when the search began
  searches, searchErrors \* counters

searchVars == <<created, form, selection, results, cursor, busy, searchError, searching, existed, searches, searchErrors>>

(***************************************************************************)
(* The server                                                               *)
(***************************************************************************)
\* Newest first; what was created before the search ended its window
Listed(s, until) == {i \in Selections[s].keeps : i <= (IF Selections[s].open THEN created ELSE until) /\ i <= created}
At(s, c) == CHOOSE i \in Listed(s, c.until) : Cardinality({j \in Listed(s, c.until) : j > i}) = c.offset

Start(s) == [offset |-> 0, job |-> None, page |-> 1, until |-> created, of |-> s]

\* A run whose output goes on is gone on with.
Scanned(c, i) ==
  IF c.page < Len(Output[i]) THEN [c EXCEPT !.job = i, !.page = @ + 1]
  ELSE [c EXCEPT !.offset = @ + 1, !.job = None, !.page = 1]

\* What the next page of output adds to d
ScanPage(s, d) ==
  LET i   == IF d.at.job = None THEN At(s, d.at) ELSE d.at.job
      hit == Output[i] /= <<>> /\ Selections[s].text \in Output[i][d.at.page]
  IN IF d.complete \/ (d.at.job = None /\ Cardinality(Listed(s, d.at.until)) <= d.at.offset)
     THEN [d EXCEPT !.complete = TRUE]
     ELSE [at |-> Scanned(d.at, i), found |-> d.found \cup (IF hit THEN {i} ELSE {}), complete |-> FALSE]

\* What Budget pages of output tell, from c on: done[n] after n pages
Scan(s, c) ==
  LET done[n \in 0..Budget] ==
        IF n = 0 THEN [at |-> c, found |-> {}, complete |-> FALSE] ELSE ScanPage(s, done[n - 1])
  IN done[Budget]

Create ==
  /\ created < Len(Output) /\ created' = created + 1
  /\ UNCHANGED <<form, selection, results, cursor, busy, searchError, searching, existed, searches, searchErrors>>

(***************************************************************************)
(* The page                                                                 *)
(***************************************************************************)
LogSearchInit ==
  /\ created = FirstRuns /\ form \in DOMAIN Selections /\ selection = None
  /\ results = {} /\ cursor = None /\ busy = FALSE /\ searchError = FALSE
  /\ searching = None /\ existed = 0 /\ searches = 0 /\ searchErrors = 0

EditForm ==
  /\ form' \in DOMAIN Selections \ {form}
  /\ UNCHANGED <<created, selection, results, cursor, busy, searchError, searching, existed, searches, searchErrors>>

NewRequest == searches < MaxSearches /\ searches' = searches + 1 /\ busy' = TRUE /\ searchError' = FALSE

\* The results of the search before stay (mutant).
SearchKeepingResults ==
  /\ ~busy /\ NewRequest
  /\ selection' = form /\ cursor' = None /\ existed' = created
  /\ searching' = [params |-> form, cursor |-> None]
  /\ UNCHANGED <<created, form, results, searchErrors>>

\* search()
Search ==
  /\ ~busy /\ NewRequest
  /\ selection' = form /\ results' = {} /\ cursor' = None /\ existed' = created
  /\ searching' = [params |-> form, cursor |-> None]
  /\ UNCHANGED <<created, form, searchErrors>>

\* search(true), with the selection the cursor is of
ContinueSearch ==
  /\ cursor /= None /\ ~busy /\ NewRequest
  /\ searching' = [params |-> selection, cursor |-> cursor]
  /\ UNCHANGED <<created, form, selection, results, cursor, existed, searchErrors>>

\* Results of one run are one result.
Found ==
  /\ searching /= None
  /\ LET c == IF searching.cursor = None THEN Start(searching.params) ELSE searching.cursor
         d == Scan(searching.params, c)
     IN /\ c.of = searching.params
        /\ results' = (IF searching.cursor = None THEN {} ELSE results) \cup d.found
        /\ cursor' = IF d.complete THEN None ELSE d.at
  /\ searching' = None /\ busy' = FALSE
  /\ UNCHANGED <<created, form, selection, searchError, existed, searches, searchErrors>>

\* The page stays busy (mutant).
SearchFailsBusy ==
  /\ searching /= None /\ searchErrors < MaxSearchErrors /\ searchErrors' = searchErrors + 1
  /\ searching' = None /\ searchError' = TRUE
  /\ UNCHANGED <<created, form, selection, results, cursor, busy, existed, searches>>

\* Refused, unavailable or lost; a cursor is refused for another selection.
SearchFails ==
  /\ searching /= None /\ searchErrors < MaxSearchErrors /\ searchErrors' = searchErrors + 1
  /\ searching' = None /\ busy' = FALSE /\ searchError' = TRUE
  /\ UNCHANGED <<created, form, selection, results, cursor, existed, searches>>

LogSearchNext == Create \/ EditForm \/ Search \/ ContinueSearch \/ Found \/ SearchFails

LogSearchSpec == LogSearchInit /\ [][LogSearchNext]_searchVars

\* Nothing more to ask for is complete (mutant).
ProgressWithoutError == IF cursor /= None THEN "more" ELSE IF ~busy THEN "complete" ELSE ""

Progress ==
  IF cursor /= None THEN "more" ELSE IF ~busy /\ ~searchError THEN "complete" ELSE ""

(***************************************************************************)
(* Properties                                                               *)
(***************************************************************************)
\* Shape of the state; one request at a time.
LogSearchTypeOK ==
  /\ form \in DOMAIN Selections /\ selection \in DOMAIN Selections \cup {None}
  /\ {busy, searchError} \subseteq BOOLEAN /\ busy = (searching /= None)
  /\ cursor /= None => cursor.of = selection

HasText(i, s) == \E p \in DOMAIN Output[i] : Selections[s].text \in Output[i][p]

\* What is shown matches what was searched for, whatever the form says by now.
ResultsMatch ==
  selection /= None => \A i \in results : i \in Selections[selection].keeps /\ HasText(i, selection)

\* "Search complete" is true: every run of the selection there was when the search
\* began, and whose output has the text on any page, is shown, although requests
\* failed and were repeated and runs were created in front of those not yet scanned.
CompleteIsComplete ==
  selection /= None /\ Progress = "complete" =>
    \A i \in Selections[selection].keeps : i <= existed /\ HasText(i, selection) => i \in results

\* The search shows what matches, and says "complete" only if nothing is missing.
SearchHonest == LogSearchTypeOK /\ ResultsMatch /\ CompleteIsComplete
=============================================================================
