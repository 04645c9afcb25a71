------------------------------ MODULE AdminUsage ------------------------------
(***************************************************************************)
(* The metrics of the administration pages (OperationsDashboard.tsx over     *)
(* GET /admin/operations): a query for each choice of filters, the figures   *)
(* of the last one kept in its place while it is read, and the totals,       *)
(* shares and days worked out of an answer.                                  *)
(*                                                                          *)
(* Time is counted in half days, so that a window may begin or end at a      *)
(* midnight.  A run is its office, when it was submitted and, once over, its *)
(* minutes and whether it failed.  The statements of one request see what is *)
(* committed when each is run (the database's default isolation).            *)
(***************************************************************************)
EXTENDS Naturals, Sequences, FiniteSets, FiniteSetsExt, SequencesExt, Browser

CONSTANTS
  Orgs,        \* the offices, as numbers in the order of their names
  Periods,     \* days to choose from
  TopShares,   \* offices with a share of their own (7 in the code)
  Minutes,     \* recorded minutes of a run
  EarlierRuns, \* the runs submitted before the page is opened
  FirstTime, MaxTime, \* when it is opened; bound on the clock
  MaxRecorded, \* bound: runs
  MaxFilters,  \* bound: what the user does
  MaxUsageErrors \* bound: requests that fail

ASSUME AdminUsageAssumption ==
  /\ Orgs \subseteq Nat /\ IsFiniteSet(Orgs) /\ Minutes \subseteq Nat
  /\ Periods \subseteq Nat \ {0} /\ Periods /= {}
  /\ {TopShares, FirstTime, MaxTime, MaxRecorded, MaxFilters, MaxUsageErrors} \subseteq Nat
  /\ \A d \in Periods : 2 * d <= FirstTime
  /\ EarlierRuns \in Seq([office: Orgs, at: 0..FirstTime, minutes: Nat, failed: BOOLEAN, over: BOOLEAN])

VARIABLES
  today, recorded, \* the clock, and the runs in the order of submission
  tab, usageView,
  filters,         \* [days, office, age, sort]; office None for all of them
  summaries,       \* from filters asked for to their query
  lastAnswer,      \* the answer this page showed last, or None
  changes, usageErrors \* counters

usageVars == <<today, recorded, tab, usageView, filters, summaries, lastAnswer, changes, usageErrors>>

MetricTabs   == {"overview", "operations", "usage"}
NewFilters   == [days |-> CHOOSE d \in Periods : \A e \in Periods : e <= d, office |-> None,
                 age |-> 15, sort |-> <<"minutes", "desc">>]
EmptySummary == [data |-> None, reading |-> None, failed |-> FALSE]

(***************************************************************************)
(* The server: each statement over the runs of the window                   *)
(***************************************************************************)
InWindow(w) == {i \in DOMAIN recorded : /\ w.since <= recorded[i].at /\ recorded[i].at <= w.asOf
                                        /\ w.office \in {None, recorded[i].office}}
MinutesIn(S) == MapThenSumSet(LAMBDA i : recorded[i].minutes, S)
FailedIn(S)  == {i \in S : recorded[i].failed}

UsageRow(o, S) == [office |-> o, runs |-> Cardinality(S), minutes |-> MinutesIn(S), failed |-> Cardinality(FailedIn(S))]

\* The longest runtime first
Precedes(r, s) == r.minutes > s.minutes \/ (r.minutes = s.minutes /\ r.office < s.office)

\* USAGE_COLUMNS grouped by office, in this order
Usage(w) ==
  LET of(o) == {i \in InWindow(w) : recorded[i].office = o}
      rows  == {UsageRow(o, of(o)) : o \in {x \in Orgs : of(x) /= {}}}
  IN [k \in 1..Cardinality(rows) |-> CHOOSE r \in rows : Cardinality({s \in rows : Precedes(s, r)}) = k - 1]

Day(t) == t \div 2

\* The days of the window that have runs
DailyRows(w) ==
  LET on(d) == {i \in InWindow(w) : Day(recorded[i].at) = d}
  IN [d \in {Day(recorded[i].at) : i \in InWindow(w)} |-> [runs |-> Cardinality(on(d)), failed |-> Cardinality(FailedIn(on(d)))]]

\* The window is fixed and the usage read when the request begins, the days a while later.
Began(f)    == LET w == [since |-> today - 2 * f.days, asOf |-> today, office |-> f.office]
               IN [window |-> w, usage |-> Usage(w)]
Answer(f, r) == [of |-> f, since |-> r.window.since, asOf |-> r.window.asOf, usage |-> r.usage, daily |-> DailyRows(r.window)]

(***************************************************************************)
(* What the page makes of an answer                                          *)
(***************************************************************************)
Total(rows) == FoldSeq(LAMBDA r, sum : r.minutes + sum, 0, rows)

\* Offices without minutes get a share too (mutant).
ChartOfEvery(usage) ==
  LET named == SubSeq(usage, 1, IF Len(usage) < TopShares THEN Len(usage) ELSE TopShares)
      other == Total(SubSeq(usage, TopShares + 1, Len(usage)))
      share == [i \in DOMAIN named |-> [name |-> named[i].office, minutes |-> named[i].minutes]]
  IN IF other = 0 THEN share ELSE Append(share, [name |-> None, minutes |-> other])

\* The largest offices and, as None, the others together
ChartOffices(usage) ==
  LET timed == AtPlaces(usage, {i \in DOMAIN usage : usage[i].minutes > 0})
      named == SubSeq(timed, 1, IF Len(timed) < TopShares THEN Len(timed) ELSE TopShares)
      other == Total(SubSeq(timed, TopShares + 1, Len(timed)))
      share == [i \in DOMAIN named |-> [name |-> named[i].office, minutes |-> named[i].minutes]]
  IN IF other = 0 THEN share ELSE Append(share, [name |-> None, minutes |-> other])

\* The day that is not over is left out (mutant).
DailyOfWholeDays(a) ==
  [d \in Day(a.since)..(Day(a.asOf) - 1) |-> IF d \in DOMAIN a.daily THEN a.daily[d] ELSE [runs |-> 0, failed |-> 0]]

\* Every day from that of since to that of asOf, with zeros where nothing ran
Daily(a) ==
  [d \in Day(a.since)..Day(a.asOf) |-> IF d \in DOMAIN a.daily THEN a.daily[d] ELSE [runs |-> 0, failed |-> 0]]

(***************************************************************************)
(* The page                                                                 *)
(***************************************************************************)
Summary(f) == IF f \in DOMAIN summaries THEN summaries[f] ELSE EmptySummary
Data       == IF Summary(filters).data /= None THEN Summary(filters).data ELSE lastAnswer

\* What is kept from the filters before counts as loaded (mutant).
LoadsNothing == Summary(filters).data = None /\ ~Summary(filters).failed /\ lastAnswer = None

LoadingFigures == Summary(filters).data = None /\ ~Summary(filters).failed

FiguresShown == tab \in MetricTabs /\ ~LoadingFigures /\ ~Summary(filters).failed /\ Data /= None

Put(s, f, q) == [g \in DOMAIN s \cup {f} |-> IF g = f THEN q ELSE s[g]]

AskIn(s, f) ==
  LET q == IF f \in DOMAIN s THEN s[f] ELSE EmptySummary
  IN IF q.reading /= None THEN s ELSE Put(s, f, [q EXCEPT !.reading = Began(f)])
AskSummary(f) == AskIn(summaries, f)

\* A page that mounts does not ask again for what failed and was never loaded.
ReadOnMount(s, f) == IF Summary(f).failed /\ Summary(f).data = None THEN s ELSE AskIn(s, f)

AdminUsageInit ==
  /\ today = FirstTime /\ recorded = EarlierRuns /\ tab = "overview" /\ usageView = "Offices"
  /\ filters = NewFilters /\ lastAnswer = None
  /\ summaries = [f \in {NewFilters} |-> [EmptySummary EXCEPT !.reading = Began(f)]]
  /\ changes = 0 /\ usageErrors = 0

(***************************************************************************)
(* Time and runs                                                            *)
(***************************************************************************)
TimePasses ==
  /\ today < MaxTime /\ today' = today + 1
  /\ UNCHANGED <<recorded, tab, usageView, filters, summaries, lastAnswer, changes, usageErrors>>

Submitted ==
  /\ Len(recorded) < MaxRecorded
  /\ \E o \in Orgs : recorded' = Append(recorded, [office |-> o, at |-> today, minutes |-> 0, failed |-> FALSE, over |-> FALSE])
  /\ UNCHANGED <<today, tab, usageView, filters, summaries, lastAnswer, changes, usageErrors>>

RunOver ==
  /\ \E i \in DOMAIN recorded, m \in Minutes, b \in BOOLEAN :
       /\ ~recorded[i].over
       /\ recorded' = [recorded EXCEPT ![i].over = TRUE, ![i].minutes = m, ![i].failed = b]
  /\ UNCHANGED <<today, tab, usageView, filters, summaries, lastAnswer, changes, usageErrors>>

(***************************************************************************)
(* Requests                                                                 *)
(***************************************************************************)
SummaryArrives ==
  \E f \in DOMAIN summaries :
    /\ summaries[f].reading /= None
    /\ summaries' = Put(summaries, f, [data |-> Answer(f, summaries[f].reading), reading |-> None, failed |-> FALSE])
    /\ lastAnswer' = IF tab \in MetricTabs /\ f = filters THEN summaries'[f].data ELSE lastAnswer
    /\ UNCHANGED <<today, recorded, tab, usageView, filters, changes, usageErrors>>

SummaryFails ==
  \E f \in DOMAIN summaries :
    /\ summaries[f].reading /= None /\ usageErrors < MaxUsageErrors /\ usageErrors' = usageErrors + 1
    /\ summaries' = [summaries EXCEPT ![f].reading = None, ![f].failed = TRUE]
    /\ UNCHANGED <<today, recorded, tab, usageView, filters, lastAnswer, changes>>

(***************************************************************************)
(* The user                                                                 *)
(***************************************************************************)
Change == changes < MaxFilters /\ changes' = changes + 1

\* Another tab is another route, and another page with the filters it begins with.
Enter(t, s) ==
  /\ tab' = t /\ filters' = NewFilters /\ usageView' = "Offices"
  /\ lastAnswer' = IF t \in MetricTabs THEN Summary(NewFilters).data ELSE None
  /\ summaries' = IF t \in MetricTabs THEN ReadOnMount(s, NewFilters) ELSE s

EnterTab ==
  /\ Change /\ \E t \in (MetricTabs \cup {"elsewhere"}) \ {tab} : Enter(t, summaries)
  /\ UNCHANGED <<today, recorded, usageErrors>>

Choose(f) ==
  /\ filters' = f /\ summaries' = IF f = filters THEN summaries ELSE AskSummary(f)
  /\ lastAnswer' = IF Summary(f).data /= None THEN Summary(f).data ELSE Data

ChoosePeriod ==
  /\ Change /\ tab \in MetricTabs
  /\ \E d \in Periods \ {filters.days} : Choose([filters EXCEPT !.days = d])
  /\ UNCHANGED <<today, recorded, tab, usageView, usageErrors>>

\* The offices of the select, or of a row shown.  From another tab the page for usage
\* opens: the choice is asked for, and goes with the page it was made on.
OfficesOffered == {None} \cup (IF Data = None THEN {} ELSE {Data.usage[i].office : i \in DOMAIN Data.usage})

ChooseOffice ==
  /\ Change /\ tab \in MetricTabs
  /\ \E o \in OfficesOffered :
       IF tab = "usage"
       THEN Choose([filters EXCEPT !.office = o]) /\ usageView' = "Jobs" /\ tab' = tab
       ELSE Enter("usage", AskSummary([filters EXCEPT !.office = o]))
  /\ UNCHANGED <<today, recorded, usageErrors>>

\* Queue age and Running time, beside the runs needing attention
ChooseAge ==
  /\ Change /\ tab = "operations" /\ FiguresShown
  /\ \E a \in {15, 30} \ {filters.age} : Choose([filters EXCEPT !.age = a])
  /\ UNCHANGED <<today, recorded, tab, usageView, usageErrors>>

ChooseView ==
  /\ Change /\ tab = "usage" /\ FiguresShown
  /\ usageView' \in {"Offices", "Jobs", "Cost"} \ {usageView}
  /\ UNCHANGED <<today, recorded, tab, filters, summaries, lastAnswer, usageErrors>>

\* A select tells only of another choice; the direction turns with its button.
ChangeTaskSort ==
  /\ Change /\ tab = "usage" /\ usageView = "Jobs" /\ FiguresShown
  /\ \E s \in {<<"name", "asc">>, <<"minutes", "desc">>} :
       s[1] /= filters.sort[1] /\ Choose([filters EXCEPT !.sort = s])
  /\ UNCHANGED <<today, recorded, tab, usageView, usageErrors>>

TurnDirection ==
  /\ Change /\ tab = "usage" /\ usageView = "Jobs" /\ FiguresShown
  /\ Choose([filters EXCEPT !.sort[2] = IF @ = "asc" THEN "desc" ELSE "asc"])
  /\ UNCHANGED <<today, recorded, tab, usageView, usageErrors>>

RefreshMetrics ==
  /\ Change /\ tab \in MetricTabs /\ Summary(filters).reading = None /\ summaries' = AskSummary(filters)
  /\ UNCHANGED <<today, recorded, tab, usageView, filters, lastAnswer, usageErrors>>

AdminUsageNext ==
  \/ TimePasses \/ Submitted \/ RunOver \/ SummaryArrives \/ SummaryFails
  \/ EnterTab \/ ChoosePeriod \/ ChooseOffice \/ ChooseAge \/ ChooseView
  \/ ChangeTaskSort \/ TurnDirection \/ RefreshMetrics

AdminUsageSpec == AdminUsageInit /\ [][AdminUsageNext]_usageVars

(***************************************************************************)
(* Properties                                                               *)
(***************************************************************************)
\* Shape of the state, and of the chart: its offices are few, and none has an empty share.
AdminTypeOK ==
  /\ tab \in MetricTabs \cup {"elsewhere"} /\ usageView \in {"Offices", "Jobs", "Cost"}
  /\ filters.days \in Periods /\ filters.office \in Orgs \cup {None}
  /\ FiguresShown => LET c == ChartOffices(Data.usage)
                     IN Len(c) <= TopShares + 1 /\ \A i \in DOMAIN c : c[i].minutes > 0

\* Figures on show are those of the filters beside them, whichever answers are kept in
\* their place, late or abandoned (keepPreviousData and loading).
FiguresOfFilters ==
  FiguresShown =>
    /\ Data.of = filters /\ Data.asOf - Data.since = 2 * filters.days
    /\ filters.office /= None => \A i \in DOMAIN Data.usage : Data.usage[i].office = filters.office

RunsOn(days)   == MapThenSumSet(LAMBDA d : days[d].runs, DOMAIN days)
FailedOn(days) == MapThenSumSet(LAMBDA d : days[d].failed, DOMAIN days)

\* The shares of the chart come to the recorded minutes above it, and the days drawn to
\* the runs and failures the server counted, also at the midnights where a window begins
\* or ends (chartOffices, otherMinutes and daily).
NothingLeftOut ==
  FiguresShown =>
    /\ Total(ChartOffices(Data.usage)) = Total(Data.usage)
    /\ RunsOn(Daily(Data)) = RunsOn(Data.daily) /\ FailedOn(Daily(Data)) = FailedOn(Data.daily)

\* The figures on show are those of the filters, and add up.
FiguresTrue == AdminTypeOK /\ FiguresOfFilters /\ NothingLeftOut
=============================================================================
