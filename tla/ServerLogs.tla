------------------------------ MODULE ServerLogs ------------------------------
(***************************************************************************)
(* The server logs of the warnings window (ServerLogs.tsx): a level and a    *)
(* time range are chosen, the entries of that window are read a page at a    *)
(* time with the cursor of the page before, and a reading that is no longer  *)
(* wanted is abandoned (AbortController in the effect).                      *)
(*                                                                          *)
(* An event is a number, and time too: event i happened at time i.           *)
(***************************************************************************)
EXTENDS Naturals, Sequences, FiniteSets, Browser

CONSTANTS
  EventLevel,  \* sequence: the level of each event there may be
  Levels,      \* of the filter, "ALL" among them
  Ranges,      \* hours one may look back
  FirstNow,    \* events at first
  MaxEntries,  \* MAX_ENTRIES
  PageEvents,  \* events CloudWatch scans for a page
  MaxLogActs,  \* bound: what the user does
  MaxRenewals  \* bound: new tokens

ASSUME ServerLogsAssumption ==
  /\ "ALL" \in Levels /\ Ranges \subseteq Nat \ {0} /\ Ranges /= {}
  /\ MaxEntries \in Nat \ {0} /\ PageEvents \in Nat \ {0}
  /\ EventLevel \in Seq(STRING) /\ FirstNow \in 1..Len(EventLevel) /\ MaxLogActs \in Nat /\ MaxRenewals \in Nat

\* What can be shown: entries, where the next page begins, and the window
LogPages == [entries: Seq(Nat), cursor: Nat \cup {None}, start: Nat, end: Nat]

ASSUME NoneIsNoPage == None \notin Nat /\ None \notin LogPages

VARIABLES
  now,        \* the last event
  level, hours,
  request,    \* what is to be read: a cursor, and the window of a first page
  logData,    \* what is shown, or None
  logError,   \* whether the last reading failed
  logLoading,
  logReads,   \* readings under way, the abandoned ones gone
  logActs, renewals \* counters

logVars == <<now, level, hours, request, logData, logError, logLoading, logReads, logActs, renewals>>

(***************************************************************************)
(* The server                                                               *)
(***************************************************************************)
Matches(i, l)   == l = "ALL" \/ EventLevel[i] = l
Window(a, b, l) == {i \in a..b : Matches(i, l)}

\* get_server_logs: the events scanned from the cursor on, oldest first
LogPage(r) ==
  LET last == IF r.from + PageEvents - 1 < r.end THEN r.from + PageEvents - 1 ELSE r.end
  IN [entries |-> Ascending(Window(r.from, last, r.level)),
      cursor |-> IF last < r.end THEN last + 1 ELSE None, start |-> r.start, end |-> r.end]

Record ==
  /\ now < Len(EventLevel) /\ now' = now + 1
  /\ UNCHANGED <<level, hours, request, logData, logError, logLoading, logReads, logActs, renewals>>

(***************************************************************************)
(* The effect                                                               *)
(***************************************************************************)
NoCursor == [cursor |-> None, start |-> 0, end |-> 0]

\* What a request asks for
Asked(q, l, h) ==
  LET end   == IF q.cursor = None THEN now ELSE q.end
      start == IF q.cursor = None THEN (IF now > h THEN now - h + 1 ELSE 1) ELSE q.start
  IN [from |-> IF q.cursor = None THEN start ELSE q.cursor, start |-> start, end |-> end,
      level |-> l, more |-> q.cursor /= None]

\* The readings that are no longer wanted are left to end (mutant).
SendKeeping(q, l, h) == logReads' = logReads \cup {Asked(q, l, h)}

\* The effect runs again: one reading, the one before abandoned.
Send(q, l, h) == logReads' = {Asked(q, l, h)}

ServerLogsInit ==
  /\ now = FirstNow /\ level = "ALL" /\ hours = CHOOSE h \in Ranges : \A g \in Ranges : h <= g
  /\ request = NoCursor /\ logData = None /\ logError = FALSE /\ logLoading = TRUE
  /\ logReads = {Asked(NoCursor, "ALL", hours)} /\ logActs = 0 /\ renewals = 0

Capped(s) == SubSeq(s, 1, IF Len(s) < MaxEntries THEN Len(s) ELSE MaxEntries)

\* The entries of every page are appended (mutant).
JoinedTwice(old, page) == Capped(old \o page)

\* Entries already there are not added again: a new token repeats the last request.
Joined(old, page) ==
  Capped(old \o AtPlaces(page, {k \in DOMAIN page : \A n \in DOMAIN old : old[n] /= page[k]}))

PageRead ==
  \E r \in logReads :
    /\ logReads' = logReads \ {r} /\ logLoading' = FALSE
    /\ LET page == LogPage(r)
           old  == IF r.more /\ logData /= None THEN logData.entries ELSE <<>>
       IN logData' = [page EXCEPT !.entries = Joined(old, page.entries)]
    /\ UNCHANGED <<now, level, hours, request, logError, logActs, renewals>>

PageFails ==
  /\ \E r \in logReads : logReads' = logReads \ {r}
  /\ logError' = TRUE /\ logLoading' = FALSE
  /\ UNCHANGED <<now, level, hours, request, logData, logActs, renewals>>

\* The token is renewed: the same request is sent again, for the window until now if
\* it was one for a first page.
Renew ==
  /\ renewals < MaxRenewals /\ renewals' = renewals + 1 /\ Send(request, level, hours)
  /\ UNCHANGED <<now, level, hours, request, logData, logError, logLoading, logActs>>

(***************************************************************************)
(* The user                                                                 *)
(***************************************************************************)
LogAct == logActs < MaxLogActs /\ logActs' = logActs + 1

\* refresh
RefreshLogs(l, h) ==
  /\ LogAct /\ level' = l /\ hours' = h
  /\ logLoading' = TRUE /\ logError' = FALSE /\ logData' = None
  /\ request' = NoCursor /\ Send(NoCursor, l, h)
  /\ UNCHANGED <<now, renewals>>

ChooseLevel  == \E l \in Levels \ {level} : RefreshLogs(l, hours)
ChooseRange  == \E h \in Ranges \ {hours} : RefreshLogs(level, h)
RefreshAgain == ~logLoading /\ RefreshLogs(level, hours)

\* At the limit there is no button.
CanLoadMore ==
  /\ logData /= None /\ ~logLoading /\ ~logError
  /\ logData.cursor /= None /\ Len(logData.entries) < MaxEntries

LoadMore ==
  /\ CanLoadMore /\ LogAct /\ logLoading' = TRUE /\ logError' = FALSE
  /\ request' = [cursor |-> logData.cursor, start |-> logData.start, end |-> logData.end]
  /\ Send(request', level, hours)
  /\ UNCHANGED <<now, level, hours, logData, renewals>>

\* Closing the window ends the component; opened again it starts anew.
Reopen ==
  /\ LogAct /\ level' = "ALL" /\ hours' = (CHOOSE h \in Ranges : \A g \in Ranges : h <= g)
  /\ logLoading' = TRUE /\ logError' = FALSE /\ logData' = None
  /\ request' = NoCursor /\ Send(NoCursor, "ALL", hours')
  /\ UNCHANGED <<now, renewals>>

ServerLogsNext ==
  \/ Record \/ PageRead \/ PageFails \/ Renew
  \/ ChooseLevel \/ ChooseRange \/ RefreshAgain \/ LoadMore \/ Reopen

ServerLogsSpec == ServerLogsInit /\ [][ServerLogsNext]_logVars

\* Nothing on the pages read is nothing in the range (mutant).
NothingInPages ==
  IF logData = None THEN "no data"
  ELSE IF logData.entries /= <<>> THEN "entries" ELSE "no matching entries"

\* What the page says when there is nothing to show
NothingIn ==
  IF logData = None THEN "no data"
  ELSE IF logData.entries /= <<>> THEN "entries"
  ELSE IF logData.cursor /= None THEN "load more to continue" ELSE "no matching entries"

(***************************************************************************)
(* Properties                                                               *)
(***************************************************************************)
\* Shape of the state; one reading at most, always of the level now chosen.
ServerLogsTypeOK ==
  /\ level \in Levels /\ hours \in Ranges /\ {logError, logLoading} \subseteq BOOLEAN
  /\ Cardinality(logReads) <= 1 /\ \A r \in logReads : r.level = level
  /\ logLoading => logReads /= {}

\* What is shown is the beginning of the window named above it, for the level now
\* chosen, without a gap, a repetition or an entry of an earlier choice, however the
\* readings were abandoned, repeated or refused.
ShownIsWindow ==
  logData /= None =>
    LET upTo == IF logData.cursor = None THEN logData.end ELSE logData.cursor - 1
    IN logData.entries = Capped(Ascending(Window(logData.start, upTo, level)))

\* When the page says that nothing matched in the range loaded, nothing did, and the
\* range is as long as the one chosen.
NothingMeansNothing ==
  NothingIn = "no matching entries" =>
    /\ Window(logData.start, logData.end, level) = {}
    /\ logData.end - logData.start < hours

\* The server log shows the window it names, and says "nothing" only if there is nothing.
LogsExact == ServerLogsTypeOK /\ ShownIsWindow /\ NothingMeansNothing
=============================================================================
