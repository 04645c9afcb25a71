------------------------------ MODULE RateLimits ------------------------------
(***************************************************************************)
(* The rate limits of the offices as HQ administrators change them           *)
(* (RateLimitsPanel and RateLimitHistory of OperationsDashboard.tsx, over    *)
(* the routes of api/routers/admin.py): drafts kept per office, one write at *)
(* a time per office, the list read again after each, and the history of     *)
(* changes read whenever an office is opened.                                *)
(*                                                                          *)
(* A limit is a value; a draft may also be one the server refuses.  The      *)
(* answer of a reading is what the server had when it was asked.             *)
(***************************************************************************)
EXTENDS Naturals, FiniteSets, Browser

CONSTANTS
  Offices,
  Default,    \* the value without an override
  Drafts,     \* what may be typed
  Refused,    \* drafts out of bounds or not a number
  MaxWrites,  \* bound: edits, writes and openings by this user
  MaxForeign, \* bound: changes by other administrators
  MaxPanelErrors, \* bound: requests that fail
  MaxVisits   \* bound: times the page is left or entered

\* The values an office may have; None is to have none of its own, and no list of them.
Overrides == (Drafts \ Refused) \cup {None, Default}

ASSUME RateLimitsAssumption ==
  /\ Refused \subseteq Drafts /\ Drafts \ Refused /= {} /\ None \notin [Offices -> Overrides]
  /\ {MaxWrites, MaxForeign, MaxPanelErrors, MaxVisits} \subseteq Nat

VARIABLES
  limits,     \* for each office, its value and how often it was changed
  limitRows,  \* the cached list: values by office, or None
  rowsReading,  \* the reading of the list under way, or None
  rowsFailed,
  drafts,     \* from offices to drafts
  panel,      \* 0 when the page is left, else the number of this visit
  writes,     \* writes under way
  settling,   \* writes answered that wait for the list
  opened,     \* from the open offices to the changes made before they were opened
  histories,  \* the cached histories: number of changes by office
  historyReading, \* from offices to the answer under way
  unseen,     \* history: offices changed in a way this page is not told of
  written, foreign, panelErrors, visits \* counters

limitVars == <<limits, limitRows, rowsReading, rowsFailed, drafts, panel, writes, settling, opened,
               histories, historyReading, unseen, written, foreign, panelErrors, visits>>

ValueOf(l)  == IF l.override = None THEN Default ELSE l.override
LimitsRead  == [o \in Offices |-> limits[o].override]
With(f, o, v) == [x \in DOMAIN f \cup {o} |-> IF x = o THEN v ELSE f[x]]
Less(f, S)    == [x \in DOMAIN f \ S |-> f[x]]

RateLimitsInit ==
  /\ limits = [o \in Offices |-> [override |-> None, changes |-> 0]]
  /\ limitRows = None /\ rowsReading = LimitsRead /\ rowsFailed = FALSE
  /\ drafts = <<>> /\ panel = 1 /\ writes = {} /\ settling = {}
  /\ opened = <<>> /\ histories = <<>> /\ historyReading = <<>> /\ unseen = {}
  /\ written = 0 /\ foreign = 0 /\ panelErrors = 0 /\ visits = 1

(***************************************************************************)
(* The server                                                               *)
(***************************************************************************)
Changed(o, v) == [limits EXCEPT ![o] = [override |-> v, changes |-> @.changes + 1]]

OthersChange ==
  /\ foreign < MaxForeign /\ foreign' = foreign + 1
  /\ \E o \in Offices : limits' = Changed(o, CHOOSE v \in Drafts \ Refused : TRUE) /\ unseen' = unseen \cup {o}
  /\ UNCHANGED <<limitRows, rowsReading, rowsFailed, drafts, panel, writes, settling, opened, histories,
                 historyReading, written, panelErrors, visits>>

\* update_rate_limit and reset_rate_limit, which records nothing without an override
Applied(w) ==
  IF w.kind = "reset"
  THEN IF limits[w.office].override = None THEN limits ELSE Changed(w.office, None)
  ELSE Changed(w.office, w.value)

Apply ==
  \E w \in writes :
    /\ ~w.applied /\ ~(w.kind = "save" /\ w.value \in Refused)
    /\ writes' = (writes \ {w}) \cup {[w EXCEPT !.applied = TRUE]} /\ limits' = Applied(w)
    /\ UNCHANGED <<limitRows, rowsReading, rowsFailed, drafts, panel, settling, opened, histories,
                   historyReading, unseen, written, foreign, panelErrors, visits>>

(***************************************************************************)
(* Readings                                                                 *)
(***************************************************************************)
Shows  == panel > 0 /\ limitRows /= None /\ ~rowsFailed

RowsArrive ==
  /\ rowsReading /= None /\ limitRows' = rowsReading /\ rowsReading' = None
  /\ rowsFailed' = FALSE /\ settling' = {}
  /\ UNCHANGED <<limits, drafts, panel, writes, opened, histories, historyReading, unseen,
                 written, foreign, panelErrors, visits>>

PanelError == panelErrors < MaxPanelErrors /\ panelErrors' = panelErrors + 1

\* The success is told all the same.
RowsFail ==
  /\ PanelError /\ rowsReading /= None
  /\ rowsReading' = None /\ rowsFailed' = TRUE /\ settling' = {}
  /\ UNCHANGED <<limits, limitRows, drafts, panel, writes, opened, histories, historyReading, unseen,
                 written, foreign, visits>>

\* Try again of the notification, or the connection comes back
RowsAgain ==
  /\ rowsFailed /\ panel > 0 /\ rowsReading = None /\ rowsReading' = LimitsRead /\ unseen' = {}
  /\ UNCHANGED <<limits, limitRows, rowsFailed, drafts, panel, writes, settling, opened, histories,
                 historyReading, written, foreign, panelErrors, visits>>

HistoryArrives ==
  \E o \in DOMAIN historyReading :
    /\ histories' = With(histories, o, historyReading[o]) /\ historyReading' = Less(historyReading, {o})
    /\ UNCHANGED <<limits, limitRows, rowsReading, rowsFailed, drafts, panel, writes, settling, opened,
                   unseen, written, foreign, panelErrors, visits>>

(***************************************************************************)
(* The panel                                                                *)
(***************************************************************************)
\* The buttons stay enabled (mutant).
NeverPending(o) == FALSE

PendingAction(o) == \E w \in writes \cup settling : w.office = o /\ w.visit = panel
Input(o)   == IF o \in DOMAIN drafts THEN drafts[o] ELSE IF limitRows[o] = None THEN Default ELSE limitRows[o]
LimitWrite == written < MaxWrites /\ written' = written + 1

\* The inputs are never disabled: an edit during a save is dropped with its draft.
TypeLimit ==
  /\ Shows /\ LimitWrite
  /\ \E o \in Offices, v \in Drafts : v /= Input(o) /\ drafts' = With(drafts, o, v)
  /\ UNCHANGED <<limits, limitRows, rowsReading, rowsFailed, panel, writes, settling, opened, histories,
                 historyReading, unseen, foreign, panelErrors, visits>>

Write(o, kind) == [office |-> o, kind |-> kind, value |-> IF kind = "save" THEN Input(o) ELSE None,
                   applied |-> FALSE, visit |-> panel, number |-> written]

SaveLimit ==
  /\ Shows /\ LimitWrite
  /\ \E o \in Offices : ~PendingAction(o) /\ writes' = writes \cup {Write(o, "save")}
  /\ UNCHANGED <<limits, limitRows, rowsReading, rowsFailed, drafts, panel, settling, opened, histories,
                 historyReading, unseen, foreign, panelErrors, visits>>

ResetLimit ==
  /\ Shows /\ LimitWrite
  /\ \E o \in Offices : limitRows[o] /= None /\ ~PendingAction(o) /\ writes' = writes \cup {Write(o, "reset")}
  /\ UNCHANGED <<limits, limitRows, rowsReading, rowsFailed, drafts, panel, settling, opened, histories,
                 historyReading, unseen, foreign, panelErrors, visits>>

Kept(o) == Less(drafts, {o})

\* Every draft is given up (mutant).
AfterWriteDropsAll(w) == drafts' = IF w.visit = panel THEN <<>> ELSE drafts

\* The draft of the office is given up, on the page that sent it.
AfterWrite(w) == drafts' = IF w.visit = panel THEN Kept(w.office) ELSE drafts

\* The list is left to the next reading (mutant).
InvalidatedLater(w) == UNCHANGED <<rowsReading, unseen, settling>>

\* invalidateQueries: the reading under way is abandoned for a new one, if a page shows
\* the list; the write before stops waiting.
Invalidated(w) ==
  IF panel > 0
  THEN rowsReading' = LimitsRead /\ unseen' = {} /\ settling' = {w}
  ELSE UNCHANGED <<rowsReading, settling>> /\ unseen' = unseen \cup {w.office}

WriteAnswered ==
  \E w \in writes :
    /\ w.applied /\ writes' = writes \ {w}
    /\ limitRows' = IF w.kind = "save" /\ limitRows /= None THEN [limitRows EXCEPT ![w.office] = w.value] ELSE limitRows
    /\ AfterWrite(w) /\ Invalidated(w)
    /\ UNCHANGED <<limits, rowsFailed, panel, opened, histories, historyReading, written, foreign, panelErrors, visits>>

\* Refused by the server
WriteRefused ==
  \E w \in writes :
    /\ w.kind = "save" /\ w.value \in Refused /\ writes' = writes \ {w}
    /\ UNCHANGED <<limits, limitRows, rowsReading, rowsFailed, drafts, panel, settling, opened, histories,
                   historyReading, unseen, written, foreign, panelErrors, visits>>

\* No answer: the limit may have changed all the same.
WriteLost ==
  \E w \in writes :
    /\ PanelError /\ writes' = writes \ {w}
    /\ unseen' = IF w.applied THEN unseen \cup {w.office} ELSE unseen
    /\ UNCHANGED <<limits, limitRows, rowsReading, rowsFailed, drafts, panel, settling, opened, histories,
                   historyReading, written, foreign, visits>>

\* A history that was read is shown again as it is (mutant).
HistoryOfCached(o) ==
  IF o \in DOMAIN historyReading \cup DOMAIN histories THEN historyReading
  ELSE With(historyReading, o, limits[o].changes)

\* Its history is read, unless that is under way. (One that fails shows an error instead,
\* and is left out.)
HistoryOf(o) ==
  IF o \in DOMAIN historyReading THEN historyReading ELSE With(historyReading, o, limits[o].changes)

\* What an opened history must have: the answer of a reading under way will do.
OpenOffice ==
  /\ Shows /\ LimitWrite
  /\ \E o \in Offices \ DOMAIN opened :
       /\ historyReading' = HistoryOf(o)
       /\ opened' = With(opened, o, IF o \in DOMAIN historyReading THEN historyReading[o] ELSE limits[o].changes)
  /\ UNCHANGED <<limits, limitRows, rowsReading, rowsFailed, drafts, panel, writes, settling, histories,
                 unseen, foreign, panelErrors, visits>>

CloseOffice ==
  /\ Shows /\ \E o \in DOMAIN opened : opened' = Less(opened, {o})
  /\ UNCHANGED <<limits, limitRows, rowsReading, rowsFailed, drafts, panel, writes, settling, histories,
                 historyReading, unseen, written, foreign, panelErrors, visits>>

LeavePanel ==
  /\ panel > 0 /\ panel' = 0 /\ drafts' = <<>> /\ opened' = <<>>
  /\ UNCHANGED <<limits, limitRows, rowsReading, rowsFailed, writes, settling, histories, historyReading,
                 unseen, written, foreign, panelErrors, visits>>

\* The list is read, unless that is under way, or failed without data.
EnterPanel ==
  /\ panel = 0 /\ visits < MaxVisits /\ visits' = visits + 1 /\ panel' = visits'
  /\ IF rowsReading = None /\ ~(rowsFailed /\ limitRows = None)
     THEN rowsReading' = LimitsRead /\ unseen' = {} ELSE UNCHANGED <<rowsReading, unseen>>
  /\ UNCHANGED <<limits, limitRows, rowsFailed, drafts, writes, settling, opened, histories, historyReading,
                 written, foreign, panelErrors>>

RateLimitsNext ==
  \/ OthersChange \/ Apply \/ RowsArrive \/ RowsFail \/ RowsAgain \/ HistoryArrives
  \/ TypeLimit \/ SaveLimit \/ ResetLimit \/ WriteAnswered \/ WriteRefused \/ WriteLost
  \/ OpenOffice \/ CloseOffice \/ LeavePanel \/ EnterPanel

RateLimitsSpec == RateLimitsInit /\ [][RateLimitsNext]_limitVars

(***************************************************************************)
(* Properties                                                               *)
(***************************************************************************)
\* Shape of the state; a page has one write per office at a time.
RateLimitsTypeOK ==
  /\ DOMAIN drafts \subseteq Offices /\ DOMAIN opened \subseteq Offices
  /\ \A o \in Offices : limits[o].override \in Overrides
  /\ \A w, x \in writes : w.office = x.office /\ w.visit = x.visit => w = x

\* What was typed for an office is given up only for a write of that office that
\* succeeded, or with the page: no other save, reset, reading, refusal or lost answer
\* takes it.
DraftsAreKept ==
  [][\A o \in DOMAIN drafts : o \notin DOMAIN drafts' =>
       panel' = 0 \/ \E w \in writes \ writes' : w.office = o /\ w.applied]_limitVars

\* When nothing is under way and the last reading succeeded, the list is what the
\* server has: a reading asked before a write never has the last word. Excepted are
\* changes the page is not told of: by others, by a write whose answer was lost, or
\* one answered after the page was left.
RowsAreCurrent ==
  Shows /\ rowsReading = None /\ writes = {} =>
    \A o \in Offices \ unseen : limitRows[o] = limits[o].override

\* An open history has every change made before it was opened.
HistoryIsCurrent ==
  \A o \in DOMAIN opened : o \notin DOMAIN historyReading => histories[o] >= opened[o]

\* The panel settles on the limits and the changes that the server has.
LimitsCurrent == RateLimitsTypeOK /\ RowsAreCurrent /\ HistoryIsCurrent
=============================================================================
