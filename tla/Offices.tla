-------------------------------- MODULE Offices --------------------------------
(***************************************************************************)
(* The office a user works for, in the tabs of one browser: remembered in    *)
(* the browser's storage (useRememberedOffice.ts), named by a link, or       *)
(* chosen on a page, each page with an order of its own; and the repository  *)
(* that the header of every page offers to open.                             *)
(*                                                                          *)
(* A tab renders with the remembered office it has seen.  It sees another    *)
(* when it acts or when the storage event of another tab's choice arrives.   *)
(* What a user may do is read when the tab is loaded.                        *)
(***************************************************************************)
EXTENDS Naturals, FiniteSets, Browser

CONSTANTS
  Districts, Users, Tabs,
  AdminOf,      \* for each user, the offices of fetchAdminOffices
  SubmitOf,     \* for each user, the offices whose jobs may be submitted
  Known,        \* the offices with a repository in the server's settings
  MaxOfficeMoves \* bound: what the user does

ASSUME OfficesAssumption ==
  /\ {AdminOf, SubmitOf} \subseteq [Users -> SUBSET Districts] /\ Known \subseteq Districts
  /\ MaxOfficeMoves \in Nat

VARIABLES
  stored,      \* the storage of the browser
  tabs,        \* for each tab [user, at, link, own, seen, goto]
  lastChoice,  \* history: the office last chosen in a tab, while nothing else was asked of it
  officeMoves  \* counter

officeVars == <<stored, tabs, lastChoice, officeMoves>>

Pages  == {"home", "manager", "submit", "dependencies"}
NoTurn == [kind |-> "none"]

OfficesInit ==
  /\ stored = None /\ lastChoice = [t \in Tabs |-> None] /\ officeMoves = 0
  /\ tabs = [t \in Tabs |-> [user |-> None, at |-> "home", link |-> None, own |-> None,
                             seen |-> None, goto |-> NoTurn]]

(***************************************************************************)
(* Which office a page works for                                             *)
(***************************************************************************)
Own(t)      == tabs[t]
Admins(t)   == IF Own(t).user = None THEN {} ELSE AdminOf[Own(t).user]
Submits(t)  == IF Own(t).user = None THEN {} ELSE SubmitOf[Own(t).user]

\* The stored office is taken as it is (mutant).
RememberedAny(t, offices) == Own(t).seen

Remembered(t, offices) ==
  IF Own(t).seen /= None /\ (offices = {} \/ Own(t).seen \in offices) THEN Own(t).seen ELSE None

\* A link's office, when it may be used
Linked(t, offices) == IF Own(t).link \in offices THEN Own(t).link ELSE None

FirstOf(S) == CHOOSE o \in S : TRUE

Or(o, p) == IF o /= None THEN o ELSE p

ManagerOffice(t) ==
  IF Admins(t) = {} THEN None ELSE Or(Linked(t, Admins(t)), Remembered(t, Admins(t)))

\* With nothing to submit the remembered office passes, but selects no option.
SubmitOffice(t) ==
  LET office == Or(Own(t).own, Or(Linked(t, Submits(t)), Remembered(t, Submits(t))))
  IN IF Submits(t) = {} THEN None ELSE office

DependenciesOffice(t) ==
  IF Submits(t) = {} THEN None
  ELSE Or(Linked(t, Submits(t)), IF Own(t).own \in Submits(t) THEN Own(t).own ELSE FirstOf(Submits(t)))

WorksFor(t) ==
  CASE Own(t).at = "manager"      -> ManagerOffice(t)
    [] Own(t).at = "submit"       -> SubmitOffice(t)
    [] Own(t).at = "dependencies" -> DependenciesOffice(t)
    [] OTHER                      -> None

(***************************************************************************)
(* The header: repository_status tells the repositories of the user's        *)
(* offices; an administrator's are told by the list of files                 *)
(***************************************************************************)
Repositories(t) == Known \cap (Admins(t) \cup Submits(t))

HeaderOffice(t) ==
  Or(Own(t).seen, IF Cardinality(Repositories(t)) = 1 THEN FirstOf(Repositories(t)) ELSE None)

\* The office whose repository may be opened
HeaderLink(t) == IF HeaderOffice(t) \in Repositories(t) \cup Admins(t) THEN HeaderOffice(t) ELSE None

(***************************************************************************)
(* Actions                                                                  *)
(***************************************************************************)
OfficeMove == officeMoves < MaxOfficeMoves /\ officeMoves' = officeMoves + 1

\* The tab renders, and so reads the storage; asked is the choice that then holds there.
Renders(t, tab, office, asked) ==
  /\ stored' = office
  /\ tabs' = [tabs EXCEPT ![t] = [tab EXCEPT !.seen = office]]
  /\ lastChoice' = [lastChoice EXCEPT ![t] = asked]

\* The navigation of a choice outlives the page it was made on (mutant).
EnterPageLater ==
  /\ OfficeMove
  /\ \E t \in Tabs : \E p \in Pages, o \in Districts \cup {None} :
       /\ p = "home" => o = None
       /\ Renders(t, [Own(t) EXCEPT !.at = p, !.link = o, !.own = None], stored, None)

\* A page is entered from the navigation or by a link that may name an office.  The page
\* already open may stay mounted and then keeps its own choice.
EnterPage ==
  /\ OfficeMove
  /\ \E t \in Tabs : \E p \in Pages, o \in Districts \cup {None}, own \in {None, Own(t).own} :
       /\ p = "home" => o = None
       /\ own /= None => p = Own(t).at
       /\ Renders(t, [Own(t) EXCEPT !.at = p, !.link = o, !.own = own, !.goto = NoTurn], stored, None)

\* Signing in and out reloads the page, with the office its address names.
SignIn ==
  /\ OfficeMove
  /\ \E t \in Tabs, u \in Users \cup {None} :
       /\ u /= Own(t).user
       /\ Renders(t, [Own(t) EXCEPT !.user = u, !.own = None, !.goto = NoTurn], stored, None)

\* The link stays in the address (mutant).
ChooseManagerKeepingLink ==
  /\ OfficeMove
  /\ \E t \in Tabs : \E o \in Admins(t) \ {WorksFor(t)} :
       Own(t).at = "manager" /\ Renders(t, Own(t), o, o)

\* Remembered; when a link named the office before, the navigation that drops it follows.
ChooseManager ==
  /\ OfficeMove
  /\ \E t \in Tabs : \E o \in Admins(t) \ {WorksFor(t)} :
       /\ Own(t).at = "manager"
       /\ Renders(t, [Own(t) EXCEPT !.goto = IF WorksFor(t) = None THEN @ ELSE [kind |-> "to", link |-> None]], o, o)

ChooseSubmit ==
  /\ OfficeMove
  /\ \E t \in Tabs : \E o \in Submits(t) \ {WorksFor(t)} :
       Own(t).at = "submit" /\ Renders(t, [Own(t) EXCEPT !.own = o], o, o)

\* Kept in the address and not remembered
ChooseDependencies ==
  /\ OfficeMove
  /\ \E t \in Tabs : \E o \in Submits(t) \ {WorksFor(t)} :
       /\ Own(t).at = "dependencies"
       /\ Renders(t, [Own(t) EXCEPT !.own = o, !.goto = [kind |-> "to", link |-> o]], stored, o)

\* The navigation of a choice ends.
Navigated ==
  /\ \E t \in Tabs :
       /\ Own(t).goto.kind = "to"
       /\ Renders(t, [Own(t) EXCEPT !.link = Own(t).goto.link, !.goto = NoTurn], stored,
                  IF Own(t).seen = stored THEN lastChoice[t] ELSE None)
  /\ UNCHANGED officeMoves

\* A tab hears of its own choices only (mutant).
HeardOwn(t) == FALSE

\* subscribe: the storage event reaches the other tabs.
Heard(t) == Own(t).seen /= stored

StorageEvent ==
  /\ \E t \in Tabs : Heard(t) /\ Renders(t, Own(t), stored, IF Own(t).at = "manager" THEN None ELSE lastChoice[t])
  /\ UNCHANGED officeMoves

OfficesNext ==
  \/ EnterPage \/ SignIn \/ ChooseManager \/ ChooseSubmit \/ ChooseDependencies \/ Navigated \/ StorageEvent

\* The browser delivers events, and navigations end.
OfficesProgress(i) ==
  \/ i = 1 /\ Navigated
  \/ i = 2 /\ StorageEvent
OfficesFairness == \A i \in 1..2 : WF_officeVars(OfficesProgress(i))

OfficesSpec == OfficesInit /\ [][OfficesNext]_officeVars /\ OfficesFairness

(***************************************************************************)
(* Properties                                                               *)
(***************************************************************************)
\* Shape of the state; a navigation under way is one of a page that chooses by link.
OfficesTypeOK ==
  /\ stored \in Districts \cup {None} /\ lastChoice \in [Tabs -> Districts \cup {None}]
  /\ \A t \in Tabs : Own(t).user \in Users \cup {None} /\ Own(t).at \in Pages
                     /\ {Own(t).link, Own(t).own, Own(t).seen} \subseteq Districts \cup {None}
                     /\ Own(t).goto /= NoTurn => Own(t).at \in {"manager", "dependencies"}

\* No page works for an office, and no header opens a repository, that this user has no
\* part in: neither one remembered from the user before, nor one that another tab chose
\* under another account, nor one a link names (useRememberedOffice, chooseOffice).
WorksWhereAllowed ==
  \A t \in Tabs :
    /\ WorksFor(t) \in {None} \cup (IF Own(t).at = "manager" THEN Admins(t) ELSE Submits(t))
    /\ HeaderLink(t) \in {None} \cup Admins(t) \cup Submits(t)

\* An office chosen on a page is the one it works for once its navigation has ended,
\* over the office of the link it was opened with, until something else is asked of the
\* tab, or for the manager another tab chooses (selectedOffice and its onChange).
ChoiceHolds ==
  \A t \in Tabs : lastChoice[t] /= None /\ Own(t).goto = NoTurn => WorksFor(t) = lastChoice[t]

\* A choice comes to be known in every tab, also one that is left alone, unless another
\* choice is made (subscribe).
TabsAgree == []<>(stored /= None => \A t \in Tabs : Own(t).seen = stored)

\* Each page works for an office of its user, the one chosen last.
OfficesAllowed == OfficesTypeOK /\ WorksWhereAllowed /\ ChoiceHolds
=============================================================================
