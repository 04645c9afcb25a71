----------------------------- MODULE PanelsProofs -----------------------------
(***************************************************************************)
(* Theorems about the panels of MCPanels: Offices, for any users, offices   *)
(* and tabs; Notices, for any queries, codes and numbers of events; and     *)
(* QueuePanel and TimingPanel, for any runs, filters, saves and failures.   *)
(*                                                                          *)
(* The office that was chosen last is the one the page works for or the one *)
(* its navigation goes to.  A notice goes only by its own source, its own   *)
(* timer, the connection or the user.  What is ticked was chosen.  A timing *)
(* kept for a version was told by the server after that version was saved,  *)
(* and every known version with its number agrees with it.                  *)
(***************************************************************************)
EXTENDS MCPanels, TLAPS, FiniteSetTheorems

(***************************************************************************)
(* The office of a tab                                                      *)
(***************************************************************************)
\* An office, or none; a navigation under way, or none; and a tab.
Office   == Districts \cup {None}
Turn     == {NoTurn} \cup [kind: {"to"}, link: Office]
TabState == [user: Users \cup {None}, at: Pages, link: Office, own: Office, seen: Office, goto: Turn]

\* What was chosen last in a tab is what it works for, now or when its navigation ends.
Chosen(t) ==
  lastChoice[t] /= None =>
    /\ Own(t).at /= "home"
    /\ Own(t).at = "manager" =>
         /\ Own(t).seen = lastChoice[t] /\ lastChoice[t] \in Admins(t)
         /\ Own(t).goto = NoTurn => Linked(t, Admins(t)) = None
    /\ Own(t).at = "submit" => Own(t).own = lastChoice[t] /\ lastChoice[t] \in Submits(t)
    /\ Own(t).at = "dependencies" =>
         /\ lastChoice[t] \in Submits(t)
         /\ Own(t).goto = NoTurn => Own(t).link = lastChoice[t]
         /\ Own(t).goto /= NoTurn => Own(t).goto.link = lastChoice[t]

\* A tab navigates from where it may, and its own choice on the Submit page was one it may.
TabRight(t) ==
  /\ Own(t).goto /= NoTurn => Own(t).at \in {"manager", "dependencies"}
  /\ Own(t).at = "manager" /\ Own(t).goto /= NoTurn => Own(t).goto.link = None
  /\ Own(t).at = "submit" => Own(t).own \in Submits(t) \cup {None}
  /\ Chosen(t)

\* The invariant that is proved of the tabs.
OfficesInv ==
  /\ stored \in Office /\ lastChoice \in [Tabs -> Office] /\ tabs \in [Tabs -> TabState]
  /\ \A t \in Tabs : TabRight(t)

\* What a user may do is for offices.
LEMMA RightsAreOffices ==
  ASSUME OfficesInv, NEW t \in Tabs
  PROVE  Own(t) \in TabState /\ Admins(t) \subseteq Districts /\ Submits(t) \subseteq Districts
BY OfficesAssumption DEF OfficesInv, Own, Admins, Submits, TabState

\* A tab that renders leaves the others as they are.
LEMMA RendersKeeps ==
  ASSUME OfficesInv, NEW t \in Tabs, NEW tab \in TabState, NEW office \in Office, NEW asked \in Office,
         Renders(t, tab, office, asked),
         tabs'[t] = [tab EXCEPT !.seen = office] /\ lastChoice'[t] = asked => TabRight(t)'
  PROVE  OfficesInv'
<1> DEFINE next == [tab EXCEPT !.seen = office]
<1>1. next \in TabState
  BY DEF TabState
<1> HIDE DEF next
<1>2. stored' = office /\ tabs' = [tabs EXCEPT ![t] = next] /\ lastChoice' = [lastChoice EXCEPT ![t] = asked]
  BY DEF Renders, next
<1>3. /\ tabs' \in [Tabs -> TabState] /\ lastChoice' \in [Tabs -> Office]
      /\ tabs'[t] = next /\ lastChoice'[t] = asked
      /\ \A u \in Tabs : u /= t => tabs'[u] = tabs[u] /\ lastChoice'[u] = lastChoice[u]
  BY <1>1, <1>2 DEF OfficesInv
<1>4. TabRight(t)'
  BY <1>3 DEF next
<1>5. ASSUME NEW u \in Tabs, u /= t PROVE TabRight(u)'
  <2>1. TabRight(u) /\ tabs'[u] = tabs[u] /\ lastChoice'[u] = lastChoice[u]
    BY <1>3, <1>5 DEF OfficesInv
  <2>2. QED
    BY <2>1 DEF TabRight, Chosen, Own, Admins, Submits, Linked
<1>6. QED
  BY <1>2, <1>3, <1>4, <1>5 DEF OfficesInv

\* In the beginning no tab works for an office.
LEMMA OfficesInitInv == OfficesInit => OfficesInv
<1> SUFFICES ASSUME OfficesInit PROVE OfficesInv
  OBVIOUS
<1>1. stored \in Office /\ lastChoice \in [Tabs -> Office] /\ tabs \in [Tabs -> TabState]
  BY DEF OfficesInit, Office, TabState, Turn, Pages
<1>2. ASSUME NEW t \in Tabs PROVE TabRight(t)
  BY DEF OfficesInit, TabRight, Chosen, Own
<1>3. QED
  BY <1>1, <1>2 DEF OfficesInv

\* A page that is entered, and an account that changes, start without a choice.
LEMMA EnterPageInv == OfficesInv /\ EnterPage => OfficesInv'
<1> SUFFICES ASSUME OfficesInv, EnterPage PROVE OfficesInv'
  OBVIOUS
<1>0. PICK t \in Tabs : \E p \in Pages, o \in Office, own \in {None, Own(t).own} :
        /\ own /= None => p = Own(t).at
        /\ Renders(t, [Own(t) EXCEPT !.at = p, !.link = o, !.own = own, !.goto = NoTurn], stored, None)
  BY DEF EnterPage, Office
<1>1. PICK p \in Pages, o \in Office, own \in {None, Own(t).own} :
        /\ own /= None => p = Own(t).at
        /\ Renders(t, [Own(t) EXCEPT !.at = p, !.link = o, !.own = own, !.goto = NoTurn], stored, None)
  BY <1>0
<1> DEFINE tab == [Own(t) EXCEPT !.at = p, !.link = o, !.own = own, !.goto = NoTurn]
<1>2. Own(t) \in TabState /\ TabRight(t) /\ stored \in Office /\ None \in Office
  BY RightsAreOffices DEF OfficesInv, Office
<1>3. tab \in TabState /\ tab.at = p /\ tab.own = own /\ tab.goto = NoTurn /\ tab.user = Own(t).user
  BY <1>2 DEF TabState, Turn
<1> HIDE DEF tab
<1>4. ASSUME tabs'[t] = [tab EXCEPT !.seen = stored], lastChoice'[t] = None PROVE TabRight(t)'
  <2>1. tabs'[t].at = p /\ tabs'[t].own = own /\ tabs'[t].goto = NoTurn /\ tabs'[t].user = tabs[t].user
    BY <1>3, <1>4 DEF TabState, Own
  <2>2. Submits(t)' = Submits(t)
    BY <2>1 DEF Submits, Own
  <2>3. p = "submit" => own \in Submits(t) \cup {None}
    BY <1>1, <1>2 DEF TabRight
  <2>4. QED
    BY <1>4, <2>1, <2>2, <2>3 DEF TabRight, Chosen, Own
<1>5. Renders(t, tab, stored, None)
  BY <1>1 DEF tab
<1>6. QED
  BY <1>2, <1>3, <1>4, <1>5, RendersKeeps

\* Another user has chosen nothing yet; the page renders for them.
LEMMA SignInInv == OfficesInv /\ SignIn => OfficesInv'
<1> SUFFICES ASSUME OfficesInv, SignIn PROVE OfficesInv'
  OBVIOUS
<1>1. PICK t \in Tabs, u \in Users \cup {None} :
        Renders(t, [Own(t) EXCEPT !.user = u, !.own = None, !.goto = NoTurn], stored, None)
  BY DEF SignIn
<1> DEFINE tab == [Own(t) EXCEPT !.user = u, !.own = None, !.goto = NoTurn]
<1>2. Own(t) \in TabState /\ stored \in Office /\ None \in Office
  BY RightsAreOffices DEF OfficesInv, Office
<1>3. tab \in TabState /\ tab.own = None /\ tab.goto = NoTurn
  BY <1>2 DEF TabState, Turn
<1> HIDE DEF tab
<1>4. ASSUME tabs'[t] = [tab EXCEPT !.seen = stored], lastChoice'[t] = None PROVE TabRight(t)'
  <2>1. tabs'[t].own = None /\ tabs'[t].goto = NoTurn
    BY <1>3, <1>4 DEF TabState
  <2>2. QED
    BY <1>4, <2>1 DEF TabRight, Chosen, Own
<1>5. Renders(t, tab, stored, None)
  BY <1>1 DEF tab
<1>6. QED
  BY <1>2, <1>3, <1>4, <1>5, RendersKeeps

\* An office chosen for the scripts is one the user administers, and no link names another
\* once the navigation has ended.
LEMMA ChooseManagerInv == OfficesInv /\ ChooseManager => OfficesInv'
<1> SUFFICES ASSUME OfficesInv, ChooseManager PROVE OfficesInv'
  OBVIOUS
<1>1. PICK t \in Tabs : \E o \in Admins(t) \ {WorksFor(t)} :
        /\ Own(t).at = "manager"
        /\ Renders(t, [Own(t) EXCEPT !.goto = IF WorksFor(t) = None THEN @ ELSE [kind |-> "to", link |-> None]], o, o)
  BY DEF ChooseManager
<1>2. PICK o \in Admins(t) \ {WorksFor(t)} :
        Renders(t, [Own(t) EXCEPT !.goto = IF WorksFor(t) = None THEN @ ELSE [kind |-> "to", link |-> None]], o, o)
  BY <1>1
<1> DEFINE turn == IF WorksFor(t) = None THEN Own(t).goto ELSE [kind |-> "to", link |-> None]
           tab  == [Own(t) EXCEPT !.goto = turn]
<1>3. Own(t) \in TabState /\ TabRight(t) /\ Admins(t) \subseteq Districts /\ o \in Office
  BY RightsAreOffices DEF OfficesInv, Office
<1>4. turn \in Turn
  BY <1>3 DEF TabState, Turn, Office
<1>5. tab \in TabState /\ tab.at = "manager" /\ tab.goto = turn /\ tab.user = Own(t).user /\ tab.link = Own(t).link
  BY <1>1, <1>3, <1>4 DEF TabState
\* Without an office to work for, no link can be used.
<1>6. ASSUME turn = NoTurn PROVE Linked(t, Admins(t)) = None
  <2>1. WorksFor(t) = None
    BY <1>6 DEF NoTurn
  <2>2. ManagerOffice(t) = None /\ o \in Admins(t)
    BY <1>1, <2>1 DEF WorksFor
  <2>3. Or(Linked(t, Admins(t)), Remembered(t, Admins(t))) = None
    BY <2>2 DEF ManagerOffice
  <2>4. QED
    BY <2>3 DEF Or
\* A navigation under way is of a link that the page of the scripts drops.
<1>7. ASSUME turn /= NoTurn PROVE turn.link = None
  BY <1>1, <1>3, <1>7 DEF TabRight
<1> HIDE DEF tab, turn
<1>8. ASSUME tabs'[t] = [tab EXCEPT !.seen = o], lastChoice'[t] = o PROVE TabRight(t)'
  <2>1. /\ tabs'[t].at = "manager" /\ tabs'[t].goto = turn /\ tabs'[t].user = tabs[t].user
        /\ tabs'[t].link = tabs[t].link /\ tabs'[t].seen = o
    BY <1>5, <1>8 DEF TabState, Own
  <2>2. Admins(t)' = Admins(t)
    BY <2>1 DEF Admins, Own
  <2>3. Linked(t, Admins(t))' = Linked(t, Admins(t))
    BY <2>1, <2>2 DEF Linked, Own
  <2>4. QED
    BY <1>2, <1>6, <1>7, <1>8, <2>1, <2>2, <2>3 DEF TabRight, Chosen, Own
<1>9. Renders(t, tab, o, o)
  BY <1>2 DEF tab, turn
<1>10. QED
  BY <1>3, <1>5, <1>8, <1>9, RendersKeeps

\* The office chosen on the Submit page is one the user may submit for.
LEMMA ChooseSubmitInv == OfficesInv /\ ChooseSubmit => OfficesInv'
<1> SUFFICES ASSUME OfficesInv, ChooseSubmit PROVE OfficesInv'
  OBVIOUS
<1>1. PICK t \in Tabs : \E o \in Submits(t) \ {WorksFor(t)} :
        Own(t).at = "submit" /\ Renders(t, [Own(t) EXCEPT !.own = o], o, o)
  BY DEF ChooseSubmit
<1>2. PICK o \in Submits(t) \ {WorksFor(t)} : Renders(t, [Own(t) EXCEPT !.own = o], o, o)
  BY <1>1
<1> DEFINE tab == [Own(t) EXCEPT !.own = o]
<1>3. Own(t) \in TabState /\ TabRight(t) /\ Submits(t) \subseteq Districts /\ o \in Office
  BY RightsAreOffices DEF OfficesInv, Office
<1>4. tab \in TabState /\ tab.at = "submit" /\ tab.goto = Own(t).goto /\ tab.user = Own(t).user /\ tab.own = o
  BY <1>1, <1>3 DEF TabState
<1> HIDE DEF tab
<1>5. ASSUME tabs'[t] = [tab EXCEPT !.seen = o], lastChoice'[t] = o PROVE TabRight(t)'
  <2>1. tabs'[t].at = "submit" /\ tabs'[t].goto = NoTurn /\ tabs'[t].user = tabs[t].user /\ tabs'[t].own = o
    BY <1>1, <1>3, <1>4, <1>5 DEF TabState, TabRight, Own
  <2>2. Submits(t)' = Submits(t)
    BY <2>1 DEF Submits, Own
  <2>3. QED
    BY <1>2, <1>5, <2>1, <2>2 DEF TabRight, Chosen, Own
<1>6. Renders(t, tab, o, o)
  BY <1>2 DEF tab
<1>7. QED
  BY <1>3, <1>4, <1>5, <1>6, RendersKeeps

\* The office chosen on the page of the files is the one its navigation names.
LEMMA ChooseDependenciesInv == OfficesInv /\ ChooseDependencies => OfficesInv'
<1> SUFFICES ASSUME OfficesInv, ChooseDependencies PROVE OfficesInv'
  OBVIOUS
<1>1. PICK t \in Tabs : \E o \in Submits(t) \ {WorksFor(t)} :
        /\ Own(t).at = "dependencies"
        /\ Renders(t, [Own(t) EXCEPT !.own = o, !.goto = [kind |-> "to", link |-> o]], stored, o)
  BY DEF ChooseDependencies
<1>2. PICK o \in Submits(t) \ {WorksFor(t)} :
        Renders(t, [Own(t) EXCEPT !.own = o, !.goto = [kind |-> "to", link |-> o]], stored, o)
  BY <1>1
<1> DEFINE tab == [Own(t) EXCEPT !.own = o, !.goto = [kind |-> "to", link |-> o]]
<1>3. Own(t) \in TabState /\ Submits(t) \subseteq Districts /\ o \in Office /\ stored \in Office
  BY RightsAreOffices DEF OfficesInv, Office
<1>4. tab \in TabState /\ tab.at = "dependencies" /\ tab.goto = [kind |-> "to", link |-> o] /\ tab.user = Own(t).user
  BY <1>1, <1>3 DEF TabState, Turn
<1> HIDE DEF tab
<1>5. ASSUME tabs'[t] = [tab EXCEPT !.seen = stored], lastChoice'[t] = o PROVE TabRight(t)'
  <2>1. /\ tabs'[t].at = "dependencies" /\ tabs'[t].goto = [kind |-> "to", link |-> o]
        /\ tabs'[t].user = tabs[t].user
    BY <1>4, <1>5 DEF TabState, Own
  <2>2. Submits(t)' = Submits(t) /\ tabs'[t].goto /= NoTurn /\ tabs'[t].goto.link = o
    BY <2>1 DEF Submits, Own, NoTurn
  <2>3. QED
    BY <1>2, <1>5, <2>1, <2>2 DEF TabRight, Chosen, Own
<1>6. Renders(t, tab, stored, o)
  BY <1>2 DEF tab
<1>7. QED
  BY <1>3, <1>4, <1>5, <1>6, RendersKeeps

\* The navigation of a choice leaves the address with the office chosen, or with none.
LEMMA NavigatedInv == OfficesInv /\ Navigated => OfficesInv'
<1> SUFFICES ASSUME OfficesInv, Navigated PROVE OfficesInv'
  OBVIOUS
<1> DEFINE asked(t) == IF Own(t).seen = stored THEN lastChoice[t] ELSE None
<1>1. PICK t \in Tabs :
        /\ Own(t).goto.kind = "to"
        /\ Renders(t, [Own(t) EXCEPT !.link = Own(t).goto.link, !.goto = NoTurn], stored, asked(t))
  BY DEF Navigated
<1> DEFINE tab == [Own(t) EXCEPT !.link = Own(t).goto.link, !.goto = NoTurn]
<1>2. Own(t) \in TabState /\ TabRight(t) /\ stored \in Office /\ lastChoice[t] \in Office /\ Admins(t) \subseteq Districts
  BY RightsAreOffices DEF OfficesInv
<1>3. Own(t).goto \in Turn /\ Own(t).goto /= NoTurn
  BY <1>1, <1>2 DEF TabState, Turn, NoTurn
<1>4. Own(t).goto.link \in Office
  BY <1>3 DEF Turn
<1>5. /\ tab \in TabState /\ tab.at = Own(t).at /\ tab.goto = NoTurn /\ tab.link = Own(t).goto.link
      /\ tab.user = Own(t).user /\ tab.own = Own(t).own
  BY <1>2, <1>4 DEF TabState, Turn
<1>6. asked(t) \in Office
  BY <1>2 DEF Office
<1> HIDE DEF tab
<1>7. ASSUME tabs'[t] = [tab EXCEPT !.seen = stored], lastChoice'[t] = asked(t) PROVE TabRight(t)'
  <2>1. /\ tabs'[t].at = tabs[t].at /\ tabs'[t].goto = NoTurn /\ tabs'[t].link = tabs[t].goto.link
        /\ tabs'[t].user = tabs[t].user /\ tabs'[t].own = tabs[t].own /\ tabs'[t].seen = stored
    BY <1>5, <1>7 DEF TabState, Own
  <2>2. Submits(t)' = Submits(t) /\ Admins(t)' = Admins(t)
    BY <2>1 DEF Submits, Admins, Own
  <2>3. lastChoice'[t] /= None => lastChoice'[t] = lastChoice[t] /\ tabs'[t].seen = tabs[t].seen
    BY <1>7, <2>1 DEF Own
  <2>4. tabs[t].at = "manager" => Linked(t, Admins(t))' = None
    BY <1>2, <1>3, <2>1, <2>2 DEF Linked, TabRight, Own
  <2>5. QED
    BY <1>2, <1>3, <2>1, <2>2, <2>3, <2>4 DEF TabRight, Chosen, Own
<1>8. Renders(t, tab, stored, asked(t))
  BY <1>1 DEF tab
<1> HIDE DEF asked
<1>9. QED
  BY <1>2, <1>5, <1>6, <1>7, <1>8, RendersKeeps

\* Another tab's choice moves the page of the scripts only.
LEMMA StorageEventInv == OfficesInv /\ StorageEvent => OfficesInv'
<1> SUFFICES ASSUME OfficesInv, StorageEvent PROVE OfficesInv'
  OBVIOUS
<1> DEFINE asked(t) == IF Own(t).at = "manager" THEN None ELSE lastChoice[t]
<1>1. PICK t \in Tabs : Renders(t, Own(t), stored, asked(t))
  BY DEF StorageEvent
<1>2. Own(t) \in TabState /\ TabRight(t) /\ stored \in Office /\ lastChoice[t] \in Office
  BY RightsAreOffices DEF OfficesInv
<1>3. asked(t) \in Office
  BY <1>2 DEF Office
<1>4. ASSUME tabs'[t] = [Own(t) EXCEPT !.seen = stored], lastChoice'[t] = asked(t) PROVE TabRight(t)'
  <2>1. /\ tabs'[t].at = tabs[t].at /\ tabs'[t].goto = tabs[t].goto /\ tabs'[t].link = tabs[t].link
        /\ tabs'[t].user = tabs[t].user /\ tabs'[t].own = tabs[t].own
    BY <1>2, <1>4 DEF TabState, Own
  <2>2. Submits(t)' = Submits(t)
    BY <2>1 DEF Submits, Own
  <2>3. QED
    BY <1>2, <1>4, <2>1, <2>2 DEF TabRight, Chosen, Own
<1> HIDE DEF asked
<1>5. QED
  BY <1>1, <1>2, <1>3, <1>4, RendersKeeps

\* Every step keeps the invariant.
LEMMA OfficesStepInv == OfficesInv /\ [OfficesNext]_officeVars => OfficesInv'
<1> SUFFICES ASSUME OfficesInv, [OfficesNext]_officeVars PROVE OfficesInv'
  OBVIOUS
<1>1. CASE OfficesNext
  BY <1>1, EnterPageInv, SignInInv, ChooseManagerInv, ChooseSubmitInv, ChooseDependenciesInv,
     NavigatedInv, StorageEventInv DEF OfficesNext
<1>2. CASE UNCHANGED officeVars
  <2>1. stored' = stored /\ lastChoice' = lastChoice /\ tabs' = tabs
    BY <1>2 DEF officeVars
  <2>2. QED
    BY <2>1 DEF OfficesInv, TabRight, Chosen, Own, Admins, Submits, Linked
<1>3. QED
  BY <1>1, <1>2

(***************************************************************************)
(* What a page works for                                                     *)
(***************************************************************************)
\* No page works for, and no header opens, what the user has no part in.
LEMMA InvAllows == OfficesInv => WorksWhereAllowed
<1> SUFFICES ASSUME OfficesInv, NEW t \in Tabs
             PROVE  /\ WorksFor(t) \in {None} \cup (IF Own(t).at = "manager" THEN Admins(t) ELSE Submits(t))
                    /\ HeaderLink(t) \in {None} \cup Admins(t) \cup Submits(t)
  BY DEF WorksWhereAllowed
<1>1. TabRight(t)
  BY DEF OfficesInv
<1>2. HeaderLink(t) \in {None} \cup Admins(t) \cup Submits(t)
  BY DEF HeaderLink, Repositories
<1>3. CASE Own(t).at = "manager"
  BY <1>2, <1>3 DEF WorksFor, ManagerOffice, Or, Linked, Remembered
<1>4. CASE Own(t).at = "submit"
  <2>1. Own(t).own \in Submits(t) \cup {None}
    BY <1>1, <1>4 DEF TabRight
  <2>2. QED
    BY <1>2, <1>4, <2>1 DEF WorksFor, SubmitOffice, Or, Linked, Remembered
<1>5. CASE Own(t).at = "dependencies"
  <2>1. Submits(t) /= {} => FirstOf(Submits(t)) \in Submits(t)
    BY DEF FirstOf
  <2>2. QED
    BY <1>2, <1>5, <2>1 DEF WorksFor, DependenciesOffice, Or, Linked
<1>6. CASE Own(t).at \notin {"manager", "submit", "dependencies"}
  BY <1>2, <1>6 DEF WorksFor
<1>7. QED
  BY <1>3, <1>4, <1>5, <1>6

\* A page works for the office chosen last.
LEMMA InvHolds == OfficesInv => ChoiceHolds
<1> SUFFICES ASSUME OfficesInv, NEW t \in Tabs, lastChoice[t] /= None, Own(t).goto = NoTurn
             PROVE  WorksFor(t) = lastChoice[t]
  BY DEF ChoiceHolds
<1>1. TabRight(t) /\ Chosen(t) /\ Own(t).at \in {"manager", "submit", "dependencies"}
  BY DEF OfficesInv, TabRight, Chosen, TabState, Own, Pages
<1>2. CASE Own(t).at = "manager"
  BY <1>1, <1>2 DEF Chosen, WorksFor, ManagerOffice, Or, Remembered
<1>3. CASE Own(t).at = "submit"
  BY <1>1, <1>3 DEF Chosen, WorksFor, SubmitOffice, Or
<1>4. CASE Own(t).at = "dependencies"
  BY <1>1, <1>4 DEF Chosen, WorksFor, DependenciesOffice, Or, Linked
<1>5. QED
  BY <1>1, <1>2, <1>3, <1>4

\* The invariant has the shape of the state.
LEMMA InvShape == OfficesInv => OfficesTypeOK
<1> SUFFICES ASSUME OfficesInv PROVE OfficesTypeOK
  OBVIOUS
<1>1. ASSUME NEW t \in Tabs
      PROVE  /\ Own(t).user \in Users \cup {None} /\ Own(t).at \in Pages
             /\ {Own(t).link, Own(t).own, Own(t).seen} \subseteq Districts \cup {None}
             /\ Own(t).goto /= NoTurn => Own(t).at \in {"manager", "dependencies"}
  BY <1>1, RightsAreOffices DEF OfficesInv, TabRight, TabState, Office
<1>2. QED
  BY <1>1 DEF OfficesInv, OfficesTypeOK, Office

\* Each page works for an office of its user, the one chosen last, and no header opens the
\* repository of another: for any users, offices and tabs, and whatever they are asked in
\* which order (selectedOffice, chooseOffice, useRememberedOffice).
THEOREM PagesOfTheirUsers == OfficesSpec => []OfficesAllowed
<1>1. OfficesInv => OfficesAllowed
  BY InvAllows, InvHolds, InvShape DEF OfficesAllowed
<1>2. QED
  BY <1>1, OfficesInitInv, OfficesStepInv, PTL DEF OfficesSpec

(***************************************************************************)
(* Notices                                                                  *)
(***************************************************************************)
\* A source has one entry, that of its last event.
EntryOf == [message: {Wording[c] : c \in FailureCodes} \cup {Warning}, kind: {"error", "warning"}, at: Nat]
Sourced(src) == \A s \in DOMAIN src : \E e \in EntryOf : src[s] = {e}

\* What the last answer of a query is told with, while it is not waived.
Answers == [what: Codes \cup {"fine", "warned"}, at: Nat]
ToldOf(q) ==
  outcome[q] /= None =>
    /\ outcome[q] \in Answers
    /\ outcome[q].what \in Codes /\ outcome[q].at \notin waived /\ ~OnItsPage(q, outcome[q].what) =>
         q \in DOMAIN sources /\ \A e \in sources[q] : e.message = Wording[outcome[q].what] /\ e.at = outcome[q].at
    /\ outcome[q].what = "warned" /\ outcome[q].at \notin waived =>
         q \in DOMAIN sources /\ \A e \in sources[q] : e.message = Warning /\ e.at = outcome[q].at

\* An error that a query shows is not older than its last success.
LastWord(q) ==
  q \in DOMAIN sources /\ (\E e \in sources[q] : e.kind = "error") =>
    outcome[q] /= None /\ outcome[q].what \in Codes

\* The invariant that is proved of the notices.
NoticesInv ==
  /\ events \in Nat /\ tries \in [AllQueries -> 0..2] /\ DOMAIN outcome = AllQueries
  /\ Sourced(sources) /\ hidden \subseteq Messages(sources)
  /\ \A a, b \in actions : a.message = b.message => a = b
  /\ \A q \in AllQueries : ToldOf(q) /\ LastWord(q)

\* Codes are those of failures, and the queries are no messages.
LEMMA FailuresAreWorded ==
  /\ \A c \in Codes : c \in FailureCodes /\ c \notin {"fine", "warned"}
  /\ \A q \in AllQueries, c \in FailureCodes : Wording[c] /= q
BY NoticesAssumption DEF FailureCodes, AllQueries

\* Entries are put, and taken away.
LEMMA PutSources ==
  ASSUME Sourced(sources), NEW s, NEW E, E = {} \/ \E e \in EntryOf : E = {e}
  PROVE  /\ Sourced(Put(s, E))
         /\ \A x : x /= s => (x \in DOMAIN Put(s, E) <=> x \in DOMAIN sources)
                             /\ (x \in DOMAIN sources => Put(s, E)[x] = sources[x])
         /\ E /= {} => s \in DOMAIN Put(s, E) /\ Put(s, E)[s] = E
         /\ E = {} => s \notin DOMAIN Put(s, E)
<1>1. CASE E = {}
  BY <1>1 DEF Put, Sourced
<1>2. CASE E /= {}
  BY <1>2 DEF Put, Sourced
<1>3. QED
  BY <1>1, <1>2

LEMMA WithoutSources ==
  ASSUME Sourced(sources), NEW gone
  PROVE  /\ Sourced(Without(gone))
         /\ \A s : s \in DOMAIN Without(gone) => s \in DOMAIN sources /\ Without(gone)[s] = sources[s]
         /\ \A s \in DOMAIN sources : s \notin DOMAIN Without(gone) => sources[s] \subseteq gone
<1> DEFINE left == [s \in DOMAIN sources |-> sources[s] \ gone]
           kept == {x \in DOMAIN sources : left[x] /= {}}
<1>1. Without(gone) = [s \in kept |-> left[s]]
  BY DEF Without
<1>2. \A s \in kept : s \in DOMAIN sources /\ left[s] = sources[s]
  BY DEF Sourced
<1>3. \A s \in DOMAIN sources : s \notin kept => sources[s] \subseteq gone
  OBVIOUS
<1> HIDE DEF left, kept
<1>4. QED
  BY <1>1, <1>2, <1>3 DEF Sourced

LEMMA NoticesInitInv == NoticesInit => NoticesInv
<1> SUFFICES ASSUME NoticesInit PROVE NoticesInv
  OBVIOUS
<1>1. DOMAIN sources = {} /\ hidden = {} /\ actions = {} /\ events = 0
  BY DEF NoticesInit
<1>2. tries \in [AllQueries -> 0..2] /\ DOMAIN outcome = AllQueries /\ \A q \in AllQueries : outcome[q] = None
  BY DEF NoticesInit
<1>3. QED
  BY <1>1, <1>2 DEF NoticesInv, Sourced, ToldOf, LastWord

\* What was told goes only when it is waived, or for the next of its source.
LEMMA TellingKept ==
  ASSUME NoticesInv, NEW q \in AllQueries, outcome'[q] = outcome[q], waived \subseteq waived',
         q \in DOMAIN sources /\ (\E e \in sources[q] : e.at \notin waived') =>
           q \in DOMAIN sources' /\ sources'[q] = sources[q],
         q \in DOMAIN sources' => q \in DOMAIN sources /\ sources'[q] = sources[q]
  PROVE  ToldOf(q)' /\ LastWord(q)'
<1>1. ToldOf(q) /\ LastWord(q)
  BY DEF NoticesInv
<1>2. q \in DOMAIN sources => \E e \in EntryOf : sources[q] = {e}
  BY DEF NoticesInv, Sourced
<1>3. LastWord(q)'
  BY <1>1 DEF LastWord
<1>4. ToldOf(q)'
  BY <1>1, <1>2 DEF ToldOf, OnItsPage
<1>5. QED
  BY <1>3, <1>4

\* An answer comes.
LEMMA DoneInv ==
  ASSUME NoticesInv, NEW q \in AllQueries, NEW o \in Codes \cup {"fine", "warned"}, Done(q, o),
         Sourced(sources'), hidden' \subseteq Messages(sources)',
         \A x \in AllQueries \ {q} :
           (x \in DOMAIN sources' <=> x \in DOMAIN sources) /\ (x \in DOMAIN sources => sources'[x] = sources[x]),
         o \in Codes /\ ~OnItsPage(q, o) =>
           q \in DOMAIN sources' /\ \A e \in sources'[q] : e.message = Wording[o] /\ e.at = events + 1,
         o = "warned" => q \in DOMAIN sources' /\ \A e \in sources'[q] : e.message = Warning /\ e.at = events + 1,
         o \notin Codes /\ q \in DOMAIN sources' => \A e \in sources'[q] : e.kind = "warning"
  PROVE  NoticesInv'
<1>1. /\ tries' = [tries EXCEPT ![q] = 0] /\ outcome' = [outcome EXCEPT ![q] = [what |-> o, at |-> events + 1]]
      /\ events' = events + 1 /\ UNCHANGED <<actions, waived>> /\ events \in Nat
  BY DEF Done, Occurs, NoticesInv
<1>2. tries' \in [AllQueries -> 0..2] /\ DOMAIN outcome' = AllQueries /\ events' \in Nat
  BY <1>1 DEF NoticesInv
<1>3. outcome'[q] = [what |-> o, at |-> events + 1] /\ \A x \in AllQueries \ {q} : outcome'[x] = outcome[x]
  BY <1>1 DEF NoticesInv
<1>4. outcome'[q] \in Answers /\ outcome'[q].what = o /\ outcome'[q].at = events + 1
  BY <1>1, <1>3 DEF Answers
<1>5. outcome'[q] /= None
  BY <1>4, NoticesAssumption DEF Answers
<1>6. ToldOf(q)'
  BY <1>4 DEF ToldOf, OnItsPage
<1>7. LastWord(q)'
  BY <1>4, <1>5 DEF LastWord
<1>8. \A x \in AllQueries \ {q} : ToldOf(x)' /\ LastWord(x)'
  BY <1>1, <1>3, TellingKept
<1>9. QED
  BY <1>1, <1>2, <1>6, <1>7, <1>8 DEF NoticesInv

\* A query fails, ...
LEMMA QueryFailsInv ==
  ASSUME NoticesInv, NEW q \in AllQueries, NEW c \in Codes, QueryFails(q, c)
  PROVE  NoticesInv'
<1>1. Done(q, c)
  BY DEF QueryFails
<1>2. CASE OnItsPage(q, c)
  <2>1. UNCHANGED <<sources, hidden>>
    BY <1>2 DEF QueryFails
  <2>2. c \notin {"fine", "warned"}
    BY FailuresAreWorded
  <2>3. QED
    BY <1>1, <1>2, <2>1, <2>2, DoneInv DEF NoticesInv, Sourced, Messages, Entries
<1>3. CASE ~OnItsPage(q, c)
  <2>1. PICK e : e = Entry(Wording[c], "error")
    OBVIOUS
  <2>2. sources' = Put(q, {e}) /\ hidden' = hidden \cap Messages(Put(q, {e}))
    BY <1>3, <2>1 DEF QueryFails, NotifyError, Update
  <2>3. e \in EntryOf /\ e.message = Wording[c] /\ e.at = events + 1
    BY <2>1, FailuresAreWorded DEF Entry, EntryOf, NoticesInv
  <2>4. c \notin {"fine", "warned"} /\ Sourced(sources)
    BY FailuresAreWorded DEF NoticesInv
  <2>5. /\ Sourced(Put(q, {e})) /\ q \in DOMAIN Put(q, {e}) /\ Put(q, {e})[q] = {e}
        /\ \A x : x /= q => (x \in DOMAIN Put(q, {e}) <=> x \in DOMAIN sources)
                            /\ (x \in DOMAIN sources => Put(q, {e})[x] = sources[x])
    BY <2>3, <2>4, PutSources
  <2>6. Sourced(sources') /\ hidden' \subseteq Messages(sources)'
    BY <2>2, <2>5 DEF Messages, Entries
  <2>7. QED
    BY <1>1, <2>2, <2>3, <2>4, <2>5, <2>6, DoneInv
<1>4. QED
  BY <1>2, <1>3

\* ... or succeeds.
LEMMA QuerySucceedsInv ==
  ASSUME NoticesInv, NEW q \in AllQueries, QuerySucceeds(q)
  PROVE  NoticesInv'
<1>1. PICK warned \in BOOLEAN : Done(q, IF warned THEN "warned" ELSE "fine") /\ ReportWarnings(q, warned)
  BY DEF QuerySucceeds
<1>2. PICK e : e = Entry(Warning, "warning")
  OBVIOUS
<1>3. e \in EntryOf /\ e.message = Warning /\ e.at = events + 1 /\ e.kind = "warning"
  BY <1>2 DEF Entry, EntryOf, NoticesInv
<1>4. PICK E : E = IF warned THEN {e} ELSE {}
  OBVIOUS
<1>5. sources' = Put(q, E) /\ hidden' = hidden \cap Messages(Put(q, E))
  BY <1>1, <1>2, <1>4 DEF ReportWarnings, Update
<1>6. Sourced(sources) /\ "fine" \notin Codes /\ "warned" \notin Codes
  BY FailuresAreWorded DEF NoticesInv
<1>7. E = {} \/ \E f \in EntryOf : E = {f}
  BY <1>3, <1>4
<1>8. /\ Sourced(Put(q, E))
      /\ \A x : x /= q => (x \in DOMAIN Put(q, E) <=> x \in DOMAIN sources)
                          /\ (x \in DOMAIN sources => Put(q, E)[x] = sources[x])
      /\ E /= {} => q \in DOMAIN Put(q, E) /\ Put(q, E)[q] = E
      /\ E = {} => q \notin DOMAIN Put(q, E)
  BY <1>6, <1>7, PutSources
<1>9. Sourced(sources') /\ hidden' \subseteq Messages(sources)'
  BY <1>5, <1>8 DEF Messages, Entries
<1>10. CASE warned
  BY <1>1, <1>3, <1>4, <1>5, <1>6, <1>8, <1>9, <1>10, DoneInv
<1>11. CASE ~warned
  BY <1>1, <1>4, <1>5, <1>6, <1>8, <1>9, <1>11, DoneInv
<1>12. QED
  BY <1>10, <1>11

\* What is told goes by a step that waives it.
LEMMA TakenAwayInv ==
  ASSUME NoticesInv, UNCHANGED <<tries, outcome>>, waived \subseteq waived', events' \in Nat,
         Sourced(sources'), hidden' \subseteq Messages(sources)',
         \A a, b \in actions' : a.message = b.message => a = b,
         \A q \in AllQueries :
           /\ q \in DOMAIN sources /\ (\E e \in sources[q] : e.at \notin waived') => q \in DOMAIN sources'
           /\ q \in DOMAIN sources' => q \in DOMAIN sources /\ sources'[q] = sources[q]
  PROVE  NoticesInv'
<1>1. \A q \in AllQueries : ToldOf(q)' /\ LastWord(q)'
  BY TellingKept
<1>2. QED
  BY <1>1 DEF NoticesInv

\* A timer goes off, ...
LEMMA ExpireInv == ASSUME NoticesInv, Expire PROVE NoticesInv'
<1>1. PICK t : t = Head(timers)
  OBVIOUS
<1>2. /\ waived' = waived \cup {t.at} /\ actions' = {n \in actions : n.at /= t.at}
      /\ UNCHANGED <<tries, outcome, events>>
      /\ IF t.source \in DOMAIN sources /\ \E e \in sources[t.source] : e.at = t.at
         THEN Update(Put(t.source, {}), hidden) ELSE UNCHANGED <<sources, hidden>>
  BY <1>1 DEF Expire
<1>3. Sourced(sources) /\ \A s \in DOMAIN sources : \E e \in EntryOf : sources[s] = {e}
  BY DEF NoticesInv, Sourced
<1>4. \A a, b \in actions' : a.message = b.message => a = b
  BY <1>2 DEF NoticesInv
<1>5. CASE t.source \in DOMAIN sources /\ \E e \in sources[t.source] : e.at = t.at
  <2>1. sources' = Put(t.source, {}) /\ hidden' = hidden \cap Messages(Put(t.source, {}))
    BY <1>2, <1>5 DEF Update
  <2>2. /\ Sourced(Put(t.source, {})) /\ t.source \notin DOMAIN Put(t.source, {})
        /\ \A x : x /= t.source => (x \in DOMAIN Put(t.source, {}) <=> x \in DOMAIN sources)
                                   /\ (x \in DOMAIN sources => Put(t.source, {})[x] = sources[x])
    BY <1>3, PutSources
  <2>3. Sourced(sources') /\ hidden' \subseteq Messages(sources)'
    BY <2>1, <2>2 DEF Messages, Entries
  <2>4. ASSUME NEW q \in AllQueries
        PROVE  /\ q \in DOMAIN sources /\ (\E e \in sources[q] : e.at \notin waived') => q \in DOMAIN sources'
               /\ q \in DOMAIN sources' => q \in DOMAIN sources /\ sources'[q] = sources[q]
    BY <1>2, <1>3, <1>5, <2>1, <2>2
  <2>5. QED
    BY <1>2, <1>4, <2>3, <2>4, TakenAwayInv DEF NoticesInv
<1>6. CASE ~(t.source \in DOMAIN sources /\ \E e \in sources[t.source] : e.at = t.at)
  <2>1. UNCHANGED <<sources, hidden>>
    BY <1>2, <1>6
  <2>2. Sourced(sources') /\ hidden' \subseteq Messages(sources)'
    BY <1>3, <2>1 DEF NoticesInv, Messages, Entries
  <2>3. QED
    BY <1>2, <1>4, <2>1, <2>2, TakenAwayInv DEF NoticesInv
<1>7. QED
  BY <1>5, <1>6

\* ... or the user or the reconnection takes it away.
LEMMA WithoutInv ==
  ASSUME NoticesInv, UNCHANGED <<tries, outcome>>, events' \in Nat,
         \A a, b \in actions' : a.message = b.message => a = b,
         NEW gone \in SUBSET Entries(sources), waived' = waived \cup {e.at : e \in gone},
         Update(Without(gone), hidden)
  PROVE  NoticesInv'
<1>1. sources' = Without(gone) /\ hidden' = hidden \cap Messages(Without(gone))
  BY DEF Update
<1>2. Sourced(sources)
  BY DEF NoticesInv
<1>3. /\ Sourced(Without(gone))
      /\ \A s : s \in DOMAIN Without(gone) => s \in DOMAIN sources /\ Without(gone)[s] = sources[s]
      /\ \A s \in DOMAIN sources : s \notin DOMAIN Without(gone) => sources[s] \subseteq gone
  BY <1>2, WithoutSources
<1>4. Sourced(sources') /\ hidden' \subseteq Messages(sources)'
  BY <1>1, <1>3 DEF Messages, Entries
<1>5. ASSUME NEW q \in AllQueries
      PROVE  /\ q \in DOMAIN sources /\ (\E e \in sources[q] : e.at \notin waived') => q \in DOMAIN sources'
             /\ q \in DOMAIN sources' => q \in DOMAIN sources /\ sources'[q] = sources[q]
  BY <1>1, <1>3
<1>6. QED
  BY <1>4, <1>5, TakenAwayInv

\* A finished action replaces the notice that says the same.
LEMMA NoticedOnce ==
  ASSUME NEW notices, \A a, b \in notices : a.message = b.message => a = b, NEW m
  PROVE  \A a, b \in Noticed(notices, m) : a.message = b.message => a = b
BY DEF Noticed

\* The invariant is inductive.
LEMMA NoticesStepInv == NoticesInv /\ [NoticesNext]_noticeVars => NoticesInv'
<1> SUFFICES ASSUME NoticesInv, [NoticesNext]_noticeVars PROVE NoticesInv'
  OBVIOUS
<1>1. CASE UNCHANGED <<outcome, sources, hidden, actions, events, waived>> /\ tries' \in [AllQueries -> 0..2]
  BY <1>1 DEF NoticesInv, ToldOf, LastWord, Messages, Entries
<1>2. CASE UNCHANGED noticeVars
  BY <1>1, <1>2 DEF noticeVars, NoticesInv
<1>3. ASSUME NEW q \in AllQueries, Fetch(q) \/ \E c \in Codes : AttemptFails(q, c)
      PROVE  NoticesInv'
  BY <1>1, <1>3 DEF Fetch, AttemptFails, NoticesInv
<1>4. CASE TryAgain \/ CheckAgain
  BY <1>1, <1>4 DEF TryAgain, CheckAgain, NoticesInv
<1>5. CASE GoOffline
  BY <1>1, <1>5 DEF GoOffline, NoticesInv
<1>6. ASSUME NEW c \in Codes, WriteFails(c)
      PROVE  NoticesInv'
  <2>1. PICK e : e = Entry(Wording[c], "error")
    OBVIOUS
  <2>2. /\ sources' = Put(Wording[c], {e}) /\ hidden' = hidden \cap Messages(Put(Wording[c], {e}))
        /\ UNCHANGED <<tries, outcome, actions, waived>> /\ events' = events + 1
    BY <1>6, <2>1 DEF WriteFails, NotifyError, Update, Occurs
  <2>3. e \in EntryOf /\ Sourced(sources) /\ events' \in Nat
    BY <2>1, <2>2, FailuresAreWorded DEF Entry, EntryOf, NoticesInv
  <2>4. /\ Sourced(Put(Wording[c], {e}))
        /\ \A x : x /= Wording[c] => (x \in DOMAIN Put(Wording[c], {e}) <=> x \in DOMAIN sources)
                                     /\ (x \in DOMAIN sources => Put(Wording[c], {e})[x] = sources[x])
    BY <2>3, PutSources
  <2>5. Sourced(sources') /\ hidden' \subseteq Messages(sources)'
    BY <2>2, <2>4 DEF Messages, Entries
  <2>6. \A q \in AllQueries : q /= Wording[c]
    BY FailuresAreWorded
  <2>7. QED
    BY <2>2, <2>3, <2>4, <2>5, <2>6, TakenAwayInv DEF NoticesInv
<1>7. CASE WriteSucceeds
  <2>1. actions' = Noticed(actions, "saved") /\ UNCHANGED <<tries, outcome, sources, hidden, waived>>
        /\ events' = events + 1
    BY <1>7 DEF WriteSucceeds, Occurs
  <2>2. \A a, b \in actions' : a.message = b.message => a = b
    BY <2>1, NoticedOnce DEF NoticesInv
  <2>3. QED
    BY <2>1, <2>2 DEF NoticesInv, ToldOf, LastWord, Messages, Entries
<1>8. CASE DismissToast
  BY <1>8 DEF DismissToast, Update, NoticesInv, ToldOf, LastWord, Messages, Entries
<1>9. CASE DismissAction
  <2>1. UNCHANGED <<tries, outcome, sources, hidden, events>> /\ waived \subseteq waived' /\ actions' \subseteq actions
    BY <1>9 DEF DismissAction
  <2>2. Sourced(sources') /\ hidden' \subseteq Messages(sources)'
    BY <2>1 DEF NoticesInv, Messages, Entries
  <2>3. QED
    BY <2>1, <2>2, TakenAwayInv DEF NoticesInv
<1>10. CASE DismissError
  <2>1. PICK m \in Messages(sources) : Update(Without({e \in Entries(sources) : e.message = m}), hidden)
                                       /\ waived' = waived \cup Numbers(m)
    BY <1>10 DEF DismissError
  <2>2. PICK gone : gone = {e \in Entries(sources) : e.message = m}
    OBVIOUS
  <2>3. UNCHANGED <<tries, outcome, actions, events>>
    BY <1>10 DEF DismissError
  <2>4. QED
    BY <2>1, <2>2, <2>3, WithoutInv DEF NoticesInv, Numbers
<1>11. CASE GoOnline
  <2>1. PICK gone : gone = {e \in Entries(sources) : e.kind = "error"}
    OBVIOUS
  <2>2. /\ Update(Without(gone), hidden) /\ waived' = waived \cup {e.at : e \in gone}
        /\ actions' = Noticed(Noticed(actions, "restored"), "restored")
        /\ UNCHANGED <<tries, outcome>> /\ events' = events + 1
    BY <1>11, <2>1 DEF GoOnline, Occurs
  <2>3. \A a, b \in actions' : a.message = b.message => a = b
    <3>1. PICK once : once = Noticed(actions, "restored")
      OBVIOUS
    <3>2. \A a, b \in once : a.message = b.message => a = b
      BY <3>1, NoticedOnce DEF NoticesInv
    <3>3. actions' = Noticed(once, "restored")
      BY <2>2, <3>1
    <3>4. QED
      BY <3>2, <3>3, NoticedOnce
  <2>4. QED
    BY <2>1, <2>2, <2>3, WithoutInv DEF NoticesInv
<1>12. QED
  BY <1>2, <1>3, <1>4, <1>5, <1>6, <1>7, <1>8, <1>9, <1>10, <1>11, QueryFailsInv, QuerySucceedsInv, ExpireInv
    DEF NoticesNext

\* No failure goes untold because of another, no warning goes before its cause, and each error
\* that is shown is the last word of its source, whatever recovers, expires or is dismissed.
THEOREM NoFailureGoesUntold == NoticesSpec => []FailuresTold
<1>1. NoticesInv => FailuresTold
  <2> SUFFICES ASSUME NoticesInv PROVE FailuresTold
    OBVIOUS
  <2>1. \A s \in DOMAIN sources : sources[s] /= {} /\ Cardinality(sources[s]) = 1
    BY FS_Singleton DEF NoticesInv, Sourced
  <2>2. NoticesTypeOK
    BY <2>1, FailuresAreWorded DEF NoticesInv, LastWord, NoticesTypeOK
  <2>3. ASSUME NEW q \in AllQueries, outcome[q] /= None
        PROVE  /\ q \in DOMAIN sources => sources[q] \subseteq Entries(sources) /\ sources[q] /= {}
               /\ ToldOf(q)
    BY <2>1 DEF NoticesInv, Entries
  <2>4. FailureIsTold
    <3>1. ASSUME NEW q \in AllQueries, OnItsPage(q, outcome[q].what)
          PROVE  RecoveryPage(outcome[q].what) /= "general"
      BY <3>1 DEF OnItsPage, RecoveryPage
    <3>2. QED
      BY <2>3, <3>1 DEF FailureIsTold, ToldOf, Messages
  <2>5. WarningStays
    BY <2>3 DEF WarningStays, ToldOf, Messages
  <2>6. QED
    BY <2>2, <2>4, <2>5 DEF FailuresTold
<1>2. QED
  BY <1>1, NoticesInitInv, NoticesStepInv, PTL DEF NoticesSpec

\* A toast that was dismissed hides no later failure.
THEOREM NoToastHidesAnother == NoticesSpec => FreshFailureHasToast
<1>1. NoticesInv /\ NoticesInv' /\ [NoticesNext]_noticeVars
        => [\A m \in Messages(sources') : m \notin Messages(sources) => m \notin hidden']_noticeVars
  <2> SUFFICES ASSUME NoticesInv, [NoticesNext]_noticeVars,
                      NEW m \in Messages(sources'), m \notin Messages(sources)
               PROVE  m \notin hidden'
    OBVIOUS
  <2>1. hidden \subseteq Messages(sources)
    BY DEF NoticesInv
  <2>2. hidden' \subseteq hidden \/ sources' = sources
    BY DEF NoticesNext, noticeVars, Fetch, AttemptFails, QueryFails, QuerySucceeds, NotifyError, ReportWarnings,
      WriteFails, WriteSucceeds, Expire, DismissToast, TryAgain, DismissError, CheckAgain, DismissAction,
      GoOffline, GoOnline, Update
  <2>3. QED
    BY <2>1, <2>2
<1>2. QED
  BY <1>1, NoticesInitInv, NoticesStepInv, PTL DEF NoticesSpec, FreshFailureHasToast

(***************************************************************************)
(* The queue                                                                *)
(***************************************************************************)
\* The invariant that is proved of the queue: what is ticked was chosen, and a modal is
\* only open while something is ticked.
QueueList == [data: Tables \cup {None}, reading: Tables \cup {None}, failed: BOOLEAN]
QueueInv ==
  /\ served \in [Queued -> QueueStates] /\ stateFilter \in StateFilters /\ lists \in [StateFilters -> QueueList]
  /\ ticked \subseteq chosen /\ bulkOpen \in BOOLEAN
  /\ BulkReachesTicked /\ OpenBulkHasRuns

\* A run moves to a state, and so does one that is cancelled.
LEMMA StatesGoOn == \A s \in QueueStates : NextState[s] \subseteq QueueStates /\ Cancelled[s] \subseteq QueueStates
<1>1. \A t \in JobStatus : InQueues(t) \in QueueStates /\ Becomes[t] \subseteq JobStatus
  BY DEF QueueStates, JobStatus, Becomes
<1>2. "over" \in QueueStates /\ "Cancelling" \in QueueStates
  BY DEF QueueStates, JobStatus, InQueues
<1>3. ASSUME NEW s \in QueueStates PROVE s = "over" \/ s \in JobStatus
  BY DEF QueueStates, InQueues
<1>4. ASSUME NEW s \in QueueStates PROVE NextState[s] \subseteq QueueStates
  BY <1>1, <1>3 DEF NextState
<1>5. ASSUME NEW s \in QueueStates PROVE Cancelled[s] \subseteq QueueStates
  BY <1>2 DEF Cancelled
<1>6. QED
  BY <1>4, <1>5

\* What the server lists
LEMMA RowsAreTable == ASSUME served \in [Queued -> QueueStates], NEW f PROVE Rows(f) \in Tables
<1> DEFINE active == {j \in Queued : served[j] /= "over" /\ f \in {"all", served[j]}}
<1>1. active \in SUBSET Queued /\ Rows(f) = [j \in active |-> served[j]]
  BY DEF Rows
<1>2. Rows(f) \in [active -> QueueStates]
  BY <1>1
<1>3. QED
  BY <1>1, <1>2 DEF Tables

LEMMA QueueInitInv == QueuePanelInit => QueueInv
<1> SUFFICES ASSUME QueuePanelInit PROVE QueueInv
  OBVIOUS
<1>1. served \in [Queued -> QueueStates]
  <2>1. "Pending" \in JobStatus /\ InQueues("Pending") = "Pending"
    BY DEF JobStatus, InQueues
  <2>2. QED
    BY <2>1 DEF QueuePanelInit, QueueStates
<1>2. \A f \in StateFilters : Rows(f) \in Tables
  BY <1>1, RowsAreTable
<1>3. lists \in [StateFilters -> QueueList]
  BY <1>2 DEF QueuePanelInit, QueueList
<1>4. QED
  BY <1>1, <1>3, QueuePanelAssumption DEF QueuePanelInit, QueueInv, BulkReachesTicked, OpenBulkHasRuns

\* The lists become others.
LEMMA ListsTyped ==
  ASSUME QueueInv, NEW f \in StateFilters, NEW q \in QueueList
  PROVE  [lists EXCEPT ![f] = q] \in [StateFilters -> QueueList]
BY DEF QueueInv

LEMMA AskingTyped == ASSUME QueueInv, NEW f \in StateFilters PROVE Asking(lists[f]) \in QueueList
<1>1. Rows(stateFilter) \in Tables
  BY RowsAreTable DEF QueueInv
<1>2. QED
  BY <1>1 DEF QueueInv, QueueList, Asking

\* Readings begin and end.
LEMMA QueueReadInv == ASSUME QueueInv, ReadQueue \/ QueueArrives \/ QueueFails PROVE QueueInv'
<1>1. UNCHANGED <<served, stateFilter, ticked, bulkOpen, strays, chosen>>
  BY DEF ReadQueue, QueueArrives, QueueFails
<1>2. lists' \in [StateFilters -> QueueList]
  <2>1. CASE ReadQueue
    BY <2>1, AskingTyped, ListsTyped DEF ReadQueue, QueueInv
  <2>2. CASE QueueArrives
    <3>1. PICK f \in StateFilters :
            /\ lists[f].reading /= None
            /\ lists' = [lists EXCEPT ![f] = [data |-> lists[f].reading, reading |-> None, failed |-> FALSE]]
      BY <2>2 DEF QueueArrives
    <3>2. [data |-> lists[f].reading, reading |-> None, failed |-> FALSE] \in QueueList
      BY DEF QueueInv, QueueList
    <3>3. QED
      BY <3>1, <3>2, ListsTyped
  <2>3. CASE QueueFails
    <3>1. PICK f \in StateFilters : lists' = [lists EXCEPT ![f].reading = None, ![f].failed = TRUE]
      BY <2>3 DEF QueueFails
    <3>2. QED
      BY <3>1 DEF QueueInv, QueueList
  <2>4. QED
    BY <2>1, <2>2, <2>3
<1>3. QED
  BY <1>1, <1>2 DEF QueueInv, BulkReachesTicked, OpenBulkHasRuns

\* The filter is changed.
LEMMA FilterInv == ASSUME QueueInv, FilterQueue PROVE QueueInv'
<1>1. PICK f \in StateFilters :
        /\ stateFilter' = f
        /\ lists' = [lists EXCEPT ![f].reading = IF lists[f].reading = None THEN Rows(f) ELSE lists[f].reading]
  BY DEF FilterQueue
<1>2. Rows(f) \in Tables
  BY RowsAreTable DEF QueueInv
<1>3. lists' \in [StateFilters -> QueueList]
  BY <1>1, <1>2 DEF QueueInv, QueueList
<1>4. QED
  BY <1>1, <1>3 DEF FilterQueue, QueueInv, BulkReachesTicked, OpenBulkHasRuns

\* Ticks, and the modal
LEMMA TicksInv ==
  ASSUME QueueInv, Toggle \/ SelectAll \/ OpenBulk \/ CloseBulk \/ ConfirmBulk
  PROVE  QueueInv'
<1>1. UNCHANGED <<served, stateFilter, lists>>
  BY DEF Toggle, SelectAll, OpenBulk, CloseBulk, ConfirmBulk
<1>2. /\ ticked' \subseteq chosen' /\ bulkOpen' \in BOOLEAN /\ strays' = {} /\ (bulkOpen' => ticked' /= {})
  <2>1. CASE Toggle
    BY <2>1 DEF Toggle, QueueInv, BulkReachesTicked
  <2>2. CASE SelectAll
    BY <2>2 DEF SelectAll, QueueInv, BulkReachesTicked
  <2>3. CASE OpenBulk
    BY <2>3 DEF OpenBulk, QueueInv, BulkReachesTicked
  <2>4. CASE CloseBulk
    BY <2>4 DEF CloseBulk, QueueInv, BulkReachesTicked
  <2>5. CASE ConfirmBulk
    BY <2>5 DEF ConfirmBulk, Bulk, QueueInv, BulkReachesTicked, OpenBulkHasRuns
  <2>6. QED
    BY <2>1, <2>2, <2>3, <2>4, <2>5
<1>3. QED
  BY <1>1, <1>2 DEF QueueInv, BulkReachesTicked, OpenBulkHasRuns

\* A run goes on by itself, or by a request of a bulk.
LEMMA RunGoesInv == ASSUME QueueInv, RunMoves \/ CallEnds PROVE QueueInv'
<1>1. UNCHANGED <<stateFilter, lists, ticked, bulkOpen, strays, chosen>>
  BY DEF RunMoves, CallEnds
<1>2. served' \in [Queued -> QueueStates]
  <2>1. CASE RunMoves
    BY <2>1, StatesGoOn DEF RunMoves, QueueInv
  <2>2. CASE CallEnds
    <3>1. served' = served \/ \E b \in bulks : \E j \in b.waiting : \E s \in Cancelled[served[j]] : served' = [served EXCEPT ![j] = s]
      BY <2>2 DEF CallEnds
    <3>2. CASE served' = served
      BY <3>2 DEF QueueInv
    <3>3. ASSUME NEW j, NEW s \in Cancelled[served[j]], served' = [served EXCEPT ![j] = s]
          PROVE  served' \in [Queued -> QueueStates]
      BY <3>3, StatesGoOn DEF QueueInv
    <3>4. QED
      BY <3>1, <3>2, <3>3
  <2>3. QED
    BY <2>1, <2>2
<1>3. QED
  BY <1>1, <1>2 DEF QueueInv, BulkReachesTicked, OpenBulkHasRuns

\* A bulk is over.
LEMMA BulkEndsInv == ASSUME QueueInv, BulkEnds PROVE QueueInv'
<1>1. lists' = [lists EXCEPT ![stateFilter] = Asking(lists[stateFilter])] /\ UNCHANGED <<served, stateFilter, strays, chosen>>
      /\ ticked' = {} /\ bulkOpen' = FALSE
  BY DEF BulkEnds
<1>2. lists' \in [StateFilters -> QueueList]
  BY <1>1, AskingTyped, ListsTyped DEF QueueInv
<1>3. QED
  BY <1>1, <1>2 DEF QueueInv, BulkReachesTicked, OpenBulkHasRuns

LEMMA QueueStepInv == QueueInv /\ [QueuePanelNext]_queueVars => QueueInv'
<1> SUFFICES ASSUME QueueInv, [QueuePanelNext]_queueVars PROVE QueueInv'
  OBVIOUS
<1>1. CASE UNCHANGED queueVars
  BY <1>1 DEF queueVars, QueueInv, BulkReachesTicked, OpenBulkHasRuns
<1>2. CASE QueuePanelNext
  BY <1>2, QueueReadInv, FilterInv, TicksInv, RunGoesInv, BulkEndsInv DEF QueuePanelNext
<1>3. QED
  BY <1>1, <1>2

LEMMA InvBulk == QueueInv => BulkAsTicked
BY DEF QueueInv, BulkAsTicked, QueueTypeOK, QueueList

(***************************************************************************)
(* The timing of a script                                                   *)
(***************************************************************************)
\* The versions of the script that the page or an answer has, and the server's; what is
\* kept of the timing of one.
Version == [rev: Nat, automatic: BOOLEAN]
Timed   == [rev: Nat, next: BOOLEAN, finished: Nat]
Kept    == [data: Timed \cup {None}, reading: Timed \cup {None}, failed: BOOLEAN]
KnownVersions   == {script, cached} \cup ({saving, relisting} \ {None})

VersionsRight ==
  /\ KnownVersions \subseteq Version /\ script.rev <= MaxRevisions
  /\ \A v \in KnownVersions : v.rev \in 1..script.rev
  /\ \A v, w \in KnownVersions : v.rev = w.rev => v.automatic = w.automatic

\* A timing that is kept for key k was told by the server after that version was saved.
TimingRight(t, k) == t.rev \in k..script.rev /\ \A v \in KnownVersions : v.rev = t.rev => t.next = v.automatic
KeptRight(q, k) ==
  /\ q \in Kept /\ q /= NoTiming
  /\ q.data /= None => TimingRight(q.data, k)
  /\ q.reading /= None => TimingRight(q.reading, k)
TimingsRight(ts) == DOMAIN ts \subseteq 1..script.rev /\ \A k \in DOMAIN ts : KeptRight(ts[k], k)

\* The invariant that is proved of the timing.
TimingInv ==
  /\ finished \in Nat /\ section \in {"source", "schedule"} /\ row \in BOOLEAN
  /\ VersionsRight /\ TimingsRight(timings)
  /\ TimingObserved => TimingKey(cached) \in DOMAIN timings

\* What the server tells now is right for every version.
LEMMA NowIsRight ==
  ASSUME finished \in Nat, VersionsRight
  PROVE  TimingNow \in Timed /\ TimingNow /= None /\ \A k \in 1..script.rev : TimingRight(TimingNow, k)
<1>1. script \in Version /\ script \in KnownVersions
  BY DEF VersionsRight, KnownVersions
<1>2. TimingNow \in Timed /\ TimingNow.rev = script.rev /\ TimingNow.next = script.automatic
  BY <1>1 DEF TimingNow, Version, Timed
<1>3. TimingNow /= None
  BY <1>2, TimingPanelAssumption DEF Timed
<1>4. ASSUME NEW k \in 1..script.rev PROVE TimingNow.rev \in k..script.rev
  BY <1>1, <1>2, <1>4 DEF Version
<1>5. \A v \in KnownVersions : v.rev = TimingNow.rev => TimingNow.next = v.automatic
  BY <1>1, <1>2 DEF VersionsRight
<1>6. QED
  BY <1>2, <1>3, <1>4, <1>5 DEF TimingRight

\* Timings that are asked for.
LEMMA AskedIsRight ==
  ASSUME finished \in Nat, VersionsRight, NEW k \in 1..script.rev, NEW q, q = NoTiming \/ KeptRight(q, k)
  PROVE  KeptRight([q EXCEPT !.reading = TimingNow], k)
<1>1. q \in Kept
  <2>1. NoTiming \in Kept
    BY DEF NoTiming, Kept
  <2>2. QED
    BY <2>1 DEF KeptRight
<1> DEFINE r == [q EXCEPT !.reading = TimingNow]
<1>2. r \in Kept /\ r.reading = TimingNow /\ r.data = q.data
  BY <1>1, NowIsRight DEF Kept
<1>3. r /= NoTiming
  BY <1>2, NowIsRight DEF NoTiming
<1>4. r.data /= None => TimingRight(r.data, k)
  BY <1>2 DEF KeptRight, NoTiming
<1>5. r.reading /= None => TimingRight(r.reading, k)
  BY <1>2, NowIsRight
<1> HIDE DEF r
<1>6. KeptRight(r, k)
  BY <1>2, <1>3, <1>4, <1>5 DEF KeptRight
<1>7. QED
  BY <1>6 DEF r

LEMMA AsksRight ==
  ASSUME finished \in Nat, VersionsRight, NEW ts, TimingsRight(ts), NEW k \in 1..script.rev
  PROVE  TimingsRight(Asks(ts, k)) /\ k \in DOMAIN Asks(ts, k) /\ DOMAIN ts \subseteq DOMAIN Asks(ts, k)
<1>1. DOMAIN Asks(ts, k) = DOMAIN ts \cup {k}
  BY DEF Asks
<1>2. ASSUME NEW j \in DOMAIN ts \cup {k} PROVE KeptRight(Asks(ts, k)[j], j)
  <2>1. CASE j /= k
    <3>1. Asks(ts, k)[j] = ts[j]
      BY <2>1 DEF Asks
    <3>2. QED
      BY <2>1, <3>1 DEF TimingsRight
  <2>2. CASE j = k /\ k \notin DOMAIN ts
    <3>1. Asks(ts, k)[j] = [NoTiming EXCEPT !.reading = TimingNow]
      BY <2>2 DEF Asks
    <3>2. QED
      BY <2>2, <3>1, AskedIsRight
  <2>3. CASE j = k /\ k \in DOMAIN ts
    <3>1. Asks(ts, k)[j] = ts[k] \/ Asks(ts, k)[j] = [ts[k] EXCEPT !.reading = TimingNow]
      BY <2>3 DEF Asks
    <3>2. KeptRight(ts[k], k)
      BY <2>3 DEF TimingsRight
    <3>3. KeptRight([ts[k] EXCEPT !.reading = TimingNow], k)
      BY <3>2, AskedIsRight
    <3>4. QED
      BY <2>3, <3>1, <3>2, <3>3
  <2>4. QED
    BY <1>2, <2>1, <2>2, <2>3
<1>3. DOMAIN Asks(ts, k) \subseteq 1..script.rev
  BY <1>1 DEF TimingsRight
<1>4. QED
  BY <1>1, <1>2, <1>3 DEF TimingsRight

LEMMA MountsRight ==
  ASSUME finished \in Nat, VersionsRight, NEW ts, TimingsRight(ts), NEW s \in KnownVersions
  PROVE  TimingsRight(Mounts(ts, s)) /\ TimingKey(s) \in DOMAIN Mounts(ts, s) /\ DOMAIN ts \subseteq DOMAIN Mounts(ts, s)
<1>1. TimingKey(s) \in 1..script.rev
  BY DEF VersionsRight, TimingKey
<1>2. Mounts(ts, s) = Asks(ts, TimingKey(s)) \/ (Mounts(ts, s) = ts /\ TimingKey(s) \in DOMAIN ts)
  BY DEF Mounts
<1>3. QED
  BY <1>1, <1>2, AsksRight

LEMMA InvalidatedRight == ASSUME TimingInv PROVE TimingsRight(Invalidated) /\ DOMAIN Invalidated = DOMAIN timings
<1>1. DOMAIN Invalidated = DOMAIN timings
  BY DEF Invalidated
<1>2. ASSUME NEW k \in DOMAIN timings PROVE KeptRight(Invalidated[k], k)
  <2>1. KeptRight(timings[k], k) /\ k \in 1..script.rev
    BY DEF TimingInv, TimingsRight
  <2>2. KeptRight([timings[k] EXCEPT !.reading = TimingNow], k)
    BY <2>1, AskedIsRight DEF TimingInv
  <2>3. Invalidated[k] = timings[k] \/ Invalidated[k] = [timings[k] EXCEPT !.reading = TimingNow]
    BY DEF Invalidated
  <2>4. QED
    BY <2>1, <2>2, <2>3
<1>3. QED
  BY <1>1, <1>2 DEF TimingInv, TimingsRight

\* Fewer versions known are as right as all of them.
LEMMA FewerKnown ==
  ASSUME VersionsRight, script' = script, KnownVersions' \subseteq KnownVersions
  PROVE  VersionsRight' /\ \A ts : TimingsRight(ts) => TimingsRight(ts)'
<1>1. VersionsRight'
  BY DEF VersionsRight
<1>2. ASSUME NEW t, NEW k, TimingRight(t, k) PROVE TimingRight(t, k)'
  BY <1>2 DEF TimingRight
<1>3. ASSUME NEW q, NEW k, KeptRight(q, k) PROVE KeptRight(q, k)'
  BY <1>2, <1>3 DEF KeptRight
<1>4. QED
  BY <1>1, <1>3 DEF TimingsRight

LEMMA TimingInitInv == TimingPanelInit => TimingInv
<1> SUFFICES ASSUME TimingPanelInit PROVE TimingInv
  OBVIOUS
<1>1. KnownVersions = {script} /\ script \in Version /\ script.rev = 1
  BY DEF TimingPanelInit, KnownVersions, Version
<1>2. VersionsRight /\ finished \in Nat
  BY <1>1, TimingPanelAssumption DEF VersionsRight, TimingPanelInit
<1>3. TimingsRight(timings) /\ (TimingObserved => TimingKey(cached) \in DOMAIN timings)
  <2>1. CASE script.automatic
    <3>1. timings = [k \in {1} |-> [NoTiming EXCEPT !.reading = TimingNow]]
      BY <2>1 DEF TimingPanelInit
    <3>2. 1 \in 1..script.rev /\ KeptRight([NoTiming EXCEPT !.reading = TimingNow], 1)
      BY <1>1, <1>2, AskedIsRight
    <3>3. cached = script
      BY DEF TimingPanelInit
    <3>4. QED
      BY <1>1, <3>1, <3>2, <3>3 DEF TimingsRight, TimingKey
  <2>2. CASE ~script.automatic
    <3>1. timings = <<>> /\ DOMAIN timings = {}
      BY <2>2 DEF TimingPanelInit
    <3>2. ~TimingObserved
      BY <2>2 DEF TimingPanelInit, TimingObserved, Observing, RowObserves, SectionObserves
    <3>3. QED
      BY <3>1, <3>2 DEF TimingsRight
  <2>3. QED
    BY <2>1, <2>2
<1>4. QED
  BY <1>2, <1>3 DEF TimingInv, TimingPanelInit

\* A version is saved, later than all that are known.
LEMMA SavesInv == ASSUME TimingInv, SaveHere \/ SaveElsewhere PROVE TimingInv'
<1>1. PICK a \in BOOLEAN : script' = [rev |-> script.rev + 1, automatic |-> a]
  BY DEF SaveHere, SaveElsewhere, Saves
<1>2. /\ script.rev < MaxRevisions /\ (saving' = saving \/ saving' = script')
      /\ UNCHANGED <<finished, cached, relisting, timings, section, row>>
  BY DEF SaveHere, SaveElsewhere, Saves
<1>3. script \in Version /\ script \in KnownVersions /\ script.rev \in Nat /\ MaxRevisions \in Nat
  BY TimingPanelAssumption DEF TimingInv, VersionsRight, KnownVersions, Version
<1>4. script' \in Version /\ script'.rev = script.rev + 1
  BY <1>1, <1>3 DEF Version
<1>5. KnownVersions' \subseteq KnownVersions \cup {script'}
  BY <1>2 DEF KnownVersions
<1>6. \A v \in KnownVersions : v.rev \in 1..script.rev /\ v.rev < script'.rev /\ v.rev \in 1..script'.rev
  BY <1>3, <1>4 DEF TimingInv, VersionsRight
<1>7. VersionsRight'
  <2>1. KnownVersions' \subseteq Version /\ script'.rev <= MaxRevisions
    BY <1>2, <1>3, <1>4, <1>5 DEF TimingInv, VersionsRight
  <2>2. \A v \in KnownVersions' : v.rev \in 1..script'.rev
    BY <1>3, <1>4, <1>5, <1>6
  <2>3. ASSUME NEW v \in KnownVersions', NEW w \in KnownVersions', v.rev = w.rev PROVE v.automatic = w.automatic
    <3>1. CASE v \in KnownVersions /\ w \in KnownVersions
      BY <2>3, <3>1 DEF TimingInv, VersionsRight
    <3>2. CASE v = script' \/ w = script'
      <4>1. v = w
        BY <1>3, <1>4, <1>5, <1>6, <2>3, <3>2
      <4>2. QED
        BY <4>1
    <3>3. QED
      BY <1>5, <3>1, <3>2
  <2>4. QED
    BY <2>1, <2>2, <2>3 DEF VersionsRight
<1>8. ASSUME NEW k \in DOMAIN timings PROVE KeptRight(timings[k], k)'
  <2>1. KeptRight(timings[k], k) /\ timings' = timings /\ k \in 1..script.rev
    BY <1>2 DEF TimingInv, TimingsRight
  <2>2. ASSUME NEW t, TimingRight(t, k) PROVE TimingRight(t, k)'
    <3>1. t.rev \in k..script.rev /\ t.rev \in k..script'.rev /\ t.rev < script'.rev
      BY <1>3, <1>4, <2>1, <2>2 DEF TimingRight
    <3>2. \A v \in KnownVersions' : v.rev = t.rev => v \in KnownVersions
      BY <1>5, <3>1
    <3>3. QED
      BY <2>2, <3>1, <3>2 DEF TimingRight
  <2>3. QED
    BY <2>1, <2>2 DEF KeptRight
<1>9. TimingsRight(timings)'
  <2>1. DOMAIN timings \subseteq 1..script'.rev
    BY <1>3, <1>4 DEF TimingInv, TimingsRight
  <2>2. QED
    BY <1>2, <1>8, <2>1 DEF TimingsRight
<1>10. (TimingObserved => TimingKey(cached) \in DOMAIN timings)'
  BY <1>2 DEF TimingInv, TimingObserved, Observing, RowObserves, SectionObserves, TimingKey
<1>11. QED
  BY <1>2, <1>7, <1>9, <1>10 DEF TimingInv

\* The list has a version that was known.
LEMMA ListsInv ==
  ASSUME TimingInv, NEW s \in KnownVersions, NEW ts, TimingsRight(ts), DOMAIN ts = DOMAIN timings, Lists(s, ts),
         saving' \in {saving, None}, relisting' \in {relisting, None}, UNCHANGED <<script, finished, section, row>>
  PROVE  TimingInv'
<1>1. cached' = s
  BY DEF Lists
<1>2. KnownVersions' \subseteq KnownVersions
  BY <1>1 DEF KnownVersions
<1>3. timings' = ts \/ timings' = Mounts(ts, s)
  BY DEF Lists
<1>4. TimingsRight(timings')
  BY <1>3, MountsRight DEF TimingInv
<1>5. VersionsRight' /\ TimingsRight(timings)'
  BY <1>2, <1>4, FewerKnown DEF TimingInv
<1>6. ASSUME TimingObserved' PROVE TimingKey(cached') \in DOMAIN timings'
  <2>1. Observing(s, section, row)
    BY <1>1, <1>6 DEF TimingObserved, Observing, RowObserves, SectionObserves
  <2>2. CASE TimingKey(s) /= TimingKey(cached) \/ ~TimingObserved
    BY <1>1, <2>1, <2>2, MountsRight DEF TimingInv, Lists
  <2>3. CASE TimingKey(s) = TimingKey(cached) /\ TimingObserved
    BY <1>1, <2>3 DEF TimingInv, Lists
  <2>4. QED
    BY <2>2, <2>3
<1>7. TimingKey(cached)' = TimingKey(cached')
  BY DEF TimingKey
<1>8. QED
  BY <1>5, <1>6, <1>7 DEF TimingInv

LEMMA AnsweredInv == ASSUME TimingInv, SaveAnswered \/ ListAnswered PROVE TimingInv'
<1>1. CASE SaveAnswered
  <2>1. saving \in KnownVersions
    BY <1>1 DEF SaveAnswered, KnownVersions
  <2>2. QED
    BY <1>1, <2>1, InvalidatedRight, ListsInv DEF SaveAnswered
<1>2. CASE ListAnswered
  <2>1. relisting \in KnownVersions /\ TimingsRight(timings)
    BY <1>2 DEF ListAnswered, KnownVersions, TimingInv
  <2>2. QED
    BY <1>2, <2>1, ListsInv DEF ListAnswered
<1>3. QED
  BY <1>1, <1>2

\* The server tells more, a reading of the list begins, or nothing happens.
LEMMA KnownStaysInv ==
  ASSUME TimingInv, KnownVersions' \subseteq KnownVersions, finished' \in Nat, section' \in {"source", "schedule"}, row' \in BOOLEAN,
         UNCHANGED <<script, cached>>, TimingsRight(timings'), TimingObserved' => TimingKey(cached) \in DOMAIN timings'
  PROVE  TimingInv'
<1>1. VersionsRight' /\ TimingsRight(timings)'
  BY FewerKnown DEF TimingInv
<1>2. QED
  BY <1>1 DEF TimingInv, TimingKey

LEMMA ElsewhereInv == ASSUME TimingInv, RunEnds \/ AskList \/ UNCHANGED timingVars PROVE TimingInv'
<1>1. /\ KnownVersions' \subseteq KnownVersions /\ UNCHANGED <<script, cached, timings, section, row>> /\ finished' \in {finished, finished + 1}
  BY DEF RunEnds, AskList, timingVars, KnownVersions
<1>2. TimingObserved' = TimingObserved
  BY <1>1 DEF TimingObserved, Observing, RowObserves, SectionObserves
<1>3. QED
  BY <1>1, <1>2, KnownStaysInv DEF TimingInv

\* A section or the row comes into sight, or goes.
LEMMA ShowsInv ==
  ASSUME TimingInv, NEW sec \in {"source", "schedule"}, NEW r \in BOOLEAN, Shows(sec, r)
  PROVE  TimingInv'
<1>1. section' = sec /\ row' = r /\ UNCHANGED <<script, finished, cached>> /\ KnownVersions' = KnownVersions
  BY DEF Shows, KnownVersions
<1>2. timings' = timings \/ timings' = Mounts(timings, cached)
  BY DEF Shows
<1>3. cached \in KnownVersions
  BY DEF KnownVersions
<1>4. TimingsRight(timings')
  BY <1>2, <1>3, MountsRight DEF TimingInv
<1>5. ASSUME TimingObserved' PROVE TimingKey(cached) \in DOMAIN timings'
  <2>1. RowObserves(cached, r) \/ SectionObserves(sec)
    BY <1>1, <1>5 DEF TimingObserved, Observing, RowObserves, SectionObserves
  <2>2. CASE timings' = Mounts(timings, cached)
    BY <1>3, <2>2, MountsRight DEF TimingInv
  <2>3. CASE RowObserves(cached, row) \/ SectionObserves(section)
    <3>1. TimingKey(cached) \in DOMAIN timings
      BY <2>3 DEF TimingInv, TimingObserved, Observing
    <3>2. QED
      BY <1>2, <1>3, <3>1, <2>2
  <2>4. QED
    BY <2>1, <2>2, <2>3 DEF Shows
<1>6. QED
  BY <1>1, <1>4, <1>5, KnownStaysInv DEF TimingInv

LEMMA GlancesInv == ASSUME TimingInv, ShowSection \/ SearchList PROVE TimingInv'
<1>1. CASE ShowSection
  BY <1>1, ShowsInv DEF ShowSection, TimingInv
<1>2. CASE SearchList
  <2>1. (~row) \in BOOLEAN
    OBVIOUS
  <2>2. QED
    BY <1>2, <2>1, ShowsInv DEF SearchList, TimingInv
<1>3. QED
  BY <1>1, <1>2

\* Readings of the timing
LEMMA TimingReadInv == ASSUME TimingInv, PollTiming \/ TimingArrives \/ TimingFails PROVE TimingInv'
<1>1. UNCHANGED <<script, finished, cached, section, row>> /\ KnownVersions' = KnownVersions
  BY DEF PollTiming, TimingArrives, TimingFails, KnownVersions
<1>2. TimingsRight(timings') /\ DOMAIN timings \subseteq DOMAIN timings'
  <2>1. CASE PollTiming
    <3>1. cached \in KnownVersions /\ timings' = Asks(timings, TimingKey(cached))
      BY <2>1 DEF PollTiming, KnownVersions
    <3>2. TimingKey(cached) \in 1..script.rev
      BY <3>1 DEF TimingInv, VersionsRight, TimingKey
    <3>3. QED
      BY <3>1, <3>2, AsksRight DEF TimingInv
  <2>2. CASE TimingArrives \/ TimingFails
    <3>1. PICK k \in DOMAIN timings :
            /\ timings[k].reading /= None
            /\ \/ timings' = [timings EXCEPT ![k] = [data |-> timings[k].reading, reading |-> None, failed |-> FALSE]]
               \/ timings' = [timings EXCEPT ![k].reading = None, ![k].failed = TRUE]
      BY <2>2 DEF TimingArrives, TimingFails
    <3>2. KeptRight(timings[k], k)
      BY DEF TimingInv, TimingsRight
    <3>3. KeptRight([data |-> timings[k].reading, reading |-> None, failed |-> FALSE], k)
      BY <3>1, <3>2 DEF KeptRight, Kept, NoTiming
    <3>4. KeptRight([timings[k] EXCEPT !.reading = None, !.failed = TRUE], k)
      BY <3>2 DEF KeptRight, Kept, NoTiming
    <3>5. DOMAIN timings' = DOMAIN timings /\ KeptRight(timings'[k], k) /\ \A j \in DOMAIN timings \ {k} : timings'[j] = timings[j]
      BY <3>1, <3>3, <3>4
    <3>6. QED
      BY <3>5 DEF TimingInv, TimingsRight
  <2>3. QED
    BY <2>1, <2>2
<1>3. TimingObserved' = TimingObserved
  BY <1>1 DEF TimingObserved, Observing, RowObserves, SectionObserves
<1>4. QED
  BY <1>1, <1>2, <1>3, KnownStaysInv DEF TimingInv

LEMMA TimingStepInv == TimingInv /\ [TimingPanelNext]_timingVars => TimingInv'
<1> SUFFICES ASSUME TimingInv, [TimingPanelNext]_timingVars PROVE TimingInv'
  OBVIOUS
<1>1. QED
  BY SavesInv, AnsweredInv, ElsewhereInv, GlancesInv, TimingReadInv DEF TimingPanelNext

LEMMA InvTiming == TimingInv => TimingOfScript
<1> SUFFICES ASSUME TimingInv PROVE TimingOfScript
  OBVIOUS
<1> DEFINE q == Timing(TimingKey(cached))
<1>1. cached \in KnownVersions /\ script \in KnownVersions /\ MaxRevisions \in Nat
  BY TimingPanelAssumption DEF KnownVersions
<1>2. /\ script.rev \in 1..MaxRevisions /\ cached.rev \in 1..script.rev
      /\ DOMAIN timings \subseteq 1..MaxRevisions
  BY <1>1 DEF TimingInv, VersionsRight, TimingsRight, Version
<1>3. TimingObserved => KeptRight(q, cached.rev)
  BY DEF TimingInv, TimingsRight, Timing, TimingKey
<1>4. TimingTypeOK
  BY <1>2, <1>3 DEF TimingTypeOK, TimingInv, KeptRight
<1>5. ASSUME TimingObserved, Told(q) \notin {"loading", "unavailable"}
      PROVE  q.data.rev >= cached.rev /\ (q.data.rev = cached.rev => (Told(q) = "time" <=> cached.automatic))
  <2>1. q.data /= None /\ (Told(q) = "time" <=> q.data.next)
    BY <1>5 DEF Told
  <2>2. q.data \in Timed /\ TimingRight(q.data, cached.rev)
    BY <1>3, <1>5, <2>1 DEF KeptRight, Kept
  <2>3. q.data.rev >= cached.rev
    BY <1>2, <2>2 DEF TimingRight
  <2>4. q.data.rev = cached.rev => q.data.next = cached.automatic
    BY <1>1, <2>2 DEF TimingRight
  <2>5. QED
    BY <2>1, <2>3, <2>4
<1>6. QED
  BY <1>4, <1>5 DEF TimingOfScript, NextOfSettings

(***************************************************************************)
(* Both                                                                     *)
(***************************************************************************)
\* However runs go on, lists fail and are read late, and ticks, filters and bulks are made
\* meanwhile, a bulk cancels only what was ticked; and in whatever order saves, lists and timings
\* are answered, the next run that is told is that of the settings beside it.
THEOREM PanelsRight == Spec => []PanelsTrue
<1>1. Init => QueueInv /\ TimingInv
  BY QueueInitInv, TimingInitInv DEF Init
<1>2. QueueInv /\ TimingInv /\ [Next]_partVars => QueueInv' /\ TimingInv'
  <2> SUFFICES ASSUME QueueInv, TimingInv, [Next]_partVars PROVE QueueInv' /\ TimingInv'
    OBVIOUS
  <2>1. [QueuePanelNext]_queueVars /\ [TimingPanelNext]_timingVars
    BY DEF Next, partVars
  <2>2. QED
    BY <2>1, QueueStepInv, TimingStepInv
<1>3. QueueInv /\ TimingInv => PanelsTrue
  BY InvBulk, InvTiming DEF PanelsTrue
<1>4. QED
  BY <1>1, <1>2, <1>3, PTL DEF Spec
=============================================================================
