-------------------------------- MODULE Notices --------------------------------
(***************************************************************************)
(* What the web application tells the user: failed requests and warnings     *)
(* (utils/errorNotifications.ts), finished actions (actionNotifications.ts), *)
(* who raises them (the handlers of queryClient.ts, useConnectivityStatus.ts) *)
(* and where they are seen and dismissed (ErrorToasts.tsx,                   *)
(* WarningIndicator.tsx, the recovery page of StatePage.tsx).                *)
(*                                                                          *)
(* A message is known by the failure it words: two sources with the same     *)
(* failure share one notification.  Every entry and every notice bears the   *)
(* number of the event that made it; the six-second timers, all of one       *)
(* length, go off in the order they were set.                               *)
(***************************************************************************)
EXTENDS Naturals, Sequences, FiniteSets, Browser

CONSTANTS
  PlainQueries, \* queries whose failures are notified
  PageQueries,  \* queries whose page shows the expected failures (meta.pageError)
  Codes,        \* ways a request fails: "conn" or a status
  MaxEvents     \* bound: answers and finished actions

FailureCodes == {"conn", "401", "403", "404", "422", "429", "500"}

\* What fetchWithAuth says of a failure
Wording == [c \in FailureCodes |->
  CASE c = "conn" -> "unable to connect" [] c = "500" -> "server could not complete"
    [] c = "401" -> "session expired"    [] c = "403" -> "no permission"
    [] OTHER -> "as the server says"]

ASSUME NoticesAssumption ==
  /\ PlainQueries \cap PageQueries = {} /\ MaxEvents \in Nat /\ Codes \subseteq FailureCodes
  /\ \A c \in FailureCodes : Wording[c] \notin PlainQueries \cup PageQueries
  /\ None \notin [what: FailureCodes \cup {"fine", "warned"}, at: Nat]

VARIABLES
  tries,     \* for each query, the attempt under way, 0 when idle
  outcome,   \* for each query, its last answer: None, "fine", "warned" or a code
  sources,   \* from a source to its entries
  hidden,    \* messages whose toast was dismissed
  actions,   \* the notices of finished actions, in the order of their numbers
  timers,    \* timers set, in order: what they remove
  connected, \* what both uses of useConnectivityStatus last heard
  checking,  \* queries Check again waits for
  events,    \* counter, and number of the last event
  waived     \* history: the numbers of what was dismissed, cleared or timed out

noticeVars == <<tries, outcome, sources, hidden, actions, timers, connected, checking, events, waived>>

AllQueries == PlainQueries \cup PageQueries

Warning == "stale data"

\* RequestErrorPage
RecoveryPage(c) ==
  CASE c = "403" -> "access" [] c = "404" -> "missing"
    [] c = "401" -> "session" [] c = "422" -> "invalid" [] OTHER -> "general"

NoticesInit ==
  /\ tries = [q \in AllQueries |-> 0] /\ outcome = [q \in AllQueries |-> None]
  /\ sources = <<>> /\ hidden = {} /\ actions = {} /\ timers = <<>>
  /\ connected = TRUE /\ checking = {} /\ events = 0 /\ waived = {}

(***************************************************************************)
(* The store                                                                *)
(***************************************************************************)
Entries(src)  == UNION {src[s] : s \in DOMAIN src}
Messages(src) == {e.message : e \in Entries(src)}
Kind(m)       == IF \E e \in Entries(sources) : e.message = m /\ e.kind = "error" THEN "error" ELSE "warning"
Retries(m)    == {s \in DOMAIN sources \cap AllQueries : \E e \in sources[s] : e.message = m}

\* A dismissed toast stays dismissed (mutant).
UpdateKeepsHidden(src, dismissed) == sources' = src /\ hidden' = dismissed

\* update: nothing is remembered of a message that is gone.
Update(src, dismissed) == sources' = src /\ hidden' = dismissed \cap Messages(src)

Put(s, entries) ==
  IF entries = {} THEN [x \in DOMAIN sources \ {s} |-> sources[x]]
  ELSE [x \in DOMAIN sources \cup {s} |-> IF x = s THEN entries ELSE sources[x]]

Without(gone) ==
  LET left == [s \in DOMAIN sources |-> sources[s] \ gone]
  IN [s \in {x \in DOMAIN sources : left[x] /= {}} |-> left[s]]

Entry(m, k) == [message |-> m, kind |-> k, at |-> events + 1]

\* A source that already failed keeps its timer (mutant).
NotifyErrorOnce(s, m) ==
  /\ Update(Put(s, {Entry(m, "error")}), hidden)
  /\ timers' = IF s \in DOMAIN sources THEN timers ELSE Append(timers, [source |-> s, at |-> events + 1])

NotifyError(s, m) ==
  /\ Update(Put(s, {Entry(m, "error")}), hidden)
  /\ timers' = Append(timers, [source |-> s, at |-> events + 1])

ReportWarnings(s, warned) == Update(Put(s, IF warned THEN {Entry(Warning, "warning")} ELSE {}), hidden)

\* Every notice is added (mutant).
NoticedTwice(notices, m) == notices \cup {[message |-> m, at |-> events + 1]}

\* notifySuccess: the older notice with the same message goes.
Noticed(notices, m) == {n \in notices : n.message /= m} \cup {[message |-> m, at |-> events + 1]}

(***************************************************************************)
(* Queries and writes                                                       *)
(***************************************************************************)
Occurs == events < MaxEvents /\ events' = events + 1

Fetch(q) ==
  /\ tries[q] = 0 /\ tries' = [tries EXCEPT ![q] = 1]
  /\ UNCHANGED <<outcome, sources, hidden, actions, timers, connected, checking, events, waived>>

\* Once more, unless the server refused
Retried(q, c) == tries[q] = 1 /\ c \in {"conn", "500"}

AttemptFails(q, c) ==
  /\ tries[q] = 1 /\ Retried(q, c) /\ tries' = [tries EXCEPT ![q] = 2]
  /\ UNCHANGED <<outcome, sources, hidden, actions, timers, connected, checking, events, waived>>

\* The page says so itself
OnItsPage(q, c) == q \in PageQueries /\ c \in {"401", "403", "404", "422"}

Done(q, o) ==
  /\ Occurs /\ tries[q] > 0 /\ tries' = [tries EXCEPT ![q] = 0]
  /\ outcome' = [outcome EXCEPT ![q] = [what |-> o, at |-> events + 1]]
  /\ checking' = checking \ {q} /\ UNCHANGED <<actions, connected, waived>>

QueryFails(q, c) ==
  /\ Done(q, c) /\ ~Retried(q, c)
  /\ IF OnItsPage(q, c) THEN UNCHANGED <<sources, hidden, timers>> ELSE NotifyError(q, Wording[c])

QuerySucceeds(q) ==
  \E warned \in BOOLEAN :
    /\ Done(q, IF warned THEN "warned" ELSE "fine")
    /\ ReportWarnings(q, warned) /\ UNCHANGED timers

\* A write is never tried again. What it failed with is a source of its own.
WriteFails(c) ==
  /\ Occurs /\ NotifyError(Wording[c], Wording[c])
  /\ UNCHANGED <<tries, outcome, actions, connected, checking, waived>>

WriteSucceeds ==
  /\ Occurs /\ actions' = Noticed(actions, "saved")
  /\ timers' = Append(timers, [source |-> None, at |-> events + 1])
  /\ UNCHANGED <<tries, outcome, sources, hidden, connected, checking, waived>>

(***************************************************************************)
(* Timers                                                                   *)
(***************************************************************************)
\* The timer removes whatever error its source says now (mutant).
ExpireAnyway ==
  /\ timers /= <<>> /\ timers' = Tail(timers) /\ waived' = waived \cup {Head(timers).at}
  /\ LET t == Head(timers) IN
       /\ actions' = {n \in actions : n.at /= t.at}
       /\ IF t.source \in DOMAIN sources /\ \E e \in sources[t.source] : e.kind = "error"
          THEN Update(Put(t.source, {}), hidden) ELSE UNCHANGED <<sources, hidden>>
  /\ UNCHANGED <<tries, outcome, connected, checking, events>>

\* The first timer goes off: of an entry, if its source still says it, or of a notice.
Expire ==
  /\ timers /= <<>> /\ timers' = Tail(timers) /\ waived' = waived \cup {Head(timers).at}
  /\ LET t == Head(timers) IN
       /\ actions' = {n \in actions : n.at /= t.at}
       /\ IF t.source \in DOMAIN sources /\ \E e \in sources[t.source] : e.at = t.at
          THEN Update(Put(t.source, {}), hidden) ELSE UNCHANGED <<sources, hidden>>
  /\ UNCHANGED <<tries, outcome, connected, checking, events>>

(***************************************************************************)
(* The user and the network                                                 *)
(***************************************************************************)
Numbers(m) == {e.at : e \in {x \in Entries(sources) : x.message = m}}

Toasts == {m \in Messages(sources) : Kind(m) = "error" /\ m \notin hidden}

DismissToast ==
  /\ \E m \in Toasts : Update(sources, hidden \cup {m})
  /\ UNCHANGED <<tries, outcome, actions, timers, connected, checking, events, waived>>

\* The toast's button, which leaves Check again alone
TryAgain ==
  /\ \E m \in Toasts : Retries(m) /= {} /\ tries' = [q \in AllQueries |-> IF q \in Retries(m) /\ tries[q] = 0 THEN 1 ELSE tries[q]]
  /\ UNCHANGED <<outcome, sources, hidden, actions, timers, connected, checking, events, waived>>

DismissError ==
  /\ \E m \in Messages(sources) :
       /\ Update(Without({e \in Entries(sources) : e.message = m}), hidden)
       /\ waived' = waived \cup Numbers(m)
  /\ UNCHANGED <<tries, outcome, actions, timers, connected, checking, events>>

CheckAgain ==
  /\ checking = {} /\ UNION {Retries(m) : m \in Messages(sources)} /= {}
  /\ checking' = UNION {Retries(m) : m \in Messages(sources)}
  /\ tries' = [q \in AllQueries |-> IF q \in checking' /\ tries[q] = 0 THEN 1 ELSE tries[q]]
  /\ UNCHANGED <<outcome, sources, hidden, actions, timers, connected, events, waived>>

DismissAction ==
  /\ \E a \in actions :
       /\ actions' = {n \in actions : n.at /= a.at}
       /\ waived' = waived \cup {a.at}
  /\ UNCHANGED <<tries, outcome, sources, hidden, timers, connected, checking, events>>

GoOffline ==
  /\ connected /\ connected' = FALSE
  /\ UNCHANGED <<tries, outcome, sources, hidden, actions, timers, checking, events, waived>>

\* Everything told before goes (mutant).
GoOnlineClearsAll ==
  /\ Occurs /\ ~connected /\ connected' = TRUE /\ Update(<<>>, hidden)
  /\ waived' = waived \cup {e.at : e \in {x \in Entries(sources) : x.kind = "error"}}
  /\ actions' = Noticed(Noticed(actions, "restored"), "restored")
  /\ timers' = Append(timers, [source |-> None, at |-> events + 1])
  /\ UNCHANGED <<tries, outcome, checking>>

\* Errors go and warnings stay. Both uses of the hook say so; the second notice
\* replaces the first.
GoOnline ==
  /\ Occurs /\ ~connected /\ connected' = TRUE
  /\ Update(Without({e \in Entries(sources) : e.kind = "error"}), hidden)
  /\ waived' = waived \cup {e.at : e \in {x \in Entries(sources) : x.kind = "error"}}
  /\ actions' = Noticed(Noticed(actions, "restored"), "restored")
  /\ timers' = Append(timers, [source |-> None, at |-> events + 1])
  /\ UNCHANGED <<tries, outcome, checking>>

NoticesNext ==
  \/ \E q \in AllQueries : Fetch(q) \/ QuerySucceeds(q)
  \/ \E q \in AllQueries, c \in Codes : AttemptFails(q, c) \/ QueryFails(q, c)
  \/ \E c \in Codes : WriteFails(c)
  \/ WriteSucceeds \/ Expire
  \/ DismissToast \/ TryAgain \/ DismissError \/ CheckAgain \/ DismissAction
  \/ GoOffline \/ GoOnline

\* Timers go off, and requests are answered.
AnswerOf(q) == QuerySucceeds(q) \/ \E c \in Codes : QueryFails(q, c)
NoticesFairness == WF_noticeVars(Expire) /\ \A q \in AllQueries : WF_noticeVars(AnswerOf(q))

NoticesSpec == NoticesInit /\ [][NoticesNext]_noticeVars /\ NoticesFairness

(***************************************************************************)
(* Properties                                                               *)
(***************************************************************************)
\* Shape of the state; no notice is shown twice, and an error that is shown is the
\* last word of its source: that of a query is gone once the query succeeds.
NoticesTypeOK ==
  /\ \A q \in AllQueries : tries[q] \in 0..2
  /\ \A s \in DOMAIN sources : sources[s] /= {} /\ Cardinality(sources[s]) = 1
  /\ \A a, b \in actions : a.message = b.message => a = b
  /\ \A q \in DOMAIN sources \cap AllQueries, c \in Codes :
       \A e \in sources[q] : e.message = Wording[c] /\ e.kind = "error" =>
          outcome[q] /= None /\ outcome[q].what \notin {"fine", "warned"}

\* No failure goes untold because of another: whatever else recovers, expires or is
\* dismissed, the last failure of a query is notified, or is what its page says,
\* until it is dismissed, cleared by the reconnection, or six seconds old.
FailureIsTold ==
  \A q \in AllQueries :
    outcome[q] /= None =>
      (outcome[q].what \in Codes /\ outcome[q].at \notin waived =>
         \/ Wording[outcome[q].what] \in Messages(sources)
         \/ OnItsPage(q, outcome[q].what) /\ RecoveryPage(outcome[q].what) /= "general")

\* A warning stays as long as it is true of the last answer, unless it is dismissed:
\* neither a timer nor the reconnection takes it away (clearErrorToasts).
WarningStays ==
  \A q \in AllQueries :
    outcome[q] /= None =>
      (outcome[q].what = "warned" /\ outcome[q].at \notin waived => Warning \in Messages(sources))

\* A toast that was dismissed does not hide a later failure: what is told anew is
\* told with a toast.  A message that some source is telling already stays without one
\* once it was dismissed (hiddenToasts is by message).
FreshFailureHasToast ==
  [][\A m \in Messages(sources') : m \notin Messages(sources) => m \notin hidden']_noticeVars

\* The user is not left with old failures: errors and notices go away by themselves.
ErrorsExpire ==
  <>[]((\A m \in Messages(sources) : Kind(m) = "warning") /\ actions = {})

\* A failure is told, and warnings stay as long as their cause.
FailuresTold == NoticesTypeOK /\ FailureIsTold /\ WarningStays
=============================================================================
