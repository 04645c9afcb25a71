------------------------------ MODULE ShellCache ------------------------------
(***************************************************************************)
(* The service worker (public/sw.js): a cache per version of the worker,     *)
(* filled with the shell when it is installed and with what the pages fetch  *)
(* afterwards, used only when the network fails.                            *)
(*                                                                          *)
(* Contents are the release they come from.  Deployments replace the site,   *)
(* and sometimes the worker; writes to a cache end after the answer was      *)
(* given, in any order; a worker that was replaced may still be writing.     *)
(***************************************************************************)
EXTENDS Naturals, FiniteSets, Browser

CONSTANTS
  MaxReleases, \* bound: releases of the site
  MaxFetches   \* bound: requests of the pages

ASSUME ShellCacheAssumption == {MaxReleases, MaxFetches} \subseteq Nat

VARIABLES
  site, workerFile, \* on the server: the release, and the one its worker is of
  reachable,    \* whether the network works
  worker,       \* the active worker, None at first
  installing,   \* the one being installed, or None
  caches,       \* from the names of the caches to [made, has]: the order of creation, and
                \* from requests to what is kept
  shellOf,      \* from the workers installed to the release of their shell
  puts,         \* writes under way
  answer,       \* the last answer: [for, is]
  fetches       \* counter

shellVars == <<site, workerFile, reachable, worker, installing, caches, shellOf, puts, answer, fetches>>

Requests == {"shell", "picture", "api"}   \* /events/, a file beside it, /api/...

\* Instead of a release: not available offline; left to the network, with or without luck
Offline    == 0
Network    == MaxReleases + 1
NothingYet == [for |-> "none", is |-> Offline]

ShellCacheInit ==
  /\ site = 1 /\ workerFile = 1 /\ reachable = TRUE /\ worker = None /\ installing = None
  /\ caches = <<>> /\ shellOf = <<>> /\ puts = {} /\ answer = NothingYet /\ fetches = 0

(***************************************************************************)
(* The caches                                                               *)
(***************************************************************************)
\* With one more kept; those made before keep their order.
Keeping(kept, name, q, content) ==
  [made |-> IF name \in DOMAIN caches THEN caches[name].made ELSE Cardinality(DOMAIN caches) + 1,
   has  |-> [x \in DOMAIN kept \cup {q} |-> IF x = q THEN content ELSE kept[x]]]

\* Opening a cache makes it anew (mutant).
StoredAlone(name, q, content) ==
  [v \in DOMAIN caches \cup {name} |-> IF v = name THEN Keeping(<<>>, name, q, content) ELSE caches[v]]

\* caches.open and put: the cache is made anew if it is gone.
Stored(name, q, content) ==
  LET kept == IF name \in DOMAIN caches THEN caches[name].has ELSE <<>>
  IN [v \in DOMAIN caches \cup {name} |-> IF v = name THEN Keeping(kept, name, q, content) ELSE caches[v]]

\* caches.match: the first cache that has it
CachedOrOffline(q) ==
  LET hits == {v \in DOMAIN caches : q \in DOMAIN caches[v].has}
  IN IF hits = {} THEN Offline
     ELSE caches[CHOOSE v \in hits : \A u \in hits : caches[v].made <= caches[u].made].has[q]

\* Every request of the pages is handled (mutant).
HandledAll(q) == TRUE

\* The API is left to the network.
Handled(q) == q /= "api"

(***************************************************************************)
(* The worker                                                               *)
(***************************************************************************)
Deploy ==
  /\ site < MaxReleases /\ site' = site + 1 /\ workerFile' \in {workerFile, site'}
  /\ UNCHANGED <<reachable, worker, installing, caches, shellOf, puts, answer, fetches>>

SwitchNetwork ==
  /\ reachable' = ~reachable
  /\ UNCHANGED <<site, workerFile, worker, installing, caches, shellOf, puts, answer, fetches>>

\* A page has loaded and registers the worker the server has.
RegisterWorker ==
  /\ reachable /\ workerFile \notin {worker, installing} /\ installing' = workerFile
  /\ UNCHANGED <<site, workerFile, reachable, worker, caches, shellOf, puts, answer, fetches>>

\* install: all of the shell, or the worker is given up
InstallWorker ==
  /\ installing /= None /\ installing \notin DOMAIN shellOf
  /\ IF reachable
     THEN /\ caches' = Stored(installing, "shell", site) /\ installing' = installing
          /\ shellOf' = [w \in DOMAIN shellOf \cup {installing} |-> IF w = installing THEN site ELSE shellOf[w]]
     ELSE installing' = None /\ UNCHANGED <<caches, shellOf>>
  /\ UNCHANGED <<site, workerFile, reachable, worker, puts, answer, fetches>>

\* Every cache goes (mutant).
ActivateEmptying ==
  /\ installing /= None /\ installing \in DOMAIN shellOf
  /\ worker' = installing /\ installing' = None /\ caches' = <<>>
  /\ UNCHANGED <<site, workerFile, reachable, shellOf, puts, answer, fetches>>

\* activate, at once (skipWaiting): the caches of other versions go.
Activate ==
  /\ installing /= None /\ installing \in DOMAIN shellOf
  /\ worker' = installing /\ installing' = None
  /\ caches' = [v \in {installing} \cap DOMAIN caches |-> [made |-> 1, has |-> caches[v].has]]
  /\ UNCHANGED <<site, workerFile, reachable, shellOf, puts, answer, fetches>>

\* A page asks for q. A navigation is not kept, nor an answer that is an error.
FetchThroughWorker ==
  /\ worker /= None /\ fetches < MaxFetches /\ fetches' = fetches + 1
  /\ \E q \in Requests :
       \/ /\ reachable /\ answer' = [for |-> q, is |-> Network]
          /\ \/ puts' = puts
             \/ /\ Handled(q) /\ q /= "shell"
                /\ puts' = puts \cup {[cache |-> worker, request |-> q, content |-> site]}
       \/ /\ ~reachable /\ UNCHANGED puts
          /\ answer' = [for |-> q, is |-> IF Handled(q) THEN CachedOrOffline(q) ELSE Network]
  /\ UNCHANGED <<site, workerFile, reachable, worker, installing, caches, shellOf>>

PutEnds ==
  \E p \in puts :
    /\ puts' = puts \ {p} /\ caches' = Stored(p.cache, p.request, p.content)
    /\ UNCHANGED <<site, workerFile, reachable, worker, installing, shellOf, answer, fetches>>

ShellCacheNext ==
  \/ Deploy \/ SwitchNetwork \/ RegisterWorker \/ InstallWorker \/ Activate
  \/ FetchThroughWorker \/ PutEnds

ShellCacheSpec == ShellCacheInit /\ [][ShellCacheNext]_shellVars

(***************************************************************************)
(* Properties                                                               *)
(***************************************************************************)
\* Shape of the state; a worker that is active was installed, no two caches were made at
\* once, and what is kept is not newer than the site.
ShellCacheTypeOK ==
  /\ worker = None \/ worker \in DOMAIN shellOf
  /\ \A v, u \in DOMAIN caches : caches[v].made = caches[u].made => v = u
  /\ \A v \in DOMAIN caches, q \in Requests : q \in DOMAIN caches[v].has => caches[v].has[q] <= site

\* Once a worker is active, a navigation without the network always finds a shell, and
\* it is the one that came with this worker: neither the activation, nor a later
\* installation that fails or waits, nor a write of the worker before takes it away.
OfflineShell == worker /= None => CachedOrOffline("shell") = shellOf[worker]

\* The API is never answered from a cache: what a page shows of jobs is the server's
\* or an error.
ApiFromNetwork == answer.for = "api" => answer.is = Network

\* Without the network there is a shell, and never an answer of the API.
OfflineSafe == ShellCacheTypeOK /\ OfflineShell /\ ApiFromNetwork
=============================================================================
