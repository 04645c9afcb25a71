--------------------------- MODULE ScriptsWorkspace ---------------------------
(***************************************************************************)
(* The jobs page of one office (ScriptsWorkspace.tsx): the cached list of    *)
(* scripts, the selected one with its editor, the modals that create and     *)
(* import, and the writes under way, beside other administrators.            *)
(*                                                                          *)
(* What a script says is a text: a pair of the form it was typed in and a    *)
(* number.  ScriptForm has the fields, the validation and the switch's       *)
(* timer, which moving to another script or mode clears.                     *)
(***************************************************************************)
EXTENDS Naturals, FiniteSets, Browser

CONSTANTS
  Ids,        \* scripts that may come to exist in the office
  Saved,      \* those that exist at first
  Free,       \* on the server: not created yet
  Deleted,    \* on the server: deleted
  Files,      \* backups: of scripts of the office, or "foreign"
  MaxTexts,   \* bound: texts typed
  MaxOutside, \* bound: failed readings, others' writes, links and visits elsewhere
  MaxCalls    \* bound: writes sent by the page

\* The forms, and what their scripts may say
Keys  == Ids \cup {"new"}
Texts == (Keys \cup {"import"}) \X (0..(MaxTexts + 1))

ASSUME WorkspaceAssumption ==
  /\ Saved \subseteq Ids /\ Saved /= {}
  /\ Files \subseteq Ids \cup {"foreign"}
  /\ Ids \cap {None, "new", "import"} = {} /\ None /= "new"
  /\ Texts \cap {None, Free, Deleted} = {} /\ Free /= Deleted /\ Deleted /= None
  /\ None \notin [key: Keys, text: Texts]
  /\ MaxTexts \in Nat /\ MaxOutside \in Nat /\ MaxCalls \in Nat

VARIABLES
  server,    \* the office's scripts
  list,      \* the cached list: from the ids in it to their texts
  failed,    \* the last reading of the list failed: the page is an error
  fetch,     \* a reading of the list under way: what the server read, or None
  selected,  \* selectedScriptId
  mode,      \* panelMode
  form,      \* the mounted editor of the panel: its key and text
  creating,  \* the create modal is open
  created,   \* the text of the mounted editor of that modal
  importer,  \* the import modal: its file and choice, None when closed
  drafts,    \* the drafts in storage, by form key
  calls,     \* writes under way
  typed, outside, made    \* counters

workspaceVars == <<server, list, failed, fetch, selected, mode, form,
                   creating, created, importer, drafts, calls, typed, outside, made>>

Empty == <<"new", 0>>
Theirs(s) == <<s, MaxTexts + 1>>

Exists(s) == server[s] \in Texts
OnServer  == [s \in {i \in Ids : Exists(i)} |-> server[s]]

Ready    == ~failed
Listed(s) == s \in DOMAIN list

WorkspaceInit ==
  /\ server = [s \in Ids |-> IF s \in Saved THEN <<s, 0>> ELSE Free]
  /\ \E S \in SUBSET Saved : list = [s \in S |-> <<s, 0>>]
  /\ failed = FALSE /\ fetch = None
  /\ selected = None /\ mode = "view" /\ form = None
  /\ creating = FALSE /\ created = None /\ importer = None
  /\ drafts = [k \in Keys |-> None] /\ calls = {}
  /\ typed = 0 /\ outside = 0 /\ made = 0

(***************************************************************************)
(* Rendering: which editors are mounted after a step                        *)
(***************************************************************************)
Key(l, s) == IF s \in DOMAIN l THEN s ELSE "new"

\* The editor opens with the saved script whatever draft there is (mutant).
OpenedAfresh(k, l, d) == IF k \in DOMAIN l THEN l[k] ELSE Empty

\* readDraft
Opened(k, l, d) ==
  IF d[k] /= None THEN d[k] ELSE IF k \in DOMAIN l THEN l[k] ELSE Empty

CreatedEditor ==
  IF ~creating' \/ failed' THEN None
  ELSE IF created /= None THEN created ELSE Opened("new", <<>>, drafts')

\* One editor for whatever script is selected (mutant).
RenderUnkeyed(mounted) ==
  LET k == Key(list', selected')
  IN /\ form' =
          IF mode' = "view" \/ failed' \/ DOMAIN list' = {} THEN None
          ELSE [key |-> k, text |-> IF form /= None THEN form.text ELSE Opened(k, list', drafts')]
     /\ created' = CreatedEditor

\* An editor that is mounted stays while its key is the same.
Render(mounted) ==
  LET k == Key(list', selected')
  IN /\ form' =
          IF mode' = "view" \/ failed' \/ DOMAIN list' = {} THEN None
          ELSE IF mounted /= None /\ mounted.key = k THEN mounted
          ELSE [key |-> k, text |-> Opened(k, list', drafts')]
     /\ created' = CreatedEditor

(***************************************************************************)
(* The list                                                                 *)
(***************************************************************************)
Page == <<selected, mode, creating, importer>>

Outside == outside < MaxOutside /\ outside' = outside + 1

\* On entering the page, on reconnecting, after an import, from the retry of an
\* error notification: the step is the one in which the server reads.
Refetch ==
  /\ fetch = None /\ fetch' = OnServer
  /\ UNCHANGED <<server, list, failed, form, created, drafts, calls, typed, outside, made>>
  /\ UNCHANGED Page

\* What was read replaces the list, with what was written to it meanwhile.
ListArrives ==
  /\ fetch /= None
  /\ list' = fetch /\ failed' = FALSE /\ fetch' = None
  /\ UNCHANGED <<server, drafts, calls, typed, outside, made>>
  /\ UNCHANGED Page /\ Render(form)

\* The whole page, editors included, is replaced by a message.
ListFails ==
  /\ fetch /= None /\ fetch' = None /\ failed' = TRUE /\ Outside
  /\ UNCHANGED <<server, list, drafts, calls, typed, made>>
  /\ UNCHANGED Page /\ Render(form)

OthersWrite ==
  /\ Outside
  /\ \E s \in Ids : Exists(s) /\ \E t \in {Theirs(s), Deleted} :
       server' = [server EXCEPT ![s] = t]
  /\ UNCHANGED <<list, failed, fetch, form, created, drafts, calls, typed, made>>
  /\ UNCHANGED Page

(***************************************************************************)
(* Selecting and editing                                                    *)
(***************************************************************************)
Waiting == \E c \in calls : c.watched /\ c.op /= "import"
\* No modal hides the page.
Clickable == Ready /\ ~creating /\ importer = None
\* The rows of the list with their buttons: Run job, Runs and Edit
Row(s) == Clickable /\ Listed(s)
Static == UNCHANGED <<server, list, failed, fetch>>
Quiet == Static /\ UNCHANGED outside

SelectListed ==
  /\ \E s \in Ids : Row(s) /\ selected' = s
  /\ mode' = "view"
  /\ UNCHANGED <<creating, importer, drafts, calls, typed, made>> /\ Quiet /\ Render(form)

\* onEdit resets the mutations: what is under way is no longer waited for.
Forgotten == {[c EXCEPT !.watched = @ /\ c.op = "import"] : c \in calls}

\* From a row of the list or from the panel.
Edit ==
  /\ \E s \in Ids : Row(s) /\ selected' = s
  /\ mode' = "edit" /\ calls' = Forgotten
  /\ UNCHANGED <<creating, importer, drafts, typed, made>> /\ Quiet
  /\ Render(None)

\* An edit link or the browser's history, at any time, for any script.
RouteEdit ==
  /\ \E s \in Ids : selected' = s
  /\ mode' = "edit"
  /\ UNCHANGED <<creating, importer, drafts, calls, typed, made>> /\ Static /\ Outside
  /\ Render(IF Listed(selected') THEN None ELSE form)

CancelEdit ==
  /\ Clickable /\ form /= None /\ ~Waiting
  /\ mode' = "view"
  /\ UNCHANGED <<selected, creating, importer, drafts, calls, typed, made>> /\ Quiet /\ Render(form)

TypeText ==
  /\ Clickable /\ form /= None /\ ~Waiting /\ typed < MaxTexts
  /\ LET t == <<form.key, typed + 1>>
     IN form' = [form EXCEPT !.text = t] /\ drafts' = [drafts EXCEPT ![form.key] = t]
  /\ typed' = typed + 1
  /\ UNCHANGED <<created, calls, made>> /\ UNCHANGED Page /\ Quiet

ClearEditor ==
  /\ Clickable /\ form /= None /\ ~Waiting
  /\ drafts' = [drafts EXCEPT ![form.key] = None]
  /\ form' = [form EXCEPT !.text = Opened(form.key, list, drafts')]
  /\ UNCHANGED <<created, calls, typed, made>> /\ UNCHANGED Page /\ Quiet

\* Another page, another office, and back: the component's state is new, the
\* list may be read again and what is under way goes on unobserved.
Revisit ==
  /\ selected' = None /\ mode' = "view" /\ creating' = FALSE /\ importer' = None
  /\ calls' = {[c EXCEPT !.watched = FALSE, !.here = FALSE] : c \in calls}
  /\ UNCHANGED <<drafts, typed, made>> /\ Static /\ Outside /\ Render(form)

(***************************************************************************)
(* Writes                                                                   *)
(***************************************************************************)
\* The script that the import modal shows as the match of its file
Existing == importer.file \in DOMAIN list

\* What it does, the script it is for, the editor it comes from, what it says,
\* and for an import whether it must create; beside them what was chosen for a
\* match, whether the page waits for it and whether it is still the one that sent it.
Send(op, script, from, text, createNew) ==
  /\ made < MaxCalls /\ made' = made + 1
  /\ calls' = calls \cup {[op |-> op, script |-> script, from |-> from, text |-> text,
                           createNew |-> createNew, got |-> None, id |-> made,
                           choice |-> IF op = "import" /\ Existing THEN importer.choice
                                      ELSE None,
                           watched |-> op /= "upgrade", here |-> TRUE]}

Unsent == /\ UNCHANGED <<form, created, drafts, typed>> /\ Quiet

\* onSave; ScriptForm drops the draft once it is done.
SaveEditor ==
  /\ Clickable /\ form /= None /\ ~Waiting /\ selected /= None
  /\ Send("put", selected, form.key, form.text, FALSE)
  /\ UNCHANGED Page /\ Unsent

\* onScheduleToggle: the cached script once more.
Toggle ==
  /\ Clickable /\ mode = "view" /\ Listed(selected) /\ ~Waiting
  /\ Send("put", selected, None, list[selected], FALSE)
  /\ UNCHANGED Page /\ Unsent

\* The button of the editor, which a save under way does not disable.
Delete ==
  /\ Clickable /\ form /= None /\ Listed(selected)
  /\ Send("delete", selected, None, None, FALSE)
  /\ UNCHANGED Page /\ Unsent

Upgrade ==
  /\ Clickable /\ mode = "view" /\ Listed(selected)
  /\ Send("upgrade", selected, None, None, FALSE)
  /\ UNCHANGED Page /\ Unsent

New ==
  /\ Clickable /\ creating' = TRUE
  /\ calls' = {IF c.op = "create" THEN [c EXCEPT !.watched = FALSE] ELSE c : c \in calls}
  /\ UNCHANGED <<selected, mode, importer, drafts, typed, made>> /\ Quiet /\ Render(form)

CreateWaiting == \E c \in calls : c.op = "create" /\ c.watched

TypeNew ==
  /\ created /= None /\ ~CreateWaiting /\ typed < MaxTexts
  /\ created' = <<"new", typed + 1>> /\ drafts' = [drafts EXCEPT !["new"] = created']
  /\ typed' = typed + 1
  /\ UNCHANGED <<form, calls, made>> /\ UNCHANGED Page /\ Quiet

Create ==
  /\ created /= None /\ ~CreateWaiting
  /\ Send("create", None, "new", created, FALSE)
  /\ UNCHANGED Page /\ Unsent

\* The modal closes while its script is being created (mutant).
CancelAnyCreate ==
  /\ creating /\ creating' = FALSE
  /\ UNCHANGED <<selected, mode, importer, drafts, calls, typed, made>> /\ Quiet /\ Render(form)

CancelCreate ==
  /\ creating /\ ~CreateWaiting /\ creating' = FALSE
  /\ UNCHANGED <<selected, mode, importer, drafts, calls, typed, made>> /\ Quiet /\ Render(form)

(***************************************************************************)
(* The import modal                                                         *)
(***************************************************************************)
Unpended(cs) == {IF c.op = "import" THEN [c EXCEPT !.watched = FALSE] ELSE c : c \in cs}

OnlyImporter ==
  UNCHANGED <<selected, mode, creating, form, created, drafts, typed, made>> /\ Quiet

\* The file is the backup of a script of this office or of another one.  It can
\* be put away for another one, even while it is being imported.
ReadFile ==
  /\ IF importer = None THEN Clickable ELSE Ready
  /\ \E f \in Files : importer' = [file |-> f, choice |-> None]
  /\ calls' = Unpended(calls) /\ OnlyImporter

ChooseImport ==
  /\ Ready /\ importer /= None
  /\ \E c \in {"update", "new", None} \ {importer.choice} :
       /\ c /= None => Existing
       /\ importer' = [importer EXCEPT !.choice = c]
  /\ calls' = calls /\ OnlyImporter

\* The modal closes even while an import is under way.
CloseImport ==
  /\ Ready /\ importer /= None /\ importer' = None
  /\ calls' = Unpended(calls) /\ OnlyImporter

Importing == \E c \in calls : c.op = "import" /\ c.watched

\* An import never asks for a new configuration (mutant).
ApplyImportPlainly ==
  /\ Ready /\ importer /= None /\ ~Importing
  /\ Existing => importer.choice /= None
  /\ Send("import", importer.file, None, <<"import", 0>>, FALSE)
  /\ UNCHANGED Page /\ Unsent

\* apply: "createNew" is sent if a new one is wanted beside one in the list.
ApplyImport ==
  /\ Ready /\ importer /= None /\ ~Importing
  /\ Existing => importer.choice /= None
  /\ Send("import", importer.file, None, <<"import", 0>>, Existing /\ importer.choice = "new")
  /\ UNCHANGED Page /\ Unsent

(***************************************************************************)
(* Answers                                                                  *)
(***************************************************************************)
\* The server carries out a call and reads back the script.  An import finds
\* its match by the package's key, unless it is told to create.
ServerWrites ==
  /\ \E c \in calls :
       /\ c.got = None
       /\ \E s \in Ids :
            LET adds == /\ server[s] = Free
                        /\ \/ c.op = "create"
                           \/ c.op = "import" /\ (c.createNew \/ c.script \notin DOMAIN OnServer)
                changes == /\ s = c.script /\ Exists(s)
                           /\ \/ c.op \in {"put", "delete", "upgrade"}
                              \/ c.op = "import" /\ ~c.createNew
                text == IF c.op = "delete" THEN Deleted
                        ELSE IF c.op = "upgrade" THEN server[s] ELSE c.text
            IN /\ adds \/ changes
               /\ server' = [server EXCEPT ![s] = text]
               /\ calls' = (calls \ {c}) \cup {[c EXCEPT !.got = text, !.script = s]}
  /\ UNCHANGED <<list, failed, fetch, form, created, drafts, typed, outside, made>>
  /\ UNCHANGED Page

\* setQueryData, which also ends the error of an earlier reading
Cache(l) == list' = l /\ failed' = FALSE

\* A script that is answered and not listed is added (mutant).
ReplacedOrAdded(c) ==
  [s \in DOMAIN list \cup {c.script} |-> IF s = c.script THEN c.got ELSE list[s]]

Replaced(c) == [s \in DOMAIN list |-> IF s = c.script THEN c.got ELSE list[s]]

Added(c) ==
  [s \in DOMAIN list \cup {c.script} |-> IF s = c.script THEN c.got ELSE list[s]]

Removed(c) == [s \in DOMAIN list \ {c.script} |-> list[s]]

\* What is left; with an import the modal is ready for the next one.
Without(c) == IF c.op = "import" /\ c.here THEN Unpended(calls \ {c}) ELSE calls \ {c}

Answered(c) ==
  /\ c \in calls /\ c.got /= None /\ calls' = Without(c)
  /\ UNCHANGED <<server, typed, outside, made>>

\* The editor closes and its draft goes, whichever script is edited by now.
PutAnswered ==
  /\ \E c \in calls :
       /\ c.op = "put" /\ Answered(c) /\ Cache(Replaced(c))
       /\ drafts' = IF c.from = None THEN drafts ELSE [drafts EXCEPT ![c.from] = None]
       /\ mode' = IF c.from /= None /\ c.here THEN "view" ELSE mode
  /\ UNCHANGED <<fetch, selected, creating, importer>> /\ Render(form)

UpgradeAnswered ==
  /\ \E c \in calls : c.op = "upgrade" /\ Answered(c) /\ Cache(Replaced(c))
  /\ UNCHANGED <<fetch, drafts>> /\ UNCHANGED Page /\ Render(form)

CreateAnswered ==
  /\ \E c \in calls :
       /\ c.op = "create" /\ Answered(c)
       /\ Cache(Added(c))
       /\ drafts' = [drafts EXCEPT !["new"] = None]
       /\ IF c.here
          THEN selected' = c.script /\ mode' = "view" /\ creating' = FALSE
          ELSE UNCHANGED <<selected, mode, creating>>
  /\ UNCHANGED <<fetch, importer>> /\ Render(form)

\* The list keeps what the server answers for a deleted script (mutant).
DeleteAnsweredKeeping ==
  /\ \E c \in calls :
       /\ c.op = "delete" /\ Answered(c) /\ Cache(Replaced(c))
       /\ IF c.here THEN selected' = None /\ mode' = "view" ELSE UNCHANGED <<selected, mode>>
  /\ UNCHANGED <<fetch, creating, importer, drafts>> /\ Render(form)

DeleteAnswered ==
  /\ \E c \in calls :
       /\ c.op = "delete" /\ Answered(c)
       /\ Cache(Removed(c))
       /\ IF c.here THEN selected' = None /\ mode' = "view" ELSE UNCHANGED <<selected, mode>>
  /\ UNCHANGED <<fetch, creating, importer, drafts>> /\ Render(form)

\* The list is to be read anew, an earlier reading is dropped; the modal is
\* reset and closed.
ImportAnswered ==
  /\ \E c \in calls :
       /\ c.op = "import" /\ Answered(c)
       /\ IF c.here
          THEN selected' = c.script /\ mode' = "view" /\ importer' = None /\ fetch' = None
          ELSE UNCHANGED <<selected, mode, importer, fetch>>
  /\ UNCHANGED <<list, failed, creating, drafts>> /\ Render(form)

\* A failed save drops its draft all the same (mutant).
FailureDropsDraft ==
  /\ \E c \in calls :
       /\ calls' = Without(c)
       /\ drafts' = IF c.from = None THEN drafts ELSE [drafts EXCEPT ![c.from] = None]
  /\ UNCHANGED <<form, created, typed, made>> /\ UNCHANGED Page /\ Quiet

\* Refused, lost, or carried out with the answer lost: an error is shown.
CallFails ==
  /\ \E c \in calls : calls' = Without(c)
  /\ UNCHANGED <<made, Page>> /\ Unsent

WorkspaceNext ==
  \/ Refetch \/ ListArrives \/ ListFails \/ OthersWrite
  \/ SelectListed \/ Edit \/ RouteEdit \/ CancelEdit \/ TypeText \/ ClearEditor \/ Revisit
  \/ SaveEditor \/ Toggle \/ Delete \/ Upgrade
  \/ New \/ TypeNew \/ Create \/ CancelCreate
  \/ ReadFile \/ ChooseImport \/ CloseImport \/ ApplyImport
  \/ ServerWrites \/ PutAnswered \/ UpgradeAnswered \/ CreateAnswered
  \/ DeleteAnswered \/ ImportAnswered \/ CallFails

WorkspaceSpec == WorkspaceInit /\ [][WorkspaceNext]_workspaceVars

(***************************************************************************)
(* Properties                                                               *)
(***************************************************************************)
WorkspaceTypeOK ==
  /\ server \in [Ids -> Texts \cup {Free, Deleted}]
  /\ DOMAIN list \subseteq Ids /\ \A s \in DOMAIN list : list[s] \in Texts
  /\ selected \in Ids \cup {None} /\ mode \in {"view", "edit"}
  /\ form /= None => form.key \in Keys /\ form.text \in Texts
  /\ created \in Texts \cup {None}
  /\ drafts \in [Keys -> Texts \cup {None}]
  /\ \A c \in calls : c.got \in Texts \cup {None, Deleted}

\* What was typed for one script is never saved as another, through selections,
\* links, late answers and lists that change under the editor.
NoForeignText ==
  \A s \in Ids : Exists(s) => server[s][1] \in {s, "new", "import"}

\* The mounted editor shows what its draft holds: what is restored after a
\* reload, an error page or a visit elsewhere is what was last on the screen.
EditorShowsDraft ==
  form /= None /\ form.key \in Ids /\ drafts[form.key] /= None
    => form.text = drafts[form.key]

\* The create modal waits for its script: a visit to the page never sends a
\* second creation beside the first ("Retrying a write could create a
\* duplicate job after a lost response", queryClient.ts:35).
SingleCreate == Cardinality({c \in calls : c.op = "create" /\ c.here}) <= 1

\* A draft goes only by Clear or with a save of its form that the server has
\* carried out; a failed or unanswered one keeps it.
DraftOutlivesFailure ==
  [][\A k \in Keys : drafts[k] /= None /\ drafts'[k] = None =>
       \/ \E c \in calls \ calls' : c.from = k /\ c.got /= None
       \/ form' /= None /\ form'.key = k /\ form'.text = Opened(k, list, drafts')]_workspaceVars

\* A deleted script comes back into the list only when the list is read.
DeletedStaysGone ==
  [][\A s \in DOMAIN list' \ DOMAIN list :
       \/ fetch /= None /\ list' = fetch
       \/ \E c \in calls \ calls' : c.op = "create" /\ c.script = s]_workspaceVars

\* "The existing configuration will not change" (ConfigurationTransfer.tsx:152):
\* with a new configuration chosen beside a match, no script is overwritten.
NewImportKeepsOthers ==
  [][\A c \in calls, d \in calls' :
       c.id = d.id /\ c.got = None /\ d.got /= None /\ d.choice = "new"
         => server[d.script] = Free]_workspaceVars

\* All of this holds of the jobs page at any time: each editor and each script has its
\* own text, and a creation is sent once.
EditorsOwnText == WorkspaceTypeOK /\ NoForeignText /\ EditorShowsDraft /\ SingleCreate

\* No answer, failure or import takes away a draft, a deletion or another script.
WritesTakeNothingElse == DraftOutlivesFailure /\ DeletedStaysGone /\ NewImportKeepsOthers
=============================================================================
