------------------------------ MODULE RunRequest ------------------------------
(***************************************************************************)
(* Asking for a run (ScriptRunJob in ScriptJobs.tsx, useExecuteScript.ts),   *)
(* in the jobs page or in the Submit page: the form with its custom command, *)
(* the reading of the rate limit that precedes the request, the warning, the *)
(* request, and the page its answer leads to.  A form that is left behind    *)
(* stops being shown; what it asked for goes on.                             *)
(*                                                                          *)
(* A command is a mode and a text.  The limiter itself is a choice: others   *)
(* submit too, so any number may remain when it is asked.                    *)
(***************************************************************************)
EXTENDS Naturals, FiniteSets, Sequences, Browser

CONSTANTS
  Scripts,      \* the scripts of the office
  FirstConfigs, \* for each, its possible configurations at first
  NextConfigs,  \* what another administrator may save for one of them
  TypedTexts,   \* texts typed into the custom command
  MaxClicks,    \* bound: clicks on Submit
  MaxForms,     \* bound: forms mounted
  MaxOthers,    \* bound: configurations saved by others
  MaxTyped      \* bound: edits of the custom command

Configs == (UNION {FirstConfigs[s] : s \in Scripts}) \cup NextConfigs
Quote   == "'"

\* The arguments that are saved or typed, and the command that a preview makes of them
ArgTexts      == TypedTexts \cup {"", Quote} \cup {c.text : c \in Configs}
Preview(text) == "run " \o text

ASSUME RunRequestAssumption ==
  /\ MaxClicks \in Nat /\ MaxForms \in Nat /\ MaxOthers \in Nat /\ MaxTyped \in Nat
  /\ None \notin Nat
  /\ None \notin {"arguments", "shell"} \cup ArgTexts \cup {Preview(t) : t \in ArgTexts}
  /\ \A c \in Configs :
       /\ c.version \in 1..4 /\ c.active \in BOOLEAN /\ c.mode \in {"arguments", "shell"}
       /\ c.version < 3 => c.mode = "arguments"

VARIABLES
  host,      \* the page: "workspace" (scripts-manager) or "submit"
  saved,     \* on the server: the configuration of each script
  listed,    \* in the page: the configurations as last read
  at,        \* where the page is: script, tab and selected run
  runForm,   \* the mounted ScriptRunJob, or None
  checks,    \* readings of the rate limit under way
  posts,     \* requests for a run under way
  clicks,    \* clicks on Submit so far: what the form showed
  sent,      \* for each click, the requests sent
  runs,      \* jobs created
  forms, others, edits    \* counters

runVars == <<host, saved, listed, at, runForm, checks, posts, clicks, sent, runs,
             forms, others, edits>>

Command(c) == [mode |-> c.mode, text |-> c.text]

\* initialCommand, with the two texts CommandEditor keeps for the mode not shown.
InitialCommand(c) ==
  LET args  == IF c.mode = "shell" THEN "" ELSE c.text
      shell == IF c.mode = "shell" THEN c.text ELSE ""
  IN [mode |-> c.mode, args |-> args, shell |-> shell, valid |-> TRUE,
      keptArgs |-> args, keptShell |-> shell]

NewForm(s) ==
  [id |-> forms + 1, script |-> s, custom |-> FALSE, command |-> InitialCommand(listed[s]),
   checking |-> FALSE, warning |-> None, watched |-> None]

RunRequestInit ==
  /\ host \in {"workspace", "submit"}
  /\ saved \in {f \in [Scripts -> Configs] : \A s \in Scripts : f[s] \in FirstConfigs[s]}
  /\ listed = saved
  /\ at = [script |-> None, tab |-> "none", run |-> None]
  /\ runForm = None /\ checks = {} /\ posts = {} /\ clicks = <<>> /\ sent = <<>> /\ runs = {}
  /\ forms = 0 /\ others = 0 /\ edits = 0

(***************************************************************************)
(* Moving about                                                             *)
(***************************************************************************)
\* The modal of the warning covers the page.
Free == runForm /= None => runForm.warning = None

Quiet  == UNCHANGED <<host, saved, listed, checks, posts, clicks, sent, runs, others, edits>>
Leaves == runForm' = None /\ UNCHANGED forms

\* Run job of a script: in the list of the workspace, or in the two drop-down
\* lists of the Submit page, where choosing the script shown changes nothing.
OpenRun(s) ==
  /\ Free /\ forms < MaxForms
  /\ host = "submit" => s /= at.script \/ at.tab /= "run"
  /\ at' = [script |-> s, tab |-> "run",
            run |-> IF host = "workspace" /\ at.script = s THEN at.run ELSE None]
  /\ runForm' = NewForm(s) /\ forms' = forms + 1 /\ Quiet

\* Details of a script, or no script at all
OpenDetails(s) ==
  /\ Free /\ host = "workspace"
  /\ at' = [script |-> s, tab |-> "details", run |-> IF at.script = s THEN at.run ELSE None]
  /\ Leaves /\ Quiet

\* Runs of a script, or one of them
OpenRuns(s) ==
  /\ Free /\ host = "workspace"
  /\ \E r \in {None} \cup {j.click : j \in {k \in runs : k.script = s}} :
       at' = [script |-> s, tab |-> "runs", run |-> r]
  /\ Leaves /\ Quiet

\* From the Submit page to any other
LeavePage ==
  /\ Free /\ host = "submit"
  /\ at' = [script |-> None, tab |-> "none", run |-> None] /\ Leaves /\ Quiet

EditJob ==
  /\ Free /\ runForm /= None /\ runForm.watched = None
  /\ at' = [at EXCEPT !.tab = "edit"] /\ Leaves /\ Quiet

(***************************************************************************)
(* The form                                                                 *)
(***************************************************************************)
Runnable(c) == c.version \in 1..4 /\ c.active
Shown == listed[runForm.script]
Idle  == runForm.watched = None

FormStep == UNCHANGED <<host, saved, listed, at, checks, posts, clicks, sent, runs, forms, others>>

\* Custom run is usable while a request is under way (mutant).
ToggleAnytime ==
  /\ Free /\ runForm /= None /\ Runnable(Shown) /\ Shown.version >= 2
  /\ runForm' = [runForm EXCEPT !.custom = ~@, !.command = InitialCommand(Shown), !.watched = None]
  /\ FormStep /\ UNCHANGED edits

ToggleCustom ==
  /\ Free /\ runForm /= None /\ Runnable(Shown) /\ Idle /\ Shown.version >= 2
  /\ runForm' = [runForm EXCEPT !.custom = ~@, !.command = InitialCommand(Shown), !.watched = None]
  /\ FormStep /\ UNCHANGED edits

Editing == Free /\ runForm /= None /\ runForm.custom /\ Idle /\ edits < MaxTyped /\ edits' = edits + 1

\* An open quote, which leaves the arguments as they were, and an empty shell
\* command are not valid.
TypeCommand ==
  /\ Editing
  /\ \E t \in TypedTexts \cup {"", Quote} :
       LET c == runForm.command IN
       runForm' = [runForm EXCEPT !.command =
         IF c.mode = "shell" THEN [c EXCEPT !.shell = t, !.valid = t /= ""]
         ELSE IF t = Quote THEN [c EXCEPT !.valid = FALSE]
         ELSE [c EXCEPT !.args = t, !.valid = TRUE]]
  /\ FormStep

SwitchMode ==
  /\ Editing
  /\ LET c     == runForm.command
         args  == IF c.mode = "shell" THEN c.keptArgs ELSE c.args
         shell == IF c.mode = "shell" THEN c.shell ELSE c.keptShell
         text  == IF shell /= "" THEN shell ELSE Preview(c.args)
     IN runForm' = [runForm EXCEPT !.command =
          IF c.mode = "shell"
          THEN [mode |-> "arguments", args |-> args, shell |-> "", valid |-> TRUE,
                keptArgs |-> args, keptShell |-> shell]
          ELSE [mode |-> "shell", args |-> "", shell |-> text, valid |-> TRUE,
                keptArgs |-> args, keptShell |-> shell]]
  /\ FormStep

(***************************************************************************)
(* Submitting                                                               *)
(***************************************************************************)
\* No arguments are not sent (mutant).
OptionsWithoutEmpty(f, c) ==
  LET custom == f.command
      args   == IF custom.args = "" THEN None ELSE custom.args IN
  IF ~f.custom THEN [mode |-> None, shell |-> None, args |-> None]
  ELSE IF custom.mode = "shell" THEN [mode |-> "shell", shell |-> custom.shell, args |-> None]
  ELSE [mode |-> IF c.mode = "shell" THEN "arguments" ELSE None, shell |-> None, args |-> args]

\* customRunOptions
Options(f, c) ==
  LET custom == f.command IN
  IF ~f.custom THEN [mode |-> None, shell |-> None, args |-> None]
  ELSE IF custom.mode = "shell" THEN [mode |-> "shell", shell |-> custom.shell, args |-> None]
  ELSE IF c.mode = "shell" THEN [mode |-> "arguments", shell |-> None, args |-> custom.args]
  ELSE [mode |-> None, shell |-> None, args |-> custom.args]

\* What the form shows, and is asked for by the click
Displayed(f, c) ==
  IF ~f.custom THEN Command(c)
  ELSE [mode |-> f.command.mode,
        text |-> IF f.command.mode = "shell" THEN f.command.shell
                 ELSE IF f.command.valid THEN f.command.args ELSE Quote]

CanSubmit ==
  /\ Runnable(Shown) /\ Idle /\ ~runForm.checking
  /\ runForm.custom => /\ runForm.command.valid
                       /\ Shown.version >= 3 \/ runForm.command.mode /= "shell"

Submit ==
  /\ Free /\ runForm /= None /\ CanSubmit /\ Len(clicks) < MaxClicks
  /\ clicks' = Append(clicks, [script |-> runForm.script, custom |-> runForm.custom,
                               saved |-> Shown, command |-> Displayed(runForm, Shown)])
  /\ sent' = Append(sent, 0)
  /\ checks' = checks \cup {[form |-> runForm.id, click |-> Len(clicks) + 1,
                             script |-> runForm.script, options |-> Options(runForm, Shown)]}
  /\ runForm' = [runForm EXCEPT !.checking = TRUE]
  /\ UNCHANGED <<host, saved, listed, at, posts, runs, forms, others, edits>>

Mounted(id) == runForm /= None /\ runForm.id = id

Post(q) ==
  /\ posts' = posts \cup {[form |-> q.form, click |-> q.click, script |-> q.script,
                           options |-> q.options, stage |-> "sent"]}
  /\ sent' = [sent EXCEPT ![q.click] = @ + 1]

\* What may remain when the limit is read; more makes no difference.
Readings == 0..2

\* The rate limit was read: with at most one submission left, a warning, which only
\* a mounted form can show; otherwise, or when the reading failed, the request.
CheckAnswered(q) ==
  /\ checks' = checks \ {q}
  /\ \/ /\ \E remaining \in Readings : remaining <= 1 /\
             runForm' = IF ~Mounted(q.form) THEN runForm
                        ELSE [runForm EXCEPT !.checking = FALSE,
                                !.warning = [remaining |-> remaining, request |-> q]]
        /\ UNCHANGED <<posts, sent>>
     \/ /\ Post(q)
        /\ runForm' = IF ~Mounted(q.form) THEN runForm
                      ELSE [runForm EXCEPT !.checking = FALSE, !.watched = q.click]
  /\ UNCHANGED <<host, saved, listed, at, clicks, runs, forms, others, edits>>

\* continueSubmit
SubmitAnyway ==
  /\ runForm /= None /\ runForm.warning /= None /\ runForm.warning.remaining > 0
  /\ Post(runForm.warning.request)
  /\ runForm' = [runForm EXCEPT !.warning = None, !.watched = runForm.warning.request.click]
  /\ UNCHANGED <<host, saved, listed, at, checks, clicks, runs, forms, others, edits>>

CloseWarning ==
  /\ runForm /= None /\ runForm.warning /= None
  /\ runForm' = [runForm EXCEPT !.warning = None] /\ FormStep /\ UNCHANGED edits

(***************************************************************************)
(* The server                                                               *)
(***************************************************************************)
\* create_job: the command of a run asked for with these options, or None
Effective(c, o) ==
  LET mode == IF o.mode /= None THEN o.mode ELSE c.mode IN
  IF ~Runnable(c) \/ (c.version < 3 /\ (o.mode /= None \/ o.shell /= None)) THEN None
  ELSE IF o.args /= None /\ (c.version < 2 \/ mode = "shell") THEN None
  ELSE [mode |-> mode,
        text |-> IF o.args /= None THEN o.args
                 ELSE IF mode = "shell" /\ o.shell /= None THEN o.shell
                 ELSE IF mode = c.mode THEN c.text ELSE ""]

\* The request is refused by the limiter, or for what it asks, or creates a job.
ServerHandles(p) ==
  /\ p.stage = "sent"
  /\ LET command == Effective(saved[p.script], p.options) IN
     \/ /\ command /= None
        /\ runs' = runs \cup {[click |-> p.click, script |-> p.script, command |-> command,
                               saved |-> saved[p.script]]}
        /\ posts' = (posts \ {p}) \cup {[p EXCEPT !.stage = "created"]}
     \/ posts' = (posts \ {p}) \cup {[p EXCEPT !.stage = "refused"]} /\ UNCHANGED runs
  /\ UNCHANGED <<host, saved, listed, at, runForm, checks, clicks, sent, forms, others, edits>>

Settled(p) ==
  IF Mounted(p.form) /\ runForm.watched = p.click
  THEN [runForm EXCEPT !.watched = None] ELSE runForm

\* The run is selected under whatever script is shown (mutant).
LandsHere(p) ==
  IF host = "submit" THEN [script |-> None, tab |-> "job", run |-> p.click]
  ELSE [script |-> IF at.script = None THEN p.script ELSE at.script, tab |-> "runs", run |-> p.click]

\* onSubmitted of the workspace, or the run's own page
Lands(p) ==
  IF host = "submit" THEN [script |-> None, tab |-> "job", run |-> p.click]
  ELSE [script |-> p.script, tab |-> "runs", run |-> p.click]

\* The page follows the run from wherever it is: an editor is closed too.
Answered(p) ==
  /\ p.stage = "created"
  /\ posts' = posts \ {p} /\ at' = Lands(p) /\ runForm' = None
  /\ UNCHANGED <<host, saved, listed, checks, clicks, sent, runs, forms, others, edits>>

\* The form waits for ever (mutant).
FailedSilently(p) ==
  /\ p.stage \in {"created", "refused"}
  /\ posts' = posts \ {p}
  /\ UNCHANGED <<host, saved, listed, at, runForm, checks, clicks, sent, runs, forms, others, edits>>

\* A request without an answer is sent once more (mutant).
FailedResends(p) ==
  /\ p.stage \in {"created", "refused"}
  /\ posts' = (posts \ {p}) \cup {[p EXCEPT !.stage = "sent"]}
  /\ sent' = [sent EXCEPT ![p.click] = @ + 1]
  /\ UNCHANGED <<host, saved, listed, at, runForm, checks, clicks, runs, forms, others, edits>>

\* The answer is a refusal, or was lost: an error is shown and nothing is resent.
Failed(p) ==
  /\ p.stage \in {"created", "refused"}
  /\ posts' = posts \ {p} /\ runForm' = Settled(p)
  /\ UNCHANGED <<host, saved, listed, at, checks, clicks, sent, runs, forms, others, edits>>

OthersSave ==
  /\ others < MaxOthers /\ others' = others + 1
  /\ \E s \in Scripts, c \in NextConfigs :
       c.version >= saved[s].version /\ saved' = [saved EXCEPT ![s] = c]
  /\ UNCHANGED <<host, listed, at, runForm, checks, posts, clicks, sent, runs, forms, edits>>

\* The list of scripts or the catalogue is read again.
Reread ==
  /\ listed /= saved /\ listed' = saved
  /\ UNCHANGED <<host, saved, at, runForm, checks, posts, clicks, sent, runs, forms, others, edits>>

RunRequestNext ==
  \/ \E s \in Scripts : OpenRun(s) \/ OpenDetails(s) \/ OpenRuns(s)
  \/ LeavePage \/ EditJob \/ ToggleCustom \/ TypeCommand \/ SwitchMode \/ Submit
  \/ SubmitAnyway \/ CloseWarning \/ OthersSave \/ Reread
  \/ \E q \in checks : CheckAnswered(q)
  \/ \E p \in posts : ServerHandles(p) \/ Answered(p) \/ Failed(p)

RunRequestSpec == RunRequestInit /\ [][RunRequestNext]_runVars

(***************************************************************************)
(* Properties                                                               *)
(***************************************************************************)
Places   == [script : Scripts \cup {None}, tab : {"none", "details", "edit", "run", "runs", "job"},
             run : 0..MaxClicks \cup {None}]

\* Shape of the state; the request a form waits for is under way, so that no form
\* keeps its buttons disabled for an answer that has come (isPending).
RunRequestTypeOK ==
  /\ saved \in [Scripts -> Configs] /\ listed \in [Scripts -> Configs] /\ at \in Places
  /\ Len(clicks) = Len(sent)
  /\ runForm /= None =>
       /\ at.tab = "run" /\ at.script = runForm.script
       /\ runForm.watched /= None => \E p \in posts : p.click = runForm.watched
       /\ runForm.checking <=> \E q \in checks : q.form = runForm.id
  /\ \A q \in checks : sent[q.click] = 0
  /\ \A p \in posts : p.stage \in {"sent", "created", "refused"}

\* One click on Submit asks for one run at most, through the warning or without it,
\* whatever is clicked, left or lost meanwhile (submit and continueSubmit).
OnePostPerClick ==
  /\ \A i \in DOMAIN sent : sent[i] <= 1
  /\ \A j, k \in runs : j.click = k.click => j = k

\* A run executes the command its form showed when Submit was clicked, although the
\* form could be edited while the limit was read and another administrator could
\* change the script; a run of the saved command may differ only when the script
\* was saved in between (customRunOptions with create_job).
RunsAsShown ==
  \A j \in runs : LET c == clicks[j.click] IN
    /\ j.script = c.script
    /\ c.custom \/ j.saved = c.saved => j.command = c.command

\* A form never has two submissions at once: a warning, a reading of the limit or a
\* request excludes the others (isPending with checkingRateLimit).
NoOverlap ==
  runForm /= None =>
    Cardinality({q.click : q \in {r \in checks \cup posts : r.form = runForm.id}})
      + (IF runForm.warning /= None THEN 1 ELSE 0) <= 1

\* The run shown in the workspace is one of the script it is shown under, however
\* late its submission was answered (onSubmitted, onSelect).
ShownRunBelongs ==
  at.run /= None /\ at.script /= None => clicks[at.run].script = at.script

\* A run is asked for once, as its form showed it, and is shown under its script.
RunsAsAsked == RunRequestTypeOK /\ OnePostPerClick /\ RunsAsShown /\ NoOverlap /\ ShownRunBelongs
=============================================================================
