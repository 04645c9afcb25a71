------------------------------ MODULE PagesProofs ------------------------------
(***************************************************************************)
(* Theorems about RunRequest, for any scripts, commands and texts; about    *)
(* RunHistory, for any filters and sizes; about ServerLogs and LogSearch,   *)
(* for any events, outputs and selections; about ShellCache, for any        *)
(* releases and files; about AdminUsage, for any runs, offices and periods; *)
(* and about FilePickers, for any pushes and JARs; with any bounds.         *)
(*                                                                          *)
(* A request carries the form and the click it is of, so that its fate is   *)
(* told of no other, and it fits the script whatever the script becomes.    *)
(* What a page of the history was read with are ranks of runs, to which     *)
(* newer runs only add before.  A search has what it has not found still to *)
(* come, and a page of the log follows what is shown or is in it already.   *)
(* The worker that is active has its cache, and nothing deletes that one    *)
(* but an activation of a later worker, which has its own.  What a picker   *)
(* shows was read for what is chosen.  An answer with the figures keeps the *)
(* filters it was asked with, and a sum may be taken in any order.          *)
(***************************************************************************)
EXTENDS MCPages, TLAPS, FiniteSetTheorems, SequenceTheorems, WellFoundedInduction

(***************************************************************************)
(* The state of a page that asks for runs                                    *)
(***************************************************************************)
Modes    == {"arguments", "shell"}
AllTexts == ArgTexts \cup {Preview(t) : t \in ArgTexts}

\* The command in the form; what it asks for; a reading of the limit, a request and a
\* warning; the form; and a click.
FormCommand == [mode: Modes, args: ArgTexts, shell: AllTexts, valid: BOOLEAN, keptArgs: ArgTexts, keptShell: AllTexts]
Asking      == [mode: Modes \cup {None}, shell: AllTexts \cup {None}, args: ArgTexts \cup {None}]
Checks      == [form: Nat, click: Nat, script: Scripts, options: Asking]
Posted      == [form: Nat, click: Nat, script: Scripts, options: Asking, stage: {"sent", "created", "refused"}]
Warning     == [remaining: Readings, request: Checks]
FormState   == [id: Nat, script: Scripts, custom: BOOLEAN, command: FormCommand, checking: BOOLEAN,
                warning: Warning \cup {None}, watched: Nat \cup {None}]
Click       == [script: Scripts, custom: BOOLEAN, saved: Configs, command: [mode: Modes, text: AllTexts]]

RunsTyped ==
  /\ saved \in [Scripts -> Configs] /\ listed \in [Scripts -> Configs]
  /\ at \in Places /\ forms \in Nat
  /\ clicks \in Seq(Click) /\ sent \in Seq(Nat) /\ Len(sent) = Len(clicks) /\ Len(clicks) <= MaxClicks
  /\ runForm \in FormState \cup {None} /\ checks \subseteq Checks /\ posts \subseteq Posted

\* Whatever the script has become, the run that these options ask for is the one shown.
Fits(o, c) == \A config \in Configs : c.custom \/ config = c.saved => Effective(config, o) \in {None, c.command}

\* A request is one of its click.
Asks(q) ==
  /\ q.click \in 1..Len(clicks) /\ q.form <= forms
  /\ clicks[q.click].script = q.script /\ Fits(q.options, clicks[q.click])

\* A run is the one of its click.
Ran(j) ==
  /\ j.click \in 1..Len(clicks) /\ sent[j.click] = 1
  /\ j.script = clicks[j.click].script
  /\ clicks[j.click].custom \/ j.saved = clicks[j.click].saved => j.command = clicks[j.click].command

\* A click is read for, then sent once, then answered by one run.
OnceEach ==
  /\ \A i \in 1..Len(sent) : sent[i] <= 1
  /\ \A q \in checks : Asks(q) /\ sent[q.click] = 0
  /\ \A q, r \in checks : q.click = r.click => q = r
  /\ \A p \in posts : Asks(p) /\ sent[p.click] = 1
  /\ \A p, q \in posts : p.click = q.click => p = q
  /\ \A j \in runs : Ran(j)
  /\ \A j, k \in runs : j.click = k.click => j = k
  /\ \A p \in posts, j \in runs : p.stage = "sent" => p.click /= j.click

\* A warning is of a click of the form that shows it, nowhere else under way.
WarningRight ==
  runForm.warning /= None =>
    /\ runForm.watched = None
    /\ Asks(runForm.warning.request) /\ runForm.warning.request.form = runForm.id
    /\ sent[runForm.warning.request.click] = 0
    /\ \A q \in checks : q.click /= runForm.warning.request.click

\* The form that is mounted has one submission at a time.
OneAtATime ==
  /\ runForm.id = forms /\ at.tab = "run" /\ at.script = runForm.script
  /\ runForm.watched /= None => \E p \in posts : p.click = runForm.watched /\ p.form = runForm.id
  /\ runForm.checking <=> \E q \in checks : q.form = runForm.id
  /\ \A q, r \in checks : q.form = runForm.id /\ r.form = runForm.id => q = r
  /\ runForm.checking => runForm.watched = None /\ runForm.warning = None
  /\ \A p \in posts : p.form = runForm.id => p.click = runForm.watched
  /\ WarningRight

FormRight == runForm /= None => OneAtATime

\* The run the page is at belongs to its script.
PlaceRight ==
  at.run /= None /\ at.script /= None => at.run \in 1..Len(clicks) /\ clicks[at.run].script = at.script

\* The invariant that is proved of the page.
RequestInv == RunsTyped /\ OnceEach /\ FormRight /\ PlaceRight

(***************************************************************************)
(* A form and its options                                                    *)
(***************************************************************************)
\* The command a form begins with is one of the form's, and so is what it asks for.
LEMMA InitialTyped == ASSUME NEW c \in Configs PROVE InitialCommand(c) \in FormCommand /\ Command(c) \in [mode: Modes, text: AllTexts]
<1>1. c.mode \in Modes /\ c.text \in ArgTexts /\ "" \in ArgTexts
  BY RunRequestAssumption DEF ArgTexts, Modes
<1>2. QED
  BY <1>1 DEF InitialCommand, FormCommand, AllTexts, Command

\* What a form asks for is a mode and a command, or nothing.
LEMMA OptionsTyped ==
  ASSUME NEW f \in FormState, NEW c \in Configs
  PROVE  Options(f, c) \in Asking /\ Displayed(f, c) \in [mode: Modes, text: AllTexts]
<1>1. f.command \in FormCommand /\ f.custom \in BOOLEAN
  BY DEF FormState
<1>2. f.command.mode \in Modes /\ f.command.args \in ArgTexts /\ f.command.shell \in AllTexts /\ Quote \in ArgTexts
  BY <1>1 DEF FormCommand, ArgTexts
<1>3. Options(f, c) \in Asking
  BY <1>1, <1>2 DEF Options, Asking, Modes
<1>4. Displayed(f, c) \in [mode: Modes, text: AllTexts]
  BY <1>1, <1>2, InitialTyped DEF Displayed, AllTexts
<1>5. QED
  BY <1>3, <1>4

\* The options of a form ask for the command it shows, of whatever configuration the
\* script has when they arrive (customRunOptions with create_job).
LEMMA OptionsFit ==
  ASSUME NEW f \in FormState, NEW c \in Configs, NEW i,
         f.custom => f.command.valid
  PROVE  Fits(Options(f, c), [script |-> i, custom |-> f.custom, saved |-> c, command |-> Displayed(f, c)])
<1> DEFINE o == Options(f, c)
<1>1. /\ f.command.mode \in Modes /\ f.command.args \in ArgTexts /\ f.command.shell \in AllTexts
      /\ f.custom \in BOOLEAN /\ f.command.valid \in BOOLEAN
  BY DEF FormState, FormCommand
<1>2. None \notin Modes /\ None \notin AllTexts /\ None \notin ArgTexts
  BY RunRequestAssumption DEF Modes, AllTexts
<1>3. SUFFICES ASSUME NEW config \in Configs, f.custom \/ config = c, Effective(config, o) /= None
               PROVE  Effective(config, o) = Displayed(f, c)
  BY DEF Fits
<1>4. config.mode \in Modes
  BY RunRequestAssumption DEF Modes
<1>5. CASE ~f.custom
  BY <1>2, <1>3, <1>4, <1>5 DEF Options, Effective, Displayed, Command
<1>6. CASE f.custom /\ f.command.mode = "shell"
  <2>1. o = [mode |-> "shell", shell |-> f.command.shell, args |-> None]
    BY <1>6 DEF Options
  <2>2. f.command.shell /= None
    BY <1>1, <1>2
  <2>3. Displayed(f, c) = [mode |-> "shell", text |-> f.command.shell]
    BY <1>6 DEF Displayed
  <2>4. None /= "shell"
    BY <1>2 DEF Modes
  <2> HIDE DEF o
  <2>5. QED
    BY <1>3, <2>1, <2>2, <2>3, <2>4 DEF Effective
<1>7. CASE f.custom /\ f.command.mode = "arguments"
  <2>1. f.command.args /= None
    BY <1>1, <1>2
  <2>2. o.args = f.command.args /\ o.shell = None /\ o.mode \in {None, "arguments"}
    BY <1>7 DEF Options
  <2>3. Displayed(f, c) = [mode |-> "arguments", text |-> f.command.args]
    BY <1>1, <1>7 DEF Displayed
  <2> HIDE DEF o
  <2>4. config.mode = "shell" \/ config.mode = "arguments"
    BY <1>4 DEF Modes
  <2>5. None /= "arguments"
    BY <1>2 DEF Modes
  <2>6. CASE o.mode = None
    <3>1. config.mode /= "shell"
      BY <1>3, <2>1, <2>2, <2>6 DEF Effective
    <3>2. QED
      BY <1>3, <2>1, <2>2, <2>3, <2>4, <2>6, <3>1 DEF Effective
  <2>7. CASE o.mode = "arguments"
    BY <1>3, <2>1, <2>2, <2>3, <2>5, <2>7 DEF Effective
  <2>8. QED
    BY <2>2, <2>6, <2>7
<1>8. QED
  BY <1>1, <1>5, <1>6, <1>7 DEF Modes

(***************************************************************************)
(* The initial state and the steps                                           *)
(***************************************************************************)
\* At first there is no form.
LEMMA RequestInitInv == RunRequestInit => RequestInv
<1> SUFFICES ASSUME RunRequestInit PROVE RequestInv
  OBVIOUS
<1>1. saved \in [Scripts -> Configs] /\ listed \in [Scripts -> Configs]
  BY DEF RunRequestInit
<1>2. clicks \in Seq(Click) /\ sent \in Seq(Nat) /\ Len(clicks) = 0 /\ Len(sent) = 0
  BY DEF RunRequestInit
<1>3. RunsTyped
  BY <1>1, <1>2, RunRequestAssumption DEF RunRequestInit, RunsTyped, Places
<1>4. QED
  BY <1>2, <1>3 DEF RunRequestInit, RequestInv, OnceEach, FormRight, PlaceRight

\* Where no request moves, each click still has the same.
LEMMA OnceKept ==
  ASSUME RequestInv, RunsTyped', UNCHANGED <<checks, posts, clicks, sent, runs>>, forms <= forms'
  PROVE  OnceEach'
<1>1. ASSUME NEW q, q.form <= forms, forms <= forms', q.form \in Nat, Asks(q) PROVE Asks(q)'
  <2>1. q.form <= forms'
    BY <1>1 DEF RequestInv, RunsTyped
  <2>2. QED
    BY <1>1, <2>1 DEF Asks, Fits
<1>2. /\ \A q \in checks : q.form \in Nat /\ Asks(q) /\ q.form <= forms
      /\ \A p \in posts  : p.form \in Nat /\ Asks(p) /\ p.form <= forms
  BY DEF RequestInv, RunsTyped, OnceEach, Asks, Checks, Posted
<1>3. (\A q \in checks : Asks(q)') /\ (\A p \in posts : Asks(p)')
  BY <1>1, <1>2
<1>4. \A j \in runs : Ran(j)'
  BY DEF RequestInv, OnceEach, Ran
<1>5. QED
  BY <1>3, <1>4 DEF RequestInv, OnceEach

\* A form begins with no submission of its own: its number is new.
LEMMA OpenRunInv == ASSUME RequestInv, NEW s \in Scripts, OpenRun(s) PROVE RequestInv'
<1>1. /\ UNCHANGED <<saved, listed, checks, posts, clicks, sent, runs>>
      /\ runForm' = NewForm(s) /\ forms' = forms + 1 /\ at'.script = s /\ at'.tab = "run"
      /\ at' = [script |-> s, tab |-> "run", run |-> at'.run]
      /\ at'.run = None \/ (at'.run = at.run /\ at.script = s)
  BY DEF OpenRun, Quiet
<1>2. listed[s] \in Configs /\ forms \in Nat /\ at \in Places
  BY DEF RequestInv, RunsTyped
<1>3. runForm' \in FormState
  <2>1. InitialCommand(listed[s]) \in FormCommand
    BY <1>2, InitialTyped
  <2>2. QED
    BY <1>1, <1>2, <2>1 DEF NewForm, FormState
<1>4. RunsTyped'
  <2>1. at' \in Places
    BY <1>1, <1>2 DEF Places
  <2>2. QED
    BY <1>1, <1>2, <1>3, <2>1 DEF RequestInv, RunsTyped
<1>5. OnceEach'
  BY <1>1, <1>2, <1>4, OnceKept
<1>6. FormRight'
  <2>1. /\ runForm'.id = forms' /\ runForm'.script = s /\ runForm'.watched = None
        /\ runForm'.warning = None /\ runForm'.checking = FALSE
    BY <1>1 DEF NewForm
  <2>2. \A q \in checks \cup posts : q.form \in Nat /\ q.form <= forms
    BY DEF RequestInv, RunsTyped, OnceEach, Asks, Checks, Posted
  <2>3. \A q \in checks \cup posts : q.form /= forms + 1
    BY <1>2, <2>2
  <2>4. QED
    BY <1>1, <2>1, <2>3 DEF FormRight, OneAtATime, WarningRight
<1>7. PlaceRight'
  BY <1>1 DEF RequestInv, PlaceRight
<1>8. QED
  BY <1>4, <1>5, <1>6, <1>7 DEF RequestInv

\* A page that is left for another, without a form or a request.
LEMMA Left ==
  ASSUME RequestInv, Leaves, UNCHANGED <<saved, listed, checks, posts, clicks, sent, runs>>,
         at' \in Places, PlaceRight'
  PROVE  RequestInv'
<1>1. runForm' = None /\ forms' = forms
  BY DEF Leaves
<1>2. RunsTyped'
  BY <1>1 DEF RequestInv, RunsTyped
<1>3. OnceEach'
  BY <1>1, <1>2, OnceKept DEF RequestInv, RunsTyped
<1>4. QED
  BY <1>1, <1>2, <1>3 DEF RequestInv, FormRight

\* The form goes with its page, to the details of a script,
LEMMA OpenDetailsInv == ASSUME RequestInv, NEW s \in Scripts, OpenDetails(s) PROVE RequestInv'
<1>1. /\ UNCHANGED <<saved, listed, checks, posts, clicks, sent, runs>> /\ Leaves
      /\ at' = [script |-> s, tab |-> "details", run |-> IF at.script = s THEN at.run ELSE None]
  BY DEF OpenDetails, Quiet
<1>2. at' \in Places /\ PlaceRight'
  BY <1>1 DEF RequestInv, RunsTyped, Places, PlaceRight
<1>3. QED
  BY <1>1, <1>2, Left

\* to its runs,
LEMMA OpenRunsInv == ASSUME RequestInv, NEW s \in Scripts, OpenRuns(s) PROVE RequestInv'
<1>1. /\ UNCHANGED <<saved, listed, checks, posts, clicks, sent, runs>> /\ Leaves
      /\ \E r \in {None} \cup {j.click : j \in {k \in runs : k.script = s}} :
           at' = [script |-> s, tab |-> "runs", run |-> r]
  BY DEF OpenRuns, Quiet
<1>2. PICK r \in {None} \cup {j.click : j \in {k \in runs : k.script = s}} :
        at' = [script |-> s, tab |-> "runs", run |-> r]
  BY <1>1
<1>3. r /= None => r \in 1..Len(clicks) /\ clicks[r].script = s
  BY <1>2 DEF RequestInv, OnceEach, Ran
<1>4. at' \in Places
  BY <1>2, <1>3, RunRequestAssumption DEF RequestInv, RunsTyped, Places
<1>5. PlaceRight'
  BY <1>1, <1>2, <1>3 DEF PlaceRight
<1>6. QED
  BY <1>1, <1>4, <1>5, Left

\* to another page,
LEMMA LeavePageInv == ASSUME RequestInv, LeavePage PROVE RequestInv'
<1>1. /\ UNCHANGED <<saved, listed, checks, posts, clicks, sent, runs>> /\ Leaves
      /\ at' = [script |-> None, tab |-> "none", run |-> None]
  BY DEF LeavePage, Quiet
<1>2. at' \in Places /\ PlaceRight'
  BY <1>1 DEF Places, PlaceRight
<1>3. QED
  BY <1>1, <1>2, Left

\* and to the editor.
LEMMA EditJobInv == ASSUME RequestInv, EditJob PROVE RequestInv'
<1>1. /\ UNCHANGED <<saved, listed, checks, posts, clicks, sent, runs>> /\ Leaves
      /\ at' = [at EXCEPT !.tab = "edit"]
  BY DEF EditJob, Quiet
<1>2. at' \in Places /\ PlaceRight'
  BY <1>1 DEF RequestInv, RunsTyped, Places, PlaceRight
<1>3. QED
  BY <1>1, <1>2, Left

\* What is done in a form leaves its submission, or drops the warning.
LEMMA FormEdited ==
  ASSUME RequestInv, FormStep, runForm /= None, runForm' \in FormState,
         /\ runForm'.id = runForm.id /\ runForm'.script = runForm.script
         /\ runForm'.checking = runForm.checking /\ runForm'.watched = runForm.watched,
         runForm'.warning \in {runForm.warning, None}
  PROVE  RequestInv'
<1>1. UNCHANGED <<saved, listed, at, checks, posts, clicks, sent, runs, forms>>
  BY DEF FormStep
<1>2. RunsTyped'
  BY <1>1 DEF RequestInv, RunsTyped
<1>3. OnceEach'
  BY <1>1, <1>2, OnceKept DEF RequestInv, RunsTyped
<1>4. OneAtATime
  BY DEF RequestInv, FormRight
<1>5. WarningRight'
  BY <1>1, <1>4 DEF OneAtATime, WarningRight, Asks, Fits
<1>6. OneAtATime'
  BY <1>1, <1>4, <1>5 DEF OneAtATime
<1>7. PlaceRight'
  BY <1>1 DEF RequestInv, PlaceRight
<1>8. QED
  BY <1>2, <1>3, <1>6, <1>7 DEF RequestInv, FormRight

\* A form that is mounted is of a script of the office, and a warning is of its click.
LEMMA FormTyped ==
  ASSUME RequestInv, runForm /= None
  PROVE  runForm \in FormState /\ runForm.command \in FormCommand /\ Shown \in Configs /\ OneAtATime
BY DEF RequestInv, RunsTyped, FormRight, FormState, Shown

\* A custom command begins, and ends, as the one that is listed.
LEMMA ToggleCustomInv == ASSUME RequestInv, ToggleCustom PROVE RequestInv'
<1> DEFINE next == [runForm EXCEPT !.custom = ~@, !.command = InitialCommand(Shown), !.watched = None]
<1>1. FormStep /\ runForm /= None /\ runForm' = next /\ runForm.watched = None
  BY DEF ToggleCustom, Idle
<1>2. runForm \in FormState /\ InitialCommand(Shown) \in FormCommand
  BY <1>1, FormTyped, InitialTyped
<1>3. /\ next \in FormState /\ next.id = runForm.id /\ next.script = runForm.script
      /\ next.checking = runForm.checking /\ next.watched = runForm.watched /\ next.warning = runForm.warning
  BY <1>1, <1>2 DEF FormState
<1> HIDE DEF next
<1>4. QED
  BY <1>1, <1>3, FormEdited

\* A command that is typed or turned round is one of the form's.
LEMMA CommandEdited ==
  ASSUME RequestInv, FormStep, runForm /= None, NEW c \in FormCommand, runForm' = [runForm EXCEPT !.command = c]
  PROVE  RequestInv'
<1> DEFINE next == [runForm EXCEPT !.command = c]
<1>1. runForm \in FormState
  BY FormTyped
<1>2. /\ next \in FormState /\ next.id = runForm.id /\ next.script = runForm.script
      /\ next.checking = runForm.checking /\ next.watched = runForm.watched /\ next.warning = runForm.warning
  BY <1>1 DEF FormState
<1>3. runForm' = next
  OBVIOUS
<1> HIDE DEF next
<1>4. QED
  BY <1>2, <1>3, FormEdited

\* A command that is typed is asked for as it is typed.
LEMMA TypeCommandInv == ASSUME RequestInv, TypeCommand PROVE RequestInv'
<1> DEFINE typed(t) ==
      LET c == runForm.command IN
      IF c.mode = "shell" THEN [c EXCEPT !.shell = t, !.valid = t /= ""]
      ELSE IF t = Quote THEN [c EXCEPT !.valid = FALSE]
      ELSE [c EXCEPT !.args = t, !.valid = TRUE]
<1>1. PICK t \in TypedTexts \cup {"", Quote} : runForm' = [runForm EXCEPT !.command = typed(t)]
  BY DEF TypeCommand
<1>2. FormStep /\ runForm /= None
  BY DEF TypeCommand, Editing
<1>3. runForm.command \in FormCommand /\ t \in ArgTexts /\ t \in AllTexts
  BY <1>2, FormTyped DEF ArgTexts, AllTexts
<1>4. typed(t) \in FormCommand
  BY <1>3 DEF FormCommand
<1> HIDE DEF typed
<1>5. QED
  BY <1>1, <1>2, <1>4, CommandEdited

\* The other mode has the command kept for it, or the preview of the arguments.
LEMMA SwitchModeInv == ASSUME RequestInv, SwitchMode PROVE RequestInv'
<1> DEFINE c     == runForm.command
           args  == IF c.mode = "shell" THEN c.keptArgs ELSE c.args
           shell == IF c.mode = "shell" THEN c.shell ELSE c.keptShell
           text  == IF shell /= "" THEN shell ELSE Preview(c.args)
           next  == IF c.mode = "shell"
                    THEN [mode |-> "arguments", args |-> args, shell |-> "", valid |-> TRUE,
                          keptArgs |-> args, keptShell |-> shell]
                    ELSE [mode |-> "shell", args |-> "", shell |-> text, valid |-> TRUE,
                          keptArgs |-> args, keptShell |-> shell]
<1>1. runForm' = [runForm EXCEPT !.command = next] /\ FormStep /\ runForm /= None
  BY DEF SwitchMode, Editing
<1>2. c \in FormCommand
  BY <1>1, FormTyped
<1>3. args \in ArgTexts /\ shell \in AllTexts /\ text \in AllTexts /\ "" \in ArgTexts /\ "" \in AllTexts
  <2>1. "" \in ArgTexts
    BY DEF ArgTexts
  <2>2. c.args \in ArgTexts /\ c.keptArgs \in ArgTexts /\ c.shell \in AllTexts /\ c.keptShell \in AllTexts
    BY <1>2 DEF FormCommand
  <2>3. QED
    BY <2>1, <2>2 DEF AllTexts
<1> HIDE DEF args, shell, text
<1>4. next \in FormCommand
  BY <1>3 DEF FormCommand, Modes
<1> HIDE DEF c, next
<1>5. QED
  BY <1>1, <1>4, CommandEdited

\* A warning that is closed sends nothing.
LEMMA CloseWarningInv == ASSUME RequestInv, CloseWarning PROVE RequestInv'
<1> DEFINE next == [runForm EXCEPT !.warning = None]
<1>1. FormStep /\ runForm /= None /\ runForm' = next
  BY DEF CloseWarning
<1>2. runForm \in FormState
  BY <1>1, FormTyped
<1>3. /\ next \in FormState /\ next.id = runForm.id /\ next.script = runForm.script
      /\ next.checking = runForm.checking /\ next.watched = runForm.watched /\ next.warning = None
  BY <1>2 DEF FormState
<1> HIDE DEF next
<1>4. QED
  BY <1>1, <1>3, FormEdited

\* A click is a new one, and asks for what its form shows.
LEMMA SubmitInv == ASSUME RequestInv, Submit PROVE RequestInv'
<1> DEFINE n    == Len(clicks) + 1
           new  == [script |-> runForm.script, custom |-> runForm.custom, saved |-> Shown,
                    command |-> Displayed(runForm, Shown)]
           asks == [form |-> runForm.id, click |-> n, script |-> runForm.script, options |-> Options(runForm, Shown)]
           next == [runForm EXCEPT !.checking = TRUE]
<1>1. /\ UNCHANGED <<saved, listed, at, posts, runs, forms>>
      /\ clicks' = Append(clicks, new) /\ sent' = Append(sent, 0) /\ Len(clicks) < MaxClicks
      /\ checks' = checks \cup {asks} /\ runForm' = next /\ runForm /= None
  BY DEF Submit
<1>2. /\ runForm.warning = None /\ runForm.watched = None /\ ~runForm.checking
      /\ runForm.custom => runForm.command.valid
  BY DEF Submit, Free, CanSubmit, Idle
<1>3. runForm \in FormState /\ Shown \in Configs /\ OneAtATime
  BY <1>1, FormTyped
<1>4. /\ runForm.id \in Nat /\ runForm.script \in Scripts /\ runForm.custom \in BOOLEAN
      /\ Options(runForm, Shown) \in Asking /\ Displayed(runForm, Shown) \in [mode: Modes, text: AllTexts]
  BY <1>3, OptionsTyped DEF FormState
<1>5. n \in Nat /\ clicks \in Seq(Click) /\ sent \in Seq(Nat) /\ Len(sent) = Len(clicks) /\ Len(clicks) \in Nat
  BY DEF RequestInv, RunsTyped
<1>6. /\ asks \in Checks /\ new \in Click
      /\ next \in FormState /\ next.id = runForm.id /\ next.script = runForm.script /\ next.checking = TRUE
      /\ next.watched = None /\ next.warning = None
  BY <1>2, <1>3, <1>4, <1>5 DEF Checks, Click, FormState
<1>7. Fits(asks.options, new)
  BY <1>2, <1>3, OptionsFit
<1>8. PICK q : q = asks
  OBVIOUS
<1>8a. /\ q.form = runForm.id /\ q.click = n /\ q.script = runForm.script /\ new.script = runForm.script
       /\ q.options = asks.options
  BY <1>8
<1> HIDE DEF new, asks, next, n
<1>9. /\ clicks' \in Seq(Click) /\ Len(clicks') = n /\ clicks'[n] = new
      /\ \A i \in 1..Len(clicks) : clicks'[i] = clicks[i] /\ i \in 1..Len(clicks') /\ i /= n
      /\ sent' \in Seq(Nat) /\ Len(sent') = n /\ sent'[n] = 0
      /\ \A i \in 1..Len(sent) : sent'[i] = sent[i]
      /\ n <= MaxClicks
  BY <1>1, <1>5, <1>6, RunRequestAssumption DEF n
<1>10. RunsTyped'
  BY <1>1, <1>6, <1>9 DEF RequestInv, RunsTyped
\* What is under way for a click before is for that click still.
<1>11. ASSUME NEW r, Asks(r) PROVE Asks(r)' /\ r.click /= n /\ sent'[r.click] = sent[r.click]
  <2>1. r.click \in 1..Len(clicks) /\ r.form <= forms
    BY <1>11 DEF Asks
  <2>2. clicks'[r.click] = clicks[r.click] /\ r.click \in 1..Len(clicks') /\ r.click /= n
    BY <1>9, <2>1
  <2>3. sent'[r.click] = sent[r.click]
    BY <1>5, <1>9, <2>1
  <2>4. Asks(r)'
    BY <1>1, <1>11, <2>1, <2>2 DEF Asks, Fits
  <2>5. QED
    BY <2>2, <2>3, <2>4
<1>12. Asks(q)'
  <2>1. q.click \in 1..Len(clicks') /\ clicks'[q.click] = new
    BY <1>5, <1>8a, <1>9 DEF n
  <2>2. q.form <= forms'
    BY <1>1, <1>3, <1>4, <1>8a DEF OneAtATime
  <2>3. QED
    BY <1>7, <1>8a, <2>1, <2>2 DEF Asks, Fits
<1>13. ASSUME NEW j \in runs PROVE Ran(j)' /\ j.click /= n
  <2>1. Ran(j) /\ j.click \in 1..Len(clicks) /\ j.click \in 1..Len(sent)
    BY <1>5 DEF RequestInv, OnceEach, Ran
  <2>2. /\ clicks'[j.click] = clicks[j.click] /\ sent'[j.click] = sent[j.click] /\ j.click /= n
        /\ j.click \in 1..Len(clicks')
    BY <1>9, <2>1
  <2>3. QED
    BY <2>1, <2>2 DEF Ran
<1>14. OnceEach'
  <2>1. \A i \in 1..Len(sent') : sent'[i] <= 1
    <3>1. ASSUME NEW i \in 1..Len(sent') PROVE i \in 1..Len(sent) \/ i = n
      BY <1>5, <1>9 DEF n
    <3>2. QED
      BY <1>9, <3>1 DEF RequestInv, OnceEach
  <2>2. \A r \in checks : Asks(r) /\ sent[r.click] = 0
    BY DEF RequestInv, OnceEach
  <2>3. \A r \in checks : Asks(r)' /\ sent'[r.click] = 0 /\ r.click /= n
    BY <1>11, <2>2
  <2>4. \A r \in checks' : Asks(r)' /\ sent'[r.click] = 0
    BY <1>1, <1>8, <1>8a, <1>9, <1>12, <2>3
  <2>5. \A r, t \in checks' : r.click = t.click => r = t
    BY <1>1, <1>8, <1>8a, <2>3 DEF RequestInv, OnceEach
  <2>6. \A p \in posts : Asks(p)' /\ sent'[p.click] = 1
    BY <1>11 DEF RequestInv, OnceEach
  <2>7. QED
    BY <1>1, <1>13, <2>1, <2>4, <2>5, <2>6 DEF RequestInv, OnceEach
<1>15. OneAtATime'
  <2>1. \A r \in checks : r.form /= runForm.id
    BY <1>2, <1>3 DEF OneAtATime
  <2>2. \A p \in posts : p.click /= None
    BY RunRequestAssumption DEF RequestInv, RunsTyped, Posted
  <2>3. \A p \in posts : p.form /= runForm.id
    BY <1>2, <1>3, <2>2 DEF OneAtATime
  <2>4. runForm'.checking <=> \E r \in checks' : r.form = runForm'.id
    BY <1>1, <1>6, <1>8, <1>8a
  <2>5. QED
    BY <1>1, <1>3, <1>6, <1>8, <1>8a, <2>1, <2>3, <2>4 DEF OneAtATime, WarningRight
<1>16. PlaceRight'
  <2>1. at' = at
    BY <1>1
  <2>2. at.run \in 1..Len(clicks) => clicks'[at.run] = clicks[at.run] /\ at.run \in 1..Len(clicks')
    BY <1>9
  <2>3. QED
    BY <2>1, <2>2 DEF RequestInv, PlaceRight
<1>17. QED
  BY <1>10, <1>14, <1>15, <1>16 DEF RequestInv, FormRight

(***************************************************************************)
(* Requests                                                                  *)
(***************************************************************************)
\* A reading or a warning whose click was not sent, and is waited for nowhere else.
Unsent(q) == q \in Checks /\ Asks(q) /\ sent[q.click] = 0 /\ \A r \in checks' : r.click /= q.click

\* The request of a click that was not sent is sent for the first time.
LEMMA PostInv ==
  ASSUME RequestInv, NEW q, Unsent(q), Post(q), checks' \subseteq checks,
         UNCHANGED <<saved, listed, at, clicks, runs, forms>>, runForm' \in FormState \cup {None}
  PROVE  /\ RunsTyped' /\ OnceEach' /\ PlaceRight'
         /\ \A r : Asks(r) => Asks(r)'
         /\ \A i \in 1..Len(clicks) : i /= q.click => sent'[i] = sent[i]
         /\ \E p \in posts' : posts' = posts \cup {p} /\ p.click = q.click /\ p.form = q.form
<1> DEFINE new == [form |-> q.form, click |-> q.click, script |-> q.script, options |-> q.options, stage |-> "sent"]
<1>1. posts' = posts \cup {new} /\ sent' = [sent EXCEPT ![q.click] = @ + 1]
  BY DEF Post
<1>2. q \in Checks /\ Asks(q) /\ q.click \in 1..Len(sent) /\ sent[q.click] = 0 /\ Len(sent) = Len(clicks)
  BY DEF Unsent, Asks, RequestInv, RunsTyped
<1>3. /\ new \in Posted /\ new.form = q.form /\ new.click = q.click /\ new.script = q.script
      /\ new.options = q.options /\ new.stage = "sent"
  BY <1>2 DEF Checks, Posted
<1> HIDE DEF new
<1>4. sent \in Seq(Nat)
  BY DEF RequestInv, RunsTyped
<1>5. /\ sent' \in Seq(Nat) /\ Len(sent') = Len(sent) /\ sent'[q.click] = 1
      /\ \A i \in 1..Len(sent) : i /= q.click => sent'[i] = sent[i]
  BY <1>1, <1>2, <1>4
<1>6. RunsTyped'
  BY <1>1, <1>3, <1>5 DEF RequestInv, RunsTyped
<1>7. \A r : Asks(r) => Asks(r)'
  BY DEF Asks, Fits
<1>8. OnceEach'
  <2>1. \A i \in 1..Len(sent') : sent'[i] <= 1
    BY <1>2, <1>5 DEF RequestInv, OnceEach
  <2>2. ASSUME NEW r \in checks' PROVE Asks(r)' /\ sent'[r.click] = 0
    <3>1. r \in checks /\ Asks(r) /\ sent[r.click] = 0 /\ r.click /= q.click
      BY <2>2 DEF RequestInv, OnceEach, Unsent
    <3>2. r.click \in 1..Len(sent)
      BY <1>2, <3>1 DEF Asks
    <3>3. QED
      BY <1>5, <1>7, <3>1, <3>2
  <2>3. ASSUME NEW p \in posts PROVE Asks(p)' /\ sent'[p.click] = 1 /\ p.click /= q.click
    <3>1. Asks(p) /\ sent[p.click] = 1
      BY DEF RequestInv, OnceEach
    <3>2. p.click \in 1..Len(sent) /\ p.click /= q.click
      BY <1>2, <3>1 DEF Asks
    <3>3. QED
      BY <1>5, <1>7, <3>1, <3>2
  <2>4. Asks(new)' /\ sent'[new.click] = 1
    <3>1. Asks(new)
      BY <1>2, <1>3 DEF Asks, Fits
    <3>2. QED
      BY <1>3, <1>5, <1>7, <3>1
  <2>5. ASSUME NEW j \in runs PROVE Ran(j)' /\ j.click /= q.click
    <3>1. Ran(j) /\ j.click \in 1..Len(sent) /\ sent[j.click] = 1
      BY <1>2 DEF RequestInv, OnceEach, Ran
    <3>2. j.click /= q.click
      BY <1>2, <3>1
    <3>3. QED
      BY <1>5, <3>1, <3>2 DEF Ran
  <2>6. \A p \in posts' : Asks(p)' /\ sent'[p.click] = 1
    BY <1>1, <2>3, <2>4
  <2>7. \A p, r \in posts' : p.click = r.click => p = r
    BY <1>1, <1>3, <2>3 DEF RequestInv, OnceEach
  <2>8. \A p \in posts', j \in runs : p.stage = "sent" => p.click /= j.click
    BY <1>1, <1>3, <2>5 DEF RequestInv, OnceEach
  <2>9. \A r, t \in checks' : r.click = t.click => r = t
    BY DEF RequestInv, OnceEach
  <2>10. QED
    BY <2>1, <2>2, <2>5, <2>6, <2>7, <2>8, <2>9 DEF RequestInv, OnceEach
<1>9. PlaceRight'
  BY DEF RequestInv, PlaceRight
<1>10. QED
  BY <1>1, <1>2, <1>3, <1>5, <1>6, <1>7, <1>8, <1>9

\* The form that waits for a request, or warns of one, has no other under way.
LEMMA NothingElse ==
  ASSUME RequestInv, runForm /= None, runForm.watched = None
  PROVE  \A p \in posts : p.form /= runForm.id
<1>1. \A p \in posts : p.click /= None
  BY RunRequestAssumption DEF RequestInv, RunsTyped, Posted
<1>2. QED
  BY <1>1, FormTyped DEF OneAtATime

\* A reading of the limit that calls for a warning ends there, shown or not.
LEMMA WarnedInv ==
  ASSUME RequestInv, NEW q \in checks, NEW remaining \in Readings, checks' = checks \ {q},
         runForm' = IF ~Mounted(q.form) THEN runForm
                    ELSE [runForm EXCEPT !.checking = FALSE,
                            !.warning = [remaining |-> remaining, request |-> q]],
         UNCHANGED <<saved, listed, at, posts, clicks, sent, runs, forms>>
  PROVE  RequestInv'
<1> DEFINE warning == [remaining |-> remaining, request |-> q]
           next    == [runForm EXCEPT !.checking = FALSE, !.warning = warning]
<1>1. q \in Checks /\ warning \in Warning /\ warning.request = q
  BY DEF RequestInv, RunsTyped, Warning
<1>2. \A r : Asks(r) => Asks(r)'
  BY DEF Asks, Fits
<1>3. \A j \in runs : Ran(j)'
  BY DEF RequestInv, OnceEach, Ran
<1>4. OnceEach'
  BY <1>2, <1>3 DEF RequestInv, OnceEach
<1>5. PlaceRight'
  BY DEF RequestInv, PlaceRight
<1>6. CASE ~Mounted(q.form)
  <2>1. runForm' = runForm
    BY <1>6
  <2>2. RunsTyped'
    BY <2>1 DEF RequestInv, RunsTyped
  <2>3. FormRight'
    <3>1. SUFFICES ASSUME runForm /= None PROVE OneAtATime'
      BY <2>1 DEF FormRight
    <3>2. OneAtATime /\ q.form /= runForm.id
      BY <1>6, <3>1, FormTyped DEF Mounted
    <3>3. WarningRight'
      BY <1>2, <2>1, <3>2 DEF OneAtATime, WarningRight
    <3>4. QED
      BY <2>1, <3>2, <3>3 DEF OneAtATime
  <2>4. QED
    BY <1>4, <1>5, <2>2, <2>3 DEF RequestInv
<1>7. CASE Mounted(q.form)
  <2>1. runForm /= None /\ runForm.id = q.form /\ runForm' = next
    BY <1>7 DEF Mounted
  <2>2. runForm \in FormState /\ OneAtATime
    BY <2>1, FormTyped
  <2>3. runForm.watched = None /\ runForm.warning = None /\ \A r \in checks \ {q} : r.form /= runForm.id
    BY <2>1, <2>2 DEF OneAtATime
  <2>4. /\ next \in FormState /\ next.id = runForm.id /\ next.script = runForm.script /\ next.checking = FALSE
        /\ next.watched = None /\ next.warning = warning
    BY <1>1, <2>2, <2>3 DEF FormState
  <2>5. \A p \in posts : p.form /= runForm.id
    BY <2>1, <2>3, NothingElse
  <2> HIDE DEF next, warning
  <2>6. RunsTyped'
    BY <2>1, <2>4 DEF RequestInv, RunsTyped
  <2>7. Asks(q) /\ sent[q.click] = 0 /\ \A r \in checks \ {q} : r.click /= q.click
    BY DEF RequestInv, OnceEach
  <2>8. runForm'.warning.request = q
    BY <1>1, <2>1, <2>4
  <2>9. WarningRight'
    BY <1>2, <2>1, <2>4, <2>7, <2>8 DEF WarningRight
  <2>10. OneAtATime'
    BY <2>1, <2>2, <2>3, <2>4, <2>5, <2>9 DEF OneAtATime
  <2>11. QED
    BY <1>4, <1>5, <2>6, <2>10 DEF RequestInv, FormRight
<1>8. QED
  BY <1>6, <1>7

\* A reading of the limit that allows the run sends the request, watched or not.
LEMMA AllowedInv ==
  ASSUME RequestInv, NEW q \in checks, checks' = checks \ {q}, Post(q),
         runForm' = IF ~Mounted(q.form) THEN runForm
                    ELSE [runForm EXCEPT !.checking = FALSE, !.watched = q.click],
         UNCHANGED <<saved, listed, at, clicks, runs, forms>>
  PROVE  RequestInv'
<1> DEFINE next == [runForm EXCEPT !.checking = FALSE, !.watched = q.click]
<1>1. Unsent(q)
  BY DEF Unsent, RequestInv, RunsTyped, OnceEach
<1>2. q.click \in Nat
  BY <1>1 DEF Unsent, Checks
<1>3. CASE ~Mounted(q.form)
  <2>1. runForm' = runForm /\ runForm' \in FormState \cup {None}
    BY <1>3 DEF RequestInv, RunsTyped
  <2>2. /\ RunsTyped' /\ OnceEach' /\ PlaceRight'
        /\ \A r : Asks(r) => Asks(r)'
        /\ \A i \in 1..Len(clicks) : i /= q.click => sent'[i] = sent[i]
        /\ \E p \in posts' : posts' = posts \cup {p} /\ p.click = q.click /\ p.form = q.form
    BY <1>1, <2>1, PostInv
  <2>3. FormRight'
    <3>1. SUFFICES ASSUME runForm /= None PROVE OneAtATime'
      BY <2>1 DEF FormRight
    <3>2. OneAtATime /\ q.form /= runForm.id
      BY <1>3, <3>1, FormTyped DEF Mounted
    <3>3. WarningRight'
      <4>1. runForm.warning /= None =>
              /\ runForm.watched = None /\ Asks(runForm.warning.request)
              /\ runForm.warning.request.form = runForm.id /\ sent[runForm.warning.request.click] = 0
              /\ \A r \in checks : r.click /= runForm.warning.request.click
        BY <3>2 DEF OneAtATime, WarningRight
      <4>2. runForm.warning /= None => runForm.warning.request.click \in 1..Len(clicks)
        BY <4>1 DEF Asks
      <4>3. runForm.warning /= None => sent'[runForm.warning.request.click] = 0
        BY <2>2, <4>1, <4>2
      <4>4. QED
        BY <2>1, <2>2, <4>1, <4>3 DEF WarningRight
    <3> HIDE DEF next
    <3>4. PICK p \in posts' : posts' = posts \cup {p} /\ p.form = q.form
      BY <2>2
    <3>5. \A r \in posts' : r.form = runForm.id => r.click = runForm.watched
      BY <3>2, <3>4 DEF OneAtATime
    <3>6. runForm.watched /= None => \E r \in posts' : r.click = runForm.watched /\ r.form = runForm.id
      BY <3>2, <3>4 DEF OneAtATime
    <3>7. runForm.checking <=> \E r \in checks' : r.form = runForm.id
      BY <3>2 DEF OneAtATime
    <3>8. QED
      BY <2>1, <3>2, <3>3, <3>5, <3>6, <3>7 DEF OneAtATime
  <2>4. QED
    BY <2>2, <2>3 DEF RequestInv
<1>4. CASE Mounted(q.form)
  <2>1. runForm /= None /\ runForm.id = q.form /\ runForm' = next
    BY <1>4 DEF Mounted
  <2>2. runForm \in FormState /\ OneAtATime
    BY <2>1, FormTyped
  <2>3. runForm.watched = None /\ runForm.warning = None /\ \A r \in checks \ {q} : r.form /= runForm.id
    BY <2>1, <2>2 DEF OneAtATime
  <2>4. /\ next \in FormState /\ next.id = runForm.id /\ next.script = runForm.script /\ next.checking = FALSE
        /\ next.watched = q.click /\ next.warning = None
    BY <1>2, <2>2, <2>3 DEF FormState
  <2>5. \A p \in posts : p.form /= runForm.id
    BY <2>1, <2>3, NothingElse
  <2> HIDE DEF next
  <2>6. /\ RunsTyped' /\ OnceEach' /\ PlaceRight'
        /\ \E p \in posts' : posts' = posts \cup {p} /\ p.click = q.click /\ p.form = q.form
    BY <1>1, <2>1, <2>4, PostInv
  <2>7. WarningRight'
    BY <2>1, <2>4 DEF WarningRight
  <2>8. OneAtATime'
    BY <2>1, <2>2, <2>3, <2>4, <2>5, <2>6, <2>7 DEF OneAtATime
  <2>9. QED
    BY <2>6, <2>8 DEF RequestInv, FormRight
<1>5. QED
  BY <1>3, <1>4

\* The limit is read: the request is sent, warned of, or not known of any more.
LEMMA CheckAnsweredInv == ASSUME RequestInv, NEW q \in checks, CheckAnswered(q) PROVE RequestInv'
<1>1. checks' = checks \ {q} /\ UNCHANGED <<saved, listed, at, clicks, runs, forms>>
  BY DEF CheckAnswered
<1>2. CASE /\ \E remaining \in Readings : remaining <= 1 /\
                runForm' = IF ~Mounted(q.form) THEN runForm
                           ELSE [runForm EXCEPT !.checking = FALSE,
                                   !.warning = [remaining |-> remaining, request |-> q]]
           /\ UNCHANGED <<posts, sent>>
  BY <1>1, <1>2, WarnedInv
<1>3. CASE /\ Post(q)
           /\ runForm' = IF ~Mounted(q.form) THEN runForm
                         ELSE [runForm EXCEPT !.checking = FALSE, !.watched = q.click]
  BY <1>1, <1>3, AllowedInv
<1>4. QED
  BY <1>2, <1>3 DEF CheckAnswered

\* The request that was warned of is sent by its form.
LEMMA SubmitAnywayInv == ASSUME RequestInv, SubmitAnyway PROVE RequestInv'
<1>1. PICK q : q = runForm.warning.request
  OBVIOUS
<1> DEFINE next == [runForm EXCEPT !.warning = None, !.watched = q.click]
<1>2. /\ runForm /= None /\ runForm.warning /= None /\ Post(q) /\ runForm' = next
      /\ UNCHANGED <<saved, listed, at, checks, clicks, runs, forms>>
  BY <1>1 DEF SubmitAnyway
<1>3. runForm \in FormState /\ OneAtATime
  BY <1>2, FormTyped
<1>4. q \in Checks
  BY <1>1, <1>2, <1>3 DEF FormState, Warning
<1>5. runForm.watched = None /\ q.form = runForm.id /\ runForm.checking = FALSE
  BY <1>1, <1>2, <1>3 DEF OneAtATime, WarningRight, FormState
<1>6. Unsent(q)
  BY <1>1, <1>2, <1>3, <1>4 DEF Unsent, OneAtATime, WarningRight
<1>7. /\ next \in FormState /\ next.id = runForm.id /\ next.script = runForm.script /\ next.checking = FALSE
      /\ next.watched = q.click /\ next.warning = None
  BY <1>3, <1>4, <1>5 DEF FormState, Checks
<1>8. \A p \in posts : p.form /= runForm.id
  BY <1>2, <1>5, NothingElse
<1> HIDE DEF next
<1>9. /\ RunsTyped' /\ OnceEach' /\ PlaceRight'
      /\ \E p \in posts' : posts' = posts \cup {p} /\ p.click = q.click /\ p.form = q.form
  BY <1>2, <1>6, <1>7, PostInv
<1>10. WarningRight'
  BY <1>2, <1>7 DEF WarningRight
<1>11. OneAtATime'
  BY <1>2, <1>3, <1>5, <1>7, <1>8, <1>9, <1>10 DEF OneAtATime
<1>12. QED
  BY <1>9, <1>11 DEF RequestInv, FormRight

(***************************************************************************)
(* The server, and its answers                                               *)
(***************************************************************************)
\* The run that is created is the one its request was sent for.
LEMMA CreatedInv ==
  ASSUME RequestInv, NEW p \in posts, NEW command, p.stage = "sent",
         command = Effective(saved[p.script], p.options), command /= None,
         runs' = runs \cup {[click |-> p.click, script |-> p.script, command |-> command, saved |-> saved[p.script]]},
         posts' = (posts \ {p}) \cup {[p EXCEPT !.stage = "created"]},
         UNCHANGED <<saved, listed, at, runForm, checks, clicks, sent, forms>>
  PROVE  OnceEach'
<1>1. p \in Posted /\ Asks(p) /\ sent[p.click] = 1 /\ p.script \in Scripts /\ Len(sent) = Len(clicks)
  BY DEF RequestInv, RunsTyped, OnceEach, Posted
<1>2. PICK j : j = [click |-> p.click, script |-> p.script, command |-> command, saved |-> saved[p.script]]
  OBVIOUS
<1>3. j.click = p.click /\ j.script = p.script /\ j.command = command /\ j.saved = saved[p.script]
  BY <1>2
<1>4. PICK new : new = [p EXCEPT !.stage = "created"]
  OBVIOUS
<1>5. new.click = p.click /\ new.script = p.script /\ new.options = p.options /\ new.form = p.form /\ new.stage = "created"
  BY <1>1, <1>4 DEF Posted
<1>6. runs' = runs \cup {j} /\ posts' = (posts \ {p}) \cup {new}
  BY <1>2, <1>4
<1>7. saved[p.script] \in Configs
  BY <1>1 DEF RequestInv, RunsTyped
<1>8. Ran(j)
  <2>1. /\ p.click \in 1..Len(clicks) /\ p.script = clicks[p.click].script
        /\ Fits(p.options, clicks[p.click])
    BY <1>1 DEF Asks
  <2>2. clicks[p.click].custom \/ saved[p.script] = clicks[p.click].saved => command = clicks[p.click].command
    BY <1>7, <2>1 DEF Fits
  <2>3. QED
    BY <1>1, <1>3, <2>1, <2>2 DEF Ran
<1>9. \A k \in runs : Ran(k) /\ k.click /= p.click
  BY DEF RequestInv, OnceEach
<1>10. Asks(new)
  BY <1>1, <1>5 DEF Asks, Fits
<1>11. (\A r : Asks(r) => Asks(r)') /\ (\A k : Ran(k) => Ran(k)')
  BY DEF Asks, Fits, Ran
<1>12. \A r \in posts' : Asks(r) /\ sent[r.click] = 1
  BY <1>1, <1>5, <1>6, <1>10 DEF RequestInv, OnceEach
<1>13. \A r, t \in posts' : r.click = t.click => r = t
  BY <1>5, <1>6 DEF RequestInv, OnceEach
<1>14. \A k \in runs' : Ran(k)
  BY <1>6, <1>8, <1>9
<1>15. \A k, l \in runs' : k.click = l.click => k = l
  BY <1>3, <1>6, <1>9 DEF RequestInv, OnceEach
<1>16. \A r \in posts', k \in runs' : r.stage = "sent" => r.click /= k.click
  BY <1>3, <1>5, <1>6 DEF RequestInv, OnceEach
<1>17. \A q \in checks' : Asks(q)' /\ sent'[q.click] = 0
  BY <1>11 DEF RequestInv, OnceEach
<1>18. \A q \in posts' : Asks(q)' /\ sent'[q.click] = 1
  BY <1>11, <1>12
<1>19. QED
  BY <1>11, <1>13, <1>14, <1>15, <1>16, <1>17, <1>18 DEF RequestInv, OnceEach

\* A request that is settled otherwise, or dropped, leaves the others as they are.
LEMMA StageKeeps ==
  ASSUME RequestInv, NEW p \in posts, NEW stage \in {"created", "refused"},
         \/ posts' = (posts \ {p}) \cup {[p EXCEPT !.stage = stage]}
         \/ posts' = posts \ {p},
         UNCHANGED <<checks, clicks, sent, runs, forms>>
  PROVE  OnceEach'
<1>1. p \in Posted /\ Asks(p) /\ sent[p.click] = 1
  BY DEF RequestInv, RunsTyped, OnceEach
<1>2. PICK new : new = [p EXCEPT !.stage = stage]
  OBVIOUS
<1>3. new.click = p.click /\ new.script = p.script /\ new.options = p.options /\ new.form = p.form /\ new.stage /= "sent"
  BY <1>1, <1>2 DEF Posted
<1>4. posts' \subseteq (posts \ {p}) \cup {new}
  BY <1>2
<1>5. Asks(new)
  BY <1>1, <1>3 DEF Asks, Fits
<1>6. (\A r : Asks(r) => Asks(r)') /\ (\A k : Ran(k) => Ran(k)')
  BY DEF Asks, Fits, Ran
<1>7. \A r \in posts' : Asks(r) /\ sent[r.click] = 1
  BY <1>1, <1>3, <1>4, <1>5 DEF RequestInv, OnceEach
<1>8. \A r, t \in posts' : r.click = t.click => r = t
  BY <1>3, <1>4 DEF RequestInv, OnceEach
<1>9. \A r \in posts', k \in runs : r.stage = "sent" => r.click /= k.click
  BY <1>3, <1>4 DEF RequestInv, OnceEach
<1>10. \A q \in checks' : Asks(q)' /\ sent'[q.click] = 0
  BY <1>6 DEF RequestInv, OnceEach
<1>11. \A q \in posts' : Asks(q)' /\ sent'[q.click] = 1
  BY <1>6, <1>7
<1>12. QED
  BY <1>6, <1>8, <1>9, <1>10, <1>11 DEF RequestInv, OnceEach

\* The server makes the run of a request, or refuses it.
LEMMA ServerHandlesInv == ASSUME RequestInv, NEW p \in posts, ServerHandles(p) PROVE RequestInv'
<1>1. p.stage = "sent" /\ UNCHANGED <<saved, listed, at, runForm, checks, clicks, sent, forms>>
  BY DEF ServerHandles
<1>2. PICK stage \in {"created", "refused"} : posts' = (posts \ {p}) \cup {[p EXCEPT !.stage = stage]}
  BY DEF ServerHandles
<1>3. PICK new : new = [p EXCEPT !.stage = stage]
  OBVIOUS
<1>4. p \in Posted /\ new \in Posted /\ new.click = p.click /\ new.form = p.form
  BY <1>3 DEF RequestInv, RunsTyped, Posted
<1>5. posts' = (posts \ {p}) \cup {new}
  BY <1>2, <1>3
<1>6. RunsTyped'
  BY <1>1, <1>4, <1>5 DEF RequestInv, RunsTyped
<1>7. OnceEach'
  <2>1. CASE UNCHANGED runs
    BY <1>1, <1>2, <2>1, StageKeeps
  <2>2. CASE ~UNCHANGED runs
    BY <1>1, <2>2, CreatedInv DEF ServerHandles
  <2>3. QED
    BY <2>1, <2>2
<1>8. FormRight'
  <2>1. SUFFICES ASSUME runForm /= None PROVE OneAtATime'
    BY <1>1 DEF FormRight
  <2>2. OneAtATime
    BY <2>1, FormTyped
  <2>3. WarningRight'
    BY <1>1, <2>2 DEF OneAtATime, WarningRight, Asks, Fits
  <2>4. runForm.watched /= None => \E r \in posts' : r.click = runForm.watched /\ r.form = runForm.id
    BY <1>4, <1>5, <2>2 DEF OneAtATime
  <2>5. \A r \in posts' : r.form = runForm.id => r.click = runForm.watched
    BY <1>4, <1>5, <2>2 DEF OneAtATime
  <2>6. QED
    BY <1>1, <2>2, <2>3, <2>4, <2>5 DEF OneAtATime
<1>9. PlaceRight'
  BY <1>1 DEF RequestInv, PlaceRight
<1>10. QED
  BY <1>6, <1>7, <1>8, <1>9 DEF RequestInv

\* The page follows the run that was asked for, to the script it was asked of.
LEMMA AnsweredInv == ASSUME RequestInv, NEW p \in posts, Answered(p) PROVE RequestInv'
<1>1. /\ posts' = posts \ {p} /\ at' = Lands(p) /\ runForm' = None
      /\ UNCHANGED <<saved, listed, checks, clicks, sent, runs, forms>>
  BY DEF Answered
<1>2. p \in Posted /\ Asks(p) /\ Len(clicks) \in Nat /\ Len(clicks) <= MaxClicks
  BY DEF RequestInv, RunsTyped, OnceEach
<1>3. p.click \in 1..Len(clicks) /\ clicks[p.click].script = p.script /\ p.script \in Scripts
  BY <1>2 DEF Asks, Posted
<1>4. p.click \in 0..MaxClicks
  BY <1>2, <1>3, RunRequestAssumption
<1>5. at' \in Places
  BY <1>1, <1>3, <1>4 DEF Lands, Places
<1>6. RunsTyped'
  BY <1>1, <1>5 DEF RequestInv, RunsTyped
<1>7. OnceEach'
  BY <1>1, StageKeeps
<1>8. PlaceRight'
  BY <1>1, <1>3 DEF Lands, PlaceRight
<1>9. QED
  BY <1>1, <1>6, <1>7, <1>8 DEF RequestInv, FormRight

\* The form that waited for a request that failed waits no more.
LEMMA FailedInv == ASSUME RequestInv, NEW p \in posts, Failed(p) PROVE RequestInv'
<1>1. /\ posts' = posts \ {p} /\ runForm' = Settled(p)
      /\ UNCHANGED <<saved, listed, at, checks, clicks, sent, runs, forms>>
  BY DEF Failed
<1>2. OnceEach'
  BY <1>1, StageKeeps
<1>3. PlaceRight'
  BY <1>1 DEF RequestInv, PlaceRight
<1>4. \A r \in posts : r.click = p.click => r = p
  BY DEF RequestInv, OnceEach
<1>5. CASE Mounted(p.form) /\ runForm.watched = p.click
  <2> DEFINE next == [runForm EXCEPT !.watched = None]
  <2>1. runForm' = next /\ runForm /= None
    BY <1>1, <1>5 DEF Settled, Mounted
  <2>2. runForm \in FormState /\ OneAtATime
    BY <2>1, FormTyped
  <2>3. /\ next \in FormState /\ next.id = runForm.id /\ next.script = runForm.script
        /\ next.checking = runForm.checking /\ next.watched = None /\ next.warning = runForm.warning
    BY <2>2 DEF FormState
  <2>4. p.click \in Nat /\ runForm.watched /= None
    BY <1>5, RunRequestAssumption DEF RequestInv, RunsTyped, Posted
  <2>5. runForm.warning = None
    BY <2>2, <2>4 DEF OneAtATime, WarningRight
  <2>6. \A r \in posts' : r.form /= runForm.id
    BY <1>1, <1>4, <1>5, <2>2 DEF OneAtATime
  <2> HIDE DEF next
  <2>7. RunsTyped'
    BY <1>1, <2>1, <2>3 DEF RequestInv, RunsTyped
  <2>8. WarningRight'
    BY <2>1, <2>3, <2>5 DEF WarningRight
  <2>9. OneAtATime'
    BY <1>1, <2>1, <2>2, <2>3, <2>5, <2>6, <2>8 DEF OneAtATime
  <2>10. QED
    BY <1>2, <1>3, <2>7, <2>9 DEF RequestInv, FormRight
<1>6. CASE ~(Mounted(p.form) /\ runForm.watched = p.click)
  <2>1. runForm' = runForm
    BY <1>1, <1>6 DEF Settled
  <2>2. RunsTyped'
    BY <1>1, <2>1 DEF RequestInv, RunsTyped
  <2>3. FormRight'
    <3>1. SUFFICES ASSUME runForm /= None PROVE OneAtATime'
      BY <2>1 DEF FormRight
    <3>2. OneAtATime
      BY <3>1, FormTyped
    <3>3. WarningRight'
      BY <1>1, <2>1, <3>2 DEF OneAtATime, WarningRight, Asks, Fits
    <3>4. QED
      BY <1>1, <1>4, <1>6, <2>1, <3>1, <3>2, <3>3 DEF OneAtATime, Mounted
  <2>4. QED
    BY <1>2, <1>3, <2>2, <2>3 DEF RequestInv
<1>7. QED
  BY <1>5, <1>6

\* What others save, and the list read again, change no request.
LEMMA ListedInv ==
  ASSUME RequestInv, saved' \in [Scripts -> Configs], listed' \in [Scripts -> Configs],
         UNCHANGED <<at, runForm, checks, posts, clicks, sent, runs, forms>>
  PROVE  RequestInv'
<1>1. RunsTyped'
  BY DEF RequestInv, RunsTyped
<1>2. OnceEach'
  BY <1>1, OnceKept DEF RequestInv, RunsTyped
<1>3. FormRight'
  BY DEF RequestInv, FormRight, OneAtATime, WarningRight, Asks, Fits
<1>4. QED
  BY <1>1, <1>2, <1>3 DEF RequestInv, PlaceRight

\* A request and its form fit whatever the script has become.
LEMMA OthersSaveInv == ASSUME RequestInv, OthersSave PROVE RequestInv'
<1>1. saved \in [Scripts -> Configs] /\ listed \in [Scripts -> Configs] /\ NextConfigs \subseteq Configs
  BY DEF RequestInv, RunsTyped, Configs
<1>2. saved' \in [Scripts -> Configs] /\ listed' \in [Scripts -> Configs]
  BY <1>1 DEF OthersSave
<1>3. QED
  BY <1>2, ListedInv DEF OthersSave

\* The list is read again; the form keeps the script it has.
LEMMA RereadInv == ASSUME RequestInv, Reread PROVE RequestInv'
BY ListedInv DEF Reread, RequestInv, RunsTyped

\* Every step keeps the invariant.
LEMMA RequestStepInv == RequestInv /\ [RunRequestNext]_runVars => RequestInv'
<1> SUFFICES ASSUME RequestInv, [RunRequestNext]_runVars PROVE RequestInv'
  OBVIOUS
<1>1. CASE \E s \in Scripts : OpenRun(s) \/ OpenDetails(s) \/ OpenRuns(s)
  BY <1>1, OpenRunInv, OpenDetailsInv, OpenRunsInv
<1>2. CASE LeavePage \/ EditJob \/ ToggleCustom \/ TypeCommand \/ SwitchMode \/ CloseWarning
  BY <1>2, LeavePageInv, EditJobInv, ToggleCustomInv, TypeCommandInv, SwitchModeInv, CloseWarningInv
<1>3. CASE Submit \/ SubmitAnyway \/ OthersSave \/ Reread
  BY <1>3, SubmitInv, SubmitAnywayInv, OthersSaveInv, RereadInv
<1>4. CASE \E q \in checks : CheckAnswered(q)
  BY <1>4, CheckAnsweredInv
<1>5. CASE \E p \in posts : ServerHandles(p) \/ Answered(p) \/ Failed(p)
  BY <1>5, ServerHandlesInv, AnsweredInv, FailedInv
<1>6. CASE UNCHANGED runVars
  BY <1>6, ListedInv DEF runVars, RequestInv, RunsTyped
<1>7. QED
  BY <1>1, <1>2, <1>3, <1>4, <1>5, <1>6 DEF RunRequestNext

(***************************************************************************)
(* What a click asks for                                                     *)
(***************************************************************************)
\* A form with a warning has nothing under way, and no form has two submissions.
LEMMA InvOverlaps == RequestInv => NoOverlap
<1> DEFINE S == {q.click : q \in {r \in checks \cup posts : r.form = runForm.id}}
<1> SUFFICES ASSUME RequestInv, runForm /= None
             PROVE  Cardinality(S) + (IF runForm.warning /= None THEN 1 ELSE 0) <= 1
  BY DEF NoOverlap
<1>1. OneAtATime /\ runForm.checking \in BOOLEAN
  BY FormTyped DEF FormState
<1>2. CASE runForm.warning /= None
  <2>1. runForm.watched = None /\ ~runForm.checking
    BY <1>1, <1>2 DEF OneAtATime, WarningRight
  <2>2. S = {}
    BY <1>1, <2>1, NothingElse DEF OneAtATime
  <2> HIDE DEF S
  <2>3. QED
    BY <1>2, <2>2, FS_EmptySet
<1>3. CASE runForm.warning = None
  <2>1. \E x : S \subseteq {x}
    <3>1. CASE runForm.checking
      <4>1. PICK q \in checks : q.form = runForm.id
        BY <1>1, <3>1 DEF OneAtATime
      <4>2. \A p \in posts : p.form /= runForm.id
        BY <1>1, <3>1, NothingElse DEF OneAtATime
      <4>3. \A r \in checks : r.form = runForm.id => r = q
        BY <1>1, <4>1 DEF OneAtATime
      <4>4. S \subseteq {q.click}
        BY <4>2, <4>3
      <4>5. QED
        BY <4>4
    <3>2. CASE ~runForm.checking
      <4>1. S \subseteq {runForm.watched}
        BY <1>1, <3>2 DEF OneAtATime
      <4>2. QED
        BY <4>1
    <3>3. QED
      BY <3>1, <3>2
  <2> HIDE DEF S
  <2>2. PICK x : S \subseteq {x}
    BY <2>1
  <2>3. IsFiniteSet({x}) /\ Cardinality({x}) = 1
    BY FS_Singleton
  <2>4. Cardinality(S) <= 1
    BY <2>2, <2>3, FS_Subset
  <2>5. QED
    BY <1>3, <2>2, <2>3, <2>4, FS_Subset, FS_CardinalityType
<1>4. QED
  BY <1>2, <1>3

\* The invariant implies what the run checks.
LEMMA InvAsAsked == RequestInv => RunsAsAsked
<1> SUFFICES ASSUME RequestInv PROVE RunsAsAsked
  OBVIOUS
<1>1. RunRequestTypeOK
  <2>1. runForm /= None => OneAtATime
    BY FormTyped
  <2>2. \A p \in posts : p.stage \in {"sent", "created", "refused"}
    BY DEF RequestInv, RunsTyped, Posted
  <2>3. QED
    BY <2>1, <2>2 DEF RequestInv, RunsTyped, OnceEach, OneAtATime, RunRequestTypeOK
<1>2. OnePostPerClick
  BY DEF RequestInv, RunsTyped, OnceEach, OnePostPerClick
<1>3. RunsAsShown
  BY DEF RequestInv, OnceEach, Ran, RunsAsShown
<1>4. ShownRunBelongs
  BY DEF RequestInv, PlaceRight, ShownRunBelongs
<1>5. QED
  BY <1>1, <1>2, <1>3, <1>4, InvOverlaps DEF RunsAsAsked

\* However a page is clicked, left and warned, whatever is lost or saved meanwhile, and
\* for any scripts, commands and bounds: a click sends one request at most and makes one
\* run at most, that run executes what the form showed, no form has two submissions, and
\* a run is shown under its script (submit, continueSubmit, customRunOptions, create_job).
THEOREM ClicksAreOneRun == RunRequestSpec => []RunsAsAsked
BY RequestInitInv, RequestStepInv, InvAsAsked, PTL DEF RunRequestSpec

(***************************************************************************)
(* The history of runs                                                       *)
(***************************************************************************)
\* The runs that a filter keeps, when there were so many, and how many are as new as one.
RunsAt(f, u)    == {j \in Filters[f] : j <= u}
RankAt(i, f, u) == Cardinality({j \in RunsAt(f, u) : j >= i})

HistoryKeys == [page: Nat \ {0}, size: Sizes, filter: DOMAIN Filters]

\* The page is one of those there are.
PageThere(k, u) == k.page <= Pages(Cardinality(RunsAt(k.filter, u)), k.size)

\* What was read is the page as it was, which existed.
DataRight(k, d) ==
  /\ k \in HistoryKeys /\ k.filter \notin Invalid
  /\ d.until \in 0..total /\ d.total = Cardinality(RunsAt(k.filter, d.until)) /\ PageThere(k, d.until)
  /\ d.runs = {i \in RunsAt(k.filter, d.until) :
                 RankAt(i, k.filter, d.until) \in (Offset(k) + 1)..(Offset(k) + k.size)}

\* The first so many, as they were then, have been seen.
SeenTo(u, n) ==
  /\ walk.at <= u
  /\ \A i \in Filters[shownKey.filter] :
       i <= walk.at /\ RankAt(i, shownKey.filter, u) <= n => i \in walk.seen

\* What a walk has seen: all that is before the page, and with the page once it is read.
WalkRight ==
  walk.whole =>
    /\ SeenTo(total, Offset(shownKey))
    /\ \A r \in Reader(shownKey) : SeenTo(r.answer.until, Offset(shownKey))
    /\ PageSettled => SeenTo(pagesRead[shownKey].until, Offset(shownKey) + shownKey.size)

\* The invariant that is proved of the history.
HistoryInv ==
  /\ total \in 0..MaxTotal /\ shownKey \in HistoryKeys /\ PageThere(shownKey, total)
  /\ walk \in [whole: BOOLEAN, at: Nat, seen: SUBSET Nat]
  /\ \A k \in DOMAIN pagesRead : DataRight(k, pagesRead[k])
  /\ \A r \in underWay : DataRight(r.key, r.answer)
  /\ \A r, q \in underWay : r.key = q.key => r = q
  /\ WalkRight

(***************************************************************************)
(* Ranks and pages                                                           *)
(***************************************************************************)
\* The older a run the greater its rank, and with every new run it grows.
LEMMA RanksGrow ==
  ASSUME NEW f \in DOMAIN Filters, NEW u \in Nat, NEW v \in Nat, u <= v, NEW i \in Nat, NEW j \in Nat, j <= i
  PROVE  /\ RankAt(i, f, u) \in Nat /\ RankAt(i, f, v) \in Nat /\ RankAt(j, f, u) \in Nat
         /\ RankAt(i, f, u) <= RankAt(i, f, v) /\ RankAt(i, f, u) <= RankAt(j, f, u)
         /\ i \in RunsAt(f, u) => RankAt(i, f, u) >= 1
<1>1. IsFiniteSet(Filters[f]) /\ Filters[f] \subseteq Nat
  <2>1. IsFiniteSet(1..MaxTotal) /\ Filters[f] \subseteq 1..MaxTotal
    BY RunHistoryAssumption, FS_Interval
  <2>2. IsFiniteSet(Filters[f])
    BY <2>1, FS_Subset
  <2>3. QED
    BY <2>1, <2>2
<1> DEFINE I == {k \in RunsAt(f, u) : k >= i}
           V == {k \in RunsAt(f, v) : k >= i}
           J == {k \in RunsAt(f, u) : k >= j}
<1>2. I \subseteq V /\ I \subseteq J
  BY <1>1 DEF RunsAt
<1>3. IsFiniteSet(V) /\ IsFiniteSet(J) /\ IsFiniteSet(I)
  <2>1. V \in SUBSET Filters[f] /\ J \in SUBSET Filters[f] /\ I \in SUBSET Filters[f]
    BY DEF RunsAt
  <2> HIDE DEF V, J, I
  <2>2. QED
    BY <1>1, <2>1, FS_Subset
<1>4. i \in RunsAt(f, u) => I /= {}
  OBVIOUS
<1> HIDE DEF I, V, J
<1>5. /\ Cardinality(I) \in Nat /\ Cardinality(V) \in Nat /\ Cardinality(J) \in Nat
      /\ Cardinality(I) <= Cardinality(V) /\ Cardinality(I) <= Cardinality(J)
  BY <1>2, <1>3, FS_Subset, FS_CardinalityType
<1>6. I /= {} => Cardinality(I) /= 0
  BY <1>3, FS_EmptySet
<1>7. QED
  BY <1>4, <1>5, <1>6 DEF RankAt, I, V, J

\* There are more and more runs.
LEMMA RunsGrow ==
  ASSUME NEW f \in DOMAIN Filters, NEW u \in Nat, NEW v \in Nat, u <= v
  PROVE  /\ Cardinality(RunsAt(f, u)) \in Nat /\ Cardinality(RunsAt(f, v)) \in Nat
         /\ Cardinality(RunsAt(f, u)) <= Cardinality(RunsAt(f, v)) /\ Cardinality(RunsAt(f, u)) <= MaxTotal
<1>1. IsFiniteSet(1..MaxTotal) /\ Cardinality(1..MaxTotal) = MaxTotal /\ Filters[f] \subseteq 1..MaxTotal
  <2>1. MaxTotal \in Nat /\ Filters[f] \subseteq 1..MaxTotal
    BY RunHistoryAssumption
  <2>2. IsFiniteSet(1..MaxTotal) /\ Cardinality(1..MaxTotal) = MaxTotal
    BY <2>1, FS_Interval
  <2>3. QED
    BY <2>1, <2>2
<1>2. RunsAt(f, u) \in SUBSET (1..MaxTotal) /\ RunsAt(f, v) \in SUBSET (1..MaxTotal)
  BY <1>1 DEF RunsAt
<1>3. RunsAt(f, u) \subseteq RunsAt(f, v)
  BY <1>1, RunHistoryAssumption DEF RunsAt
<1>4. IsFiniteSet(RunsAt(f, u)) /\ IsFiniteSet(RunsAt(f, v)) /\ Cardinality(RunsAt(f, u)) <= MaxTotal
  BY <1>1, <1>2, FS_Subset
<1>5. QED
  BY <1>3, <1>4, FS_Subset, FS_CardinalityType

\* There is a page if there is a run on it, and the first in any case.
LEMMA PagesTell ==
  ASSUME NEW n \in Nat, NEW s \in Nat \ {0}, NEW p \in Nat \ {0}
  PROVE  p <= Pages(n, s) <=> p = 1 \/ (p - 1) * s < n
<1>1. CASE n = 0
  <2>1. (p - 1) * s >= 0
    OBVIOUS
  <2>2. QED
    BY <1>1, <2>1 DEF Pages
<1>2. CASE n /= 0
  <2> DEFINE q == (n + s - 1) \div s
  <2>1. q \in Nat /\ q * s <= n + s - 1 /\ n + s - 1 < (q + 1) * s
    OBVIOUS
  <2>2. Pages(n, s) = q
    BY <1>2 DEF Pages
  <2> HIDE DEF q
  <2>3. (q + 1) * s = q * s + s /\ (p - 1) * s = p * s - s /\ p * s \in Nat /\ q * s \in Nat
    BY <2>1
  <2>4. p <= q => p * s <= q * s
    BY <2>1
  <2>5. p >= q + 1 => p * s >= (q + 1) * s
    BY <2>1
  <2>6. p = 1 => p * s = s
    OBVIOUS
  <2>7. QED
    BY <1>2, <2>1, <2>2, <2>3, <2>4, <2>5, <2>6
<1>3. QED
  BY <1>1, <1>2

\* A page that is there stays there.
LEMMA PagesStay ==
  ASSUME NEW k \in HistoryKeys, NEW u \in Nat, NEW v \in Nat, u <= v, PageThere(k, u)
  PROVE  PageThere(k, v) /\ k.page \in 1..(MaxTotal + 1)
<1>1. /\ Cardinality(RunsAt(k.filter, u)) \in Nat /\ Cardinality(RunsAt(k.filter, v)) \in Nat
      /\ Cardinality(RunsAt(k.filter, u)) <= Cardinality(RunsAt(k.filter, v))
      /\ Cardinality(RunsAt(k.filter, u)) <= MaxTotal
  BY RunsGrow DEF HistoryKeys
<1>2. k.page \in Nat \ {0} /\ k.size \in Nat \ {0} /\ MaxTotal \in Nat
  BY RunHistoryAssumption DEF HistoryKeys
<1>3. k.page = 1 \/ (k.page - 1) * k.size < Cardinality(RunsAt(k.filter, u))
  BY <1>1, <1>2, PagesTell DEF PageThere
<1>4. PageThere(k, v)
  <2>1. k.page = 1 \/ (k.page - 1) * k.size < Cardinality(RunsAt(k.filter, v))
    <3>1. (k.page - 1) * k.size \in Int
      BY <1>2
    <3>2. QED
      BY <1>1, <1>3, <3>1
  <2>2. QED
    BY <1>1, <1>2, <2>1, PagesTell DEF PageThere
<1>5. k.page <= MaxTotal + 1
  <2>1. (k.page - 1) * k.size >= k.page - 1
    BY <1>2
  <2>2. QED
    BY <1>1, <1>2, <1>3, <2>1
<1>6. QED
  BY <1>2, <1>4, <1>5

\* The first page is always there.
LEMMA FirstPageThere ==
  ASSUME NEW k \in HistoryKeys, k.page = 1, NEW u \in Nat
  PROVE  PageThere(k, u)
<1>1. Cardinality(RunsAt(k.filter, u)) \in Nat /\ k.size \in Nat \ {0}
  <2>1. k.filter \in DOMAIN Filters /\ k.size \in Nat \ {0}
    BY RunHistoryAssumption DEF HistoryKeys
  <2>2. u <= u
    OBVIOUS
  <2>3. QED
    BY <2>1, <2>2, RunsGrow
<1>2. QED
  BY <1>1, PagesTell DEF PageThere

(***************************************************************************)
(* Readings                                                                  *)
(***************************************************************************)
\* The server answers with the page as it is.
LEMMA ServerAnswers ==
  ASSUME HistoryInv, NEW k \in HistoryKeys, k.filter \notin Invalid, PageThere(k, total)
  PROVE  DataRight(k, ServerPage(k)) /\ ServerPage(k).until = total
<1> DEFINE d == ServerPage(k)
<1>1. d.until = total /\ d.total = Cardinality(Matching(k.filter))
      /\ d.runs = {i \in Matching(k.filter) : Rank(i, k.filter) \in (Offset(k) + 1)..(Offset(k) + k.size)}
  BY DEF ServerPage
<1> HIDE DEF d
<1>2. Matching(k.filter) = RunsAt(k.filter, total) /\ \A i : Rank(i, k.filter) = RankAt(i, k.filter, total)
  BY DEF Matching, RunsAt, Rank, RankAt
<1>3. total \in 0..total
  BY RunHistoryAssumption DEF HistoryInv
<1>4. DataRight(k, d)
  BY <1>1, <1>2, <1>3 DEF DataRight
<1>5. QED
  BY <1>1, <1>4 DEF d

\* What was read stays right as runs are added.
LEMMA DataStays ==
  ASSUME NEW k, NEW d, DataRight(k, d), total \in Nat, total' \in Nat, total <= total'
  PROVE  DataRight(k, d)'
BY DEF DataRight, PageThere, RunsAt, RankAt, Offset, HistoryKeys

\* What has been seen is seen of fewer and at a later time.
LEMMA SeenLess ==
  ASSUME HistoryInv, NEW u \in Nat, NEW v \in Nat, u <= v, NEW n \in Nat, SeenTo(u, n)
  PROVE  SeenTo(v, n)
<1>1. shownKey.filter \in DOMAIN Filters /\ walk.at \in Nat /\ \A i \in Filters[shownKey.filter] : i \in Nat
  BY RunHistoryAssumption DEF HistoryInv, HistoryKeys
<1>2. ASSUME NEW i \in Filters[shownKey.filter], i <= walk.at, RankAt(i, shownKey.filter, v) <= n
      PROVE  i \in walk.seen
  <2>1. /\ RankAt(i, shownKey.filter, u) <= RankAt(i, shownKey.filter, v)
        /\ RankAt(i, shownKey.filter, u) \in Nat /\ RankAt(i, shownKey.filter, v) \in Nat
    <3>1. i \in Nat /\ i <= i
      BY <1>1
    <3>2. QED
      BY <1>1, <3>1, RanksGrow
  <2>2. RankAt(i, shownKey.filter, u) <= n
    BY <1>2, <2>1
  <2>3. QED
    BY <1>2, <2>2 DEF SeenTo
<1>3. walk.at <= v
  BY <1>1 DEF SeenTo
<1>4. QED
  BY <1>2, <1>3 DEF SeenTo

\* Before the first page there is nothing to see.
LEMMA SeenNone ==
  ASSUME NEW f \in DOMAIN Filters, NEW u \in Nat, NEW i \in Filters[f], i <= u
  PROVE  ~(RankAt(i, f, u) <= 0)
<1>1. i \in Nat /\ i \in RunsAt(f, u)
  BY RunHistoryAssumption DEF RunsAt
<1>2. RankAt(i, f, u) \in Nat /\ RankAt(i, f, u) >= 1
  BY <1>1, RanksGrow
<1>3. QED
  BY <1>2

\* The offset of a page is a number, and that of the next one comes after it.
LEMMA Offsets ==
  ASSUME NEW k \in HistoryKeys
  PROVE  /\ Offset(k) \in Nat /\ k.size \in Nat \ {0} /\ k.page \in Nat \ {0} /\ k.filter \in DOMAIN Filters
         /\ k.page = 1 => Offset(k) = 0
<1>1. k.size \in Nat \ {0} /\ k.page \in Nat \ {0} /\ k.filter \in DOMAIN Filters
  BY RunHistoryAssumption DEF HistoryKeys
<1>2. (k.page - 1) * k.size \in Nat /\ (k.page = 1 => (k.page - 1) * k.size = 0)
  BY <1>1
<1>3. QED
  BY <1>1, <1>2 DEF Offset

\* What the invariant says of the shapes.
LEMMA HistoryTyped ==
  ASSUME HistoryInv
  PROVE  /\ total \in Nat /\ total <= total /\ MaxTotal \in Nat
         /\ shownKey \in HistoryKeys /\ PageThere(shownKey, total)
         /\ shownKey.page \in Nat \ {0} /\ shownKey.size \in Nat \ {0} /\ shownKey.filter \in DOMAIN Filters
         /\ \A i \in Filters[shownKey.filter] : i \in Nat
<1>1. total \in 0..MaxTotal /\ MaxTotal \in Nat /\ shownKey \in HistoryKeys /\ PageThere(shownKey, total)
  BY RunHistoryAssumption DEF HistoryInv
<1>2. total \in Nat /\ total <= total
  BY <1>1
<1>3. QED
  BY <1>1, <1>2, Offsets, RunHistoryAssumption

\* The first page of another filter or size is a key.
LEMMA FirstPageKeys ==
  ASSUME NEW k \in HistoryKeys
  PROVE  /\ \A f \in DOMAIN Filters : [k EXCEPT !.filter = f, !.page = 1] \in HistoryKeys
                                      /\ [k EXCEPT !.filter = f, !.page = 1].page = 1
         /\ \A n \in Sizes : [k EXCEPT !.size = n, !.page = 1] \in HistoryKeys
                             /\ [k EXCEPT !.size = n, !.page = 1].page = 1
<1>1. 1 \in Nat \ {0}
  OBVIOUS
<1>2. ASSUME NEW f \in DOMAIN Filters
      PROVE  [k EXCEPT !.filter = f, !.page = 1] \in HistoryKeys
             /\ [k EXCEPT !.filter = f, !.page = 1].page = 1
  BY <1>1 DEF HistoryKeys
<1>3. ASSUME NEW n \in Sizes
      PROVE  [k EXCEPT !.size = n, !.page = 1] \in HistoryKeys
             /\ [k EXCEPT !.size = n, !.page = 1].page = 1
  BY <1>1 DEF HistoryKeys
<1>4. QED
  BY <1>2, <1>3

\* A page is read: the answer is as the server has it now, and nothing else is new.
LEMMA ReadingAnswers ==
  ASSUME HistoryInv, NEW k \in HistoryKeys, PageThere(k, total), Reading(k)
  PROVE  /\ \A r \in underWay' : DataRight(r.key, r.answer)
         /\ \A r, q \in underWay' : r.key = q.key => r = q
         /\ \A r \in underWay' : r.key = k => r \in Reader(k) \/ r.answer.until = total
         /\ k \in DOMAIN pagesRead \/ k.filter \notin Invalid => \E r \in underWay' : r.key = k
<1>1. CASE Reader(k) /= {} \/ k.filter \in Invalid
  <2>1. k \in DOMAIN pagesRead => k.filter \notin Invalid
    BY DEF HistoryInv, DataRight
  <2>2. underWay' = underWay
    BY <1>1 DEF Reading
  <2>3. k.filter \notin Invalid => \E r \in underWay : r.key = k
    BY <1>1 DEF Reader
  <2>4. \A r \in underWay : r.key = k => r \in Reader(k)
    BY DEF Reader
  <2>5. QED
    BY <2>1, <2>2, <2>3, <2>4 DEF HistoryInv
<1>2. CASE ~(Reader(k) /= {} \/ k.filter \in Invalid)
  <2> DEFINE new == [key |-> k, answer |-> ServerPage(k)]
  <2>1. underWay' = underWay \cup {new} /\ new.key = k /\ new.answer = ServerPage(k)
    BY <1>2 DEF Reading
  <2> HIDE DEF new
  <2>2. DataRight(k, ServerPage(k)) /\ ServerPage(k).until = total
    BY <1>2, ServerAnswers
  <2>3. QED
    BY <1>2, <2>1, <2>2 DEF HistoryInv, Reader
<1>3. QED
  BY <1>1, <1>2

(***************************************************************************)
(* The steps                                                                 *)
(***************************************************************************)
LEMMA RunHistoryInitInv == RunHistoryInit => HistoryInv
<1> SUFFICES ASSUME RunHistoryInit PROVE HistoryInv
  OBVIOUS
<1>1. PICK f \in DOMAIN Filters \ Invalid : \E n \in Sizes : shownKey = [page |-> 1, size |-> n, filter |-> f]
  BY DEF RunHistoryInit
<1>2. PICK n \in Sizes : shownKey = [page |-> 1, size |-> n, filter |-> f]
  BY <1>1
<1>3. total \in 0..MaxTotal /\ total \in Nat /\ pagesRead = <<>> /\ walk = [whole |-> FALSE, at |-> 0, seen |-> {}]
      /\ underWay = {[key |-> shownKey, answer |-> ServerPage(shownKey)]}
  BY RunHistoryAssumption DEF RunHistoryInit, NoWalk
<1>4. shownKey \in HistoryKeys /\ shownKey.page = 1 /\ shownKey.filter \notin Invalid
  BY <1>2 DEF HistoryKeys
<1>5. PageThere(shownKey, total)
  BY <1>3, <1>4, FirstPageThere
<1>6. DOMAIN pagesRead = {}
  BY <1>3
<1> DEFINE d == ServerPage(shownKey)
<1>7. DataRight(shownKey, d)
  <2>1. d.until = total /\ d.total = Cardinality(Matching(shownKey.filter))
        /\ d.runs = {i \in Matching(shownKey.filter) :
             Rank(i, shownKey.filter) \in (Offset(shownKey) + 1)..(Offset(shownKey) + shownKey.size)}
    BY DEF ServerPage
  <2> HIDE DEF d
  <2>2. Matching(shownKey.filter) = RunsAt(shownKey.filter, total)
        /\ \A i : Rank(i, shownKey.filter) = RankAt(i, shownKey.filter, total)
    BY DEF Matching, RunsAt, Rank, RankAt
  <2>3. QED
    BY <1>3, <1>4, <1>5, <2>1, <2>2 DEF DataRight
<1>8. \A r \in underWay : r.key = shownKey /\ r.answer = d
  BY <1>3
<1> HIDE DEF d
<1>9. walk \in [whole: BOOLEAN, at: Nat, seen: SUBSET Nat] /\ ~walk.whole
  BY <1>3
<1>10. \A r, q \in underWay : r = q
  BY <1>3
<1>11. QED
  BY <1>3, <1>4, <1>5, <1>6, <1>7, <1>8, <1>9, <1>10 DEF HistoryInv, WalkRight

\* A run is added, ...
LEMMA NewRunInv == ASSUME HistoryInv, NewRun PROVE HistoryInv'
<1>1. /\ total < MaxTotal /\ total' = total + 1 /\ UNCHANGED <<shownKey, pagesRead, notRead, underWay, walk>>
  BY DEF NewRun
<1>2. total \in Nat /\ total' \in 0..MaxTotal /\ total' \in Nat /\ total <= total'
  BY <1>1, RunHistoryAssumption DEF HistoryInv
<1>3. PageThere(shownKey, total') /\ shownKey \in HistoryKeys
  BY <1>2, PagesStay DEF HistoryInv
<1>4. (\A k \in DOMAIN pagesRead : DataRight(k, pagesRead[k]))'
  <2>1. ASSUME NEW k \in DOMAIN pagesRead, NEW d, d = pagesRead[k]
        PROVE  DataRight(k, d)'
    BY <1>2, <2>1, DataStays DEF HistoryInv
  <2>2. QED
    BY <1>1, <2>1 DEF DataRight
<1>5. (\A r \in underWay : DataRight(r.key, r.answer))'
  <2>1. \A r \in underWay : DataRight(r.key, r.answer)'
    BY <1>2, DataStays DEF HistoryInv
  <2>2. QED
    BY <1>1, <2>1 DEF DataRight
<1>6. WalkRight'
  <2>1. ASSUME walk.whole
        PROVE  SeenTo(total', Offset(shownKey))
    <3>1. SeenTo(total, Offset(shownKey)) /\ Offset(shownKey) \in Nat
      BY <1>3, <2>1, Offsets DEF HistoryInv, WalkRight
    <3>2. QED
      BY <1>2, <3>1, SeenLess
  <2>2. QED
    BY <1>1, <2>1 DEF HistoryInv, WalkRight, SeenTo, Reader, PageSettled, Read, Offset
<1>7. QED
  BY <1>1, <1>2, <1>3, <1>4, <1>5, <1>6 DEF HistoryInv, PageThere

\* What was read is right whatever is shown.
LEMMA DataKept ==
  ASSUME HistoryInv, total' = total, pagesRead' = pagesRead, \A r \in underWay' : DataRight(r.key, r.answer)
  PROVE  /\ (\A k \in DOMAIN pagesRead : DataRight(k, pagesRead[k]))'
         /\ (\A r \in underWay : DataRight(r.key, r.answer))'
BY DEF HistoryInv, DataRight

\* ... an answer comes, which for the page that is shown continues the walk, ...
LEMMA ArriveInv == ASSUME HistoryInv, Arrive PROVE HistoryInv'
<1>1. PICK r \in underWay :
        /\ underWay' = underWay \ {r} /\ notRead' = notRead \ {r.key}
        /\ pagesRead' = [k \in DOMAIN pagesRead \cup {r.key} |-> IF k = r.key THEN r.answer ELSE pagesRead[k]]
        /\ walk' = IF r.key = shownKey THEN Walks(r.key, r.answer) ELSE walk
        /\ UNCHANGED <<total, shownKey>>
  BY DEF Arrive
<1>2. PICK d : d = r.answer
  OBVIOUS
<1>3. DataRight(r.key, d) /\ r.key \in HistoryKeys /\ d.until \in Nat /\ total \in Nat /\ d.until <= total
  BY <1>2, RunHistoryAssumption DEF HistoryInv, DataRight
<1>4. (\A k \in DOMAIN pagesRead : DataRight(k, pagesRead[k]))'
  BY <1>1, <1>2, <1>3 DEF HistoryInv, DataRight
<1>5. (\A q \in underWay : DataRight(q.key, q.answer))'
  BY <1>1 DEF HistoryInv, DataRight
<1>6. \A q \in underWay' : q.key /= r.key
  BY <1>1 DEF HistoryInv
<1>7. CASE r.key /= shownKey
  <2>1. walk' = walk /\ Reader(shownKey)' = Reader(shownKey) /\ (PageSettled' <=> PageSettled)
        /\ (Read(shownKey) => pagesRead'[shownKey] = pagesRead[shownKey])
    BY <1>1, <1>7 DEF Reader, PageSettled, Read
  <2>2. WalkRight'
    BY <1>1, <2>1 DEF HistoryInv, WalkRight, SeenTo, PageSettled, Read, Offset
  <2>3. QED
    BY <1>1, <1>4, <1>5, <2>1, <2>2 DEF HistoryInv, PageThere
<1>8. CASE r.key = shownKey
  <2>1. Reader(shownKey)' = {}
    BY <1>1, <1>6, <1>8 DEF Reader
  <2>2. /\ Offset(shownKey) \in Nat /\ shownKey.size \in Nat \ {0} /\ shownKey.page \in Nat \ {0}
        /\ shownKey.filter \in DOMAIN Filters /\ (shownKey.page = 1 => Offset(shownKey) = 0)
        /\ \A i \in Filters[shownKey.filter] : i \in Nat
    BY <1>3, <1>8, Offsets, RunHistoryAssumption
  <2>3. d.runs = {i \in RunsAt(shownKey.filter, d.until) :
                    RankAt(i, shownKey.filter, d.until)
                      \in (Offset(shownKey) + 1)..(Offset(shownKey) + shownKey.size)}
    BY <1>3, <1>8 DEF DataRight
  <2>4. d.runs \subseteq Nat
    BY <2>2, <2>3 DEF RunsAt
  <2>5. pagesRead'[shownKey] = d /\ walk' = Walks(shownKey, d)
    BY <1>1, <1>2, <1>8
  <2>6. CASE shownKey.page = 1
    <3>1. walk' = [whole |-> TRUE, at |-> d.until, seen |-> d.runs]
      BY <2>5, <2>6 DEF Walks
    <3>2. walk' \in [whole: BOOLEAN, at: Nat, seen: SUBSET Nat] /\ walk'.at = d.until /\ walk'.seen = d.runs
      BY <1>3, <2>4, <3>1
    <3>3. ASSUME NEW i \in Filters[shownKey.filter], i <= d.until
          PROVE  ~(RankAt(i, shownKey.filter, total) <= 0)
      <4>1. i <= total
        BY <1>3, <2>2, <3>3
      <4>2. QED
        BY <1>3, <2>2, <4>1, SeenNone
    <3>4. ASSUME NEW i \in Filters[shownKey.filter], i <= d.until,
                 RankAt(i, shownKey.filter, d.until) <= Offset(shownKey) + shownKey.size
          PROVE  i \in d.runs
      <4>1. i \in RunsAt(shownKey.filter, d.until) /\ i \in Nat
        BY <2>2, <3>4 DEF RunsAt
      <4>2. RankAt(i, shownKey.filter, d.until) \in Nat /\ RankAt(i, shownKey.filter, d.until) >= 1
        <5>1. d.until <= d.until /\ i <= i
          BY <1>3, <4>1
        <5>2. QED
          BY <1>3, <2>2, <4>1, <5>1, RanksGrow
      <4>3. QED
        BY <2>2, <2>3, <2>6, <3>4, <4>1, <4>2
    <3>5. SeenTo(total, Offset(shownKey))'
      BY <1>1, <1>3, <2>2, <2>6, <3>2, <3>3 DEF SeenTo, RunsAt, RankAt, Offset
    <3>6. SeenTo(pagesRead[shownKey].until, Offset(shownKey) + shownKey.size)'
      <4>1. pagesRead'[shownKey'].until = d.until /\ shownKey' = shownKey /\ d.until <= d.until
        BY <1>1, <1>3, <2>5
      <4>2. \A i \in Filters[shownKey.filter] :
              i <= walk'.at /\ RankAt(i, shownKey.filter, d.until) <= Offset(shownKey) + shownKey.size
                => i \in walk'.seen
        BY <3>2, <3>4
      <4>3. walk'.at <= d.until
        BY <3>2, <4>1
      <4>4. QED
        BY <4>1, <4>2, <4>3 DEF SeenTo, RunsAt, RankAt, Offset
    <3>7. WalkRight'
      BY <2>1, <3>5, <3>6 DEF WalkRight
    <3>8. QED
      BY <1>1, <1>4, <1>5, <3>2, <3>7 DEF HistoryInv, PageThere
  <2>7. CASE shownKey.page /= 1
    <3>1. walk' = [walk EXCEPT !.seen = @ \cup d.runs] /\ walk \in [whole: BOOLEAN, at: Nat, seen: SUBSET Nat]
      BY <2>5, <2>7 DEF Walks, HistoryInv
    <3>2. walk' \in [whole: BOOLEAN, at: Nat, seen: SUBSET Nat] /\ walk'.at = walk.at
          /\ walk'.seen = walk.seen \cup d.runs /\ walk'.whole = walk.whole
      BY <2>4, <3>1
    <3>3. SUFFICES ASSUME walk.whole PROVE WalkRight'
      BY <1>1, <1>4, <1>5, <3>2 DEF HistoryInv, PageThere, WalkRight
    <3>4. SeenTo(total, Offset(shownKey)) /\ SeenTo(d.until, Offset(shownKey))
      BY <1>1, <1>2, <1>8, <3>3 DEF HistoryInv, WalkRight, Reader
    <3>5. ASSUME NEW i \in Filters[shownKey.filter], i <= walk.at,
                 RankAt(i, shownKey.filter, d.until) <= Offset(shownKey) + shownKey.size
          PROVE  i \in walk.seen \cup d.runs
      <4>1. i \in Nat /\ i <= d.until /\ i \in RunsAt(shownKey.filter, d.until)
        BY <1>3, <2>2, <3>1, <3>4, <3>5 DEF SeenTo, RunsAt
      <4>2. RankAt(i, shownKey.filter, d.until) \in Nat
        <5>1. d.until <= d.until /\ i <= i
          BY <1>3, <4>1
        <5>2. QED
          BY <1>3, <2>2, <4>1, <5>1, RanksGrow
      <4>3. CASE RankAt(i, shownKey.filter, d.until) <= Offset(shownKey)
        BY <3>4, <3>5, <4>3 DEF SeenTo
      <4>4. CASE ~(RankAt(i, shownKey.filter, d.until) <= Offset(shownKey))
        BY <2>2, <2>3, <3>5, <4>1, <4>2, <4>4
      <4>5. QED
        BY <4>3, <4>4
    <3>6. SeenTo(total, Offset(shownKey))'
      BY <1>1, <3>2, <3>4 DEF SeenTo, RunsAt, RankAt, Offset
    <3>7. SeenTo(pagesRead[shownKey].until, Offset(shownKey) + shownKey.size)'
      BY <1>1, <2>5, <3>2, <3>4, <3>5 DEF SeenTo, RunsAt, RankAt, Offset
    <3>8. QED
      BY <2>1, <3>6, <3>7 DEF WalkRight
  <2>8. QED
    BY <2>6, <2>7
<1>9. QED
  BY <1>7, <1>8

\* ... or does not, ...
LEMMA ReadingFailsInv == ASSUME HistoryInv, ReadingFails PROVE HistoryInv'
<1>1. PICK r \in underWay : underWay' = underWay \ {r} /\ notRead' = notRead \cup {r.key}
  BY DEF ReadingFails
<1>2. UNCHANGED <<total, shownKey, pagesRead, walk>>
  BY DEF ReadingFails
<1>3. \A q \in underWay' : DataRight(q.key, q.answer)
  BY <1>1 DEF HistoryInv
<1>4. /\ (\A k \in DOMAIN pagesRead : DataRight(k, pagesRead[k]))'
      /\ (\A q \in underWay : DataRight(q.key, q.answer))'
  BY <1>2, <1>3, DataKept
<1>5. Reader(shownKey)' \subseteq Reader(shownKey) /\ (PageSettled' => PageSettled)
  BY <1>1, <1>2 DEF Reader, PageSettled, Read, HistoryInv
<1>6. WalkRight'
  BY <1>2, <1>5 DEF HistoryInv, WalkRight, SeenTo, Offset
<1>7. QED
  BY <1>1, <1>2, <1>4, <1>6 DEF HistoryInv, PageThere

\* ... a page is chosen, which ends the walk unless it is the next one, ...
LEMMA TurnInv ==
  ASSUME HistoryInv, NEW k \in HistoryKeys, PageThere(k, total), Turn(k),
         walk' \in [whole: BOOLEAN, at: Nat, seen: SUBSET Nat], WalkRight'
  PROVE  HistoryInv'
<1>1. shownKey' = k /\ Reading(k) /\ UNCHANGED <<total, pagesRead>>
  BY DEF Turn
<1>2. /\ \A r \in underWay' : DataRight(r.key, r.answer)
      /\ \A r, q \in underWay' : r.key = q.key => r = q
  BY <1>1, ReadingAnswers
<1>3. /\ (\A q \in DOMAIN pagesRead : DataRight(q, pagesRead[q]))'
      /\ (\A r \in underWay : DataRight(r.key, r.answer))'
  BY <1>1, <1>2, DataKept
<1>4. QED
  BY <1>1, <1>2, <1>3 DEF HistoryInv, PageThere

\* Without a walk there is nothing to see.
LEMMA NoWalkRight ==
  ASSUME walk' = NoWalk
  PROVE  WalkRight' /\ walk' \in [whole: BOOLEAN, at: Nat, seen: SUBSET Nat]
BY DEF NoWalk, WalkRight

LEMMA NextPageInv == ASSUME HistoryInv, NextPage PROVE HistoryInv'
<1>1. PICK next : next = [shownKey EXCEPT !.page = @ + 1]
  OBVIOUS
<1>2. /\ ~Loading /\ shownKey.page < PageCount /\ Turn(next)
      /\ walk' = IF PageSettled /\ Reader(next) = {} THEN walk ELSE NoWalk
  BY <1>1 DEF NextPage
<1>3. /\ total \in Nat /\ total <= total /\ shownKey \in HistoryKeys
      /\ shownKey.page \in Nat \ {0} /\ shownKey.size \in Nat \ {0} /\ shownKey.filter \in DOMAIN Filters
  BY HistoryTyped
<1>4. next \in HistoryKeys /\ next.page = shownKey.page + 1 /\ next.size = shownKey.size
      /\ next.filter = shownKey.filter
  BY <1>1, <1>3 DEF HistoryKeys
<1>5. Offset(next) = Offset(shownKey) + shownKey.size /\ Offset(next) \in Nat
  <2>1. shownKey.page * shownKey.size = (shownKey.page - 1) * shownKey.size + shownKey.size
    BY <1>3
  <2>2. Offset(next) = shownKey.page * shownKey.size
    BY <1>3, <1>4 DEF Offset
  <2>3. QED
    BY <1>4, <2>1, <2>2, Offsets DEF Offset
<1>6. Read(shownKey) /\ PageShown = pagesRead[shownKey]
  <2>1. PageShown /= None
    BY <1>2, <1>3 DEF PageCount
  <2>2. QED
    BY <1>2, <2>1 DEF Loading, PageShown, Pending
<1>7. PICK d : d = pagesRead[shownKey]
  OBVIOUS
<1>8. DataRight(shownKey, d)
  BY <1>6, <1>7 DEF HistoryInv, Read
<1>9. /\ d.until \in Nat /\ d.until <= total /\ d.total = Cardinality(RunsAt(shownKey.filter, d.until))
      /\ shownKey.filter \notin Invalid
  BY <1>3, <1>8 DEF DataRight
<1>10. PageThere(next, total)
  <2>1. d.total \in Nat
    BY <1>3, <1>9, RunsGrow
  <2>2. Pages(d.total, shownKey.size) \in Nat
    BY <1>3, <2>1 DEF Pages
  <2>3. shownKey.page < Pages(d.total, shownKey.size)
    BY <1>2, <1>3, <1>6, <1>7 DEF PageCount
  <2>4. PageThere(next, d.until)
    BY <1>3, <1>4, <1>9, <2>2, <2>3 DEF PageThere
  <2>5. QED
    BY <1>3, <1>4, <1>9, <2>4, PagesStay
<1>11. walk' \in [whole: BOOLEAN, at: Nat, seen: SUBSET Nat] /\ WalkRight'
  <2>1. CASE ~(PageSettled /\ Reader(next) = {})
    BY <1>2, <2>1, NoWalkRight
  <2>2. CASE PageSettled /\ Reader(next) = {}
    <3>1. walk' = walk /\ shownKey' = next /\ Reading(next) /\ total' = total
      BY <1>2, <2>2 DEF Turn
    <3>2. /\ \A r \in underWay' : r.key = next => r.answer.until = total
          /\ \E r \in underWay' : r.key = next
      BY <1>4, <1>9, <1>10, <2>2, <3>1, ReadingAnswers
    <3>3. ~PageSettled'
      BY <3>1, <3>2 DEF PageSettled, Reader
    <3>4. walk.whole => SeenTo(total, Offset(next))
      <4>1. walk.whole => SeenTo(d.until, Offset(next))
        BY <1>5, <1>7, <2>2 DEF HistoryInv, WalkRight
      <4>2. QED
        BY <1>3, <1>5, <1>9, <4>1, SeenLess
    <3>5. walk.whole => SeenTo(total, Offset(next))'
      BY <1>4, <3>1, <3>4 DEF SeenTo, RunsAt, RankAt, Offset
    <3>6. WalkRight'
      BY <3>1, <3>2, <3>3, <3>5 DEF WalkRight, SeenTo, Reader
    <3>7. QED
      BY <3>1, <3>6 DEF HistoryInv
  <2>3. QED
    BY <2>1, <2>2
<1>12. QED
  BY <1>2, <1>4, <1>10, <1>11, TurnInv

LEMMA PreviousPageInv == ASSUME HistoryInv, PreviousPage PROVE HistoryInv'
<1>1. PICK k : k = [shownKey EXCEPT !.page = @ - 1]
  OBVIOUS
<1>2. shownKey.page > 1 /\ Turn(k) /\ walk' = NoWalk
  BY <1>1 DEF PreviousPage
<1>3. /\ total \in Nat /\ total <= total /\ shownKey \in HistoryKeys /\ PageThere(shownKey, total)
      /\ shownKey.page \in Nat \ {0} /\ shownKey.size \in Nat \ {0} /\ shownKey.filter \in DOMAIN Filters
  BY HistoryTyped
<1>4. k \in HistoryKeys /\ k.page = shownKey.page - 1 /\ k.size = shownKey.size /\ k.filter = shownKey.filter
  BY <1>1, <1>2, <1>3 DEF HistoryKeys
<1>5. PageThere(k, total)
  <2>1. Cardinality(RunsAt(k.filter, total)) \in Nat
    BY <1>3, <1>4, RunsGrow
  <2>2. Pages(Cardinality(RunsAt(k.filter, total)), k.size) \in Nat
    BY <1>3, <1>4, <2>1 DEF Pages
  <2>3. QED
    BY <1>3, <1>4, <2>2 DEF PageThere
<1>6. QED
  BY <1>2, <1>4, <1>5, NoWalkRight, TurnInv

\* ... with a filter or a size from its first page on, ...
LEMMA ChooseInv == ASSUME HistoryInv, ChooseFilter \/ ChooseSize PROVE HistoryInv'
<1>1. PICK shown : shown = shownKey
  OBVIOUS
<1>2. shown \in HistoryKeys /\ total \in Nat
  BY <1>1, HistoryTyped
<1>3. PICK k \in HistoryKeys : Turn(k) /\ k.page = 1
  <2>1. CASE ChooseFilter
    <3>1. PICK f \in DOMAIN Filters : Turn([shown EXCEPT !.filter = f, !.page = 1])
      BY <1>1, <2>1 DEF ChooseFilter
    <3>2. QED
      BY <1>2, <3>1, FirstPageKeys
  <2>2. CASE ChooseSize
    <3>1. PICK n \in Sizes : Turn([shown EXCEPT !.size = n, !.page = 1])
      BY <1>1, <2>2 DEF ChooseSize
    <3>2. QED
      BY <1>2, <3>1, FirstPageKeys
  <2>3. QED
    BY <2>1, <2>2
<1>4. walk' = NoWalk
  BY DEF ChooseFilter, ChooseSize
<1>5. PageThere(k, total)
  BY <1>2, <1>3, FirstPageThere
<1>6. QED
  BY <1>3, <1>4, <1>5, NoWalkRight, TurnInv

\* ... or it is read again.
LEMMA RefreshPageInv == ASSUME HistoryInv, RefreshPage PROVE HistoryInv'
<1>1. /\ Reader(shownKey) = {} /\ shownKey.filter \notin Invalid /\ Reading(shownKey)
      /\ walk' = IF Read(shownKey) THEN walk ELSE NoWalk
      /\ UNCHANGED <<total, shownKey, pagesRead>>
  BY DEF RefreshPage
<1>2. PICK k : k = shownKey
  OBVIOUS
<1>3. k \in HistoryKeys /\ PageThere(k, total) /\ Reading(k)
  BY <1>1, <1>2 DEF HistoryInv
<1>4. /\ \A r \in underWay' : DataRight(r.key, r.answer)
      /\ \A r, q \in underWay' : r.key = q.key => r = q
      /\ \A r \in underWay' : r.key = k => r \in Reader(k) \/ r.answer.until = total
      /\ \E r \in underWay' : r.key = k
  BY <1>1, <1>2, <1>3, ReadingAnswers
<1>5. /\ (\A q \in DOMAIN pagesRead : DataRight(q, pagesRead[q]))'
      /\ (\A r \in underWay : DataRight(r.key, r.answer))'
  BY <1>1, <1>4, DataKept
<1>6. WalkRight' /\ walk' \in [whole: BOOLEAN, at: Nat, seen: SUBSET Nat]
  <2>1. CASE ~Read(shownKey)
    BY <1>1, <2>1, NoWalkRight
  <2>2. CASE Read(shownKey)
    <3>1. walk' = walk
      BY <1>1, <2>2
    <3>2. /\ \A r \in underWay' : r.key = shownKey => r.answer.until = total
          /\ \E r \in underWay' : r.key = shownKey
      BY <1>1, <1>2, <1>4
    <3>3. ~PageSettled'
      BY <1>1, <3>2 DEF PageSettled, Reader
    <3>4. WalkRight'
      BY <1>1, <3>1, <3>2, <3>3 DEF HistoryInv, WalkRight, SeenTo, Reader, Offset
    <3>5. QED
      BY <3>1, <3>4 DEF HistoryInv
  <2>3. QED
    BY <2>1, <2>2
<1>7. QED
  BY <1>1, <1>4, <1>5, <1>6 DEF HistoryInv, PageThere

\* The invariant is inductive.
LEMMA RunHistoryStepInv == HistoryInv /\ [RunHistoryNext]_historyVars => HistoryInv'
<1> SUFFICES ASSUME HistoryInv, [RunHistoryNext]_historyVars PROVE HistoryInv'
  OBVIOUS
<1>1. CASE UNCHANGED historyVars
  <2>1. UNCHANGED <<total, shownKey, pagesRead, notRead, underWay, walk>>
    BY <1>1 DEF historyVars
  <2>2. \A r \in underWay' : DataRight(r.key, r.answer)
    BY <2>1 DEF HistoryInv
  <2>3. /\ (\A k \in DOMAIN pagesRead : DataRight(k, pagesRead[k]))'
        /\ (\A r \in underWay : DataRight(r.key, r.answer))'
    BY <2>1, <2>2, DataKept
  <2>4. WalkRight'
    BY <2>1 DEF HistoryInv, WalkRight, SeenTo, Reader, PageSettled, Read, Offset
  <2>5. QED
    BY <2>1, <2>3, <2>4 DEF HistoryInv, PageThere
<1>2. CASE RunHistoryNext
  BY <1>2, NewRunInv, ArriveInv, ReadingFailsInv, NextPageInv, PreviousPageInv, ChooseInv, RefreshPageInv
    DEF RunHistoryNext
<1>3. QED
  BY <1>1, <1>2

\* However runs are added and whatever is chosen, refreshed or lost, the history shows pages
\* that exist, and going forward page by page passes over no run.
THEOREM NoRunPassedOver == RunHistorySpec => []HistoryComplete
<1>1. HistoryInv => HistoryComplete
  <2> SUFFICES ASSUME HistoryInv PROVE HistoryComplete
    OBVIOUS
  <2>1. total \in Nat /\ total <= total /\ shownKey \in HistoryKeys /\ PageThere(shownKey, total)
    BY HistoryTyped
  <2>2. HistoryTypeOK
    <3>1. shownKey.page \in 1..(MaxTotal + 1)
      BY <2>1, PagesStay
    <3>2. QED
      BY <3>1 DEF HistoryInv, HistoryKeys, HistoryTypeOK, DataRight
  <2>3. NoPageBeyond
    BY DEF HistoryInv, DataRight, PageThere, Read, NoPageBeyond
  <2>4. PagingMissesNothing
    <3>1. SUFFICES ASSUME PageSettled, walk.whole, NEW i \in Filters[shownKey.filter], i <= walk.at,
                          NEW j \in pagesRead[shownKey].runs, j <= i
                   PROVE  i \in walk.seen
      BY DEF PagingMissesNothing
    <3>2. PICK d : d = pagesRead[shownKey]
      OBVIOUS
    <3>3. DataRight(shownKey, d) /\ SeenTo(d.until, Offset(shownKey) + shownKey.size)
      BY <3>1, <3>2 DEF HistoryInv, WalkRight, PageSettled, Read
    <3>4. /\ j \in Filters[shownKey.filter] /\ d.until \in Nat
          /\ RankAt(j, shownKey.filter, d.until) \in (Offset(shownKey) + 1)..(Offset(shownKey) + shownKey.size)
      BY <2>1, <3>1, <3>2, <3>3 DEF DataRight, RunsAt
    <3>5. /\ shownKey.filter \in DOMAIN Filters /\ i \in Nat /\ j \in Nat
          /\ Offset(shownKey) \in Nat /\ shownKey.size \in Nat
      BY <2>1, <3>4, Offsets, RunHistoryAssumption
    <3>6. /\ RankAt(i, shownKey.filter, d.until) <= RankAt(j, shownKey.filter, d.until)
          /\ RankAt(i, shownKey.filter, d.until) \in Nat
      <4>1. d.until <= d.until
        BY <3>4
      <4>2. QED
        BY <3>1, <3>4, <3>5, <4>1, RanksGrow
    <3>7. RankAt(i, shownKey.filter, d.until) <= Offset(shownKey) + shownKey.size
      BY <3>4, <3>5, <3>6
    <3>8. QED
      BY <3>1, <3>3, <3>7 DEF SeenTo
  <2>5. QED
    BY <2>2, <2>3, <2>4 DEF HistoryComplete
<1>2. QED
  BY <1>1, RunHistoryInitInv, RunHistoryStepInv, PTL DEF RunHistorySpec

(***************************************************************************)
(* The service worker                                                       *)
(***************************************************************************)
\* A worker that was installed has its cache, with the shell it was installed with.
HasShell(w) ==
  /\ w \in DOMAIN shellOf /\ w \in DOMAIN caches /\ "shell" \in DOMAIN caches[w].has
  /\ caches[w].has["shell"] = shellOf[w]

\* Versions of the worker come in their order: none is installed again.
InVersionOrder ==
  /\ site \in Nat /\ site >= 1 /\ workerFile \in 1..site
  /\ worker /= None => worker \in 1..workerFile
  /\ installing /= None => installing \in 1..workerFile
  /\ worker /= None /\ installing /= None => worker < installing
  /\ workerFile \in DOMAIN shellOf => workerFile \in {worker, installing}
  /\ DOMAIN shellOf \subseteq 1..workerFile

\* The caches are numbered as they were made.
CachesNumbered ==
  /\ IsFiniteSet(DOMAIN caches)
  /\ \A v \in DOMAIN caches : caches[v].made \in 1..Cardinality(DOMAIN caches)
  /\ \A v, u \in DOMAIN caches : caches[v].made = caches[u].made => v = u
  /\ \A v \in DOMAIN caches : \A q \in DOMAIN caches[v].has : caches[v].has[q] \in 0..site

\* What is written is a file beside the shell.
PutsBeside == \A p \in puts : p.request = "picture" /\ p.content \in 0..site

\* The invariant that is proved of the worker: the active one has the first cache.
ShellInv ==
  /\ InVersionOrder /\ CachesNumbered /\ PutsBeside
  /\ worker /= None => HasShell(worker) /\ caches[worker].made = 1
  /\ installing /= None /\ installing \in DOMAIN shellOf => HasShell(installing)
  /\ ApiFromNetwork

\* What is found offline is in the first cache.
LEMMA FirstCacheFound ==
  ASSUME ShellInv, worker /= None
  PROVE  CachedOrOffline("shell") = shellOf[worker]
<1> DEFINE hits == {v \in DOMAIN caches : "shell" \in DOMAIN caches[v].has}
           first == CHOOSE v \in hits : \A u \in hits : caches[v].made <= caches[u].made
<1>1. worker \in hits /\ caches[worker].made = 1 /\ caches[worker].has["shell"] = shellOf[worker]
  BY DEF ShellInv, HasShell
<1>2. \A v \in hits : caches[v].made \in Nat /\ caches[v].made >= 1
  <2>1. Cardinality(DOMAIN caches) \in Nat
    BY FS_CardinalityType DEF ShellInv, CachesNumbered
  <2>2. QED
    BY <2>1 DEF ShellInv, CachesNumbered
<1>3. \A v, u \in hits : caches[v].made = caches[u].made => v = u
  BY DEF ShellInv, CachesNumbered
<1>4. CachedOrOffline("shell") = caches[first].has["shell"]
  BY <1>1 DEF CachedOrOffline
<1> HIDE DEF hits
<1>5. \A u \in hits : caches[worker].made <= caches[u].made
  BY <1>1, <1>2
<1>6. first \in hits /\ \A u \in hits : caches[first].made <= caches[u].made
  BY <1>1, <1>5
<1> HIDE DEF first
<1>7. first = worker
  <2>1. caches[first].made <= 1 /\ caches[first].made >= 1 /\ caches[first].made \in Nat
    BY <1>1, <1>2, <1>6
  <2>2. caches[first].made = 1
    BY <2>1
  <2>3. QED
    BY <1>1, <1>3, <1>6, <2>2
<1>8. QED
  BY <1>1, <1>4, <1>7

\* The caches after something was kept in one of them, which may have been made for it:
\* the numbers are in order, and of what was kept only that one thing has changed.
HaveKept(next, name, q, content) ==
  /\ DOMAIN next = DOMAIN caches \cup {name} /\ IsFiniteSet(DOMAIN next)
  /\ \A v \in DOMAIN next : next[v].made \in 1..Cardinality(DOMAIN next)
  /\ \A v, u \in DOMAIN next : next[v].made = next[u].made => v = u
  /\ \A v \in DOMAIN next : \A x \in DOMAIN next[v].has : next[v].has[x] \in 0..site
  /\ \A v \in DOMAIN caches : next[v].made = caches[v].made /\ DOMAIN caches[v].has \subseteq DOMAIN next[v].has
  /\ \A v \in DOMAIN caches : \A x \in DOMAIN caches[v].has :
       v /= name \/ x /= q => next[v].has[x] = caches[v].has[x]
  /\ q \in DOMAIN next[name].has /\ next[name].has[q] = content

\* Keeping something does no more.
LEMMA StoredKeeps ==
  ASSUME CachesNumbered, site \in Nat, NEW name, NEW q, NEW content \in 0..site
  PROVE  HaveKept(Stored(name, q, content), name, q, content)
<1> DEFINE kept == IF name \in DOMAIN caches THEN caches[name].has ELSE <<>>
           card == Cardinality(DOMAIN caches)
           one == [made |-> IF name \in DOMAIN caches THEN caches[name].made ELSE card + 1,
                   has  |-> [x \in DOMAIN kept \cup {q} |-> IF x = q THEN content ELSE kept[x]]]
           next == [v \in DOMAIN caches \cup {name} |-> IF v = name THEN one ELSE caches[v]]
<1>1. Stored(name, q, content) = next
  BY DEF Stored, Keeping
<1>2. card \in Nat /\ IsFiniteSet(DOMAIN caches)
  BY FS_CardinalityType DEF CachesNumbered
<1>3. /\ IsFiniteSet(DOMAIN caches \cup {name})
      /\ Cardinality(DOMAIN caches \cup {name}) = (IF name \in DOMAIN caches THEN card ELSE card + 1)
  BY <1>2, FS_AddElement
<1>4. /\ one.made = (IF name \in DOMAIN caches THEN caches[name].made ELSE card + 1)
      /\ DOMAIN one.has = DOMAIN kept \cup {q} /\ one.has[q] = content
      /\ \A x \in DOMAIN kept : x /= q => one.has[x] = kept[x]
  OBVIOUS
<1>5. \A x \in DOMAIN kept : kept[x] \in 0..site
  BY DEF CachesNumbered
<1>6. name \in DOMAIN caches => kept = caches[name].has
  OBVIOUS
<1>7. DOMAIN next = DOMAIN caches \cup {name} /\ next[name] = one
      /\ \A v \in DOMAIN caches : v /= name => next[v] = caches[v]
  OBVIOUS
<1>8. /\ \A v \in DOMAIN caches : caches[v].made \in 1..card
      /\ \A v, u \in DOMAIN caches : caches[v].made = caches[u].made => v = u
      /\ \A v \in DOMAIN caches : \A x \in DOMAIN caches[v].has : caches[v].has[x] \in 0..site
  BY DEF CachesNumbered
<1> HIDE DEF kept, one, next, card
<1>9. \A x \in DOMAIN one.has : one.has[x] \in 0..site
  BY <1>4, <1>5
<1>10. \A v \in DOMAIN next : next[v].made \in 1..Cardinality(DOMAIN next)
  <2>1. CASE name \in DOMAIN caches
    BY <1>2, <1>3, <1>4, <1>7, <1>8, <2>1
  <2>2. CASE name \notin DOMAIN caches
    <3>1. Cardinality(DOMAIN next) = card + 1
      BY <1>3, <1>7, <2>2
    <3>2. next[name].made = card + 1
      BY <1>4, <1>7, <2>2
    <3>3. ASSUME NEW v \in DOMAIN caches PROVE next[v].made \in 1..(card + 1)
      <4>1. v /= name /\ next[v].made = caches[v].made /\ caches[v].made \in 1..card
        BY <1>7, <1>8, <2>2
      <4>2. QED
        BY <1>2, <4>1
    <3>4. QED
      BY <1>2, <1>7, <3>1, <3>2, <3>3
  <2>3. QED
    BY <2>1, <2>2
<1>11. ASSUME NEW v \in DOMAIN next, NEW u \in DOMAIN next, next[v].made = next[u].made PROVE v = u
  <2>1. CASE name \in DOMAIN caches
    <3>1. next[v].made = caches[v].made /\ next[u].made = caches[u].made
      BY <1>4, <1>7, <2>1
    <3>2. QED
      BY <1>7, <1>8, <1>11, <2>1, <3>1
  <2>2. CASE name \notin DOMAIN caches
    <3>1. next[name].made = card + 1 /\ \A x \in DOMAIN caches : next[x].made = caches[x].made /\ caches[x].made /= card + 1
      BY <1>2, <1>4, <1>7, <1>8, <2>2
    <3>2. QED
      BY <1>7, <1>8, <1>11, <2>2, <3>1
  <2>3. QED
    BY <2>1, <2>2
<1>12. \A v \in DOMAIN next : \A x \in DOMAIN next[v].has : next[v].has[x] \in 0..site
  BY <1>7, <1>8, <1>9
<1>13. \A v \in DOMAIN caches : next[v].made = caches[v].made /\ DOMAIN caches[v].has \subseteq DOMAIN next[v].has
  BY <1>4, <1>6, <1>7
<1>14. \A v \in DOMAIN caches : \A x \in DOMAIN caches[v].has : v /= name \/ x /= q => next[v].has[x] = caches[v].has[x]
  BY <1>4, <1>6, <1>7
<1>15. q \in DOMAIN next[name].has /\ next[name].has[q] = content
  BY <1>4, <1>7
<1>16. HaveKept(next, name, q, content)
  BY <1>3, <1>7, <1>10, <1>11, <1>12, <1>13, <1>14, <1>15 DEF HaveKept
<1>17. QED
  BY <1>1, <1>16

\* In the beginning no worker was installed and nothing is kept.
LEMMA ShellInitInv == ShellCacheInit => ShellInv
<1> SUFFICES ASSUME ShellCacheInit PROVE ShellInv
  OBVIOUS
<1>1. DOMAIN shellOf = {} /\ DOMAIN caches = {}
  BY DEF ShellCacheInit
<1>2. IsFiniteSet(DOMAIN caches)
  BY <1>1, FS_EmptySet
<1>3. InVersionOrder /\ CachesNumbered /\ PutsBeside /\ ApiFromNetwork
  BY <1>1, <1>2 DEF ShellCacheInit, InVersionOrder, CachesNumbered, PutsBeside, ApiFromNetwork, NothingYet
<1>4. worker = None /\ (installing /= None => installing \notin DOMAIN shellOf)
  BY DEF ShellCacheInit
<1>5. QED
  BY <1>3, <1>4 DEF ShellInv

\* A deployment brings a release, and a worker, that are newer than all.
LEMMA DeployInv == ShellInv /\ Deploy => ShellInv'
<1> SUFFICES ASSUME ShellInv, Deploy PROVE ShellInv'
  OBVIOUS
<1>1. /\ site' = site + 1 /\ site' \in Nat /\ workerFile' \in {workerFile, site'} /\ workerFile' \in 1..site'
      /\ workerFile \in 1..site /\ site \in Nat
      /\ \A n \in 1..workerFile : n \in 1..workerFile'
      /\ \A n \in 0..site : n \in 0..site'
  BY DEF ShellInv, InVersionOrder, Deploy
<1>2. workerFile' = site' => workerFile' \notin 1..workerFile
  BY <1>1
<1>3. InVersionOrder'
  BY <1>1, <1>2 DEF ShellInv, InVersionOrder, Deploy
<1>4. CachesNumbered' /\ PutsBeside'
  BY <1>1 DEF ShellInv, CachesNumbered, PutsBeside, Deploy
<1>5. QED
  BY <1>3, <1>4 DEF ShellInv, HasShell, ApiFromNetwork, Deploy

\* The network does not matter to what is kept.
LEMMA SwitchNetworkInv == ShellInv /\ SwitchNetwork => ShellInv'
BY DEF ShellInv, InVersionOrder, CachesNumbered, PutsBeside, HasShell, ApiFromNetwork, SwitchNetwork

\* The worker the server has is a newer one than that which is active.
LEMMA RegisterWorkerInv == ShellInv /\ RegisterWorker => ShellInv'
<1> SUFFICES ASSUME ShellInv, RegisterWorker PROVE ShellInv'
  OBVIOUS
<1>1. installing' = workerFile /\ workerFile' = workerFile /\ worker' = worker /\ site' = site /\ shellOf' = shellOf
      /\ caches' = caches /\ puts' = puts /\ answer' = answer
  BY DEF RegisterWorker
<1>2. workerFile \notin DOMAIN shellOf
  BY DEF ShellInv, InVersionOrder, RegisterWorker
<1>3. worker /= None => worker < workerFile
  BY DEF ShellInv, InVersionOrder, RegisterWorker
<1>4. InVersionOrder'
  BY <1>1, <1>2, <1>3 DEF ShellInv, InVersionOrder
<1>5. QED
  BY <1>1, <1>2, <1>4 DEF ShellInv, CachesNumbered, PutsBeside, HasShell, ApiFromNetwork

\* All of the shell is kept in a cache of its own, or none of it.
LEMMA InstallWorkerInv == ShellInv /\ InstallWorker => ShellInv'
<1> SUFFICES ASSUME ShellInv, InstallWorker PROVE ShellInv'
  OBVIOUS
<1>1. installing /= None /\ installing \notin DOMAIN shellOf /\ workerFile' = workerFile /\ worker' = worker
      /\ site' = site /\ puts' = puts /\ answer' = answer
  BY DEF InstallWorker
<1>2. CASE ~reachable
  <2>1. installing' = None /\ caches' = caches /\ shellOf' = shellOf
    BY <1>2 DEF InstallWorker
  <2>2. InVersionOrder'
    BY <1>1, <2>1 DEF ShellInv, InVersionOrder
  <2>3. QED
    BY <1>1, <2>1, <2>2 DEF ShellInv, CachesNumbered, PutsBeside, HasShell, ApiFromNetwork
<1>3. CASE reachable
  <2>1. /\ caches' = Stored(installing, "shell", site) /\ installing' = installing
        /\ shellOf' = [w \in DOMAIN shellOf \cup {installing} |-> IF w = installing THEN site ELSE shellOf[w]]
    BY <1>3 DEF InstallWorker
  <2>2. DOMAIN shellOf' = DOMAIN shellOf \cup {installing} /\ shellOf'[installing] = site
        /\ \A w \in DOMAIN shellOf : shellOf'[w] = shellOf[w]
    BY <1>1, <2>1
  <2>3. site \in Nat /\ site \in 0..site /\ installing \in 1..workerFile
    BY <1>1 DEF ShellInv, InVersionOrder
  <2>4. HaveKept(caches', installing, "shell", site)
    BY <2>1, <2>3, StoredKeeps DEF ShellInv
  <2>5. CachesNumbered'
    BY <1>1, <2>4 DEF CachesNumbered, HaveKept
  <2>6. InVersionOrder'
    BY <1>1, <2>1, <2>2, <2>3 DEF ShellInv, InVersionOrder
  <2>7. HasShell(installing)'
    BY <2>1, <2>2, <2>4 DEF HasShell, HaveKept
  <2>8. worker /= None => (HasShell(worker) /\ caches[worker].made = 1)'
    BY <1>1, <2>2, <2>4 DEF ShellInv, HasShell, HaveKept
  <2>9. QED
    BY <1>1, <2>1, <2>5, <2>6, <2>7, <2>8 DEF ShellInv, PutsBeside, ApiFromNetwork
<1>4. QED
  BY <1>2, <1>3

\* The worker that takes over leaves its own cache alone.
LEMMA ActivateInv == ShellInv /\ Activate => ShellInv'
<1> SUFFICES ASSUME ShellInv, Activate PROVE ShellInv'
  OBVIOUS
<1>1. installing /= None /\ installing \in DOMAIN shellOf /\ HasShell(installing)
      /\ worker' = installing /\ installing' = None /\ site' = site /\ workerFile' = workerFile
      /\ shellOf' = shellOf /\ puts' = puts /\ answer' = answer
      /\ caches' = [v \in {installing} \cap DOMAIN caches |-> [made |-> 1, has |-> caches[v].has]]
  BY DEF Activate, ShellInv
<1>2. DOMAIN caches' = {installing} /\ caches'[installing].made = 1 /\ caches'[installing].has = caches[installing].has
  BY <1>1 DEF HasShell
<1>3. IsFiniteSet(DOMAIN caches') /\ Cardinality(DOMAIN caches') = 1
  BY <1>2, FS_Singleton
<1>4. CachesNumbered'
  <2>1. \A q \in DOMAIN caches[installing].has : caches[installing].has[q] \in 0..site
    BY <1>1 DEF ShellInv, CachesNumbered, HasShell
  <2>2. \A v \in DOMAIN caches' : v = installing /\ caches'[v].made = 1 /\ caches'[v].has = caches[installing].has
    BY <1>2
  <2>3. \A v \in DOMAIN caches' : caches'[v].made \in 1..Cardinality(DOMAIN caches')
    BY <1>3, <2>2
  <2>4. QED
    BY <1>1, <1>3, <2>1, <2>2, <2>3 DEF CachesNumbered
<1>5. InVersionOrder'
  BY <1>1 DEF ShellInv, InVersionOrder
<1>6. (worker /= None => HasShell(worker) /\ caches[worker].made = 1)'
  BY <1>1, <1>2 DEF HasShell
<1>7. QED
  BY <1>1, <1>4, <1>5, <1>6 DEF ShellInv, PutsBeside, ApiFromNetwork

\* A request of the API is not answered from what is kept, and what is to be kept is never
\* a shell.
LEMMA FetchThroughWorkerInv == ShellInv /\ FetchThroughWorker => ShellInv'
<1> SUFFICES ASSUME ShellInv, FetchThroughWorker PROVE ShellInv'
  OBVIOUS
<1>1. UNCHANGED <<site, workerFile, reachable, worker, installing, caches, shellOf>>
  BY DEF FetchThroughWorker
<1>2. PICK q \in Requests :
        \/ /\ answer' = [for |-> q, is |-> Network]
           /\ \/ puts' = puts
              \/ /\ Handled(q) /\ q /= "shell"
                 /\ puts' = puts \cup {[cache |-> worker, request |-> q, content |-> site]}
        \/ puts' = puts /\ answer' = [for |-> q, is |-> IF Handled(q) THEN CachedOrOffline(q) ELSE Network]
  BY DEF FetchThroughWorker
<1>3. PutsBeside'
  <2>1. site \in 0..site
    BY DEF ShellInv, InVersionOrder
  <2>2. QED
    BY <1>1, <1>2, <2>1 DEF ShellInv, PutsBeside, Handled, Requests
<1>4. ApiFromNetwork'
  BY <1>1, <1>2 DEF ApiFromNetwork, Handled, Network
<1>5. QED
  BY <1>1, <1>3, <1>4 DEF ShellInv, InVersionOrder, CachesNumbered, HasShell

\* A write that ends late does not touch a shell, and a cache it makes comes last.
LEMMA PutEndsInv == ShellInv /\ PutEnds => ShellInv'
<1> SUFFICES ASSUME ShellInv, PutEnds PROVE ShellInv'
  OBVIOUS
<1>1. PICK p \in puts :
        /\ puts' = puts \ {p} /\ caches' = Stored(p.cache, p.request, p.content)
        /\ UNCHANGED <<site, workerFile, reachable, worker, installing, shellOf, answer, fetches>>
  BY DEF PutEnds
<1>2. p.request = "picture" /\ p.content \in 0..site /\ site \in Nat
  BY DEF ShellInv, PutsBeside, InVersionOrder
<1>3. HaveKept(caches', p.cache, p.request, p.content)
  BY <1>1, <1>2, StoredKeeps DEF ShellInv
<1>4. CachesNumbered'
  BY <1>1, <1>3 DEF CachesNumbered, HaveKept
<1>5. \A w : HasShell(w) => HasShell(w)' /\ caches'[w].made = caches[w].made
  BY <1>1, <1>2, <1>3 DEF HasShell, HaveKept
<1>6. PutsBeside'
  BY <1>1 DEF ShellInv, PutsBeside
<1>7. QED
  BY <1>1, <1>4, <1>5, <1>6 DEF ShellInv, InVersionOrder, ApiFromNetwork

\* Every step keeps it.
LEMMA ShellStepInv == ShellInv /\ [ShellCacheNext]_shellVars => ShellInv'
<1> SUFFICES ASSUME ShellInv, [ShellCacheNext]_shellVars PROVE ShellInv'
  OBVIOUS
<1>1. CASE UNCHANGED shellVars
  BY <1>1 DEF shellVars, ShellInv, InVersionOrder, CachesNumbered, PutsBeside, HasShell, ApiFromNetwork
<1>2. QED
  BY <1>1, DeployInv, SwitchNetworkInv, RegisterWorkerInv, InstallWorkerInv, ActivateInv,
     FetchThroughWorkerInv, PutEndsInv DEF ShellCacheNext

\* However releases, installations and late writes come, once a worker is active there is a
\* shell without the network, the one of that worker, and never an answer of the API.
THEOREM ServedOffline == ShellCacheSpec => []OfflineSafe
<1>1. ShellInv => OfflineSafe
  <2> SUFFICES ASSUME ShellInv PROVE OfflineSafe
    OBVIOUS
  <2>1. OfflineShell /\ ApiFromNetwork
    BY FirstCacheFound DEF OfflineShell, ShellInv
  <2>2. \A v \in DOMAIN caches, q \in Requests : q \in DOMAIN caches[v].has => caches[v].has[q] <= site
    BY DEF ShellInv, CachesNumbered, InVersionOrder
  <2>3. ShellCacheTypeOK
    BY <2>2 DEF ShellCacheTypeOK, ShellInv, CachesNumbered, HasShell
  <2>4. QED
    BY <2>1, <2>3 DEF OfflineSafe
<1>2. QED
  BY <1>1, ShellInitInv, ShellStepInv, PTL DEF ShellCacheSpec

(***************************************************************************)
(* Choosing a file                                                          *)
(***************************************************************************)
\* Files, the names of JARs, the state of the path field with its browser, and that of the
\* browser of JARs
Files    == [dir: Seq(STRING), text: Texts]
JarNames == {t \in Texts : RuntimeBy[t] = "java"}
Pickers(active) ==
  [open: BOOLEAN, suggest: BOOLEAN, active: {active}, directory: Seq(STRING), filter: Runtimes \cup {"all"},
   search: Texts, selected: Files \cup {None}]
JarBrowsers == [open: BOOLEAN, page: Nat \ {0}, release: DOMAIN AssetsOf \cup {None}, assetPage: Nat \ {0}]

\* What a picker p shows fits, and its folder is one of the files seen.
PickerRight(p, seen) ==
  /\ p \in Pickers(p.active) /\ (p.active > 0 => p.suggest) /\ (p.open => ~p.suggest)
  /\ p.selected /= None => p.selected.dir = p.directory /\ Passes(p.selected.text, p.filter)
  /\ p.open /\ p.directory /= <<>> => \E f \in seen : IsPrefix(p.directory, f.dir)

\* The form
FileFormRight(f, hand) ==
  /\ f \in [path: Files, runtime: Runtimes, jar: JarNames \cup {None}] /\ hand \in BOOLEAN
  /\ f.jar /= None => f.runtime = "java" /\ f.path = [dir |-> JarsFolder, text |-> f.jar]
  /\ RuntimeBy[f.path.text] /= None /\ ~hand => f.runtime = RuntimeBy[f.path.text]

\* The browser of JARs, and the answer to query k
JarsRight(j) ==
  j \in JarBrowsers /\ (j.release /= None => (j.assetPage - 1) * JarsPerPage <= Len(AssetsOf[j.release]))
AnswerRight(k, rows) ==
  \/ \E n \in Nat \ {0} : k = <<"releases", 0, n>> /\ rows \in Seq(DOMAIN AssetsOf) \cup {None}
  \/ \E r \in DOMAIN AssetsOf, n \in Nat \ {0} : k = <<"jars", r, n>> /\ rows \in {PageIn(AssetsOf[r], n, JarsPerPage), None}

\* The invariant that is proved of the pickers.
PickersInv ==
  /\ FileFormRight(fileForm, byHand)
  /\ tree \subseteq Files /\ catalog \in [paths: (SUBSET Files) \cup {None}, unavailable: BOOLEAN] /\ browsed \subseteq Files
  /\ PickerRight(picker, browsed)
  /\ published \in 1..Len(Releases) /\ JarsRight(jars) /\ \A k \in DOMAIN lists : AnswerRight(k, lists[k])

(***************************************************************************)
(* What is on show                                                          *)
(***************************************************************************)
LEMMA KnownFiles == PickersInv => Known \subseteq Files
BY DEF PickersInv, Known

\* The rows of a folder: a folder is on the way to some file, a file is in it and passes.
LEMMA RowsOfFolder ==
  ASSUME Known \subseteq Files, NEW dir \in Seq(STRING), NEW filter, NEW e \in Contents(dir, filter)
  PROVE  /\ e.folder \in BOOLEAN
         /\ e.folder => /\ e.name \in STRING
                        /\ \E f \in Known : IsPrefix(dir, f.dir) /\ Len(f.dir) > Len(dir) /\ e.name = f.dir[Len(dir) + 1]
         /\ ~e.folder => e.name \in Texts /\ Passes(e.name, filter)
<1> DEFINE folders == {f.dir[Len(dir) + 1] : f \in {g \in Under(dir) : Len(g.dir) > Len(dir)}}
           files   == {f.text : f \in {g \in Under(dir) : g.dir = dir /\ Passes(g.text, filter)}}
<1>1. e \in {[name |-> n, folder |-> TRUE] : n \in folders} \cup {[name |-> n, folder |-> FALSE] : n \in files}
  BY DEF Contents
<1>2. CASE e \in {[name |-> n, folder |-> TRUE] : n \in folders}
  <2>1. PICK n \in folders : e = [name |-> n, folder |-> TRUE]
    BY <1>2
  <2>2. PICK f \in Under(dir) : Len(f.dir) > Len(dir) /\ n = f.dir[Len(dir) + 1]
    OBVIOUS
  <2>3. f \in Known /\ IsPrefix(dir, f.dir) /\ f.dir \in Seq(STRING)
    BY <2>2 DEF Under, Files
  <2>4. f.dir[Len(dir) + 1] \in STRING
    BY <2>2, <2>3
  <2>5. QED
    BY <2>1, <2>2, <2>3, <2>4
<1>3. CASE e \in {[name |-> n, folder |-> FALSE] : n \in files}
  <2>1. PICK n \in files : e = [name |-> n, folder |-> FALSE]
    BY <1>3
  <2>2. n \in Texts /\ Passes(n, filter)
    BY DEF Under, Files
  <2>3. QED
    BY <2>1, <2>2
<1>4. QED
  BY <1>1, <1>2, <1>3

LEMMA PathOfRow ==
  ASSUME PickersInv, NEW dir \in Seq(STRING), NEW filter, NEW e \in Contents(dir, filter)
  PROVE  PathOf(dir, e) \in Files
<1>1. e.folder => e.name \in STRING
  BY KnownFiles, RowsOfFolder
<1>2. ~e.folder => e.name \in Texts
  BY KnownFiles, RowsOfFolder
<1>3. e.folder => Append(dir, e.name) \in Seq(STRING)
  BY <1>1
<1>4. QED
  BY <1>2, <1>3, FilePickersAssumption DEF PathOf, Files

\* The beginning of a beginning, and one name more of the way
LEMMA UpIsPrefix ==
  ASSUME NEW s \in Seq(STRING), NEW t \in Seq(STRING), IsPrefix(s, t), NEW n \in 0..Len(s)
  PROVE  SubSeq(s, 1, n) \in Seq(STRING) /\ IsPrefix(SubSeq(s, 1, n), t)
<1> DEFINE u == SubSeq(s, 1, n)
<1>1. u \in Seq(STRING) /\ Len(u) = n /\ \A i \in 1..n : u[i] = s[i]
  BY SubSeqProperties
<1>2. Len(s) <= Len(t) /\ \A i \in 1..Len(s) : s[i] = t[i]
  <2>1. Len(s) <= Len(t) /\ SubSeq(s, 1, Len(s)) = SubSeq(t, 1, Len(s))
    BY DEF IsPrefix
  <2>2. \A i \in 1..Len(s) : SubSeq(s, 1, Len(s))[i] = s[i] /\ SubSeq(t, 1, Len(s))[i] = t[i]
    BY <2>1, SubSeqProperties
  <2>3. QED
    BY <2>1, <2>2
<1>3. SubSeq(u, 1, n) = SubSeq(t, 1, n)
  BY <1>1, <1>2, SubSeqProperties
<1>4. QED
  BY <1>1, <1>2, <1>3 DEF IsPrefix

LEMMA OnePrefixMore ==
  ASSUME NEW s \in Seq(STRING), NEW t \in Seq(STRING), IsPrefix(s, t), Len(t) > Len(s)
  PROVE  IsPrefix(Append(s, t[Len(s) + 1]), t)
<1> DEFINE m == Len(s) + 1
           u == Append(s, t[m])
<1>1. m \in 1..Len(t) /\ t[m] \in STRING
  OBVIOUS
<1>2. u \in Seq(STRING) /\ Len(u) = m /\ u[m] = t[m] /\ \A i \in 1..Len(s) : u[i] = s[i]
  BY <1>1
<1>3. \A i \in 1..Len(s) : s[i] = t[i]
  <2>1. Len(s) <= Len(t) /\ SubSeq(s, 1, Len(s)) = SubSeq(t, 1, Len(s))
    BY DEF IsPrefix
  <2>2. \A i \in 1..Len(s) : SubSeq(s, 1, Len(s))[i] = s[i] /\ SubSeq(t, 1, Len(s))[i] = t[i]
    BY <2>1, SubSeqProperties
  <2>3. QED
    BY <2>1, <2>2
<1>4. \A i \in 1..m : u[i] = t[i]
  BY <1>1, <1>2, <1>3
<1> HIDE DEF u
<1>5. SubSeq(u, 1, m) = SubSeq(t, 1, m)
  BY <1>1, <1>2, <1>4, SubSeqProperties
<1>6. IsPrefix(u, t)
  BY <1>1, <1>2, <1>5 DEF IsPrefix
<1>7. QED
  BY <1>6 DEF u

(***************************************************************************)
(* The path field and the browser                                           *)
(***************************************************************************)
LEMMA EmptyText == "" \in Texts /\ RuntimeBy[""] = None /\ NoText \in Files
<1>1. <<>> \in Seq(STRING)
  OBVIOUS
<1>2. "" \in Texts /\ RuntimeBy[""] = None
  BY FilePickersAssumption
<1>3. QED
  BY <1>1, <1>2 DEF NoText, Files

LEMMA NewPickerRight == ASSUME NEW r \in Runtimes, NEW seen PROVE PickerRight(NewPicker(r), seen)
<1> DEFINE p == NewPicker(r)
<1>1. <<>> \in Seq(STRING)
  OBVIOUS
<1>2. p \in Pickers(0) /\ p.active = 0 /\ p.selected = None /\ p.open = FALSE
  BY <1>1, EmptyText DEF NewPicker, Pickers
<1> HIDE DEF p
<1>3. PickerRight(p, seen)
  BY <1>2 DEF PickerRight
<1>4. QED
  BY <1>3 DEF p

LEMMA NewJarsRight == JarsRight(NewJars)
BY DEF JarsRight, NewJars, JarBrowsers

\* The path is changed while no JAR is pinned.
LEMMA PathChanged ==
  ASSUME PickersInv, fileForm.jar = None, NEW path \in Files, NEW p, PickerRight(p, browsed), ChangePath(path, p)
  PROVE  FileFormRight(fileForm', byHand') /\ PickerRight(picker', browsed) /\ JarsRight(jars')
<1> DEFINE named == RuntimeBy[path.text]
           next == [fileForm EXCEPT !.path = path, !.runtime = IF named = None THEN @ ELSE named]
<1>1. named \in Runtimes \cup {None}
  BY FilePickersAssumption DEF Files
<1>2. /\ next \in [path: Files, runtime: Runtimes, jar: JarNames \cup {None}] /\ next.jar = None /\ next.path = path
      /\ next.runtime = IF named = None THEN fileForm.runtime ELSE named
  BY <1>1 DEF PickersInv, FileFormRight
<1>3. byHand' = (byHand /\ named = None)
  BY DEF ChangePath
<1> DEFINE without == [next EXCEPT !.jar = None]
<1>4. /\ without \in [path: Files, runtime: Runtimes, jar: JarNames \cup {None}] /\ without.jar = None
      /\ without.path = path /\ without.runtime = next.runtime
  <2> HIDE DEF next
  <2>1. QED
    BY <1>2
<1>5. fileForm' = next \/ fileForm' = without
  BY DEF ChangePath, ChangeForm
<1> HIDE DEF next, without
<1>6. /\ fileForm' \in [path: Files, runtime: Runtimes, jar: JarNames \cup {None}] /\ fileForm'.jar = None
      /\ fileForm'.path = path /\ (named /= None => fileForm'.runtime = named)
  BY <1>2, <1>4, <1>5
<1>7. byHand' \in BOOLEAN
  BY <1>3
<1>8. FileFormRight(fileForm', byHand')
  BY <1>6, <1>7 DEF FileFormRight
<1>9. /\ \/ picker' = p /\ jars' = jars
         \/ picker' = NewPicker(named) /\ jars' = NewJars /\ named \in Runtimes
  BY <1>1 DEF ChangePath
<1>10. PickerRight(picker', browsed) /\ JarsRight(jars')
  BY <1>9, NewPickerRight, NewJarsRight DEF PickersInv
<1>11. QED
  BY <1>8, <1>10

\* The suggestions are shown or not, and one of them is active or none.
LEMMA SuggestingRight ==
  ASSUME PickerRight(picker, browsed), ~picker.open, NEW b \in BOOLEAN, NEW n, n > 0 => b
  PROVE  PickerRight([picker EXCEPT !.suggest = b, !.active = n], browsed)
<1> DEFINE p == [picker EXCEPT !.suggest = b, !.active = n]
<1>1. p \in Pickers(n) /\ p.active = n /\ p.suggest = b
  BY DEF PickerRight, Pickers
<1>2. p.open = picker.open /\ p.directory = picker.directory /\ p.selected = picker.selected /\ p.filter = picker.filter
  BY DEF PickerRight, Pickers
<1> HIDE DEF p
<1>3. PickerRight(p, browsed)
  BY <1>1, <1>2 DEF PickerRight
<1>4. QED
  BY <1>3 DEF p

\* The folder is another one, of the files there are now.
LEMMA NavigatedRight ==
  ASSUME PickerRight(picker, browsed), NEW dir \in Seq(STRING), NEW seen,
         dir /= <<>> => \E f \in seen : IsPrefix(dir, f.dir)
  PROVE  /\ PickerRight(Navigated(picker, dir), seen)
         /\ \A r \in Runtimes : PickerRight([Navigated(picker, dir) EXCEPT !.filter = r, !.suggest = FALSE, !.active = 0, !.open = TRUE], seen)
<1> DEFINE p == Navigated(picker, dir)
<1>1. /\ p \in Pickers(picker.active) /\ p.selected = None /\ p.directory = dir /\ p.active = picker.active
      /\ p.open = picker.open /\ p.suggest = picker.suggest
  BY EmptyText DEF Navigated, PickerRight, Pickers
<1> HIDE DEF p
<1>2. PickerRight(p, seen)
  BY <1>1 DEF PickerRight
<1>3. ASSUME NEW r \in Runtimes PROVE PickerRight([p EXCEPT !.filter = r, !.suggest = FALSE, !.active = 0, !.open = TRUE], seen)
  <2> DEFINE q == [p EXCEPT !.filter = r, !.suggest = FALSE, !.active = 0, !.open = TRUE]
  <2>1. q \in Pickers(0) /\ q.selected = None /\ q.directory = dir /\ q.active = 0 /\ q.suggest = FALSE
    BY <1>1 DEF Pickers
  <2> HIDE DEF q
  <2>2. PickerRight(q, seen)
    BY <2>1 DEF PickerRight
  <2>3. QED
    BY <2>2 DEF q
<1>4. QED
  BY <1>2, <1>3 DEF p

\* The steps of the path field and of the browser leave the browser of JARs alone, or close it.
FieldStep ==
  /\ FileFormRight(fileForm', byHand') /\ PickerRight(picker', browsed') /\ browsed' \subseteq Files
  /\ JarsRight(jars') /\ UNCHANGED <<tree, catalog, published, lists>>

LEMMA FieldStepInv == ASSUME PickersInv, FieldStep PROVE PickersInv'
BY DEF PickersInv, FieldStep

LEMMA TypingInv == ASSUME PickersInv, TypePath PROVE FieldStep
<1>1. PICK dir \in {fileForm.path.dir} \cup {f.dir : f \in tree}, t \in Texts :
        ChangePath([dir |-> dir, text |-> t], [picker EXCEPT !.suggest = TRUE, !.active = 0])
  BY DEF TypePath
<1>2. fileForm.jar = None /\ ~picker.open /\ UNCHANGED <<tree, catalog, browsed, published, lists>>
  BY DEF TypePath, Field, FieldShown, FieldOnly
<1>3. dir \in Seq(STRING)
  BY <1>1 DEF PickersInv, FileFormRight, Files
<1>4. [dir |-> dir, text |-> t] \in Files
  BY <1>3 DEF Files
<1>5. PickerRight([picker EXCEPT !.suggest = TRUE, !.active = 0], browsed)
  BY <1>2, SuggestingRight DEF PickersInv
<1>6. FileFormRight(fileForm', byHand') /\ PickerRight(picker', browsed) /\ JarsRight(jars')
  BY <1>1, <1>2, <1>4, <1>5, PathChanged
<1>7. QED
  BY <1>2, <1>6 DEF FieldStep, PickersInv

LEMMA SuggestionInv == ASSUME PickersInv, ChooseSuggestion PROVE FieldStep
<1>1. PICK e \in Suggestions :
        ChangePath(PathOf(fileForm.path.dir, e), [picker EXCEPT !.active = 0, !.suggest = e.folder])
  BY DEF ChooseSuggestion
<1>2. fileForm.jar = None /\ ~picker.open /\ UNCHANGED <<tree, catalog, browsed, published, lists>>
  BY DEF ChooseSuggestion, Field, FieldShown, FieldOnly
<1>3. fileForm.path.dir \in Seq(STRING) /\ e \in Contents(fileForm.path.dir, fileForm.runtime)
  BY DEF PickersInv, FileFormRight, Files, Suggestions
<1>4. PathOf(fileForm.path.dir, e) \in Files
  BY <1>3, PathOfRow
<1>5. e.folder \in BOOLEAN
  BY <1>3, KnownFiles, RowsOfFolder
<1>6. [picker EXCEPT !.active = 0, !.suggest = e.folder] = [picker EXCEPT !.suggest = e.folder, !.active = 0]
  BY DEF PickersInv, PickerRight, Pickers
<1>7. PickerRight([picker EXCEPT !.active = 0, !.suggest = e.folder], browsed)
  <2>1. 0 > 0 => e.folder
    OBVIOUS
  <2>2. PickerRight([picker EXCEPT !.suggest = e.folder, !.active = 0], browsed)
    BY <1>2, <1>5, <2>1, SuggestingRight DEF PickersInv
  <2>3. QED
    BY <1>6, <2>2
<1>8. FileFormRight(fileForm', byHand') /\ PickerRight(picker', browsed) /\ JarsRight(jars')
  BY <1>1, <1>2, <1>4, <1>7, PathChanged
<1>9. QED
  BY <1>2, <1>8 DEF FieldStep, PickersInv

LEMMA FieldMovesInv == ASSUME PickersInv, FocusPath \/ LeavePath \/ Arrow PROVE FieldStep
<1>1. UNCHANGED <<fileForm, byHand, jars, tree, catalog, browsed, published, lists>> /\ ~picker.open
  BY DEF FocusPath, LeavePath, Arrow, FormKept, FieldOnly, Field
<1>2. PickerRight(picker', browsed)
  <2>1. CASE FocusPath
    <3> DEFINE p == [picker EXCEPT !.suggest = TRUE]
    <3>1. /\ p \in Pickers(picker.active) /\ p.active = picker.active /\ p.suggest /\ p.open = picker.open
          /\ p.directory = picker.directory /\ p.selected = picker.selected /\ p.filter = picker.filter
      BY DEF PickersInv, PickerRight, Pickers
    <3> HIDE DEF p
    <3>2. PickerRight(p, browsed)
      BY <1>1, <3>1 DEF PickersInv, PickerRight
    <3>3. QED
      BY <2>1, <3>2 DEF FocusPath, p
  <2>2. CASE LeavePath
    <3>1. 0 > 0 => FALSE
      OBVIOUS
    <3>2. PickerRight([picker EXCEPT !.suggest = FALSE, !.active = 0], browsed)
      BY <1>1, <3>1, SuggestingRight DEF PickersInv
    <3>3. QED
      BY <2>2, <3>2 DEF LeavePath
  <2>3. CASE Arrow
    <3>1. PICK n : picker' = [picker EXCEPT !.suggest = TRUE, !.active = n]
      BY <2>3 DEF Arrow
    <3>2. QED
      BY <1>1, <3>1, SuggestingRight DEF PickersInv
  <2>4. QED
    BY <2>1, <2>2, <2>3
<1>3. QED
  BY <1>1, <1>2 DEF FieldStep, PickersInv

LEMMA RuntimeInv == ASSUME PickersInv, ChooseRuntime PROVE FieldStep
<1>1. PICK r \in Runtimes \ {fileForm.runtime} : ChangeForm([fileForm EXCEPT !.runtime = r]) /\ byHand' = TRUE
                                                 /\ picker' = NewPicker(r) /\ jars' = NewJars
  BY DEF ChooseRuntime
<1> DEFINE next == [fileForm EXCEPT !.runtime = r]
           without == [next EXCEPT !.jar = None]
           Forms == [path: Files, runtime: Runtimes, jar: JarNames \cup {None}]
<1>2. next \in Forms /\ next.runtime = r /\ next.jar = fileForm.jar
  BY DEF PickersInv, FileFormRight
<1>3. without \in Forms /\ without.jar = None
  <2> HIDE DEF next
  <2>1. QED
    BY <1>2
<1>4. fileForm' = without \/ (fileForm' = next /\ r = "java")
  BY <1>1, <1>2 DEF ChangeForm
<1>5. r = "java" => next.jar = None
  BY <1>1, <1>2 DEF PickersInv, FileFormRight
<1> HIDE DEF next, without
<1>6. fileForm' \in Forms /\ fileForm'.jar = None
  BY <1>2, <1>3, <1>4, <1>5
<1>7. FileFormRight(fileForm', byHand')
  BY <1>1, <1>6 DEF FileFormRight
<1>8. UNCHANGED <<tree, catalog, browsed, published, lists>>
  BY DEF ChooseRuntime
<1>9. QED
  BY <1>1, <1>7, <1>8, NewPickerRight, NewJarsRight DEF FieldStep, PickersInv

\* The browser opens, and goes down or up.
LEMMA BrowseInv == ASSUME PickersInv, Browse PROVE FieldStep
<1> DEFINE dir == IF Under(fileForm.path.dir) /= {} THEN fileForm.path.dir ELSE <<>>
<1>1. /\ picker' = [Navigated(picker, dir) EXCEPT !.filter = fileForm.runtime, !.suggest = FALSE, !.active = 0, !.open = TRUE]
      /\ browsed' = Known /\ UNCHANGED <<fileForm, byHand, tree, catalog, published, jars, lists>>
  BY DEF Browse, Moved
<1>2. dir \in Seq(STRING) /\ (dir /= <<>> => \E f \in Known : IsPrefix(dir, f.dir))
  <2>1. fileForm.path.dir \in Seq(STRING) /\ <<>> \in Seq(STRING)
    BY DEF PickersInv, FileFormRight, Files
  <2>2. QED
    BY <2>1 DEF Under
<1> HIDE DEF dir
<1>3. fileForm.runtime \in Runtimes
  BY DEF PickersInv, FileFormRight
<1>4. PickerRight(picker', Known)
  BY <1>1, <1>2, <1>3, NavigatedRight DEF PickersInv
<1>5. QED
  BY <1>1, <1>4, KnownFiles DEF FieldStep, PickersInv

LEMMA UpInv == ASSUME PickersInv, NavigateUp PROVE FieldStep
<1>1. PICK n \in 0..Len(picker.directory) : picker' = Navigated(picker, SubSeq(picker.directory, 1, n))
  BY DEF NavigateUp
<1>2. UNCHANGED <<fileForm, byHand, tree, catalog, browsed, published, jars, lists>> /\ picker.open /\ picker.directory /= <<>>
  BY DEF NavigateUp, InBrowser
<1>3. PICK f \in browsed : IsPrefix(picker.directory, f.dir)
  BY <1>2 DEF PickersInv, PickerRight
<1>4. picker.directory \in Seq(STRING) /\ f.dir \in Seq(STRING)
  BY DEF PickersInv, PickerRight, Pickers, Files
<1>5. SubSeq(picker.directory, 1, n) \in Seq(STRING) /\ IsPrefix(SubSeq(picker.directory, 1, n), f.dir)
  BY <1>3, <1>4, UpIsPrefix
<1>6. PickerRight(picker', browsed)
  BY <1>1, <1>5, NavigatedRight DEF PickersInv
<1>7. QED
  BY <1>2, <1>6 DEF FieldStep, PickersInv

LEMMA FolderInv == ASSUME PickersInv, OpenFolder PROVE FieldStep
<1>1. PICK e \in Entries : e.folder /\ Moved(Navigated(picker, Append(picker.directory, e.name)))
  BY DEF OpenFolder
<1>2. picker.directory \in Seq(STRING) /\ e \in Contents(picker.directory, picker.filter)
  BY DEF PickersInv, PickerRight, Pickers, Entries
<1>3. PICK f \in Known : /\ IsPrefix(picker.directory, f.dir) /\ Len(f.dir) > Len(picker.directory)
                         /\ e.name = f.dir[Len(picker.directory) + 1]
  BY <1>1, <1>2, KnownFiles, RowsOfFolder
<1>4. e.name \in STRING /\ f.dir \in Seq(STRING)
  BY <1>1, <1>2, KnownFiles, RowsOfFolder DEF Files
<1>5. Append(picker.directory, e.name) \in Seq(STRING) /\ IsPrefix(Append(picker.directory, e.name), f.dir)
  BY <1>2, <1>3, <1>4, OnePrefixMore
<1>6. PickerRight(Navigated(picker, Append(picker.directory, e.name)), Known)
  BY <1>5, NavigatedRight DEF PickersInv
<1>7. QED
  BY <1>1, <1>6, KnownFiles DEF Moved, FieldStep, PickersInv

\* A file is selected, or what is shown changes.
LEMMA SelectingInv == ASSUME PickersInv, SelectFile \/ SearchFolder \/ FilterFiles \/ CancelBrowse PROVE FieldStep
<1>1. UNCHANGED <<fileForm, byHand, jars, tree, catalog, browsed, published, lists>>
  BY DEF SelectFile, SearchFolder, FilterFiles, CancelBrowse, FormKept, FieldOnly
<1>2. PickerRight(picker, browsed)
  BY DEF PickersInv
<1>3. PickerRight(picker', browsed)
  <2>1. CASE SelectFile
    <3>1. PICK e \in Entries : ~e.folder /\ picker' = [picker EXCEPT !.selected = PathOf(picker.directory, e)]
      BY <2>1 DEF SelectFile
    <3>2. picker.directory \in Seq(STRING) /\ e \in Contents(picker.directory, picker.filter)
      BY <1>2 DEF PickerRight, Pickers, Entries
    <3>3. PathOf(picker.directory, e) \in Files /\ Passes(e.name, picker.filter)
      BY <3>1, <3>2, KnownFiles, PathOfRow, RowsOfFolder
    <3>4. PathOf(picker.directory, e).dir = picker.directory /\ PathOf(picker.directory, e).text = e.name
      BY <3>1 DEF PathOf
    <3> DEFINE path == PathOf(picker.directory, e)
    <3> HIDE DEF path
    <3>5. /\ picker' \in Pickers(picker.active) /\ picker'.active = picker.active /\ picker'.suggest = picker.suggest
          /\ picker'.open = picker.open /\ picker'.directory = picker.directory /\ picker'.filter = picker.filter
          /\ picker'.selected = path
      BY <1>2, <3>1, <3>3 DEF PickerRight, Pickers, path
    <3>6. QED
      BY <1>2, <3>3, <3>4, <3>5 DEF PickerRight, path
  <2>2. CASE SearchFolder
    <3>1. PICK t \in Texts : picker' = [picker EXCEPT !.search = t]
      BY <2>2 DEF SearchFolder
    <3>2. /\ picker' \in Pickers(picker.active) /\ picker'.active = picker.active /\ picker'.suggest = picker.suggest
          /\ picker'.open = picker.open /\ picker'.directory = picker.directory /\ picker'.filter = picker.filter
          /\ picker'.selected = picker.selected
      BY <1>2, <3>1 DEF PickerRight, Pickers
    <3>3. QED
      BY <1>2, <3>2 DEF PickerRight
  <2>3. CASE FilterFiles
    <3>1. PICK f \in Runtimes \cup {"all"} : picker' = [picker EXCEPT !.filter = f, !.selected = None]
      BY <2>3 DEF FilterFiles
    <3>2. /\ picker' \in Pickers(picker.active) /\ picker'.active = picker.active /\ picker'.suggest = picker.suggest
          /\ picker'.open = picker.open /\ picker'.directory = picker.directory /\ picker'.selected = None
      BY <1>2, <3>1 DEF PickerRight, Pickers
    <3>3. QED
      BY <1>2, <3>2 DEF PickerRight
  <2>4. CASE CancelBrowse
    <3>1. picker' = [picker EXCEPT !.open = FALSE]
      BY <2>4 DEF CancelBrowse
    <3>2. /\ picker' \in Pickers(picker.active) /\ picker'.active = picker.active /\ picker'.suggest = picker.suggest
          /\ picker'.open = FALSE /\ picker'.directory = picker.directory /\ picker'.filter = picker.filter
          /\ picker'.selected = picker.selected
      BY <1>2, <3>1 DEF PickerRight, Pickers
    <3>3. QED
      BY <1>2, <3>2 DEF PickerRight
  <2>5. QED
    BY <2>1, <2>2, <2>3, <2>4
<1>4. QED
  BY <1>1, <1>3 DEF FieldStep, PickersInv

LEMMA UseInv == ASSUME PickersInv, UseSelected PROVE FieldStep
<1>1. /\ ChangePath(picker.selected, [picker EXCEPT !.suggest = FALSE, !.open = FALSE]) /\ picker.selected /= None
      /\ picker.open /\ fileForm.jar = None /\ UNCHANGED <<tree, catalog, browsed, published, lists>>
  BY DEF UseSelected, InBrowser, FieldShown, FieldOnly
<1>2. picker.selected \in Files
  BY <1>1 DEF PickersInv, PickerRight, Pickers
<1> DEFINE p == [picker EXCEPT !.suggest = FALSE, !.open = FALSE]
<1>3. /\ p \in Pickers(picker.active) /\ p.active = picker.active /\ p.suggest = FALSE /\ p.open = FALSE
      /\ p.directory = picker.directory /\ p.selected = picker.selected /\ p.filter = picker.filter
  BY DEF PickersInv, PickerRight, Pickers
<1> HIDE DEF p
<1>4. PickerRight(p, browsed)
  BY <1>1, <1>3 DEF PickersInv, PickerRight
<1>5. FileFormRight(fileForm', byHand') /\ PickerRight(picker', browsed) /\ JarsRight(jars')
  BY <1>1, <1>2, <1>4, PathChanged DEF p
<1>6. QED
  BY <1>1, <1>5 DEF FieldStep, PickersInv

(***************************************************************************)
(* Release JARs                                                             *)
(***************************************************************************)
\* The steps of the browser of JARs
JarsStep ==
  /\ FileFormRight(fileForm', byHand') /\ PickerRight(picker', browsed) /\ JarsRight(jars')
  /\ (\A k \in DOMAIN lists' : AnswerRight(k, lists'[k])) /\ UNCHANGED <<tree, catalog, browsed, published>>

LEMMA JarsStepInv == ASSUME PickersInv, JarsStep PROVE PickersInv'
BY DEF PickersInv, JarsStep

\* Releases and assets have their names.
LEMMA JarsNamed ==
  /\ AssetsOf \in Seq(Seq(Texts)) /\ Releases \in Seq(DOMAIN AssetsOf)
  /\ \A r \in DOMAIN AssetsOf : AssetsOf[r] \in Seq(Texts) /\ Len(AssetsOf[r]) \in Nat
  /\ JarsPerPage \in Nat \ {0} /\ PerPage \in Nat \ {0}
<1>1. AssetsOf \in Seq(Seq(Texts)) /\ Releases \in Seq(DOMAIN AssetsOf) /\ JarsPerPage \in Nat \ {0} /\ PerPage \in Nat \ {0}
  BY FilePickersAssumption
<1>2. QED
  BY <1>1

\* A page of rows
LEMMA PageOfRows ==
  ASSUME NEW S, NEW rows \in Seq(S), NEW n \in Nat \ {0}, NEW size \in Nat \ {0}
  PROVE  /\ PageIn(rows, n, size) \in Seq(S)
         /\ Len(PageIn(rows, n, size)) = size => n * size <= Len(rows)
<1> DEFINE a == (n - 1) * size + 1
           b == IF n * size < Len(rows) THEN n * size ELSE Len(rows)
<1>1. a \in Nat \ {0} /\ b \in Nat /\ b <= Len(rows) /\ n * size \in Nat /\ a + size = n * size + 1
  <2>1. (n - 1) * size \in Nat /\ n * size \in Nat /\ (n - 1) * size + size = n * size
    OBVIOUS
  <2>2. QED
    BY <2>1
<1>2. PageIn(rows, n, size) = SubSeq(rows, a, b)
  BY DEF PageIn
<1>3. b = n * size \/ (b = Len(rows) /\ b <= n * size)
  BY <1>1
<1> HIDE DEF a, b
<1>4. \A i \in a..b : rows[i] \in S
  BY <1>1
<1>5. SubSeq(rows, a, b) \in Seq(S) /\ Len(SubSeq(rows, a, b)) = IF a <= b THEN b - a + 1 ELSE 0
  BY <1>1, <1>4, SubSeqProperties
<1>6. Len(SubSeq(rows, a, b)) = size => b + 1 = a + size
  BY <1>1, <1>5
<1>7. Len(SubSeq(rows, a, b)) = size => n * size <= Len(rows)
  BY <1>1, <1>3, <1>6
<1>8. QED
  BY <1>2, <1>5, <1>7

\* What is kept for the queries that are observed
LEMMA ObservedAnswers ==
  ASSUME PickersInv, NEW j, JarsRight(j), ShowJars(j)
  PROVE  \A k \in DOMAIN lists' : AnswerRight(k, lists'[k])
<1>1. lists' = [k \in DOMAIN lists \cup Observed(j) |-> List(k)]
  BY DEF ShowJars
<1>2. ASSUME NEW k \in DOMAIN lists PROVE AnswerRight(k, List(k))
  BY DEF List, PickersInv
<1>3. ASSUME NEW k \in Observed(j), k \notin DOMAIN lists PROVE AnswerRight(k, List(k))
  <2>1. List(k) = None
    BY <1>3 DEF List
  <2>2. \/ k = <<"releases", 0, j.page>>
        \/ j.release /= None /\ k = <<"jars", j.release, j.assetPage>>
    BY <1>3 DEF Observed, JarsKey
  <2>3. j.page \in Nat \ {0} /\ j.assetPage \in Nat \ {0} /\ j.release \in DOMAIN AssetsOf \cup {None}
    BY DEF JarsRight, JarBrowsers
  <2>4. QED
    BY <2>1, <2>2, <2>3 DEF AnswerRight
<1>4. QED
  BY <1>1, <1>2, <1>3

\* What is listed
LEMMA ListedReleases ==
  ASSUME PickersInv, ReleasesShown /= None
  PROVE  ToSet(ReleasesShown) \subseteq DOMAIN AssetsOf
<1> DEFINE k == <<"releases", 0, jars.page>>
<1>1. k \in DOMAIN lists /\ ReleasesShown = lists[k]
  BY DEF ReleasesShown, List
<1>2. AnswerRight(k, lists[k])
  BY <1>1 DEF PickersInv
<1>3. lists[k] \in Seq(DOMAIN AssetsOf)
  BY <1>1, <1>2 DEF AnswerRight
<1>4. QED
  BY <1>1, <1>3 DEF ToSet

LEMMA ListedJars ==
  ASSUME PickersInv, JarsListed /= None
  PROVE  /\ jars.release \in DOMAIN AssetsOf /\ jars.assetPage \in Nat \ {0}
         /\ JarsListed = PageIn(AssetsOf[jars.release], jars.assetPage, JarsPerPage)
<1> DEFINE k == JarsKey(jars.release, jars.assetPage)
<1>1. jars.release /= None /\ k \in DOMAIN lists /\ JarsListed = lists[k]
  BY DEF JarsListed, List
<1>2. AnswerRight(k, lists[k])
  BY <1>1 DEF PickersInv
<1>3. jars.release \in DOMAIN AssetsOf /\ jars.assetPage \in Nat \ {0}
  BY <1>1 DEF PickersInv, JarsRight, JarBrowsers
<1>4. k = <<"jars", jars.release, jars.assetPage>>
  BY DEF JarsKey
<1>5. lists[k] = PageIn(AssetsOf[jars.release], jars.assetPage, JarsPerPage)
  BY <1>1, <1>2, <1>4 DEF AnswerRight
<1>6. QED
  BY <1>1, <1>3, <1>5

\* The form and the path field are as they were, and the browser of JARs becomes j.
LEMMA ShownRight ==
  ASSUME PickersInv, NEW j, JarsRight(j), ShowJars(j), UNCHANGED <<fileForm, picker>>, JarsOnly
  PROVE  JarsStep
<1>1. jars' = j /\ \A k \in DOMAIN lists' : AnswerRight(k, lists'[k])
  BY ObservedAnswers DEF ShowJars
<1>2. QED
  BY <1>1 DEF JarsStep, JarsOnly, PickersInv

LEMMA BrowseJarsInv == ASSUME PickersInv, BrowseJars PROVE JarsStep
<1> DEFINE j == [jars EXCEPT !.open = ~@]
<1>1. ShowJars(j) /\ UNCHANGED <<fileForm, picker>> /\ JarsOnly
  BY DEF BrowseJars
<1>2. JarsRight(j)
  BY DEF PickersInv, JarsRight, JarBrowsers
<1> HIDE DEF j
<1>3. QED
  BY <1>1, <1>2, ShownRight

\* A release is shown from its first page.
LEMMA ReleaseInv == ASSUME PickersInv, ChooseRelease PROVE JarsStep
<1>1. PICK r \in ToSet(ReleasesShown) \cup {None} : ShowJars([jars EXCEPT !.release = r, !.assetPage = 1])
  BY DEF ChooseRelease
<1>2. ReleasesShown /= None /\ UNCHANGED <<fileForm, picker>> /\ JarsOnly
  BY DEF ChooseRelease
<1>3. r \in DOMAIN AssetsOf \cup {None}
  BY <1>2, ListedReleases
<1>4. ASSUME NEW q \in DOMAIN AssetsOf \cup {None}, ShowJars([jars EXCEPT !.release = q, !.assetPage = 1]) PROVE JarsStep
  <2> DEFINE j == [jars EXCEPT !.release = q, !.assetPage = 1]
  <2>1. j \in JarBrowsers /\ j.assetPage = 1 /\ j.release = q
    <3> DEFINE i == [jars EXCEPT !.release = q]
    <3>1. jars \in JarBrowsers
      BY DEF PickersInv, JarsRight
    <3>2. i \in JarBrowsers /\ i.release = q
      BY <3>1 DEF JarBrowsers
    <3>3. j = [i EXCEPT !.assetPage = 1]
      OBVIOUS
    <3> HIDE DEF i, j
    <3>4. QED
      BY <3>2, <3>3 DEF JarBrowsers
  <2> HIDE DEF j
  <2>2. q /= None => Len(AssetsOf[q]) \in Nat
    BY JarsNamed
  <2>3. (1 - 1) * JarsPerPage = 0
    BY JarsNamed
  <2>4. JarsRight(j)
    BY <2>1, <2>2, <2>3 DEF JarsRight
  <2>5. QED
    BY <1>2, <1>4, <2>4, ShownRight DEF j
<1>5. QED
  BY <1>1, <1>3, <1>4

\* Another page of releases has none chosen.
LEMMA TurnReleasesInv == ASSUME PickersInv, TurnReleases PROVE JarsStep
<1>1. UNCHANGED <<fileForm, picker>> /\ JarsOnly
  BY DEF TurnReleases
<1>2. ASSUME NEW n \in Nat \ {0}, ShowJars([jars EXCEPT !.page = n, !.release = None]) PROVE JarsStep
  <2> DEFINE j == [jars EXCEPT !.page = n, !.release = None]
  <2>1. j \in JarBrowsers /\ j.release = None
    BY DEF PickersInv, JarsRight, JarBrowsers
  <2> HIDE DEF j
  <2>2. JarsRight(j)
    BY <2>1 DEF JarsRight
  <2>3. QED
    BY <1>1, <1>2, <2>2, ShownRight DEF j
<1>3. jars.page \in Nat \ {0}
  BY DEF PickersInv, JarsRight, JarBrowsers
<1>4. CASE jars.page > 1 /\ ShowJars([jars EXCEPT !.page = jars.page - 1, !.release = None])
  <2>1. jars.page - 1 \in Nat \ {0}
    BY <1>3, <1>4
  <2>2. QED
    BY <1>2, <1>4, <2>1
<1>5. CASE ShowJars([jars EXCEPT !.page = jars.page + 1, !.release = None])
  <2>1. jars.page + 1 \in Nat \ {0}
    BY <1>3
  <2>2. QED
    BY <1>2, <1>5, <2>1
<1>6. QED
  BY <1>4, <1>5 DEF TurnReleases

\* The next page of a release follows one that is full.
LEMMA TurnJarsInv == ASSUME PickersInv, TurnJars PROVE JarsStep
<1>1. UNCHANGED <<fileForm, picker>> /\ JarsOnly /\ JarsListed /= None
  BY DEF TurnJars
<1>2. /\ jars.release \in DOMAIN AssetsOf /\ jars.assetPage \in Nat \ {0}
      /\ JarsListed = PageIn(AssetsOf[jars.release], jars.assetPage, JarsPerPage)
  BY <1>1, ListedJars
<1>3. AssetsOf[jars.release] \in Seq(Texts) /\ Len(AssetsOf[jars.release]) \in Nat /\ JarsPerPage \in Nat \ {0}
  BY <1>2, JarsNamed
<1>4. jars.release /= None => (jars.assetPage - 1) * JarsPerPage <= Len(AssetsOf[jars.release])
  BY DEF PickersInv, JarsRight
<1>5. ASSUME NEW n \in Nat \ {0}, ShowJars([jars EXCEPT !.assetPage = n]), (n - 1) * JarsPerPage <= Len(AssetsOf[jars.release])
      PROVE  JarsStep
  <2> DEFINE j == [jars EXCEPT !.assetPage = n]
  <2>1. j \in JarBrowsers /\ j.release = jars.release /\ j.assetPage = n
    BY DEF PickersInv, JarsRight, JarBrowsers
  <2> HIDE DEF j
  <2>2. JarsRight(j)
    BY <1>5, <2>1 DEF JarsRight
  <2>3. QED
    BY <1>1, <1>5, <2>2, ShownRight DEF j
<1>6. CASE jars.assetPage > 1 /\ ShowJars([jars EXCEPT !.assetPage = jars.assetPage - 1])
  <2> DEFINE n == jars.assetPage - 1
  <2>1. n \in Nat \ {0} /\ jars.assetPage = n + 1
    BY <1>2, <1>6
  <2>2. jars.release /= None
    BY <1>1 DEF JarsListed
  <2>3. n * JarsPerPage <= Len(AssetsOf[jars.release])
    BY <1>4, <2>1, <2>2
  <2>4. (n - 1) * JarsPerPage <= n * JarsPerPage /\ (n - 1) * JarsPerPage \in Int /\ n * JarsPerPage \in Int
    <3> HIDE DEF n
    <3>1. n * JarsPerPage = (n - 1) * JarsPerPage + JarsPerPage /\ (n - 1) * JarsPerPage \in Int /\ n * JarsPerPage \in Int
      BY <1>3, <2>1
    <3>2. QED
      BY <1>3, <3>1
  <2>5. (n - 1) * JarsPerPage <= Len(AssetsOf[jars.release])
    BY <1>3, <2>3, <2>4
  <2>6. QED
    BY <1>5, <1>6, <2>1, <2>5
<1>7. CASE Full(JarsListed, JarsPerPage) /\ ShowJars([jars EXCEPT !.assetPage = jars.assetPage + 1])
  <2>1. jars.assetPage * JarsPerPage <= Len(AssetsOf[jars.release])
    BY <1>2, <1>3, <1>7, PageOfRows DEF Full
  <2>2. jars.assetPage + 1 \in Nat \ {0} /\ (jars.assetPage + 1) - 1 = jars.assetPage
    BY <1>2
  <2>3. QED
    BY <1>5, <1>7, <2>1, <2>2
<1>8. QED
  BY <1>6, <1>7 DEF TurnJars

\* A JAR is pinned, of those that are listed.
LEMMA ChooseJarInv == ASSUME PickersInv, ChooseJar PROVE JarsStep
<1>1. PICK jar \in {t \in ToSet(JarsListed) : RuntimeBy[t] = "java"} : ChangeForm([fileForm EXCEPT !.jar = jar, !.path = [dir |-> JarsFolder, text |-> jar]])
  BY DEF ChooseJar
<1>2. /\ JarsListed /= None /\ fileForm.runtime = "java" /\ picker' = NewPicker("java") /\ byHand' = FALSE
      /\ ShowJars([jars EXCEPT !.open = FALSE]) /\ UNCHANGED <<tree, catalog, browsed, published>>
  BY DEF ChooseJar, JarsShown
<1>3. jars.release \in DOMAIN AssetsOf /\ JarsListed \in Seq(Texts)
  <2>1. /\ jars.release \in DOMAIN AssetsOf /\ jars.assetPage \in Nat \ {0}
        /\ JarsListed = PageIn(AssetsOf[jars.release], jars.assetPage, JarsPerPage)
    BY <1>2, ListedJars
  <2>2. AssetsOf[jars.release] \in Seq(Texts) /\ JarsPerPage \in Nat \ {0}
    BY <2>1, JarsNamed
  <2>3. QED
    BY <2>1, <2>2, PageOfRows
<1>4. jar \in JarNames
  BY <1>1, <1>3 DEF ToSet, JarNames
<1>5. jar \in Texts /\ RuntimeBy[jar] = "java"
  BY <1>4 DEF JarNames
<1> DEFINE path == [dir |-> JarsFolder, text |-> jar]
           next == [fileForm EXCEPT !.jar = jar, !.path = path]
<1>6. path \in Files /\ path.text = jar
  BY <1>5, FilePickersAssumption DEF Files
<1>7. next \in [path: Files, runtime: Runtimes, jar: JarNames \cup {None}] /\ next.path = path /\ next.jar = jar /\ next.runtime = "java"
  <2> HIDE DEF path
  <2>1. QED
    BY <1>2, <1>4, <1>6 DEF PickersInv, FileFormRight
<1>8. fileForm' = next
  <2>1. ChangeForm(next)
    BY <1>1
  <2> HIDE DEF next
  <2>2. QED
    BY <1>7, <2>1 DEF ChangeForm
<1> HIDE DEF next
<1>9. FileFormRight(fileForm', byHand')
  BY <1>2, <1>5, <1>6, <1>7, <1>8 DEF FileFormRight
<1> DEFINE j == [jars EXCEPT !.open = FALSE]
<1>10. JarsRight(j)
  BY DEF PickersInv, JarsRight, JarBrowsers
<1>11. ShowJars(j)
  BY <1>2
<1> HIDE DEF j
<1>12. jars' = j /\ \A k \in DOMAIN lists' : AnswerRight(k, lists'[k])
  BY <1>10, <1>11, ObservedAnswers DEF ShowJars
<1>13. PickerRight(picker', browsed)
  BY <1>2, NewPickerRight DEF Runtimes
<1>14. QED
  BY <1>2, <1>9, <1>10, <1>12, <1>13 DEF JarsStep

LEMMA UnpinInv == ASSUME PickersInv, UnpinJar PROVE JarsStep
<1>1. /\ ChangeForm([fileForm EXCEPT !.jar = None, !.path = NoText]) /\ fileForm.runtime = "java" /\ picker' = NewPicker("java")
      /\ UNCHANGED <<jars, lists, byHand, tree, catalog, browsed, published>>
  BY DEF UnpinJar, JarsShown, JarsOnly
<1> DEFINE next == [fileForm EXCEPT !.jar = None, !.path = NoText]
<1>2. /\ next \in [path: Files, runtime: Runtimes, jar: JarNames \cup {None}] /\ next.path = NoText /\ next.jar = None
      /\ next.runtime = "java"
  BY <1>1, EmptyText DEF PickersInv, FileFormRight
<1>3. fileForm' = next
  <2>1. ChangeForm(next)
    BY <1>1
  <2> HIDE DEF next
  <2>2. QED
    BY <1>2, <2>1 DEF ChangeForm
<1> HIDE DEF next
<1>4. NoText.text = "" /\ byHand' \in BOOLEAN
  BY <1>1 DEF NoText, PickersInv, FileFormRight
<1>5. FileFormRight(fileForm', byHand')
  BY <1>2, <1>3, <1>4, EmptyText DEF FileFormRight
<1>6. PickerRight(picker', browsed)
  BY <1>1, NewPickerRight DEF Runtimes
<1>7. QED
  BY <1>1, <1>5, <1>6 DEF JarsStep, PickersInv

\* The answer to a query is that of its key.
LEMMA ListInv == ASSUME PickersInv, ListArrives PROVE PickersInv'
<1> DEFINE AnswerTo(k) ==
      IF k[1] = "releases" THEN PageIn(SubSeq(Releases, Len(Releases) - published + 1, Len(Releases)), k[3], PerPage)
      ELSE PageIn(AssetsOf[k[2]], k[3], JarsPerPage)
<1>1. PICK k \in DOMAIN lists : lists' = [lists EXCEPT ![k] = AnswerTo(k)]
  BY DEF ListArrives
<1>2. UNCHANGED <<fileForm, byHand, tree, catalog, browsed, picker, published, jars>>
  BY DEF ListArrives
<1>3. AnswerRight(k, lists[k])
  BY DEF PickersInv
<1>4. AnswerRight(k, AnswerTo(k))
  <2>1. CASE \E n \in Nat \ {0} : k = <<"releases", 0, n>>
    <3>1. PICK n \in Nat \ {0} : k = <<"releases", 0, n>>
      BY <2>1
    <3> DEFINE some == SubSeq(Releases, Len(Releases) - published + 1, Len(Releases))
    <3>2. some \in Seq(DOMAIN AssetsOf)
      <4>1. published \in 1..Len(Releases) /\ Releases \in Seq(DOMAIN AssetsOf) /\ Len(Releases) \in Nat
        BY JarsNamed DEF PickersInv
      <4>2. Len(Releases) - published + 1 \in Nat \ {0}
        BY <4>1
      <4>3. \A i \in (Len(Releases) - published + 1)..Len(Releases) : Releases[i] \in DOMAIN AssetsOf
        BY <4>1, <4>2
      <4>4. QED
        BY <4>1, <4>2, <4>3, SubSeqProperties
    <3> HIDE DEF some
    <3>3. PageIn(some, n, PerPage) \in Seq(DOMAIN AssetsOf)
      BY <3>2, JarsNamed, PageOfRows
    <3>4. AnswerTo(k) = PageIn(some, n, PerPage)
      BY <3>1 DEF some
    <3> HIDE DEF AnswerTo
    <3>5. QED
      BY <3>1, <3>3, <3>4 DEF AnswerRight
  <2>2. CASE \E r \in DOMAIN AssetsOf, n \in Nat \ {0} : k = <<"jars", r, n>>
    <3>1. PICK r \in DOMAIN AssetsOf, n \in Nat \ {0} : k = <<"jars", r, n>>
      BY <2>2
    <3>2. AnswerTo(k) = PageIn(AssetsOf[r], n, JarsPerPage)
      BY <3>1
    <3> HIDE DEF AnswerTo
    <3>3. QED
      BY <3>1, <3>2 DEF AnswerRight
  <2>3. QED
    BY <1>3, <2>1, <2>2 DEF AnswerRight
<1> HIDE DEF AnswerTo
<1>5. \A x \in DOMAIN lists' : AnswerRight(x, lists'[x])
  <2>1. DOMAIN lists' = DOMAIN lists
    BY <1>1
  <2>2. ASSUME NEW x \in DOMAIN lists PROVE AnswerRight(x, lists'[x])
    <3>1. lists'[x] = IF x = k THEN AnswerTo(k) ELSE lists[x]
      BY <1>1
    <3>2. AnswerRight(x, lists[x])
      BY DEF PickersInv
    <3>3. QED
      BY <1>4, <3>1, <3>2
  <2>3. QED
    BY <2>1, <2>2
<1>6. QED
  BY <1>2, <1>5 DEF PickersInv

\* The repository changes, a release is published, and the files are read or not.
LEMMA WorldInv == ASSUME PickersInv, Pushed \/ Published \/ CatalogArrives \/ CatalogFails PROVE PickersInv'
<1>1. UNCHANGED <<fileForm, byHand, browsed, picker, jars, lists>>
  BY DEF Pushed, Published, CatalogArrives, CatalogFails
<1>2. tree' \subseteq Files
  BY FilePickersAssumption DEF PickersInv, Files, Pushed, Published, CatalogArrives, CatalogFails
<1>3. catalog' \in [paths: (SUBSET Files) \cup {None}, unavailable: BOOLEAN]
  <2>1. catalog \in [paths: (SUBSET Files) \cup {None}, unavailable: BOOLEAN] /\ tree \in SUBSET Files
    BY DEF PickersInv
  <2>2. CASE Pushed \/ Published
    BY <2>1, <2>2 DEF Pushed, Published
  <2>3. CASE CatalogArrives
    BY <2>1, <2>3 DEF CatalogArrives
  <2>4. CASE CatalogFails
    <3>1. PICK left \in {catalog.paths, {}} : catalog' = [paths |-> left, unavailable |-> TRUE]
      BY <2>4 DEF CatalogFails
    <3>2. catalog.paths \in (SUBSET Files) \cup {None} /\ {} \in SUBSET Files
      BY <2>1
    <3>3. left \in (SUBSET Files) \cup {None}
      BY <3>2
    <3>4. QED
      BY <3>1, <3>3
  <2>5. QED
    BY <2>2, <2>3, <2>4
<1>4. published' \in 1..Len(Releases)
  <2>1. Len(Releases) \in Nat /\ published \in 1..Len(Releases)
    BY JarsNamed DEF PickersInv
  <2>2. QED
    BY <2>1 DEF Pushed, Published, CatalogArrives, CatalogFails
<1>5. QED
  BY <1>1, <1>2, <1>3, <1>4 DEF PickersInv

(***************************************************************************)
(* What is picked                                                           *)
(***************************************************************************)
LEMMA PickersInit == ASSUME FilePickersInit PROVE PickersInv
<1>1. PICK t \in Texts : /\ t = "" \/ RuntimeBy[t] /= None
                         /\ fileForm = [path |-> [NoText EXCEPT !.text = t], runtime |-> IF t = "" THEN "python" ELSE RuntimeBy[t],
                                        jar |-> None]
  BY DEF FilePickersInit
<1>2. /\ byHand = FALSE /\ tree \in Trees /\ catalog = [paths |-> None, unavailable |-> FALSE] /\ browsed = {}
      /\ picker = NewPicker(fileForm.runtime) /\ published = FirstReleases /\ jars = NewJars /\ lists = << >>
  BY DEF FilePickersInit
<1>3. [NoText EXCEPT !.text = t] \in Files /\ [NoText EXCEPT !.text = t].text = t
  BY EmptyText DEF Files
<1>4. (IF t = "" THEN "python" ELSE RuntimeBy[t]) \in Runtimes
  BY <1>1, FilePickersAssumption DEF Runtimes
<1> DEFINE path == [NoText EXCEPT !.text = t]
<1> HIDE DEF path
<1>5. /\ fileForm \in [path: Files, runtime: Runtimes, jar: JarNames \cup {None}] /\ fileForm.jar = None
      /\ fileForm.path = path /\ (t /= "" => fileForm.runtime = RuntimeBy[t])
  BY <1>1, <1>3, <1>4 DEF path
<1>6. FileFormRight(fileForm, byHand)
  BY <1>2, <1>3, <1>5, EmptyText DEF FileFormRight, path
<1>7. tree \subseteq Files /\ catalog \in [paths: (SUBSET Files) \cup {None}, unavailable: BOOLEAN] /\ browsed \subseteq Files
  BY <1>2, FilePickersAssumption DEF Files
<1>8. PickerRight(picker, browsed)
  BY <1>2, <1>5, NewPickerRight
<1>9. published \in 1..Len(Releases) /\ JarsRight(jars)
  BY <1>2, NewJarsRight, FilePickersAssumption
<1>10. \A k \in DOMAIN lists : AnswerRight(k, lists[k])
  BY <1>2
<1>11. QED
  BY <1>6, <1>7, <1>8, <1>9, <1>10 DEF PickersInv

LEMMA PickersStep == ASSUME PickersInv, [FilePickersNext]_pickerVars PROVE PickersInv'
<1>1. CASE ChooseRuntime \/ TypePath \/ FocusPath \/ LeavePath \/ Arrow \/ ChooseSuggestion
  BY <1>1, RuntimeInv, TypingInv, FieldMovesInv, SuggestionInv, FieldStepInv
<1>2. CASE Browse \/ NavigateUp \/ OpenFolder \/ SelectFile \/ SearchFolder \/ FilterFiles \/ UseSelected \/ CancelBrowse
  BY <1>2, BrowseInv, UpInv, FolderInv, SelectingInv, UseInv, FieldStepInv
<1>3. CASE BrowseJars \/ ChooseRelease \/ TurnReleases \/ TurnJars \/ ChooseJar \/ UnpinJar
  BY <1>3, BrowseJarsInv, ReleaseInv, TurnReleasesInv, TurnJarsInv, ChooseJarInv, UnpinInv, JarsStepInv
<1>4. CASE Pushed \/ Published \/ CatalogArrives \/ CatalogFails \/ ListArrives
  BY <1>4, WorldInv, ListInv
<1>5. CASE UNCHANGED pickerVars
  BY <1>5 DEF pickerVars, PickersInv
<1>6. QED
  BY <1>1, <1>2, <1>3, <1>4, <1>5 DEF FilePickersNext

\* What the invariant says
LEMMA PickedShown == ASSUME PickersInv PROVE PickedIsShown
<1>1. PickersTypeOK /\ SelectedInFolder /\ BrowsedFolderExists /\ RuntimeOfPath
  BY DEF PickersInv, PickerRight, Pickers, FileFormRight, PickersTypeOK, SelectedInFolder, BrowsedFolderExists, RuntimeOfPath
<1>2. JarsOfRelease
  BY ListedJars DEF JarsOfRelease
<1>3. NoJarPageBeyond
  BY DEF PickersInv, JarsRight, NoJarPageBeyond
<1>4. QED
  BY <1>1, <1>2, <1>3 DEF PickedIsShown

\* Whatever is pushed and published while a form is open, and whichever answers come late or are read again:
\* the file that would be used is one of the folder on show and of the type chosen for it, in a folder that
\* the repository had when the browser came there; the runtime fits the extension unless the user chose another;
\* and the JARs listed are those of the release and of the page that are chosen (RepositoryPathPicker,
\* ReleaseJarPicker, changeForm).
THEOREM PickedFromWhatIsShown == FilePickersSpec => []PickedIsShown
<1>1. FilePickersInit => PickersInv
  BY PickersInit
<1>2. PickersInv /\ [FilePickersNext]_pickerVars => PickersInv'
  BY PickersStep
<1>3. PickersInv => PickedIsShown
  BY PickedShown
<1>4. QED
  BY <1>1, <1>2, <1>3, PTL DEF FilePickersSpec

(***************************************************************************)
(* Numbers and ranks                                                        *)
(***************************************************************************)
\* A set of natural numbers that is not empty has a least one.
LEMMA LeastNumber ==
  ASSUME NEW T \in SUBSET Nat, T /= {}
  PROVE  \E m \in T : \A k \in T : m <= k
<1> DEFINE Less == {p \in Nat \X Nat : p[1] < p[2]}
<1>1. IsWellFoundedOn(Less, Nat)
  BY NatLessThanWellFounded DEF OpToRel
<1>2. \A k, m \in Nat : k < m => <<k, m>> \in Less
  BY Zenon
<1> HIDE DEF Less
<1>3. PICK m \in T : \A k \in T : ~(<<k, m>> \in Less)
  BY <1>1, WFMin
<1>4. \A k \in T : ~(k < m)
  BY <1>2, <1>3
<1>5. QED
  BY <1>4

\* What holds of 0, and of n + 1 if it holds of n, holds of every number: S is the set of the
\* numbers that it holds of.
LEMMA EveryNumber ==
  ASSUME NEW S, 0 \in S, \A n \in Nat : n \in S => n + 1 \in S
  PROVE  \A n \in Nat : n \in S
<1> SUFFICES ASSUME Nat \ S /= {} PROVE FALSE
  OBVIOUS
<1>1. PICK m \in Nat \ S : \A k \in Nat \ S : m <= k
  BY LeastNumber
<1>2. m /= 0 /\ m - 1 \in Nat /\ ~(m <= m - 1)
  BY <1>1
<1>3. m - 1 \in S
  BY <1>1, <1>2
<1>4. (m - 1) + 1 \in S /\ (m - 1) + 1 = m
  BY <1>2, <1>3
<1>5. QED
  BY <1>1, <1>4

\* A set of numbers up to a bound that is not empty has a greatest one.
LEMMA GreatestNumber ==
  ASSUME NEW b \in Nat, NEW T \in SUBSET (0..b), T /= {}
  PROVE  \E m \in T : \A k \in T : k <= m
<1> DEFINE U == {u \in Nat : \A k \in T : k <= u}
<1>1. b \in U
  OBVIOUS
<1>2. PICK u \in U : \A v \in U : u <= v
  <2>1. U \in SUBSET Nat /\ U /= {}
    BY <1>1
  <2> HIDE DEF U
  <2>2. QED
    BY <2>1, LeastNumber
<1>3. CASE u \in T
  BY <1>3
<1>4. CASE u \notin T
  <2>1. \A k \in T : k \in Nat /\ k < u
    BY <1>2, <1>4
  <2>2. u - 1 \in Nat
    <3>1. PICK t \in T : TRUE
      OBVIOUS
    <3>2. t \in Nat /\ t < u /\ u \in Nat
      BY <2>1, <3>1
    <3>3. QED
      BY <3>2
  <2>3. \A k \in T : k <= u - 1
    BY <1>2, <2>1
  <2>4. u - 1 \in U
    BY <2>2, <2>3
  <2>5. QED
    BY <1>2, <2>4
<1>5. QED
  BY <1>3, <1>4

\* The elements of T that come after k
After(T, k) == {j \in T : j > k}

LEMMA SmallSet == ASSUME NEW b \in Nat, NEW T \in SUBSET (0..b) PROVE IsFiniteSet(T) /\ Cardinality(T) \in Nat /\ \A k \in T : k \in Nat
<1>1. IsFiniteSet(0..b)
  BY FS_Interval
<1>2. IsFiniteSet(T) /\ Cardinality(T) \in Nat
  BY <1>1, FS_Subset, FS_CardinalityType
<1>3. QED
  BY <1>2

LEMMA AfterSmall ==
  ASSUME NEW b \in Nat, NEW T \in SUBSET (0..b), NEW k
  PROVE  /\ After(T, k) \in SUBSET (0..b) /\ After(T, k) \subseteq T
         /\ IsFiniteSet(After(T, k)) /\ Cardinality(After(T, k)) \in Nat
         /\ (k \in Nat => k \notin After(T, k))
<1>1. After(T, k) \in SUBSET (0..b) /\ After(T, k) \subseteq T
  BY DEF After
<1>2. k \in Nat => ~(k > k)
  OBVIOUS
<1>3. k \in Nat => k \notin After(T, k)
  BY <1>2 DEF After
<1>4. QED
  BY <1>1, <1>3, SmallSet

\* How many come after: more after an earlier element, and some rank is everyone's
LEMMA FewerAfter ==
  ASSUME NEW b \in Nat, NEW T \in SUBSET (0..b), NEW i \in T, NEW k \in Nat, k < i
  PROVE  Cardinality(After(T, i)) + 1 <= Cardinality(After(T, k))
<1>1. /\ IsFiniteSet(After(T, i)) /\ IsFiniteSet(After(T, k)) /\ i \notin After(T, i)
      /\ Cardinality(After(T, i)) \in Nat /\ Cardinality(After(T, k)) \in Nat
  <2>1. i \in Nat
    OBVIOUS
  <2>2. QED
    BY <2>1, AfterSmall
<1>2. \A j \in T : j \in Nat
  OBVIOUS
<1>3. \A j \in T : j > i \/ j = i => j > k
  BY <1>2
<1>4. After(T, i) \cup {i} \subseteq After(T, k)
  BY <1>3 DEF After
<1>5. Cardinality(After(T, i) \cup {i}) = Cardinality(After(T, i)) + 1
  BY <1>1, FS_AddElement
<1>6. Cardinality(After(T, i) \cup {i}) <= Cardinality(After(T, k))
  BY <1>1, <1>4, FS_Subset
<1>7. QED
  BY <1>5, <1>6

LEMMA MoreAfter ==
  ASSUME NEW b \in Nat, NEW T \in SUBSET (0..b), NEW S \in SUBSET T, NEW k
  PROVE  Cardinality(After(S, k)) <= Cardinality(After(T, k))
<1>1. After(S, k) \subseteq After(T, k)
  BY DEF After
<1>2. IsFiniteSet(After(T, k))
  BY AfterSmall
<1>3. QED
  BY <1>1, <1>2, FS_Subset

\* An element has fewer after it than there are.
LEMMA AfterIsLess ==
  ASSUME NEW b \in Nat, NEW T \in SUBSET (0..b), NEW k \in T
  PROVE  Cardinality(After(T, k)) < Cardinality(T)
<1>1. After(T, k) \subseteq T /\ k \notin After(T, k) /\ IsFiniteSet(T) /\ Cardinality(T) \in Nat /\ Cardinality(After(T, k)) \in Nat
  BY AfterSmall, SmallSet
<1>2. After(T, k) /= T
  BY <1>1
<1>3. Cardinality(After(T, k)) <= Cardinality(T) /\ (Cardinality(After(T, k)) = Cardinality(T) => After(T, k) = T)
  BY <1>1, FS_Subset
<1>4. QED
  BY <1>1, <1>2, <1>3

\* Some element has exactly n after it.
LEMMA SomeHasRank ==
  ASSUME NEW b \in Nat, NEW T \in SUBSET (0..b)
  PROVE  \A n \in Nat : n < Cardinality(T) => \E i \in T : Cardinality(After(T, i)) = n
<1> DEFINE S == {n \in Nat : n < Cardinality(T) => \E i \in T : Cardinality(After(T, i)) = n}
<1>0. \A j \in T : j \in Nat
  OBVIOUS
<1>1. 0 \in S
  <2> SUFFICES ASSUME 0 < Cardinality(T) PROVE \E i \in T : Cardinality(After(T, i)) = 0
    OBVIOUS
  <2>1. T /= {}
    BY FS_EmptySet
  <2>2. PICK i \in T : \A k \in T : k <= i
    BY <2>1, GreatestNumber
  <2>3. \A k \in T : ~(k > i)
    BY <1>0, <2>2
  <2>4. After(T, i) = {}
    BY <2>3 DEF After
  <2>5. QED
    BY <2>4, FS_EmptySet
<1>2. ASSUME NEW n \in Nat, n \in S PROVE n + 1 \in S
  <2> SUFFICES ASSUME n + 1 < Cardinality(T) PROVE \E i \in T : Cardinality(After(T, i)) = n + 1
    OBVIOUS
  <2>1. Cardinality(T) \in Nat
    BY SmallSet
  <2>2. PICK i \in T : Cardinality(After(T, i)) = n
    BY <1>2, <2>1
  <2> DEFINE U == After(T, i) \cup {i}
             B == {j \in T : j < i}
  <2>3. IsFiniteSet(After(T, i)) /\ i \notin After(T, i)
    BY <1>0, AfterSmall
  <2>4. Cardinality(U) = n + 1
    BY <2>2, <2>3, FS_AddElement
  <2>5. B /= {}
    <3> SUFFICES ASSUME B = {} PROVE FALSE
      OBVIOUS
    <3>1. \A j \in T : ~(j < i)
      OBVIOUS
    <3>2. \A j \in T : j > i \/ j = i
      BY <1>0, <3>1
    <3>3. T = U
      BY <3>2 DEF After
    <3>4. QED
      BY <2>1, <2>4, <3>3
  <2>6. PICK k \in B : \A j \in B : j <= k
    <3>1. B \in SUBSET (0..b)
      OBVIOUS
    <3> HIDE DEF B
    <3>2. QED
      BY <2>5, <3>1, GreatestNumber
  <2>7. \A j \in T : j > k <=> j > i \/ j = i
    BY <1>0, <2>6
  <2>8. After(T, k) = U
    BY <2>7 DEF After
  <2>9. QED
    BY <2>4, <2>6, <2>8
<1> HIDE DEF S
<1>3. \A n \in Nat : n \in S
  BY <1>1, <1>2, EveryNumber
<1>4. QED
  BY <1>3 DEF S

(***************************************************************************)
(* The search                                                               *)
(***************************************************************************)
PlaceOf(s, until, k) == Cardinality(After(Listed(s, until), k))

\* Where the text of the selection s is on no page before p of the output of k
NoneBefore(s, k, p) == \A q \in 1..(p - 1) : Selections[s].text \notin Output[k][q]

\* Every run that there was and has the text is found or still to come: it is among those the
\* cursor c has not passed, and of the run it is in on no page it has passed.
ComesYet(c, k) ==
  /\ PlaceOf(c.of, c.until, k) >= c.offset
  /\ c.job /= None => k <= c.job /\ (k = c.job => NoneBefore(c.of, k, c.page))

Wanted(s) == {k \in Selections[s].keeps : k <= existed /\ HasText(k, s)}

CursorRight(c, found) ==
  /\ c \in Cursors /\ existed <= c.until /\ c.until <= created
  /\ c.job = None => c.page = 1
  /\ c.job /= None => /\ c.job \in Listed(c.of, c.until) /\ c.page <= Len(Output[c.job])
                      /\ PlaceOf(c.of, c.until, c.job) >= c.offset
  /\ \A k \in Wanted(c.of) : k \in found \/ ComesYet(c, k)

ResultsRight(s, found) == \A i \in found : i \in Selections[s].keeps /\ HasText(i, s)

\* The invariant that is proved of the search.
SearchInv ==
  /\ created \in 0..Len(Output) /\ existed \in 0..created
  /\ form \in DOMAIN Selections /\ selection \in DOMAIN Selections \cup {None} /\ results \subseteq DOMAIN Output
  /\ busy \in BOOLEAN /\ searchError \in BOOLEAN /\ (busy <=> searching /= None)
  /\ searching /= None => searching \in SearchRequests /\ searching.params = selection /\ searching.cursor = cursor
  /\ cursor /= None => cursor.of = selection /\ selection /= None /\ CursorRight(cursor, results)
  /\ selection /= None => ResultsRight(selection, results)
  /\ selection /= None /\ cursor = None /\ ~busy /\ ~searchError => Wanted(selection) \subseteq results

\* What is listed are runs that there are; those that were there when the search began are listed.
LEMMA ListedRuns ==
  ASSUME SearchInv, NEW s \in DOMAIN Selections, NEW until \in Nat
  PROVE  /\ created \in Nat /\ Listed(s, until) \in SUBSET (0..created) /\ Listed(s, until) \subseteq Selections[s].keeps
         /\ Listed(s, until) \subseteq DOMAIN Output
         /\ \A k \in Nat : PlaceOf(s, until, k) \in Nat
<1>1. created \in Nat /\ DOMAIN Output \subseteq Nat
  BY LogSearchAssumption DEF SearchInv
<1>2. Selections[s].keeps \subseteq DOMAIN Output
  BY LogSearchAssumption
<1>3. \A k \in Selections[s].keeps : k \in Nat /\ (k <= created => k \in 0..created)
  BY <1>1, <1>2
<1>4. Listed(s, until) \in SUBSET (0..created) /\ Listed(s, until) \subseteq Selections[s].keeps
  BY <1>3 DEF Listed
<1>5. \A k \in Nat : PlaceOf(s, until, k) \in Nat
  BY <1>1, <1>4, AfterSmall DEF PlaceOf
<1>6. QED
  BY <1>1, <1>2, <1>4, <1>5

LEMMA WantedListed ==
  ASSUME SearchInv, NEW s \in DOMAIN Selections, NEW until \in Nat, existed <= until
  PROVE  Wanted(s) \subseteq Listed(s, until) /\ Wanted(s) \subseteq DOMAIN Output
<1>1. created \in Nat /\ existed \in Nat /\ existed <= created /\ DOMAIN Output \subseteq Nat
  BY LogSearchAssumption DEF SearchInv
<1>2. Selections[s].keeps \subseteq DOMAIN Output
  BY LogSearchAssumption
<1>3. \A k \in Selections[s].keeps : k \in Nat /\ (k <= existed => k <= until /\ k <= created)
  BY <1>1, <1>2
<1>4. QED
  BY <1>2, <1>3 DEF Wanted, Listed

\* The pages of an output are numbered from 1 on.
LEMMA PagesOf ==
  ASSUME NEW k \in DOMAIN Output
  PROVE  Len(Output[k]) \in Nat /\ DOMAIN Output[k] = 1..Len(Output[k]) /\ (Output[k] = <<>> <=> Len(Output[k]) = 0)
<1>1. Output[k] \in Seq(SUBSET STRING)
  BY LogSearchAssumption
<1>2. QED
  BY <1>1

\* What the pages read so far tell, of the selection s and beside the results R
DoneRight(s, R, d) ==
  /\ d \in [at: Cursors, found: SUBSET DOMAIN Output, complete: BOOLEAN]
  /\ d.at.of = s /\ CursorRight(d.at, R \cup d.found) /\ ResultsRight(s, d.found)
  /\ d.complete => Wanted(s) \subseteq R \cup d.found

\* The run that is read next: all that is wanted and not found is it or was created before it.
LEMMA NextRead ==
  ASSUME SearchInv, NEW s \in DOMAIN Selections, NEW found, NEW c, CursorRight(c, found), c.of = s,
         ~(c.job = None /\ Cardinality(Listed(s, c.until)) <= c.offset)
  PROVE  LET i == IF c.job = None THEN At(s, c) ELSE c.job
         IN /\ i \in Listed(s, c.until) /\ PlaceOf(s, c.until, i) >= c.offset /\ c.page \in Nat \ {0}
            /\ c.page <= Len(Output[i]) \/ (c.page = 1 /\ Output[i] = <<>>)
            /\ \A k \in Wanted(s) : k \in found \/ (k <= i /\ PlaceOf(s, c.until, k) >= c.offset /\ (k = i => NoneBefore(s, k, c.page)))
<1> DEFINE L == Listed(s, c.until)
           i == IF c.job = None THEN At(s, c) ELSE c.job
<1>1. c \in Cursors /\ c.offset \in Nat /\ c.until \in Nat /\ c.page \in Nat \ {0} /\ c.page >= 1
  BY DEF CursorRight, Cursors
<1>2. L \in SUBSET (0..created) /\ created \in Nat /\ L \subseteq DOMAIN Output /\ \A k \in Nat : PlaceOf(s, c.until, k) \in Nat
  BY <1>1, ListedRuns
<1>3. Wanted(s) \subseteq L /\ \A k \in L : k \in Nat
  <2>1. Wanted(s) \subseteq L
    BY <1>1, WantedListed DEF CursorRight
  <2>2. \A k \in L : k \in Nat
    BY <1>2, SmallSet
  <2>3. QED
    BY <2>1, <2>2
<1>4. CASE c.job = None
  <2>1. Cardinality(L) \in Nat /\ c.offset < Cardinality(L)
    <3>1. Cardinality(L) \in Nat
      BY <1>2, SmallSet
    <3>2. ~(Cardinality(L) <= c.offset)
      BY <1>4
    <3>3. QED
      BY <1>1, <3>1, <3>2
  <2>2. \E x \in L : Cardinality(After(L, x)) = c.offset
    BY <1>1, <1>2, <2>1, SomeHasRank
  <2>3. i \in L /\ Cardinality(After(L, i)) = c.offset
    BY <1>4, <2>2 DEF At, After
  <2> HIDE DEF i
  <2>4. PlaceOf(s, c.until, i) = c.offset
    BY <2>3 DEF PlaceOf
  <2>5. c.page = 1
    BY <1>4 DEF CursorRight
  <2>6. c.page <= Len(Output[i]) \/ (c.page = 1 /\ Output[i] = <<>>)
    <3>1. Len(Output[i]) \in Nat /\ (Output[i] = <<>> <=> Len(Output[i]) = 0)
      BY <1>2, <2>3, PagesOf
    <3>2. QED
      BY <2>5, <3>1
  <2>7. ASSUME NEW k \in Wanted(s), k \notin found
        PROVE  k <= i /\ PlaceOf(s, c.until, k) >= c.offset /\ NoneBefore(s, k, c.page)
    <3>1. PlaceOf(s, c.until, k) >= c.offset /\ k \in L
      BY <1>3, <2>7 DEF CursorRight, ComesYet
    <3>2. k <= i
      <4> SUFFICES ASSUME i < k PROVE FALSE
        BY <1>3, <2>3, <3>1
      <4>1. PlaceOf(s, c.until, k) + 1 <= PlaceOf(s, c.until, i)
        BY <1>2, <1>3, <2>3, <3>1, FewerAfter DEF PlaceOf
      <4>2. QED
        BY <1>1, <1>2, <1>3, <2>4, <3>1, <4>1
    <3>3. NoneBefore(s, k, c.page)
      BY <2>5 DEF NoneBefore
    <3>4. QED
      BY <3>1, <3>2, <3>3
  <2>8. PlaceOf(s, c.until, i) >= c.offset
    BY <1>1, <2>4
  <2>9. QED
    BY <1>1, <2>3, <2>6, <2>7, <2>8 DEF i
<1>5. CASE c.job /= None
  BY <1>1, <1>5 DEF CursorRight, ComesYet
<1>6. QED
  BY <1>4, <1>5

\* One page more
LEMMA PageRight ==
  ASSUME SearchInv, NEW s \in DOMAIN Selections, NEW R, NEW d, DoneRight(s, R, d)
  PROVE  DoneRight(s, R, ScanPage(s, d))
<1> DEFINE c   == d.at
           i   == IF c.job = None THEN At(s, c) ELSE c.job
           hit == Output[i] /= <<>> /\ Selections[s].text \in Output[i][c.page]
           L   == Listed(s, c.until)
<1>1. /\ d \in [at: Cursors, found: SUBSET DOMAIN Output, complete: BOOLEAN]
      /\ c \in Cursors /\ c.of = s /\ CursorRight(c, R \cup d.found) /\ ResultsRight(s, d.found)
      /\ d.complete => Wanted(s) \subseteq R \cup d.found
  BY DEF DoneRight
<1>2. c.offset \in Nat /\ c.until \in Nat /\ c.page \in Nat \ {0} /\ existed <= c.until
  BY <1>1 DEF Cursors, CursorRight
<1>3. L \in SUBSET (0..created) /\ created \in Nat /\ L \subseteq DOMAIN Output /\ \A k \in Nat : PlaceOf(s, c.until, k) \in Nat
  BY <1>2, ListedRuns
<1>4. Wanted(s) \subseteq L /\ (\A k \in L : k \in Nat) /\ L \subseteq Selections[s].keeps
  <2>1. Wanted(s) \subseteq L /\ L \subseteq Selections[s].keeps
    BY <1>2, WantedListed, ListedRuns
  <2>2. \A k \in L : k \in Nat
    BY <1>3, SmallSet
  <2>3. QED
    BY <2>1, <2>2
<1>5. CASE d.complete \/ (c.job = None /\ Cardinality(L) <= c.offset)
  <2>1. ScanPage(s, d) = [d EXCEPT !.complete = TRUE]
    BY <1>5 DEF ScanPage
  <2>2. Wanted(s) \subseteq R \cup d.found
    <3> SUFFICES ASSUME NEW k \in Wanted(s), k \notin R \cup d.found, c.job = None, Cardinality(L) <= c.offset PROVE FALSE
      BY <1>1, <1>5
    <3>1. PlaceOf(s, c.until, k) >= c.offset /\ k \in L
      BY <1>1, <1>4 DEF CursorRight, ComesYet
    <3>2. PlaceOf(s, c.until, k) < Cardinality(L) /\ Cardinality(L) \in Nat /\ PlaceOf(s, c.until, k) \in Nat
      BY <1>3, <1>4, <3>1, AfterIsLess, SmallSet DEF PlaceOf
    <3>3. QED
      BY <1>2, <3>1, <3>2
  <2> DEFINE e == ScanPage(s, d)
  <2>3. e \in [at: Cursors, found: SUBSET DOMAIN Output, complete: BOOLEAN] /\ e.at = c /\ e.found = d.found
    BY <1>1, <2>1
  <2> HIDE DEF e
  <2>4. DoneRight(s, R, e)
    BY <1>1, <2>2, <2>3 DEF DoneRight
  <2>5. QED
    BY <2>4 DEF e
<1>6. CASE ~(d.complete \/ (c.job = None /\ Cardinality(L) <= c.offset))
  <2> DEFINE f == d.found \cup (IF hit THEN {i} ELSE {})
             at2 == Scanned(c, i)
             e  == [at |-> at2, found |-> f, complete |-> FALSE]
  <2>1. ScanPage(s, d) = e
    BY <1>6 DEF ScanPage
  <2>2. /\ i \in L /\ PlaceOf(s, c.until, i) >= c.offset
        /\ c.page <= Len(Output[i]) \/ (c.page = 1 /\ Output[i] = <<>>)
        /\ \A k \in Wanted(s) : k \in R \cup d.found
             \/ (k <= i /\ PlaceOf(s, c.until, k) >= c.offset /\ (k = i => NoneBefore(s, k, c.page)))
    BY <1>1, <1>6, NextRead
  <2>3. Len(Output[i]) \in Nat /\ DOMAIN Output[i] = 1..Len(Output[i]) /\ i \in DOMAIN Output /\ (Output[i] = <<>> <=> Len(Output[i]) = 0)
    BY <1>3, <2>2, PagesOf
  <2> HIDE DEF i
  <2>4. hit => i \in Selections[s].keeps /\ HasText(i, s)
    <3>1. hit => c.page \in DOMAIN Output[i]
      BY <1>2, <2>2, <2>3
    <3>2. QED
      BY <1>4, <2>2, <3>1 DEF HasText
  <2>5. f \in SUBSET DOMAIN Output /\ ResultsRight(s, f)
    BY <1>1, <2>3, <2>4 DEF ResultsRight
  <2>6. \A k \in Wanted(s) : k \in R \cup f
          \/ (k <= i /\ PlaceOf(s, c.until, k) >= c.offset /\ (k = i => NoneBefore(s, k, c.page) /\ ~hit))
    BY <2>2
  <2>7. Selections[s].text \in Output[i][c.page] => hit \/ Output[i] = <<>>
    OBVIOUS
  <2> HIDE DEF f, hit
  <2>8. CASE c.page < Len(Output[i])
    <3>1. at2 = [c EXCEPT !.job = i, !.page = c.page + 1]
      BY <2>8 DEF Scanned
    <3>2. /\ at2 \in Cursors /\ at2.job = i /\ at2.page = c.page + 1 /\ at2.of = s /\ at2.until = c.until /\ at2.offset = c.offset
      <4>1. c.page + 1 \in Nat \ {0}
        BY <1>2
      <4>2. QED
        BY <1>1, <2>3, <3>1, <4>1 DEF Cursors
    <3>3. Output[i] /= <<>> /\ c.page + 1 <= Len(Output[i])
      BY <1>2, <2>3, <2>8
    <3>4. i /= None
      BY <2>3, NoneIsNoCursor
    <3> HIDE DEF at2
    <3>5. ASSUME NEW k \in Wanted(s), k \notin R \cup f PROVE ComesYet(at2, k)
      <4>1. k <= i /\ PlaceOf(s, c.until, k) >= c.offset
        BY <2>6, <3>5
      <4>2. k = i => NoneBefore(s, k, c.page + 1)
        <5> SUFFICES ASSUME k = i, NEW q \in 1..((c.page + 1) - 1) PROVE Selections[s].text \notin Output[i][q]
          BY DEF NoneBefore
        <5>1. NoneBefore(s, i, c.page) /\ Selections[s].text \notin Output[i][c.page]
          BY <2>6, <2>7, <3>3, <3>5
        <5>2. q \in 1..(c.page - 1) \/ q = c.page
          BY <1>2
        <5>3. QED
          BY <5>1, <5>2 DEF NoneBefore
      <4>3. QED
        BY <3>2, <4>1, <4>2 DEF ComesYet
    <3>6. CursorRight(at2, R \cup f)
      BY <1>1, <1>2, <2>2, <3>2, <3>3, <3>4, <3>5 DEF CursorRight
    <3>7. QED
      BY <2>1, <2>5, <3>2, <3>6 DEF DoneRight
  <2>9. CASE ~(c.page < Len(Output[i]))
    <3>1. at2 = [c EXCEPT !.offset = c.offset + 1, !.job = None, !.page = 1]
      BY <2>9 DEF Scanned
    <3>2. /\ at2 \in Cursors /\ at2.job = None /\ at2.page = 1 /\ at2.of = s /\ at2.until = c.until /\ at2.offset = c.offset + 1
      <4>1. c.offset + 1 \in Nat /\ 1 \in Nat \ {0}
        BY <1>2
      <4>2. QED
        BY <1>1, <3>1, <4>1 DEF Cursors
    <3> HIDE DEF at2
    <3>3. ASSUME NEW k \in Wanted(s), k \notin R \cup f PROVE ComesYet(at2, k)
      <4>1. k <= i /\ PlaceOf(s, c.until, k) >= c.offset /\ k \in L /\ k \in Nat /\ i \in Nat
        BY <1>4, <2>2, <2>6, <3>3
      <4>2. k /= i
        <5> SUFFICES ASSUME k = i PROVE FALSE
          OBVIOUS
        <5>1. NoneBefore(s, i, c.page) /\ ~hit
          BY <2>6, <3>3
        <5>2. PICK q \in DOMAIN Output[i] : Selections[s].text \in Output[i][q]
          BY DEF Wanted, HasText
        <5>3. q \in 1..Len(Output[i]) /\ Output[i] /= <<>>
          BY <2>3, <5>2
        <5>4. q \in 1..(c.page - 1) \/ q = c.page
          BY <1>2, <2>3, <2>9, <5>3, <2>2
        <5>5. QED
          BY <2>7, <5>1, <5>2, <5>3, <5>4 DEF NoneBefore
      <4>3. k < i
        BY <4>1, <4>2
      <4>4. PlaceOf(s, c.until, i) + 1 <= PlaceOf(s, c.until, k)
        BY <1>3, <2>2, <4>1, <4>3, FewerAfter DEF PlaceOf
      <4>5. PlaceOf(s, c.until, k) >= c.offset + 1
        BY <1>2, <1>3, <2>2, <4>1, <4>4
      <4>6. QED
        BY <3>2, <4>5 DEF ComesYet
    <3>4. CursorRight(at2, R \cup f)
      BY <1>1, <1>2, <3>2, <3>3 DEF CursorRight
    <3>5. QED
      BY <2>1, <2>5, <3>2, <3>4 DEF DoneRight
  <2>10. QED
    BY <2>8, <2>9
<1>7. QED
  BY <1>5, <1>6

\* A request reads Budget pages at most: a recursive function, of which each value is one page more.
LEMMA ScanRight ==
  ASSUME SearchInv, NEW s \in DOMAIN Selections, NEW R, NEW c \in Cursors, c.of = s, CursorRight(c, R)
  PROVE  DoneRight(s, R, Scan(s, c))
<1> DEFINE first == [at |-> c, found |-> {}, complete |-> FALSE]
           Reads(f, b) == f = [n \in 0..b |-> IF n = 0 THEN first ELSE ScanPage(s, f[n - 1])]
           done == CHOOSE f : Reads(f, Budget)
<1>1. Budget \in Nat
  BY LogSearchAssumption
<1>2. \A b \in Nat : \E f : Reads(f, b)
  <2> DEFINE S == {b \in Nat : \E f : Reads(f, b)}
  <2>1. 0 \in S
    <3>1. Reads([n \in 0..0 |-> first], 0)
      OBVIOUS
    <3>2. QED
      BY <3>1
  <2>2. ASSUME NEW b \in Nat, b \in S PROVE b + 1 \in S
    <3>1. PICK f : Reads(f, b)
      BY <2>2
    <3> DEFINE g == [n \in 0..(b + 1) |-> IF n = b + 1 THEN ScanPage(s, f[b]) ELSE f[n]]
    <3>2. \A n \in 0..b : f[n] = IF n = 0 THEN first ELSE ScanPage(s, f[n - 1])
      <4> HIDE DEF first
      <4>1. f = [n \in 0..b |-> IF n = 0 THEN first ELSE ScanPage(s, f[n - 1])]
        BY <3>1
      <4>2. QED
        BY <4>1
    <3> HIDE DEF first
    <3>3. (\A n \in 0..b : g[n] = f[n]) /\ g[b + 1] = ScanPage(s, f[b])
      <4>1. \A n \in 0..b : n \in 0..(b + 1) /\ n /= b + 1
        OBVIOUS
      <4>2. b + 1 \in 0..(b + 1)
        OBVIOUS
      <4>3. QED
        BY <4>1, <4>2
    <3> HIDE DEF g, Reads
    <3>4. \A n \in 0..(b + 1) : g[n] = IF n = 0 THEN first ELSE ScanPage(s, g[n - 1])
      <4> TAKE n \in 0..(b + 1)
      <4>1. CASE n = b + 1
        <5>1. b \in 0..b /\ n /= 0 /\ n - 1 = b
          BY <4>1
        <5>2. QED
          BY <3>3, <4>1, <5>1
      <4>2. CASE n \in 0..b /\ n /= 0
        <5>1. n - 1 \in 0..b
          BY <4>2
        <5>2. QED
          BY <3>2, <3>3, <4>2, <5>1
      <4>3. CASE n = 0
        <5>1. 0 \in 0..b
          OBVIOUS
        <5>2. QED
          BY <3>2, <3>3, <4>3, <5>1
      <4>4. QED
        BY <4>1, <4>2, <4>3
    <3>5. Reads(g, b + 1)
      <4>1. g = [n \in 0..(b + 1) |-> g[n]]
        BY DEF g
      <4>2. [n \in 0..(b + 1) |-> g[n]] = [n \in 0..(b + 1) |-> IF n = 0 THEN first ELSE ScanPage(s, g[n - 1])]
        BY <3>4
      <4>3. QED
        BY <4>1, <4>2 DEF Reads
    <3>6. b + 1 \in Nat /\ \E h : Reads(h, b + 1)
      BY <3>5
    <3>7. QED
      BY <3>6
  <2> HIDE DEF S, Reads
  <2>3. \A b \in Nat : b \in S
    BY <2>1, <2>2, EveryNumber
  <2>4. QED
    BY <2>3 DEF S
<1>3. Reads(done, Budget)
  BY <1>1, <1>2
<1>4. Scan(s, c) = done[Budget]
  BY DEF Scan
<1> HIDE DEF done
<1>5. done[0] = first /\ \A n \in Nat : n + 1 <= Budget => done[n + 1] = ScanPage(s, done[n])
  <2>1. \A n \in 0..Budget : done[n] = IF n = 0 THEN first ELSE ScanPage(s, done[n - 1])
    BY <1>3
  <2> HIDE DEF first, Reads
  <2>2. done[0] = first
    BY <1>1, <2>1
  <2>3. ASSUME NEW n \in Nat, n + 1 <= Budget PROVE done[n + 1] = ScanPage(s, done[n])
    <3>1. n + 1 \in 0..Budget /\ n + 1 /= 0 /\ (n + 1) - 1 = n
      BY <1>1, <2>3
    <3>2. QED
      BY <2>1, <3>1
  <2>4. QED
    BY <2>2, <2>3
<1>6. DoneRight(s, R, first)
  <2>1. R \cup first.found = R
    OBVIOUS
  <2>2. QED
    BY <2>1 DEF DoneRight, ResultsRight
<1> DEFINE T == {n \in Nat : n <= Budget => DoneRight(s, R, done[n])}
<1> HIDE DEF first, Reads
<1>7. 0 \in T
  BY <1>5, <1>6
<1>8. ASSUME NEW n \in Nat, n \in T PROVE n + 1 \in T
  <2> SUFFICES ASSUME n + 1 <= Budget PROVE DoneRight(s, R, done[n + 1])
    OBVIOUS
  <2>1. DoneRight(s, R, done[n])
    BY <1>1, <1>8
  <2>2. QED
    BY <1>5, <2>1, PageRight
<1> HIDE DEF T
<1>9. \A n \in Nat : n \in T
  BY <1>7, <1>8, EveryNumber
<1>10. Budget \in T
  BY <1>1, <1>9
<1>11. DoneRight(s, R, done[Budget])
  BY <1>1, <1>10 DEF T
<1>12. QED
  BY <1>4, <1>11

LEMMA SearchStarts == LogSearchInit => SearchInv
<1> SUFFICES ASSUME LogSearchInit PROVE SearchInv
  OBVIOUS
<1>1. 0 \in 0..created /\ created \in 0..Len(Output)
  <2>1. created \in 0..Len(Output) /\ Len(Output) \in Nat
    BY LogSearchAssumption DEF LogSearchInit
  <2>2. QED
    BY <2>1
<1>2. QED
  BY <1>1 DEF LogSearchInit, SearchInv

\* The runs that are created while a search goes on come before those it has not passed.
LEMMA CreateInv == ASSUME SearchInv, Create PROVE SearchInv'
<1>1. /\ created < Len(Output) /\ created' = created + 1
      /\ UNCHANGED <<form, selection, results, cursor, busy, searchError, searching, existed>>
  BY DEF Create
<1>2. created \in Nat /\ existed \in Nat /\ Len(Output) \in Nat /\ existed <= created
  BY LogSearchAssumption DEF SearchInv
<1>3. created' \in 0..Len(Output) /\ existed' \in 0..created' /\ created <= created' /\ created' \in Nat
  BY <1>1, <1>2
<1>4. ASSUME cursor /= None PROVE CursorRight(cursor, results)'
  <2> DEFINE s == cursor.of
             u == cursor.until
  <2>1. CursorRight(cursor, results) /\ cursor \in Cursors /\ cursor' = cursor /\ s \in DOMAIN Selections /\ u \in Nat /\ cursor.offset \in Nat
    BY <1>1, <1>4 DEF SearchInv, CursorRight, Cursors
  <2>2. Listed(s, u) \in SUBSET (0..created) /\ \A k \in Nat : PlaceOf(s, u, k) \in Nat
    BY <2>1, ListedRuns
  <2>3. \A k \in Selections[s].keeps : k \in Nat
    BY <2>1, LogSearchAssumption
  <2> DEFINE L == Listed(s, u)
             M == {k \in Selections[s].keeps : k <= (IF Selections[s].open THEN created' ELSE u) /\ k <= created'}
  <2>4. Listed(s, u)' = M /\ \A k : PlaceOf(s, u, k)' = Cardinality(After(M, k))
    BY <1>1, <2>1 DEF Listed, PlaceOf, After
  <2>5. M \in SUBSET (0..created') /\ L \in SUBSET M
    <3>1. \A k \in Selections[s].keeps : (k <= created => k <= created') /\ (k <= created' => k \in 0..created')
      BY <1>1, <1>2, <1>3, <2>3
    <3>2. QED
      BY <3>1 DEF Listed
  <2>6. \A k \in Nat : PlaceOf(s, u, k) <= PlaceOf(s, u, k)' /\ PlaceOf(s, u, k)' \in Nat
    <3> TAKE k \in Nat
    <3> HIDE DEF L, M
    <3>1. Cardinality(After(L, k)) <= Cardinality(After(M, k)) /\ Cardinality(After(M, k)) \in Nat
      BY <1>3, <2>5, MoreAfter, AfterSmall
    <3>2. PlaceOf(s, u, k) = Cardinality(After(L, k))
      BY DEF PlaceOf, L
    <3>3. QED
      BY <2>4, <3>1, <3>2
  <2>7. \A k \in Nat : PlaceOf(s, u, k) >= cursor.offset => PlaceOf(s, u, k)' >= cursor.offset
    BY <2>1, <2>2, <2>6
  <2>8. Wanted(s)' = Wanted(s)
    BY <1>1 DEF Wanted, HasText
  <2>9. \A k \in Wanted(s) : k \in Nat
    BY <2>3 DEF Wanted
  <2>10. \A k \in Wanted(s) : ComesYet(cursor, k) => ComesYet(cursor, k)'
    BY <2>1, <2>7, <2>9 DEF ComesYet, NoneBefore
  <2>11. existed' <= u /\ u <= created'
    <3>1. existed <= u /\ u <= created
      BY <2>1 DEF CursorRight
    <3>2. QED
      BY <1>1, <1>2, <2>1, <3>1
  <2>12. cursor.job /= None => cursor.job \in Listed(s, u)' /\ PlaceOf(s, u, cursor.job)' >= cursor.offset
    <3> SUFFICES ASSUME cursor.job /= None PROVE cursor.job \in Listed(s, u)' /\ PlaceOf(s, u, cursor.job)' >= cursor.offset
      OBVIOUS
    <3>1. cursor.job \in Listed(s, u) /\ PlaceOf(s, u, cursor.job) >= cursor.offset
      BY <2>1 DEF CursorRight
    <3>2. cursor.job \in Nat
      BY <2>2, <3>1, SmallSet, <1>2
    <3>3. cursor.job \in Listed(s, u)'
      BY <2>4, <2>5, <3>1
    <3>4. PICK j \in Nat : j = cursor.job
      BY <3>2
    <3>5. PlaceOf(s, u, j)' >= cursor.offset
      <4>1. PlaceOf(s, u, j) >= cursor.offset
        BY <3>1, <3>4
      <4>2. QED
        BY <2>7, <4>1
    <3>6. Cardinality(After(M, j)) >= cursor.offset
      BY <2>4, <3>5
    <3>7. PlaceOf(s, u, cursor.job)' = Cardinality(After(M, j))
      BY <1>1, <2>1, <2>4, <3>4 DEF PlaceOf
    <3>8. QED
      BY <3>3, <3>6, <3>7
  <2>13. QED
    BY <1>1, <2>1, <2>8, <2>10, <2>11, <2>12 DEF CursorRight
<1>5. selection /= None => ResultsRight(selection, results)'
  BY <1>1 DEF SearchInv, ResultsRight, HasText
<1>6. selection /= None => Wanted(selection)' = Wanted(selection)
  BY <1>1 DEF Wanted, HasText
<1>7. QED
  BY <1>1, <1>3, <1>4, <1>5, <1>6 DEF SearchInv

LEMMA EditFormInv == ASSUME SearchInv, EditForm PROVE SearchInv'
<1>1. UNCHANGED <<created, selection, results, cursor, busy, searchError, searching, existed>> /\ form' \in DOMAIN Selections
  BY DEF EditForm
<1>2. cursor /= None => CursorRight(cursor, results)'
  BY <1>1 DEF SearchInv, CursorRight, ComesYet, PlaceOf, Listed, Wanted
<1>3. selection /= None => ResultsRight(selection, results)' /\ Wanted(selection)' = Wanted(selection)
  BY <1>1 DEF SearchInv, ResultsRight, Wanted
<1>4. QED
  BY <1>1, <1>2, <1>3 DEF SearchInv

LEMMA SearchActionInv == ASSUME SearchInv, Search PROVE SearchInv'
<1>1. /\ busy' = TRUE /\ searchError' = FALSE /\ selection' = form /\ results' = {} /\ cursor' = None /\ existed' = created
      /\ searching' = [params |-> form, cursor |-> None] /\ UNCHANGED <<created, form>>
  BY DEF Search, NewRequest
<1>2. searching' \in SearchRequests /\ searching' /= None /\ form /= None
  BY <1>1, NoneIsNoCursor DEF SearchInv, SearchRequests
<1>3. existed' \in 0..created'
  BY <1>1 DEF SearchInv
<1>4. QED
  BY <1>1, <1>2, <1>3 DEF SearchInv, ResultsRight

LEMMA ContinueSearchInv == ASSUME SearchInv, ContinueSearch PROVE SearchInv'
<1>1. /\ cursor /= None /\ busy' = TRUE /\ searchError' = FALSE
      /\ searching' = [params |-> selection, cursor |-> cursor]
      /\ UNCHANGED <<created, form, selection, results, cursor, existed>>
  BY DEF ContinueSearch, NewRequest
<1>2. cursor \in Cursors /\ selection \in DOMAIN Selections
  BY <1>1 DEF SearchInv, CursorRight
<1>3. searching' \in SearchRequests /\ searching' /= None
  BY <1>1, <1>2, NoneIsNoCursor DEF SearchRequests
<1>4. CursorRight(cursor, results)'
  BY <1>1 DEF SearchInv, CursorRight, ComesYet, PlaceOf, Listed, Wanted
<1>5. ResultsRight(selection, results)'
  BY <1>1, <1>2, NoneIsNoCursor DEF SearchInv, ResultsRight
<1>6. QED
  BY <1>1, <1>3, <1>4, <1>5 DEF SearchInv

\* The server's answer, whichever request it is to
LEMMA FoundInv == ASSUME SearchInv, Found PROVE SearchInv'
<1> DEFINE s == searching.params
           c == IF searching.cursor = None THEN Start(s) ELSE searching.cursor
           R == IF searching.cursor = None THEN {} ELSE results
<1>1. PICK d : /\ d = Scan(s, c) /\ c.of = s /\ results' = R \cup d.found
               /\ cursor' = IF d.complete THEN None ELSE d.at
  BY DEF Found
<1>2. /\ searching /= None /\ searching' = None /\ busy' = FALSE
      /\ UNCHANGED <<created, form, selection, searchError, existed>>
  BY DEF Found
<1>3. s \in DOMAIN Selections /\ s = selection /\ s /= None /\ searching.cursor = cursor
  BY <1>2, NoneIsNoCursor DEF SearchInv, SearchRequests
<1>4. c \in Cursors /\ c.of = s /\ CursorRight(c, R)
  <2>1. CASE searching.cursor = None
    <3>1. created \in Nat /\ existed <= created
      BY LogSearchAssumption DEF SearchInv
    <3>2. /\ c = [offset |-> 0, job |-> None, page |-> 1, until |-> created, of |-> s] /\ R = {}
          /\ 0 \in Nat /\ 1 \in Nat \ {0}
      BY <2>1 DEF Start
    <3>3. c \in Cursors /\ c.of = s /\ c.until = created /\ c.job = None /\ c.page = 1 /\ c.offset = 0
      BY <1>3, <3>1, <3>2 DEF Cursors
    <3> HIDE DEF c, R
    <3>4. \A k \in Wanted(s) : PlaceOf(s, created, k) >= 0
      <4>1. Wanted(s) \subseteq Listed(s, created) /\ Listed(s, created) \in SUBSET (0..created)
        BY <1>3, <3>1, WantedListed, ListedRuns
      <4>2. \A k \in Nat : PlaceOf(s, created, k) >= 0
        BY <1>3, <3>1, ListedRuns
      <4>3. QED
        BY <3>1, <4>1, <4>2, SmallSet
    <3>5. \A k \in Wanted(s) : ComesYet(c, k)
      BY <3>3, <3>4 DEF ComesYet
    <3>6. QED
      BY <3>1, <3>3, <3>5 DEF CursorRight
  <2>2. CASE searching.cursor /= None
    BY <1>3, <2>2 DEF SearchInv, CursorRight
  <2>3. QED
    BY <2>1, <2>2
<1>5. ResultsRight(s, R)
  BY <1>3 DEF SearchInv, ResultsRight
<1>6. R \subseteq DOMAIN Output
  BY DEF SearchInv
<1> HIDE DEF c, R
<1>7. DoneRight(s, R, d)
  BY <1>1, <1>3, <1>4, ScanRight
<1>8. /\ d.at \in Cursors /\ d.found \subseteq DOMAIN Output /\ d.at.of = s /\ d.at /= None
      /\ CursorRight(d.at, R \cup d.found) /\ ResultsRight(s, d.found) /\ d.complete \in BOOLEAN
      /\ (d.complete => Wanted(s) \subseteq R \cup d.found)
  BY <1>7, NoneIsNoCursor DEF DoneRight
<1>9. cursor' /= None => cursor'.of = s /\ CursorRight(cursor, results)'
  <2> SUFFICES ASSUME cursor' /= None PROVE cursor'.of = s /\ CursorRight(cursor, results)'
    OBVIOUS
  <2>1. cursor' = d.at
    BY <1>1
  <2>2. QED
    BY <1>1, <1>2, <1>8, <2>1 DEF CursorRight, ComesYet, PlaceOf, Listed, Wanted
<1>10. results' \subseteq DOMAIN Output /\ ResultsRight(s, results')
  BY <1>1, <1>5, <1>6, <1>8 DEF ResultsRight
<1>11. ResultsRight(selection, results)'
  BY <1>2, <1>3, <1>10 DEF ResultsRight
<1>12. cursor' = None => Wanted(selection)' \subseteq results'
  BY <1>1, <1>2, <1>3, <1>8 DEF Wanted
<1>13. created' \in 0..Len(Output) /\ existed' \in 0..created'
  BY <1>2 DEF SearchInv
<1>14. QED
  BY <1>2, <1>3, <1>9, <1>10, <1>11, <1>12, <1>13 DEF SearchInv

LEMMA SearchFailsInv == ASSUME SearchInv, SearchFails PROVE SearchInv'
<1>1. /\ searching' = None /\ busy' = FALSE /\ searchError' = TRUE
      /\ UNCHANGED <<created, form, selection, results, cursor, existed>>
  BY DEF SearchFails
<1>2. cursor /= None => CursorRight(cursor, results)'
  BY <1>1 DEF SearchInv, CursorRight, ComesYet, PlaceOf, Listed, Wanted
<1>3. selection /= None => ResultsRight(selection, results)'
  BY <1>1 DEF SearchInv, ResultsRight
<1>4. QED
  BY <1>1, <1>2, <1>3 DEF SearchInv

LEMMA SearchStep == ASSUME SearchInv, [LogSearchNext]_searchVars PROVE SearchInv'
<1>1. CASE LogSearchNext
  BY <1>1, CreateInv, EditFormInv, SearchActionInv, ContinueSearchInv, FoundInv, SearchFailsInv DEF LogSearchNext
<1>2. CASE UNCHANGED searchVars
  <2>1. UNCHANGED <<created, form, selection, results, cursor, busy, searchError, searching, existed>>
    BY <1>2 DEF searchVars
  <2>2. cursor /= None => CursorRight(cursor, results)'
    BY <2>1 DEF SearchInv, CursorRight, ComesYet, PlaceOf, Listed, Wanted
  <2>3. selection /= None => ResultsRight(selection, results)' /\ Wanted(selection)' = Wanted(selection)
    BY <2>1 DEF SearchInv, ResultsRight, Wanted
  <2>4. QED
    BY <2>1, <2>2, <2>3 DEF SearchInv
<1>3. QED
  BY <1>1, <1>2

LEMMA SearchInvTells == SearchInv => SearchHonest
<1> SUFFICES ASSUME SearchInv PROVE SearchHonest
  OBVIOUS
<1>1. LogSearchTypeOK
  BY DEF SearchInv, LogSearchTypeOK
<1>2. ResultsMatch
  BY DEF SearchInv, ResultsMatch, ResultsRight
<1>3. CompleteIsComplete
  <2> SUFFICES ASSUME selection /= None, Progress = "complete", NEW i \in Selections[selection].keeps, i <= existed, HasText(i, selection)
               PROVE  i \in results
    BY DEF CompleteIsComplete
  <2>1. cursor = None /\ ~busy /\ ~searchError
    BY DEF Progress
  <2>2. i \in Wanted(selection)
    BY DEF Wanted
  <2>3. QED
    BY <2>1, <2>2 DEF SearchInv
<1>4. QED
  BY <1>1, <1>2, <1>3 DEF SearchHonest

THEOREM SearchTellsTheTruth == LogSearchSpec => []SearchHonest
<1>1. LogSearchSpec => []SearchInv
  BY SearchStarts, SearchStep, PTL DEF LogSearchSpec
<1>2. QED
  BY <1>1, SearchInvTells, PTL

(***************************************************************************)
(* Sets of numbers in ascending order                                       *)
(***************************************************************************)
UpTo(S, i) == {j \in S : j <= i}

LEMMA UpToAndAfter ==
  ASSUME NEW b \in Nat, NEW S \in SUBSET (0..b), NEW i \in Nat
  PROVE  /\ Cardinality(UpTo(S, i)) + Cardinality(After(S, i)) = Cardinality(S)
         /\ Cardinality(UpTo(S, i)) \in Nat /\ Cardinality(After(S, i)) \in Nat /\ Cardinality(S) \in Nat
         /\ IsFiniteSet(UpTo(S, i))
<1>1. IsFiniteSet(S) /\ Cardinality(S) \in Nat /\ \A j \in S : j \in Nat
  BY SmallSet
<1>2. IsFiniteSet(After(S, i)) /\ Cardinality(After(S, i)) \in Nat
  BY AfterSmall
<1>3. UpTo(S, i) \subseteq S
  BY DEF UpTo
<1>4. IsFiniteSet(UpTo(S, i)) /\ Cardinality(UpTo(S, i)) \in Nat
  BY <1>1, <1>3, FS_Subset, FS_CardinalityType
<1>5. \A j \in S : (j <= i \/ j > i) /\ ~(j <= i /\ j > i)
  BY <1>1
<1>6. UpTo(S, i) \cup After(S, i) = S /\ UpTo(S, i) \cap After(S, i) = {}
  BY <1>5 DEF UpTo, After
<1>7. Cardinality(S) = Cardinality(UpTo(S, i)) + Cardinality(After(S, i)) - Cardinality({})
  BY <1>2, <1>4, <1>6, FS_Union
<1>8. Cardinality({}) = 0
  BY FS_EmptySet
<1>9. QED
  BY <1>1, <1>2, <1>4, <1>7, <1>8

LEMMA CountOfBoth ==
  ASSUME NEW S, NEW T, IsFiniteSet(S), IsFiniteSet(T), S \cap T = {}
  PROVE  Cardinality(S \cup T) = Cardinality(S) + Cardinality(T)
<1>1. Cardinality(S \cup T) = Cardinality(S) + Cardinality(T) - Cardinality(S \cap T)
  BY FS_Union
<1>2. Cardinality(S \cap T) = 0 /\ Cardinality(S) \in Nat /\ Cardinality(T) \in Nat
  BY FS_EmptySet, FS_CardinalityType
<1>3. QED
  BY <1>1, <1>2

\* Elements up to which there are as many are the same.
LEMMA OfOneRank ==
  ASSUME NEW b \in Nat, NEW S \in SUBSET (0..b), NEW i \in S, NEW j \in S,
         Cardinality(UpTo(S, i)) = Cardinality(UpTo(S, j))
  PROVE  i = j
<1>1. i \in Nat /\ j \in Nat
  BY SmallSet
<1>2. Cardinality(After(S, i)) = Cardinality(After(S, j)) /\ Cardinality(After(S, i)) \in Nat
  <2>1. /\ Cardinality(UpTo(S, i)) + Cardinality(After(S, i)) = Cardinality(S)
        /\ Cardinality(UpTo(S, i)) \in Nat /\ Cardinality(After(S, i)) \in Nat /\ Cardinality(S) \in Nat
    BY <1>1, UpToAndAfter
  <2>2. Cardinality(UpTo(S, j)) + Cardinality(After(S, j)) = Cardinality(S) /\ Cardinality(After(S, j)) \in Nat
    BY <1>1, UpToAndAfter
  <2>3. QED
    BY <2>1, <2>2
<1>3. ~(i < j)
  <2> SUFFICES ASSUME i < j PROVE FALSE
    OBVIOUS
  <2>1. Cardinality(After(S, j)) + 1 <= Cardinality(After(S, i))
    BY <1>1, FewerAfter
  <2>2. QED
    BY <1>2, <2>1
<1>4. ~(j < i)
  <2> SUFFICES ASSUME j < i PROVE FALSE
    OBVIOUS
  <2>1. Cardinality(After(S, i)) + 1 <= Cardinality(After(S, j))
    BY <1>1, FewerAfter
  <2>2. QED
    BY <1>2, <2>1
<1>5. QED
  BY <1>1, <1>3, <1>4

LEMMA AscendingOf ==
  ASSUME NEW b \in Nat, NEW S \in SUBSET (0..b)
  PROVE  /\ Ascending(S) \in Seq(S) /\ Len(Ascending(S)) = Cardinality(S) /\ Cardinality(S) \in Nat
         /\ DOMAIN Ascending(S) = 1..Cardinality(S)
         /\ \A k \in 1..Cardinality(S) : Ascending(S)[k] \in S /\ Cardinality(UpTo(S, Ascending(S)[k])) = k
<1>1. Cardinality(S) \in Nat /\ \A j \in S : j \in Nat
  BY SmallSet
<1>2. ASSUME NEW k \in 1..Cardinality(S) PROVE \E i \in S : Cardinality(UpTo(S, i)) = k
  <2>1. Cardinality(S) - k \in Nat /\ Cardinality(S) - k < Cardinality(S)
    BY <1>1
  <2>2. PICK i \in S : Cardinality(After(S, i)) = Cardinality(S) - k
    BY <2>1, SomeHasRank
  <2>3. Cardinality(UpTo(S, i)) + Cardinality(After(S, i)) = Cardinality(S) /\ Cardinality(UpTo(S, i)) \in Nat
    BY <1>1, UpToAndAfter
  <2>4. QED
    BY <1>1, <2>2, <2>3
<1>3. ASSUME NEW k \in 1..Cardinality(S) PROVE Ascending(S)[k] \in S /\ Cardinality(UpTo(S, Ascending(S)[k])) = k
  <2>1. Ascending(S)[k] = CHOOSE i \in S : Cardinality(UpTo(S, i)) = k
    BY DEF Ascending, UpTo
  <2>2. QED
    BY <1>2, <2>1
<1>4. Ascending(S) = [k \in 1..Cardinality(S) |-> Ascending(S)[k]]
  BY DEF Ascending
<1>5. Ascending(S) \in [1..Cardinality(S) -> S]
  BY <1>3, <1>4
<1>6. QED
  BY <1>1, <1>3, <1>5

\* The element that has rank k is at k.
LEMMA PlaceInOrder ==
  ASSUME NEW b \in Nat, NEW S \in SUBSET (0..b), NEW i \in S
  PROVE  /\ Cardinality(UpTo(S, i)) \in 1..Cardinality(S)
         /\ \A k \in 1..Cardinality(S) : Cardinality(UpTo(S, i)) = k => Ascending(S)[k] = i
         /\ \E k \in 1..Cardinality(S) : Ascending(S)[k] = i
<1>1. i \in Nat /\ Cardinality(S) \in Nat /\ i <= i
  <2>1. i \in Nat /\ Cardinality(S) \in Nat
    BY SmallSet
  <2>2. QED
    BY <2>1
<1>2. /\ Cardinality(UpTo(S, i)) + Cardinality(After(S, i)) = Cardinality(S)
      /\ Cardinality(UpTo(S, i)) \in Nat /\ Cardinality(After(S, i)) \in Nat /\ IsFiniteSet(UpTo(S, i))
  BY <1>1, UpToAndAfter
<1>3. i \in UpTo(S, i)
  BY <1>1 DEF UpTo
<1>4. Cardinality(UpTo(S, i)) /= 0
  BY <1>2, <1>3, FS_EmptySet
<1>5. Cardinality(UpTo(S, i)) \in 1..Cardinality(S)
  BY <1>1, <1>2, <1>4
<1>6. ASSUME NEW k \in 1..Cardinality(S), Cardinality(UpTo(S, i)) = k PROVE Ascending(S)[k] = i
  <2>1. Ascending(S)[k] \in S /\ Cardinality(UpTo(S, Ascending(S)[k])) = k
    BY AscendingOf
  <2>2. QED
    BY <1>6, <2>1, OfOneRank
<1>7. QED
  BY <1>5, <1>6

LEMMA AscendingNumbers == ASSUME NEW n \in Nat PROVE \A k \in 1..n : Ascending(1..n)[k] = k
<1> SUFFICES ASSUME NEW k \in 1..n PROVE Ascending(1..n)[k] = k
  OBVIOUS
<1>1. Cardinality(1..n) = n /\ Cardinality(1..k) = k
  <2>1. n - 1 + 1 = n /\ k - 1 + 1 = k /\ ~(1 > n) /\ ~(1 > k) /\ k \in Int /\ n \in Int
    OBVIOUS
  <2>2. QED
    BY <2>1, FS_Interval
<1>2. UpTo(1..n, k) = 1..k
  BY DEF UpTo
<1>3. 1..n \in SUBSET (0..n)
  OBVIOUS
<1> DEFINE S == 1..n
<1>4. S \in SUBSET (0..n) /\ k \in S /\ Cardinality(UpTo(S, k)) = k /\ k \in 1..Cardinality(S)
  BY <1>1, <1>2, <1>3
<1>5. Ascending(S)[k] = k
  <2> HIDE DEF S
  <2>1. QED
    BY <1>4, PlaceInOrder
<1>6. QED
  BY <1>5

\* One set after another
LEMMA AscendingJoined ==
  ASSUME NEW b \in Nat, NEW S \in SUBSET (0..b), NEW T \in SUBSET (0..b), \A i \in S, j \in T : i < j
  PROVE  Ascending(S) \o Ascending(T) = Ascending(S \cup T)
<1> DEFINE U == S \cup T
           m == Cardinality(S)
           n == Cardinality(T)
           A == Ascending(S) \o Ascending(T)
<1>1. /\ IsFiniteSet(S) /\ IsFiniteSet(T) /\ m \in Nat /\ n \in Nat /\ U \in SUBSET (0..b)
      /\ \A i \in S : i \in Nat
  BY SmallSet
<1>2. \A i \in T : i \in Nat
  BY SmallSet
<1>3. S \cap T = {}
  <2> SUFFICES ASSUME NEW i \in S, i \in T PROVE FALSE
    OBVIOUS
  <2>1. i < i
    OBVIOUS
  <2>2. QED
    BY <1>1, <2>1
<1>4. Cardinality(U) = m + n
  BY <1>1, <1>3, CountOfBoth
<1>5. /\ Ascending(S) \in Seq(U) /\ Len(Ascending(S)) = m /\ Ascending(T) \in Seq(U) /\ Len(Ascending(T)) = n
      /\ Ascending(U) \in Seq(U) /\ Len(Ascending(U)) = m + n
  <2>1. Ascending(S) \in Seq(S) /\ Len(Ascending(S)) = m /\ Ascending(T) \in Seq(T) /\ Len(Ascending(T)) = n
    BY AscendingOf
  <2>2. Ascending(U) \in Seq(U) /\ Len(Ascending(U)) = m + n
    BY <1>1, <1>4, AscendingOf
  <2>3. S \subseteq U /\ T \subseteq U
    OBVIOUS
  <2> HIDE DEF U, m, n
  <2>4. QED
    BY <2>1, <2>2, <2>3, SeqMonotonic
<1>6. A \in Seq(U) /\ Len(A) = m + n /\ \A k \in 1..(m + n) : A[k] = IF k <= m THEN Ascending(S)[k] ELSE Ascending(T)[k - m]
  <2> HIDE DEF U, m, n
  <2>1. QED
    BY <1>5, ConcatProperties
<1> HIDE DEF A
<1>7. ASSUME NEW k \in 1..(m + n) PROVE A[k] = Ascending(U)[k]
  <2>1. CASE k <= m
    <3> DEFINE i == Ascending(S)[k]
    <3>1. k \in 1..m
      BY <1>1, <2>1
    <3>2. i \in S /\ Cardinality(UpTo(S, i)) = k
      BY <3>1, AscendingOf
    <3> HIDE DEF i
    <3>3. \A j \in T : ~(j <= i)
      BY <1>1, <1>2, <3>2
    <3>4. UpTo(U, i) = UpTo(S, i)
      BY <3>3 DEF UpTo
    <3>5. i \in U /\ Cardinality(UpTo(U, i)) = k /\ k \in 1..Cardinality(U)
      BY <1>4, <3>2, <3>4
    <3>6. Ascending(U)[k] = i
      BY <1>1, <3>5, PlaceInOrder
    <3>7. QED
      BY <1>6, <2>1, <3>6 DEF i
  <2>2. CASE ~(k <= m)
    <3> DEFINE i == Ascending(T)[k - m]
    <3>1. k - m \in 1..n
      BY <1>1, <2>2
    <3>2. i \in T /\ Cardinality(UpTo(T, i)) = k - m
      BY <3>1, AscendingOf
    <3> HIDE DEF i
    <3>3. \A j \in S : j <= i
      BY <1>1, <1>2, <3>2
    <3>4. UpTo(U, i) = S \cup UpTo(T, i) /\ S \cap UpTo(T, i) = {}
      BY <1>3, <3>3 DEF UpTo
    <3>5. IsFiniteSet(UpTo(T, i))
      BY <1>2, <3>2, UpToAndAfter
    <3>6. Cardinality(UpTo(U, i)) = m + (k - m)
      BY <1>1, <3>2, <3>4, <3>5, CountOfBoth
    <3>7. i \in U /\ Cardinality(UpTo(U, i)) = k /\ k \in 1..Cardinality(U)
      BY <1>1, <1>4, <3>2, <3>6
    <3>8. Ascending(U)[k] = i
      BY <1>1, <3>7, PlaceInOrder
    <3>9. QED
      BY <1>6, <2>2, <3>8 DEF i
  <2>3. QED
    BY <2>1, <2>2
<1> HIDE DEF U, m, n
<1>8. A = Ascending(U)
  BY <1>5, <1>6, <1>7, SeqEqual
<1>9. QED
  BY <1>8 DEF A, U

(***************************************************************************)
(* The server logs                                                          *)
(***************************************************************************)
\* A sequence cut to MaxEntries
LEMMA CapOf ==
  ASSUME NEW S, NEW s \in Seq(S)
  PROVE  /\ Capped(s) \in Seq(S) /\ Len(Capped(s)) = IF Len(s) < MaxEntries THEN Len(s) ELSE MaxEntries
         /\ \A k \in 1..Len(Capped(s)) : Capped(s)[k] = s[k]
         /\ Len(s) <= MaxEntries => Capped(s) = s
<1> DEFINE n == IF Len(s) < MaxEntries THEN Len(s) ELSE MaxEntries
<1>1. Len(s) \in Nat /\ MaxEntries \in Nat /\ n \in Nat /\ n <= Len(s) /\ DOMAIN s = 1..Len(s) /\ 1 \in Int /\ n \in Int
  BY ServerLogsAssumption
<1>2. Capped(s) = SubSeq(s, 1, n)
  BY DEF Capped
<1> HIDE DEF n
<1>3. \A k \in 1..n : s[k] \in S
  BY <1>1
<1>4. /\ SubSeq(s, 1, n) \in Seq(S) /\ Len(SubSeq(s, 1, n)) = (IF 1 <= n THEN n - 1 + 1 ELSE 0)
      /\ \A k \in 1..(n - 1 + 1) : SubSeq(s, 1, n)[k] = s[1 + k - 1]
  BY <1>1, <1>3, SubSeqProperties
<1>5. n - 1 + 1 = n /\ (~(1 <= n) => n = 0) /\ \A k \in 1..n : 1 + k - 1 = k
  BY <1>1
<1>6. Len(SubSeq(s, 1, n)) = n /\ \A k \in 1..n : SubSeq(s, 1, n)[k] = s[k]
  BY <1>4, <1>5
<1>7. Len(s) <= MaxEntries => n = Len(s)
  <2>1. Len(s) \in Nat /\ MaxEntries \in Nat
    BY <1>1
  <2>2. QED
    BY <2>1 DEF n
<1>8. Len(s) <= MaxEntries => Capped(s) = s
  BY <1>2, <1>4, <1>6, <1>7, SeqEqual
<1>9. QED
  BY <1>2, <1>4, <1>6, <1>8 DEF n

\* Nothing is added to a sequence that has been cut.
LEMMA CutStays ==
  ASSUME NEW S, NEW s \in Seq(S), NEW t \in Seq(S), Len(s) = MaxEntries
  PROVE  Capped(s \o t) = s
<1>1. Len(s) \in Nat /\ Len(t) \in Nat /\ MaxEntries \in Nat
  BY ServerLogsAssumption
<1>2. /\ s \o t \in Seq(S) /\ Len(s \o t) = Len(s) + Len(t)
      /\ \A k \in 1..(Len(s) + Len(t)) : (s \o t)[k] = IF k <= Len(s) THEN s[k] ELSE t[k - Len(s)]
  BY ConcatProperties
<1>3. Len(Capped(s \o t)) = Len(s) /\ Capped(s \o t) \in Seq(S)
  <2> DEFINE u == s \o t
  <2>1. u \in Seq(S) /\ Len(u) \in Nat /\ ~(Len(u) < MaxEntries)
    BY <1>1, <1>2
  <2> HIDE DEF u
  <2>2. Capped(u) \in Seq(S) /\ Len(Capped(u)) = MaxEntries
    BY <2>1, CapOf
  <2>3. QED
    BY <2>2 DEF u
<1>4. ASSUME NEW k \in 1..Len(s) PROVE Capped(s \o t)[k] = s[k]
  <2>1. Capped(s \o t)[k] = (s \o t)[k]
    BY <1>2, <1>3, CapOf
  <2>2. k \in 1..(Len(s) + Len(t)) /\ k <= Len(s)
    BY <1>1
  <2>3. QED
    BY <1>2, <2>1, <2>2
<1>5. QED
  BY <1>3, <1>4, SeqEqual

\* The places of a sequence
LEMMA PlacesOf ==
  ASSUME NEW S, NEW s \in Seq(S), NEW K \in SUBSET DOMAIN s
  PROVE  /\ AtPlaces(s, K) \in Seq(S) /\ (K = DOMAIN s => AtPlaces(s, K) = s) /\ (K = {} => AtPlaces(s, K) = <<>>)
<1> DEFINE A == Ascending(K)
           n == Cardinality(K)
<1>1. Len(s) \in Nat /\ DOMAIN s = 1..Len(s) /\ \A k \in 1..Len(s) : s[k] \in S
  OBVIOUS
<1>2. K \in SUBSET (0..Len(s))
  BY <1>1
<1>3. A \in Seq(K) /\ Len(A) = n /\ n \in Nat /\ DOMAIN A = 1..n /\ \A k \in 1..n : A[k] \in K
  BY <1>1, <1>2, AscendingOf
<1>4. AtPlaces(s, K) = [k \in 1..n |-> s[A[k]]]
  BY <1>3 DEF AtPlaces
<1> HIDE DEF A, n
<1>5. \A k \in 1..n : s[A[k]] \in S
  BY <1>1, <1>3
<1>6. AtPlaces(s, K) \in [1..n -> S]
  BY <1>4, <1>5
<1>7. AtPlaces(s, K) \in Seq(S) /\ Len(AtPlaces(s, K)) = n
  BY <1>3, <1>6
<1>8. ASSUME K = DOMAIN s PROVE AtPlaces(s, K) = s
  <2>1. K = 1..Len(s) /\ n = Len(s)
    <3>1. 1 \in Int /\ Len(s) \in Int /\ Len(s) - 1 + 1 = Len(s) /\ (1 > Len(s) => Len(s) = 0)
      BY <1>1
    <3>2. QED
      BY <1>1, <1>8, <3>1, FS_Interval DEF n
  <2>2. \A k \in 1..Len(s) : A[k] = k
    BY <1>1, <2>1, AscendingNumbers DEF A
  <2>3. \A k \in 1..Len(s) : AtPlaces(s, K)[k] = s[k]
    BY <1>4, <2>1, <2>2
  <2>4. QED
    BY <1>7, <2>1, <2>3, SeqEqual
<1>9. ASSUME K = {} PROVE AtPlaces(s, K) = <<>>
  <2>1. n = 0
    BY <1>9, FS_EmptySet DEF n
  <2>2. QED
    BY <1>7, <2>1
<1>10. QED
  BY <1>7, <1>8, <1>9

\* A window, and what a part of it adds to another
Part(a, b, l) == Ascending(Window(a, b, l))

LEMMA WindowSmall == ASSUME NEW a \in Nat, NEW b \in Nat, NEW l PROVE Window(a, b, l) \in SUBSET (0..b) /\ Part(a, b, l) \in Seq(Nat)
<1>1. Window(a, b, l) \in SUBSET (0..b)
  BY DEF Window
<1>2. Ascending(Window(a, b, l)) \in Seq(Window(a, b, l))
  BY <1>1, AscendingOf
<1>3. Window(a, b, l) \subseteq Nat
  BY <1>1
<1>4. QED
  BY <1>1, <1>2, <1>3, SeqMonotonic DEF Part

\* The first page is shown as it is.
LEMMA FirstJoined == ASSUME NEW added \in Seq(Nat) PROVE Joined(<<>>, added) = Capped(added)
<1> DEFINE none == <<>>
           K == {k \in DOMAIN added : \A n \in DOMAIN none : none[n] /= added[k]}
<1>1. K = DOMAIN added
  <2>1. DOMAIN none = {}
    OBVIOUS
  <2>2. QED
    BY <2>1
<1>2. AtPlaces(added, K) = added
  <2> HIDE DEF K
  <2>1. QED
    BY <1>1, PlacesOf
<1>3. Joined(<<>>, added) = Capped(<<>> \o AtPlaces(added, K))
  BY DEF Joined
<1>4. <<>> \o added = added
  BY ConcatEmptySeq
<1>5. QED
  BY <1>2, <1>3, <1>4

\* The page that follows what is shown is added to it; read again it adds nothing.
LEMMA NextJoined ==
  ASSUME NEW a \in Nat, NEW m \in Nat, NEW b \in Nat, NEW l, a <= m + 1, m <= b, Len(Capped(Part(a, m, l))) < MaxEntries
  PROVE  Joined(Capped(Part(a, m, l)), Part(m + 1, b, l)) = Capped(Part(a, b, l))
<1> DEFINE W == Window(a, m, l)
           V == Window(m + 1, b, l)
           old  == Capped(Part(a, m, l))
           added == Part(m + 1, b, l)
           K == {k \in DOMAIN added : \A n \in DOMAIN old : old[n] /= added[k]}
<1>1. W \in SUBSET (0..m) /\ V \in SUBSET (0..b) /\ Part(a, m, l) \in Seq(Nat) /\ added \in Seq(Nat)
  BY WindowSmall
<1>2. old = Part(a, m, l)
  <2>1. Len(Part(a, m, l)) \in Nat /\ MaxEntries \in Nat
    BY <1>1, ServerLogsAssumption
  <2>2. Len(old) = IF Len(Part(a, m, l)) < MaxEntries THEN Len(Part(a, m, l)) ELSE MaxEntries
    BY <1>1, CapOf
  <2>3. Len(Part(a, m, l)) <= MaxEntries
    BY <2>1, <2>2
  <2>4. QED
    BY <1>1, <2>3, CapOf
<1>3. W \in SUBSET (0..b) /\ \A i \in W, j \in V : i < j
  <2>1. \A i \in 0..m : i \in 0..b
    OBVIOUS
  <2>2. \A i \in W, j \in V : i \in Nat /\ j \in Nat /\ i <= m /\ m + 1 <= j
    BY DEF Window
  <2>3. \A i \in W, j \in V : i < j
    BY <2>2
  <2> HIDE DEF W, V
  <2>4. QED
    BY <1>1, <2>1, <2>3
<1>4. W \cup V = Window(a, b, l)
  <2>1. \A i \in Int : (i \in a..m \/ i \in (m + 1)..b) <=> i \in a..b
    OBVIOUS
  <2>2. \A i \in a..m : i \in Int
    OBVIOUS
  <2>3. \A i \in (m + 1)..b : i \in Int
    OBVIOUS
  <2>4. \A i \in a..b : i \in Int
    OBVIOUS
  <2>5. QED
    BY <2>1, <2>2, <2>3, <2>4 DEF Window
<1>5. /\ DOMAIN old = 1..Cardinality(W) /\ DOMAIN added = 1..Cardinality(V)
      /\ (\A n \in DOMAIN old : old[n] \in W) /\ (\A k \in DOMAIN added : added[k] \in V)
  <2> HIDE DEF W, V
  <2>1. DOMAIN Ascending(W) = 1..Cardinality(W) /\ \A n \in 1..Cardinality(W) : Ascending(W)[n] \in W
    BY <1>1, AscendingOf
  <2>2. DOMAIN Ascending(V) = 1..Cardinality(V) /\ \A n \in 1..Cardinality(V) : Ascending(V)[n] \in V
    BY <1>1, AscendingOf
  <2>3. old = Ascending(W) /\ added = Ascending(V)
    BY <1>2 DEF Part, W, V
  <2> HIDE DEF old, added
  <2>4. QED
    BY <2>1, <2>2, <2>3
<1> HIDE DEF old, added, W, V
<1>6. \A n \in DOMAIN old, k \in DOMAIN added : old[n] /= added[k]
  <2> SUFFICES ASSUME NEW n \in DOMAIN old, NEW k \in DOMAIN added, old[n] = added[k] PROVE FALSE
    OBVIOUS
  <2>1. old[n] < old[n] /\ old[n] \in 0..b
    BY <1>3, <1>5
  <2>2. QED
    BY <2>1
<1>7. K = DOMAIN added
  BY <1>6
<1>8. AtPlaces(added, K) = added
  <2> HIDE DEF K
  <2>1. QED
    BY <1>1, <1>7, PlacesOf
<1>9. old \o added = Part(a, b, l)
  BY <1>1, <1>2, <1>3, <1>4, AscendingJoined DEF Part, added, W, V
<1>10. Joined(old, added) = Capped(old \o AtPlaces(added, K))
  BY DEF Joined
<1>11. QED
  BY <1>8, <1>9, <1>10 DEF old, added

LEMMA AgainJoined ==
  ASSUME NEW a \in Nat, NEW m \in Nat, NEW b \in Nat, NEW l, a <= m
  PROVE  Joined(Capped(Part(a, b, l)), Part(m, b, l)) = Capped(Part(a, b, l))
<1> DEFINE W == Window(a, b, l)
           V == Window(m, b, l)
           whole == Part(a, b, l)
           old   == Capped(whole)
           added  == Part(m, b, l)
           K == {k \in DOMAIN added : \A n \in DOMAIN old : old[n] /= added[k]}
<1>1. W \in SUBSET (0..b) /\ V \in SUBSET (0..b) /\ whole \in Seq(Nat) /\ added \in Seq(Nat)
  BY WindowSmall
<1>2. Joined(old, added) = Capped(old \o AtPlaces(added, K))
  BY DEF Joined
<1>3. K \in SUBSET DOMAIN added
  OBVIOUS
<1>4. AtPlaces(added, K) \in Seq(Nat) /\ (K = {} => AtPlaces(added, K) = <<>>)
  <2> HIDE DEF K, added
  <2>1. QED
    BY <1>1, <1>3, PlacesOf
<1>5. /\ Len(whole) \in Nat /\ MaxEntries \in Nat /\ old \in Seq(Nat)
      /\ Len(old) = (IF Len(whole) < MaxEntries THEN Len(whole) ELSE MaxEntries)
      /\ (Len(whole) <= MaxEntries => old = whole)
  BY <1>1, CapOf, ServerLogsAssumption
<1>6. CASE Len(whole) < MaxEntries
  <2>1. old = whole
    BY <1>5, <1>6
  <2>2. V \subseteq W
    <3>1. \A i \in m..b : i \in a..b
      OBVIOUS
    <3>2. QED
      BY <3>1 DEF Window
  <2>3. \A k \in DOMAIN added : added[k] \in V
    <3> HIDE DEF V
    <3>1. DOMAIN Ascending(V) = 1..Cardinality(V) /\ \A n \in 1..Cardinality(V) : Ascending(V)[n] \in V
      BY <1>1, AscendingOf
    <3>2. added = Ascending(V)
      BY DEF Part, V
    <3> HIDE DEF added
    <3>3. QED
      BY <3>1, <3>2
  <2>4. \A i \in W : \E n \in DOMAIN whole : whole[n] = i
    <3>1. DOMAIN whole = 1..Cardinality(W)
      BY <1>1, AscendingOf DEF Part
    <3>2. \A i \in W : \E n \in 1..Cardinality(W) : Ascending(W)[n] = i
      BY <1>1, PlaceInOrder
    <3>3. QED
      BY <3>1, <3>2 DEF Part
  <2> HIDE DEF old, whole, added, W, V
  <2>5. K = {}
    BY <2>1, <2>2, <2>3, <2>4
  <2>6. old \o <<>> = old
    BY <1>5, ConcatEmptySeq
  <2>7. Capped(old) = old
    BY <1>1, <1>5, <1>6, <2>1, CapOf
  <2>8. QED
    BY <1>2, <1>4, <2>5, <2>6, <2>7 DEF old, whole, added
<1>7. CASE ~(Len(whole) < MaxEntries)
  <2>1. Len(old) = MaxEntries
    BY <1>5, <1>7
  <2> HIDE DEF old, whole, added, K
  <2>2. Capped(old \o AtPlaces(added, K)) = old
    BY <1>4, <1>5, <2>1, CutStays
  <2>3. QED
    BY <1>2, <2>2 DEF old, whole, added
<1>8. QED
  BY <1>6, <1>7

(***************************************************************************)
(* What is read and shown                                                   *)
(***************************************************************************)
\* The last event a page has, the place after it, and the last event shown
PageEnd(from, end)   == IF from + PageEvents - 1 < end THEN from + PageEvents - 1 ELSE end
PageAfter(from, end) == IF PageEnd(from, end) < end THEN PageEnd(from, end) + 1 ELSE None
LastShown(d)         == IF d.cursor = None THEN d.end ELSE d.cursor - 1

LogWindows(h) == {w \in [start: Nat \ {0}, end: Nat] : w.start <= w.end /\ w.end - w.start < h}
WindowIn(x)   == [start |-> x.start, end |-> x.end]

LogRight(d) ==
  /\ d \in LogPages /\ WindowIn(d) \in LogWindows(hours)
  /\ d.cursor /= None => d.start < d.cursor /\ d.cursor <= d.end
  /\ d.entries = Capped(Part(d.start, LastShown(d), level))

\* A request for more is of the window shown, which it is read to follow or which it has been
\* added to already.
RequestRight ==
  /\ request \in [cursor: Nat \cup {None}, start: Nat, end: Nat]
  /\ request.cursor /= None =>
       /\ WindowIn(request) \in LogWindows(hours) /\ request.start <= request.cursor /\ request.cursor <= request.end
       /\ logData /= None /\ logData.start = request.start /\ logData.end = request.end
       /\ \/ logData.cursor = request.cursor /\ Len(logData.entries) < MaxEntries
          \/ logData.cursor = PageAfter(request.cursor, request.end)

\* A reading is of the request there is now.
ReadingRight(r) ==
  /\ r \in [from: Nat, start: Nat, end: Nat, level: Levels, more: BOOLEAN] /\ r.level = level
  /\ WindowIn(r) \in LogWindows(hours) /\ r.start <= r.from /\ r.from <= r.end
  /\ (r.more <=> request.cursor /= None)
  /\ request.cursor /= None => r.from = request.cursor /\ r.start = request.start /\ r.end = request.end
  /\ request.cursor = None => r.from = r.start

\* The invariant that is proved of the server logs.
LogsInv ==
  /\ now \in Nat \ {0} /\ level \in Levels /\ hours \in Ranges /\ logError \in BOOLEAN /\ logLoading \in BOOLEAN
  /\ logReads = {} \/ \E r : logReads = {r}
  /\ logLoading => logReads /= {}
  /\ logData /= None => LogRight(logData)
  /\ RequestRight /\ \A r \in logReads : ReadingRight(r)

LEMMA EndOfPage ==
  ASSUME NEW from \in Nat, NEW end \in Nat, from <= end
  PROVE  PageEnd(from, end) \in Nat /\ from <= PageEnd(from, end) /\ PageEnd(from, end) <= end
<1>1. PageEvents \in Nat /\ PageEvents >= 1
  BY ServerLogsAssumption
<1>2. QED
  BY <1>1 DEF PageEnd

\* What a request asks for
LEMMA AskedRight ==
  ASSUME NEW q, NEW l \in Levels, NEW h \in Ranges, now \in Nat \ {0},
         q \in [cursor: Nat \cup {None}, start: Nat, end: Nat],
         q.cursor /= None => WindowIn(q) \in LogWindows(h) /\ q.start <= q.cursor /\ q.cursor <= q.end
  PROVE  LET r == Asked(q, l, h)
         IN /\ r \in [from: Nat, start: Nat, end: Nat, level: Levels, more: BOOLEAN] /\ r.level = l
            /\ WindowIn(r) \in LogWindows(h) /\ r.start <= r.from /\ r.from <= r.end
            /\ (r.more <=> q.cursor /= None)
            /\ q.cursor /= None => r.from = q.cursor /\ r.start = q.start /\ r.end = q.end
            /\ q.cursor = None => r.from = r.start
<1> DEFINE r == Asked(q, l, h)
<1>1. h \in Nat \ {0}
  BY ServerLogsAssumption
<1>2. CASE q.cursor = None
  <2> DEFINE a == IF now > h THEN now - h + 1 ELSE 1
  <2>1. r = [from |-> a, start |-> a, end |-> now, level |-> l, more |-> FALSE]
    BY <1>2 DEF Asked
  <2>2. a \in Nat \ {0} /\ a <= now /\ now - a < h
    BY <1>1
  <2> HIDE DEF a, r
  <2>3. WindowIn(r) \in LogWindows(h)
    <3>1. WindowIn(r) = [start |-> a, end |-> now]
      BY <2>1 DEF WindowIn
    <3>2. QED
      BY <2>2, <3>1 DEF LogWindows
  <2>4. r.start <= r.from /\ r.from <= r.end
    BY <2>1, <2>2
  <2>5. r \in [from: Nat, start: Nat, end: Nat, level: Levels, more: BOOLEAN] /\ r.level = l /\ r.more = FALSE /\ r.from = r.start
    BY <2>1, <2>2
  <2>6. QED
    BY <1>2, <2>3, <2>4, <2>5 DEF r
<1>3. CASE q.cursor /= None
  <2>1. r = [from |-> q.cursor, start |-> q.start, end |-> q.end, level |-> l, more |-> TRUE]
    BY <1>3 DEF Asked
  <2> HIDE DEF r
  <2>2. WindowIn(r) = WindowIn(q)
    BY <2>1 DEF WindowIn
  <2>3. r \in [from: Nat, start: Nat, end: Nat, level: Levels, more: BOOLEAN] /\ r.level = l /\ r.more = TRUE
    BY <1>3, <2>1
  <2>4. QED
    BY <1>3, <2>1, <2>2, <2>3 DEF r
<1>4. QED
  BY <1>2, <1>3

LEMMA AskedFirst ==
  ASSUME NEW l \in Levels, NEW h \in Ranges, now \in Nat \ {0}
  PROVE  /\ NoCursor \in [cursor: Nat \cup {None}, start: Nat, end: Nat] /\ NoCursor.cursor = None
         /\ Asked(NoCursor, l, h) \in [from: Nat, start: Nat, end: Nat, level: Levels, more: BOOLEAN]
         /\ Asked(NoCursor, l, h).level = l /\ WindowIn(Asked(NoCursor, l, h)) \in LogWindows(h)
         /\ Asked(NoCursor, l, h).start <= Asked(NoCursor, l, h).from /\ Asked(NoCursor, l, h).from <= Asked(NoCursor, l, h).end
         /\ Asked(NoCursor, l, h).more = FALSE /\ Asked(NoCursor, l, h).from = Asked(NoCursor, l, h).start
<1>1. NoCursor \in [cursor: Nat \cup {None}, start: Nat, end: Nat] /\ NoCursor.cursor = None
  BY DEF NoCursor
<1>2. Asked(NoCursor, l, h).more = FALSE
  BY <1>1 DEF Asked
<1>3. QED
  BY <1>1, <1>2, AskedRight

LEMMA LeastRange == (CHOOSE h \in Ranges : \A g \in Ranges : h <= g) \in Ranges
<1>1. Ranges \in SUBSET Nat /\ Ranges /= {}
  BY ServerLogsAssumption
<1>2. \E h \in Ranges : \A g \in Ranges : h <= g
  BY <1>1, LeastNumber
<1>3. QED
  BY <1>2

LEMMA ServerLogsInitInv == ServerLogsInit => LogsInv
<1> SUFFICES ASSUME ServerLogsInit PROVE LogsInv
  OBVIOUS
<1>1. /\ now = FirstNow /\ level = "ALL" /\ hours = CHOOSE h \in Ranges : \A g \in Ranges : h <= g
      /\ request = NoCursor /\ logData = None /\ logError = FALSE /\ logLoading = TRUE
      /\ logReads = {Asked(NoCursor, "ALL", hours)}
  BY DEF ServerLogsInit
<1>2. now \in Nat \ {0} /\ level \in Levels
  <2>1. Len(EventLevel) \in Nat /\ FirstNow \in 1..Len(EventLevel) /\ "ALL" \in Levels
    BY ServerLogsAssumption
  <2>2. QED
    BY <1>1, <2>1
<1>3. hours \in Ranges
  BY <1>1, LeastRange
<1>4. RequestRight /\ request.cursor = None
  BY <1>1, <1>2, <1>3, AskedFirst DEF RequestRight
<1>5. \A r \in logReads : ReadingRight(r)
  <2>1. logReads = {Asked(NoCursor, level, hours)}
    BY <1>1
  <2>2. ReadingRight(Asked(NoCursor, level, hours))
    BY <1>2, <1>3, <1>4, AskedFirst DEF ReadingRight
  <2>3. QED
    BY <2>1, <2>2
<1>6. QED
  BY <1>1, <1>2, <1>3, <1>4, <1>5 DEF LogsInv

\* What is not touched stays right.
LEMMA LogsStay ==
  ASSUME LogsInv, UNCHANGED <<level, hours, request, logData>>, now' \in Nat \ {0}, logError' \in BOOLEAN, logLoading' \in BOOLEAN,
         logReads' = {} \/ (\E r : logReads' = {r}), logReads' \subseteq logReads, logLoading' => logReads' /= {}
  PROVE  LogsInv'
<1>1. level' \in Levels /\ hours' \in Ranges
  BY DEF LogsInv
<1>2. logData' /= None => LogRight(logData)'
  BY DEF LogsInv, LogRight, LastShown, Part, Window, Capped
<1>3. RequestRight'
  BY DEF LogsInv, RequestRight, PageAfter, PageEnd
<1>4. \A r \in logReads' : ReadingRight(r)'
  BY DEF LogsInv, ReadingRight
<1>5. QED
  BY <1>1, <1>2, <1>3, <1>4 DEF LogsInv

LEMMA RecordInv == ASSUME LogsInv, Record PROVE LogsInv'
<1>1. now' = now + 1 /\ UNCHANGED <<level, hours, request, logData, logError, logLoading, logReads>>
  BY DEF Record
<1>2. now' \in Nat \ {0}
  BY <1>1 DEF LogsInv
<1>3. logError' \in BOOLEAN /\ logLoading' \in BOOLEAN
  BY <1>1 DEF LogsInv
<1>4. (logReads' = {} \/ \E r : logReads' = {r}) /\ logReads' \subseteq logReads /\ (logLoading' => logReads' /= {})
  BY <1>1 DEF LogsInv
<1>5. QED
  BY <1>1, <1>2, <1>3, <1>4, LogsStay

LEMMA PageFailsInv == ASSUME LogsInv, PageFails PROVE LogsInv'
<1>1. logError' = TRUE /\ logLoading' = FALSE /\ UNCHANGED <<now, level, hours, request, logData>>
  BY DEF PageFails
<1>2. logReads' = {}
  BY DEF PageFails, LogsInv
<1>3. now' \in Nat \ {0}
  BY <1>1 DEF LogsInv
<1>4. QED
  BY <1>1, <1>2, <1>3, LogsStay

LEMMA RenewInv == ASSUME LogsInv, Renew PROVE LogsInv'
<1>1. logReads' = {Asked(request, level, hours)} /\ UNCHANGED <<now, level, hours, request, logData, logError, logLoading>>
  BY DEF Renew, Send
<1>2. now' \in Nat \ {0} /\ level' \in Levels /\ hours' \in Ranges /\ logError' \in BOOLEAN /\ logLoading' \in BOOLEAN
  BY <1>1 DEF LogsInv
<1>3. logData' /= None => LogRight(logData)'
  BY <1>1 DEF LogsInv, LogRight, LastShown, Part, Window, Capped
<1>4. RequestRight'
  BY <1>1 DEF LogsInv, RequestRight, PageAfter, PageEnd
<1>5. ReadingRight(Asked(request, level, hours))
  BY AskedRight DEF LogsInv, RequestRight, ReadingRight
<1>6. \A r \in logReads' : ReadingRight(r)'
  BY <1>1, <1>5 DEF ReadingRight
<1>7. QED
  BY <1>1, <1>2, <1>3, <1>4, <1>6 DEF LogsInv

\* Nothing is shown, and a first page is read, of what is chosen now.
LEMMA RefreshedInv ==
  ASSUME LogsInv, NEW l \in Levels, NEW h \in Ranges, level' = l, hours' = h, now' = now, logLoading' = TRUE, logError' = FALSE,
         logData' = None, request' = NoCursor, Send(NoCursor, l, h)
  PROVE  LogsInv'
<1>1. now \in Nat \ {0}
  BY DEF LogsInv
<1>2. logReads' = {Asked(NoCursor, l, h)}
  BY DEF Send
<1>3. RequestRight' /\ request'.cursor = None
  BY <1>1, AskedFirst DEF RequestRight
<1>4. \A r \in logReads' : ReadingRight(r)'
  <2> SUFFICES ASSUME NEW r, r = Asked(NoCursor, l, h) PROVE ReadingRight(r)'
    BY <1>2
  <2>1. /\ r \in [from: Nat, start: Nat, end: Nat, level: Levels, more: BOOLEAN] /\ r.level = l
        /\ WindowIn(r) \in LogWindows(h) /\ r.start <= r.from /\ r.from <= r.end /\ r.more = FALSE /\ r.from = r.start
    BY <1>1, AskedFirst
  <2>2. QED
    BY <1>3, <2>1 DEF ReadingRight
<1>5. QED
  BY <1>1, <1>2, <1>3, <1>4 DEF LogsInv

LEMMA ChosenInv == ASSUME LogsInv, ChooseLevel \/ ChooseRange \/ RefreshAgain \/ Reopen PROVE LogsInv'
<1>1. level \in Levels /\ hours \in Ranges
  BY DEF LogsInv
<1>2. CASE ChooseLevel
  <2>1. PICK l \in Levels : RefreshLogs(l, hours)
    BY <1>2 DEF ChooseLevel
  <2>2. QED
    BY <1>1, <2>1, RefreshedInv DEF RefreshLogs
<1>3. CASE ChooseRange
  <2>1. PICK h \in Ranges : RefreshLogs(level, h)
    BY <1>3 DEF ChooseRange
  <2>2. QED
    BY <1>1, <2>1, RefreshedInv DEF RefreshLogs
<1>4. CASE RefreshAgain
  BY <1>1, <1>4, RefreshedInv DEF RefreshAgain, RefreshLogs
<1>5. CASE Reopen
  <2>1. "ALL" \in Levels
    BY ServerLogsAssumption
  <2>2. hours' \in Ranges
    BY <1>5, LeastRange DEF Reopen
  <2>3. PICK h \in Ranges : h = hours'
    BY <2>2
  <2>4. QED
    BY <1>5, <2>1, <2>3, RefreshedInv DEF Reopen
<1>6. QED
  BY <1>2, <1>3, <1>4, <1>5

LEMMA LoadMoreInv == ASSUME LogsInv, LoadMore PROVE LogsInv'
<1>1. /\ logData /= None /\ logData.cursor /= None /\ Len(logData.entries) < MaxEntries
      /\ logLoading' = TRUE /\ logError' = FALSE
      /\ request' = [cursor |-> logData.cursor, start |-> logData.start, end |-> logData.end]
      /\ logReads' = {Asked(request', level, hours)} /\ UNCHANGED <<now, level, hours, logData>>
  BY DEF LoadMore, CanLoadMore, Send
<1>2. now \in Nat \ {0} /\ level \in Levels /\ hours \in Ranges
  BY DEF LogsInv
<1>3. LogRight(logData)
  BY <1>1 DEF LogsInv
<1>4. PICK q : q = request'
  OBVIOUS
<1>5. /\ q \in [cursor: Nat \cup {None}, start: Nat, end: Nat] /\ q.cursor /= None /\ q.cursor = logData.cursor
      /\ WindowIn(q) = WindowIn(logData) /\ WindowIn(q) \in LogWindows(hours)
      /\ q.start = logData.start /\ q.end = logData.end
  BY <1>1, <1>3, <1>4 DEF LogRight, LogPages, WindowIn
<1>6. q.start <= q.cursor /\ q.cursor <= q.end
  <2>1. logData.start < logData.cursor /\ logData.cursor <= logData.end /\ logData.start \in Nat /\ logData.cursor \in Nat
    BY <1>1, <1>3 DEF LogRight, LogPages
  <2>2. QED
    BY <1>5, <2>1
<1>7. RequestRight'
  BY <1>1, <1>4, <1>5, <1>6 DEF RequestRight
<1>8. \A r \in logReads' : ReadingRight(r)'
  <2> SUFFICES ASSUME NEW r, r = Asked(q, level, hours) PROVE ReadingRight(r)'
    BY <1>1, <1>4
  <2>1. /\ r \in [from: Nat, start: Nat, end: Nat, level: Levels, more: BOOLEAN] /\ r.level = level
        /\ WindowIn(r) \in LogWindows(hours) /\ r.start <= r.from /\ r.from <= r.end
        /\ (r.more <=> q.cursor /= None) /\ r.from = q.cursor /\ r.start = q.start /\ r.end = q.end
    BY <1>2, <1>5, <1>6, AskedRight
  <2>2. QED
    BY <1>1, <1>4, <1>5, <2>1 DEF ReadingRight
<1>9. LogRight(logData)'
  BY <1>1, <1>3 DEF LogRight, LastShown, Part, Window, Capped
<1>10. QED
  BY <1>1, <1>2, <1>7, <1>8, <1>9 DEF LogsInv

\* A page arrives: first, following what is shown, or once more.
LEMMA PageReadInv == ASSUME LogsInv, PageRead PROVE LogsInv'
<1>1. PICK r \in logReads :
        /\ logReads' = logReads \ {r} /\ logLoading' = FALSE /\ UNCHANGED <<now, level, hours, request, logError>>
        /\ logData' = [LogPage(r) EXCEPT !.entries =
                        Joined(IF r.more /\ logData /= None THEN logData.entries ELSE <<>>, LogPage(r).entries)]
  BY DEF PageRead
<1> DEFINE last == PageEnd(r.from, r.end)
           old  == IF r.more /\ logData /= None THEN logData.entries ELSE <<>>
           new  == Joined(old, Part(r.from, last, level))
           d    == [entries |-> new, cursor |-> PageAfter(r.from, r.end), start |-> r.start, end |-> r.end]
<1>2. ReadingRight(r) /\ RequestRight /\ level \in Levels /\ (logData /= None => LogRight(logData))
  BY DEF LogsInv
<1>3. /\ r.from \in Nat /\ r.start \in Nat \ {0} /\ r.end \in Nat /\ r.start <= r.from /\ r.from <= r.end
      /\ r.level = level /\ WindowIn(r) \in LogWindows(hours) /\ (r.more <=> request.cursor /= None)
  <2>1. WindowIn(r).start = r.start
    BY DEF WindowIn
  <2>2. WindowIn(r) \in LogWindows(hours)
    BY <1>2 DEF ReadingRight
  <2>3. r.start \in Nat \ {0}
    BY <2>1, <2>2 DEF LogWindows
  <2>4. QED
    BY <1>2, <2>2, <2>3 DEF ReadingRight
<1>4. last \in Nat /\ r.from <= last /\ last <= r.end
  BY <1>3, EndOfPage
<1>5. LogPage(r) = [entries |-> Part(r.from, last, level), cursor |-> PageAfter(r.from, r.end), start |-> r.start, end |-> r.end]
  BY <1>3 DEF LogPage, PageEnd, PageAfter, Part
<1>6. logData' = d
  BY <1>1, <1>5
<1>7. d.cursor = (IF last < r.end THEN last + 1 ELSE None) /\ (last < r.end => last + 1 \in Nat /\ last + 1 /= None)
  <2>1. last + 1 \in Nat
    BY <1>4
  <2> HIDE DEF last, new
  <2>2. QED
    BY <2>1, NoneIsNoPage DEF PageAfter, last
<1>8. new = Capped(Part(r.start, last, level))
  <2>1. CASE request.cursor = None
    <3>1. old = <<>> /\ r.from = r.start
      BY <1>2, <1>3, <2>1 DEF ReadingRight
    <3>2. Part(r.from, last, level) \in Seq(Nat)
      BY <1>3, <1>4, WindowSmall
    <3> HIDE DEF old, last
    <3>3. QED
      BY <3>1, <3>2, FirstJoined
  <2>2. CASE request.cursor /= None
    <3>1. /\ r.from = request.cursor /\ r.start = request.start /\ r.end = request.end /\ logData /= None
          /\ logData.start = r.start /\ logData.end = r.end
      BY <1>2, <2>2 DEF ReadingRight, RequestRight
    <3>2. old = logData.entries /\ old = Capped(Part(r.start, LastShown(logData), level))
      BY <1>2, <1>3, <2>2, <3>1 DEF LogRight
    <3> HIDE DEF old, last, d
    <3>3. CASE logData.cursor = r.from /\ Len(logData.entries) < MaxEntries
      <4> DEFINE m == r.from - 1
      <4>1. m \in Nat /\ m + 1 = r.from /\ r.start <= m + 1 /\ m <= last
        BY <1>3, <1>4
      <4>2. LastShown(logData) = m
        BY <1>3, <3>3, NoneIsNoPage DEF LastShown
      <4> HIDE DEF m
      <4>3. old = Capped(Part(r.start, m, level)) /\ Len(Capped(Part(r.start, m, level))) < MaxEntries
        BY <3>2, <3>3, <4>2
      <4>4. Joined(Capped(Part(r.start, m, level)), Part(m + 1, last, level)) = Capped(Part(r.start, last, level))
        BY <1>3, <1>4, <4>1, <4>3, NextJoined
      <4>5. QED
        BY <4>1, <4>3, <4>4
    <3>4. CASE logData.cursor = PageAfter(r.from, r.end)
      <4>1. logData.cursor = IF last < r.end THEN last + 1 ELSE None
        BY <3>4 DEF PageAfter, last
      <4>2. LastShown(logData) = last
        BY <1>3, <1>4, <1>7, <3>1, <4>1 DEF LastShown
      <4>3. QED
        BY <1>3, <1>4, <3>2, <4>2, AgainJoined
    <3>5. QED
      BY <1>2, <2>2, <3>1, <3>3, <3>4 DEF RequestRight
  <2>3. QED
    BY <2>1, <2>2
<1>9. new \in Seq(Nat)
  BY <1>3, <1>4, <1>8, WindowSmall, CapOf
<1> HIDE DEF last, new
<1>10. d \in LogPages /\ d /= None /\ d.start = r.start /\ d.end = r.end /\ d.entries = new /\ d.cursor = PageAfter(r.from, r.end)
  <2>1. PageAfter(r.from, r.end) \in Nat \cup {None}
    BY <1>7
  <2>2. d \in LogPages
    BY <1>3, <1>9, <2>1 DEF LogPages
  <2>3. QED
    BY <2>2, NoneIsNoPage
<1> HIDE DEF d
<1>11. LastShown(d) = last /\ (d.cursor /= None => d.start < d.cursor /\ d.cursor <= d.end)
  <2>1. CASE last < r.end
    BY <1>3, <1>4, <1>7, <1>10, <2>1 DEF LastShown
  <2>2. CASE ~(last < r.end)
    BY <1>3, <1>4, <1>7, <1>10, <2>2 DEF LastShown
  <2>3. QED
    BY <2>1, <2>2
<1>12. LogRight(d)
  <2>1. WindowIn(d) = WindowIn(r)
    BY <1>10 DEF WindowIn
  <2>2. QED
    BY <1>3, <1>8, <1>10, <1>11, <2>1 DEF LogRight
<1>13. LogRight(logData)' /\ logData' /= None
  BY <1>1, <1>6, <1>10, <1>12 DEF LogRight, LastShown, Part, Window, Capped
<1>14. logReads' = {}
  BY <1>1 DEF LogsInv
<1>15. RequestRight'
  <2>1. request.cursor /= None => d.start = request.start /\ d.end = request.end /\ d.cursor = PageAfter(request.cursor, request.end)
    BY <1>2, <1>10 DEF ReadingRight
  <2>2. QED
    BY <1>1, <1>2, <1>6, <1>10, <2>1 DEF RequestRight, PageAfter, PageEnd
<1>16. QED
  BY <1>1, <1>13, <1>14, <1>15 DEF LogsInv

LEMMA LogsStep == ASSUME LogsInv, [ServerLogsNext]_logVars PROVE LogsInv'
<1>1. CASE ServerLogsNext
  BY <1>1, RecordInv, PageReadInv, PageFailsInv, RenewInv, ChosenInv, LoadMoreInv DEF ServerLogsNext
<1>2. CASE UNCHANGED logVars
  <2>1. UNCHANGED <<now, level, hours, request, logData, logError, logLoading, logReads>>
    BY <1>2 DEF logVars
  <2>2. now' \in Nat \ {0} /\ logError' \in BOOLEAN /\ logLoading' \in BOOLEAN
    BY <2>1 DEF LogsInv
  <2>3. (logReads' = {} \/ \E r : logReads' = {r}) /\ logReads' \subseteq logReads /\ (logLoading' => logReads' /= {})
    BY <2>1 DEF LogsInv
  <2>4. QED
    BY <2>1, <2>2, <2>3, LogsStay
<1>3. QED
  BY <1>1, <1>2

LEMMA LogsInvTells == LogsInv => LogsExact
<1> SUFFICES ASSUME LogsInv PROVE LogsExact
  OBVIOUS
<1>1. ServerLogsTypeOK
  <2>1. Cardinality(logReads) <= 1
    <3>1. CASE logReads = {}
      BY <3>1, FS_EmptySet
    <3>2. ASSUME NEW r, logReads = {r} PROVE Cardinality(logReads) <= 1
      BY <3>2, FS_Singleton
    <3>3. QED
      BY <3>1, <3>2 DEF LogsInv
  <2>2. QED
    BY <2>1 DEF LogsInv, ServerLogsTypeOK, ReadingRight
<1>2. logData /= None => logData.entries = Capped(Part(logData.start, LastShown(logData), level))
  BY DEF LogsInv, LogRight
<1>3. ShownIsWindow
  BY <1>2 DEF ShownIsWindow, LastShown, Part
<1>4. NothingMeansNothing
  <2> SUFFICES ASSUME NothingIn = "no matching entries"
               PROVE  Window(logData.start, logData.end, level) = {} /\ logData.end - logData.start < hours
    BY DEF NothingMeansNothing
  <2>1. logData /= None /\ logData.entries = <<>> /\ logData.cursor = None
    BY DEF NothingIn
  <2>2. LogRight(logData)
    BY <2>1 DEF LogsInv
  <2>3. Capped(Part(logData.start, logData.end, level)) = <<>> /\ logData.start \in Nat /\ logData.end \in Nat
    BY <1>2, <2>1, <2>2 DEF LastShown, LogRight, LogPages
  <2> DEFINE W == Window(logData.start, logData.end, level)
  <2>4. W \in SUBSET (0..logData.end) /\ Ascending(W) \in Seq(Nat) /\ Capped(Ascending(W)) = <<>>
    BY <2>3, WindowSmall DEF Part
  <2> HIDE DEF W
  <2>5. Len(Ascending(W)) = 0
    <3>1. PICK A \in Seq(Nat) : A = Ascending(W) /\ Capped(A) = <<>>
      BY <2>4
    <3>2. MaxEntries \in Nat \ {0} /\ Len(A) \in Nat /\ Len(Capped(A)) = 0
      <4>1. MaxEntries \in Nat \ {0}
        BY ServerLogsAssumption
      <4>2. Len(A) \in Nat
        BY LenProperties
      <4>3. Len(<<>>) = 0
        OBVIOUS
      <4>4. QED
        BY <3>1, <4>1, <4>2, <4>3
    <3>3. Len(Capped(A)) = IF Len(A) < MaxEntries THEN Len(A) ELSE MaxEntries
      BY CapOf
    <3>4. QED
      BY <3>1, <3>2, <3>3
  <2>6. Cardinality(W) = 0
    BY <2>3, <2>4, <2>5, AscendingOf
  <2>7. W = {}
    BY <2>3, <2>4, <2>6, SmallSet, FS_EmptySet
  <2>8. logData.end - logData.start < hours
    <3>1. WindowIn(logData) \in LogWindows(hours)
      BY <2>2 DEF LogRight
    <3>2. QED
      BY <3>1 DEF LogWindows, WindowIn
  <2>9. QED
    BY <2>7, <2>8 DEF W
<1>5. QED
  BY <1>1, <1>3, <1>4 DEF LogsExact

THEOREM LogsShownExactly == ServerLogsSpec => []LogsExact
<1>1. ServerLogsSpec => []LogsInv
  BY ServerLogsInitInv, LogsStep, PTL DEF ServerLogsSpec
<1>2. QED
  BY <1>1, LogsInvTells, PTL

\* The logs that are shown are those that were asked for, and all of them: LogsHonest is LogsExact
\* and SearchHonest.
THEOREM LogsAsAsked == ServerLogsSpec /\ LogSearchSpec => []LogsHonest
<1>1. LogsExact /\ SearchHonest => LogsHonest
  BY DEF LogsHonest
<1>2. QED
  BY <1>1, LogsShownExactly, SearchTellsTheTruth, PTL

(***************************************************************************)
(* Sums                                                                     *)
(***************************************************************************)
\* What holds of a set when it holds of it without any one element holds of all sets.
LEMMA EverySubset ==
  ASSUME NEW D, IsFiniteSet(D), NEW P, \A s \in SUBSET D : (\A y \in s : s \ {y} \in P) => s \in P
  PROVE  \A s \in SUBSET D : s \in P
<1> DEFINE S == {n \in Nat : \A s \in SUBSET D : Cardinality(s) <= n => s \in P}
<1>1. \A s \in SUBSET D : IsFiniteSet(s) /\ Cardinality(s) \in Nat
  BY FS_Subset, FS_CardinalityType
<1>2. \A s \in SUBSET D : \A y \in s : Cardinality(s \ {y}) = Cardinality(s) - 1
  BY <1>1, FS_RemoveElement
<1>3. 0 \in S
  <2> SUFFICES ASSUME NEW s \in SUBSET D, Cardinality(s) <= 0 PROVE s \in P
    OBVIOUS
  <2>1. Cardinality(s) = 0
    BY <1>1
  <2>2. s = {}
    BY <1>1, <2>1, FS_EmptySet
  <2>3. QED
    BY <2>2
<1>4. ASSUME NEW n \in Nat, n \in S PROVE n + 1 \in S
  <2> SUFFICES ASSUME NEW s \in SUBSET D, Cardinality(s) <= n + 1 PROVE s \in P
    OBVIOUS
  <2>1. ASSUME NEW y \in s PROVE s \ {y} \in P
    <3>1. Cardinality(s \ {y}) <= n
      BY <1>1, <1>2
    <3>2. QED
      BY <1>4, <3>1
  <2>2. QED
    BY <2>1
<1> HIDE DEF S
<1>5. \A n \in Nat : n \in S
  BY <1>3, <1>4, EveryNumber
<1>6. ASSUME NEW s \in SUBSET D PROVE s \in P
  <2>1. Cardinality(s) \in S /\ Cardinality(s) <= Cardinality(s)
    BY <1>1, <1>5
  <2>2. QED
    BY <2>1 DEF S
<1>7. QED
  BY <1>6

\* it is the sums of f over the subsets of D, taken as MapThenSumSet takes them.
Some(s) == CHOOSE x \in s : TRUE
Adds(it, f, D) == \A s \in SUBSET D : it[s] = IF s = {} THEN 0 ELSE f[Some(s)] + it[s \ {Some(s)}]

LEMMA SumsExist ==
  ASSUME NEW D, IsFiniteSet(D), NEW f
  PROVE  \E it : it = [s \in SUBSET D |-> it[s]] /\ Adds(it, f, D)
<1> DEFINE S == {n \in Nat : \E it : \A s \in SUBSET D :
                   Cardinality(s) <= n => it[s] = IF s = {} THEN 0 ELSE f[Some(s)] + it[s \ {Some(s)}]}
<1>1. \A s \in SUBSET D : IsFiniteSet(s) /\ Cardinality(s) \in Nat
  BY FS_Subset, FS_CardinalityType
<1>2. \A s \in SUBSET D : \A y \in s : Cardinality(s \ {y}) = Cardinality(s) - 1
  BY <1>1, FS_RemoveElement
<1>3. \A s \in SUBSET D : s /= {} => Some(s) \in s /\ s \ {Some(s)} \in SUBSET D
  BY DEF Some
<1>4. 0 \in S
  <2>1. \A s \in SUBSET D : Cardinality(s) <= 0 => s = {}
    <3> SUFFICES ASSUME NEW s \in SUBSET D, Cardinality(s) <= 0 PROVE s = {}
      OBVIOUS
    <3>1. Cardinality(s) = 0
      BY <1>1
    <3>2. QED
      BY <1>1, <3>1, FS_EmptySet
  <2> DEFINE it == [s \in SUBSET D |-> 0]
  <2>2. \A s \in SUBSET D : Cardinality(s) <= 0 => it[s] = IF s = {} THEN 0 ELSE f[Some(s)] + it[s \ {Some(s)}]
    BY <2>1
  <2>3. QED
    BY <2>2
<1>5. ASSUME NEW n \in Nat, n \in S PROVE n + 1 \in S
  <2>1. PICK it : \A s \in SUBSET D : Cardinality(s) <= n => it[s] = IF s = {} THEN 0 ELSE f[Some(s)] + it[s \ {Some(s)}]
    BY <1>5
  <2> DEFINE g == [s \in SUBSET D |-> IF s = {} THEN 0 ELSE f[Some(s)] + it[s \ {Some(s)}]]
  <2>2. \A s \in SUBSET D : g[s] = IF s = {} THEN 0 ELSE f[Some(s)] + it[s \ {Some(s)}]
    OBVIOUS
  <2> HIDE DEF g
  <2>3. ASSUME NEW s \in SUBSET D, Cardinality(s) <= n + 1, s /= {} PROVE g[s] = f[Some(s)] + g[s \ {Some(s)}]
    <3> DEFINE r == s \ {Some(s)}
    <3>1. r \in SUBSET D /\ Cardinality(r) <= n
      BY <1>1, <1>2, <1>3, <2>3
    <3> HIDE DEF r
    <3>2. it[r] = g[r]
      BY <2>1, <2>2, <3>1
    <3>3. g[s] = f[Some(s)] + it[r]
      BY <2>2, <2>3 DEF r
    <3>4. QED
      BY <3>2, <3>3 DEF r
  <2>4. \A s \in SUBSET D : Cardinality(s) <= n + 1 => g[s] = IF s = {} THEN 0 ELSE f[Some(s)] + g[s \ {Some(s)}]
    BY <2>2, <2>3
  <2>5. \E h : \A s \in SUBSET D : Cardinality(s) <= n + 1 => h[s] = IF s = {} THEN 0 ELSE f[Some(s)] + h[s \ {Some(s)}]
    BY <2>4, Zenon
  <2>6. n + 1 \in Nat
    OBVIOUS
  <2>7. QED
    BY <2>5, <2>6
<1> HIDE DEF S
<1>6. \A n \in Nat : n \in S
  BY <1>4, <1>5, EveryNumber
<1>7. Cardinality(D) \in S /\ Cardinality(D) \in Nat
  BY <1>6, FS_CardinalityType
<1>8. PICK it : \A s \in SUBSET D : Cardinality(s) <= Cardinality(D) => it[s] = IF s = {} THEN 0 ELSE f[Some(s)] + it[s \ {Some(s)}]
  BY <1>7 DEF S
<1>9. \A s \in SUBSET D : Cardinality(s) <= Cardinality(D)
  BY FS_Subset
<1>10. \A s \in SUBSET D : it[s] = IF s = {} THEN 0 ELSE f[Some(s)] + it[s \ {Some(s)}]
  BY <1>8, <1>9
<1> DEFINE g == [s \in SUBSET D |-> it[s]]
<1>11. \A s \in SUBSET D : g[s] = it[s] /\ (s /= {} => g[s \ {Some(s)}] = it[s \ {Some(s)}])
  BY <1>3
<1>12. g = [s \in SUBSET D |-> g[s]]
  OBVIOUS
<1> HIDE DEF g
<1>13. \A s \in SUBSET D : g[s] = IF s = {} THEN 0 ELSE f[Some(s)] + g[s \ {Some(s)}]
  BY <1>10, <1>11
<1>14. Adds(g, f, D)
  BY <1>13 DEF Adds
<1>15. QED
  BY <1>12, <1>14

\* Sums of numbers are numbers, and any element may be added last.
LEMMA SumsAre ==
  ASSUME NEW D, IsFiniteSet(D), NEW f \in [D -> Nat], NEW it, Adds(it, f, D)
  PROVE  \A s \in SUBSET D : it[s] \in Nat /\ (s = {} => it[s] = 0) /\ \A y \in s : it[s] = f[y] + it[s \ {y}]
<1> DEFINE P == {s \in SUBSET D : it[s] \in Nat}
           Q == {s \in SUBSET D : \A y \in s : it[s] = f[y] + it[s \ {y}]}
<1>1. \A s \in SUBSET D : s /= {} => Some(s) \in s /\ it[s] = f[Some(s)] + it[s \ {Some(s)}]
  BY DEF Some, Adds
<1>2. \A s \in SUBSET D : s = {} => it[s] = 0
  BY DEF Adds
<1>3. \A y \in D : f[y] \in Nat
  OBVIOUS
<1>4. ASSUME NEW s \in SUBSET D, \A y \in s : s \ {y} \in P PROVE s \in P
  <2>1. CASE s = {}
    BY <1>2, <2>1
  <2>2. CASE s /= {}
    <3>1. Some(s) \in s /\ it[s] = f[Some(s)] + it[s \ {Some(s)}] /\ it[s \ {Some(s)}] \in Nat /\ f[Some(s)] \in Nat
      BY <1>1, <1>3, <1>4, <2>2
    <3>2. it[s] \in Nat
      BY <3>1
    <3>3. QED
      BY <3>2
  <2>3. QED
    BY <2>1, <2>2
<1>5. \A s \in SUBSET D : it[s] \in Nat
  <2> HIDE DEF P
  <2>1. \A s \in SUBSET D : s \in P
    BY <1>4, EverySubset
  <2>2. QED
    BY <2>1 DEF P
<1>6. ASSUME NEW s \in SUBSET D, \A y \in s : s \ {y} \in Q PROVE s \in Q
  <2> SUFFICES ASSUME NEW y \in s PROVE it[s] = f[y] + it[s \ {y}]
    OBVIOUS
  <2> DEFINE x == Some(s)
  <2>1. x \in s /\ it[s] = f[x] + it[s \ {x}]
    BY <1>1
  <2> HIDE DEF x
  <2>2. CASE x = y
    BY <2>1, <2>2
  <2>3. CASE x /= y
    <3> DEFINE r == (s \ {x}) \ {y}
    <3>1. r = (s \ {y}) \ {x} /\ r \in SUBSET D
      OBVIOUS
    <3>2. it[s \ {x}] = f[y] + it[r]
      BY <1>6, <2>1, <2>3
    <3>3. it[s \ {y}] = f[x] + it[r]
      BY <1>6, <2>1, <2>3, <3>1
    <3> HIDE DEF r
    <3>4. f[x] \in Nat /\ f[y] \in Nat /\ it[r] \in Nat
      BY <1>3, <1>5, <2>1, <3>1
    <3>5. QED
      BY <2>1, <3>2, <3>3, <3>4
  <2>4. QED
    BY <2>2, <2>3
<1>7. \A s \in SUBSET D : \A y \in s : it[s] = f[y] + it[s \ {y}]
  <2> HIDE DEF Q
  <2>1. \A s \in SUBSET D : s \in Q
    BY <1>6, EverySubset
  <2>2. QED
    BY <2>1 DEF Q
<1>8. QED
  BY <1>2, <1>5, <1>7

\* Where there is nothing to add the sum is the same.
LEMMA SumsAgree ==
  ASSUME NEW D, NEW E, D \subseteq E, IsFiniteSet(E), NEW f \in [D -> Nat], NEW g \in [E -> Nat],
         \A y \in E : g[y] = IF y \in D THEN f[y] ELSE 0,
         NEW it, Adds(it, f, D), NEW jt, Adds(jt, g, E)
  PROVE  jt[E] = it[D]
<1> DEFINE P == {s \in SUBSET E : jt[s] = it[s \cap D]}
<1>1. IsFiniteSet(D)
  BY FS_Subset
<1>2. \A s \in SUBSET D : it[s] \in Nat /\ (s = {} => it[s] = 0) /\ \A y \in s : it[s] = f[y] + it[s \ {y}]
  BY <1>1, SumsAre
<1>3. \A s \in SUBSET E : jt[s] \in Nat /\ (s = {} => jt[s] = 0) /\ \A y \in s : jt[s] = g[y] + jt[s \ {y}]
  BY SumsAre
<1>4. ASSUME NEW s \in SUBSET E, \A y \in s : s \ {y} \in P PROVE s \in P
  <2>1. CASE s = {}
    <3>1. s \cap D = {} /\ s \cap D \in SUBSET D
      BY <2>1
    <3>2. QED
      BY <1>2, <1>3, <2>1, <3>1
  <2>2. CASE s /= {}
    <3>1. PICK y \in s : TRUE
      BY <2>2
    <3> DEFINE c == s \cap D
               r == (s \ {y}) \cap D
    <3>2. jt[s] = g[y] + jt[s \ {y}] /\ jt[s \ {y}] = it[r] /\ c \in SUBSET D /\ r \in SUBSET D
      BY <1>3, <1>4
    <3>3. CASE y \in D
      <4>1. y \in c /\ r = c \ {y} /\ g[y] = f[y]
        BY <3>3
      <4> HIDE DEF c, r
      <4>2. it[c] = f[y] + it[r]
        BY <1>2, <3>2, <4>1
      <4>3. QED
        BY <3>2, <4>1, <4>2 DEF c
    <3>4. CASE y \notin D
      <4>1. r = c /\ g[y] = 0
        BY <3>4
      <4> HIDE DEF c, r
      <4>2. it[r] \in Nat
        BY <1>2, <3>2
      <4>3. QED
        BY <3>2, <4>1, <4>2 DEF c
    <3>5. QED
      BY <3>3, <3>4
  <2>3. QED
    BY <2>1, <2>2
<1>5. E \in P
  <2> HIDE DEF P
  <2>1. QED
    BY <1>4, EverySubset
<1>6. E \cap D = D
  OBVIOUS
<1>7. QED
  BY <1>5, <1>6

LEMMA SumWithOne ==
  ASSUME NEW E, IsFiniteSet(E), NEW n \in E, NEW g \in [E -> Nat], NEW jt, Adds(jt, g, E),
         NEW D, D = E \ {n}, NEW f \in [D -> Nat], \A i \in D : g[i] = f[i], NEW it, Adds(it, f, D)
  PROVE  jt[E] = g[n] + it[D]
<1>1. \A s \in SUBSET E : jt[s] \in Nat /\ (s = {} => jt[s] = 0) /\ \A y \in s : jt[s] = g[y] + jt[s \ {y}]
  BY SumsAre
<1>2. jt[E] = g[n] + jt[D]
  BY <1>1
<1>3. Adds(jt, f, D)
  <2>1. \A u \in SUBSET D : u /= {} => f[Some(u)] = g[Some(u)]
    BY DEF Some
  <2>2. SUBSET D \subseteq SUBSET E
    OBVIOUS
  <2>3. QED
    BY <2>1, <2>2 DEF Adds
<1>4. jt[D] = it[D]
  <2>1. \A y \in D : f[y] = IF y \in D THEN f[y] ELSE 0
    OBVIOUS
  <2>2. IsFiniteSet(D)
    BY FS_Subset
  <2>3. QED
    BY <1>3, <2>1, <2>2, SumsAgree
<1>5. QED
  BY <1>2, <1>4

(***************************************************************************)
(* Totals of minutes                                                        *)
(***************************************************************************)
LEMMA TotalIsSum ==
  ASSUME NEW rows, IsFiniteSet(DOMAIN rows)
  PROVE  \E it : Adds(it, [i \in DOMAIN rows |-> rows[i].minutes], DOMAIN rows) /\ Total(rows) = it[DOMAIN rows]
<1> DEFINE D == DOMAIN rows
           f == [i \in D |-> rows[i].minutes]
<1>1. PICK it : it = CHOOSE iter : iter = [s \in SUBSET D |-> IF s = {} THEN 0 ELSE LET x == CHOOSE y \in s : TRUE IN rows[x].minutes + iter[s \ {x}]]
  OBVIOUS
<1>2. Total(rows) = it[D]
  BY <1>1 DEF Total, FoldSeq, FoldFunction, FoldFunctionOnSet, MapThenFoldSet
<1>3. \A s \in SUBSET D : s /= {} => f[Some(s)] = rows[Some(s)].minutes
  BY DEF Some
<1>4. PICK jt : jt = [s \in SUBSET D |-> jt[s]] /\ Adds(jt, f, D)
  <2>1. IsFiniteSet(D)
    OBVIOUS
  <2> HIDE DEF D, f
  <2>2. QED
    BY <2>1, SumsExist
<1> HIDE DEF f
<1>5. jt = [s \in SUBSET D |-> IF s = {} THEN 0 ELSE rows[Some(s)].minutes + jt[s \ {Some(s)}]]
  <2>1. \A s \in SUBSET D : jt[s] = IF s = {} THEN 0 ELSE rows[Some(s)].minutes + jt[s \ {Some(s)}]
    BY <1>3, <1>4 DEF Adds
  <2>2. QED
    BY <1>4, <2>1
<1>6. it = [s \in SUBSET D |-> IF s = {} THEN 0 ELSE rows[Some(s)].minutes + it[s \ {Some(s)}]]
  BY <1>1, <1>5 DEF Some
<1>7. \A s \in SUBSET D : it[s] = IF s = {} THEN 0 ELSE rows[Some(s)].minutes + it[s \ {Some(s)}]
  BY <1>6
<1>8. Adds(it, f, D)
  BY <1>3, <1>7 DEF Adds
<1>9. QED
  BY <1>2, <1>8 DEF f

\* Rows with the same minutes have the same total, a number.
LEMMA SameTotal ==
  ASSUME NEW R, \A r \in R : r.minutes \in Nat, NEW s \in Seq(R),
         NEW Q, \A r \in Q : r.minutes \in Nat, NEW t \in Seq(Q),
         Len(s) = Len(t), \A k \in 1..Len(s) : s[k].minutes = t[k].minutes
  PROVE  Total(s) = Total(t) /\ Total(s) \in Nat /\ (s = <<>> => Total(s) = 0)
<1> DEFINE D == DOMAIN s
           f == [i \in D |-> s[i].minutes]
<1>1. D = 1..Len(s) /\ DOMAIN t = D /\ Len(s) \in Nat
  OBVIOUS
<1>2. IsFiniteSet(D)
  BY <1>1, FS_Interval
<1>3. f \in [D -> Nat]
  OBVIOUS
<1>4. f = [i \in D |-> t[i].minutes]
  BY <1>1
<1>5. PICK it : Adds(it, f, D) /\ Total(s) = it[D]
  BY <1>2, TotalIsSum
<1>6. PICK jt : Adds(jt, f, D) /\ Total(t) = jt[D]
  <2>1. PICK jt : Adds(jt, [i \in DOMAIN t |-> t[i].minutes], DOMAIN t) /\ Total(t) = jt[DOMAIN t]
    BY <1>1, <1>2, TotalIsSum
  <2>2. QED
    BY <1>1, <1>4, <2>1
<1>7. s = <<>> => D = {}
  OBVIOUS
<1> HIDE DEF D, f
<1>8. jt[D] = it[D]
  <2>1. \A y \in D : f[y] = IF y \in D THEN f[y] ELSE 0
    OBVIOUS
  <2>2. QED
    BY <1>2, <1>3, <1>5, <1>6, <2>1, SumsAgree
<1>9. it[D] \in Nat /\ (D = {} => it[D] = 0)
  BY <1>2, <1>3, <1>5, SumsAre
<1>10. QED
  BY <1>5, <1>6, <1>7, <1>8, <1>9

LEMMA TotalIsNumber ==
  ASSUME NEW R, \A r \in R : r.minutes \in Nat, NEW s \in Seq(R)
  PROVE  Total(s) \in Nat /\ (s = <<>> => Total(s) = 0)
  BY SameTotal

LEMMA TotalWithOne ==
  ASSUME NEW R, \A r \in R : r.minutes \in Nat, NEW s \in Seq(R), NEW r \in R
  PROVE  Total(Append(s, r)) = Total(s) + r.minutes
<1> DEFINE t == Append(s, r)
           n == Len(s) + 1
           D == 1..Len(s)
           E == 1..n
           f == [i \in D |-> s[i].minutes]
           g == [i \in E |-> t[i].minutes]
<1>1. t \in Seq(R) /\ Len(t) = n /\ DOMAIN t = E /\ DOMAIN s = D /\ Len(s) \in Nat /\ n \in E /\ E \ {n} = D
  OBVIOUS
<1>2. (\A i \in D : t[i] = s[i]) /\ t[n] = r
  OBVIOUS
<1>3. IsFiniteSet(D) /\ IsFiniteSet(E)
  BY <1>1, FS_Interval
<1>4. f \in [D -> Nat] /\ g \in [E -> Nat]
  <2>1. (\A i \in D : s[i].minutes \in Nat) /\ \A i \in E : t[i].minutes \in Nat
    BY <1>1
  <2>2. QED
    BY <2>1
<1>5. g[n] = r.minutes /\ \A i \in D : g[i] = f[i] /\ i \in E
  BY <1>1, <1>2
<1>6. PICK it : Adds(it, f, D) /\ Total(s) = it[D]
  BY <1>1, <1>3, TotalIsSum
<1>7. PICK jt : Adds(jt, g, E) /\ Total(t) = jt[E]
  <2> HIDE DEF t
  <2>1. PICK jt : Adds(jt, [i \in DOMAIN t |-> t[i].minutes], DOMAIN t) /\ Total(t) = jt[DOMAIN t]
    BY <1>1, <1>3, TotalIsSum
  <2>2. QED
    BY <1>1, <2>1
<1> HIDE DEF t, n, D, E, f, g
<1>8. jt[E] = g[n] + it[D]
  <2>1. IsFiniteSet(E) /\ n \in E /\ g \in [E -> Nat] /\ Adds(jt, g, E)
    BY <1>1, <1>3, <1>4, <1>7
  <2>2. E \ {n} = D /\ f \in [D -> Nat] /\ Adds(it, f, D) /\ \A i \in D : g[i] = f[i]
    BY <1>1, <1>4, <1>5, <1>6
  <2>3. QED
    BY <2>1, <2>2, SumWithOne
<1>9. it[D] \in Nat
  BY <1>3, <1>4, <1>6, SumsAre
<1>10. QED
  BY <1>5, <1>6, <1>7, <1>8, <1>9 DEF t

\* The total of a beginning and the rest
LEMMA TotalOfBoth ==
  ASSUME NEW R, \A r \in R : r.minutes \in Nat, NEW s \in Seq(R), NEW m \in 0..Len(s)
  PROVE  Total(SubSeq(s, 1, m)) + Total(SubSeq(s, m + 1, Len(s))) = Total(s)
<1> DEFINE a(k) == SubSeq(s, 1, m + k)
           b(k) == SubSeq(s, m + 1, m + k)
           S == {k \in Nat : m + k <= Len(s) => Total(a(0)) + Total(b(k)) = Total(a(k))}
<1>1. Len(s) \in Nat /\ m \in Nat /\ \A k \in 1..Len(s) : s[k] \in R
  OBVIOUS
<1>2. \A k \in Nat : m + k <= Len(s) => a(k) \in Seq(R) /\ b(k) \in Seq(R)
  BY <1>1, SubSeqProperties
<1>3. 0 \in S
  <2>1. b(0) = <<>>
    BY <1>1
  <2>2. a(0) \in Seq(R) /\ b(0) \in Seq(R)
    BY <1>1, <1>2
  <2> HIDE DEF a, b
  <2>3. Total(b(0)) = 0 /\ Total(a(0)) \in Nat
    BY <2>1, <2>2, TotalIsNumber
  <2>4. QED
    BY <2>3
<1>4. ASSUME NEW k \in Nat, k \in S PROVE k + 1 \in S
  <2> SUFFICES ASSUME m + (k + 1) <= Len(s) PROVE Total(a(0)) + Total(b(k + 1)) = Total(a(k + 1))
    OBVIOUS
  <2>1. m + k + 1 \in 1..Len(s) /\ m + k <= Len(s) /\ m + k + 1 <= Len(s)
    BY <1>1
  <2> DEFINE r == s[m + k + 1]
  <2>2. r \in R
    BY <1>1, <2>1
  <2>3. a(k + 1) = Append(a(k), r)
    BY <1>1, <2>1
  <2>4. b(k + 1) = Append(b(k), r)
    BY <1>1, <2>1
  <2>5. a(k) \in Seq(R) /\ b(k) \in Seq(R) /\ a(0) \in Seq(R)
    BY <1>1, <1>2, <2>1
  <2>6. Total(a(0)) + Total(b(k)) = Total(a(k))
    BY <1>4, <2>1
  <2> HIDE DEF a, b, r
  <2>7. Total(a(k + 1)) = Total(a(k)) + r.minutes /\ Total(b(k + 1)) = Total(b(k)) + r.minutes
    BY <2>2, <2>3, <2>4, <2>5, TotalWithOne
  <2>8. Total(a(0)) \in Nat /\ Total(a(k)) \in Nat /\ Total(b(k)) \in Nat /\ r.minutes \in Nat
    BY <2>2, <2>5, TotalIsNumber
  <2>9. QED
    BY <2>6, <2>7, <2>8
<1> HIDE DEF S
<1>5. \A k \in Nat : k \in S
  BY <1>3, <1>4, EveryNumber
<1>6. Len(s) - m \in Nat /\ m + (Len(s) - m) = Len(s) /\ m + 0 = m
  OBVIOUS
<1>7. Total(a(0)) + Total(b(Len(s) - m)) = Total(a(Len(s) - m))
  <2> HIDE DEF a, b
  <2>1. Len(s) - m \in S
    BY <1>5, <1>6
  <2>2. QED
    BY <1>1, <1>6, <2>1 DEF S
<1>8. a(0) = SubSeq(s, 1, m) /\ b(Len(s) - m) = SubSeq(s, m + 1, Len(s)) /\ a(Len(s) - m) = s
  <2>1. SubSeq(s, 1, Len(s)) = s
    BY SubSeqFull
  <2>2. QED
    BY <1>6, <2>1
<1>9. QED
  BY <1>7, <1>8

(***************************************************************************)
(* The order of the offices                                                 *)
(***************************************************************************)
\* The elements of s before x in the order O
Before(s, x, O) == {y \in s : <<y, x>> \in O}

\* In a finite set that is ordered some element has k before it.
LEMMA SomeHasPlace ==
  ASSUME NEW S, IsFiniteSet(S), NEW O,
         \A x \in S : <<x, x>> \notin O,
         \A x, y, z \in S : <<x, y>> \in O /\ <<y, z>> \in O => <<x, z>> \in O,
         \A x, y \in S : x /= y => <<x, y>> \in O \/ <<y, x>> \in O
  PROVE  \A k \in Nat : k < Cardinality(S) => \E x \in S : Cardinality(Before(S, x, O)) = k
<1> DEFINE P == {s \in SUBSET S : s /= {} => \E m \in s : \A x \in s \ {m} : <<x, m>> \in O}
           Q == {s \in SUBSET S : \A k \in Nat : k < Cardinality(s) => \E x \in s : Cardinality(Before(s, x, O)) = k}
<1>1. ASSUME NEW s \in SUBSET S, \A y \in s : s \ {y} \in P PROVE s \in P
  <2> SUFFICES ASSUME s /= {} PROVE \E m \in s : \A x \in s \ {m} : <<x, m>> \in O
    OBVIOUS
  <2>1. PICK y \in s : TRUE
    OBVIOUS
  <2>2. CASE s \ {y} = {}
    BY <2>1, <2>2
  <2>3. CASE s \ {y} /= {}
    <3>1. PICK m \in s \ {y} : \A x \in (s \ {y}) \ {m} : <<x, m>> \in O
      BY <1>1, <2>1, <2>3
    <3>2. CASE <<y, m>> \in O
      <4>1. \A x \in s \ {m} : <<x, m>> \in O
        BY <3>1, <3>2
      <4>2. QED
        BY <3>1, <4>1
    <3>3. CASE <<m, y>> \in O
      <4>1. \A x \in s \ {y} : <<x, y>> \in O
        BY <2>1, <3>1, <3>3
      <4>2. QED
        BY <2>1, <4>1
    <3>4. QED
      BY <2>1, <3>1, <3>2, <3>3
  <2>4. QED
    BY <2>2, <2>3
<1>2. \A s \in SUBSET S : s \in P
  <2> HIDE DEF P
  <2>1. QED
    BY <1>1, EverySubset
<1>3. \A s \in SUBSET S : IsFiniteSet(s) /\ Cardinality(s) \in Nat
  BY FS_Subset, FS_CardinalityType
<1>4. ASSUME NEW s \in SUBSET S, \A y \in s : s \ {y} \in Q PROVE s \in Q
  <2> SUFFICES ASSUME NEW k \in Nat, k < Cardinality(s) PROVE \E x \in s : Cardinality(Before(s, x, O)) = k
    OBVIOUS
  <2>1. s /= {}
    BY <1>3, FS_EmptySet
  <2>2. PICK m \in s : \A x \in s \ {m} : <<x, m>> \in O
    BY <1>2, <2>1
  <2> DEFINE r == s \ {m}
  <2>3. r \in Q /\ r \in SUBSET S
    BY <1>4, <2>2
  <2>4. Cardinality(r) = Cardinality(s) - 1
    BY <1>3, <2>2, FS_RemoveElement
  <2>5. CASE k < Cardinality(s) - 1
    <3>1. PICK x \in r : Cardinality(Before(r, x, O)) = k
      BY <2>3, <2>4, <2>5
    <3>2. <<m, x>> \notin O
      BY <2>2, <3>1
    <3>3. Before(s, x, O) = Before(r, x, O)
      BY <3>2 DEF Before
    <3>4. QED
      BY <3>1, <3>3
  <2>6. CASE k = Cardinality(s) - 1
    <3>1. Before(s, m, O) = r
      BY <2>2 DEF Before
    <3>2. QED
      BY <2>2, <2>4, <2>6, <3>1
  <2>7. Cardinality(s) \in Nat
    BY <1>3
  <2>8. QED
    BY <2>5, <2>6, <2>7
<1>5. S \in Q
  <2> HIDE DEF P, Q
  <2>1. \A s \in SUBSET S : s \in Q
    BY <1>4, EverySubset
  <2>2. QED
    BY <2>1
<1>6. QED
  BY <1>5

\* What the sums of the server and of the page are
LEMMA MinutesAreNumber ==
  ASSUME NEW T, IsFiniteSet(T), \A i \in T : recorded[i].minutes \in Nat
  PROVE  MinutesIn(T) \in Nat
<1> DEFINE f == [i \in T |-> recorded[i].minutes]
<1>1. PICK it : it = CHOOSE iter : iter = [s \in SUBSET T |-> IF s = {} THEN 0 ELSE LET x == CHOOSE y \in s : TRUE IN recorded[x].minutes + iter[s \ {x}]]
  OBVIOUS
<1>2. MinutesIn(T) = it[T]
  BY <1>1 DEF MinutesIn, MapThenSumSet, MapThenFoldSet
<1>3. \A s \in SUBSET T : s /= {} => f[Some(s)] = recorded[Some(s)].minutes
  BY DEF Some
<1>4. PICK jt : jt = [s \in SUBSET T |-> jt[s]] /\ Adds(jt, f, T)
  <2> HIDE DEF f
  <2>1. QED
    BY SumsExist
<1>5. f \in [T -> Nat]
  OBVIOUS
<1> HIDE DEF f
<1>6. jt = [s \in SUBSET T |-> IF s = {} THEN 0 ELSE recorded[Some(s)].minutes + jt[s \ {Some(s)}]]
  <2>1. \A s \in SUBSET T : jt[s] = IF s = {} THEN 0 ELSE recorded[Some(s)].minutes + jt[s \ {Some(s)}]
    BY <1>3, <1>4 DEF Adds
  <2>2. QED
    BY <1>4, <2>1
<1>7. it = [s \in SUBSET T |-> IF s = {} THEN 0 ELSE recorded[Some(s)].minutes + it[s \ {Some(s)}]]
  BY <1>1, <1>6 DEF Some
<1>8. \A s \in SUBSET T : it[s] = IF s = {} THEN 0 ELSE recorded[Some(s)].minutes + it[s \ {Some(s)}]
  BY <1>7
<1>9. Adds(it, f, T)
  BY <1>3, <1>8 DEF Adds
<1>10. it[T] \in Nat
  BY <1>5, <1>9, SumsAre
<1>11. QED
  BY <1>2, <1>10

LEMMA RunsAreSum ==
  ASSUME NEW q, IsFiniteSet(DOMAIN q)
  PROVE  \E it : Adds(it, [d \in DOMAIN q |-> q[d].runs], DOMAIN q) /\ RunsOn(q) = it[DOMAIN q]
<1> DEFINE D == DOMAIN q
           f == [d \in D |-> q[d].runs]
<1>1. PICK it : it = CHOOSE iter : iter = [s \in SUBSET D |-> IF s = {} THEN 0 ELSE LET x == CHOOSE y \in s : TRUE IN q[x].runs + iter[s \ {x}]]
  OBVIOUS
<1>2. RunsOn(q) = it[D]
  BY <1>1 DEF RunsOn, MapThenSumSet, MapThenFoldSet
<1>3. \A s \in SUBSET D : s /= {} => f[Some(s)] = q[Some(s)].runs
  BY DEF Some
<1>4. PICK jt : jt = [s \in SUBSET D |-> jt[s]] /\ Adds(jt, f, D)
  <2>1. IsFiniteSet(D)
    OBVIOUS
  <2> HIDE DEF D, f
  <2>2. QED
    BY <2>1, SumsExist
<1> HIDE DEF f
<1>5. jt = [s \in SUBSET D |-> IF s = {} THEN 0 ELSE q[Some(s)].runs + jt[s \ {Some(s)}]]
  <2>1. \A s \in SUBSET D : jt[s] = IF s = {} THEN 0 ELSE q[Some(s)].runs + jt[s \ {Some(s)}]
    BY <1>3, <1>4 DEF Adds
  <2>2. QED
    BY <1>4, <2>1
<1>6. it = [s \in SUBSET D |-> IF s = {} THEN 0 ELSE q[Some(s)].runs + it[s \ {Some(s)}]]
  BY <1>1, <1>5 DEF Some
<1>7. \A s \in SUBSET D : it[s] = IF s = {} THEN 0 ELSE q[Some(s)].runs + it[s \ {Some(s)}]
  BY <1>6
<1>8. Adds(it, f, D)
  BY <1>3, <1>7 DEF Adds
<1>9. QED
  BY <1>2, <1>8 DEF f

LEMMA FailuresAreSum ==
  ASSUME NEW q, IsFiniteSet(DOMAIN q)
  PROVE  \E it : Adds(it, [d \in DOMAIN q |-> q[d].failed], DOMAIN q) /\ FailedOn(q) = it[DOMAIN q]
<1> DEFINE D == DOMAIN q
           f == [d \in D |-> q[d].failed]
<1>1. PICK it : it = CHOOSE iter : iter = [s \in SUBSET D |-> IF s = {} THEN 0 ELSE LET x == CHOOSE y \in s : TRUE IN q[x].failed + iter[s \ {x}]]
  OBVIOUS
<1>2. FailedOn(q) = it[D]
  BY <1>1 DEF FailedOn, MapThenSumSet, MapThenFoldSet
<1>3. \A s \in SUBSET D : s /= {} => f[Some(s)] = q[Some(s)].failed
  BY DEF Some
<1>4. PICK jt : jt = [s \in SUBSET D |-> jt[s]] /\ Adds(jt, f, D)
  <2>1. IsFiniteSet(D)
    OBVIOUS
  <2> HIDE DEF D, f
  <2>2. QED
    BY <2>1, SumsExist
<1> HIDE DEF f
<1>5. jt = [s \in SUBSET D |-> IF s = {} THEN 0 ELSE q[Some(s)].failed + jt[s \ {Some(s)}]]
  <2>1. \A s \in SUBSET D : jt[s] = IF s = {} THEN 0 ELSE q[Some(s)].failed + jt[s \ {Some(s)}]
    BY <1>3, <1>4 DEF Adds
  <2>2. QED
    BY <1>4, <2>1
<1>6. it = [s \in SUBSET D |-> IF s = {} THEN 0 ELSE q[Some(s)].failed + it[s \ {Some(s)}]]
  BY <1>1, <1>5 DEF Some
<1>7. \A s \in SUBSET D : it[s] = IF s = {} THEN 0 ELSE q[Some(s)].failed + it[s \ {Some(s)}]
  BY <1>6
<1>8. Adds(it, f, D)
  BY <1>3, <1>7 DEF Adds
<1>9. QED
  BY <1>2, <1>8 DEF f

(***************************************************************************)
(* The chart                                                                *)
(***************************************************************************)
LEMMA PlacesAre ==
  ASSUME NEW S, NEW s \in Seq(S), NEW K \in SUBSET DOMAIN s
  PROVE  /\ K \in SUBSET (0..Len(s)) /\ Cardinality(K) \in Nat
         /\ AtPlaces(s, K) \in Seq(S) /\ Len(AtPlaces(s, K)) = Cardinality(K)
         /\ \A k \in 1..Cardinality(K) : AtPlaces(s, K)[k] = s[Ascending(K)[k]] /\ Ascending(K)[k] \in K
<1> DEFINE A == Ascending(K)
           n == Cardinality(K)
<1>1. Len(s) \in Nat /\ DOMAIN s = 1..Len(s) /\ \A k \in 1..Len(s) : s[k] \in S
  OBVIOUS
<1>2. K \in SUBSET (0..Len(s))
  BY <1>1
<1>3. A \in Seq(K) /\ Len(A) = n /\ n \in Nat /\ DOMAIN A = 1..n /\ \A k \in 1..n : A[k] \in K
  BY <1>1, <1>2, AscendingOf
<1>4. AtPlaces(s, K) = [k \in 1..n |-> s[A[k]]]
  BY <1>3 DEF AtPlaces
<1> HIDE DEF A, n
<1>5. \A k \in 1..n : s[A[k]] \in S
  BY <1>1, <1>3
<1>6. AtPlaces(s, K) \in [1..n -> S]
  BY <1>4, <1>5
<1>7. AtPlaces(s, K) \in Seq(S) /\ Len(AtPlaces(s, K)) = n
  BY <1>3, <1>6
<1>8. QED
  BY <1>2, <1>3, <1>4, <1>7 DEF A, n

LEMMA PlacesTogether ==
  ASSUME NEW S, NEW s \in Seq(S), NEW J \in SUBSET DOMAIN s, NEW K \in SUBSET DOMAIN s, \A i \in J, j \in K : i < j
  PROVE  AtPlaces(s, J) \o AtPlaces(s, K) = AtPlaces(s, J \cup K)
<1> DEFINE m == Cardinality(J)
           n == Cardinality(K)
           L == J \cup K
           p == AtPlaces(s, J)
           q == AtPlaces(s, K)
<1>1. /\ J \in SUBSET (0..Len(s)) /\ m \in Nat /\ p \in Seq(S) /\ Len(p) = m
      /\ \A k \in 1..m : p[k] = s[Ascending(J)[k]]
  BY PlacesAre
<1>2. /\ K \in SUBSET (0..Len(s)) /\ n \in Nat /\ q \in Seq(S) /\ Len(q) = n
      /\ \A k \in 1..n : q[k] = s[Ascending(K)[k]]
  BY PlacesAre
<1>3. /\ L \in SUBSET DOMAIN s /\ AtPlaces(s, L) \in Seq(S) /\ Len(AtPlaces(s, L)) = Cardinality(L)
      /\ \A k \in 1..Cardinality(L) : AtPlaces(s, L)[k] = s[Ascending(L)[k]]
  <2>1. L \in SUBSET DOMAIN s
    OBVIOUS
  <2> HIDE DEF L
  <2>2. QED
    BY <2>1, PlacesAre
<1>4. Len(s) \in Nat
  OBVIOUS
<1>5. Ascending(J) \o Ascending(K) = Ascending(L)
  BY <1>1, <1>2, <1>4, AscendingJoined
<1>6. Ascending(J) \in Seq(J) /\ Len(Ascending(J)) = m /\ Ascending(K) \in Seq(K) /\ Len(Ascending(K)) = n
  BY <1>1, <1>2, <1>4, AscendingOf
<1>7. Ascending(L) \in Seq(L) /\ Len(Ascending(L)) = Cardinality(L)
  <2>1. L \in SUBSET (0..Len(s))
    BY <1>1, <1>2
  <2> HIDE DEF L
  <2>2. QED
    BY <1>4, <2>1, AscendingOf
<1> HIDE DEF m, n, p, q
<1>8. /\ Len(Ascending(L)) = m + n
      /\ \A k \in 1..(m + n) : Ascending(L)[k] = IF k <= m THEN Ascending(J)[k] ELSE Ascending(K)[k - m]
  <2>1. Ascending(J) \in Seq(L) /\ Ascending(K) \in Seq(L)
    <3>1. J \subseteq L /\ K \subseteq L
      OBVIOUS
    <3> HIDE DEF L
    <3>2. QED
      BY <1>6, <3>1, SeqMonotonic
  <2> HIDE DEF L
  <2>2. LET c == Ascending(J) \o Ascending(K)
        IN  /\ Len(c) = Len(Ascending(J)) + Len(Ascending(K))
            /\ \A k \in 1..(Len(Ascending(J)) + Len(Ascending(K))) :
                 c[k] = IF k <= Len(Ascending(J)) THEN Ascending(J)[k] ELSE Ascending(K)[k - Len(Ascending(J))]
    BY <2>1, ConcatProperties
  <2>3. QED
    BY <1>5, <1>6, <2>2
<1> HIDE DEF L
<1>9. p \o q \in Seq(S) /\ Len(p \o q) = m + n /\ \A k \in 1..(m + n) : (p \o q)[k] = IF k <= m THEN p[k] ELSE q[k - m]
  BY <1>1, <1>2, ConcatProperties
<1>10. ASSUME NEW k \in 1..(m + n) PROVE (p \o q)[k] = AtPlaces(s, L)[k]
  <2>1. AtPlaces(s, L)[k] = s[Ascending(L)[k]]
    BY <1>3, <1>7, <1>8
  <2>2. CASE k <= m
    <3>1. k \in 1..m
      BY <1>1, <1>2, <2>2
    <3>2. QED
      BY <1>1, <1>8, <1>9, <2>1, <2>2, <3>1
  <2>3. CASE ~(k <= m)
    <3>1. k - m \in 1..n
      BY <1>1, <1>2, <2>3
    <3>2. (p \o q)[k] = q[k - m] /\ Ascending(L)[k] = Ascending(K)[k - m]
      BY <1>8, <1>9, <2>3
    <3>3. QED
      BY <1>2, <2>1, <3>1, <3>2
  <2>4. QED
    BY <2>2, <2>3
<1>11. Len(AtPlaces(s, L)) = m + n
  BY <1>3, <1>7, <1>8
<1>12. p \o q = AtPlaces(s, L)
  BY <1>3, <1>9, <1>10, <1>11, SeqEqual
<1>13. QED
  BY <1>12 DEF p, q, L

\* The offices without minutes add nothing.
LEMMA TotalOfTimed ==
  ASSUME NEW R, \A r \in R : r.minutes \in Nat, NEW u \in Seq(R),
         NEW K \in SUBSET DOMAIN u, \A i \in DOMAIN u \ K : u[i].minutes = 0
  PROVE  Total(AtPlaces(u, K)) = Total(u)
<1> DEFINE J(n) == {i \in K : i <= n}
           a(n) == AtPlaces(u, J(n))
           b(n) == SubSeq(u, 1, n)
           S == {n \in Nat : n <= Len(u) => Total(a(n)) = Total(b(n))}
<1>1. Len(u) \in Nat /\ DOMAIN u = 1..Len(u) /\ \A i \in 1..Len(u) : u[i] \in R
  OBVIOUS
<1>2. \A n \in Nat : J(n) \in SUBSET DOMAIN u
  OBVIOUS
<1>3. \A n \in Nat : a(n) \in Seq(R)
  <2> HIDE DEF J
  <2>1. QED
    BY <1>2, PlacesAre
<1>4. 0 \in S
  <2>1. J(0) = {}
    BY <1>1
  <2>2. a(0) = <<>>
    <3> HIDE DEF J
    <3>1. QED
      BY <1>2, <2>1, PlacesOf
  <2>3. b(0) = <<>>
    BY <1>1
  <2> HIDE DEF a, b
  <2>4. QED
    BY <2>2, <2>3
<1>5. ASSUME NEW n \in Nat, n \in S PROVE n + 1 \in S
  <2> SUFFICES ASSUME n + 1 <= Len(u) PROVE Total(a(n + 1)) = Total(b(n + 1))
    OBVIOUS
  <2> DEFINE r == u[n + 1]
  <2>1. n + 1 \in 1..Len(u) /\ n <= Len(u) /\ r \in R
    BY <1>1
  <2>2. b(n + 1) = Append(b(n), r) /\ b(n) \in Seq(R)
    BY <1>1, <2>1
  <2>3. Total(a(n)) = Total(b(n))
    BY <1>5, <2>1
  <2>4. Total(b(n + 1)) = Total(b(n)) + r.minutes /\ Total(b(n)) \in Nat
    <3> HIDE DEF a, b, r
    <3>1. QED
      BY <2>1, <2>2, TotalWithOne, TotalIsNumber
  <2>5. CASE n + 1 \in K
    <3> DEFINE o == {n + 1}
    <3>1. J(n + 1) = J(n) \cup o /\ (\A i \in J(n), j \in o : i < j) /\ o \in SUBSET DOMAIN u
      BY <1>1, <2>1, <2>5
    <3>2. AtPlaces(u, o) = <<r>>
      <4>1. Cardinality(o) = 1
        BY FS_Singleton
      <4>2. AtPlaces(u, o) \in Seq(R) /\ Len(AtPlaces(u, o)) = 1 /\ AtPlaces(u, o)[1] = u[Ascending(o)[1]] /\ Ascending(o)[1] \in o
        <5> HIDE DEF o, a, b, r, J
        <5>1. o \in SUBSET DOMAIN u
          BY <3>1
        <5>2. AtPlaces(u, o) \in Seq(R) /\ Len(AtPlaces(u, o)) = Cardinality(o)
          BY <5>1, PlacesAre
        <5>3. \A k \in 1..Cardinality(o) : AtPlaces(u, o)[k] = u[Ascending(o)[k]] /\ Ascending(o)[k] \in o
          BY <5>1, PlacesAre
        <5>4. 1 \in 1..Cardinality(o)
          BY <4>1
        <5>5. QED
          BY <4>1, <5>2, <5>3, <5>4
      <4>3. AtPlaces(u, o)[1] = r
        BY <4>2
      <4> HIDE DEF o, r
      <4>4. QED
        BY <4>2, <4>3
    <3>3. a(n + 1) = a(n) \o <<r>>
      <4> HIDE DEF J, o, r
      <4>1. AtPlaces(u, J(n)) \o AtPlaces(u, o) = AtPlaces(u, J(n) \cup o)
        BY <1>2, <3>1, PlacesTogether
      <4>2. QED
        BY <3>1, <3>2, <4>1
    <3> HIDE DEF a, b, r
    <3>4. a(n + 1) = Append(a(n), r)
      BY <1>3, <2>1, <3>3, AppendIsConcat
    <3>5. Total(a(n + 1)) = Total(a(n)) + r.minutes
      BY <1>3, <2>1, <3>4, TotalWithOne
    <3>6. QED
      BY <2>3, <2>4, <3>5
  <2>6. CASE n + 1 \notin K
    <3>1. r.minutes = 0
      BY <1>1, <2>1, <2>6
    <3>2. J(n + 1) = J(n)
      BY <1>1, <2>1, <2>6
    <3> HIDE DEF J, b, r
    <3>3. QED
      BY <2>3, <2>4, <3>1, <3>2
  <2>7. QED
    BY <2>5, <2>6
<1> HIDE DEF S
<1>6. Len(u) \in S
  BY <1>1, <1>4, <1>5, EveryNumber
<1>7. Total(a(Len(u))) = Total(b(Len(u)))
  BY <1>1, <1>6 DEF S
<1>8. J(Len(u)) = K /\ b(Len(u)) = u
  BY <1>1, SubSeqFull
<1>9. QED
  BY <1>7, <1>8

\* A row of the usage
UsageRows == [office: Orgs, runs: Nat, minutes: Nat, failed: Nat]

LEMMA ChartAddsUp ==
  ASSUME NEW u \in Seq(UsageRows), AdminUsageAssumption
  PROVE  /\ Len(ChartOffices(u)) <= TopShares + 1
         /\ \A i \in DOMAIN ChartOffices(u) : ChartOffices(u)[i].minutes > 0
         /\ Total(ChartOffices(u)) = Total(u)
<1> DEFINE K == {i \in DOMAIN u : u[i].minutes > 0}
           timed == AtPlaces(u, K)
           m == IF Len(timed) < TopShares THEN Len(timed) ELSE TopShares
           named == SubSeq(timed, 1, m)
           rest == SubSeq(timed, TopShares + 1, Len(timed))
           other == Total(rest)
           share == [i \in DOMAIN named |-> [name |-> named[i].office, minutes |-> named[i].minutes]]
           c == IF other = 0 THEN share ELSE Append(share, [name |-> None, minutes |-> other])
           Q == [name: Orgs \cup {None}, minutes: Nat]
<1>1. ChartOffices(u) = c
  BY DEF ChartOffices
<1>2. TopShares \in Nat
  BY DEF AdminUsageAssumption
<1>3. (\A r \in UsageRows : r.minutes \in Nat /\ r.office \in Orgs) /\ \A r \in Q : r.minutes \in Nat
  BY DEF UsageRows
<1>4. \A i \in DOMAIN u : u[i] \in UsageRows
  OBVIOUS
<1>5. K \in SUBSET DOMAIN u /\ \A i \in DOMAIN u \ K : u[i].minutes = 0
  BY <1>3, <1>4
<1>6. Total(timed) = Total(u)
  <2> HIDE DEF K
  <2>1. QED
    BY <1>3, <1>5, TotalOfTimed
<1>7. /\ timed \in Seq(UsageRows) /\ Len(timed) \in Nat
      /\ \A k \in 1..Len(timed) : timed[k] \in UsageRows /\ timed[k].minutes > 0
  <2>1. \A k \in K : u[k].minutes > 0 /\ u[k] \in UsageRows
    BY <1>4
  <2> HIDE DEF K
  <2>2. /\ timed \in Seq(UsageRows) /\ Len(timed) = Cardinality(K) /\ Cardinality(K) \in Nat
        /\ \A k \in 1..Cardinality(K) : timed[k] = u[Ascending(K)[k]] /\ Ascending(K)[k] \in K
    BY <1>5, PlacesAre
  <2>3. QED
    BY <2>1, <2>2
<1> HIDE DEF K, timed
<1>8. m \in 0..Len(timed) /\ m <= TopShares /\ (m < TopShares => m = Len(timed))
  BY <1>2, <1>7
<1>9. Total(named) + Total(SubSeq(timed, m + 1, Len(timed))) = Total(timed)
  <2> HIDE DEF m
  <2>1. QED
    BY <1>3, <1>7, <1>8, TotalOfBoth
<1>10. SubSeq(timed, m + 1, Len(timed)) = rest
  <2>1. CASE m = TopShares
    BY <2>1
  <2>2. CASE m /= TopShares
    <3>1. m + 1 > Len(timed) /\ TopShares + 1 > Len(timed)
      BY <1>2, <1>7, <1>8, <2>2
    <3> HIDE DEF m
    <3>2. SubSeq(timed, m + 1, Len(timed)) = <<>> /\ rest = <<>>
      BY <1>2, <1>7, <1>8, <3>1, SubSeqEmpty
    <3>3. QED
      BY <3>2
  <2>3. QED
    BY <2>1, <2>2
<1>11. named \in Seq(UsageRows) /\ Len(named) = m /\ \A i \in 1..m : named[i] = timed[i]
  <2> HIDE DEF m
  <2>1. QED
    BY <1>7, <1>8, SubSeqProperties
<1>12. rest \in Seq(UsageRows)
  <2>1. CASE TopShares + 1 <= Len(timed)
    BY <1>2, <1>7, <2>1, SubSeqProperties
  <2>2. CASE ~(TopShares + 1 <= Len(timed))
    <3>1. TopShares + 1 > Len(timed)
      BY <1>2, <1>7, <2>2
    <3>2. rest = <<>>
      BY <1>2, <1>7, <3>1, SubSeqEmpty
    <3>3. <<>> \in Seq(UsageRows)
      OBVIOUS
    <3> HIDE DEF rest
    <3>4. QED
      BY <3>2, <3>3
  <2>3. QED
    BY <2>1, <2>2
<1>13. other \in Nat
  <2> HIDE DEF rest
  <2>1. QED
    BY <1>3, <1>12, TotalIsNumber
<1> HIDE DEF named, rest, other
<1>14. m \in Nat /\ DOMAIN named = 1..m
  BY <1>7, <1>8, <1>11
<1>15. \A i \in 1..m : named[i] \in UsageRows /\ named[i].minutes > 0
  BY <1>7, <1>8, <1>11
<1> HIDE DEF m
<1>16. /\ share \in Seq(Q) /\ Len(share) = m
       /\ \A i \in 1..m : share[i].minutes = named[i].minutes /\ share[i] \in Q
  <2>1. share = [i \in 1..m |-> [name |-> named[i].office, minutes |-> named[i].minutes]]
    BY <1>14
  <2>2. \A i \in 1..m : [name |-> named[i].office, minutes |-> named[i].minutes] \in Q
    BY <1>3, <1>15
  <2>3. share \in [1..m -> Q]
    BY <2>1, <2>2
  <2>4. QED
    BY <1>14, <2>1, <2>3
<1> HIDE DEF share
<1>17. Total(share) = Total(named) /\ Total(share) \in Nat
  <2> HIDE DEF Q
  <2>1. QED
    BY <1>3, <1>11, <1>16, SameTotal
<1>18. Total(share) + other = Total(u)
  BY <1>6, <1>9, <1>10, <1>17 DEF other
<1>19. CASE other = 0
  <2>1. c = share
    BY <1>19
  <2> HIDE DEF c
  <2>2. Total(c) = Total(u)
    BY <1>18, <1>17, <1>19, <2>1
  <2>3. Len(c) <= TopShares + 1
    BY <1>2, <1>8, <1>14, <1>16, <2>1
  <2>4. DOMAIN c = 1..m
    BY <1>16, <2>1
  <2>5. \A i \in 1..m : c[i].minutes > 0
    BY <1>15, <1>16, <2>1
  <2>6. QED
    BY <1>1, <2>2, <2>3, <2>4, <2>5
<1>20. CASE other /= 0
  <2> DEFINE r == [name |-> None, minutes |-> other]
  <2>1. c = Append(share, r) /\ r \in Q /\ r.minutes = other /\ other > 0
    BY <1>13, <1>20
  <2> HIDE DEF c, r, Q
  <2>2. Total(c) = Total(share) + other
    BY <1>3, <1>16, <2>1, TotalWithOne
  <2>3. Total(c) = Total(u)
    BY <1>18, <2>2
  <2>4. Len(c) = m + 1 /\ DOMAIN c = 1..(m + 1) /\ (\A i \in 1..m : c[i] = share[i]) /\ c[m + 1] = r
    BY <1>16, <2>1
  <2>5. \A i \in 1..(m + 1) : c[i].minutes > 0
    <3>1. \A i \in 1..(m + 1) : i \in 1..m \/ i = m + 1
      BY <1>14
    <3>2. QED
      BY <1>15, <1>16, <2>1, <2>4, <3>1
  <2>6. Len(c) <= TopShares + 1
    BY <1>2, <1>8, <1>14, <2>4
  <2>7. QED
    BY <1>1, <2>3, <2>4, <2>5, <2>6
<1>21. QED
  BY <1>19, <1>20

(***************************************************************************)
(* What the server answers                                                  *)
(***************************************************************************)
RunsRecorded == [office: Orgs, at: Nat, minutes: Nat, failed: BOOLEAN, over: BOOLEAN]

LEMMA SomeRunsOf ==
  ASSUME recorded \in Seq(RunsRecorded)
  PROVE  \A T \in SUBSET DOMAIN recorded :
           /\ IsFiniteSet(T) /\ Cardinality(T) \in Nat /\ MinutesIn(T) \in Nat
           /\ Cardinality(FailedIn(T)) \in Nat
<1> SUFFICES ASSUME NEW T \in SUBSET DOMAIN recorded
             PROVE  /\ IsFiniteSet(T) /\ Cardinality(T) \in Nat /\ MinutesIn(T) \in Nat
                    /\ Cardinality(FailedIn(T)) \in Nat
  OBVIOUS
<1>1. DOMAIN recorded = 1..Len(recorded) /\ Len(recorded) \in Nat /\ \A i \in DOMAIN recorded : recorded[i] \in RunsRecorded
  OBVIOUS
<1>2. IsFiniteSet(DOMAIN recorded)
  BY <1>1, FS_Interval
<1>3. IsFiniteSet(T)
  BY <1>2, FS_Subset
<1>4. FailedIn(T) \subseteq T
  BY DEF FailedIn
<1>5. IsFiniteSet(FailedIn(T))
  BY <1>3, <1>4, FS_Subset
<1>6. \A i \in T : recorded[i].minutes \in Nat
  BY <1>1 DEF RunsRecorded
<1>7. MinutesIn(T) \in Nat
  BY <1>3, <1>6, MinutesAreNumber
<1>8. QED
  BY <1>3, <1>5, <1>7, FS_CardinalityType

\* The usage has a row for each office with runs in the window, in their order.
LEMMA UsageIsRows ==
  ASSUME AdminUsageAssumption, recorded \in Seq(RunsRecorded), NEW w
  PROVE  /\ Usage(w) \in Seq(UsageRows)
         /\ w.office /= None => \A i \in DOMAIN Usage(w) : Usage(w)[i].office = w.office
<1> DEFINE of(o) == {i \in InWindow(w) : recorded[i].office = o}
           some == {x \in Orgs : of(x) /= {}}
           rows == {UsageRow(o, of(o)) : o \in some}
           n == Cardinality(rows)
           O == {p \in rows \X rows : Precedes(p[1], p[2])}
<1>1. Orgs \subseteq Nat /\ IsFiniteSet(Orgs)
  BY DEF AdminUsageAssumption
<1>2. \A o \in some : of(o) \in SUBSET DOMAIN recorded
  BY DEF InWindow
<1>3. \A o \in some : UsageRow(o, of(o)) \in UsageRows /\ UsageRow(o, of(o)).office = o
  <2> SUFFICES ASSUME NEW o \in some PROVE UsageRow(o, of(o)) \in UsageRows /\ UsageRow(o, of(o)).office = o
    OBVIOUS
  <2>1. o \in Orgs /\ of(o) \in SUBSET DOMAIN recorded
    BY <1>2
  <2> HIDE DEF of, some
  <2>2. MinutesIn(of(o)) \in Nat /\ Cardinality(of(o)) \in Nat /\ Cardinality(FailedIn(of(o))) \in Nat
    BY <2>1, SomeRunsOf
  <2>3. QED
    BY <2>1, <2>2 DEF UsageRow, UsageRows
<1>4. \A o \in some : w.office /= None => o = w.office
  <2> SUFFICES ASSUME NEW o \in some, w.office /= None PROVE o = w.office
    OBVIOUS
  <2>1. PICK i \in of(o) : TRUE
    OBVIOUS
  <2>2. recorded[i].office = o /\ w.office \in {None, recorded[i].office}
    BY <2>1 DEF InWindow
  <2>3. QED
    BY <2>2
<1>5. some \subseteq Orgs
  OBVIOUS
<1> HIDE DEF of, some
<1>6. IsFiniteSet(rows)
  <2>1. IsFiniteSet(some)
    BY <1>1, <1>5, FS_Subset
  <2> DEFINE f == [o \in some |-> UsageRow(o, of(o))]
  <2>2. f \in [some -> rows] /\ \A r \in rows : \E o \in some : f[o] = r
    OBVIOUS
  <2> HIDE DEF f, rows
  <2>3. f \in Surjection(some, rows)
    BY <2>2 DEF Surjection
  <2>4. QED
    BY <2>1, <2>3, FS_Surjection
<1>7. \A r \in rows : r \in UsageRows /\ r.minutes \in Nat /\ r.office \in Nat
  <2>1. \A r \in rows : r \in UsageRows
    BY <1>3
  <2>2. QED
    BY <1>1, <2>1 DEF UsageRows
<1>8. \A r \in rows : w.office /= None => r.office = w.office
  BY <1>3, <1>4
<1>9. \A r, s \in rows : r.office = s.office => r = s
  BY <1>3
<1>10. \A r, s : <<r, s>> \in O <=> r \in rows /\ s \in rows /\ Precedes(r, s)
  <2> HIDE DEF rows
  <2>1. QED
    OBVIOUS
<1> HIDE DEF rows, O
<1>11. \A r \in rows : <<r, r>> \notin O
  <2> SUFFICES ASSUME NEW r \in rows, Precedes(r, r) PROVE FALSE
    BY <1>10
  <2>1. r.minutes \in Nat /\ r.office \in Nat
    BY <1>7
  <2>2. QED
    BY <2>1 DEF Precedes
<1>12. \A r, s, t \in rows : <<r, s>> \in O /\ <<s, t>> \in O => <<r, t>> \in O
  <2> SUFFICES ASSUME NEW r \in rows, NEW s \in rows, NEW t \in rows, Precedes(r, s), Precedes(s, t) PROVE Precedes(r, t)
    BY <1>10
  <2>1. r.minutes \in Nat /\ s.minutes \in Nat /\ t.minutes \in Nat /\ r.office \in Nat /\ s.office \in Nat /\ t.office \in Nat
    BY <1>7
  <2>2. QED
    BY <2>1 DEF Precedes
<1>13. \A r, s \in rows : r /= s => <<r, s>> \in O \/ <<s, r>> \in O
  <2> SUFFICES ASSUME NEW r \in rows, NEW s \in rows, r /= s PROVE Precedes(r, s) \/ Precedes(s, r)
    BY <1>10
  <2>1. r.minutes \in Nat /\ s.minutes \in Nat /\ r.office \in Nat /\ s.office \in Nat /\ r.office /= s.office
    BY <1>7, <1>9
  <2>2. QED
    BY <2>1 DEF Precedes
<1>14. \A k \in Nat : k < n => \E r \in rows : Cardinality(Before(rows, r, O)) = k
  BY <1>6, <1>11, <1>12, <1>13, SomeHasPlace
<1>15. \A r \in rows : Before(rows, r, O) = {s \in rows : Precedes(s, r)}
  BY <1>10 DEF Before
<1>16. n \in Nat
  BY <1>6, FS_CardinalityType
<1>17. ASSUME NEW k \in 1..n PROVE \E r \in rows : Cardinality({s \in rows : Precedes(s, r)}) = k - 1
  <2>1. k - 1 \in Nat /\ k - 1 < n
    BY <1>16
  <2>2. PICK r \in rows : Cardinality(Before(rows, r, O)) = k - 1
    BY <1>14, <2>1
  <2>3. QED
    BY <1>15, <2>2
<1>18. Usage(w) = [k \in 1..n |-> CHOOSE r \in rows : Cardinality({s \in rows : Precedes(s, r)}) = k - 1]
  BY DEF Usage, rows, some, of
<1>19. \A k \in 1..n : Usage(w)[k] \in rows
  BY <1>17, <1>18
<1>20. Usage(w) \in [1..n -> rows] /\ DOMAIN Usage(w) = 1..n
  <2>1. Usage(w) = [k \in 1..n |-> Usage(w)[k]]
    BY <1>18
  <2> HIDE DEF n
  <2>2. QED
    BY <1>19, <2>1
<1>21. Usage(w) \in Seq(UsageRows)
  <2>1. \A k \in 1..n : Usage(w)[k] \in UsageRows
    BY <1>7, <1>19
  <2> HIDE DEF n
  <2>2. Usage(w) \in [1..n -> UsageRows]
    BY <1>20, <2>1
  <2>3. PICK u : u = Usage(w)
    OBVIOUS
  <2>4. u \in Seq(UsageRows)
    BY <1>16, <2>2, <2>3
  <2>5. QED
    BY <2>3, <2>4
<1>22. QED
  BY <1>8, <1>19, <1>20, <1>21

DayRows == [runs: Nat, failed: Nat]

\* The days of the server are days of the window.
LEMMA DaysOfWindow ==
  ASSUME recorded \in Seq(RunsRecorded), NEW w, w.since \in Nat, w.asOf \in Nat
  PROVE  /\ DOMAIN DailyRows(w) \subseteq Day(w.since)..Day(w.asOf)
         /\ \A d \in DOMAIN DailyRows(w) : DailyRows(w)[d] \in DayRows
<1> DEFINE on(d) == {i \in InWindow(w) : Day(recorded[i].at) = d}
           days == {Day(recorded[i].at) : i \in InWindow(w)}
<1>1. DailyRows(w) = [d \in days |-> [runs |-> Cardinality(on(d)), failed |-> Cardinality(FailedIn(on(d)))]]
  BY DEF DailyRows
<1>2. \A i \in InWindow(w) : i \in DOMAIN recorded /\ w.since <= recorded[i].at /\ recorded[i].at <= w.asOf
  BY DEF InWindow
<1>3. \A i \in DOMAIN recorded : recorded[i].at \in Nat
  <2>1. \A i \in DOMAIN recorded : recorded[i] \in RunsRecorded
    OBVIOUS
  <2>2. QED
    BY <2>1 DEF RunsRecorded
<1>4. \A i \in InWindow(w) : Day(recorded[i].at) \in Day(w.since)..Day(w.asOf)
  <2> SUFFICES ASSUME NEW i \in InWindow(w) PROVE Day(recorded[i].at) \in Day(w.since)..Day(w.asOf)
    OBVIOUS
  <2>1. recorded[i].at \in Nat /\ w.since <= recorded[i].at /\ recorded[i].at <= w.asOf
    BY <1>2, <1>3
  <2>2. QED
    BY <2>1 DEF Day
<1>5. days \subseteq Day(w.since)..Day(w.asOf)
  BY <1>4
<1>6. \A d \in days : on(d) \in SUBSET DOMAIN recorded
  BY <1>2
<1> HIDE DEF on, days
<1>7. \A d \in days : [runs |-> Cardinality(on(d)), failed |-> Cardinality(FailedIn(on(d)))] \in DayRows
  BY <1>6, SomeRunsOf DEF DayRows
<1>8. QED
  BY <1>1, <1>5, <1>7

\* The days with zeros between them have the same sums.
LEMMA DaysAddUp ==
  ASSUME NEW a, a.since \in Nat, a.asOf \in Nat, DOMAIN a.daily \subseteq Day(a.since)..Day(a.asOf),
         \A d \in DOMAIN a.daily : a.daily[d] \in DayRows
  PROVE  RunsOn(Daily(a)) = RunsOn(a.daily) /\ FailedOn(Daily(a)) = FailedOn(a.daily)
<1> DEFINE D == DOMAIN a.daily
           E == Day(a.since)..Day(a.asOf)
           shown == Daily(a)
           fr == [d \in D |-> a.daily[d].runs]
           gr == [d \in E |-> shown[d].runs]
           ff == [d \in D |-> a.daily[d].failed]
           gf == [d \in E |-> shown[d].failed]
<1>1. Day(a.since) \in Nat /\ Day(a.asOf) \in Nat
  BY DEF Day
<1>2. IsFiniteSet(E)
  BY <1>1, FS_Interval
<1>3. IsFiniteSet(D)
  BY <1>2, FS_Subset
<1>4. DOMAIN shown = E /\ \A d \in E : shown[d] = IF d \in D THEN a.daily[d] ELSE [runs |-> 0, failed |-> 0]
  BY DEF Daily
<1>5. \A d \in D : a.daily[d].runs \in Nat /\ a.daily[d].failed \in Nat
  BY DEF DayRows
<1>6. D \subseteq E
  OBVIOUS
<1> HIDE DEF D, E, shown
<1>7. /\ \A d \in E : shown[d].runs = IF d \in D THEN a.daily[d].runs ELSE 0
      /\ \A d \in E : shown[d].failed = IF d \in D THEN a.daily[d].failed ELSE 0
  BY <1>4
<1>8. fr \in [D -> Nat] /\ gr \in [E -> Nat] /\ \A d \in E : gr[d] = IF d \in D THEN fr[d] ELSE 0
  BY <1>5, <1>6, <1>7
<1>9. ff \in [D -> Nat] /\ gf \in [E -> Nat] /\ \A d \in E : gf[d] = IF d \in D THEN ff[d] ELSE 0
  BY <1>5, <1>6, <1>7
<1>10. PICK it : Adds(it, fr, D) /\ RunsOn(a.daily) = it[D]
  BY <1>3, RunsAreSum DEF D
<1>11. PICK jt : Adds(jt, gr, E) /\ RunsOn(shown) = jt[E]
  <2>1. PICK jt : Adds(jt, [d \in DOMAIN shown |-> shown[d].runs], DOMAIN shown) /\ RunsOn(shown) = jt[DOMAIN shown]
    BY <1>2, <1>4, RunsAreSum
  <2>2. QED
    BY <1>4, <2>1
<1>12. PICK kt : Adds(kt, ff, D) /\ FailedOn(a.daily) = kt[D]
  BY <1>3, FailuresAreSum DEF D
<1>13. PICK lt : Adds(lt, gf, E) /\ FailedOn(shown) = lt[E]
  <2>1. PICK lt : Adds(lt, [d \in DOMAIN shown |-> shown[d].failed], DOMAIN shown) /\ FailedOn(shown) = lt[DOMAIN shown]
    BY <1>2, <1>4, FailuresAreSum
  <2>2. QED
    BY <1>4, <2>1
<1> HIDE DEF fr, gr, ff, gf
<1>14. jt[E] = it[D]
  BY <1>2, <1>6, <1>8, <1>10, <1>11, SumsAgree
<1>15. lt[E] = kt[D]
  BY <1>2, <1>6, <1>9, <1>12, <1>13, SumsAgree
<1>16. QED
  BY <1>10, <1>11, <1>12, <1>13, <1>14, <1>15 DEF shown

(***************************************************************************)
(* The metrics of the administration pages                                  *)
(***************************************************************************)
FiltersThere == [days: Periods, office: Orgs \cup {None}, age: {15, 30}, sort: {"name", "minutes"} \X {"asc", "desc"}]

UsageOf(f, u) == u \in Seq(UsageRows) /\ (f.office /= None => \A i \in DOMAIN u : u[i].office = f.office)

FiguresOf(f, a) ==
  /\ a.of = f /\ a.since \in Nat /\ a.asOf \in Nat /\ a.asOf - a.since = 2 * f.days /\ UsageOf(f, a.usage)
  /\ DOMAIN a.daily \subseteq Day(a.since)..Day(a.asOf) /\ \A d \in DOMAIN a.daily : a.daily[d] \in DayRows

ReadingOf(f, r) ==
  /\ r.window.since \in Nat /\ r.window.asOf \in Nat /\ r.window.asOf - r.window.since = 2 * f.days
  /\ UsageOf(f, r.usage)

QueryOf(f, q) ==
  /\ DOMAIN q = {"data", "reading", "failed"}
  /\ q.data /= None => FiguresOf(f, q.data)
  /\ q.reading /= None => ReadingOf(f, q.reading)

QueriesOf(s) == \A f \in DOMAIN s : f \in FiltersThere /\ QueryOf(f, s[f])

RowsKept(a) == a /= None => a.usage \in Seq(UsageRows)

UsageInv ==
  /\ today \in Nat /\ FirstTime <= today /\ recorded \in Seq(RunsRecorded)
  /\ tab \in MetricTabs \cup {"elsewhere"} /\ usageView \in {"Offices", "Jobs", "Cost"}
  /\ filters \in FiltersThere /\ QueriesOf(summaries) /\ RowsKept(lastAnswer)

LEMMA FirstFilters == ASSUME AdminUsageAssumption PROVE NewFilters \in FiltersThere
<1>1. Periods \in SUBSET (0..FirstTime) /\ Periods /= {} /\ FirstTime \in Nat
  <2>1. FirstTime \in Nat /\ Periods /= {} /\ \A d \in Periods : d \in Nat /\ 2 * d <= FirstTime
    BY DEF AdminUsageAssumption
  <2>2. \A d \in Periods : d \in 0..FirstTime
    BY <2>1
  <2>3. QED
    BY <2>1, <2>2
<1>2. \E m \in Periods : \A k \in Periods : k <= m
  BY <1>1, GreatestNumber
<1>3. NewFilters.days \in Periods
  BY <1>2 DEF NewFilters
<1>4. <<"minutes", "desc">> \in {"name", "minutes"} \X {"asc", "desc"}
  OBVIOUS
<1>5. QED
  BY <1>3, <1>4 DEF NewFilters, FiltersThere

LEMMA WindowAsked ==
  ASSUME AdminUsageAssumption, today \in Nat, FirstTime <= today, NEW f \in FiltersThere
  PROVE  today - 2 * f.days \in Nat /\ today - (today - 2 * f.days) = 2 * f.days
<1>1. f.days \in Nat /\ 2 * f.days <= FirstTime /\ FirstTime \in Nat
  BY DEF AdminUsageAssumption, FiltersThere
<1>2. QED
  BY <1>1

LEMMA ReadingBegan ==
  ASSUME AdminUsageAssumption, today \in Nat, FirstTime <= today, recorded \in Seq(RunsRecorded), NEW f \in FiltersThere
  PROVE  ReadingOf(f, Began(f))
<1> DEFINE w == [since |-> today - 2 * f.days, asOf |-> today, office |-> f.office]
<1>1. w.since \in Nat /\ w.asOf \in Nat /\ w.asOf - w.since = 2 * f.days /\ w.office = f.office
  BY WindowAsked
<1>2. Began(f) = [window |-> w, usage |-> Usage(w)]
  BY DEF Began
<1> HIDE DEF w
<1>3. PICK v : v = w
  OBVIOUS
<1>4. UsageOf(f, Usage(v))
  <2>1. /\ Usage(v) \in Seq(UsageRows)
        /\ v.office /= None => \A i \in DOMAIN Usage(v) : Usage(v)[i].office = v.office
    BY UsageIsRows
  <2>2. QED
    BY <1>1, <1>3, <2>1 DEF UsageOf
<1>5. Began(f).window = v /\ Began(f).usage = Usage(v)
  BY <1>2, <1>3
<1>6. QED
  BY <1>1, <1>3, <1>4, <1>5 DEF ReadingOf

LEMMA AnswerRead ==
  ASSUME recorded \in Seq(RunsRecorded), NEW f \in FiltersThere, NEW r, ReadingOf(f, r)
  PROVE  FiguresOf(f, Answer(f, r))
<1> DEFINE w == r.window
           a == Answer(f, r)
<1>1. a.of = f /\ a.since = w.since /\ a.asOf = w.asOf /\ a.usage = r.usage /\ a.daily = DailyRows(w)
  BY DEF Answer
<1>2. w.since \in Nat /\ w.asOf \in Nat /\ w.asOf - w.since = 2 * f.days /\ UsageOf(f, r.usage)
  BY DEF ReadingOf
<1> HIDE DEF w, a
<1>3. /\ DOMAIN DailyRows(w) \subseteq Day(w.since)..Day(w.asOf)
      /\ \A d \in DOMAIN DailyRows(w) : DailyRows(w)[d] \in DayRows
  BY <1>2, DaysOfWindow
<1>4. FiguresOf(f, a)
  BY <1>1, <1>2, <1>3 DEF FiguresOf
<1>5. QED
  BY <1>4 DEF a

LEMMA QueryPut ==
  ASSUME NEW s, QueriesOf(s), NEW f \in FiltersThere, NEW q, QueryOf(f, q)
  PROVE  QueriesOf(Put(s, f, q))
<1>1. DOMAIN Put(s, f, q) = DOMAIN s \cup {f} /\ \A g \in DOMAIN s \cup {f} : Put(s, f, q)[g] = IF g = f THEN q ELSE s[g]
  BY DEF Put
<1>2. QED
  BY <1>1 DEF QueriesOf

LEMMA NoQuery == ASSUME NEW f PROVE QueryOf(f, EmptySummary)
  BY DEF QueryOf, EmptySummary

\* A query whose answer is awaited
LEMMA QueryAsked ==
  ASSUME NEW f, NEW q, QueryOf(f, q), NEW r, ReadingOf(f, r)
  PROVE  QueryOf(f, [q EXCEPT !.reading = r])
<1> DEFINE p == [q EXCEPT !.reading = r]
<1>1. DOMAIN q = {"data", "reading", "failed"} /\ (q.data /= None => FiguresOf(f, q.data))
  BY DEF QueryOf
<1>2. DOMAIN p = DOMAIN q /\ p.data = q.data /\ p.reading = r
  BY <1>1
<1> HIDE DEF p
<1>3. QueryOf(f, p)
  BY <1>1, <1>2 DEF QueryOf
<1>4. QED
  BY <1>3 DEF p

LEMMA QueriesAsked ==
  ASSUME AdminUsageAssumption, today \in Nat, FirstTime <= today, recorded \in Seq(RunsRecorded),
         NEW f \in FiltersThere, NEW s, QueriesOf(s)
  PROVE  QueriesOf(AskIn(s, f))
<1> DEFINE q == IF f \in DOMAIN s THEN s[f] ELSE EmptySummary
<1>1. QueryOf(f, q)
  BY NoQuery DEF QueriesOf
<1>2. PICK r : r = Began(f) /\ ReadingOf(f, r)
  BY ReadingBegan
<1>3. AskIn(s, f) = IF q.reading /= None THEN s ELSE Put(s, f, [q EXCEPT !.reading = r])
  BY <1>2 DEF AskIn
<1> HIDE DEF q
<1>4. PICK p : p = q
  OBVIOUS
<1>5. QueryOf(f, [p EXCEPT !.reading = r])
  BY <1>1, <1>2, <1>4, QueryAsked
<1>6. QueriesOf(Put(s, f, [p EXCEPT !.reading = r]))
  BY <1>5, QueryPut
<1>7. QED
  BY <1>3, <1>4, <1>6

LEMMA QueriesOnMount ==
  ASSUME AdminUsageAssumption, today \in Nat, FirstTime <= today, recorded \in Seq(RunsRecorded),
         NEW f \in FiltersThere, NEW s, QueriesOf(s)
  PROVE  QueriesOf(ReadOnMount(s, f))
  BY QueriesAsked DEF ReadOnMount

LEMMA SummaryOf == ASSUME QueriesOf(summaries), NEW f PROVE QueryOf(f, Summary(f))
  BY NoQuery DEF Summary, QueriesOf

LEMMA RowsOfData == ASSUME UsageInv PROVE RowsKept(Data)
<1>1. QueryOf(filters, Summary(filters))
  BY SummaryOf DEF UsageInv
<1>2. RowsKept(Summary(filters).data)
  BY <1>1 DEF QueryOf, FiguresOf, UsageOf, RowsKept
<1>3. QED
  BY <1>2 DEF Data, UsageInv

\* From the filters, their queries and the clock to what is shown
LEMMA UsageInvShown == ASSUME AdminUsageAssumption, UsageInv PROVE FiguresTrue
<1>1. tab \in MetricTabs \cup {"elsewhere"} /\ usageView \in {"Offices", "Jobs", "Cost"} /\ filters.days \in Periods
      /\ filters.office \in Orgs \cup {None}
  BY DEF UsageInv, FiltersThere
<1>2. CASE ~FiguresShown
  BY <1>1, <1>2 DEF FiguresTrue, AdminTypeOK, FiguresOfFilters, NothingLeftOut
<1>3. CASE FiguresShown
  <2>1. Summary(filters).data /= None /\ Data = Summary(filters).data
    BY <1>3 DEF FiguresShown, LoadingFigures, Data
  <2>2. QueryOf(filters, Summary(filters))
    BY SummaryOf DEF UsageInv
  <2>3. PICK a : a = Data
    OBVIOUS
  <2>4. FiguresOf(filters, a)
    BY <2>1, <2>2, <2>3 DEF QueryOf
  <2>5. /\ a.of = filters /\ a.asOf - a.since = 2 * filters.days /\ a.usage \in Seq(UsageRows)
        /\ filters.office /= None => \A i \in DOMAIN a.usage : a.usage[i].office = filters.office
    BY <2>4 DEF FiguresOf, UsageOf
  <2>6. RunsOn(Daily(a)) = RunsOn(a.daily) /\ FailedOn(Daily(a)) = FailedOn(a.daily)
    BY <2>4, DaysAddUp DEF FiguresOf
  <2>7. /\ Len(ChartOffices(a.usage)) <= TopShares + 1
        /\ \A i \in DOMAIN ChartOffices(a.usage) : ChartOffices(a.usage)[i].minutes > 0
        /\ Total(ChartOffices(a.usage)) = Total(a.usage)
    BY <2>5, ChartAddsUp
  <2>8. AdminTypeOK
    BY <1>1, <2>3, <2>7 DEF AdminTypeOK
  <2>9. FiguresOfFilters
    BY <2>3, <2>5 DEF FiguresOfFilters
  <2>10. NothingLeftOut
    BY <2>3, <2>6, <2>7 DEF NothingLeftOut
  <2>11. QED
    BY <2>8, <2>9, <2>10 DEF FiguresTrue
<1>4. QED
  BY <1>2, <1>3

LEMMA UsageInitInv == ASSUME AdminUsageAssumption, AdminUsageInit PROVE UsageInv
<1>1. today \in Nat /\ FirstTime <= today /\ FirstTime \in Nat
  BY DEF AdminUsageAssumption, AdminUsageInit
<1>2. recorded \in Seq(RunsRecorded)
  <2> DEFINE R == [office: Orgs, at: 0..FirstTime, minutes: Nat, failed: BOOLEAN, over: BOOLEAN]
  <2>1. R \subseteq RunsRecorded
    BY DEF RunsRecorded
  <2>2. recorded \in Seq(R)
    BY DEF AdminUsageAssumption, AdminUsageInit
  <2> HIDE DEF R
  <2>3. QED
    BY <2>1, <2>2, SeqMonotonic
<1>3. NewFilters \in FiltersThere
  BY FirstFilters
<1>4. PICK r : r = Began(NewFilters) /\ ReadingOf(NewFilters, r)
  BY <1>1, <1>2, <1>3, ReadingBegan
<1>5. QueryOf(NewFilters, [EmptySummary EXCEPT !.reading = r])
  BY <1>4, NoQuery, QueryAsked
<1>6. summaries = [f \in {NewFilters} |-> [EmptySummary EXCEPT !.reading = r]]
  BY <1>4 DEF AdminUsageInit
<1>7. QueriesOf(summaries)
  BY <1>3, <1>5, <1>6 DEF QueriesOf
<1>8. filters = NewFilters /\ lastAnswer = None /\ tab = "overview" /\ usageView = "Offices"
  BY DEF AdminUsageInit
<1>9. RowsKept(lastAnswer)
  BY <1>8 DEF RowsKept
<1>10. QED
  BY <1>1, <1>2, <1>3, <1>7, <1>8, <1>9 DEF UsageInv, MetricTabs

LEMMA UsageSame == ASSUME UsageInv, UNCHANGED usageVars PROVE UsageInv'
  BY DEF UsageInv, usageVars, QueriesOf, RowsKept

LEMMA UsageTimePasses == ASSUME AdminUsageAssumption, UsageInv, TimePasses PROVE UsageInv'
<1>1. today \in Nat /\ FirstTime \in Nat /\ FirstTime <= today /\ today' = today + 1
  BY DEF UsageInv, TimePasses, AdminUsageAssumption
<1>2. today' \in Nat /\ FirstTime <= today'
  BY <1>1
<1>3. QED
  BY <1>2 DEF UsageInv, TimePasses

LEMMA UsageSubmitted == ASSUME AdminUsageAssumption, UsageInv, Submitted PROVE UsageInv'
<1>1. PICK o \in Orgs : recorded' = Append(recorded, [office |-> o, at |-> today, minutes |-> 0, failed |-> FALSE, over |-> FALSE])
  BY DEF Submitted
<1> DEFINE r == [office |-> o, at |-> today, minutes |-> 0, failed |-> FALSE, over |-> FALSE]
<1>2. r \in RunsRecorded /\ recorded \in Seq(RunsRecorded)
  BY DEF UsageInv, RunsRecorded
<1>3. recorded' \in Seq(RunsRecorded)
  <2> HIDE DEF r
  <2>1. recorded' = Append(recorded, r)
    BY <1>1 DEF r
  <2>2. QED
    BY <1>2, <2>1, AppendProperties
<1>4. QED
  BY <1>3 DEF UsageInv, Submitted

LEMMA UsageRunOver == ASSUME AdminUsageAssumption, UsageInv, RunOver PROVE UsageInv'
<1>1. PICK i \in DOMAIN recorded, m \in Minutes, b \in BOOLEAN :
        recorded' = [recorded EXCEPT ![i].over = TRUE, ![i].minutes = m, ![i].failed = b]
  BY DEF RunOver
<1>2. m \in Nat
  BY DEF AdminUsageAssumption
<1>3. recorded \in Seq(RunsRecorded) /\ recorded[i] \in RunsRecorded
  BY DEF UsageInv
<1> DEFINE r == [recorded[i] EXCEPT !.over = TRUE, !.minutes = m, !.failed = b]
<1>4. r \in RunsRecorded
  BY <1>2, <1>3 DEF RunsRecorded
<1>5. recorded' = [recorded EXCEPT ![i] = r]
  BY <1>1, <1>3
<1> HIDE DEF r
<1>6. recorded' \in Seq(RunsRecorded)
  BY <1>3, <1>4, <1>5, ExceptSeq
<1>7. QED
  BY <1>6 DEF UsageInv, RunOver

LEMMA UsageSummaryArrives == ASSUME UsageInv, SummaryArrives PROVE UsageInv'
<1>1. PICK f \in DOMAIN summaries :
        /\ summaries[f].reading /= None
        /\ summaries' = Put(summaries, f, [data |-> Answer(f, summaries[f].reading), reading |-> None, failed |-> FALSE])
        /\ lastAnswer' = IF tab \in MetricTabs /\ f = filters THEN summaries'[f].data ELSE lastAnswer
        /\ UNCHANGED <<today, recorded, tab, usageView, filters>>
  BY DEF SummaryArrives
<1>2. f \in FiltersThere /\ ReadingOf(f, summaries[f].reading) /\ recorded \in Seq(RunsRecorded)
  BY <1>1 DEF UsageInv, QueriesOf, QueryOf
<1>3. PICK a : a = Answer(f, summaries[f].reading) /\ FiguresOf(f, a)
  BY <1>2, AnswerRead
<1> DEFINE q == [data |-> a, reading |-> None, failed |-> FALSE]
<1>4. QueryOf(f, q) /\ q.data = a
  BY <1>3 DEF QueryOf
<1>5. summaries' = Put(summaries, f, q)
  BY <1>1, <1>3
<1> HIDE DEF q
<1>6. QueriesOf(summaries')
  BY <1>2, <1>4, <1>5, QueryPut DEF UsageInv
<1>7. summaries'[f] = q
  BY <1>5 DEF Put
<1>8. RowsKept(lastAnswer')
  BY <1>1, <1>3, <1>4, <1>7 DEF RowsKept, FiguresOf, UsageOf, UsageInv
<1>9. QED
  BY <1>1, <1>6, <1>8 DEF UsageInv

LEMMA UsageSummaryFails == ASSUME UsageInv, SummaryFails PROVE UsageInv'
<1>1. PICK f \in DOMAIN summaries :
        /\ summaries' = [summaries EXCEPT ![f].reading = None, ![f].failed = TRUE]
        /\ UNCHANGED <<today, recorded, tab, usageView, filters, lastAnswer>>
  BY DEF SummaryFails
<1>2. QueryOf(f, summaries[f]) /\ QueriesOf(summaries)
  BY DEF UsageInv, QueriesOf
<1>3. PICK z : z = summaries[f]
  OBVIOUS
<1> DEFINE q == [z EXCEPT !.reading = None, !.failed = TRUE]
<1>4. DOMAIN summaries' = DOMAIN summaries /\ \A g \in DOMAIN summaries : summaries'[g] = IF g = f THEN q ELSE summaries[g]
  BY <1>1, <1>3
<1>5. DOMAIN z = {"data", "reading", "failed"} /\ (z.data /= None => FiguresOf(f, z.data))
  BY <1>2, <1>3 DEF QueryOf
<1>6. DOMAIN q = DOMAIN z /\ q.data = z.data /\ q.reading = None
  BY <1>5
<1> HIDE DEF q
<1>7. QueryOf(f, q)
  BY <1>5, <1>6 DEF QueryOf
<1>8. QueriesOf(summaries')
  BY <1>2, <1>4, <1>7 DEF QueriesOf
<1>9. QED
  BY <1>1, <1>8 DEF UsageInv

\* Another choice on the page that is open
LEMMA ChosenFigures ==
  ASSUME AdminUsageAssumption, UsageInv, NEW f \in FiltersThere, Choose(f)
  PROVE  filters' \in FiltersThere /\ QueriesOf(summaries') /\ RowsKept(lastAnswer')
<1>1. QueriesOf(AskIn(summaries, f)) /\ QueriesOf(summaries)
  BY QueriesAsked DEF UsageInv
<1>2. QueriesOf(summaries')
  BY <1>1 DEF Choose, AskSummary
<1>3. QueryOf(f, Summary(f))
  BY SummaryOf DEF UsageInv
<1>4. RowsKept(Summary(f).data)
  BY <1>3 DEF QueryOf, FiguresOf, UsageOf, RowsKept
<1>5. RowsKept(lastAnswer')
  BY <1>4, RowsOfData DEF Choose
<1>6. QED
  BY <1>2, <1>5 DEF Choose

\* Another page
LEMMA EnteredFigures ==
  ASSUME AdminUsageAssumption, UsageInv, NEW t \in MetricTabs \cup {"elsewhere"}, NEW s, QueriesOf(s), Enter(t, s),
         UNCHANGED <<today, recorded>>
  PROVE  UsageInv'
<1>1. NewFilters \in FiltersThere
  BY FirstFilters
<1>2. QueriesOf(ReadOnMount(s, NewFilters))
  BY <1>1, QueriesOnMount DEF UsageInv
<1>3. QueriesOf(summaries')
  BY <1>2 DEF Enter
<1>4. QueryOf(NewFilters, Summary(NewFilters))
  BY SummaryOf DEF UsageInv
<1>5. RowsKept(Summary(NewFilters).data) /\ RowsKept(None)
  BY <1>4 DEF QueryOf, FiguresOf, UsageOf, RowsKept
<1>6. RowsKept(lastAnswer')
  BY <1>5 DEF Enter
<1>7. filters' \in FiltersThere /\ tab' \in MetricTabs \cup {"elsewhere"} /\ usageView' \in {"Offices", "Jobs", "Cost"}
  BY <1>1 DEF Enter
<1>8. QED
  BY <1>3, <1>6, <1>7 DEF UsageInv

LEMMA UsageEnterTab == ASSUME AdminUsageAssumption, UsageInv, EnterTab PROVE UsageInv'
<1>1. PICK t \in MetricTabs \cup {"elsewhere"} : Enter(t, summaries)
  BY DEF EnterTab
<1>2. QueriesOf(summaries) /\ UNCHANGED <<today, recorded>>
  BY DEF UsageInv, EnterTab
<1>3. QED
  BY <1>1, <1>2, EnteredFigures

LEMMA UsageChoosePeriod == ASSUME AdminUsageAssumption, UsageInv, ChoosePeriod PROVE UsageInv'
<1>1. PICK d \in Periods : Choose([filters EXCEPT !.days = d])
  BY DEF ChoosePeriod
<1>2. [filters EXCEPT !.days = d] \in FiltersThere
  BY DEF UsageInv, FiltersThere
<1>3. filters' \in FiltersThere /\ QueriesOf(summaries') /\ RowsKept(lastAnswer')
  BY <1>1, <1>2, ChosenFigures
<1>4. QED
  BY <1>3 DEF UsageInv, ChoosePeriod

LEMMA UsageChooseOffice == ASSUME AdminUsageAssumption, UsageInv, ChooseOffice PROVE UsageInv'
<1>1. PICK o \in OfficesOffered :
        IF tab = "usage"
        THEN Choose([filters EXCEPT !.office = o]) /\ usageView' = "Jobs" /\ tab' = tab
        ELSE Enter("usage", AskSummary([filters EXCEPT !.office = o]))
  BY DEF ChooseOffice
<1>2. o \in Orgs \cup {None}
  <2>1. CASE Data = None
    BY <2>1 DEF OfficesOffered
  <2>2. CASE Data /= None
    <3>1. PICK u : u = Data.usage
      OBVIOUS
    <3>2. u \in Seq(UsageRows)
      BY <2>2, <3>1, RowsOfData DEF RowsKept
    <3>3. \A i \in DOMAIN u : u[i] \in UsageRows
      BY <3>2
    <3>4. \A i \in DOMAIN u : u[i].office \in Orgs
      BY <3>3 DEF UsageRows
    <3>5. o = None \/ o \in {u[i].office : i \in DOMAIN u}
      BY <2>2, <3>1 DEF OfficesOffered
    <3>6. QED
      BY <3>4, <3>5
  <2>3. QED
    BY <2>1, <2>2
<1> DEFINE f == [filters EXCEPT !.office = o]
<1>3. f \in FiltersThere
  BY <1>2 DEF UsageInv, FiltersThere
<1>4. UNCHANGED <<today, recorded>>
  BY DEF ChooseOffice
<1> HIDE DEF f
<1>5. CASE tab = "usage"
  <2>1. Choose(f) /\ usageView' = "Jobs" /\ tab' = tab
    BY <1>1, <1>5 DEF f
  <2>2. filters' \in FiltersThere /\ QueriesOf(summaries') /\ RowsKept(lastAnswer')
    BY <1>3, <2>1, ChosenFigures
  <2>3. QED
    BY <1>4, <2>1, <2>2 DEF UsageInv
<1>6. CASE tab /= "usage"
  <2>1. Enter("usage", AskSummary(f))
    BY <1>1, <1>6 DEF f
  <2>2. QueriesOf(AskSummary(f))
    BY <1>3, QueriesAsked DEF UsageInv, AskSummary
  <2>3. PICK s : s = AskSummary(f)
    OBVIOUS
  <2>4. "usage" \in MetricTabs \cup {"elsewhere"}
    BY DEF MetricTabs
  <2>5. QED
    BY <1>4, <2>1, <2>2, <2>3, <2>4, EnteredFigures
<1>7. QED
  BY <1>5, <1>6

LEMMA UsageChooseAge == ASSUME AdminUsageAssumption, UsageInv, ChooseAge PROVE UsageInv'
<1>1. PICK a \in {15, 30} : Choose([filters EXCEPT !.age = a])
  BY DEF ChooseAge
<1>2. [filters EXCEPT !.age = a] \in FiltersThere
  BY DEF UsageInv, FiltersThere
<1>3. filters' \in FiltersThere /\ QueriesOf(summaries') /\ RowsKept(lastAnswer')
  BY <1>1, <1>2, ChosenFigures
<1>4. QED
  BY <1>3 DEF UsageInv, ChooseAge

LEMMA UsageChooseView == ASSUME UsageInv, ChooseView PROVE UsageInv'
  BY DEF UsageInv, ChooseView

LEMMA UsageChangeTaskSort == ASSUME AdminUsageAssumption, UsageInv, ChangeTaskSort PROVE UsageInv'
<1>1. PICK s \in {<<"name", "asc">>, <<"minutes", "desc">>} : Choose([filters EXCEPT !.sort = s])
  BY DEF ChangeTaskSort
<1>2. s \in {"name", "minutes"} \X {"asc", "desc"}
  <2>1. <<"name", "asc">> \in {"name", "minutes"} \X {"asc", "desc"} /\ <<"minutes", "desc">> \in {"name", "minutes"} \X {"asc", "desc"}
    OBVIOUS
  <2>2. s = <<"name", "asc">> \/ s = <<"minutes", "desc">>
    OBVIOUS
  <2>3. QED
    BY <2>1, <2>2, Zenon
<1>3. [filters EXCEPT !.sort = s] \in FiltersThere
  BY <1>2 DEF UsageInv, FiltersThere
<1>4. filters' \in FiltersThere /\ QueriesOf(summaries') /\ RowsKept(lastAnswer')
  BY <1>1, <1>3, ChosenFigures
<1>5. QED
  BY <1>4 DEF UsageInv, ChangeTaskSort

LEMMA UsageTurnDirection == ASSUME AdminUsageAssumption, UsageInv, TurnDirection PROVE UsageInv'
<1> DEFINE p == filters.sort
           s == [p EXCEPT ![2] = IF @ = "asc" THEN "desc" ELSE "asc"]
<1>1. filters \in FiltersThere /\ p \in {"name", "minutes"} \X {"asc", "desc"}
  BY DEF UsageInv, FiltersThere
<1>2. s \in {"name", "minutes"} \X {"asc", "desc"}
  <2>1. PICK x \in {"name", "minutes"}, y \in {"asc", "desc"} : p = <<x, y>>
    BY <1>1
  <2>2. s = <<x, IF y = "asc" THEN "desc" ELSE "asc">>
    BY <2>1
  <2> HIDE DEF s
  <2>3. QED
    BY <2>2
<1>3. [filters EXCEPT !.sort[2] = IF @ = "asc" THEN "desc" ELSE "asc"] = [filters EXCEPT !.sort = s]
  BY <1>1 DEF FiltersThere
<1>4. [filters EXCEPT !.sort = s] \in FiltersThere
  <2> HIDE DEF s, p
  <2>1. QED
    BY <1>1, <1>2 DEF FiltersThere
<1>5. Choose([filters EXCEPT !.sort = s])
  BY <1>3 DEF TurnDirection
<1> HIDE DEF s
<1>6. filters' \in FiltersThere /\ QueriesOf(summaries') /\ RowsKept(lastAnswer')
  BY <1>4, <1>5, ChosenFigures
<1>7. QED
  BY <1>6 DEF UsageInv, TurnDirection

LEMMA UsageRefreshMetrics == ASSUME AdminUsageAssumption, UsageInv, RefreshMetrics PROVE UsageInv'
<1>1. QueriesOf(AskSummary(filters))
  BY QueriesAsked DEF UsageInv, AskSummary
<1>2. QED
  BY <1>1 DEF UsageInv, RefreshMetrics

LEMMA UsageStep == AdminUsageAssumption /\ UsageInv /\ [AdminUsageNext]_usageVars => UsageInv'
<1> SUFFICES ASSUME AdminUsageAssumption, UsageInv, [AdminUsageNext]_usageVars PROVE UsageInv'
  OBVIOUS
<1>1. CASE UNCHANGED usageVars
  BY <1>1, UsageSame
<1>2. CASE TimePasses
  BY <1>2, UsageTimePasses
<1>3. CASE Submitted
  BY <1>3, UsageSubmitted
<1>4. CASE RunOver
  BY <1>4, UsageRunOver
<1>5. CASE SummaryArrives
  BY <1>5, UsageSummaryArrives
<1>6. CASE SummaryFails
  BY <1>6, UsageSummaryFails
<1>7. CASE EnterTab
  BY <1>7, UsageEnterTab
<1>8. CASE ChoosePeriod
  BY <1>8, UsageChoosePeriod
<1>9. CASE ChooseOffice
  BY <1>9, UsageChooseOffice
<1>10. CASE ChooseAge
  BY <1>10, UsageChooseAge
<1>11. CASE ChooseView
  BY <1>11, UsageChooseView
<1>12. CASE ChangeTaskSort
  BY <1>12, UsageChangeTaskSort
<1>13. CASE TurnDirection
  BY <1>13, UsageTurnDirection
<1>14. CASE RefreshMetrics
  BY <1>14, UsageRefreshMetrics
<1>15. QED
  BY <1>1, <1>2, <1>3, <1>4, <1>5, <1>6, <1>7, <1>8, <1>9, <1>10, <1>11, <1>12, <1>13, <1>14 DEF AdminUsageNext

\* Whatever is chosen, asked for, answered late or not at all, the figures on show are those of
\* the filters beside them; the shares of the chart come to the minutes above it and the days drawn
\* to the runs and failures counted, at every midnight (the pages of OperationsDashboard.tsx).
THEOREM FiguresAddUp == AdminUsageSpec => []FiguresTrue
<1>1. AdminUsageSpec => []UsageInv
  BY AdminUsageAssumption, UsageInitInv, UsageStep, PTL DEF AdminUsageSpec
<1>2. UsageInv => FiguresTrue
  BY AdminUsageAssumption, UsageInvShown
<1>3. QED
  BY <1>1, <1>2, PTL

\* What the pages of administration and the pickers show is what was chosen: ChoicesShown is
\* FiguresTrue and PickedIsShown.
THEOREM ChoicesTrue == AdminUsageSpec /\ FilePickersSpec => []ChoicesShown
<1>1. FiguresTrue /\ PickedIsShown => ChoicesShown
  BY DEF ChoicesShown
<1>2. QED
  BY <1>1, FiguresAddUp, PickedFromWhatIsShown, PTL
=============================================================================
