------------------------------ MODULE ScriptForm ------------------------------
(***************************************************************************)
(* The editor of one script (ScriptForm.tsx with its command editor, role   *)
(* picker, release JAR picker and schedule switch), the draft it keeps in   *)
(* the browser's storage, and the PUT requests it sends.                     *)
(*                                                                          *)
(* The editor is opened and left any number of times; leaving it unmounts   *)
(* the form and only the stored draft survives.  A name is a pair of a stem *)
(* and a number (1: no number).  Description, run hint, values of variables *)
(* and the blanks around a path are left out: no rule tells them apart.     *)
(* Several scripts and their editors are the subject of ScriptsWorkspace.   *)
(***************************************************************************)
EXTENDS SchedulePresets, Sequences, Browser

CONSTANTS
  Scripts,        \* saved scripts of the versions that can be edited
  Broken,         \* the page that is shown when the form throws
  Paths,          \* paths that may be typed or picked in the repository
  RuntimeOf,      \* runtime that the extension of a path names, or None
  TakenNames,     \* existingNames: names of the office's scripts
  EnvNames,       \* names typed for environment variables, "" among them
  ReservedNames,  \* names that are reserved or read like secrets
  EnvLimit,       \* 20 environment variables
  Roles,          \* CDA roles
  Crons,          \* bound: cron texts that may be typed
  Times,          \* bound: times of day that may be chosen
  MaxEdits        \* bound: changes made by the user

Blank   == ""
JarPath == "release-jars/tool.jar"

ASSUME ScriptFormAssumption ==
  /\ RuntimeOf \in [Paths -> {"python", "java", "shell", None}]
  /\ Times \subseteq Time
  /\ Crons \subseteq Cron \cup {NoCron}
  /\ {Blank, JarPath, "typed", "New job"} \cup Paths \subseteq STRING
  /\ Blank \in EnvNames /\ EnvLimit \in Nat /\ IsFiniteSet(TakenNames)
  /\ MaxEdits \in Nat

VARIABLES
  saved,      \* the script as the server and the cached list have it
  draft,      \* the draft in localStorage
  ui,         \* state of the mounted form, None when it is not mounted
  modal,      \* the command editor's own draft
  saving,     \* the form of a save under way
  switch,     \* the schedule switch: its timer or its request
  edits,      \* changes made so far
  lastPath    \* history: the path last shown for each source

formVars == <<saved, draft, ui, modal, saving, switch, edits, lastPath>>

NoName    == <<Blank, 0>>
TypedName == <<"typed", 1>>
NoMinute  == -1
BadMinute == HourMinutes
Sources == {"github_file", "command"}

Form == [version: 2..4, name: STRING \X Nat, active: BOOLEAN,
         source: Sources, path: Paths \cup {Blank, JarPath},
         runtime: {"python", "java", "shell"}, mode: {"arguments", "shell"},
         shell: {None, "", "typed", "preview"}, args: {"none", "some"},
         jar: BOOLEAN, env: Seq(EnvNames), roles: SUBSET Roles,
         enabled: BOOLEAN, type: {"manual", "hourly", "monthly", "cron"},
         minute: Minutes \cup {NoMinute, BadMinute}, cron: Cron \cup {NoCron},
         zone: {"UTC", ""}]

EmptyForm ==
  [version |-> 4, name |-> NoName, active |-> TRUE, source |-> "github_file",
   path |-> Blank, runtime |-> "python", mode |-> "arguments", shell |-> None,
   args |-> "none", jar |-> FALSE, env |-> <<>>, roles |-> {},
   enabled |-> FALSE, type |-> "manual", minute |-> 0, cron |-> NoCron,
   zone |-> "UTC"]

\* The state of a mounted form
FormStates ==
  [form: Form, roles: SUBSET Roles, paths: [Sources -> Paths \cup {Blank, JarPath}],
   controls: [preset: {"manual", "hourly", "daily", "monthly", "cron"}, time: Time, day: Days],
   suggested: STRING \X Nat, submitted: BOOLEAN,
   errors: SUBSET {"name", "environmentVariables", "commandMode", "shellCommand", "repoPath",
                   "scheduleType", "scheduleMinute", "scheduleCron", "scheduleTimezone"}]

ASSUME NoneIsNoForm == None \notin Form /\ {None, Broken} \cap FormStates = {}

InitialForm(script) == IF script = None THEN EmptyForm ELSE script

NoPaths == [s \in Sources |-> Blank]

(***************************************************************************)
(* Validation before a save                                                 *)
(***************************************************************************)
BadVariable(env, i) ==
  \/ env[i] = Blank
  \/ env[i] \in ReservedNames
  \/ \E k \in 1..(i - 1) : env[k] = env[i]

ScheduleErrors(f) ==
  {field \in {"scheduleType", "scheduleMinute", "scheduleCron", "scheduleTimezone"} :
     /\ f.type /= "manual"
     /\ CASE field = "scheduleType"   -> f.version < 4
          [] field = "scheduleMinute" -> f.type = "hourly" /\ f.minute \notin Minutes
          [] field = "scheduleCron"   -> /\ f.type \in {"cron", "monthly"}
                                         /\ \/ f.cron = NoCron
                                            \/ f.enabled /\ ~MeetsMinimumInterval(f.cron)
          [] OTHER                    -> f.zone = ""}

ValidateScriptForm(f) ==
  {field \in {"name"} : f.name = NoName}
    \cup {field \in {"environmentVariables"} :
            Len(f.env) > EnvLimit \/ \E i \in DOMAIN f.env : BadVariable(f.env, i)}
    \cup {field \in {"commandMode"} : f.mode = "shell" /\ f.version < 3}
    \cup {field \in {"shellCommand"} : f.mode = "shell" /\ f.shell \in {None, ""}}
    \cup {field \in {"repoPath"} : f.mode /= "shell" /\ f.path = Blank}
    \cup ScheduleErrors(f)

(***************************************************************************)
(* What the server takes (ExecutionOptions and ScriptBase)                  *)
(***************************************************************************)
AcceptsExecution(f) ==
  /\ f.jar => /\ f.version = 4 /\ f.runtime = "java"
              /\ f.source = "github_file" /\ f.mode = "arguments"
  /\ f.version = 2 => f.mode = "arguments" /\ f.shell = None
  /\ f.mode = "shell" => f.shell \notin {None, ""} /\ f.args = "none"
  /\ f.mode = "arguments" => f.shell = None /\ f.path /= Blank

\* Its spacing rule is stated by what it is for.
AcceptsSchedule(f) ==
  /\ f.version < 4 => ~f.enabled /\ f.type = "manual"
  /\ f.type = "monthly" => f.cron /= NoCron /\ Numeric(f.cron) /\ f.cron.day \in Days
  /\ f.enabled => /\ f.type /= "manual"
                  /\ f.type = "hourly" => f.minute \in Minutes
                  /\ f.type = "cron" => f.cron /= NoCron /\ Spaced(f.cron)

\* What is saved was taken by the server.
ASSUME ScriptsAssumption == \A s \in Scripts : s \in Form /\ AcceptsExecution(s) /\ AcceptsSchedule(s)

(***************************************************************************)
(* Mounting the form                                                        *)
(***************************************************************************)
\* The controls read the time and the day off the saved expression; a monthly
\* form without one makes the component throw.
Breaks(form) == SchedulePreset(form.type, form.cron) = "monthly" /\ form.cron = NoCron

Controls(form) ==
  LET preset == SchedulePreset(form.type, form.cron)
  IN [preset |-> preset,
      time |-> IF preset \in {"daily", "monthly"} THEN CronTime(form.cron) ELSE <<1, 0>>,
      day |-> IF preset = "monthly" THEN form.cron.day ELSE 1]

Mounted(form) ==
  [form |-> form, controls |-> Controls(form), roles |-> form.roles,
   paths |-> [NoPaths EXCEPT ![form.source] = form.path],
   suggested |-> InitialForm(saved).name, submitted |-> FALSE, errors |-> {}]

NoModal == None

FormInit ==
  /\ saved \in Scripts \cup {None}
  /\ draft = None /\ ui = None /\ modal = NoModal
  /\ saving = None /\ switch = None /\ edits = 0
  /\ lastPath = NoPaths

Open ==
  LET form == IF draft = None THEN InitialForm(saved) ELSE draft
  IN /\ ui = None /\ saving = None
     /\ ui' = IF Breaks(form) THEN Broken ELSE Mounted(form)
     /\ lastPath' = [NoPaths EXCEPT ![form.source] = form.path]
     /\ UNCHANGED <<saved, draft, modal, saving, switch, edits>>

\* Cancel, another script or tab, a reload of the page.  The switch's timer is
\* cleared; a request goes on.
Leave ==
  /\ ui /= None
  /\ ui' = None /\ modal' = NoModal
  /\ switch' = IF switch /= None /\ switch.pc = "timer" THEN None ELSE switch
  /\ UNCHANGED <<saved, draft, saving, edits, lastPath>>

Shown   == ui /= None /\ ui /= Broken
Pending == saving /= None \/ (switch /= None /\ switch.pc = "request")

\* The fields stay enabled while a save is under way (mutant).
EditingWhilePending ==
  /\ Shown /\ modal = NoModal
  /\ edits < MaxEdits /\ edits' = edits + 1

\* A change in the form itself, made while its fields are enabled.
Editing ==
  /\ Shown /\ ~Pending /\ modal = NoModal
  /\ edits < MaxEdits /\ edits' = edits + 1

\* The release JAR survives a change of source, runtime or mode (mutant).
KeepsJar(f) == f

WithoutUnfitJar(f) ==
  IF f.runtime /= "java" \/ f.source /= "github_file" \/ f.mode = "shell"
  THEN [f EXCEPT !.jar = FALSE] ELSE f

\* The errors stay those of the last attempt (mutant).
ChangeFormUnchecked(u, f) ==
  LET next == WithoutUnfitJar(f)
  IN /\ ui' = [u EXCEPT !.form = next]
     /\ draft' = next
     /\ lastPath' = [lastPath EXCEPT ![next.source] = next.path]

\* changeForm, in the form state u
ChangeForm(u, f) ==
  LET next == WithoutUnfitJar(f)
  IN /\ ui' = [u EXCEPT !.form = next,
                 !.errors = IF u.submitted THEN ValidateScriptForm(next) ELSE u.errors]
     /\ draft' = next
     /\ lastPath' = [lastPath EXCEPT ![next.source] = next.path]

Update(f) == ChangeForm(ui, f)

Idle == UNCHANGED <<saved, modal, saving, switch>>

(***************************************************************************)
(* Fields                                                                   *)
(***************************************************************************)
EditName ==
  /\ Editing /\ Idle
  /\ \E n \in {NoName, TypedName} \ {ui.form.name} : Update([ui.form EXCEPT !.name = n])

\* Outside the fieldset: it can be clicked while a save is under way.
Reactivate ==
  /\ Shown /\ modal = NoModal /\ ~ui.form.active
  /\ edits < MaxEdits /\ edits' = edits + 1
  /\ Update([ui.form EXCEPT !.active = TRUE])
  /\ Idle

\* The path of the source that is left is not remembered (mutant).
SwitchSourceForgets ==
  LET f == ui.form
      other == IF f.source = "command" THEN "github_file" ELSE "command"
  IN /\ Editing /\ Idle
     /\ Update([f EXCEPT !.source = other, !.path = ui.paths[other]])

\* changeSource
SwitchSource ==
  LET f == ui.form
      other == IF f.source = "command" THEN "github_file" ELSE "command"
  IN /\ Editing /\ Idle
     /\ ChangeForm([ui EXCEPT !.paths[f.source] = f.path],
                   [f EXCEPT !.source = other, !.path = ui.paths[other]])

PathShown == ui.form.mode /= "shell" /\ ~ui.form.jar

TypeCommandPath ==
  /\ Editing /\ Idle /\ PathShown /\ ui.form.source = "command"
  /\ \E p \in Paths \cup {Blank} : Update([ui.form EXCEPT !.path = p])

\* uniqueName
UniqueName(p) ==
  LET stem == IF p = Blank THEN "New job" ELSE p
      free == {k \in 1..(Cardinality(TakenNames) + 1) : <<stem, k>> \notin TakenNames}
  IN <<stem, CHOOSE k \in free : \A m \in free : k <= m>>

PickRepositoryPath ==
  LET f == ui.form
      suggest == saved = None /\ f.name \in {NoName, ui.suggested}
  IN /\ Editing /\ Idle /\ PathShown /\ f.source = "github_file"
     /\ \E p \in Paths \cup {Blank} :
          LET named == IF p = Blank THEN None ELSE RuntimeOf[p]
          IN ChangeForm([ui EXCEPT !.suggested = UniqueName(p)],
               [f EXCEPT !.path = p,
                         !.name = IF suggest THEN UniqueName(p) ELSE @,
                         !.runtime = IF named = None THEN @ ELSE named])

ChooseRuntime ==
  /\ Editing /\ Idle
  /\ ui.form.source = "github_file" /\ ui.form.mode = "arguments"
  /\ \E r \in {"python", "java", "shell"} \ {ui.form.runtime} :
       Update([ui.form EXCEPT !.runtime = r])

JarPickerShown ==
  /\ ui.form.runtime = "java" /\ ui.form.source = "github_file"
  /\ ui.form.mode = "arguments" /\ ui.form.version = 4

ChooseReleaseJar ==
  /\ Editing /\ Idle /\ JarPickerShown
  /\ \E jar \in {TRUE, FALSE} :
       /\ jar \/ ui.form.jar
       /\ Update([ui.form EXCEPT !.jar = jar, !.path = IF jar THEN JarPath ELSE Blank])

EditVariables ==
  LET env == ui.form.env
  IN /\ Editing /\ Idle
     /\ \/ Len(env) <= EnvLimit /\ Update([ui.form EXCEPT !.env = Append(@, Blank)])
        \/ \E i \in DOMAIN env, n \in EnvNames : Update([ui.form EXCEPT !.env[i] = n])
        \/ \E i \in DOMAIN env :
             Update([ui.form EXCEPT !.env =
                       SubSeq(env, 1, i - 1) \o SubSeq(env, i + 1, Len(env))])

\* RoleMultiSelect has a selection of its own, read from the form once.
ChangeRoles ==
  /\ Editing /\ Idle
  /\ \E r \in Roles :
       LET roles == IF r \in ui.roles THEN ui.roles \ {r} ELSE ui.roles \cup {r}
       IN ChangeForm([ui EXCEPT !.roles = roles], [ui.form EXCEPT !.roles = roles])

(***************************************************************************)
(* The command editor: a draft within the draft                             *)
(***************************************************************************)
OpenCommand ==
  LET f == ui.form
  IN /\ Shown /\ ~Pending /\ modal = NoModal
     /\ modal' = [mode |-> f.mode, shell |-> f.shell, args |-> f.args, valid |-> TRUE,
                  keptArgs |-> f.args, keptShell |-> IF f.shell = None THEN "" ELSE f.shell]
     /\ UNCHANGED <<saved, draft, ui, saving, switch, edits, lastPath>>

InCommand ==
  /\ modal /= NoModal
  /\ edits < MaxEdits /\ edits' = edits + 1
  /\ UNCHANGED <<saved, draft, ui, saving, switch, lastPath>>

\* The command typed so far starts the Bash text, when there is a target.
SwitchMode ==
  LET shell == modal.mode = "shell"
      kept == IF shell THEN [modal EXCEPT !.keptShell = IF @ = None THEN "" ELSE modal.shell]
              ELSE [modal EXCEPT !.keptArgs = modal.args]
      text == IF kept.keptShell /= "" THEN kept.keptShell
              ELSE IF ui.form.path /= Blank THEN "preview" ELSE ""
  IN /\ InCommand
     /\ ~shell => ~ui.form.jar
     /\ modal' = IF shell
                 THEN [kept EXCEPT !.mode = "arguments", !.shell = None,
                                   !.args = kept.keptArgs, !.valid = TRUE]
                 ELSE [kept EXCEPT !.mode = "shell", !.shell = text,
                                   !.args = "none", !.valid = text /= ""]

\* Text that does not parse leaves the arguments as they were.
TypeArguments ==
  /\ InCommand /\ modal.mode = "arguments"
  /\ \/ \E a \in {"none", "some"} : modal' = [modal EXCEPT !.args = a, !.valid = TRUE]
     \/ modal' = [modal EXCEPT !.valid = FALSE]

TypeShell ==
  /\ InCommand /\ modal.mode = "shell"
  /\ \E t \in {"", "typed"} : modal' = [modal EXCEPT !.shell = t, !.valid = t /= ""]

ApplyCommand ==
  /\ modal /= NoModal /\ modal.valid
  /\ Update([ui.form EXCEPT !.mode = modal.mode, !.shell = modal.shell, !.args = modal.args])
  /\ modal' = NoModal
  /\ UNCHANGED <<saved, saving, switch, edits>>

CancelCommand ==
  /\ modal /= NoModal /\ modal' = NoModal
  /\ UNCHANGED <<saved, draft, ui, saving, switch, edits, lastPath>>

(***************************************************************************)
(* The schedule                                                             *)
(***************************************************************************)
Scheduling == Editing /\ Idle /\ ui.form.version = 4

\* The preset's name is stored as the schedule's type (mutant).
ChoosePresetByName ==
  LET c == ui.controls
  IN /\ Scheduling
     /\ \E p \in {"manual", "hourly", "daily", "monthly", "cron"} \ {c.preset} :
          ChangeForm([ui EXCEPT !.controls.preset = p],
            [ui.form EXCEPT !.enabled = p /= "manual", !.type = p,
               !.cron = IF p \in {"daily", "monthly"} THEN PresetCron(p, c.time, c.day) ELSE @])

ChoosePreset ==
  LET c == ui.controls
  IN /\ Scheduling
     /\ \E p \in {"manual", "hourly", "daily", "monthly", "cron"} \ {c.preset} :
          LET on == [ui.form EXCEPT !.enabled = p /= "manual"]
          IN ChangeForm([ui EXCEPT !.controls.preset = p],
               IF p \in {"daily", "monthly"}
               THEN [on EXCEPT !.type = IF p = "monthly" THEN p ELSE "cron",
                               !.cron = PresetCron(p, c.time, c.day)]
               ELSE [on EXCEPT !.type = p])

ScheduleShown == Scheduling /\ ui.form.type /= "manual"

ChooseDay ==
  /\ ScheduleShown /\ ui.controls.preset = "monthly"
  /\ \E d \in Days \ {ui.controls.day} :
       ChangeForm([ui EXCEPT !.controls.day = d],
         [ui.form EXCEPT !.cron = PresetCron("monthly", ui.controls.time, d)])

ChooseTime ==
  LET preset == ui.controls.preset
  IN /\ ScheduleShown /\ preset \in {"daily", "monthly"}
     /\ \E t \in Times \ {ui.controls.time} :
          ChangeForm([ui EXCEPT !.controls.time = t],
            [ui.form EXCEPT !.cron = PresetCron(preset, t, ui.controls.day)])

TypeMinute ==
  /\ ScheduleShown /\ ui.controls.preset = "hourly"
  /\ \E m \in {0, NoMinute, BadMinute} \ {ui.form.minute} :
       Update([ui.form EXCEPT !.minute = m])

TypeCron ==
  /\ ScheduleShown /\ ui.controls.preset = "cron"
  /\ \E c \in Crons \ {ui.form.cron} : Update([ui.form EXCEPT !.cron = c])

ChooseTimezone ==
  /\ ScheduleShown
  /\ \E z \in {"UTC", ""} \ {ui.form.zone} : Update([ui.form EXCEPT !.zone = z])

\* The preset is left as it is by the switch (mutant).
ToggleKeepsPreset ==
  LET f == ui.form
      on == ~(IF switch = None THEN f.enabled ELSE switch.to)
  IN /\ Editing /\ f.version = 4
     /\ Update([f EXCEPT !.enabled = on, !.type = IF on /\ @ = "manual" THEN "hourly" ELSE @])
     /\ switch' = [pc |-> "timer", to |-> on,
                   sends |-> IF saved = None THEN None ELSE [saved EXCEPT !.enabled = on]]
     /\ UNCHANGED <<saved, modal, saving>>

\* ScheduleToggle's click: the form changes at once; the script is sent 300 ms
\* later, as the click saw it.
ToggleSchedule ==
  LET f == ui.form
      on == ~(IF switch = None THEN f.enabled ELSE switch.to)
  IN /\ Editing /\ f.version = 4
     /\ ChangeForm([ui EXCEPT !.controls.preset =
                      IF on /\ @ = "manual" THEN "hourly" ELSE @],
          [f EXCEPT !.enabled = on, !.type = IF on /\ @ = "manual" THEN "hourly" ELSE @])
     /\ switch' = [pc |-> "timer", to |-> on,
                   sends |-> IF saved = None THEN None ELSE [saved EXCEPT !.enabled = on]]
     /\ UNCHANGED <<saved, modal, saving>>

\* The timer calls the onToggle of the click's rendering: the cached script of
\* that moment.  There is nothing to send for a script that is not saved yet.
TimerFires ==
  /\ switch /= None /\ switch.pc = "timer"
  /\ switch' = IF switch.sends = None THEN None ELSE [switch EXCEPT !.pc = "request"]
  /\ UNCHANGED <<saved, draft, ui, modal, saving, edits, lastPath>>

ToggleAnswered ==
  /\ switch /= None /\ switch.pc = "request"
  /\ saved' = IF AcceptsExecution(switch.sends) /\ AcceptsSchedule(switch.sends)
              THEN switch.sends ELSE saved
  /\ switch' = None
  /\ UNCHANGED <<draft, ui, modal, saving, edits, lastPath>>

(***************************************************************************)
(* Clearing and saving                                                      *)
(***************************************************************************)
\* Clear leaves the draft in storage (mutant).
ClearKeepsDraft ==
  LET next == InitialForm(saved)
  IN /\ Editing /\ Idle
     /\ ui' = [Mounted(next) EXCEPT !.roles = ui.roles]
     /\ draft' = draft
     /\ lastPath' = [NoPaths EXCEPT ![next.source] = next.path]

\* The role picker keeps its selection.
ClearForm ==
  LET next == InitialForm(saved)
  IN /\ Editing /\ Idle
     /\ ui' = [Mounted(next) EXCEPT !.roles = ui.roles]
     /\ draft' = None
     /\ lastPath' = [NoPaths EXCEPT ![next.source] = next.path]

\* handleSubmit up to onSave
Save ==
  LET errors == ValidateScriptForm(ui.form)
  IN /\ Shown /\ ~Pending /\ modal = NoModal
     /\ ui' = [ui EXCEPT !.submitted = TRUE, !.errors = errors]
     /\ saving' = IF errors = {} THEN ui.form ELSE None
     /\ UNCHANGED <<saved, draft, modal, switch, edits, lastPath>>

\* The draft goes and the panel shows the script; a switch that has not sent
\* its request yet never will.
SaveSucceeds ==
  /\ saving /= None
  /\ saved' = IF saved = None THEN None ELSE saving
  /\ draft' = None /\ saving' = None
  /\ ui' = None /\ modal' = NoModal
  /\ switch' = IF switch /= None /\ switch.pc = "timer" THEN None ELSE switch
  /\ UNCHANGED <<edits, lastPath>>

\* Refused by the server, for fields it names, or for a name that is taken;
\* or never answered.  The draft stays.
SaveFails ==
  /\ saving /= None /\ saving' = None
  /\ \E named \in {{}, {"name"}} :
       ui' = IF Shown /\ named /= {} THEN [ui EXCEPT !.errors = named] ELSE ui
  /\ UNCHANGED <<saved, draft, modal, switch, edits, lastPath>>

FormNext ==
  \/ Open \/ Leave
  \/ EditName \/ Reactivate \/ SwitchSource \/ TypeCommandPath
  \/ PickRepositoryPath \/ ChooseRuntime \/ ChooseReleaseJar
  \/ EditVariables \/ ChangeRoles
  \/ OpenCommand \/ SwitchMode \/ TypeArguments \/ TypeShell
  \/ ApplyCommand \/ CancelCommand
  \/ ChoosePreset \/ ChooseDay \/ ChooseTime \/ TypeMinute \/ TypeCron
  \/ ChooseTimezone \/ ToggleSchedule \/ TimerFires \/ ToggleAnswered
  \/ ClearForm \/ Save \/ SaveSucceeds \/ SaveFails

FormSpec == FormInit /\ [][FormNext]_formVars

(***************************************************************************)
(* Properties                                                               *)
(***************************************************************************)
FormTypeOK ==
  /\ saved \in Form \cup {None} /\ draft \in Form \cup {None}
  /\ saving \in Form \cup {None}
  /\ Shown => ui \in FormStates
  /\ edits \in 0..MaxEdits

\* The schedule controls and the form that Save sends agree, through toggles,
\* cleared forms and restored drafts: nobody sees one schedule and saves another.
ShownScheduleIsForm ==
  Shown =>
    LET c == ui.controls f == ui.form
    IN CASE c.preset = "daily" ->
              f.type = "cron" /\ f.cron = PresetCron("daily", c.time, c.day)
         [] c.preset = "monthly" ->
              f.type = "monthly" /\ f.cron = PresetCron("monthly", c.time, c.day)
         [] OTHER -> f.type = c.preset

\* Whatever way of editing led there, a form that passes the editor's own
\* validation is one the server takes: release JAR, command mode, configuration
\* version and schedule fit together, and enabled runs keep their distance.
SentIsAccepted ==
  saving /= None => AcceptsExecution(saving) /\ AcceptsSchedule(saving)

\* After an attempt to save, every field in error is marked, and nothing else
\* but a name the server refused, however the form is changed afterwards.
MarksCurrent ==
  Shown /\ ui.submitted =>
    /\ ValidateScriptForm(ui.form) \subseteq ui.errors
    /\ ui.errors \subseteq ValidateScriptForm(ui.form) \cup {"name"}

\* Every change is in the draft at once: leaving or reloading loses nothing.
\* Only a cleared form, which is the saved script again, has none.
DraftFollowsForm ==
  [][Shown /\ Shown' /\ ui'.form /= ui.form =>
       \/ draft' = ui'.form
       \/ draft' = None /\ ui'.form = InitialForm(saved)]_formVars

\* A draft is dropped by Clear or because what it holds is saved.  (A click on
\* Reactivate during the save is the exception: see the README.)
DraftDroppedWhenSaved ==
  [][draft /= None /\ draft' = None =>
       \/ Shown' /\ ui'.form = InitialForm(saved)
       \/ saving /= None /\ [draft EXCEPT !.active = saving.active] = saving]_formVars

\* "Switching sources preserves each source's draft path"
\* (docs/registered-schedules.md:22).
SourcePathKept ==
  [][Shown /\ Shown' /\ ui'.form.source /= ui.form.source /\ ui'.form /= InitialForm(saved) =>
       ui'.form.path = lastPath[ui'.form.source]]_formVars

\* The switch changes whether the schedule is enabled and nothing else: "Save
\* persists the script changes" (docs/script-manager.md:43), so a saved edit
\* stays saved.
ToggleChangesOnlySwitch ==
  [][switch /= None /\ switch.pc = "request" /\ switch' = None =>
       saved' \in {saved, [saved EXCEPT !.enabled = switch.to]}]_formVars

\* All of this holds of the editor at any time: what it shows, marks and sends.
EditorFits == FormTypeOK /\ ShownScheduleIsForm /\ SentIsAccepted /\ MarksCurrent

\* No step of the editor loses what was typed, unless it was cleared or saved.
EditorKeepsInput == DraftFollowsForm /\ DraftDroppedWhenSaved /\ SourcePathKept
=============================================================================
