---------------------------- MODULE WorkspaceProofs ----------------------------
(***************************************************************************)
(* Theorems about ScriptForm, for any day, presets, scripts and edits: what *)
(* an editor shows, marks, keeps and sends; and about ScriptsWorkspace, for *)
(* any scripts, texts, backups, visits and writes: what its editors show    *)
(* and save, and what answers take away.                                    *)
(***************************************************************************)
EXTENDS ScriptForm, ScriptsWorkspace, TLAPS, FiniteSetTheorems, SequenceTheorems, WellFoundedInduction

(***************************************************************************)
(* THE EDITOR OF A SCRIPT                                                   *)
(***************************************************************************)
\* A cron expression that the controls of a monthly schedule have written
MonthlyCron(c) == \E t \in Hours \X Minutes, d \in Days : c = PresetCron("monthly", t, d)

\* The parts of a form fit, its JAR and its schedule apart.
Formed(f) ==
  /\ f \in Form /\ (f.jar => f.version = 4)
  /\ (f.mode = "arguments" => f.shell = None) /\ (f.mode = "shell" => f.args = "none")
  /\ f.type = "monthly" /\ f.cron /= NoCron => MonthlyCron(f.cron)

JarFits(f) == f.jar => f.runtime = "java" /\ f.source = "github_file" /\ f.mode = "arguments"

\* Schedules are of the version that has them, and an enabled one has a type.
Timed(f) == (f.version < 4 => ~f.enabled /\ f.type = "manual") /\ (f.enabled => f.type /= "manual")

FormFits(f) == Formed(f) /\ JarFits(f) /\ Timed(f)

\* The controls c show the schedule of the form f.
Agree(c, f) ==
  /\ c.preset = "daily" => f.type = "cron" /\ f.cron = PresetCron("daily", c.time, c.day)
  /\ c.preset = "monthly" => f.type = "monthly" /\ f.cron = PresetCron("monthly", c.time, c.day)
  /\ c.preset \notin {"daily", "monthly"} => f.type = c.preset

Marked(u) ==
  u.submitted => ValidateScriptForm(u.form) \subseteq u.errors /\ u.errors \subseteq ValidateScriptForm(u.form) \cup {"name"}

UiRight(u) == u \in FormStates /\ FormFits(u.form) /\ Agree(u.controls, u.form) /\ Marked(u)

\* The mounted form remembers the path that each source was last shown with.
PathsRight(paths, f, last) ==
  /\ last \in [Sources -> Paths \cup {Blank, JarPath}] /\ last[f.source] = f.path
  /\ \A s \in Sources \ {f.source} : paths[s] = last[s]

\* The command editor
CommandRight(m) ==
  /\ m \in [mode: {"arguments", "shell"}, shell: {None, "", "typed", "preview"}, args: {"none", "some"}, valid: BOOLEAN,
            keptArgs: {"none", "some"}, keptShell: {None, "", "typed", "preview"}]
  /\ m.mode = "arguments" => m.shell = None
  /\ m.mode = "shell" => m.args = "none"

\* The switch: what is sent is a saved script that is enabled or not.
SwitchRight(w) ==
  /\ w \in [pc: {"timer", "request"}, to: BOOLEAN, sends: Form \cup {None}]
  /\ w.sends /= None => Formed(w.sends) /\ JarFits(w.sends)
  /\ w.pc = "request" => w.sends /= None

\* The form f is g but for the switch "active".
IsBut(f, g) == f \in Form /\ [f EXCEPT !.active = g.active] = g

\* What is being saved: it passed the validation and is what the editor and the draft have.
SavingRight ==
  /\ FormFits(saving) /\ ValidateScriptForm(saving) = {} /\ modal = NoModal
  /\ draft /= None => IsBut(draft, saving)
  /\ Shown => IsBut(ui.form, saving)

\* The invariant that is proved of the editor.
EditorInv ==
  /\ saved /= None => FormFits(saved) /\ (saved.type = "monthly" => saved.cron /= NoCron)
  /\ draft /= None => FormFits(draft)
  /\ Shown => UiRight(ui) /\ PathsRight(ui.paths, ui.form, lastPath) /\ draft \in {None, ui.form}
  /\ modal /= NoModal => Shown /\ CommandRight(modal)
  /\ saving /= None => SavingRight
  /\ switch /= None => SwitchRight(switch)
  /\ edits \in 0..MaxEdits

(***************************************************************************)
(* Schedules                                                                *)
(***************************************************************************)
LEMMA DayIsLong ==
  /\ DayHours \in Nat /\ HourMinutes \in Nat /\ MinInterval \in Nat /\ 0 \in Hours /\ 1 \in Hours /\ 0 \in Minutes
  /\ DayHours * HourMinutes \in Nat
BY SchedulePresetsAssumption DEF Hours, Minutes

\* The slots of an expression are minutes of one day.
LEMMA SlotsOfDay == ASSUME NEW c \in Cron PROVE \A s \in Slots(c) : s \in Nat /\ s < DayHours * HourMinutes
<1> TAKE s \in Slots(c)
<1>1. PICK h \in c.hours, m \in c.minutes : s = h * HourMinutes + m
  BY DEF Slots
<1>2. h \in 0..(DayHours - 1) /\ m \in 0..(HourMinutes - 1)
  BY DEF Cron, Hours, Minutes
<1>3. h * HourMinutes \in Nat
  BY <1>2, DayIsLong
<1>4. h * HourMinutes + HourMinutes <= DayHours * HourMinutes
  <2> DEFINE left == DayHours - 1 - h
  <2>1. left \in Nat /\ DayHours = h + 1 + left
    BY <1>2, DayIsLong
  <2>2. left * HourMinutes \in Nat
    BY <2>1, DayIsLong
  <2> HIDE DEF left
  <2>3. (h + 1 + left) * HourMinutes = h * HourMinutes + HourMinutes + left * HourMinutes
    BY <1>2, <2>1, DayIsLong
  <2>4. QED
    BY <1>3, <2>1, <2>2, <2>3, DayIsLong
<1>5. QED
  BY <1>1, <1>2, <1>3, <1>4, DayIsLong

\* A set of natural numbers that is not empty has a least one.
LEMMA LeastNat ==
  ASSUME NEW T \in SUBSET Nat, T /= {}
  PROVE  \E m \in T : \A k \in T : m <= k
<1> DEFINE Less == {p \in Nat \X Nat : p[1] < p[2]}
<1>1. IsWellFoundedOn(Less, Nat)
  BY NatLessThanWellFounded DEF OpToRel
<1>2. \A k, m \in Nat : k < m => <<k, m>> \in Less
  BY Zenon
<1> HIDE DEF Less
<1>3. PICK m \in T : \A k \in T : ~(<<k, m>> \in Less)
  BY <1>1, WFMin
<1>4. \A k \in T : ~(k < m)
  BY <1>2, <1>3
<1>5. QED
  BY <1>4

\* What the editor checks between one slot and the next keeps any two runs apart, on one day or
\* on two in a row.
LEMMA IntervalKeepsApart == ASSUME NEW c \in Cron, MeetsMinimumInterval(c) PROVE Spaced(c)
<1> DEFINE S == Slots(c)
           D == DayHours * HourMinutes
<1>1. \A s \in S : s \in Nat /\ s < D
  BY SlotsOfDay
<1>2. \A s \in S : NextSlot(S, s) - s >= MinInterval
  BY DEF MeetsMinimumInterval
<1>3. D \in Nat /\ MinInterval \in Nat
  BY DayIsLong
<1> HIDE DEF S, D
<1>4. ASSUME NEW s \in S, NEW t \in S, NEW day \in {0, 1}, t + day * D - s > 0
      PROVE  t + day * D - s >= MinInterval
  <2> DEFINE later == {x \in S : x > s}
  <2>1. s \in Nat /\ s < D /\ t \in Nat /\ t < D
    BY <1>1
  <2>2. CASE later = {}
    <3> DEFINE first == CHOOSE x \in S : \A u \in S : x <= u
    <3>1. \E x \in S : \A u \in S : x <= u
      <4>1. S \in SUBSET Nat /\ S /= {}
        BY <1>1
      <4>2. QED
        BY <4>1, LeastNat
    <3>2. first \in S /\ first <= t
      BY <3>1
    <3>3. NextSlot(S, s) = first + D
      BY <2>2 DEF NextSlot, D
    <3> HIDE DEF first
    <3>4. first \in Nat /\ first + D - s >= MinInterval
      BY <1>1, <1>2, <1>3, <3>2, <3>3
    <3>5. t <= s
      BY <2>1, <2>2
    <3>6. day = 1
      BY <1>3, <1>4, <2>1, <3>5
    <3>7. QED
      BY <1>3, <2>1, <3>2, <3>4, <3>6
  <2>3. CASE later /= {}
    <3> DEFINE next == CHOOSE x \in later : \A u \in later : x <= u
    <3>1. \E x \in later : \A u \in later : x <= u
      <4>1. later \in SUBSET Nat
        BY <1>1
      <4>2. QED
        BY <2>3, <4>1, LeastNat
    <3>2. next \in later /\ \A u \in later : next <= u
      BY <3>1
    <3>3. NextSlot(S, s) = next
      BY <2>3 DEF NextSlot
    <3>4. next \in S
      BY <3>2
    <3>5. t > s => next <= t
      BY <3>2
    <3> HIDE DEF next
    <3>6. next \in Nat /\ next < D /\ next - s >= MinInterval
      BY <1>1, <1>2, <3>3, <3>4
    <3>7. CASE day = 0
      BY <1>3, <1>4, <2>1, <3>5, <3>6, <3>7
    <3>8. CASE day = 1
      BY <1>3, <2>1, <3>6, <3>8
    <3>9. QED
      BY <3>7, <3>8
  <2>4. QED
    BY <2>2, <2>3
<1>5. QED
  BY <1>4, DayIsLong DEF Spaced, S, D

\* The expression of a preset
LEMMA PresetWrites ==
  ASSUME NEW preset, NEW time \in Time, NEW day \in Days
  PROVE  /\ PresetCron(preset, time, day) \in Cron \cup {NoCron}
         /\ preset = "monthly" => PresetCron(preset, time, day) = NoCron \/ MonthlyCron(PresetCron(preset, time, day))
<1>1. CASE time = NoTime
  BY <1>1 DEF PresetCron
<1>2. CASE time /= NoTime
  <2>1. time \in Hours \X Minutes
    BY <1>2 DEF Time
  <2>2. {time[1]} \in (SUBSET Hours) \ {{}} /\ {time[2]} \in (SUBSET Minutes) \ {{}}
    BY <2>1
  <2>3. PresetCron(preset, time, day) \in Cron
    BY <1>2, <2>2 DEF PresetCron, Cron, AnyDay
  <2>4. QED
    BY <2>1, <2>3 DEF MonthlyCron
<1>3. QED
  BY <1>1, <1>2

\* The controls show a saved expression as it is.
LEMMA MonthlyShown ==
  ASSUME NEW c, c /= NoCron, MonthlyCron(c)
  PROVE  /\ CronTime(c) \in Time /\ c.day \in Days /\ c = PresetCron("monthly", CronTime(c), c.day) /\ Numeric(c)
<1>1. PICK t \in Hours \X Minutes, d \in Days : c = PresetCron("monthly", t, d)
  BY DEF MonthlyCron
<1>2. PICK h \in Hours, m \in Minutes : t = <<h, m>>
  BY <1>1
<1>3. t /= NoTime
  BY <1>2 DEF NoTime
<1>4. c = [minutes |-> {m}, hours |-> {h}, day |-> d]
  BY <1>1, <1>2, <1>3 DEF PresetCron
<1>5. TheOnly({h}) = h /\ TheOnly({m}) = m
  BY DEF TheOnly
<1>6. CronTime(c) = <<h, m>> /\ c.day = d
  BY <1>4, <1>5 DEF CronTime
<1>7. Numeric(c)
  BY <1>4, FS_Singleton DEF Numeric
<1>8. QED
  BY <1>1, <1>2, <1>6, <1>7 DEF Time

\* An expression of one minute and one hour
LEMMA OneTime ==
  ASSUME NEW c, c.hours \subseteq Hours, c.minutes \subseteq Minutes, Numeric(c)
  PROVE  \E h \in Hours, m \in Minutes : c.hours = {h} /\ c.minutes = {m}
<1>1. IsFiniteSet(Hours) /\ IsFiniteSet(Minutes)
  BY FS_Interval, DayIsLong DEF Hours, Minutes
<1>2. IsFiniteSet(c.hours) /\ IsFiniteSet(c.minutes)
  BY <1>1, FS_Subset
<1>3. PICK h : c.hours = {h}
  BY <1>2, FS_Singleton DEF Numeric
<1>4. PICK m : c.minutes = {m}
  BY <1>2, FS_Singleton DEF Numeric
<1>5. QED
  BY <1>3, <1>4

\* An expression of one time and one day is one that the monthly controls write.
LEMMA NumericIsMonthly == ASSUME NEW c \in Cron, Numeric(c), c.day \in Days PROVE MonthlyCron(c)
<1>1. PICK h \in Hours, m \in Minutes : c.hours = {h} /\ c.minutes = {m}
  BY OneTime DEF Cron
<1>2. <<h, m>> \in Hours \X Minutes /\ <<h, m>> /= NoTime
  BY DEF NoTime
<1>3. PresetCron("monthly", <<h, m>>, c.day) = [minutes |-> {m}, hours |-> {h}, day |-> c.day]
  BY <1>2 DEF PresetCron
<1>4. c = [minutes |-> {m}, hours |-> {h}, day |-> c.day]
  BY <1>1 DEF Cron
<1>5. QED
  BY <1>2, <1>3, <1>4 DEF MonthlyCron

\* The controls show a daily expression as it is.
LEMMA DailyShown ==
  ASSUME NEW c \in [minutes: SUBSET Minutes, hours: SUBSET Hours, day: {AnyDay}], Numeric(c), NEW d
  PROVE  CronTime(c) \in Time /\ c = PresetCron("daily", CronTime(c), d)
<1>1. PICK h \in Hours, m \in Minutes : c.hours = {h} /\ c.minutes = {m}
  BY OneTime
<1>3. TheOnly({h}) = h /\ TheOnly({m}) = m
  BY DEF TheOnly
<1>4. CronTime(c) = <<h, m>>
  BY <1>1, <1>3 DEF CronTime
<1>5. <<h, m>> \in Time /\ <<h, m>> /= NoTime
  BY DEF Time, NoTime
<1>6. PresetCron("daily", <<h, m>>, d) = [minutes |-> {m}, hours |-> {h}, day |-> AnyDay]
  BY <1>5 DEF PresetCron
<1>7. c = [minutes |-> {m}, hours |-> {h}, day |-> AnyDay]
  BY <1>1
<1>8. QED
  BY <1>4, <1>5, <1>6, <1>7

(***************************************************************************)
(* A form and its fields                                                    *)
(***************************************************************************)
\* What is in error, field by field.
LEMMA FieldInError ==
  ASSUME NEW f, NEW e
  PROVE  e \in ValidateScriptForm(f) <=>
           \/ e = "name" /\ f.name = NoName
           \/ e = "environmentVariables" /\ (Len(f.env) > EnvLimit \/ \E i \in DOMAIN f.env : BadVariable(f.env, i))
           \/ e = "commandMode" /\ f.mode = "shell" /\ f.version < 3
           \/ e = "shellCommand" /\ f.mode = "shell" /\ f.shell \in {None, ""}
           \/ e = "repoPath" /\ f.mode /= "shell" /\ f.path = Blank
           \/ e \in ScheduleErrors(f)
BY DEF ValidateScriptForm

\* The schedule's errors, field by field.
LEMMA ScheduleInError ==
  ASSUME NEW f, NEW e
  PROVE  e \in ScheduleErrors(f) <=>
           /\ f.type /= "manual"
           /\ \/ e = "scheduleType" /\ f.version < 4
              \/ e = "scheduleMinute" /\ f.type = "hourly" /\ f.minute \notin Minutes
              \/ /\ e = "scheduleCron" /\ f.type \in {"cron", "monthly"}
                 /\ f.cron = NoCron \/ (f.enabled /\ ~MeetsMinimumInterval(f.cron))
              \/ e = "scheduleTimezone" /\ f.zone = ""
BY DEF ScheduleErrors

ErrorFields == {"name", "environmentVariables", "commandMode", "shellCommand", "repoPath",
                "scheduleType", "scheduleMinute", "scheduleCron", "scheduleTimezone"}

\* Only fields are in error.
LEMMA ErrorsAreFields == ASSUME NEW f PROVE ValidateScriptForm(f) \subseteq ErrorFields
<1>1. ASSUME NEW e \in ScheduleErrors(f) PROVE e \in ErrorFields
  BY ScheduleInError DEF ErrorFields
<1>2. ASSUME NEW e \in ValidateScriptForm(f) PROVE e \in ErrorFields
  BY <1>1, FieldInError DEF ErrorFields
<1>3. QED
  BY <1>2

\* The switch "active" is no matter of the validation.
LEMMA ActiveIsNoMatter ==
  ASSUME NEW f \in Form, NEW g \in Form, IsBut(f, g)
  PROVE  ValidateScriptForm(f) = ValidateScriptForm(g)
<1>1. /\ f.version = g.version /\ f.name = g.name /\ f.env = g.env /\ f.mode = g.mode /\ f.shell = g.shell /\ f.path = g.path
      /\ f.type = g.type /\ f.minute = g.minute /\ f.cron = g.cron /\ f.enabled = g.enabled /\ f.zone = g.zone
  BY DEF IsBut, Form
<1>2. ASSUME NEW e PROVE e \in ScheduleErrors(f) <=> e \in ScheduleErrors(g)
  <2> DEFINE Wrong(type, version, minute, cron, enabled, zone) ==
        /\ type /= "manual"
        /\ \/ e = "scheduleType" /\ version < 4
           \/ e = "scheduleMinute" /\ type = "hourly" /\ minute \notin Minutes
           \/ /\ e = "scheduleCron" /\ type \in {"cron", "monthly"}
              /\ cron = NoCron \/ (enabled /\ ~MeetsMinimumInterval(cron))
           \/ e = "scheduleTimezone" /\ zone = ""
  <2>1. e \in ScheduleErrors(f) <=> Wrong(f.type, f.version, f.minute, f.cron, f.enabled, f.zone)
    BY ScheduleInError
  <2>2. e \in ScheduleErrors(g) <=> Wrong(g.type, g.version, g.minute, g.cron, g.enabled, g.zone)
    BY ScheduleInError
  <2> HIDE DEF Wrong
  <2>3. QED
    BY <1>1, <2>1, <2>2, Zenon
<1>3. \A e : e \in ValidateScriptForm(f) <=> e \in ValidateScriptForm(g)
  BY <1>1, <1>2, FieldInError
<1>4. QED
  BY <1>3

\* A form that fits and passes the validation is one that the server takes.
LEMMA ValidIsAccepted ==
  ASSUME NEW f, FormFits(f), ValidateScriptForm(f) = {}
  PROVE  AcceptsExecution(f) /\ AcceptsSchedule(f)
<1>1. /\ f \in Form /\ f.version \in 2..4 /\ f.mode \in {"arguments", "shell"}
      /\ f.type \in {"manual", "hourly", "monthly", "cron"} /\ f.cron \in Cron \cup {NoCron}
  BY DEF FormFits, Formed, Form
<1>2. /\ ~(f.mode = "shell" /\ f.version < 3) /\ ~(f.mode = "shell" /\ f.shell \in {None, ""})
      /\ ~(f.mode /= "shell" /\ f.path = Blank) /\ \A e : e \notin ScheduleErrors(f)
  BY FieldInError
<1>3. f.type /= "manual" => /\ ~(f.type = "hourly" /\ f.minute \notin Minutes)
                            /\ f.type \in {"cron", "monthly"} =>
                                 f.cron /= NoCron /\ (f.enabled => MeetsMinimumInterval(f.cron))
  BY <1>2, ScheduleInError
<1>4. AcceptsExecution(f)
  <2>1. f.jar => f.version = 4 /\ f.runtime = "java" /\ f.source = "github_file" /\ f.mode = "arguments"
    BY Zenon DEF FormFits, Formed, JarFits
  <2>2. f.mode = "arguments" => f.shell = None /\ f.path /= Blank
    BY <1>1, <1>2 DEF FormFits, Formed
  <2>3. f.mode = "shell" => f.shell \notin {None, ""} /\ f.args = "none" /\ f.version /= 2
    <3>1. f.mode = "shell" => f.args = "none"
      BY DEF FormFits, Formed
    <3>2. 2 < 3
      OBVIOUS
    <3>3. QED
      BY <1>2, <3>1, <3>2
  <2>4. f.version = 2 => f.mode = "arguments" /\ f.shell = None
    BY <1>1, <2>2, <2>3
  <2>5. QED
    BY <2>1, <2>2, <2>3, <2>4 DEF AcceptsExecution
<1>5. f.type = "monthly" => f.cron /= NoCron /\ Numeric(f.cron) /\ f.cron.day \in Days
  BY <1>3, MonthlyShown DEF FormFits, Formed
<1>6. f.enabled /\ f.type = "cron" => f.cron /= NoCron /\ Spaced(f.cron)
  BY <1>1, <1>3, IntervalKeepsApart
<1>7. AcceptsSchedule(f)
  BY <1>1, <1>3, <1>5, <1>6 DEF AcceptsSchedule, FormFits, Timed
<1>8. QED
  BY <1>4, <1>7

\* A saved script fits, and a monthly one has its expression.
LEMMA AcceptedFits ==
  ASSUME NEW f \in Form, AcceptsExecution(f), AcceptsSchedule(f)
  PROVE  FormFits(f) /\ (f.type = "monthly" => f.cron /= NoCron)
<1>1. /\ f.version \in 2..4 /\ f.mode \in {"arguments", "shell"} /\ f.enabled \in BOOLEAN
      /\ f.type \in {"manual", "hourly", "monthly", "cron"} /\ f.cron \in Cron \cup {NoCron}
  BY DEF Form
<1>2. JarFits(f) /\ Timed(f) /\ (f.jar => f.version = 4) /\ (f.mode = "arguments" => f.shell = None)
      /\ (f.mode = "shell" => f.args = "none")
  BY <1>1 DEF AcceptsExecution, AcceptsSchedule, JarFits, Timed
<1>3. f.type = "monthly" => f.cron /= NoCron /\ MonthlyCron(f.cron)
  <2> SUFFICES ASSUME f.type = "monthly" PROVE f.cron /= NoCron /\ MonthlyCron(f.cron)
    OBVIOUS
  <2>1. f.cron /= NoCron /\ Numeric(f.cron) /\ f.cron.day \in Days /\ f.cron \in Cron
    BY <1>1 DEF AcceptsSchedule
  <2>2. QED
    BY <2>1, NumericIsMonthly
<1>4. QED
  BY <1>2, <1>3 DEF FormFits, Formed

\* A change takes away a JAR that the form does not run any more, and nothing else.
LEMMA JarTaken ==
  ASSUME NEW f \in Form
  PROVE  LET g == WithoutUnfitJar(f)
         IN /\ g \in Form /\ JarFits(g) /\ (g.jar => f.jar) /\ (JarFits(f) => g = f)
            /\ g.version = f.version /\ g.name = f.name /\ g.source = f.source /\ g.path = f.path /\ g.mode = f.mode
            /\ g.shell = f.shell /\ g.args = f.args /\ g.enabled = f.enabled /\ g.type = f.type /\ g.cron = f.cron
<1> DEFINE g == WithoutUnfitJar(f)
<1>1. CASE f.runtime /= "java" \/ f.source /= "github_file" \/ f.mode = "shell"
  <2>1. g = [f EXCEPT !.jar = FALSE]
    BY <1>1 DEF WithoutUnfitJar
  <2> HIDE DEF g
  <2>2. /\ g \in Form /\ g.jar = FALSE
        /\ g.version = f.version /\ g.name = f.name /\ g.source = f.source /\ g.path = f.path /\ g.mode = f.mode
        /\ g.shell = f.shell /\ g.args = f.args /\ g.enabled = f.enabled /\ g.type = f.type /\ g.cron = f.cron
    BY <2>1 DEF Form
  <2>3. JarFits(f) => g = f
    <3>1. JarFits(f) => f.jar = FALSE
      BY <1>1 DEF JarFits, Form
    <3>2. f.jar = FALSE => [f EXCEPT !.jar = FALSE] = f
      BY DEF Form
    <3>3. QED
      BY <2>1, <3>1, <3>2
  <2>4. JarFits(g)
    BY <2>2 DEF JarFits
  <2>5. QED
    BY <2>2, <2>3, <2>4 DEF g
<1>2. CASE ~(f.runtime /= "java" \/ f.source /= "github_file" \/ f.mode = "shell")
  <2>1. g = f
    BY <1>2 DEF WithoutUnfitJar
  <2>2. JarFits(f)
    BY <1>2 DEF JarFits, Form
  <2>3. QED
    BY <2>1, <2>2
<1>3. QED
  BY <1>1, <1>2

(***************************************************************************)
(* The mounted form                                                         *)
(***************************************************************************)
LEMMA EmptyFits == FormFits(EmptyForm) /\ EmptyForm.type = "manual"
<1>1. NoName \in STRING \X Nat /\ <<>> \in Seq(EnvNames) /\ {} \in SUBSET Roles /\ 0 \in Minutes
  <2>1. Blank \in STRING
    BY ScriptFormAssumption
  <2>2. NoName \in STRING \X Nat
    BY <2>1 DEF NoName
  <2>3. <<>> \in Seq(EnvNames)
    OBVIOUS
  <2>4. QED
    BY <2>2, <2>3, DayIsLong
<1>2. EmptyForm \in Form
  BY <1>1 DEF EmptyForm, Form, Sources
<1>3. QED
  BY <1>2 DEF EmptyForm, FormFits, Formed, JarFits, Timed

\* The form that is shown when there is no draft
LEMMA InitialFits ==
  ASSUME EditorInv
  PROVE  FormFits(InitialForm(saved)) /\ ~Breaks(InitialForm(saved))
<1>1. FormFits(InitialForm(saved)) /\ (InitialForm(saved).type = "monthly" => InitialForm(saved).cron /= NoCron)
  BY EmptyFits DEF EditorInv, InitialForm
<1>2. QED
  BY <1>1 DEF Breaks, SchedulePreset

\* The controls show the form that is mounted.
LEMMA ControlsAgree ==
  ASSUME NEW f, FormFits(f), ~Breaks(f)
  PROVE  /\ Controls(f) \in [preset: {"manual", "hourly", "daily", "monthly", "cron"}, time: Time, day: Days]
         /\ Agree(Controls(f), f)
<1> DEFINE preset == SchedulePreset(f.type, f.cron)
<1>1. f.type \in {"manual", "hourly", "monthly", "cron"} /\ f.cron \in Cron \cup {NoCron}
  BY DEF FormFits, Formed, Form
<1>2. preset = f.type \/ (preset = "daily" /\ f.type = "cron" /\ f.cron /= NoCron /\ Numeric(f.cron)
                          /\ f.cron \in [minutes: SUBSET Minutes, hours: SUBSET Hours, day: {AnyDay}])
  BY DEF SchedulePreset
<1>3. preset = "monthly" => f.cron /= NoCron /\ MonthlyCron(f.cron)
  <2>1. preset = "monthly" => f.type = "monthly" /\ f.cron /= NoCron
    BY <1>2 DEF Breaks
  <2>2. QED
    BY <2>1 DEF FormFits, Formed
<1>4. <<1, 0>> \in Time /\ 1 \in Days
  BY DayIsLong, SchedulePresetsAssumption DEF Time
<1>5. preset = "daily" => CronTime(f.cron) \in Time /\ \A d : f.cron = PresetCron("daily", CronTime(f.cron), d)
  BY <1>1, <1>2, DailyShown
<1>6. preset = "monthly" => CronTime(f.cron) \in Time /\ f.cron.day \in Days
                            /\ f.cron = PresetCron("monthly", CronTime(f.cron), f.cron.day)
  BY <1>3, MonthlyShown
<1>7. Controls(f) = [preset |-> preset,
                     time |-> IF preset \in {"daily", "monthly"} THEN CronTime(f.cron) ELSE <<1, 0>>,
                     day |-> IF preset = "monthly" THEN f.cron.day ELSE 1]
  BY DEF Controls
<1>8. preset \in {"manual", "hourly", "daily", "monthly", "cron"} /\ (preset = "daily" => f.type = "cron")
      /\ (preset /= "daily" => f.type = preset)
  BY <1>1, <1>2
<1> HIDE DEF preset
<1>9. Controls(f) \in [preset: {"manual", "hourly", "daily", "monthly", "cron"}, time: Time, day: Days]
  BY <1>4, <1>5, <1>6, <1>7, <1>8
<1>10. Agree(Controls(f), f)
  BY <1>5, <1>6, <1>7, <1>8 DEF Agree
<1>11. QED
  BY <1>9, <1>10

\* A form that fits is mounted with controls that show it and no errors.
LEMMA MountedRight ==
  ASSUME EditorInv, NEW f, FormFits(f), ~Breaks(f)
  PROVE  /\ UiRight(Mounted(f)) /\ Mounted(f).form = f /\ Mounted(f).submitted = FALSE
         /\ PathsRight(Mounted(f).paths, f, [NoPaths EXCEPT ![f.source] = f.path])
<1> DEFINE paths == [NoPaths EXCEPT ![f.source] = f.path]
           name  == InitialForm(saved).name
<1>1. f \in Form /\ f.source \in Sources /\ f.path \in Paths \cup {Blank, JarPath} /\ f.roles \in SUBSET Roles
  BY DEF FormFits, Formed, Form
<1>2. paths \in [Sources -> Paths \cup {Blank, JarPath}] /\ paths[f.source] = f.path
  BY <1>1 DEF NoPaths
<1>3. name \in STRING \X Nat
  BY InitialFits DEF FormFits, Formed, Form
<1>4. Mounted(f) = [form |-> f, controls |-> Controls(f), roles |-> f.roles, paths |-> paths, suggested |-> name,
                    submitted |-> FALSE, errors |-> {}]
  BY DEF Mounted
<1> HIDE DEF paths, name
<1>5. Mounted(f) \in FormStates
  BY <1>1, <1>2, <1>3, <1>4, ControlsAgree DEF FormStates
<1>6. UiRight(Mounted(f))
  BY <1>4, <1>5, ControlsAgree DEF UiRight, Marked
<1>7. PathsRight(Mounted(f).paths, f, paths)
  BY <1>2, <1>4 DEF PathsRight
<1>8. QED
  BY <1>4, <1>6, <1>7 DEF paths

\* What changeForm is given by a change: a form that fits but for its JAR, in a state whose
\* controls show it.
Change(u, f) ==
  /\ u \in FormStates /\ Formed(f) /\ Timed(f) /\ Agree(u.controls, f)
  /\ \A s \in Sources \ {f.source} : u.paths[s] = lastPath[s]

\* What changeForm makes of it
LEMMA ChangeFormRight ==
  ASSUME EditorInv, Shown, NEW u, NEW f, Change(u, f), ChangeForm(u, f)
  PROVE  /\ UiRight(ui') /\ PathsRight(ui'.paths, ui'.form, lastPath') /\ draft' = ui'.form
         /\ ui'.form = WithoutUnfitJar(f) /\ lastPath' = [lastPath EXCEPT ![f.source] = f.path]
<1> DEFINE next   == WithoutUnfitJar(f)
           errors == IF u.submitted THEN ValidateScriptForm(next) ELSE u.errors
<1>1. f \in Form /\ u \in FormStates /\ f.source \in Sources /\ f.path \in Paths \cup {Blank, JarPath}
  BY DEF Change, Formed, Form
<1>2. /\ ui' = [u EXCEPT !.form = next, !.errors = errors] /\ draft' = next
      /\ lastPath' = [lastPath EXCEPT ![next.source] = next.path]
  BY DEF ChangeForm
<1>3. /\ next \in Form /\ JarFits(next) /\ (next.jar => f.jar)
      /\ next.version = f.version /\ next.source = f.source /\ next.path = f.path /\ next.mode = f.mode
      /\ next.shell = f.shell /\ next.args = f.args /\ next.enabled = f.enabled /\ next.type = f.type /\ next.cron = f.cron
  BY <1>1, JarTaken
<1>4. ValidateScriptForm(next) \subseteq ErrorFields
  BY ErrorsAreFields
<1> HIDE DEF next
<1>5. errors \in SUBSET ErrorFields
  BY <1>1, <1>4 DEF FormStates, ErrorFields
<1> HIDE DEF errors
<1>6. /\ ui' \in FormStates /\ ui'.form = next /\ ui'.errors = errors /\ ui'.controls = u.controls
      /\ ui'.paths = u.paths /\ ui'.submitted = u.submitted
  BY <1>1, <1>2, <1>3, <1>5 DEF FormStates, ErrorFields
<1>7. Formed(next)
  BY <1>3 DEF Change, Formed
<1>8. Timed(next)
  BY <1>3 DEF Change, Timed
<1>9. Agree(ui'.controls, next)
  BY <1>3, <1>6 DEF Change, Agree
<1>10. Marked(ui')
  BY <1>6 DEF Marked, errors
<1>11. UiRight(ui')
  BY <1>3, <1>6, <1>7, <1>8, <1>9, <1>10 DEF UiRight, FormFits
<1>12. lastPath \in [Sources -> Paths \cup {Blank, JarPath}]
  BY DEF EditorInv, PathsRight
<1>13. PathsRight(ui'.paths, ui'.form, lastPath')
  BY <1>1, <1>2, <1>3, <1>6, <1>12 DEF Change, PathsRight
<1>14. QED
  BY <1>2, <1>3, <1>6, <1>11, <1>13 DEF next

(***************************************************************************)
(* Edits                                                                    *)
(***************************************************************************)
\* What an edit does: the state is right, the draft has it, and a source that is turned to
\* has the path it was last shown with.
Edited ==
  /\ UiRight(ui') /\ PathsRight(ui'.paths, ui'.form, lastPath') /\ draft' = ui'.form
  /\ ui'.form.source /= ui.form.source => ui'.form.path = lastPath[ui'.form.source]
  /\ saving = None /\ UNCHANGED <<saved, saving>> /\ modal' = NoModal
  /\ edits' \in 0..MaxEdits /\ (switch' /= None => SwitchRight(switch'))

\* The invariant holds after an edit.
LEMMA EditedInv == ASSUME EditorInv, Edited PROVE EditorInv'
<1>1. FormFits(draft')
  BY DEF Edited, UiRight
<1>2. (saved' /= None => FormFits(saved') /\ (saved'.type = "monthly" => saved'.cron /= NoCron)) /\ saving' = None
  BY DEF EditorInv, Edited
<1>3. QED
  BY <1>1, <1>2 DEF EditorInv, Edited, NoModal

\* g has the command, the source and the schedule of f.
SamePlan(g, f) ==
  /\ g.version = f.version /\ g.source = f.source /\ g.mode = f.mode /\ g.shell = f.shell /\ g.args = f.args
  /\ g.enabled = f.enabled /\ g.type = f.type /\ g.cron = f.cron

\* Such a form may be given to changeForm.
LEMMA PlainChange ==
  ASSUME EditorInv, Shown, NEW g \in Form, SamePlan(g, ui.form), g.jar => g.version = 4,
         NEW u \in FormStates, u.controls = ui.controls, u.paths = ui.paths
  PROVE  Change(u, g)
<1>1. UiRight(ui) /\ PathsRight(ui.paths, ui.form, lastPath)
  BY DEF EditorInv
<1>2. Formed(g)
  BY <1>1 DEF SamePlan, UiRight, FormFits, Formed
<1>3. Timed(g)
  BY <1>1 DEF SamePlan, UiRight, FormFits, Timed
<1>4. Agree(u.controls, g)
  BY <1>1 DEF SamePlan, UiRight, Agree
<1>5. \A s \in Sources \ {g.source} : u.paths[s] = lastPath[s]
  BY <1>1 DEF SamePlan, PathsRight
<1>6. QED
  BY <1>2, <1>3, <1>4, <1>5 DEF Change

\* An edit is made in a form that is shown, while nothing is saved.
LEMMA EditingAllowed ==
  ASSUME EditorInv, Editing
  PROVE  Shown /\ saving = None /\ modal = NoModal /\ edits' \in 0..MaxEdits /\ ui \in FormStates /\ ui.form \in Form
<1>1. edits' \in 0..MaxEdits
  <2>1. edits \in 0..MaxEdits /\ MaxEdits \in Nat
    BY ScriptFormAssumption DEF EditorInv
  <2>2. edits < MaxEdits /\ edits' = edits + 1
    BY DEF Editing
  <2>3. QED
    BY <2>1, <2>2
<1>2. QED
  BY <1>1 DEF Editing, Pending, EditorInv, UiRight, FormStates

\* An edit of a field that is not of the plan
LEMMA PlainEdit ==
  ASSUME EditorInv, Editing, Idle, NEW g \in Form, SamePlan(g, ui.form), g.jar => g.version = 4,
         NEW u \in FormStates, u.controls = ui.controls, u.paths = ui.paths, ChangeForm(u, g)
  PROVE  Edited
<1>1. Shown /\ saving = None /\ modal = NoModal /\ edits' \in 0..MaxEdits /\ UNCHANGED <<saved, modal, saving, switch>>
  BY EditingAllowed DEF Idle
<1>2. /\ UiRight(ui') /\ PathsRight(ui'.paths, ui'.form, lastPath') /\ draft' = ui'.form
      /\ ui'.form = WithoutUnfitJar(g)
  BY <1>1, PlainChange, ChangeFormRight
<1>3. ui'.form.source = ui.form.source
  BY <1>2, JarTaken DEF SamePlan
<1>4. QED
  BY <1>1, <1>2, <1>3 DEF Edited, EditorInv

\* The same, by an edit that changes only the form
LEMMA PlainUpdate ==
  ASSUME EditorInv, Editing, Idle, NEW g \in Form, SamePlan(g, ui.form), g.jar => g.version = 4, Update(g)
  PROVE  Edited
BY EditingAllowed, PlainEdit DEF Update

\* A release JAR is of version 4.
LEMMA JarOfVersion == ASSUME EditorInv, Editing PROVE ui.form.jar => ui.form.version = 4
BY Zenon DEF EditorInv, Editing, UiRight, FormFits, Formed

\* The name is typed.
LEMMA NameEdited == ASSUME EditorInv, EditName PROVE Edited
<1>1. PICK n \in {NoName, TypedName} : Update([ui.form EXCEPT !.name = n])
  BY DEF EditName
<1>2. Editing /\ Idle
  BY DEF EditName
<1>3. n \in STRING \X Nat
  <2>1. Blank \in STRING /\ "typed" \in STRING
    BY ScriptFormAssumption
  <2>2. QED
    BY <2>1 DEF NoName, TypedName
<1> DEFINE g == [ui.form EXCEPT !.name = n]
<1>4. g \in Form /\ SamePlan(g, ui.form) /\ g.jar = ui.form.jar
  BY <1>2, <1>3, EditingAllowed DEF Form, SamePlan
<1> HIDE DEF g
<1>5. g.jar => g.version = 4
  BY <1>2, <1>4, JarOfVersion DEF SamePlan
<1>6. QED
  BY <1>1, <1>2, <1>4, <1>5, PlainUpdate DEF g

\* The path of a command is typed.
LEMMA CommandPathEdited == ASSUME EditorInv, TypeCommandPath PROVE Edited
<1>1. PICK p \in Paths \cup {Blank} : Update([ui.form EXCEPT !.path = p])
  BY DEF TypeCommandPath
<1>2. Editing /\ Idle
  BY DEF TypeCommandPath
<1> DEFINE g == [ui.form EXCEPT !.path = p]
<1>4. g \in Form /\ SamePlan(g, ui.form) /\ g.jar = ui.form.jar
  BY <1>2, EditingAllowed DEF Form, SamePlan
<1> HIDE DEF g
<1>5. g.jar => g.version = 4
  BY <1>2, <1>4, JarOfVersion DEF SamePlan
<1>6. QED
  BY <1>1, <1>2, <1>4, <1>5, PlainUpdate DEF g

\* The runtime is chosen.
LEMMA RuntimeEdited == ASSUME EditorInv, ChooseRuntime PROVE Edited
<1>1. PICK r \in {"python", "java", "shell"} : Update([ui.form EXCEPT !.runtime = r])
  BY DEF ChooseRuntime
<1>2. Editing /\ Idle
  BY DEF ChooseRuntime
<1> DEFINE g == [ui.form EXCEPT !.runtime = r]
<1>4. g \in Form /\ SamePlan(g, ui.form) /\ g.jar = ui.form.jar
  BY <1>2, EditingAllowed DEF Form, SamePlan
<1> HIDE DEF g
<1>5. g.jar => g.version = 4
  BY <1>2, <1>4, JarOfVersion DEF SamePlan
<1>6. QED
  BY <1>1, <1>2, <1>4, <1>5, PlainUpdate DEF g

\* A release JAR is chosen or given up.
LEMMA ReleaseJarEdited == ASSUME EditorInv, ChooseReleaseJar PROVE Edited
<1>1. PICK jar \in {TRUE, FALSE} : Update([ui.form EXCEPT !.jar = jar, !.path = IF jar THEN JarPath ELSE Blank])
  BY DEF ChooseReleaseJar
<1>2. Editing /\ Idle /\ ui.form.version = 4
  BY DEF ChooseReleaseJar, JarPickerShown
<1> DEFINE path == IF jar THEN JarPath ELSE Blank
           g    == [ui.form EXCEPT !.jar = jar, !.path = path]
<1>3. path \in Paths \cup {Blank, JarPath}
  OBVIOUS
<1> HIDE DEF path
<1>4. g \in Form /\ SamePlan(g, ui.form)
  BY <1>2, <1>3, EditingAllowed DEF Form, SamePlan
<1> HIDE DEF g
<1>5. g.jar => g.version = 4
  BY <1>2, <1>4 DEF SamePlan
<1>6. QED
  BY <1>1, <1>2, <1>4, <1>5, PlainUpdate DEF g, path

\* The minute of an hourly schedule is typed.
LEMMA MinuteEdited == ASSUME EditorInv, TypeMinute PROVE Edited
<1>1. PICK m \in {0, NoMinute, BadMinute} : Update([ui.form EXCEPT !.minute = m])
  BY DEF TypeMinute
<1>2. Editing /\ Idle /\ m \in Minutes \cup {NoMinute, BadMinute}
  BY DayIsLong DEF TypeMinute, ScheduleShown, Scheduling
<1> DEFINE g == [ui.form EXCEPT !.minute = m]
<1>4. g \in Form /\ SamePlan(g, ui.form) /\ g.jar = ui.form.jar
  BY <1>2, EditingAllowed DEF Form, SamePlan
<1> HIDE DEF g
<1>5. g.jar => g.version = 4
  BY <1>2, <1>4, JarOfVersion DEF SamePlan
<1>6. QED
  BY <1>1, <1>2, <1>4, <1>5, PlainUpdate DEF g

\* The time zone is chosen.
LEMMA TimezoneEdited == ASSUME EditorInv, ChooseTimezone PROVE Edited
<1>1. PICK z \in {"UTC", ""} : Update([ui.form EXCEPT !.zone = z])
  BY DEF ChooseTimezone
<1>2. Editing /\ Idle
  BY DEF ChooseTimezone, ScheduleShown, Scheduling
<1> DEFINE g == [ui.form EXCEPT !.zone = z]
<1>4. g \in Form /\ SamePlan(g, ui.form) /\ g.jar = ui.form.jar
  BY <1>2, EditingAllowed DEF Form, SamePlan
<1> HIDE DEF g
<1>5. g.jar => g.version = 4
  BY <1>2, <1>4, JarOfVersion DEF SamePlan
<1>6. QED
  BY <1>1, <1>2, <1>4, <1>5, PlainUpdate DEF g

\* A suggested name is one that no script of the office has.
LEMMA NameIsFree ==
  ASSUME NEW p \in Paths \cup {Blank}
  PROVE  UniqueName(p) \in STRING \X Nat /\ UniqueName(p) \notin TakenNames
<1> DEFINE stem == IF p = Blank THEN "New job" ELSE p
           n    == Cardinality(TakenNames)
           free == {k \in 1..(n + 1) : <<stem, k>> \notin TakenNames}
<1>1. stem \in STRING
  BY ScriptFormAssumption
<1>2. n \in Nat /\ IsFiniteSet(TakenNames)
  BY FS_CardinalityType, ScriptFormAssumption
<1> HIDE DEF stem, n
<1>3. free /= {}
  <2> SUFFICES ASSUME free = {} PROVE FALSE
    OBVIOUS
  <2> DEFINE f == [k \in 1..(n + 1) |-> <<stem, k>>]
  <2>1. \A k \in 1..(n + 1) : <<stem, k>> \in TakenNames
    OBVIOUS
  <2>2. f \in Injection(1..(n + 1), TakenNames)
    BY <2>1 DEF Injection, IsInjective
  <2>3. Cardinality(1..(n + 1)) <= n
    BY <1>2, <2>2, FS_Injection DEF n
  <2>4. Cardinality(1..(n + 1)) = n + 1
    <3> DEFINE m == n + 1
    <3>1. 1 \in Int /\ m \in Int /\ ~(1 > m) /\ m - 1 + 1 = m
      BY <1>2
    <3> HIDE DEF m
    <3>2. Cardinality(1..m) = m
      BY <3>1, FS_Interval
    <3>3. QED
      BY <3>2 DEF m
  <2>5. QED
    BY <1>2, <2>3, <2>4
<1>4. free \in SUBSET Nat
  BY <1>2
<1>5. PICK k \in free : k = CHOOSE x \in free : \A m \in free : x <= m
  BY <1>3, <1>4, LeastNat
<1>6. UniqueName(p) = <<stem, k>>
  BY <1>5 DEF UniqueName, stem, n
<1>7. k \in Nat /\ <<stem, k>> \notin TakenNames
  BY <1>4
<1>8. <<stem, k>> \in STRING \X Nat
  BY <1>1, <1>7
<1> HIDE DEF free
<1>9. QED
  BY <1>6, <1>7, <1>8

\* A path is picked, and a name suggested for it.
LEMMA RepositoryPathEdited == ASSUME EditorInv, PickRepositoryPath PROVE Edited
<1>1. PICK p \in Paths \cup {Blank} :
        LET named   == IF p = Blank THEN None ELSE RuntimeOf[p]
            suggest == saved = None /\ ui.form.name \in {NoName, ui.suggested}
        IN ChangeForm([ui EXCEPT !.suggested = UniqueName(p)],
             [ui.form EXCEPT !.path = p, !.name = IF suggest THEN UniqueName(p) ELSE ui.form.name,
                             !.runtime = IF named = None THEN ui.form.runtime ELSE named])
  BY DEF PickRepositoryPath
<1>2. Editing /\ Idle
  BY DEF PickRepositoryPath
<1>3. ui \in FormStates /\ ui.form \in Form
  BY <1>2, EditingAllowed
<1> DEFINE suggest == saved = None /\ ui.form.name \in {NoName, ui.suggested}
           named   == IF p = Blank THEN None ELSE RuntimeOf[p]
           name    == IF suggest THEN UniqueName(p) ELSE ui.form.name
           runtime == IF named = None THEN ui.form.runtime ELSE named
           u       == [ui EXCEPT !.suggested = UniqueName(p)]
           g       == [ui.form EXCEPT !.path = p, !.name = name, !.runtime = runtime]
<1>4. name \in STRING \X Nat
  BY <1>3, NameIsFree DEF Form
<1>5. runtime \in {"python", "java", "shell"}
  <2>1. p /= Blank => p \in Paths /\ RuntimeOf[p] \in {"python", "java", "shell", None}
    BY ScriptFormAssumption
  <2>2. QED
    BY <1>3, <2>1 DEF Form
<1>6. ChangeForm(u, g)
  BY <1>1
<1> HIDE DEF name, runtime
<1>7. g \in Form /\ SamePlan(g, ui.form) /\ g.jar = ui.form.jar
  BY <1>3, <1>4, <1>5 DEF Form, SamePlan
<1>8. u \in FormStates /\ u.controls = ui.controls /\ u.paths = ui.paths
  <2>1. UniqueName(p) \in STRING \X Nat
    BY NameIsFree
  <2>2. QED
    BY <1>3, <2>1 DEF FormStates
<1> HIDE DEF g, u
<1>9. g.jar => g.version = 4
  BY <1>2, <1>7, JarOfVersion DEF SamePlan
<1>10. QED
  BY <1>2, <1>6, <1>7, <1>8, <1>9, PlainEdit

\* A role is chosen or given up.
LEMMA RolesEdited == ASSUME EditorInv, ChangeRoles PROVE Edited
<1>1. PICK roles \in SUBSET Roles : ChangeForm([ui EXCEPT !.roles = roles], [ui.form EXCEPT !.roles = roles])
  <2>1. ui.roles \in SUBSET Roles
    BY EditingAllowed DEF ChangeRoles, FormStates
  <2>2. PICK r \in Roles : ChangeForm([ui EXCEPT !.roles = IF r \in ui.roles THEN ui.roles \ {r} ELSE ui.roles \cup {r}],
                                      [ui.form EXCEPT !.roles = IF r \in ui.roles THEN ui.roles \ {r} ELSE ui.roles \cup {r}])
    BY DEF ChangeRoles
  <2> DEFINE roles == IF r \in ui.roles THEN ui.roles \ {r} ELSE ui.roles \cup {r}
  <2>3. roles \in SUBSET Roles
    BY <2>1
  <2>4. ChangeForm([ui EXCEPT !.roles = roles], [ui.form EXCEPT !.roles = roles])
    BY <2>2
  <2> HIDE DEF roles
  <2>5. QED
    BY <2>3, <2>4
<1>2. Editing /\ Idle
  BY DEF ChangeRoles
<1>3. ui \in FormStates /\ ui.form \in Form
  BY <1>2, EditingAllowed
<1> DEFINE u == [ui EXCEPT !.roles = roles]
           g == [ui.form EXCEPT !.roles = roles]
<1>4. g \in Form /\ SamePlan(g, ui.form) /\ g.jar = ui.form.jar
  BY <1>3 DEF Form, SamePlan
<1>5. u \in FormStates /\ u.controls = ui.controls /\ u.paths = ui.paths
  BY <1>3 DEF FormStates
<1>6. ChangeForm(u, g)
  BY <1>1
<1> HIDE DEF g, u
<1>7. g.jar => g.version = 4
  BY <1>2, <1>4, JarOfVersion DEF SamePlan
<1>8. QED
  BY <1>2, <1>4, <1>5, <1>6, <1>7, PlainEdit

\* A variable is added, changed or removed.
LEMMA VariablesEdited == ASSUME EditorInv, EditVariables PROVE Edited
<1>1. Editing /\ Idle
  BY DEF EditVariables
<1>2. ui.form \in Form /\ ui.form.env \in Seq(EnvNames)
  BY <1>1, EditingAllowed DEF Form
<1>3. ASSUME NEW env \in Seq(EnvNames), Update([ui.form EXCEPT !.env = env]) PROVE Edited
  <2> DEFINE g == [ui.form EXCEPT !.env = env]
  <2>1. g \in Form /\ SamePlan(g, ui.form) /\ g.jar = ui.form.jar
    BY <1>2 DEF Form, SamePlan
  <2> HIDE DEF g
  <2>2. g.jar => g.version = 4
    BY <1>1, <2>1, JarOfVersion DEF SamePlan
  <2>3. QED
    BY <1>1, <1>3, <2>1, <2>2, PlainUpdate DEF g
<1>4. CASE Update([ui.form EXCEPT !.env = Append(ui.form.env, Blank)])
  <2>1. Blank \in EnvNames
    BY ScriptFormAssumption
  <2>2. Append(ui.form.env, Blank) \in Seq(EnvNames)
    BY <1>2, <2>1
  <2>3. QED
    BY <1>3, <1>4, <2>2
<1>5. CASE \E i \in DOMAIN ui.form.env, n \in EnvNames : Update([ui.form EXCEPT !.env[i] = n])
  <2>1. PICK i \in DOMAIN ui.form.env, n \in EnvNames : Update([ui.form EXCEPT !.env[i] = n])
    BY <1>5
  <2>2. [ui.form.env EXCEPT ![i] = n] \in Seq(EnvNames)
    BY <1>2
  <2>3. Update([ui.form EXCEPT !.env = [ui.form.env EXCEPT ![i] = n]])
    BY <2>1
  <2>4. QED
    BY <1>3, <2>2, <2>3
<1>6. CASE \E i \in DOMAIN ui.form.env :
             Update([ui.form EXCEPT !.env = SubSeq(ui.form.env, 1, i - 1) \o SubSeq(ui.form.env, i + 1, Len(ui.form.env))])
  <2>1. PICK i \in DOMAIN ui.form.env :
          Update([ui.form EXCEPT !.env = SubSeq(ui.form.env, 1, i - 1) \o SubSeq(ui.form.env, i + 1, Len(ui.form.env))])
    BY <1>6
  <2> DEFINE a == SubSeq(ui.form.env, 1, i - 1)
             b == SubSeq(ui.form.env, i + 1, Len(ui.form.env))
  <2>2. i \in 1..Len(ui.form.env) /\ Len(ui.form.env) \in Nat
    BY <1>2
  <2>3. \A k \in 1..Len(ui.form.env) : ui.form.env[k] \in EnvNames
    BY <1>2
  <2>4. a \in Seq(EnvNames)
    BY <1>2, <2>2, <2>3, SubSeqProperties
  <2>5. b \in Seq(EnvNames)
    BY <1>2, <2>2, <2>3, SubSeqProperties
  <2> HIDE DEF a, b
  <2>6. a \o b \in Seq(EnvNames)
    BY <2>4, <2>5
  <2>7. QED
    BY <1>3, <2>1, <2>6 DEF a, b
<1>7. QED
  BY <1>4, <1>5, <1>6 DEF EditVariables

\* The other source has the path it was left with.
LEMMA SourceEdited == ASSUME EditorInv, SwitchSource PROVE Edited
<1> DEFINE f     == ui.form
           other == IF f.source = "command" THEN "github_file" ELSE "command"
           paths == [ui.paths EXCEPT ![f.source] = f.path]
           u     == [ui EXCEPT !.paths = paths]
           g     == [f EXCEPT !.source = other, !.path = ui.paths[other]]
<1>1. Editing /\ Idle /\ ChangeForm(u, g)
  BY DEF SwitchSource
<1>2. ui \in FormStates /\ f \in Form /\ Shown /\ saving = None /\ modal = NoModal /\ edits' \in 0..MaxEdits
  BY <1>1, EditingAllowed
<1>3. UiRight(ui) /\ PathsRight(ui.paths, f, lastPath)
  BY <1>2 DEF EditorInv
<1>4. f.source \in Sources /\ other \in Sources /\ Sources \ {other} = {f.source}
  BY <1>2 DEF Form, Sources
<1>5. ui.paths[other] \in Paths \cup {Blank, JarPath} /\ ui.paths[other] = lastPath[other]
  BY <1>2, <1>3, <1>4 DEF FormStates, PathsRight
<1> HIDE DEF other
<1>6. /\ g \in Form /\ g.source = other /\ g.path = ui.paths[other] /\ g.jar = f.jar /\ g.version = f.version /\ g.mode = f.mode
      /\ g.shell = f.shell /\ g.args = f.args /\ g.enabled = f.enabled /\ g.type = f.type /\ g.cron = f.cron
  BY <1>2, <1>4, <1>5 DEF Form
<1>7. paths \in [Sources -> Paths \cup {Blank, JarPath}] /\ paths[f.source] = f.path
  BY <1>2, <1>4 DEF FormStates, Form
<1> HIDE DEF g, paths
<1>8. u \in FormStates /\ u.controls = ui.controls /\ u.paths = paths
  BY <1>2, <1>7 DEF FormStates
<1> HIDE DEF u
<1>9. Formed(g)
  BY <1>3, <1>6 DEF UiRight, FormFits, Formed
<1>10. Timed(g) /\ Agree(u.controls, g)
  BY <1>3, <1>6, <1>8 DEF UiRight, FormFits, Timed, Agree
<1>11. \A s \in Sources \ {g.source} : u.paths[s] = lastPath[s]
  BY <1>3, <1>4, <1>6, <1>7, <1>8 DEF PathsRight
<1>12. Change(u, g)
  BY <1>8, <1>9, <1>10, <1>11 DEF Change
<1>13. /\ UiRight(ui') /\ PathsRight(ui'.paths, ui'.form, lastPath') /\ draft' = ui'.form
       /\ ui'.form = WithoutUnfitJar(g)
  BY <1>1, <1>2, <1>12, ChangeFormRight
<1>14. ui'.form.source = other /\ ui'.form.path = lastPath[other]
  BY <1>5, <1>6, <1>13, JarTaken
<1>15. QED
  BY <1>1, <1>2, <1>13, <1>14 DEF Edited, EditorInv, Idle

\* What the command editor applies fits.
LEMMA CommandEdited == ASSUME EditorInv, ApplyCommand PROVE Edited
<1> DEFINE f == ui.form
           g == [f EXCEPT !.mode = modal.mode, !.shell = modal.shell, !.args = modal.args]
<1>1. /\ modal /= NoModal /\ ChangeForm(ui, g) /\ modal' = NoModal /\ UNCHANGED <<saved, saving, switch, edits>>
  BY DEF ApplyCommand, Update
<1>2. Shown /\ CommandRight(modal) /\ saving = None /\ edits \in 0..MaxEdits
  BY <1>1 DEF EditorInv, SavingRight
<1>3. UiRight(ui) /\ PathsRight(ui.paths, f, lastPath) /\ ui \in FormStates /\ f \in Form
  BY <1>2 DEF EditorInv, UiRight, FormStates
<1>4. /\ modal.mode \in {"arguments", "shell"} /\ modal.shell \in {None, "", "typed", "preview"} /\ modal.args \in {"none", "some"}
      /\ (modal.mode = "arguments" => modal.shell = None) /\ (modal.mode = "shell" => modal.args = "none")
  BY <1>2 DEF CommandRight
<1>5. /\ g \in Form /\ g.source = f.source /\ g.path = f.path /\ g.jar = f.jar /\ g.version = f.version
      /\ g.mode = modal.mode /\ g.shell = modal.shell /\ g.args = modal.args
      /\ g.enabled = f.enabled /\ g.type = f.type /\ g.cron = f.cron
  BY <1>3, <1>4 DEF Form
<1> HIDE DEF g
<1>6. f.jar => f.version = 4
  BY <1>3, Zenon DEF UiRight, FormFits, Formed
<1>7. Formed(g)
  BY <1>3, <1>4, <1>5, <1>6 DEF UiRight, FormFits, Formed
<1>8. Timed(g) /\ Agree(ui.controls, g)
  BY <1>3, <1>5 DEF UiRight, FormFits, Timed, Agree
<1>9. \A s \in Sources \ {g.source} : ui.paths[s] = lastPath[s]
  BY <1>3, <1>5 DEF PathsRight
<1>10. Change(ui, g)
  BY <1>3, <1>7, <1>8, <1>9 DEF Change
<1>11. /\ UiRight(ui') /\ PathsRight(ui'.paths, ui'.form, lastPath') /\ draft' = ui'.form
       /\ ui'.form = WithoutUnfitJar(g)
  BY <1>1, <1>2, <1>10, ChangeFormRight
<1>12. ui'.form.source = f.source
  BY <1>5, <1>11, JarTaken
<1>13. QED
  BY <1>1, <1>2, <1>11, <1>12 DEF Edited, EditorInv

(***************************************************************************)
(* The schedule of the form                                                 *)
(***************************************************************************)
\* g is f but for its schedule.
SameCommand(g, f) ==
  /\ g.version = f.version /\ g.source = f.source /\ g.path = f.path /\ g.jar = f.jar
  /\ g.mode = f.mode /\ g.shell = f.shell /\ g.args = f.args

\* An edit of the schedule and of the controls that show it
LEMMA ScheduleEdit ==
  ASSUME EditorInv, Editing, ui.form.version = 4, UNCHANGED <<saved, modal, saving>>,
         switch' /= None => SwitchRight(switch'),
         NEW g \in Form, SameCommand(g, ui.form), g.type = "monthly" /\ g.cron /= NoCron => MonthlyCron(g.cron),
         g.enabled => g.type /= "manual",
         NEW u \in FormStates, u.paths = ui.paths, Agree(u.controls, g), ChangeForm(u, g)
  PROVE  Edited
<1>1. Shown /\ saving = None /\ modal = NoModal /\ edits' \in 0..MaxEdits
  BY EditingAllowed
<1>2. UiRight(ui) /\ PathsRight(ui.paths, ui.form, lastPath)
  BY <1>1 DEF EditorInv
<1>3. Formed(g)
  BY <1>2 DEF SameCommand, UiRight, FormFits, Formed
<1>4. Timed(g)
  <2>1. ~(g.version < 4)
    BY DEF SameCommand
  <2>2. QED
    BY <2>1 DEF Timed
<1>5. \A s \in Sources \ {g.source} : u.paths[s] = lastPath[s]
  BY <1>2 DEF SameCommand, PathsRight
<1>6. Change(u, g)
  BY <1>3, <1>4, <1>5 DEF Change
<1>7. /\ UiRight(ui') /\ PathsRight(ui'.paths, ui'.form, lastPath') /\ draft' = ui'.form
      /\ ui'.form = WithoutUnfitJar(g)
  BY <1>1, <1>6, ChangeFormRight
<1>8. ui'.form.source = ui.form.source
  BY <1>7, JarTaken DEF SameCommand
<1>9. QED
  BY <1>1, <1>7, <1>8 DEF Edited, EditorInv

\* An edit that is Idle leaves the switch.
LEMMA SwitchKept == ASSUME EditorInv, Idle PROVE UNCHANGED <<saved, modal, saving>> /\ (switch' /= None => SwitchRight(switch'))
BY DEF EditorInv, Idle

\* The controls of a state
LEMMA ControlsOf ==
  ASSUME NEW u \in FormStates,
         NEW c \in [preset: {"manual", "hourly", "daily", "monthly", "cron"}, time: Time, day: Days]
  PROVE  LET v == [u EXCEPT !.controls = c]
         IN v \in FormStates /\ v.controls = c /\ v.paths = u.paths /\ v.form = u.form
BY DEF FormStates

ControlStates == [preset: {"manual", "hourly", "daily", "monthly", "cron"}, time: Time, day: Days]

\* Another preset is chosen.
LEMMA PresetEdited == ASSUME EditorInv, ChoosePreset PROVE Edited
<1> DEFINE c  == ui.controls
           on(p) == [ui.form EXCEPT !.enabled = p /= "manual"]
<1>1. PICK p \in {"manual", "hourly", "daily", "monthly", "cron"} :
        ChangeForm([ui EXCEPT !.controls.preset = p],
          IF p \in {"daily", "monthly"}
          THEN [on(p) EXCEPT !.type = IF p = "monthly" THEN p ELSE "cron", !.cron = PresetCron(p, c.time, c.day)]
          ELSE [on(p) EXCEPT !.type = p])
  BY DEF ChoosePreset
<1>2. Editing /\ Idle /\ ui.form.version = 4
  BY DEF ChoosePreset, Scheduling
<1>3. ui \in FormStates /\ ui.form \in Form
  BY <1>2, EditingAllowed
<1>4. c \in ControlStates /\ c.time \in Time /\ c.day \in Days
  BY <1>3 DEF FormStates, ControlStates
<1> DEFINE d    == [c EXCEPT !.preset = p]
           u    == [ui EXCEPT !.controls = d]
           o    == on(p)
           type == IF p = "monthly" THEN p ELSE IF p = "daily" THEN "cron" ELSE p
           cron == IF p \in {"daily", "monthly"} THEN PresetCron(p, c.time, c.day) ELSE ui.form.cron
           g    == [o EXCEPT !.type = type, !.cron = cron]
<1>5. d \in ControlStates /\ d.preset = p /\ d.time = c.time /\ d.day = c.day
  BY <1>4 DEF ControlStates
<1>6. o \in Form /\ SameCommand(o, ui.form) /\ o.cron = ui.form.cron /\ o.enabled = (p /= "manual")
  BY <1>3 DEF Form, SameCommand
<1>7. [ui EXCEPT !.controls.preset = p] = u
  BY <1>3 DEF FormStates
<1>8. p \notin {"daily", "monthly"} => [o EXCEPT !.type = p] = g
  <2>1. [o EXCEPT !.cron = o.cron] = o
    BY <1>6 DEF Form
  <2>2. p \notin {"daily", "monthly"} => type = p /\ cron = o.cron
    BY <1>6
  <2> HIDE DEF o, type, cron
  <2>3. [o EXCEPT !.type = p, !.cron = o.cron] = [o EXCEPT !.type = p]
    BY <1>6 DEF Form
  <2>4. QED
    BY <2>2, <2>3
<1>9. ChangeForm(u, g)
  <2>1. p \in {"daily", "monthly"} => type = (IF p = "monthly" THEN p ELSE "cron") /\ cron = PresetCron(p, c.time, c.day)
    OBVIOUS
  <2>2. CASE p \in {"daily", "monthly"}
    <3>1. ChangeForm([ui EXCEPT !.controls.preset = p],
            [o EXCEPT !.type = IF p = "monthly" THEN p ELSE "cron", !.cron = PresetCron(p, c.time, c.day)])
      BY <1>1, <2>2
    <3> HIDE DEF u, o, type, cron, c
    <3>2. QED
      BY <1>7, <2>1, <2>2, <3>1
  <2>3. CASE p \notin {"daily", "monthly"}
    <3>1. ChangeForm([ui EXCEPT !.controls.preset = p], [o EXCEPT !.type = p])
      BY <1>1, <2>3
    <3> HIDE DEF u, g, o
    <3>2. QED
      BY <1>7, <1>8, <2>3, <3>1
  <2>4. QED
    BY <2>2, <2>3
<1>10. /\ PresetCron(p, c.time, c.day) \in Cron \cup {NoCron}
       /\ p = "monthly" => PresetCron(p, c.time, c.day) = NoCron \/ MonthlyCron(PresetCron(p, c.time, c.day))
  BY <1>4, PresetWrites
<1>11. /\ type \in {"manual", "hourly", "monthly", "cron"} /\ cron \in Cron \cup {NoCron}
       /\ (type = "monthly" <=> p = "monthly") /\ (type = "manual" <=> p = "manual")
       /\ (p = "daily" => type = "cron") /\ (p /= "daily" => type = p)
       /\ (p \in {"daily", "monthly"} => cron = PresetCron(p, c.time, c.day))
  <2>1. ui.form.cron \in Cron \cup {NoCron}
    BY <1>3 DEF Form
  <2>2. QED
    BY <1>10, <2>1
<1> HIDE DEF c, d, o, type, cron
<1>12. g \in Form /\ SameCommand(g, o) /\ g.type = type /\ g.cron = cron /\ g.enabled = o.enabled
  BY <1>6, <1>11 DEF Form, SameCommand
<1>13. u \in FormStates /\ u.controls = d /\ u.paths = ui.paths
  BY <1>3, <1>5, ControlsOf DEF ControlStates
<1> HIDE DEF g, u
<1>14. SameCommand(g, ui.form)
  BY <1>6, <1>12 DEF SameCommand
<1>15. Agree(u.controls, g)
  BY <1>5, <1>11, <1>12, <1>13 DEF Agree
<1>16. g.type = "monthly" /\ g.cron /= NoCron => MonthlyCron(g.cron)
  BY <1>10, <1>11, <1>12
<1>17. g.enabled => g.type /= "manual"
  BY <1>6, <1>11, <1>12
<1>18. QED
  BY <1>2, <1>9, <1>12, <1>13, <1>14, <1>15, <1>16, <1>17, SwitchKept, ScheduleEdit

\* The day of a monthly schedule is chosen.
LEMMA DayEdited == ASSUME EditorInv, ChooseDay PROVE Edited
<1> DEFINE c == ui.controls
<1>1. PICK d \in Days : ChangeForm([ui EXCEPT !.controls.day = d], [ui.form EXCEPT !.cron = PresetCron("monthly", c.time, d)])
  BY DEF ChooseDay
<1>2. Editing /\ Idle /\ ui.form.version = 4 /\ c.preset = "monthly"
  BY DEF ChooseDay, ScheduleShown, Scheduling
<1>3. ui \in FormStates /\ ui.form \in Form /\ UiRight(ui)
  BY <1>2, EditingAllowed DEF EditorInv
<1>4. c \in ControlStates /\ c.time \in Time
  BY <1>3 DEF FormStates, ControlStates
<1> DEFINE cron == PresetCron("monthly", c.time, d)
           k    == [c EXCEPT !.day = d]
           u    == [ui EXCEPT !.controls = k]
           g    == [ui.form EXCEPT !.cron = cron]
<1>5. k \in ControlStates /\ k.preset = c.preset /\ k.time = c.time /\ k.day = d
  BY <1>4 DEF ControlStates
<1>6. ChangeForm(u, g)
  <2>1. [ui EXCEPT !.controls.day = d] = u
    BY <1>3 DEF FormStates
  <2> HIDE DEF u
  <2>2. QED
    BY <1>1, <2>1
<1>7. cron \in Cron \cup {NoCron} /\ (cron = NoCron \/ MonthlyCron(cron))
  BY <1>4, PresetWrites
<1>8. cron = PresetCron("monthly", k.time, k.day)
  BY <1>5
<1>9. ui.form.type = "monthly" /\ (ui.form.enabled => ui.form.type /= "manual")
  BY <1>2, <1>3 DEF UiRight, Agree
<1> HIDE DEF c, cron, k
<1>10. g \in Form /\ SameCommand(g, ui.form) /\ g.cron = cron /\ g.type = ui.form.type /\ g.enabled = ui.form.enabled
  BY <1>3, <1>7 DEF Form, SameCommand
<1>11. u \in FormStates /\ u.controls = k /\ u.paths = ui.paths
  BY <1>3, <1>5, ControlsOf DEF ControlStates
<1> HIDE DEF g, u
<1>12. Agree(u.controls, g)
  BY <1>2, <1>5, <1>8, <1>9, <1>10, <1>11 DEF Agree
<1>13. (g.type = "monthly" /\ g.cron /= NoCron => MonthlyCron(g.cron)) /\ (g.enabled => g.type /= "manual")
  BY <1>7, <1>9, <1>10
<1>14. QED
  BY <1>2, <1>6, <1>10, <1>11, <1>12, <1>13, SwitchKept, ScheduleEdit

\* The time of a daily or monthly schedule is chosen.
LEMMA TimeEdited == ASSUME EditorInv, ChooseTime PROVE Edited
<1> DEFINE c == ui.controls
<1>1. PICK t \in Times : ChangeForm([ui EXCEPT !.controls.time = t], [ui.form EXCEPT !.cron = PresetCron(c.preset, t, c.day)])
  BY DEF ChooseTime
<1>2. Editing /\ Idle /\ ui.form.version = 4 /\ c.preset \in {"daily", "monthly"}
  BY DEF ChooseTime, ScheduleShown, Scheduling
<1>3. ui \in FormStates /\ ui.form \in Form /\ UiRight(ui) /\ t \in Time
  BY <1>2, EditingAllowed, ScriptFormAssumption DEF EditorInv
<1>4. c \in ControlStates /\ c.day \in Days
  BY <1>3 DEF FormStates, ControlStates
<1> DEFINE cron == PresetCron(c.preset, t, c.day)
           k    == [c EXCEPT !.time = t]
           u    == [ui EXCEPT !.controls = k]
           g    == [ui.form EXCEPT !.cron = cron]
<1>5. k \in ControlStates /\ k.preset = c.preset /\ k.time = t /\ k.day = c.day
  BY <1>3, <1>4 DEF ControlStates
<1>6. ChangeForm(u, g)
  <2>1. [ui EXCEPT !.controls.time = t] = u
    BY <1>3 DEF FormStates
  <2> HIDE DEF u
  <2>2. QED
    BY <1>1, <2>1
<1>7. cron \in Cron \cup {NoCron} /\ (c.preset = "monthly" => cron = NoCron \/ MonthlyCron(cron))
  BY <1>3, <1>4, PresetWrites
<1>8. cron = PresetCron(k.preset, k.time, k.day)
  BY <1>5
<1>9. /\ ui.form.type /= "manual" /\ (ui.form.type = "monthly" => c.preset = "monthly")
      /\ (c.preset = "daily" => ui.form.type = "cron") /\ (c.preset = "monthly" => ui.form.type = "monthly")
  BY <1>2, <1>3 DEF UiRight, Agree
<1> HIDE DEF c, cron, k
<1>10. g \in Form /\ SameCommand(g, ui.form) /\ g.cron = cron /\ g.type = ui.form.type /\ g.enabled = ui.form.enabled
  BY <1>3, <1>7 DEF Form, SameCommand
<1>11. u \in FormStates /\ u.controls = k /\ u.paths = ui.paths
  BY <1>3, <1>5, ControlsOf DEF ControlStates
<1> HIDE DEF g, u
<1>12. Agree(u.controls, g)
  BY <1>2, <1>5, <1>8, <1>9, <1>10, <1>11 DEF Agree
<1>13. (g.type = "monthly" /\ g.cron /= NoCron => MonthlyCron(g.cron)) /\ (g.enabled => g.type /= "manual")
  BY <1>7, <1>9, <1>10
<1>14. QED
  BY <1>2, <1>6, <1>10, <1>11, <1>12, <1>13, SwitchKept, ScheduleEdit

\* An expression is typed.
LEMMA CronEdited == ASSUME EditorInv, TypeCron PROVE Edited
<1>1. PICK c \in Crons : ChangeForm(ui, [ui.form EXCEPT !.cron = c])
  BY DEF TypeCron, Update
<1>2. Editing /\ Idle /\ ui.form.version = 4 /\ ui.controls.preset = "cron"
  BY DEF TypeCron, ScheduleShown, Scheduling
<1>3. ui \in FormStates /\ ui.form \in Form /\ UiRight(ui) /\ c \in Cron \cup {NoCron}
  BY <1>2, EditingAllowed, ScriptFormAssumption DEF EditorInv
<1> DEFINE g == [ui.form EXCEPT !.cron = c]
<1>4. g \in Form /\ SameCommand(g, ui.form) /\ g.cron = c /\ g.type = ui.form.type /\ g.enabled = ui.form.enabled
  BY <1>3 DEF Form, SameCommand
<1>5. ui.form.type = "cron"
  BY <1>2, <1>3 DEF UiRight, Agree
<1> HIDE DEF g
<1>6. Agree(ui.controls, g)
  BY <1>2, <1>4, <1>5 DEF Agree
<1>7. (g.type = "monthly" /\ g.cron /= NoCron => MonthlyCron(g.cron)) /\ (g.enabled => g.type /= "manual")
  BY <1>4, <1>5
<1>8. QED
  BY <1>1, <1>2, <1>3, <1>4, <1>6, <1>7, SwitchKept, ScheduleEdit DEF g

\* The switch turns the preset with the form.
LEMMA SwitchEdited == ASSUME EditorInv, ToggleSchedule PROVE Edited
<1> DEFINE c      == ui.controls
           f      == ui.form
           on     == ~(IF switch = None THEN f.enabled ELSE switch.to)
           preset == IF on /\ c.preset = "manual" THEN "hourly" ELSE c.preset
           type   == IF on /\ f.type = "manual" THEN "hourly" ELSE f.type
           k      == [c EXCEPT !.preset = preset]
           u      == [ui EXCEPT !.controls = k]
           g      == [f EXCEPT !.enabled = on, !.type = type]
<1>1. Editing /\ f.version = 4 /\ UNCHANGED <<saved, modal, saving>>
  BY DEF ToggleSchedule
<1>2. /\ ui \in FormStates /\ f \in Form /\ UiRight(ui) /\ c \in ControlStates
  BY <1>1, EditingAllowed DEF EditorInv, FormStates, ControlStates
<1>3. on \in BOOLEAN
  OBVIOUS
<1>4. ChangeForm(u, g)
  <2>1. ChangeForm([ui EXCEPT !.controls.preset = IF on /\ @ = "manual" THEN "hourly" ELSE @],
                   [f EXCEPT !.enabled = on, !.type = IF on /\ @ = "manual" THEN "hourly" ELSE @])
    BY DEF ToggleSchedule
  <2> HIDE DEF on
  <2>2. [ui EXCEPT !.controls.preset = IF on /\ @ = "manual" THEN "hourly" ELSE @] = u
    BY <1>2 DEF FormStates
  <2>3. [f EXCEPT !.enabled = on, !.type = IF on /\ @ = "manual" THEN "hourly" ELSE @] = g
    BY <1>2 DEF Form
  <2> HIDE DEF u, g
  <2>4. QED
    BY <2>1, <2>2, <2>3
<1>5. switch' = [pc |-> "timer", to |-> on, sends |-> IF saved = None THEN None ELSE [saved EXCEPT !.enabled = on]]
  BY DEF ToggleSchedule
<1> HIDE DEF on
<1>6. SwitchRight(switch')
  <2> DEFINE s == [saved EXCEPT !.enabled = on]
  <2>1. saved /= None => s \in Form /\ SameCommand(s, saved) /\ s.type = saved.type /\ s.cron = saved.cron /\ s.runtime = saved.runtime
    BY <1>3 DEF EditorInv, FormFits, Formed, Form, SameCommand
  <2> HIDE DEF s
  <2>2. saved /= None => Formed(s) /\ JarFits(s)
    BY <2>1 DEF EditorInv, FormFits, Formed, JarFits, SameCommand
  <2>3. switch'.sends = (IF saved = None THEN None ELSE s) /\ switch'.pc = "timer"
    BY <1>5 DEF s
  <2>4. switch' \in [pc: {"timer", "request"}, to: BOOLEAN, sends: Form \cup {None}]
    BY <1>3, <1>5, <2>1 DEF s
  <2>5. QED
    BY <2>2, <2>3, <2>4 DEF SwitchRight
<1>7. /\ type \in {"manual", "hourly", "monthly", "cron"} /\ (on => type /= "manual")
      /\ (type = "monthly" => f.type = "monthly")
  BY <1>2 DEF Form
<1>8. preset \in {"manual", "hourly", "daily", "monthly", "cron"}
  BY <1>2 DEF ControlStates
<1>9. /\ preset \in {"daily", "monthly"} => preset = c.preset /\ type = f.type
      /\ preset \notin {"daily", "monthly"} => type = preset
  BY <1>2 DEF UiRight, Agree
<1>10. k \in ControlStates /\ k.preset = preset /\ k.time = c.time /\ k.day = c.day
  <2> HIDE DEF preset
  <2>1. QED
    BY <1>2, <1>8 DEF ControlStates
<1>11. g \in Form /\ SameCommand(g, f) /\ g.cron = f.cron /\ g.type = type /\ g.enabled = on
  <2> HIDE DEF type
  <2>1. QED
    BY <1>2, <1>3, <1>7 DEF Form, SameCommand
<1> HIDE DEF preset, type, k
<1>12. u \in FormStates /\ u.controls = k /\ u.paths = ui.paths
  BY <1>2, <1>10, ControlsOf DEF ControlStates
<1> HIDE DEF u, g
<1>13. Agree(u.controls, g)
  BY <1>2, <1>9, <1>10, <1>11, <1>12 DEF Agree, UiRight
<1>14. (g.type = "monthly" /\ g.cron /= NoCron => MonthlyCron(g.cron)) /\ (g.enabled => g.type /= "manual")
  BY <1>2, <1>7, <1>11 DEF UiRight, FormFits, Formed
<1>15. QED
  BY <1>1, <1>4, <1>6, <1>11, <1>12, <1>13, <1>14, ScheduleEdit

(***************************************************************************)
(* Steps that are not edits                                                 *)
(***************************************************************************)
\* A form is its own but for nothing.
LEMMA IsItself == ASSUME NEW f \in Form PROVE IsBut(f, f)
BY DEF IsBut, Form

\* A step of the rest of the editor that leaves the form and the draft alone
LEMMA FormLeftAlone ==
  ASSUME EditorInv, UNCHANGED <<draft, ui, saving, edits, lastPath>>,
         saved' /= None => FormFits(saved') /\ (saved'.type = "monthly" => saved'.cron /= NoCron),
         modal' /= NoModal => Shown /\ CommandRight(modal') /\ saving = None,
         switch' /= None => SwitchRight(switch')
  PROVE  EditorInv'
<1>1. saving' /= None => SavingRight'
  BY DEF EditorInv, SavingRight, Shown
<1>2. QED
  BY <1>1 DEF EditorInv, Shown

\* The command editor is open only while nothing is being saved.
LEMMA NoSaveInCommand == ASSUME EditorInv, modal /= NoModal PROVE Shown /\ CommandRight(modal) /\ saving = None
BY DEF EditorInv, SavingRight

\* The editor is opened, with the draft or the saved script.
LEMMA OpenInv == ASSUME EditorInv, Open PROVE EditorInv'
<1> DEFINE shown == IF draft = None THEN InitialForm(saved) ELSE draft
<1>1. /\ ui = None /\ saving = None /\ ui' = (IF Breaks(shown) THEN Broken ELSE Mounted(shown))
      /\ lastPath' = [NoPaths EXCEPT ![shown.source] = shown.path]
      /\ UNCHANGED <<saved, draft, modal, saving, switch, edits>>
  BY DEF Open
<1>2. FormFits(shown) /\ draft \in {None, shown}
  BY InitialFits DEF EditorInv
<1>3. modal = NoModal
  BY <1>1 DEF EditorInv, Shown
<1> HIDE DEF shown
<1>4. Shown' => UiRight(ui') /\ PathsRight(ui'.paths, ui'.form, lastPath') /\ ui'.form = shown
  <2> SUFFICES ASSUME Shown' PROVE UiRight(ui') /\ PathsRight(ui'.paths, ui'.form, lastPath') /\ ui'.form = shown
    OBVIOUS
  <2>1. ~Breaks(shown) /\ ui' = Mounted(shown)
    BY <1>1 DEF Shown
  <2>2. QED
    BY <1>1, <1>2, <2>1, MountedRight
<1>5. QED
  BY <1>1, <1>2, <1>3, <1>4 DEF EditorInv

\* The editor is left; a save goes on.
LEMMA LeaveInv == ASSUME EditorInv, Leave PROVE EditorInv'
<1>1. ui' = None /\ modal' = NoModal /\ UNCHANGED <<saved, draft, saving, edits, lastPath>> /\ switch' \in {None, switch}
  BY DEF Leave
<1>2. saving' /= None => SavingRight'
  BY <1>1 DEF EditorInv, SavingRight, Shown
<1>3. QED
  BY <1>1, <1>2 DEF EditorInv, Shown

\* The command editor is opened.
LEMMA OpenCommandInv == ASSUME EditorInv, OpenCommand PROVE EditorInv'
<1> DEFINE f == ui.form
<1>1. /\ Shown /\ ~Pending /\ UNCHANGED <<saved, draft, ui, saving, switch, edits, lastPath>>
      /\ modal' = [mode |-> f.mode, shell |-> f.shell, args |-> f.args, valid |-> TRUE,
                   keptArgs |-> f.args, keptShell |-> IF f.shell = None THEN "" ELSE f.shell]
  BY DEF OpenCommand
<1>2. /\ f.mode \in {"arguments", "shell"} /\ f.shell \in {None, "", "typed", "preview"} /\ f.args \in {"none", "some"}
      /\ (f.mode = "arguments" => f.shell = None) /\ (f.mode = "shell" => f.args = "none")
  BY <1>1 DEF EditorInv, UiRight, FormFits, Formed, Form
<1> HIDE DEF f
<1>3. CommandRight(modal')
  BY <1>1, <1>2 DEF CommandRight
<1>4. saving = None
  BY <1>1 DEF Pending
<1>5. saved' /= None => FormFits(saved') /\ (saved'.type = "monthly" => saved'.cron /= NoCron)
  BY <1>1 DEF EditorInv
<1>6. switch' /= None => SwitchRight(switch')
  BY <1>1 DEF EditorInv
<1>7. QED
  BY <1>1, <1>3, <1>4, <1>5, <1>6, FormLeftAlone

\* What is done in the command editor is a change of the editor's own draft.
LEMMA InCommandInv == ASSUME EditorInv, InCommand, CommandRight(modal') PROVE EditorInv'
<1>1. /\ modal /= NoModal /\ edits < MaxEdits /\ edits' = edits + 1
      /\ UNCHANGED <<saved, draft, ui, saving, switch, lastPath>>
  BY DEF InCommand
<1>2. edits' \in 0..MaxEdits
  <2>1. edits \in 0..MaxEdits /\ MaxEdits \in Nat
    BY ScriptFormAssumption DEF EditorInv
  <2>2. QED
    BY <1>1, <2>1
<1>3. Shown /\ saving = None
  BY <1>1, NoSaveInCommand
<1>4. QED
  BY <1>1, <1>2, <1>3 DEF EditorInv, Shown

\* Arguments and Bash text take turns.
LEMMA SwitchModeInv == ASSUME EditorInv, SwitchMode PROVE EditorInv'
<1> DEFINE shell == modal.mode = "shell"
           kept == IF shell THEN [modal EXCEPT !.keptShell = IF @ = None THEN "" ELSE modal.shell]
                   ELSE [modal EXCEPT !.keptArgs = modal.args]
           text == IF kept.keptShell /= "" THEN kept.keptShell
                   ELSE IF ui.form.path /= Blank THEN "preview" ELSE ""
           States == [mode: {"arguments", "shell"}, shell: {None, "", "typed", "preview"}, args: {"none", "some"},
                      valid: BOOLEAN, keptArgs: {"none", "some"}, keptShell: {None, "", "typed", "preview"}]
<1>1. /\ InCommand
      /\ modal' = IF shell
                  THEN [kept EXCEPT !.mode = "arguments", !.shell = None, !.args = kept.keptArgs, !.valid = TRUE]
                  ELSE [kept EXCEPT !.mode = "shell", !.shell = text, !.args = "none", !.valid = text /= ""]
  BY DEF SwitchMode
<1>2. modal \in States
  BY <1>1, NoSaveInCommand DEF InCommand, CommandRight
<1>3. kept \in States
  BY <1>2
<1> HIDE DEF kept
<1>4. text \in {None, "", "typed", "preview"} /\ (text /= "") \in BOOLEAN
  BY <1>3
<1> HIDE DEF text, shell
<1>5. modal' \in States /\ (modal'.mode = "arguments" => modal'.shell = None) /\ (modal'.mode = "shell" => modal'.args = "none")
  <2> DEFINE asArguments == [kept EXCEPT !.mode = "arguments", !.shell = None, !.args = kept.keptArgs, !.valid = TRUE]
             valid == text /= ""
             asShell == [kept EXCEPT !.mode = "shell", !.shell = text, !.args = "none", !.valid = valid]
  <2>1. asArguments \in States /\ asArguments.shell = None /\ asArguments.mode = "arguments"
    BY <1>3
  <2>2. asShell \in States /\ asShell.args = "none" /\ asShell.mode = "shell"
    <3> HIDE DEF valid
    <3>1. valid \in BOOLEAN
      BY <1>4 DEF valid
    <3>2. QED
      BY <1>3, <1>4, <3>1
  <2>3. modal' = asArguments \/ modal' = asShell
    BY <1>1
  <2> HIDE DEF asArguments, asShell, States
  <2>4. QED
    BY <2>1, <2>2, <2>3
<1>6. CommandRight(modal')
  BY <1>5 DEF CommandRight
<1>7. QED
  BY <1>1, <1>6, InCommandInv

\* Arguments are typed.
LEMMA TypeArgumentsInv == ASSUME EditorInv, TypeArguments PROVE EditorInv'
<1>1. InCommand /\ modal.mode = "arguments" /\ CommandRight(modal)
  BY NoSaveInCommand DEF TypeArguments, InCommand
<1>2. PICK a \in {"none", "some"} : modal' = [modal EXCEPT !.args = a, !.valid = TRUE] \/ modal' = [modal EXCEPT !.valid = FALSE]
  BY DEF TypeArguments
<1>3. CommandRight(modal')
  BY <1>1, <1>2 DEF CommandRight
<1>4. QED
  BY <1>1, <1>3, InCommandInv

\* Bash text is typed.
LEMMA TypeShellInv == ASSUME EditorInv, TypeShell PROVE EditorInv'
<1>1. InCommand /\ modal.mode = "shell" /\ CommandRight(modal)
  BY NoSaveInCommand DEF TypeShell, InCommand
<1>2. PICK t \in {"", "typed"} : modal' = [modal EXCEPT !.shell = t, !.valid = t /= ""]
  BY DEF TypeShell
<1> DEFINE valid == t /= ""
<1>3. valid \in BOOLEAN /\ modal' = [modal EXCEPT !.shell = t, !.valid = valid]
  BY <1>2
<1> HIDE DEF valid
<1>4. CommandRight(modal')
  BY <1>1, <1>3 DEF CommandRight
<1>5. QED
  BY <1>1, <1>4, InCommandInv

\* The command editor is left without a change.
LEMMA CancelCommandInv == ASSUME EditorInv, CancelCommand PROVE EditorInv'
<1>1. modal' = NoModal /\ UNCHANGED <<saved, draft, ui, saving, switch, edits, lastPath>>
  BY DEF CancelCommand
<1>2. saved' /= None => FormFits(saved') /\ (saved'.type = "monthly" => saved'.cron /= NoCron)
  BY <1>1 DEF EditorInv
<1>3. switch' /= None => SwitchRight(switch')
  BY <1>1 DEF EditorInv
<1>4. QED
  BY <1>1, <1>2, <1>3, FormLeftAlone

\* The switch sends its script.
LEMMA TimerFiresInv == ASSUME EditorInv, TimerFires PROVE EditorInv'
<1>1. /\ switch /= None /\ switch' = (IF switch.sends = None THEN None ELSE [switch EXCEPT !.pc = "request"])
      /\ UNCHANGED <<saved, draft, ui, modal, saving, edits, lastPath>>
  BY DEF TimerFires
<1>2. switch' /= None => SwitchRight(switch')
  <2>1. SwitchRight(switch)
    BY <1>1 DEF EditorInv
  <2>2. QED
    BY <1>1, <2>1 DEF SwitchRight
<1>3. modal' /= NoModal => Shown /\ CommandRight(modal') /\ saving = None
  BY <1>1, NoSaveInCommand
<1>4. saved' /= None => FormFits(saved') /\ (saved'.type = "monthly" => saved'.cron /= NoCron)
  BY <1>1 DEF EditorInv
<1>5. QED
  BY <1>1, <1>2, <1>3, <1>4, FormLeftAlone

\* The server takes what the switch sent, or refuses it.
LEMMA ToggleAnsweredInv == ASSUME EditorInv, ToggleAnswered PROVE EditorInv'
<1> DEFINE sent == switch.sends
<1>1. /\ switch /= None /\ switch.pc = "request" /\ switch' = None
      /\ UNCHANGED <<draft, ui, modal, saving, edits, lastPath>>
      /\ saved' = IF AcceptsExecution(sent) /\ AcceptsSchedule(sent) THEN sent ELSE saved
  BY DEF ToggleAnswered
<1>2. sent \in Form
  BY <1>1 DEF EditorInv, SwitchRight, Formed
<1> HIDE DEF sent
<1>3. saved' /= None => FormFits(saved') /\ (saved'.type = "monthly" => saved'.cron /= NoCron)
  <2>1. CASE AcceptsExecution(sent) /\ AcceptsSchedule(sent)
    BY <1>1, <1>2, <2>1, AcceptedFits
  <2>2. CASE ~(AcceptsExecution(sent) /\ AcceptsSchedule(sent))
    BY <1>1, <2>2 DEF EditorInv
  <2>3. QED
    BY <2>1, <2>2
<1>4. modal' /= NoModal => Shown /\ CommandRight(modal') /\ saving = None
  BY <1>1, NoSaveInCommand
<1>5. QED
  BY <1>1, <1>3, <1>4, FormLeftAlone

\* The role picker keeps its selection when the form is cleared.
LEMMA ClearFormInv == ASSUME EditorInv, ClearForm PROVE EditorInv' /\ ui'.form = InitialForm(saved) /\ draft' = None
<1> DEFINE next == InitialForm(saved)
           m    == Mounted(next)
<1>1. /\ Editing /\ Idle /\ ui' = [m EXCEPT !.roles = ui.roles] /\ draft' = None
      /\ lastPath' = [NoPaths EXCEPT ![next.source] = next.path]
  BY DEF ClearForm
<1>2. /\ Shown /\ saving = None /\ modal = NoModal /\ edits' \in 0..MaxEdits /\ ui.roles \in SUBSET Roles
      /\ UNCHANGED <<saved, modal, saving, switch>>
  BY <1>1, EditingAllowed DEF Idle, FormStates
<1>3. /\ UiRight(m) /\ m.form = next /\ m.submitted = FALSE
      /\ PathsRight(m.paths, next, [NoPaths EXCEPT ![next.source] = next.path])
  BY InitialFits, MountedRight
<1> HIDE DEF m, next
<1>4. m \in FormStates
  BY <1>3 DEF UiRight
<1>5. /\ ui' \in FormStates /\ ui'.form = next /\ ui'.submitted = FALSE /\ ui'.controls = m.controls /\ ui'.paths = m.paths
  BY <1>1, <1>2, <1>3, <1>4 DEF FormStates
<1>6. UiRight(ui')
  BY <1>3, <1>5 DEF UiRight, Marked
<1>7. PathsRight(ui'.paths, ui'.form, lastPath')
  BY <1>1, <1>3, <1>5
<1>8. EditorInv'
  BY <1>1, <1>2, <1>6, <1>7 DEF EditorInv
<1>9. QED
  BY <1>1, <1>5, <1>8 DEF next

\* A click on Reactivate may come while the form is being saved.
LEMMA ReactivateInv ==
  ASSUME EditorInv, Reactivate
  PROVE  EditorInv' /\ draft' = ui'.form /\ draft' /= None /\ ui'.form.source = ui.form.source
<1> DEFINE g == [ui.form EXCEPT !.active = TRUE]
<1>1. /\ Shown /\ modal = NoModal /\ edits < MaxEdits /\ edits' = edits + 1 /\ ChangeForm(ui, g)
      /\ UNCHANGED <<saved, modal, saving, switch>>
  BY DEF Reactivate, Update, Idle
<1>2. edits' \in 0..MaxEdits
  <2>1. edits \in 0..MaxEdits /\ MaxEdits \in Nat
    BY ScriptFormAssumption DEF EditorInv
  <2>2. QED
    BY <1>1, <2>1
<1>3. ui \in FormStates /\ ui.form \in Form /\ FormFits(ui.form)
  BY <1>1 DEF EditorInv, UiRight, FormStates
<1>4. g \in Form /\ SamePlan(g, ui.form) /\ g.jar = ui.form.jar /\ g.runtime = ui.form.runtime
  BY <1>3 DEF Form, SamePlan
<1>5. saving /= None => IsBut(g, saving)
  <2> SUFFICES ASSUME saving /= None PROVE IsBut(g, saving)
    OBVIOUS
  <2>1. [ui.form EXCEPT !.active = saving.active] = saving
    BY <1>1 DEF EditorInv, SavingRight, IsBut
  <2>2. [g EXCEPT !.active = saving.active] = [ui.form EXCEPT !.active = saving.active]
    BY <1>3 DEF Form
  <2> HIDE DEF g
  <2>3. QED
    BY <1>4, <2>1, <2>2 DEF IsBut
<1> HIDE DEF g
<1>6. g.jar => g.version = 4
  BY <1>3, <1>4 DEF FormFits, Formed, SamePlan
<1>7. JarFits(g)
  BY <1>3, <1>4 DEF FormFits, JarFits, SamePlan
<1>8. WithoutUnfitJar(g) = g
  BY <1>4, <1>7, JarTaken
<1>9. /\ UiRight(ui') /\ PathsRight(ui'.paths, ui'.form, lastPath') /\ draft' = ui'.form /\ ui'.form = g
  <2>1. Change(ui, g)
    BY <1>1, <1>3, <1>4, <1>6, PlainChange
  <2>2. QED
    BY <1>1, <1>8, <2>1, ChangeFormRight
<1>10. saving' /= None => SavingRight'
  BY <1>1, <1>5, <1>9 DEF EditorInv, SavingRight
<1>11. FormFits(draft')
  BY <1>9 DEF UiRight
<1>12. saved' /= None => FormFits(saved') /\ (saved'.type = "monthly" => saved'.cron /= NoCron)
  BY <1>1 DEF EditorInv
<1>13. switch' /= None => SwitchRight(switch')
  BY <1>1 DEF EditorInv
<1>14. EditorInv'
  BY <1>1, <1>2, <1>9, <1>10, <1>11, <1>12, <1>13 DEF EditorInv
<1>15. QED
  BY <1>4, <1>9, <1>14, NoneIsNoForm DEF SamePlan

\* What is sent has passed the validation; what is not is marked.
LEMMA SaveInv == ASSUME EditorInv, Save PROVE EditorInv' /\ ui'.form = ui.form
<1> DEFINE errors == ValidateScriptForm(ui.form)
<1>1. /\ Shown /\ ~Pending /\ modal = NoModal /\ ui' = [ui EXCEPT !.submitted = TRUE, !.errors = errors]
      /\ saving' = (IF errors = {} THEN ui.form ELSE None) /\ UNCHANGED <<saved, draft, modal, switch, edits, lastPath>>
  BY DEF Save
<1>2. UiRight(ui) /\ ui \in FormStates /\ ui.form \in Form /\ draft \in {None, ui.form}
  BY <1>1 DEF EditorInv, UiRight, FormStates
<1>3. errors \in SUBSET ErrorFields
  BY ErrorsAreFields
<1> HIDE DEF errors
<1>4. /\ ui' \in FormStates /\ ui'.form = ui.form /\ ui'.controls = ui.controls /\ ui'.paths = ui.paths /\ ui'.errors = errors
  BY <1>1, <1>2, <1>3 DEF FormStates, ErrorFields
<1>5. UiRight(ui')
  BY <1>2, <1>4 DEF UiRight, Marked, errors
<1>6. saving' /= None => SavingRight'
  <2> SUFFICES ASSUME saving' /= None PROVE SavingRight'
    OBVIOUS
  <2>1. saving' = ui.form /\ errors = {}
    BY <1>1
  <2>2. FormFits(ui.form) /\ ValidateScriptForm(ui.form) = {}
    BY <1>2, <2>1 DEF UiRight, errors
  <2>3. QED
    BY <1>1, <1>2, <1>4, <2>1, <2>2, IsItself DEF SavingRight
<1>7. PathsRight(ui'.paths, ui'.form, lastPath')
  BY <1>1, <1>4 DEF EditorInv
<1>8. QED
  BY <1>1, <1>4, <1>5, <1>6, <1>7 DEF EditorInv

\* What is saved had its expression, when it is monthly.
LEMMA SavedHasCron ==
  ASSUME NEW f, ValidateScriptForm(f) = {}
  PROVE  f.type = "monthly" => f.cron /= NoCron
<1>1. "scheduleCron" \notin ScheduleErrors(f)
  BY FieldInError
<1>2. QED
  BY <1>1, ScheduleInError

\* The form is saved and its draft goes.
LEMMA SaveSucceedsInv == ASSUME EditorInv, SaveSucceeds PROVE EditorInv'
<1>1. /\ saving /= None /\ saved' = (IF saved = None THEN None ELSE saving) /\ draft' = None /\ saving' = None
      /\ ui' = None /\ modal' = NoModal /\ UNCHANGED <<edits, lastPath>> /\ switch' \in {None, switch}
  BY DEF SaveSucceeds
<1>2. FormFits(saving) /\ (saving.type = "monthly" => saving.cron /= NoCron)
  BY <1>1, SavedHasCron DEF EditorInv, SavingRight
<1>3. switch' /= None => SwitchRight(switch')
  BY <1>1 DEF EditorInv
<1>4. saved' /= None => FormFits(saved') /\ (saved'.type = "monthly" => saved'.cron /= NoCron)
  BY <1>1, <1>2
<1>5. edits' \in 0..MaxEdits /\ ~Shown'
  BY <1>1 DEF EditorInv, Shown
<1>6. QED
  BY <1>1, <1>3, <1>4, <1>5 DEF EditorInv

\* A form that was sent had no error, so that the name is the one field in error when the server
\* refuses it.
LEMMA SaveFailsInv == ASSUME EditorInv, SaveFails PROVE EditorInv' /\ (Shown => ui'.form = ui.form)
<1>1. saving /= None /\ saving' = None /\ UNCHANGED <<saved, draft, modal, switch, edits, lastPath>>
  BY DEF SaveFails
<1>2. (Shown /\ ui' = [ui EXCEPT !.errors = {"name"}]) \/ ui' = ui
  BY DEF SaveFails
<1>3. CASE Shown /\ ui' = [ui EXCEPT !.errors = {"name"}]
  <2>1. UiRight(ui) /\ ui \in FormStates /\ PathsRight(ui.paths, ui.form, lastPath) /\ ui.form \in Form
    BY <1>3 DEF EditorInv, UiRight, FormStates
  <2>2. /\ ui' \in FormStates /\ ui'.form = ui.form /\ ui'.controls = ui.controls /\ ui'.paths = ui.paths
        /\ ui'.errors = {"name"} /\ ui'.submitted = ui.submitted
    BY <1>3, <2>1 DEF FormStates
  <2>3. ValidateScriptForm(ui.form) = {}
    BY <1>1, <1>3, <2>1, ActiveIsNoMatter DEF EditorInv, SavingRight, FormFits, Formed
  <2>4. UiRight(ui')
    BY <2>1, <2>2, <2>3 DEF UiRight, Marked
  <2>5. PathsRight(ui'.paths, ui'.form, lastPath')
    BY <1>1, <2>1, <2>2
  <2>6. modal' = NoModal /\ draft' \in {None, ui'.form} /\ (draft' /= None => FormFits(draft'))
    BY <1>1, <1>3, <2>2 DEF EditorInv, SavingRight
  <2>7. (saved' /= None => FormFits(saved') /\ (saved'.type = "monthly" => saved'.cron /= NoCron)) /\ edits' \in 0..MaxEdits
    BY <1>1 DEF EditorInv
  <2>8. switch' /= None => SwitchRight(switch')
    BY <1>1 DEF EditorInv
  <2>9. EditorInv'
    BY <1>1, <2>4, <2>5, <2>6, <2>7, <2>8 DEF EditorInv
  <2>10. QED
    BY <2>2, <2>9
<1>4. CASE ui' = ui
  BY <1>1, <1>4 DEF EditorInv, Shown
<1>5. QED
  BY <1>2, <1>3, <1>4

(***************************************************************************)
(* The editor                                                               *)
(***************************************************************************)
LEMMA EditorStarts == FormInit => EditorInv
<1> SUFFICES ASSUME FormInit PROVE EditorInv
  OBVIOUS
<1>1. /\ saved \in Scripts \cup {None} /\ draft = None /\ ui = None /\ modal = NoModal /\ saving = None /\ switch = None /\ edits = 0
  BY DEF FormInit
<1>2. saved /= None => FormFits(saved) /\ (saved.type = "monthly" => saved.cron /= NoCron)
  BY <1>1, ScriptsAssumption, AcceptedFits
<1>3. 0 \in 0..MaxEdits
  <2>1. MaxEdits \in Nat
    BY ScriptFormAssumption
  <2>2. QED
    BY <2>1
<1>4. QED
  BY <1>1, <1>2, <1>3 DEF EditorInv, Shown

\* What no step does: lose a change, drop a draft that is not saved, or forget the path that a
\* source was shown with.
ChangeInDraft ==
  Shown /\ Shown' /\ ui'.form /= ui.form => draft' = ui'.form \/ (draft' = None /\ ui'.form = InitialForm(saved))

DropIsMeant ==
  draft /= None /\ draft' = None =>
    \/ Shown' /\ ui'.form = InitialForm(saved)
    \/ saving /= None /\ [draft EXCEPT !.active = saving.active] = saving

PathIsKept ==
  Shown /\ Shown' /\ ui'.form.source /= ui.form.source /\ ui'.form /= InitialForm(saved) =>
    ui'.form.path = lastPath[ui'.form.source]

Keeps == ChangeInDraft /\ DropIsMeant /\ PathIsKept

\* An edit keeps what was typed.
LEMMA EditedKeeps == ASSUME EditorInv, Edited PROVE EditorInv' /\ Keeps
<1>1. draft' \in Form
  BY DEF Edited, UiRight, FormStates
<1>2. draft' = ui'.form /\ draft' /= None
  BY <1>1, NoneIsNoForm DEF Edited
<1>3. ui'.form.source /= ui.form.source => ui'.form.path = lastPath[ui'.form.source]
  BY DEF Edited
<1>4. QED
  BY <1>2, <1>3, EditedInv DEF Keeps, ChangeInDraft, DropIsMeant, PathIsKept

\* A step that leaves the draft, and the form that is mounted, keeps all.
LEMMA SameFormKeeps ==
  ASSUME draft' = draft, Shown /\ Shown' => ui'.form = ui.form
  PROVE  Keeps
BY DEF Keeps, ChangeInDraft, DropIsMeant, PathIsKept

\* So does each edit of the form.
LEMMA EditKeeps ==
  ASSUME EditorInv,
         \/ EditName \/ SwitchSource \/ TypeCommandPath \/ PickRepositoryPath \/ ChooseRuntime \/ ChooseReleaseJar
         \/ EditVariables \/ ChangeRoles \/ ApplyCommand \/ ChoosePreset \/ ChooseDay \/ ChooseTime \/ TypeMinute
         \/ TypeCron \/ ChooseTimezone \/ ToggleSchedule
  PROVE  EditorInv' /\ Keeps
<1>1. CASE EditName \/ SwitchSource \/ TypeCommandPath \/ PickRepositoryPath
  BY <1>1, NameEdited, SourceEdited, CommandPathEdited, RepositoryPathEdited, EditedKeeps
<1>2. CASE ChooseRuntime \/ ChooseReleaseJar \/ EditVariables \/ ChangeRoles
  BY <1>2, RuntimeEdited, ReleaseJarEdited, VariablesEdited, RolesEdited, EditedKeeps
<1>3. CASE ApplyCommand \/ ChoosePreset \/ ChooseDay \/ ChooseTime
  BY <1>3, CommandEdited, PresetEdited, DayEdited, TimeEdited, EditedKeeps
<1>4. CASE TypeMinute \/ TypeCron \/ ChooseTimezone \/ ToggleSchedule
  BY <1>4, MinuteEdited, CronEdited, TimezoneEdited, SwitchEdited, EditedKeeps
<1>5. QED
  BY <1>1, <1>2, <1>3, <1>4

\* So does the command editor, and the switch's request.
LEMMA CommandKeeps ==
  ASSUME EditorInv,
         OpenCommand \/ SwitchMode \/ TypeArguments \/ TypeShell \/ CancelCommand \/ TimerFires \/ ToggleAnswered
  PROVE  EditorInv' /\ Keeps
<1>1. EditorInv'
  BY OpenCommandInv, SwitchModeInv, TypeArgumentsInv, TypeShellInv, CancelCommandInv, TimerFiresInv, ToggleAnsweredInv
<1>2. UNCHANGED <<draft, ui>>
  BY DEF OpenCommand, SwitchMode, TypeArguments, TypeShell, InCommand, CancelCommand, TimerFires, ToggleAnswered
<1>3. QED
  BY <1>1, <1>2, SameFormKeeps

\* Every step preserves the invariant and keeps what was typed.
LEMMA EditorStep == EditorInv /\ [FormNext]_formVars => EditorInv' /\ Keeps
<1> SUFFICES ASSUME EditorInv, [FormNext]_formVars
             PROVE  EditorInv' /\ Keeps
  OBVIOUS
<1>1. CASE Open
  <2>1. ~Shown /\ draft' = draft
    BY <1>1 DEF Open, Shown
  <2>2. QED
    BY <1>1, <2>1, OpenInv, SameFormKeeps
<1>2. CASE Leave
  <2>1. ~Shown' /\ draft' = draft
    BY <1>2 DEF Leave, Shown
  <2>2. QED
    BY <1>2, <2>1, LeaveInv, SameFormKeeps
<1>3. CASE Reactivate
  BY <1>3, ReactivateInv DEF Keeps, ChangeInDraft, DropIsMeant, PathIsKept
<1>4. CASE ClearForm
  <2>1. Shown'
    <3>1. EditorInv' /\ ui' = [Mounted(InitialForm(saved)) EXCEPT !.roles = ui.roles]
      BY <1>4, ClearFormInv DEF ClearForm
    <3>2. UiRight(Mounted(InitialForm(saved))) /\ ui.roles \in SUBSET Roles
      BY <1>4, InitialFits, MountedRight, EditingAllowed DEF ClearForm, FormStates
    <3> DEFINE m == Mounted(InitialForm(saved))
    <3>3. m \in FormStates
      BY <3>2 DEF UiRight
    <3> HIDE DEF m
    <3>4. [m EXCEPT !.roles = ui.roles] \in FormStates
      BY <3>2, <3>3 DEF FormStates
    <3>5. QED
      BY <3>1, <3>4, NoneIsNoForm DEF Shown, m
  <2>2. QED
    BY <1>4, <2>1, ClearFormInv DEF Keeps, ChangeInDraft, DropIsMeant, PathIsKept
<1>5. CASE Save
  <2>1. draft' = draft
    BY <1>5 DEF Save
  <2>2. QED
    BY <1>5, <2>1, SaveInv, SameFormKeeps
<1>6. CASE SaveSucceeds
  <2>1. ~Shown' /\ saving /= None
    BY <1>6 DEF SaveSucceeds, Shown
  <2>2. draft /= None => [draft EXCEPT !.active = saving.active] = saving
    BY <2>1 DEF EditorInv, SavingRight, IsBut
  <2>3. QED
    BY <1>6, <2>1, <2>2, SaveSucceedsInv DEF Keeps, ChangeInDraft, DropIsMeant, PathIsKept
<1>7. CASE SaveFails
  <2>1. draft' = draft
    BY <1>7 DEF SaveFails
  <2>2. QED
    BY <1>7, <2>1, SaveFailsInv, SameFormKeeps
<1>8. CASE UNCHANGED formVars
  <2>1. EditorInv'
    BY <1>8 DEF formVars, EditorInv, SavingRight, Shown
  <2>2. QED
    BY <1>8, <2>1, SameFormKeeps DEF formVars
<1>9. QED
  BY <1>1, <1>2, <1>3, <1>4, <1>5, <1>6, <1>7, <1>8, EditKeeps, CommandKeeps DEF FormNext

\* The invariant is what the run checks, and more.
LEMMA EditorInvIsFits == EditorInv => EditorFits
<1> SUFFICES ASSUME EditorInv PROVE EditorFits
  OBVIOUS
<1>1. FormTypeOK
  BY DEF EditorInv, SavingRight, UiRight, FormFits, Formed, FormTypeOK
<1>2. ShownScheduleIsForm
  <2> SUFFICES ASSUME Shown PROVE ShownScheduleIsForm
    BY DEF ShownScheduleIsForm
  <2>1. Agree(ui.controls, ui.form)
    BY DEF EditorInv, UiRight
  <2>2. QED
    BY <2>1 DEF Agree, ShownScheduleIsForm
<1>3. SentIsAccepted
  BY ValidIsAccepted DEF EditorInv, SavingRight, SentIsAccepted
<1>4. MarksCurrent
  BY DEF EditorInv, UiRight, Marked, MarksCurrent
<1>5. QED
  BY <1>1, <1>2, <1>3, <1>4 DEF EditorFits

\* The invariant always holds.
LEMMA EditorAlways == FormSpec => []EditorInv
<1>1. EditorInv /\ [FormNext]_formVars => EditorInv'
  BY EditorStep
<1>2. QED
  BY EditorStarts, <1>1, PTL DEF FormSpec

\* What the editor shows, marks and sends (ScriptForm.tsx): the schedule controls and the form
\* agree, every field in error is marked after an attempt to save, and a form that passes the
\* editor's validation is one that the server takes, for any day, any presets and any edits.
THEOREM EditorIsRight == FormSpec => []EditorFits
BY EditorAlways, EditorInvIsFits, PTL

\* No step of the editor loses what was typed: a change is in the draft at once, a draft goes
\* when it is cleared or saved, and a source has the path that it was last shown with.
THEOREM EditorLosesNothing == FormSpec => EditorKeepsInput
<1>1. EditorInv /\ [FormNext]_formVars => [ChangeInDraft]_formVars
  BY EditorStep DEF Keeps
<1>2. EditorInv /\ [FormNext]_formVars => [DropIsMeant]_formVars
  BY EditorStep DEF Keeps
<1>3. EditorInv /\ [FormNext]_formVars => [PathIsKept]_formVars
  BY EditorStep DEF Keeps
<1>4. FormSpec => DraftFollowsForm
  BY EditorAlways, <1>1, PTL DEF FormSpec, DraftFollowsForm, ChangeInDraft
<1>5. FormSpec => DraftDroppedWhenSaved
  BY EditorAlways, <1>2, PTL DEF FormSpec, DraftDroppedWhenSaved, DropIsMeant
<1>6. FormSpec => SourcePathKept
  BY EditorAlways, <1>3, PTL DEF FormSpec, SourcePathKept, PathIsKept
<1>7. QED
  BY <1>4, <1>5, <1>6 DEF EditorKeepsInput

(***************************************************************************)
(* THE PAGE OF THE SCRIPTS                                                  *)
(***************************************************************************)
\* What a form may say: its own text, that of a new script, or an imported one.
TextsOf(k) == {t \in Texts : t[1] \in {k, "new", "import"}}

\* A list has the texts of its scripts.
ListRight(l) == DOMAIN l \subseteq Ids /\ \A s \in DOMAIN l : l[s] \in TextsOf(s)

\* What a call does
Operations == {"put", "delete", "upgrade", "create", "import"}

\* The calls that are sent
CallState == [op: Operations, script: Ids \cup Files \cup {None}, from: Keys \cup {None}, text: Texts \cup {None},
              createNew: BOOLEAN, got: Texts \cup {None, Deleted}, id: Nat, choice: {"update", "new", None},
              watched: BOOLEAN, here: BOOLEAN]

\* A call sends what may be saved as its script, and has read back what is.
CallRight(c) ==
  /\ c \in CallState
  /\ c.op = "put" => c.text \in TextsOf(c.script)
  /\ c.op = "create" => c.text \in TextsOf("new")
  /\ c.op = "import" => c.text = <<"import", 0>>
  /\ c.got /= None => c.script \in Ids
  /\ c.got \in Texts => c.got \in TextsOf(c.script)
  /\ c.got = Deleted => c.op = "delete"

\* A creation of the page is waited for in its modal, one at a time.
CreatesRight ==
  /\ \A c \in calls : c.op = "create" /\ c.here => creating /\ c.watched
  /\ \A c, d \in calls : c.op = "create" /\ c.here /\ d.op = "create" /\ d.here => c = d

\* Each script of the office says what may be its own.
ServerRight ==
  server \in [Ids -> Texts \cup {Free, Deleted}] /\ \A s \in Ids : Exists(s) => server[s] \in TextsOf(s)

\* A draft is of its form.
DraftsRight ==
  drafts \in [Keys -> Texts \cup {None}] /\ \A k \in Keys : drafts[k] /= None => drafts[k] \in TextsOf(k)

\* The rest of the page is well typed.
PageTyped ==
  /\ selected \in Ids \cup {None} /\ mode \in {"view", "edit"}
  /\ typed \in 0..MaxTexts /\ made \in Nat
  /\ importer /= None => importer \in [file: Files, choice: {"update", "new", None}]

\* The create modal has an editor while it is open.
CreatedRight == created \in TextsOf("new") \cup {None} /\ (created /= None => creating)

\* An editor has its own text, that of its draft if there is one.
EditorRight(f) ==
  /\ f.key \in Keys /\ f.text \in TextsOf(f.key)
  /\ f.key \in Ids /\ drafts[f.key] /= None => f.text = drafts[f.key]

\* The editor that is mounted is that of the script that is selected.
FormRight ==
  form /= None => EditorRight(form) /\ form.key = Key(list, selected)
                  /\ form = [key |-> form.key, text |-> form.text]

\* The invariant that is proved of the jobs page.
WorkspaceInv ==
  /\ PageTyped /\ CreatedRight /\ ServerRight /\ ListRight(list) /\ (fetch /= None => ListRight(fetch))
  /\ DraftsRight /\ FormRight /\ CreatesRight
  /\ \A c \in calls : CallRight(c)

(***************************************************************************)
(* Texts and calls                                                           *)
(***************************************************************************)
\* The texts that are made are of their forms.
LEMMA TextsMade ==
  /\ \A k \in Keys : \A t \in TextsOf("new") : t \in TextsOf(k)
  /\ \A k \in Keys : <<"import", 0>> \in TextsOf(k) /\ Empty \in TextsOf(k)
  /\ \A k \in Keys, n \in 0..(MaxTexts + 1) : <<k, n>> \in TextsOf(k)
  /\ \A k \in Keys : TextsOf(k) \subseteq Texts
  /\ None \notin Texts /\ Free \notin Texts /\ Deleted \notin Texts /\ Free /= Deleted /\ Deleted /= None
  /\ None \notin Keys /\ "new" \notin Ids /\ None \notin Ids
<1>1. 0 \in 0..(MaxTexts + 1)
  BY WorkspaceAssumption
<1>2. QED
  BY <1>1, WorkspaceAssumption DEF TextsOf, Texts, Keys, Empty

\* An editor opens with a text of its form, its draft if there is one.
LEMMA OpenedRight ==
  ASSUME NEW k \in Keys, NEW l, ListRight(l), NEW d \in [Keys -> Texts \cup {None}],
         \A q \in Keys : d[q] /= None => d[q] \in TextsOf(q)
  PROVE  Opened(k, l, d) \in TextsOf(k) /\ (d[k] /= None => Opened(k, l, d) = d[k])
BY TextsMade DEF Opened, ListRight

\* Whether a call is waited for, and by whom, changes nothing of what it does.
LEMMA CallWatched ==
  ASSUME NEW c, CallRight(c), NEW w \in BOOLEAN
  PROVE  /\ CallRight([c EXCEPT !.watched = w]) /\ [c EXCEPT !.watched = w].op = c.op
         /\ [c EXCEPT !.watched = w].here = c.here /\ [c EXCEPT !.watched = w].watched = w
<1> DEFINE d == [c EXCEPT !.watched = w]
<1>1. c \in CallState
  BY DEF CallRight
<1>2. /\ d \in CallState /\ d.op = c.op /\ d.script = c.script /\ d.text = c.text /\ d.got = c.got
      /\ d.watched = w /\ d.here = c.here
  BY <1>1 DEF CallState
<1> HIDE DEF d
<1>3. CallRight(d)
  BY <1>2 DEF CallRight
<1>4. QED
  BY <1>2, <1>3 DEF d

\* Nor does it that its page was left.
LEMMA CallLeft ==
  ASSUME NEW c, CallRight(c)
  PROVE  CallRight([c EXCEPT !.watched = FALSE, !.here = FALSE]) /\ ~[c EXCEPT !.watched = FALSE, !.here = FALSE].here
<1> DEFINE d == [c EXCEPT !.watched = FALSE, !.here = FALSE]
<1>1. c \in CallState
  BY DEF CallRight
<1>2. /\ d \in CallState /\ d.op = c.op /\ d.script = c.script /\ d.text = c.text /\ d.got = c.got
      /\ d.here = FALSE
  BY <1>1 DEF CallState
<1> HIDE DEF d
<1>3. CallRight(d)
  BY <1>2 DEF CallRight
<1>4. QED
  BY <1>2, <1>3 DEF d

\* What a rendering mounts is right.
LEMMA RendersRight ==
  ASSUME ListRight(list)', DraftsRight', selected' \in Ids \cup {None},
         created \in TextsOf("new") \cup {None},
         NEW m, m /= None => EditorRight(m)' /\ m = [key |-> m.key, text |-> m.text],
         form' = (IF mode' = "view" \/ failed' \/ DOMAIN list' = {} THEN None
                  ELSE IF m /= None /\ m.key = Key(list', selected') THEN m
                  ELSE [key |-> Key(list', selected'), text |-> Opened(Key(list', selected'), list', drafts')]),
         created' = CreatedEditor
  PROVE  FormRight' /\ CreatedRight'
<1> DEFINE k == Key(list', selected')
<1>1. k \in Keys /\ "new" \in Keys
  BY DEF Key, Keys, ListRight
<1>2. /\ Opened(k, list', drafts') \in TextsOf(k)
      /\ drafts'[k] /= None => Opened(k, list', drafts') = drafts'[k]
  <2>1. PICK l : l = list'
    OBVIOUS
  <2>2. PICK d : d = drafts'
    OBVIOUS
  <2>3. ListRight(l) /\ d \in [Keys -> Texts \cup {None}] /\ \A q \in Keys : d[q] /= None => d[q] \in TextsOf(q)
    BY <2>1, <2>2 DEF ListRight, DraftsRight
  <2>4. PICK q : q = k
    OBVIOUS
  <2>5. Opened(q, l, d) \in TextsOf(q) /\ (d[q] /= None => Opened(q, l, d) = d[q])
    BY <1>1, <2>3, <2>4, OpenedRight
  <2>6. QED
    BY <2>1, <2>2, <2>4, <2>5
<1>3. Opened("new", <<>>, drafts') \in TextsOf("new")
  <2>1. PICK d : d = drafts'
    OBVIOUS
  <2>2. d \in [Keys -> Texts \cup {None}] /\ \A q \in Keys : d[q] /= None => d[q] \in TextsOf(q)
    BY <2>1 DEF DraftsRight
  <2>3. ListRight(<<>>)
    BY DEF ListRight
  <2>4. QED
    BY <1>1, <2>1, <2>2, <2>3, OpenedRight
<1>4. CreatedRight'
  BY <1>3 DEF CreatedEditor, CreatedRight
<1>5. PICK q : q = k
  OBVIOUS
<1>6. PICK o : o = Opened(k, list', drafts')
  OBVIOUS
<1>7. FormRight'
  <2>1. SUFFICES ASSUME form' /= None
                 PROVE  (EditorRight(form))' /\ form'.key = k /\ form' = [key |-> form'.key, text |-> form'.text]
    BY DEF FormRight
  <2>2. CASE m /= None /\ m.key = q
    <3>1. form' = m
      BY <1>5, <2>1, <2>2
    <3>2. QED
      BY <1>5, <2>2, <3>1 DEF EditorRight
  <2>3. CASE ~(m /= None /\ m.key = q)
    <3>1. form' = [key |-> q, text |-> o]
      BY <1>5, <1>6, <2>1, <2>3
    <3>2. form'.key = q /\ form'.text = o
      BY <3>1
    <3>3. QED
      BY <1>1, <1>2, <1>5, <1>6, <3>1, <3>2 DEF EditorRight
  <2>4. QED
    BY <2>2, <2>3
<1>8. QED
  BY <1>4, <1>7

\* What stays mounted stays right, unless another draft is written for it.
LEMMA RenderKeeps ==
  ASSUME WorkspaceInv, ListRight(list)', DraftsRight', selected' \in Ids \cup {None}, Render(form),
         \A k \in Ids : drafts'[k] /= None => drafts'[k] = drafts[k]
  PROVE  FormRight' /\ CreatedRight'
<1>1. PICK m : m = form
  OBVIOUS
<1>2. m /= None => EditorRight(m)' /\ m = [key |-> m.key, text |-> m.text]
  <2>1. SUFFICES ASSUME m /= None PROVE EditorRight(m)' /\ m = [key |-> m.key, text |-> m.text]
    OBVIOUS
  <2>2. EditorRight(m) /\ m = [key |-> m.key, text |-> m.text]
    BY <1>1, <2>1 DEF WorkspaceInv, FormRight
  <2>3. QED
    BY <2>2 DEF EditorRight
<1>3. created \in TextsOf("new") \cup {None}
  BY DEF WorkspaceInv, CreatedRight
<1>4. /\ form' = (IF mode' = "view" \/ failed' \/ DOMAIN list' = {} THEN None
                  ELSE IF m /= None /\ m.key = Key(list', selected') THEN m
                  ELSE [key |-> Key(list', selected'), text |-> Opened(Key(list', selected'), list', drafts')])
      /\ created' = CreatedEditor
  BY <1>1 DEF Render
<1>5. QED
  BY <1>2, <1>3, <1>4, RendersRight

\* What is mounted anew is right.
LEMMA RenderAnew ==
  ASSUME WorkspaceInv, ListRight(list)', DraftsRight', selected' \in Ids \cup {None}, Render(None)
  PROVE  FormRight' /\ CreatedRight'
<1>1. PICK m : m = None
  OBVIOUS
<1>3. created \in TextsOf("new") \cup {None}
  BY DEF WorkspaceInv, CreatedRight
<1>4. /\ form' = (IF mode' = "view" \/ failed' \/ DOMAIN list' = {} THEN None
                  ELSE IF m /= None /\ m.key = Key(list', selected') THEN m
                  ELSE [key |-> Key(list', selected'), text |-> Opened(Key(list', selected'), list', drafts')])
      /\ created' = CreatedEditor
  BY <1>1 DEF Render
<1>5. QED
  BY <1>1, <1>3, <1>4, RendersRight

(***************************************************************************)
(* The list, and what is selected                                            *)
(***************************************************************************)
\* At first there are the scripts that were saved.
LEMMA WorkspaceInitInv == WorkspaceInit => WorkspaceInv
<1> SUFFICES ASSUME WorkspaceInit PROVE WorkspaceInv
  OBVIOUS
<1>1. /\ server = [s \in Ids |-> IF s \in Saved THEN <<s, 0>> ELSE Free]
      /\ selected = None /\ mode = "view" /\ form = None /\ fetch = None /\ importer = None
      /\ created = None /\ drafts = [k \in Keys |-> None] /\ calls = {} /\ typed = 0 /\ made = 0
  BY DEF WorkspaceInit
<1>2. PICK S \in SUBSET Saved : list = [s \in S |-> <<s, 0>>]
  BY DEF WorkspaceInit
<1>3. \A s \in Ids : <<s, 0>> \in TextsOf(s) /\ <<s, 0>> \in Texts
  <2>1. 0 \in 0..(MaxTexts + 1) /\ Ids \subseteq Keys
    BY WorkspaceAssumption DEF Keys
  <2>2. QED
    BY <2>1, TextsMade
<1>4. ListRight(list)
  BY <1>2, <1>3, WorkspaceAssumption DEF ListRight
<1>5. ServerRight
  BY <1>1, <1>3, TextsMade DEF ServerRight, Exists
<1>6. PageTyped
  BY <1>1, WorkspaceAssumption DEF PageTyped
<1>7. QED
  BY <1>1, <1>4, <1>5, <1>6 DEF WorkspaceInv, CreatedRight, DraftsRight, FormRight, CreatesRight

\* The server reads what it has.
LEMMA RefetchInv == ASSUME WorkspaceInv, Refetch PROVE WorkspaceInv'
<1>1. /\ fetch' = OnServer /\ UNCHANGED <<server, list, failed, form, created, drafts, calls, typed, made>>
      /\ UNCHANGED <<selected, mode, creating, importer>>
  BY DEF Refetch, Page
<1>2. ListRight(OnServer)
  BY DEF WorkspaceInv, ServerRight, OnServer, ListRight
<1>3. QED
  BY <1>1, <1>2 DEF WorkspaceInv, PageTyped, CreatedRight, ServerRight, Exists, ListRight, DraftsRight, FormRight, EditorRight, CreatesRight

\* The list becomes what was read, and the editor stays with its script.
LEMMA ListArrivesInv == ASSUME WorkspaceInv, ListArrives PROVE WorkspaceInv'
<1>1. /\ fetch /= None /\ list' = fetch /\ fetch' = None /\ UNCHANGED <<server, drafts, calls, typed, made>>
      /\ UNCHANGED <<selected, mode, creating, importer>> /\ Render(form)
  BY DEF ListArrives, Page
<1>2. ListRight(list)' /\ DraftsRight' /\ ServerRight' /\ CreatesRight'
  BY <1>1 DEF WorkspaceInv, ListRight, DraftsRight, ServerRight, Exists, CreatesRight
<1>3. FormRight' /\ CreatedRight'
  BY <1>1, <1>2, RenderKeeps DEF WorkspaceInv, PageTyped
<1>4. QED
  BY <1>1, <1>2, <1>3 DEF WorkspaceInv, PageTyped

\* Steps that leave the server, the list, the drafts and the counters as they are, and
\* render the page.
LEMMA RenderedInv ==
  ASSUME WorkspaceInv, UNCHANGED <<server, list, drafts, typed, made>>, fetch' = fetch \/ fetch' = None,
         Render(form) \/ Render(None),
         selected' \in Ids \cup {None}, mode' \in {"view", "edit"}, importer' = importer \/ importer' = None,
         CreatesRight', \A c \in calls' : CallRight(c)
  PROVE  WorkspaceInv'
<1>1. ListRight(list)' /\ DraftsRight' /\ ServerRight'
  BY DEF WorkspaceInv, ListRight, DraftsRight, ServerRight, Exists
<1>2. FormRight' /\ CreatedRight'
  BY <1>1, RenderKeeps, RenderAnew
<1>3. PageTyped'
  BY <1>2 DEF WorkspaceInv, PageTyped
<1>4. (fetch /= None => ListRight(fetch))'
  BY DEF WorkspaceInv, ListRight
<1>5. QED
  BY <1>1, <1>2, <1>3, <1>4 DEF WorkspaceInv, CallRight

\* Without another call or another modal the creation is as it was.
LEMMA SameCalls ==
  ASSUME WorkspaceInv, UNCHANGED <<calls, creating>>
  PROVE  CreatesRight' /\ \A c \in calls' : CallRight(c)
BY DEF WorkspaceInv, CreatesRight

\* No modal hides the page, so that none of its creations is under way.
LEMMA NoneCreated ==
  ASSUME WorkspaceInv, ~creating
  PROVE  \A c \in calls : ~(c.op = "create" /\ c.here)
BY DEF WorkspaceInv, CreatesRight

\* The page is an error, and mounts nothing.
LEMMA ListFailsInv == ASSUME WorkspaceInv, ListFails PROVE WorkspaceInv'
<1>1. /\ fetch' = None /\ UNCHANGED <<server, list, drafts, calls, typed, made>>
      /\ UNCHANGED <<selected, mode, creating, importer>> /\ Render(form)
  BY DEF ListFails, Page
<1>2. QED
  BY <1>1, RenderedInv, SameCalls DEF WorkspaceInv, PageTyped

\* Another administrator writes the script's own text.
LEMMA OthersWriteInv == ASSUME WorkspaceInv, OthersWrite PROVE WorkspaceInv'
<1>1. /\ UNCHANGED <<list, fetch, form, created, drafts, calls, typed, made>>
      /\ UNCHANGED <<selected, mode, creating, importer>>
  BY DEF OthersWrite, Page
<1>6. PICK s \in Ids : \E t \in {Theirs(s), Deleted} : server' = [server EXCEPT ![s] = t]
  BY DEF OthersWrite
<1>2. PICK t \in {Theirs(s), Deleted} : server' = [server EXCEPT ![s] = t]
  BY <1>6
<1>3. Theirs(s) \in TextsOf(s) /\ Theirs(s) \in Texts /\ s \in Keys
  <2>1. MaxTexts + 1 \in 0..(MaxTexts + 1) /\ s \in Keys
    BY WorkspaceAssumption DEF Keys
  <2>2. QED
    BY <2>1, TextsMade DEF Theirs
<1>4. ServerRight'
  BY <1>2, <1>3, TextsMade DEF WorkspaceInv, ServerRight, Exists
<1>5. QED
  BY <1>1, <1>4 DEF WorkspaceInv, PageTyped, CreatedRight, ListRight, DraftsRight, FormRight, EditorRight, CreatesRight

\* A script is selected, ...
LEMMA SelectListedInv == ASSUME WorkspaceInv, SelectListed PROVE WorkspaceInv'
<1>1. /\ selected' \in Ids /\ mode' = "view" /\ UNCHANGED <<server, list, fetch, drafts, typed, made>>
      /\ UNCHANGED <<creating, importer, calls>> /\ Render(form)
  BY DEF SelectListed, Quiet, Static
<1>2. QED
  BY <1>1, RenderedInv, SameCalls

\* ... edited, where nothing is waited for any more, ...
LEMMA EditInv == ASSUME WorkspaceInv, Edit PROVE WorkspaceInv'
<1>1. /\ selected' \in Ids /\ mode' = "edit" /\ UNCHANGED <<server, list, fetch, drafts, typed, made>>
      /\ UNCHANGED <<creating, importer>> /\ Render(None) /\ calls' = Forgotten /\ ~creating
  BY DEF Edit, Quiet, Static, Row, Clickable
<1>2. \A d \in calls' : CallRight(d) /\ ~(d.op = "create" /\ d.here)
  <2>1. SUFFICES ASSUME NEW d \in Forgotten PROVE CallRight(d) /\ ~(d.op = "create" /\ d.here)
    BY <1>1
  <2>2. PICK c \in calls : d = [c EXCEPT !.watched = @ /\ c.op = "import"]
    BY DEF Forgotten
  <2>3. CallRight(c) /\ ~(c.op = "create" /\ c.here) /\ c \in CallState
    BY <1>1, NoneCreated DEF WorkspaceInv, CallRight
  <2>4. PICK w \in BOOLEAN : w = (c.watched /\ c.op = "import")
    BY Zenon
  <2>5. d = [c EXCEPT !.watched = w]
    BY <2>2, <2>4
  <2>6. CallRight(d) /\ d.op = c.op /\ d.here = c.here
    <3>1. /\ CallRight([c EXCEPT !.watched = w]) /\ [c EXCEPT !.watched = w].op = c.op
          /\ [c EXCEPT !.watched = w].here = c.here
      BY <2>3, CallWatched, Zenon
    <3>2. QED
      BY <2>5, <3>1
  <2>7. QED
    BY <2>3, <2>6
<1>3. CreatesRight'
  BY <1>2 DEF CreatesRight
<1>4. QED
  BY <1>1, <1>2, <1>3, RenderedInv

\* ... or reached by a link, ...
LEMMA RouteEditInv == ASSUME WorkspaceInv, RouteEdit PROVE WorkspaceInv'
<1>1. /\ selected' \in Ids /\ mode' = "edit" /\ UNCHANGED <<server, list, fetch, drafts, typed, made>>
      /\ UNCHANGED <<creating, importer, calls>>
      /\ Render(IF Listed(selected') THEN None ELSE form)
  BY DEF RouteEdit, Static
<1>2. Render(form) \/ Render(None)
  BY <1>1
<1>3. QED
  BY <1>1, <1>2, RenderedInv, SameCalls

\* ... and its editor closed.
LEMMA CancelEditInv == ASSUME WorkspaceInv, CancelEdit PROVE WorkspaceInv'
<1>1. /\ mode' = "view" /\ UNCHANGED <<server, list, fetch, drafts, typed, made>>
      /\ UNCHANGED <<selected, creating, importer, calls>> /\ Render(form)
  BY DEF CancelEdit, Quiet, Static
<1>2. QED
  BY <1>1, RenderedInv, SameCalls DEF WorkspaceInv, PageTyped

\* What was sent from the page that was left is of that page.
LEMMA RevisitInv == ASSUME WorkspaceInv, Revisit PROVE WorkspaceInv'
<1>1. /\ selected' = None /\ mode' = "view" /\ UNCHANGED <<server, list, fetch, drafts, typed, made>>
      /\ importer' = None /\ Render(form)
      /\ calls' = {[c EXCEPT !.watched = FALSE, !.here = FALSE] : c \in calls}
  BY DEF Revisit, Static
<1>2. \A d \in calls' : CallRight(d) /\ ~d.here
  <2>1. SUFFICES ASSUME NEW c \in calls
                 PROVE  LET d == [c EXCEPT !.watched = FALSE, !.here = FALSE] IN CallRight(d) /\ ~d.here
    BY <1>1
  <2>2. CallRight(c)
    BY DEF WorkspaceInv
  <2>3. QED
    BY <2>2, CallLeft, Zenon
<1>3. CreatesRight'
  BY <1>2 DEF CreatesRight
<1>4. QED
  BY <1>1, <1>2, <1>3, RenderedInv

(***************************************************************************)
(* Typing                                                                    *)
(***************************************************************************)
\* Steps that change an editor, its draft and the count of texts alone
LEMMA TypedInv ==
  ASSUME WorkspaceInv, UNCHANGED <<server, list, fetch, calls, made>>,
         UNCHANGED <<selected, mode, creating, importer>>,
         CreatedRight', typed' \in 0..MaxTexts, DraftsRight', FormRight'
  PROVE  WorkspaceInv'
BY DEF WorkspaceInv, PageTyped, CreatedRight, ServerRight, Exists, ListRight, CreatesRight

\* A text is typed in its form, ...
LEMMA TypeTextInv == ASSUME WorkspaceInv, TypeText PROVE WorkspaceInv'
<1>1. PICK t : t = <<form.key, typed + 1>>
  OBVIOUS
<1>2. /\ form /= None /\ typed < MaxTexts /\ typed' = typed + 1 /\ created' = created
      /\ form' = [form EXCEPT !.text = t] /\ drafts' = [drafts EXCEPT ![form.key] = t]
      /\ UNCHANGED <<server, list, fetch, calls, made>> /\ UNCHANGED <<selected, mode, creating, importer>>
  BY <1>1 DEF TypeText, Quiet, Static, Page
<1>3. PICK f : f = form
  OBVIOUS
<1>4. EditorRight(f) /\ f.key = Key(list, selected) /\ f = [key |-> f.key, text |-> f.text] /\ f.key \in Keys
  BY <1>2, <1>3 DEF WorkspaceInv, FormRight, EditorRight
<1>5. typed' \in 0..MaxTexts /\ typed + 1 \in 0..(MaxTexts + 1)
  BY <1>2, WorkspaceAssumption DEF WorkspaceInv, PageTyped
<1>6. t \in TextsOf(f.key) /\ t \in Texts
  BY <1>1, <1>3, <1>4, <1>5, TextsMade
<1>7. form' = [key |-> f.key, text |-> t] /\ form'.key = f.key /\ form'.text = t
  BY <1>2, <1>3, <1>4
<1>8. drafts' = [drafts EXCEPT ![f.key] = t] /\ drafts \in [Keys -> Texts \cup {None}]
  BY <1>2, <1>3 DEF WorkspaceInv, DraftsRight
<1>9. DraftsRight'
  BY <1>4, <1>6, <1>8 DEF WorkspaceInv, DraftsRight
<1>10. FormRight'
  BY <1>2, <1>4, <1>6, <1>7, <1>8 DEF FormRight, EditorRight, Key
<1>11. CreatedRight'
  BY <1>2 DEF WorkspaceInv, CreatedRight
<1>12. QED
  BY <1>2, <1>5, <1>9, <1>10, <1>11, TypedInv

\* ... which Clear gives up, ...
LEMMA ClearEditorInv == ASSUME WorkspaceInv, ClearEditor PROVE WorkspaceInv'
<1>1. /\ form /= None /\ UNCHANGED <<created, typed>>
      /\ drafts' = [drafts EXCEPT ![form.key] = None]
      /\ form' = [form EXCEPT !.text = Opened(form.key, list, drafts')]
      /\ UNCHANGED <<server, list, fetch, calls, made>> /\ UNCHANGED <<selected, mode, creating, importer>>
  BY DEF ClearEditor, Quiet, Static, Page
<1>2. PICK f : f = form
  OBVIOUS
<1>3. EditorRight(f) /\ f.key = Key(list, selected) /\ f = [key |-> f.key, text |-> f.text] /\ f.key \in Keys
  BY <1>1, <1>2 DEF WorkspaceInv, FormRight, EditorRight
<1>4. PICK d : d = drafts'
  OBVIOUS
<1>5. drafts \in [Keys -> Texts \cup {None}] /\ d = [drafts EXCEPT ![f.key] = None]
  BY <1>1, <1>2, <1>4 DEF WorkspaceInv, DraftsRight
<1>6. d \in [Keys -> Texts \cup {None}] /\ \A q \in Keys : d[q] /= None => d[q] \in TextsOf(q)
  BY <1>3, <1>5 DEF WorkspaceInv, DraftsRight
<1>7. d[f.key] = None
  BY <1>3, <1>5
<1>8. PICK o : o = Opened(f.key, list, d)
  OBVIOUS
<1>9. o \in TextsOf(f.key)
  BY <1>3, <1>6, <1>8, OpenedRight DEF WorkspaceInv
<1>10. form' = [key |-> f.key, text |-> o] /\ form'.key = f.key /\ form'.text = o
  BY <1>1, <1>2, <1>3, <1>4, <1>8
<1>11. FormRight'
  BY <1>1, <1>3, <1>4, <1>7, <1>9, <1>10 DEF FormRight, EditorRight, Key
<1>12. DraftsRight'
  BY <1>4, <1>6 DEF DraftsRight
<1>13. QED
  BY <1>1, <1>11, <1>12, TypedInv DEF WorkspaceInv, PageTyped, CreatedRight

\* ... and that of a new script in its modal.
LEMMA TypeNewInv == ASSUME WorkspaceInv, TypeNew PROVE WorkspaceInv'
<1>1. PICK t : t = <<"new", typed + 1>>
  OBVIOUS
<1>2. /\ created /= None /\ typed < MaxTexts /\ typed' = typed + 1 /\ created' = t /\ form' = form
      /\ drafts' = [drafts EXCEPT !["new"] = t]
      /\ UNCHANGED <<server, list, fetch, calls, made>> /\ UNCHANGED <<selected, mode, creating, importer>>
  BY <1>1 DEF TypeNew, Quiet, Static, Page
<1>3. typed' \in 0..MaxTexts /\ typed + 1 \in 0..(MaxTexts + 1) /\ "new" \in Keys
  BY <1>2, WorkspaceAssumption DEF WorkspaceInv, PageTyped, Keys
<1>4. t \in TextsOf("new") /\ t \in Texts
  BY <1>1, <1>3, TextsMade
<1>5. DraftsRight'
  BY <1>2, <1>3, <1>4 DEF WorkspaceInv, DraftsRight
<1>6. \A k \in Ids : drafts'[k] = drafts[k]
  BY <1>2, TextsMade DEF WorkspaceInv, DraftsRight, Keys
<1>7. FormRight'
  BY <1>2, <1>6 DEF WorkspaceInv, FormRight, EditorRight, Key
<1>8. CreatedRight'
  BY <1>2, <1>4 DEF WorkspaceInv, CreatedRight
<1>9. QED
  BY <1>2, <1>3, <1>5, <1>7, <1>8, TypedInv

(***************************************************************************)
(* Writes                                                                    *)
(***************************************************************************)
\* A write leaves all but the calls as it was.
LEMMA SentInv ==
  ASSUME WorkspaceInv, Unsent, UNCHANGED Page, made' \in Nat, CreatesRight', \A c \in calls' : CallRight(c)
  PROVE  WorkspaceInv'
<1>1. /\ UNCHANGED <<server, list, failed, fetch, outside, form, created, drafts, typed>>
      /\ UNCHANGED <<selected, mode, creating, importer>>
  BY DEF Unsent, Quiet, Static, Page
<1>2. QED
  BY <1>1 DEF WorkspaceInv, PageTyped, CreatedRight, ServerRight, Exists, ListRight, DraftsRight,
    FormRight, EditorRight, CallRight

\* What is sent beside the others is right if its text is; a creation must be alone.
LEMMA SendInv ==
  ASSUME WorkspaceInv, Unsent, UNCHANGED Page,
         NEW op \in Operations, NEW script \in Ids \cup Files \cup {None}, NEW from \in Keys \cup {None},
         NEW text \in Texts \cup {None}, NEW createNew \in BOOLEAN, Send(op, script, from, text, createNew),
         op = "put" => text \in TextsOf(script),
         op = "create" => text \in TextsOf("new") /\ creating
                          /\ \A c \in calls : ~(c.op = "create" /\ c.here),
         op = "import" => importer /= None /\ text = <<"import", 0>>
  PROVE  WorkspaceInv'
<1>1. PICK h : h = IF op = "import" /\ Existing THEN importer.choice ELSE None
  OBVIOUS
<1>2. h \in {"update", "new", None}
  BY <1>1 DEF WorkspaceInv, PageTyped
<1>3. PICK d : d = [op |-> op, script |-> script, from |-> from, text |-> text,
                    createNew |-> createNew, got |-> None, id |-> made, choice |-> h,
                    watched |-> op /= "upgrade", here |-> TRUE]
  OBVIOUS
<1>4. made \in Nat /\ made' = made + 1 /\ calls' = calls \cup {d}
  BY <1>1, <1>3 DEF Send, WorkspaceInv, PageTyped
<1>5. /\ d.op = op /\ d.script = script /\ d.text = text /\ d.got = None /\ d.watched = (op /= "upgrade")
      /\ d.here = TRUE /\ d \in CallState
  BY <1>2, <1>3, <1>4 DEF CallState
<1>6. CallRight(d)
  BY <1>5, TextsMade DEF CallRight
<1>7. creating' = creating
  BY DEF Page
<1>8. CreatesRight'
  BY <1>4, <1>5, <1>7 DEF WorkspaceInv, CreatesRight
<1>9. \A c \in calls' : CallRight(c)
  BY <1>4, <1>6 DEF WorkspaceInv
<1>10. QED
  BY <1>4, <1>8, <1>9, SentInv

\* The editor's text is saved as the script it is of, or as that a new one became, ...
LEMMA SaveEditorInv == ASSUME WorkspaceInv, SaveEditor PROVE WorkspaceInv'
<1>1. /\ form /= None /\ selected /= None /\ UNCHANGED Page /\ Unsent
      /\ Send("put", selected, form.key, form.text, FALSE)
  BY DEF SaveEditor
<1>2. selected \in Ids /\ form.key \in Keys /\ form.text \in TextsOf(form.key)
      /\ form.key \in {selected, "new"} /\ selected \in Keys
  BY <1>1 DEF WorkspaceInv, PageTyped, FormRight, EditorRight, Key, Keys
<1>3. form.text \in TextsOf(selected) /\ form.text \in Texts
  BY <1>2, TextsMade
<1>4. QED
  BY <1>1, <1>2, <1>3, SendInv DEF Operations

\* ... the cached one once more, ...
LEMMA ToggleInv == ASSUME WorkspaceInv, Toggle PROVE WorkspaceInv'
<1>1. /\ Listed(selected) /\ UNCHANGED Page /\ Unsent
      /\ Send("put", selected, None, list[selected], FALSE)
  BY DEF Toggle
<1>2. selected \in Ids /\ selected \in Keys /\ list[selected] \in TextsOf(selected)
  BY <1>1 DEF WorkspaceInv, ListRight, Listed, Keys
<1>3. list[selected] \in Texts
  BY <1>2, TextsMade
<1>4. QED
  BY <1>1, <1>2, <1>3, SendInv DEF Operations

\* ... none with a deletion ...
LEMMA DeleteInv == ASSUME WorkspaceInv, Delete PROVE WorkspaceInv'
<1>1. Listed(selected) /\ UNCHANGED Page /\ Unsent /\ Send("delete", selected, None, None, FALSE)
  BY DEF Delete
<1>2. selected \in Ids
  BY <1>1 DEF WorkspaceInv, ListRight, Listed
<1>3. QED
  BY <1>1, <1>2, SendInv DEF Operations

\* ... or an upgrade.
LEMMA UpgradeInv == ASSUME WorkspaceInv, Upgrade PROVE WorkspaceInv'
<1>1. Listed(selected) /\ UNCHANGED Page /\ Unsent /\ Send("upgrade", selected, None, None, FALSE)
  BY DEF Upgrade
<1>2. selected \in Ids
  BY <1>1 DEF WorkspaceInv, ListRight, Listed
<1>3. QED
  BY <1>1, <1>2, SendInv DEF Operations

\* The modal sends its text when no creation is waited for, so that there is none.
LEMMA CreateInv == ASSUME WorkspaceInv, Create PROVE WorkspaceInv'
<1>1. /\ created /= None /\ ~CreateWaiting /\ UNCHANGED Page /\ Unsent
      /\ Send("create", None, "new", created, FALSE)
  BY DEF Create
<1>2. created \in TextsOf("new") /\ creating /\ "new" \in Keys
  BY <1>1 DEF WorkspaceInv, CreatedRight, Keys
<1>3. created \in Texts /\ \A c \in calls : ~(c.op = "create" /\ c.here)
  BY <1>1, <1>2, TextsMade DEF WorkspaceInv, CreatesRight, CreateWaiting
<1>4. QED
  BY <1>1, <1>2, <1>3, SendInv DEF Operations

\* An import says what its file does.
LEMMA ApplyImportInv == ASSUME WorkspaceInv, ApplyImport PROVE WorkspaceInv'
<1>1. PICK w \in BOOLEAN : w = (Existing /\ importer.choice = "new")
  BY Zenon
<1>2. /\ importer /= None /\ UNCHANGED Page /\ Unsent
      /\ Send("import", importer.file, None, <<"import", 0>>, w)
  BY <1>1 DEF ApplyImport
<1>3. importer.file \in Files
  BY <1>2 DEF WorkspaceInv, PageTyped
<1>4. <<"import", 0>> \in Texts
  BY WorkspaceAssumption DEF Texts
<1>5. QED
  BY <1>2, <1>3, <1>4, SendInv DEF Operations

\* Whether an import is waited for, or that it is answered, touches no creation.
LEMMA UnpendedRight ==
  ASSUME NEW C, \A c \in C : CallRight(c)
  PROVE  \A d \in Unpended(C) : CallRight(d) /\ (d.op = "create" => d \in C)
<1>1. SUFFICES ASSUME NEW c \in C,
                      NEW d, d = IF c.op = "import" THEN [c EXCEPT !.watched = FALSE] ELSE c
               PROVE  CallRight(d) /\ (d.op = "create" => d \in C)
  BY DEF Unpended
<1>2. CallRight(c)
  OBVIOUS
<1>3. CallRight([c EXCEPT !.watched = FALSE]) /\ [c EXCEPT !.watched = FALSE].op = c.op
  BY <1>2, CallWatched, Zenon
<1>4. CASE c.op = "import"
  BY <1>1, <1>3, <1>4
<1>5. CASE c.op /= "import"
  BY <1>1, <1>2, <1>5
<1>6. QED
  BY <1>4, <1>5

\* The import modal touches nothing else.
LEMMA ImporterInv ==
  ASSUME WorkspaceInv, OnlyImporter, importer' /= None => importer' \in [file: Files, choice: {"update", "new", None}],
         calls' = calls \/ calls' = Unpended(calls)
  PROVE  WorkspaceInv'
<1>1. UNCHANGED <<selected, mode, creating, form, created, drafts, typed, made, server, list, failed, fetch>>
  BY DEF OnlyImporter, Quiet, Static
<1>2. \A d \in calls' : CallRight(d) /\ (d.op = "create" => d \in calls)
  BY UnpendedRight DEF WorkspaceInv
<1>3. CreatesRight'
  BY <1>1, <1>2 DEF WorkspaceInv, CreatesRight
<1>4. QED
  BY <1>1, <1>2, <1>3 DEF WorkspaceInv, PageTyped, CreatedRight, ServerRight, Exists, ListRight, DraftsRight,
    FormRight, EditorRight, CallRight

\* A backup is read, ...
LEMMA ReadFileInv == ASSUME WorkspaceInv, ReadFile PROVE WorkspaceInv'
<1>1. calls' = Unpended(calls) /\ OnlyImporter /\ \E f \in Files : importer' = [file |-> f, choice |-> None]
  BY DEF ReadFile
<1>2. importer' \in [file: Files, choice: {"update", "new", None}]
  BY <1>1
<1>3. QED
  BY <1>1, <1>2, ImporterInv

\* ... what becomes of its match is chosen, ...
LEMMA ChooseImportInv == ASSUME WorkspaceInv, ChooseImport PROVE WorkspaceInv'
<1>1. PICK h \in {"update", "new", None} : importer' = [importer EXCEPT !.choice = h]
  BY DEF ChooseImport
<1>2. importer /= None /\ calls' = calls /\ OnlyImporter
  BY DEF ChooseImport
<1>3. importer \in [file: Files, choice: {"update", "new", None}]
  BY <1>2 DEF WorkspaceInv, PageTyped
<1>4. importer' \in [file: Files, choice: {"update", "new", None}]
  BY <1>1, <1>3
<1>5. QED
  BY <1>2, <1>4, ImporterInv

\* ... and it is put away.
LEMMA CloseImportInv == ASSUME WorkspaceInv, CloseImport PROVE WorkspaceInv'
BY ImporterInv DEF CloseImport

\* The create modal opens, while there is no creation of the page, ...
LEMMA NewInv == ASSUME WorkspaceInv, New PROVE WorkspaceInv'
<1>1. /\ ~creating /\ creating' = TRUE /\ UNCHANGED <<selected, mode, importer, drafts, typed, made>>
      /\ UNCHANGED <<server, list, failed, fetch>> /\ Render(form)
      /\ calls' = {IF c.op = "create" THEN [c EXCEPT !.watched = FALSE] ELSE c : c \in calls}
  BY DEF New, Clickable, Quiet, Static
<1>2. \A d \in calls' : CallRight(d) /\ ~(d.op = "create" /\ d.here)
  <2>1. SUFFICES ASSUME NEW c \in calls,
                        NEW d, d = IF c.op = "create" THEN [c EXCEPT !.watched = FALSE] ELSE c
                 PROVE  CallRight(d) /\ ~(d.op = "create" /\ d.here)
    BY <1>1
  <2>2. CallRight(c) /\ ~(c.op = "create" /\ c.here)
    BY <1>1, NoneCreated DEF WorkspaceInv
  <2>3. /\ CallRight([c EXCEPT !.watched = FALSE]) /\ [c EXCEPT !.watched = FALSE].op = c.op
        /\ [c EXCEPT !.watched = FALSE].here = c.here
    BY <2>2, CallWatched, Zenon
  <2>4. CASE c.op = "create"
    BY <2>1, <2>2, <2>3, <2>4
  <2>5. CASE c.op /= "create"
    BY <2>1, <2>2, <2>5
  <2>6. QED
    BY <2>4, <2>5
<1>3. CreatesRight'
  BY <1>2 DEF CreatesRight
<1>4. QED
  BY <1>1, <1>2, <1>3, RenderedInv DEF WorkspaceInv, PageTyped

\* ... and it closes once none is waited for: there is none.
LEMMA CancelCreateInv == ASSUME WorkspaceInv, CancelCreate PROVE WorkspaceInv'
<1>1. /\ ~CreateWaiting /\ creating' = FALSE /\ UNCHANGED <<selected, mode, importer, drafts, calls, typed, made>>
      /\ UNCHANGED <<server, list, failed, fetch>> /\ Render(form)
  BY DEF CancelCreate, Quiet, Static
<1>2. CreatesRight'
  BY <1>1 DEF WorkspaceInv, CreatesRight, CreateWaiting
<1>3. QED
  BY <1>1, <1>2, RenderedInv DEF WorkspaceInv, PageTyped

(***************************************************************************)
(* Answers                                                                   *)
(***************************************************************************)
\* The server carries out a call on a script: what it reads back is that script's.
LEMMA ServerWritesInv == ASSUME WorkspaceInv, ServerWrites PROVE WorkspaceInv'
<1>1. /\ UNCHANGED <<list, failed, fetch, form, created, drafts, typed, outside, made>>
      /\ UNCHANGED <<selected, mode, creating, importer>>
  BY DEF ServerWrites, Page
<1>2. PICK c \in calls :
        /\ c.got = None
        /\ \E s \in Ids :
             LET adds == /\ server[s] = Free
                         /\ \/ c.op = "create"
                            \/ c.op = "import" /\ (c.createNew \/ c.script \notin DOMAIN OnServer)
                 changes == /\ s = c.script /\ Exists(s)
                            /\ \/ c.op \in {"put", "delete", "upgrade"}
                               \/ c.op = "import" /\ ~c.createNew
                 text == IF c.op = "delete" THEN Deleted
                         ELSE IF c.op = "upgrade" THEN server[s] ELSE c.text
             IN /\ adds \/ changes
                /\ server' = [server EXCEPT ![s] = text]
                /\ calls' = (calls \ {c}) \cup {[c EXCEPT !.got = text, !.script = s]}
  BY DEF ServerWrites
<1>3. PICK s \in Ids :
        LET text == IF c.op = "delete" THEN Deleted
                    ELSE IF c.op = "upgrade" THEN server[s] ELSE c.text
        IN /\ \/ c.op \in {"create", "import"}
              \/ s = c.script /\ Exists(s) /\ c.op \in {"put", "delete", "upgrade", "import"}
           /\ server' = [server EXCEPT ![s] = text]
           /\ calls' = (calls \ {c}) \cup {[c EXCEPT !.got = text, !.script = s]}
  BY <1>2
<1>4. PICK t : t = IF c.op = "delete" THEN Deleted ELSE IF c.op = "upgrade" THEN server[s] ELSE c.text
  OBVIOUS
<1>5. CallRight(c) /\ c \in CallState /\ s \in Keys
  BY DEF WorkspaceInv, CallRight, Keys
<1>6. IF c.op = "delete" THEN t = Deleted ELSE t \in TextsOf(s)
  <2>1. CASE c.op \in {"delete", "upgrade"}
    BY <1>3, <1>4, <2>1 DEF WorkspaceInv, ServerRight
  <2>2. CASE c.op = "put"
    BY <1>3, <1>4, <1>5, <2>2 DEF CallRight
  <2>3. CASE c.op \in {"create", "import"}
    BY <1>4, <1>5, <2>3, TextsMade DEF CallRight
  <2>4. QED
    BY <1>5, <2>1, <2>2, <2>3 DEF CallState, Operations
<1>7. t \in Texts \cup {Deleted}
  BY <1>5, <1>6, TextsMade
<1>8. PICK d : d = [c EXCEPT !.got = t, !.script = s]
  OBVIOUS
<1>9. /\ d \in CallState /\ d.op = c.op /\ d.script = s /\ d.text = c.text /\ d.got = t /\ d.here = c.here
      /\ d.watched = c.watched
  BY <1>5, <1>7, <1>8 DEF CallState
<1>10. CallRight(d)
  <2>1. c.op = "put" => s = c.script
    BY <1>3
  <2>2. QED
    BY <1>5, <1>6, <1>9, <2>1, TextsMade DEF CallRight
<1>11. calls' = (calls \ {c}) \cup {d} /\ server' = [server EXCEPT ![s] = t]
  BY <1>3, <1>4, <1>8
<1>12. CreatesRight'
  BY <1>1, <1>9, <1>11 DEF WorkspaceInv, CreatesRight
<1>13. ServerRight'
  BY <1>6, <1>7, <1>11, TextsMade DEF WorkspaceInv, ServerRight, Exists
<1>14. \A e \in calls' : CallRight(e)
  BY <1>10, <1>11 DEF WorkspaceInv
<1>15. QED
  BY <1>1, <1>12, <1>13, <1>14 DEF WorkspaceInv, PageTyped, CreatedRight, ListRight, DraftsRight, FormRight,
    EditorRight, CallRight

\* What is left when a call is answered or has failed is right as it was.
LEMMA WithoutRight ==
  ASSUME WorkspaceInv, NEW c \in calls
  PROVE  \A d \in Without(c) : CallRight(d) /\ (d.op = "create" => d \in calls \ {c})
<1>1. \A e \in calls \ {c} : CallRight(e)
  BY DEF WorkspaceInv
<1>2. PICK C : C = calls \ {c}
  OBVIOUS
<1>3. \A d \in Unpended(C) : CallRight(d) /\ (d.op = "create" => d \in C)
  BY <1>1, <1>2, UnpendedRight
<1>4. QED
  BY <1>1, <1>2, <1>3 DEF Without

\* Steps that take an answer: the list and the drafts are right, and the modal that waits
\* for its script closes with it.
LEMMA AnsweredInv ==
  ASSUME WorkspaceInv, NEW c \in calls, calls' = Without(c), UNCHANGED <<server, typed, outside, made>>,
         Render(form), ListRight(list)', fetch' = fetch \/ fetch' = None,
         selected' \in Ids \cup {None}, mode' \in {"view", "edit"}, importer' = importer \/ importer' = None,
         drafts' = drafts \/ \E k \in Keys : drafts' = [drafts EXCEPT ![k] = None],
         creating' = creating \/ (c.op = "create" /\ c.here)
  PROVE  WorkspaceInv'
<1>1. \A d \in calls' : CallRight(d) /\ (d.op = "create" => d \in calls \ {c})
  BY WithoutRight
<1>2. CreatesRight'
  BY <1>1 DEF WorkspaceInv, CreatesRight
<1>3. DraftsRight' /\ \A i \in Ids : drafts'[i] /= None => drafts'[i] = drafts[i]
  BY DEF WorkspaceInv, DraftsRight, Keys
<1>4. FormRight' /\ CreatedRight'
  BY <1>3, RenderKeeps
<1>5. (fetch /= None => ListRight(fetch))'
  BY DEF WorkspaceInv, ListRight
<1>6. QED
  BY <1>1, <1>2, <1>3, <1>4, <1>5 DEF WorkspaceInv, PageTyped, ServerRight, Exists, CallRight

\* An answer says what its script does, in whatever list it is put.
LEMMA AnsweredList ==
  ASSUME WorkspaceInv, NEW c \in calls, c.got /= None
  PROVE  /\ c.op /= "delete" => ListRight(Replaced(c)) /\ ListRight(Added(c))
         /\ ListRight(Removed(c)) /\ c.script \in Ids
<1>1. CallRight(c) /\ c \in CallState /\ c.script \in Ids
  BY DEF WorkspaceInv, CallRight
<1>2. c.op /= "delete" => c.got \in TextsOf(c.script)
  BY <1>1 DEF CallRight, CallState
<1>3. c.op /= "delete" => ListRight(Replaced(c))
  BY <1>2 DEF WorkspaceInv, ListRight, Replaced
<1>4. c.op /= "delete" => ListRight(Added(c))
  BY <1>1, <1>2 DEF WorkspaceInv, ListRight, Added
<1>5. ListRight(Removed(c))
  BY DEF WorkspaceInv, ListRight, Removed
<1>6. QED
  BY <1>1, <1>3, <1>4, <1>5

\* A saved script takes its place in the list, ...
LEMMA PutAnsweredInv == ASSUME WorkspaceInv, PutAnswered PROVE WorkspaceInv'
<1>1. PICK c \in calls :
        /\ c.op = "put" /\ Answered(c) /\ Cache(Replaced(c))
        /\ drafts' = IF c.from = None THEN drafts ELSE [drafts EXCEPT ![c.from] = None]
        /\ mode' = IF c.from /= None /\ c.here THEN "view" ELSE mode
  BY DEF PutAnswered, Answered
<1>2. c.got /= None /\ calls' = Without(c) /\ list' = Replaced(c) /\ UNCHANGED <<server, typed, outside, made>>
      /\ UNCHANGED <<fetch, selected, creating, importer>> /\ Render(form)
  BY <1>1 DEF PutAnswered, Answered, Cache
<1>3. ListRight(list)'
  BY <1>1, <1>2, AnsweredList DEF ListRight
<1>4. drafts' = drafts \/ \E k \in Keys : drafts' = [drafts EXCEPT ![k] = None]
  <2>1. c.from \in Keys \cup {None} /\ "new" \in Keys
    BY DEF WorkspaceInv, CallRight, CallState, Keys
  <2>2. QED
    BY <1>1, <2>1
<1>5. selected' \in Ids \cup {None} /\ mode' \in {"view", "edit"}
  BY <1>1, <1>2 DEF WorkspaceInv, PageTyped
<1>6. QED
  BY <1>2, <1>3, <1>4, <1>5, AnsweredInv

\* ... and one with its runtime upgraded; ...
LEMMA UpgradeAnsweredInv == ASSUME WorkspaceInv, UpgradeAnswered PROVE WorkspaceInv'
<1>1. PICK c \in calls : c.op = "upgrade" /\ Answered(c) /\ Cache(Replaced(c))
  BY DEF UpgradeAnswered, Answered
<1>2. c.got /= None /\ calls' = Without(c) /\ list' = Replaced(c) /\ UNCHANGED <<server, typed, outside, made>>
      /\ UNCHANGED <<fetch, drafts, selected, mode, creating, importer>> /\ Render(form)
  BY <1>1 DEF UpgradeAnswered, Answered, Cache, Page
<1>3. ListRight(list)' /\ "new" \in Keys
  BY <1>1, <1>2, AnsweredList DEF ListRight, Keys
<1>4. selected' \in Ids \cup {None} /\ mode' \in {"view", "edit"}
  BY <1>2 DEF WorkspaceInv, PageTyped
<1>5. QED
  BY <1>2, <1>3, <1>4, AnsweredInv

\* ... a new one is added, selected and its modal closed; ...
LEMMA CreateAnsweredInv == ASSUME WorkspaceInv, CreateAnswered PROVE WorkspaceInv'
<1>1. PICK c \in calls :
        /\ c.op = "create" /\ Answered(c) /\ Cache(Added(c)) /\ drafts' = [drafts EXCEPT !["new"] = None]
        /\ IF c.here THEN selected' = c.script /\ mode' = "view" /\ creating' = FALSE
           ELSE UNCHANGED <<selected, mode, creating>>
  BY DEF CreateAnswered, Answered
<1>2. c.got /= None /\ calls' = Without(c) /\ list' = Added(c) /\ UNCHANGED <<server, typed, outside, made>>
      /\ UNCHANGED <<fetch, importer>> /\ Render(form)
  BY <1>1 DEF CreateAnswered, Answered, Cache
<1>3. ListRight(list)' /\ "new" \in Keys /\ c.script \in Ids
  BY <1>1, <1>2, AnsweredList DEF ListRight, Keys
<1>4. selected' \in Ids \cup {None} /\ mode' \in {"view", "edit"}
  BY <1>1, <1>3 DEF WorkspaceInv, PageTyped
<1>5. QED
  BY <1>1, <1>2, <1>3, <1>4, AnsweredInv

\* ... one that was deleted goes; ...
LEMMA DeleteAnsweredInv == ASSUME WorkspaceInv, DeleteAnswered PROVE WorkspaceInv'
<1>1. PICK c \in calls :
        /\ c.op = "delete" /\ Answered(c) /\ Cache(Removed(c))
        /\ IF c.here THEN selected' = None /\ mode' = "view" ELSE UNCHANGED <<selected, mode>>
  BY DEF DeleteAnswered, Answered
<1>2. c.got /= None /\ calls' = Without(c) /\ list' = Removed(c) /\ UNCHANGED <<server, typed, outside, made>>
      /\ UNCHANGED <<fetch, creating, importer, drafts>> /\ Render(form)
  BY <1>1 DEF DeleteAnswered, Answered, Cache
<1>3. ListRight(list)' /\ "new" \in Keys
  BY <1>2, AnsweredList DEF ListRight, Keys
<1>4. selected' \in Ids \cup {None} /\ mode' \in {"view", "edit"}
  BY <1>1 DEF WorkspaceInv, PageTyped
<1>5. QED
  BY <1>2, <1>3, <1>4, AnsweredInv

\* ... and one that was imported is selected, to be read with the others.
LEMMA ImportAnsweredInv == ASSUME WorkspaceInv, ImportAnswered PROVE WorkspaceInv'
<1>1. PICK c \in calls :
        /\ c.op = "import" /\ Answered(c)
        /\ IF c.here
           THEN selected' = c.script /\ mode' = "view" /\ importer' = None /\ fetch' = None
           ELSE UNCHANGED <<selected, mode, importer, fetch>>
  BY DEF ImportAnswered, Answered
<1>2. c.got /= None /\ calls' = Without(c) /\ UNCHANGED <<server, typed, outside, made>>
      /\ UNCHANGED <<list, failed, creating, drafts>> /\ Render(form)
  BY <1>1 DEF ImportAnswered, Answered
<1>3. ListRight(list)' /\ "new" \in Keys /\ c.script \in Ids
  BY <1>2, AnsweredList DEF WorkspaceInv, ListRight, Keys
<1>4. selected' \in Ids \cup {None} /\ mode' \in {"view", "edit"}
  BY <1>1, <1>3 DEF WorkspaceInv, PageTyped
<1>5. QED
  BY <1>1, <1>2, <1>3, <1>4, AnsweredInv

\* A call that fails changes the calls alone.
LEMMA CallFailsInv == ASSUME WorkspaceInv, CallFails PROVE WorkspaceInv'
<1>1. PICK c \in calls : calls' = Without(c)
  BY DEF CallFails
<1>2. made' = made /\ UNCHANGED Page /\ Unsent /\ creating' = creating
  BY DEF CallFails, Page
<1>3. \A d \in calls' : CallRight(d) /\ (d.op = "create" => d \in calls)
  BY <1>1, WithoutRight
<1>4. CreatesRight'
  BY <1>2, <1>3 DEF WorkspaceInv, CreatesRight
<1>5. QED
  BY <1>2, <1>3, <1>4, SentInv DEF WorkspaceInv, PageTyped

(***************************************************************************)
(* The editors have their own texts                                          *)
(***************************************************************************)
\* The invariant is inductive.
LEMMA WorkspaceStepInv == WorkspaceInv /\ [WorkspaceNext]_workspaceVars => WorkspaceInv'
<1> SUFFICES ASSUME WorkspaceInv, [WorkspaceNext]_workspaceVars PROVE WorkspaceInv'
  OBVIOUS
<1>1. CASE UNCHANGED workspaceVars
  BY <1>1 DEF workspaceVars, WorkspaceInv, PageTyped, CreatedRight, ServerRight, Exists, ListRight, DraftsRight,
    FormRight, EditorRight, CreatesRight, CallRight
<1>2. CASE Refetch \/ ListArrives \/ ListFails \/ OthersWrite
  BY <1>2, RefetchInv, ListArrivesInv, ListFailsInv, OthersWriteInv
<1>3. CASE SelectListed \/ Edit \/ RouteEdit \/ CancelEdit \/ TypeText \/ ClearEditor \/ Revisit
  BY <1>3, SelectListedInv, EditInv, RouteEditInv, CancelEditInv, TypeTextInv, ClearEditorInv, RevisitInv
<1>4. CASE SaveEditor \/ Toggle \/ Delete \/ Upgrade \/ New \/ TypeNew \/ Create \/ CancelCreate
  BY <1>4, SaveEditorInv, ToggleInv, DeleteInv, UpgradeInv, NewInv, TypeNewInv, CreateInv, CancelCreateInv
<1>5. CASE ReadFile \/ ChooseImport \/ CloseImport \/ ApplyImport
  BY <1>5, ReadFileInv, ChooseImportInv, CloseImportInv, ApplyImportInv
<1>6. CASE ServerWrites \/ PutAnswered \/ UpgradeAnswered \/ CreateAnswered \/ DeleteAnswered \/ ImportAnswered
           \/ CallFails
  BY <1>6, ServerWritesInv, PutAnsweredInv, UpgradeAnsweredInv, CreateAnsweredInv, DeleteAnsweredInv,
    ImportAnsweredInv, CallFailsInv
<1>7. QED
  BY <1>1, <1>2, <1>3, <1>4, <1>5, <1>6 DEF WorkspaceNext

\* At any time each editor of the jobs page has the text of its draft, no script has another's
\* text, and one creation at most is under way from the page.
THEOREM OwnTexts == WorkspaceSpec => []EditorsOwnText
<1>1. WorkspaceInv => EditorsOwnText
  <2> SUFFICES ASSUME WorkspaceInv PROVE EditorsOwnText
    OBVIOUS
  <2>1. \A k : TextsOf(k) \subseteq Texts
    BY DEF TextsOf
  <2>2. WorkspaceTypeOK
    BY <2>1 DEF WorkspaceInv, PageTyped, CreatedRight, ServerRight, ListRight, DraftsRight, FormRight, EditorRight,
      CallRight, CallState, WorkspaceTypeOK
  <2>3. NoForeignText
    BY DEF WorkspaceInv, ServerRight, TextsOf, NoForeignText
  <2>4. EditorShowsDraft
    BY DEF WorkspaceInv, FormRight, EditorRight, EditorShowsDraft
  <2>5. SingleCreate
    <3> DEFINE S == {c \in calls : c.op = "create" /\ c.here}
    <3>1. \A c, d \in S : c = d
      BY DEF WorkspaceInv, CreatesRight
    <3>2. CASE S = {}
      BY <3>2, FS_EmptySet DEF SingleCreate
    <3>3. CASE S /= {}
      <4>1. PICK c : S = {c}
        BY <3>1, <3>3
      <4>2. QED
        BY <4>1, FS_Singleton DEF SingleCreate
    <3>4. QED
      BY <3>2, <3>3
  <2>6. QED
    BY <2>2, <2>3, <2>4, <2>5 DEF EditorsOwnText
<1>2. QED
  BY <1>1, WorkspaceInitInv, WorkspaceStepInv, PTL DEF WorkspaceSpec

(***************************************************************************)
(* What an answer takes away                                                 *)
(***************************************************************************)
\* A creation comes from the form of a new script, an import beside a match must create.
SentRight(c) ==
  /\ c.op = "create" => c.from = "new"
  /\ c.choice = "new" => c.op = "import" /\ c.createNew

\* Each call is told from the others by its number, and was sent as it should be.
CallsTold ==
  /\ \A c \in calls : c.id < made /\ SentRight(c)
  /\ \A c, d \in calls : c.id = d.id => c = d

\* The same call, for whoever waits for it
SameCall(d, c) ==
  d.id = c.id /\ d.op = c.op /\ d.from = c.from /\ d.choice = c.choice /\ d.createNew = c.createNew
  /\ d.got = c.got /\ d.script = c.script

\* The calls after a step are some of those before it.
Carried == \E f : calls' \subseteq {f[c] : c \in calls} /\ \A c \in calls : SameCall(f[c], c)

\* Whoever waits for it, it is the same call.
LEMMA WatchedSame ==
  ASSUME NEW c \in CallState, NEW w, NEW h
  PROVE  /\ SameCall([c EXCEPT !.watched = w], c)
         /\ SameCall([c EXCEPT !.watched = w, !.here = h], c)
BY DEF CallState, SameCall

\* Calls that are left as they were are carried on.
LEMMA CarriedSome == ASSUME calls' \subseteq calls PROVE Carried
<1> DEFINE f == [c \in calls |-> c]
<1>1. calls' \subseteq {f[c] : c \in calls} /\ \A c \in calls : SameCall(f[c], c)
  BY DEF SameCall
<1> HIDE DEF f
<1>2. QED
  BY <1>1 DEF Carried

\* No import is waited for any more.
LEMMA CarriedUnpended ==
  ASSUME WorkspaceInv, NEW C, C \subseteq calls, calls' = Unpended(C)
  PROVE  Carried
<1> DEFINE f == [c \in calls |-> IF c.op = "import" THEN [c EXCEPT !.watched = FALSE] ELSE c]
<1>1. \A c \in calls : SameCall(f[c], c)
  <2>1. SUFFICES ASSUME NEW c \in calls PROVE SameCall(f[c], c)
    OBVIOUS
  <2>2. c \in CallState
    BY DEF WorkspaceInv, CallRight
  <2>3. SameCall([c EXCEPT !.watched = FALSE], c)
    BY <2>2, WatchedSame
  <2>4. QED
    BY <2>3 DEF SameCall
<1>2. calls' \subseteq {f[c] : c \in calls}
  BY DEF Unpended
<1> HIDE DEF f
<1>3. QED
  BY <1>1, <1>2 DEF Carried

\* So are those left by an answer or a failure; the call itself is gone unless it is an import.
LEMMA CarriedWithout ==
  ASSUME WorkspaceInv, NEW c \in calls, calls' = Without(c)
  PROVE  Carried /\ (c.op /= "import" => c \in calls \ calls')
<1>1. PICK C : C = calls \ {c}
  OBVIOUS
<1>2. calls' = C \/ calls' = Unpended(C)
  BY <1>1 DEF Without
<1>3. Carried
  BY <1>1, <1>2, CarriedSome, CarriedUnpended
<1>4. c.op /= "import" => c \in calls \ calls'
  BY DEF Without
<1>5. QED
  BY <1>3, <1>4

\* The steps that send or carry out no call
LEMMA OthersCarried ==
  ASSUME WorkspaceInv, [WorkspaceNext]_workspaceVars
  PROVE  \/ Carried /\ made' = made
         \/ SaveEditor \/ Toggle \/ Delete \/ Upgrade \/ Create \/ ApplyImport \/ ServerWrites
<1>1. \A c \in calls : c \in CallState
  BY DEF WorkspaceInv, CallRight
<1>2. CASE Edit
  <2> DEFINE f == [c \in calls |-> [c EXCEPT !.watched = @ /\ c.op = "import"]]
  <2>1. \A c \in calls : SameCall(f[c], c)
    BY <1>1, WatchedSame
  <2>2. calls' \subseteq {f[c] : c \in calls} /\ made' = made
    BY <1>2 DEF Edit, Forgotten
  <2> HIDE DEF f
  <2>3. QED
    BY <2>1, <2>2 DEF Carried
<1>3. CASE Revisit
  <2> DEFINE f == [c \in calls |-> [c EXCEPT !.watched = FALSE, !.here = FALSE]]
  <2>1. \A c \in calls : SameCall(f[c], c)
    BY <1>1, WatchedSame
  <2>2. calls' \subseteq {f[c] : c \in calls} /\ made' = made
    BY <1>3 DEF Revisit
  <2> HIDE DEF f
  <2>3. QED
    BY <2>1, <2>2 DEF Carried
<1>4. CASE New
  <2> DEFINE f == [c \in calls |-> IF c.op = "create" THEN [c EXCEPT !.watched = FALSE] ELSE c]
  <2>1. \A c \in calls : SameCall(f[c], c)
    <3>1. SUFFICES ASSUME NEW c \in calls PROVE SameCall(f[c], c)
      OBVIOUS
    <3>2. SameCall([c EXCEPT !.watched = FALSE], c)
      BY <1>1, WatchedSame
    <3>3. QED
      BY <3>2 DEF SameCall
  <2>2. calls' \subseteq {f[c] : c \in calls} /\ made' = made
    BY <1>4 DEF New
  <2> HIDE DEF f
  <2>3. QED
    BY <2>1, <2>2 DEF Carried
<1>5. CASE ReadFile \/ ChooseImport \/ CloseImport
  <2>1. made' = made /\ (calls' = calls \/ calls' = Unpended(calls))
    BY <1>5 DEF ReadFile, ChooseImport, CloseImport, OnlyImporter
  <2>2. QED
    BY <2>1, CarriedSome, CarriedUnpended
<1>6. CASE PutAnswered \/ UpgradeAnswered \/ CreateAnswered \/ DeleteAnswered \/ ImportAnswered \/ CallFails
  <2>1. PICK c \in calls : calls' = Without(c)
    BY <1>6 DEF PutAnswered, UpgradeAnswered, CreateAnswered, DeleteAnswered, ImportAnswered, CallFails, Answered
  <2>2. made' = made
    BY <1>6 DEF PutAnswered, UpgradeAnswered, CreateAnswered, DeleteAnswered, ImportAnswered, CallFails, Answered
  <2>3. QED
    BY <2>1, <2>2, CarriedWithout
<1>7. CASE \/ Refetch \/ ListArrives \/ ListFails \/ OthersWrite \/ SelectListed \/ RouteEdit \/ CancelEdit
           \/ TypeText \/ ClearEditor \/ TypeNew \/ CancelCreate \/ UNCHANGED workspaceVars
  <2>1. made' = made /\ calls' = calls
    BY <1>7 DEF Refetch, ListArrives, ListFails, OthersWrite, SelectListed, RouteEdit, CancelEdit,
      TypeText, ClearEditor, TypeNew, CancelCreate, workspaceVars
  <2>2. QED
    BY <2>1, CarriedSome
<1>8. QED
  BY <1>2, <1>3, <1>4, <1>5, <1>6, <1>7 DEF WorkspaceNext

\* A call is sent with the next number.
LEMMA SentTold ==
  ASSUME NEW op, NEW script, NEW from, NEW text, NEW createNew, Send(op, script, from, text, createNew),
         op = "create" => from = "new",
         op = "import" /\ Existing /\ importer.choice = "new" => createNew
  PROVE  \E d : d.id = made /\ SentRight(d) /\ d.got = None /\ calls' = calls \cup {d} /\ made' = made + 1
<1>1. PICK h : h = IF op = "import" /\ Existing THEN importer.choice ELSE None
  OBVIOUS
<1>2. PICK d : d = [op |-> op, script |-> script, from |-> from, text |-> text,
                    createNew |-> createNew, got |-> None, id |-> made, choice |-> h,
                    watched |-> op /= "upgrade", here |-> TRUE]
  OBVIOUS
<1>3. calls' = calls \cup {d} /\ made' = made + 1
  BY <1>1, <1>2 DEF Send
<1>4. d.id = made /\ d.got = None /\ d.op = op /\ d.from = from /\ d.choice = h /\ d.createNew = createNew
  BY <1>2
<1>5. SentRight(d)
  BY <1>1, <1>4, WorkspaceAssumption DEF SentRight
<1>6. QED
  BY <1>3, <1>4, <1>5

\* What is sent is the next call, not yet carried out.
LEMMA SendsTold ==
  ASSUME SaveEditor \/ Toggle \/ Delete \/ Upgrade \/ Create \/ ApplyImport
  PROVE  \E d : d.id = made /\ SentRight(d) /\ d.got = None /\ calls' = calls \cup {d} /\ made' = made + 1
<1>1. CASE SaveEditor
  BY <1>1, SentTold DEF SaveEditor
<1>2. CASE Toggle
  BY <1>2, SentTold DEF Toggle
<1>3. CASE Delete \/ Upgrade
  BY <1>3, SentTold DEF Delete, Upgrade
<1>4. CASE Create
  BY <1>4, SentTold DEF Create
<1>5. CASE ApplyImport
  <2>1. PICK w : w = (Existing /\ importer.choice = "new")
    OBVIOUS
  <2>2. Send("import", importer.file, None, <<"import", 0>>, w)
    BY <1>5, <2>1 DEF ApplyImport
  <2>3. QED
    BY <2>1, <2>2, SentTold
<1>6. QED
  BY <1>1, <1>2, <1>3, <1>4, <1>5

\* The calls stay told from each other: one is sent at a time, with the next number.
LEMMA CallsToldStep ==
  ASSUME WorkspaceInv, CallsTold, [WorkspaceNext]_workspaceVars
  PROVE  CallsTold'
<1>1. CASE Carried /\ made' = made
  <2>1. PICK f : calls' \subseteq {f[c] : c \in calls} /\ \A c \in calls : SameCall(f[c], c)
    BY <1>1 DEF Carried
  <2>2. QED
    BY <1>1, <2>1 DEF CallsTold, SameCall, SentRight
<1>2. CASE ServerWrites
  <2>1. PICK c \in calls : \E t, s : calls' = (calls \ {c}) \cup {[c EXCEPT !.got = t, !.script = s]}
    BY <1>2 DEF ServerWrites
  <2>2. PICK t, s : calls' = (calls \ {c}) \cup {[c EXCEPT !.got = t, !.script = s]}
    BY <2>1
  <2>3. PICK d : d = [c EXCEPT !.got = t, !.script = s]
    OBVIOUS
  <2>4. d.id = c.id /\ d.op = c.op /\ d.from = c.from /\ d.choice = c.choice /\ d.createNew = c.createNew
    <3>1. c \in CallState
      BY DEF WorkspaceInv, CallRight
    <3>2. QED
      BY <2>3, <3>1 DEF CallState
  <2>5. made' = made /\ calls' = (calls \ {c}) \cup {d}
    BY <1>2, <2>2, <2>3 DEF ServerWrites
  <2>6. QED
    BY <2>4, <2>5 DEF CallsTold, SentRight
<1>3. CASE SaveEditor \/ Toggle \/ Delete \/ Upgrade \/ Create \/ ApplyImport
  <2>1. made \in Nat /\ \A c \in calls : c.id \in Nat
    BY DEF WorkspaceInv, PageTyped, CallRight, CallState
  <2>2. \E d : d.id = made /\ SentRight(d) /\ calls' = calls \cup {d} /\ made' = made + 1
    BY <1>3, SendsTold
  <2>3. QED
    BY <2>1, <2>2 DEF CallsTold
<1>4. QED
  BY <1>1, <1>2, <1>3, OthersCarried

\* A draft goes by Clear, or with the answer to a save of its form.
LEMMA DraftsOutliveStep ==
  ASSUME WorkspaceInv, CallsTold, [WorkspaceNext]_workspaceVars,
         NEW k \in Keys, drafts[k] /= None, drafts'[k] = None
  PROVE  \/ \E c \in calls \ calls' : c.from = k /\ c.got /= None
         \/ form' /= None /\ form'.key = k /\ form'.text = Opened(k, list, drafts')
<1>1. drafts \in [Keys -> Texts \cup {None}] /\ "new" \in Keys
  BY DEF WorkspaceInv, DraftsRight, Keys
<1>2. /\ drafts' \in [Keys -> Texts \cup {None}] /\ \A q \in Keys : drafts'[q] /= None => drafts'[q] \in TextsOf(q)
      /\ ListRight(list)
  BY WorkspaceStepInv DEF WorkspaceInv, DraftsRight
<1>3. CASE ClearEditor
  <2>1. PICK o : o = Opened(form.key, list, drafts')
    OBVIOUS
  <2>2. /\ form /= None /\ drafts' = [drafts EXCEPT ![form.key] = None] /\ form' = [form EXCEPT !.text = o]
    BY <1>3, <2>1 DEF ClearEditor
  <2>3. form = [key |-> form.key, text |-> form.text] /\ form.key \in Keys
    BY <2>2 DEF WorkspaceInv, FormRight, EditorRight
  <2>4. form.key = k
    BY <1>1, <2>2
  <2>5. form' = [key |-> k, text |-> o]
    BY <2>2, <2>3, <2>4
  <2>6. o \in Texts
    BY <2>1, <2>3, <1>2, OpenedRight DEF WorkspaceInv, TextsOf
  <2>7. form' /= None
    BY <2>5, <2>6, WorkspaceAssumption
  <2>8. QED
    BY <2>1, <2>4, <2>5, <2>7
<1>4. CASE PutAnswered
  <2>1. PICK c \in calls :
          /\ c.op = "put" /\ c.got /= None /\ calls' = Without(c)
          /\ drafts' = IF c.from = None THEN drafts ELSE [drafts EXCEPT ![c.from] = None]
    BY <1>4 DEF PutAnswered, Answered
  <2>2. c \in calls \ calls'
    BY <2>1, CarriedWithout
  <2>3. QED
    BY <1>1, <2>1, <2>2
<1>5. CASE CreateAnswered
  <2>1. PICK c \in calls : c.op = "create" /\ c.got /= None /\ calls' = Without(c)
                           /\ drafts' = [drafts EXCEPT !["new"] = None]
    BY <1>5 DEF CreateAnswered, Answered
  <2>2. c \in calls \ calls' /\ c.from = "new"
    BY <2>1, CarriedWithout DEF CallsTold, SentRight
  <2>3. QED
    BY <1>1, <2>1, <2>2
<1>6. CASE TypeText
  <2>1. form.key \in Keys /\ drafts' = [drafts EXCEPT ![form.key] = <<form.key, typed + 1>>]
    BY <1>6 DEF TypeText, WorkspaceInv, FormRight, EditorRight
  <2>2. typed + 1 \in 0..(MaxTexts + 1)
    BY <1>6, WorkspaceAssumption DEF WorkspaceInv, PageTyped, TypeText
  <2>3. <<form.key, typed + 1>> \in TextsOf(form.key)
    BY <2>1, <2>2, TextsMade
  <2>4. QED
    BY <1>1, <2>1, <2>3, TextsMade
<1>7. CASE TypeNew
  <2>1. drafts' = [drafts EXCEPT !["new"] = <<"new", typed + 1>>]
    BY <1>7 DEF TypeNew
  <2>2. typed + 1 \in 0..(MaxTexts + 1)
    BY <1>7, WorkspaceAssumption DEF WorkspaceInv, PageTyped, TypeNew
  <2>3. <<"new", typed + 1>> \in TextsOf("new")
    BY <1>1, <2>2, TextsMade
  <2>4. QED
    BY <1>1, <2>1, <2>3, TextsMade
<1>8. CASE ~(ClearEditor \/ PutAnswered \/ CreateAnswered \/ TypeText \/ TypeNew)
  <2>1. drafts' = drafts
    BY <1>8 DEF WorkspaceNext, workspaceVars, Refetch, ListArrives, ListFails, OthersWrite, SelectListed, Edit,
      RouteEdit, CancelEdit, Revisit, SaveEditor, Toggle, Delete, Upgrade, New, Create, CancelCreate, ReadFile,
      ChooseImport, CloseImport, OnlyImporter, ApplyImport, Unsent, ServerWrites, UpgradeAnswered, DeleteAnswered,
      ImportAnswered, CallFails
  <2>2. QED
    BY <2>1
<1>9. QED
  BY <1>3, <1>4, <1>5, <1>6, <1>7, <1>8

\* A script comes into the list with a reading of it, or with its creation.
LEMMA ListedStep ==
  ASSUME WorkspaceInv, [WorkspaceNext]_workspaceVars, NEW s \in DOMAIN list' \ DOMAIN list
  PROVE  \/ fetch /= None /\ list' = fetch
         \/ \E c \in calls \ calls' : c.op = "create" /\ c.script = s
<1>1. CASE ListArrives
  BY <1>1 DEF ListArrives
<1>2. CASE CreateAnswered
  <2>1. PICK c \in calls : c.op = "create" /\ calls' = Without(c) /\ list' = Added(c)
    BY <1>2 DEF CreateAnswered, Answered, Cache
  <2>2. c \in calls \ calls'
    BY <2>1, CarriedWithout
  <2>3. QED
    BY <2>1, <2>2 DEF Added
<1>3. CASE PutAnswered \/ UpgradeAnswered
  BY <1>3 DEF PutAnswered, UpgradeAnswered, Cache, Replaced
<1>4. CASE DeleteAnswered
  BY <1>4 DEF DeleteAnswered, Cache, Removed
<1>5. CASE ~(ListArrives \/ CreateAnswered \/ PutAnswered \/ UpgradeAnswered \/ DeleteAnswered)
  <2>1. list' = list
    BY <1>5 DEF WorkspaceNext, workspaceVars, Refetch, ListFails, OthersWrite, SelectListed, Edit, Static, Quiet,
      RouteEdit, CancelEdit, TypeText, ClearEditor, Revisit, SaveEditor, Toggle, Delete, Upgrade, New, TypeNew,
      Create, CancelCreate, ReadFile, ChooseImport, CloseImport, OnlyImporter, ApplyImport, Unsent, ServerWrites,
      ImportAnswered, CallFails
  <2>2. QED
    BY <2>1
<1>6. QED
  BY <1>1, <1>2, <1>3, <1>4, <1>5

\* An import beside its match adds a script.
LEMMA NewImportStep ==
  ASSUME WorkspaceInv, CallsTold, [WorkspaceNext]_workspaceVars, NEW c \in calls, NEW d \in calls',
         c.id = d.id, c.got = None, d.got /= None, d.choice = "new"
  PROVE  server[d.script] = Free
<1>1. CASE Carried
  <2>1. PICK f : calls' \subseteq {f[e] : e \in calls} /\ \A e \in calls : SameCall(f[e], e)
    BY <1>1 DEF Carried
  <2>2. PICK e \in calls : d = f[e]
    BY <2>1
  <2>3. SameCall(d, e)
    BY <2>1, <2>2
  <2>4. QED
    BY <2>3 DEF SameCall, CallsTold
<1>2. CASE ServerWrites
  <2>1. PICK e \in calls :
          \E s \in Ids : \E t :
            /\ e.createNew /\ e.op = "import" => server[s] = Free
            /\ calls' = (calls \ {e}) \cup {[e EXCEPT !.got = t, !.script = s]}
    BY <1>2 DEF ServerWrites
  <2>2. PICK s \in Ids :
          \E t : /\ e.createNew /\ e.op = "import" => server[s] = Free
                /\ calls' = (calls \ {e}) \cup {[e EXCEPT !.got = t, !.script = s]}
    BY <2>1
  <2>3. PICK t : /\ e.createNew /\ e.op = "import" => server[s] = Free
                 /\ calls' = (calls \ {e}) \cup {[e EXCEPT !.got = t, !.script = s]}
    BY <2>2
  <2>4. CASE d \in calls
    BY <2>4 DEF CallsTold
  <2>5. CASE d \notin calls
    <3>1. d = [e EXCEPT !.got = t, !.script = s]
      BY <2>3, <2>5
    <3>2. e \in CallState
      BY DEF WorkspaceInv, CallRight
    <3>3. d.choice = e.choice /\ d.script = s
      BY <3>1, <3>2 DEF CallState
    <3>4. QED
      BY <2>3, <3>3 DEF CallsTold, SentRight
  <2>6. QED
    BY <2>4, <2>5
<1>3. CASE SaveEditor \/ Toggle \/ Delete \/ Upgrade \/ Create \/ ApplyImport
  <2>1. \E e : e.got = None /\ calls' = calls \cup {e}
    BY <1>3, SendsTold
  <2>2. QED
    BY <2>1 DEF CallsTold
<1>4. QED
  BY <1>1, <1>2, <1>3, OthersCarried

\* No answer, failure or import of the jobs page takes away a draft, a deletion or another
\* script.
THEOREM WritesKeepOthers == WorkspaceSpec => WritesTakeNothingElse
<1>1. WorkspaceInit => WorkspaceInv /\ CallsTold
  BY WorkspaceInitInv DEF WorkspaceInit, CallsTold
<1>2. WorkspaceInv /\ CallsTold /\ [WorkspaceNext]_workspaceVars => WorkspaceInv' /\ CallsTold'
  BY WorkspaceStepInv, CallsToldStep
<1>3. WorkspaceInv /\ CallsTold /\ [WorkspaceNext]_workspaceVars
        => [\A k \in Keys : drafts[k] /= None /\ drafts'[k] = None =>
              \/ \E c \in calls \ calls' : c.from = k /\ c.got /= None
              \/ form' /= None /\ form'.key = k /\ form'.text = Opened(k, list, drafts')]_workspaceVars
  BY DraftsOutliveStep
<1>4. WorkspaceInv /\ CallsTold /\ [WorkspaceNext]_workspaceVars
        => [\A s \in DOMAIN list' \ DOMAIN list :
              \/ fetch /= None /\ list' = fetch
              \/ \E c \in calls \ calls' : c.op = "create" /\ c.script = s]_workspaceVars
  BY ListedStep
<1>5. WorkspaceInv /\ CallsTold /\ [WorkspaceNext]_workspaceVars
        => [\A c \in calls, d \in calls' :
              c.id = d.id /\ c.got = None /\ d.got /= None /\ d.choice = "new"
                => server[d.script] = Free]_workspaceVars
  BY NewImportStep
<1>6. QED
  BY <1>1, <1>2, <1>3, <1>4, <1>5, PTL
    DEF WorkspaceSpec, WritesTakeNothingElse, DraftOutlivesFailure, DeletedStaysGone, NewImportKeepsOthers
=============================================================================
