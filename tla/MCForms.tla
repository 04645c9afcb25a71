------------------------------- MODULE MCForms -------------------------------
(* The editor of a script and the jobs page around it, for TLC, each on its own. The *)
(* editor: a day of three hours of three minutes, runs two minutes apart.           *)
EXTENDS ScriptForm, ScriptsWorkspace

CONSTANTS a, b

RuntimesNamed == [p \in Paths |-> CASE p = "main.py" -> "python"
                                    [] p = "tool.jar" -> "java" [] OTHER -> None]

Taken == {<<"main.py", 1>>}
FirstDays == {1, 2}
TimesChosen == {<<1, 1>>, NoTime}

\* The first and the last minute of the day are two runs one minute apart.
CronsTyped == {NoCron, [minutes |-> {1}, hours |-> {2}, day |-> AnyDay],
               [minutes |-> {0, 2}, hours |-> {0, 2}, day |-> AnyDay]}

ScriptsSaved ==
  LET main == [EmptyForm EXCEPT !.name = <<"main.py", 1>>, !.path = "main.py"]
  IN {[main EXCEPT !.version = 3, !.args = "some", !.active = FALSE],
      [main EXCEPT !.runtime = "java", !.path = JarPath, !.jar = TRUE,
                   !.enabled = TRUE, !.type = "hourly"],
      [main EXCEPT !.version = 3, !.mode = "shell", !.shell = "typed"],
      [main EXCEPT !.version = 2, !.source = "command"],
      [main EXCEPT !.enabled = TRUE, !.type = "monthly",
                   !.cron = PresetCron("monthly", <<1, 1>>, 2)]}

VARIABLE part  \* which of the two runs

formsVars == <<formVars, workspaceVars, part>>

Init ==
  /\ part \in {"editor", "workspace"}
  /\ FormInit
  /\ WorkspaceInit
  /\ part /= "editor" => saved = None
  /\ part /= "workspace" => list = << >>

Next ==
  /\ UNCHANGED part
  /\ \/ part = "editor" /\ FormNext /\ UNCHANGED workspaceVars
     \/ part = "workspace" /\ WorkspaceNext /\ UNCHANGED formVars

Spec == Init /\ [][Next]_formsVars
=============================================================================
