------------------------------- MODULE MCPages -------------------------------
(* Pages of the web application for TLC, each on its own: a page is chosen at the *)
(* start, and the others stay as they begin.                                      *)
EXTENDS RunRequest, RunHistory, ServerLogs, LogSearch, ShellCache, AdminUsage, FilePickers, TLC

CONSTANTS scriptA, scriptB

Config(v, m, t) == [version |-> v, active |-> TRUE, mode |-> m, text |-> t]
Configured ==
  (scriptA :> {Config(2, "arguments", "saved")})
    @@ (scriptB :> {Config(4, "arguments", "saved")})
Reconfigured == {Config(4, "shell", "theirs"), [Config(4, "arguments", "saved") EXCEPT !.active = FALSE]}
NoTyped == {}

RunsIn == [all |-> 1..5, odd |-> {1, 3, 5}, wrong |-> 1..5]

LevelOf == <<"INFO", "ERROR", "INFO", "INFO", "ERROR", "INFO", "ERROR">>

Searched == [today  |-> [text |-> "failed", keeps |-> 1..4, open |-> TRUE],
             before |-> [text |-> "done", keeps |-> {1, 3, 4}, open |-> FALSE]]
Logged == << <<{}, {"failed"}>>, <<{"failed"}, {}, {"done"}>>, <<>>, <<{"done"}>> >>

Earlier == <<[office |-> 1, at |-> 2, minutes |-> 3, failed |-> TRUE, over |-> TRUE],
             [office |-> 2, at |-> 4, minutes |-> 0, failed |-> FALSE, over |-> FALSE]>>

File(d, t) == [dir |-> d, text |-> t]
Pushes == {{File(<<>>, "load.py"), File(<<"bin">>, "load.sh"), File(<<"bin", "old">>, "load.py")}, {File(<<>>, "load.py")}}
PathTexts == {"", "lo", "load.py", "load.sh", "tool.jar"}
NamesWith == [t \in PathTexts |-> CASE t = ""   -> {"bin", "old", "load.py", "load.sh", "tool.jar"}
                                [] t = "lo" -> {"load.py", "load.sh"}
                                [] OTHER    -> {t}]
NamedBy == [t \in PathTexts |-> CASE t = "load.py"  -> "python" [] t = "load.sh" -> "shell"
                                [] t = "tool.jar" -> "java" [] OTHER -> None]
AllReleases == <<2, 1, 3>>
AssetsIn == << << >>, <<"load.py", "tool.jar">>, <<"tool.jar">> >>

VARIABLE page  \* which part runs

pageVars == <<runVars, historyVars, logVars, searchVars, shellVars, usageVars, pickerVars, page>>

Init ==
  /\ page \in {"runs", "history", "server logs", "log search", "shell", "usage", "files"}
  /\ RunRequestInit
  /\ RunHistoryInit
  /\ ServerLogsInit
  /\ LogSearchInit
  /\ ShellCacheInit
  /\ AdminUsageInit
  /\ FilePickersInit
  /\ page /= "files" => fileForm.path = NoText /\ tree = {File(<<>>, "load.py")}
  /\ page /= "runs" => host = "submit"
  /\ page /= "history" => shownKey = [page |-> 1, size |-> 1, filter |-> "all"]
  /\ page /= "log search" => form = "today"

Next ==
  /\ UNCHANGED page
  /\ \/ page = "runs" /\ RunRequestNext
        /\ UNCHANGED <<historyVars, logVars, searchVars, shellVars, usageVars, pickerVars>>
     \/ page = "history" /\ RunHistoryNext
        /\ UNCHANGED <<runVars, logVars, searchVars, shellVars, usageVars, pickerVars>>
     \/ page = "server logs" /\ ServerLogsNext
        /\ UNCHANGED <<runVars, historyVars, searchVars, shellVars, usageVars, pickerVars>>
     \/ page = "log search" /\ LogSearchNext
        /\ UNCHANGED <<runVars, historyVars, logVars, shellVars, usageVars, pickerVars>>
     \/ page = "shell" /\ ShellCacheNext
        /\ UNCHANGED <<runVars, historyVars, logVars, searchVars, usageVars, pickerVars>>
     \/ page = "usage" /\ AdminUsageNext
        /\ UNCHANGED <<runVars, historyVars, logVars, searchVars, shellVars, pickerVars>>
     \/ page = "files" /\ FilePickersNext
        /\ UNCHANGED <<runVars, historyVars, logVars, searchVars, shellVars, usageVars>>

Spec == Init /\ [][Next]_pageVars

\* The logs that are shown are those that were asked for, and all of them.
LogsHonest == LogsExact /\ SearchHonest

\* Figures, files and JARs are those of what is chosen.
ChoicesShown == FiguresTrue /\ PickedIsShown
=============================================================================
