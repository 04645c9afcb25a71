------------------------------ MODULE JobOutput ------------------------------
(***************************************************************************)
(* The output of one run in the viewer (useJobLogs.ts, JobLogs.tsx) over its *)
(* two sources (core/job_logger): CloudWatch, which is read page by page     *)
(* with a cursor and may start another stream when the run is retried, and   *)
(* S3, which has a whole file once the run is over.                          *)
(*                                                                          *)
(* The viewer keeps what it read under one key while the run is active and   *)
(* under another once it is over.  Readings that nobody waits for are        *)
(* aborted.  A line is its stream and its number.  The viewer keeps the last  *)
(* 2,000,000 characters of what it has read: here, the last so many lines, as *)
(* if all were of one length and none were cut in two.                        *)
(***************************************************************************)
EXTENDS Naturals, Sequences, Browser

CONSTANTS
  MaxLines,    \* lines of a stream
  PageLines,   \* lines one reading returns at most
  MaxVisible,  \* MAX_VISIBLE_CHARACTERS, in lines
  FinalChecks, \* FINAL_LOG_CHECKS
  MaxTrouble,  \* bound: readings that fail, cursors that expire
  MaxActs      \* bound: what the user does

\* Lines, a place in a stream, a page of the server, what a query keeps, and a reading
OutputText    == Seq((1..2) \X Nat)
OutputCursor  == [stream: 1..2, line: Nat] \cup {None}
OutputPage    == [logs: OutputText, next: OutputCursor, more: BOOLEAN, reset: BOOLEAN,
                  available: BOOLEAN, live: BOOLEAN]
OutputData    == [logs: OutputText, next: OutputCursor, more: BOOLEAN, available: BOOLEAN,
                  live: BOOLEAN, truncated: BOOLEAN, checks: Nat \cup {None}]
OutputReading == [key: {"active", "finished"}, previous: OutputData \cup {None}, page: OutputPage]
ViewedStatuses == {"Pending", "Running", "Completed", "Cancelled"}

ASSUME JobOutputAssumption ==
  /\ MaxLines \in Nat /\ {PageLines, MaxVisible} \subseteq Nat \ {0} /\ FinalChecks \in Nat
  /\ MaxTrouble \in Nat /\ MaxActs \in Nat
  /\ None \notin Nat /\ None \notin ViewedStatuses /\ None \notin OutputData /\ None \notin OutputReading

VARIABLES
  source,   \* "cloudwatch" or "s3"
  ended,    \* how the run ended, or None
  stream,   \* the stream of the run
  visible,  \* its lines that can be read
  seen,     \* the status the viewer is given, or None when it is closed
  logs,     \* the two queries: key to data or None
  errored,  \* the keys whose last reading failed
  reading,  \* the reading under way, or None
  afresh,   \* startFromBeginning
  paused,   \* the update interval is "Paused"
  autos,    \* readings of the run that is over made by the interval alone
  settled,  \* all lines could be read when the viewer learnt the end
  trouble, acts   \* counters

outputVars == <<source, ended, stream, visible, seen, logs, errored, reading, afresh,
                paused, autos, settled, trouble, acts>>

Run == <<source, ended, stream, visible>>

Finished(s) == s \in {"Completed", "Failed"}

\* The key of the active run is kept for ever (mutant).
KeyOfActive(s) == "active"

Key(s) == IF Finished(s) THEN "finished" ELSE "active"

JobOutputInit ==
  /\ source \in {"cloudwatch", "s3"} /\ ended = None /\ stream = 1 /\ visible = 0
  /\ seen = None /\ logs = [k \in {"active", "finished"} |-> None] /\ errored = {}
  /\ reading = None /\ afresh = FALSE /\ paused = FALSE /\ autos = 0 /\ settled = FALSE
  /\ trouble = 0 /\ acts = 0

(***************************************************************************)
(* The run                                                                  *)
(***************************************************************************)
Viewer == <<seen, logs, errored, reading, afresh, paused, autos, settled, trouble, acts>>

\* Lines may come after the end: CloudWatch takes them in later.
Writes ==
  /\ visible < MaxLines
  /\ visible' = IF source = "s3" THEN MaxLines ELSE visible + 1
  /\ source = "s3" => ended /= None
  /\ UNCHANGED <<source, ended, stream>> /\ UNCHANGED Viewer

RunRetried ==
  /\ source = "cloudwatch" /\ ended = None /\ stream = 1 /\ visible > 0
  /\ stream' = 2 /\ visible' = 0
  /\ UNCHANGED <<source, ended>> /\ UNCHANGED Viewer

Ends ==
  /\ ended = None /\ ended' \in {"Completed", "Cancelled"}
  /\ UNCHANGED <<source, stream, visible>> /\ UNCHANGED Viewer

(***************************************************************************)
(* The server's pages                                                       *)
(***************************************************************************)
Lines(from, to) == [i \in 1..(to - from) |-> <<stream, from + i>>]

NoLines(cursor, live) ==
  [logs |-> <<>>, next |-> cursor, more |-> FALSE, reset |-> FALSE, available |-> FALSE, live |-> live]

\* get_log_page of the S3 logger
Snapshot ==
  IF visible = 0 THEN NoLines(None, FALSE)
  ELSE [logs |-> Lines(0, visible), next |-> None, more |-> FALSE, reset |-> TRUE,
        available |-> TRUE, live |-> FALSE]

\* get_log_page of the CloudWatch logger: a cursor of another stream, or one issued
\* 23 hours ago, starts the stream again.
StreamPage(cursor, expired) ==
  LET reset == cursor /= None /\ (expired \/ cursor.stream /= stream)
      from  == IF cursor = None \/ reset THEN 0 ELSE cursor.line
      to    == IF from + PageLines < visible THEN from + PageLines ELSE visible
  IN IF visible = 0 THEN NoLines(cursor, TRUE)
     ELSE [logs |-> Lines(from, to), next |-> [stream |-> stream, line |-> to],
           more |-> to < visible, reset |-> reset, available |-> TRUE, live |-> TRUE]

PageFor(cursor, expired) == IF source = "s3" THEN Snapshot ELSE StreamPage(cursor, expired)

(***************************************************************************)
(* Reading                                                                  *)
(***************************************************************************)
\* A reading of the run that is over has nothing of its own before it (mutant).
PreviousActive(k) == IF afresh THEN None ELSE logs["active"]

\* What the page is joined to
Previous(k) ==
  IF afresh THEN None
  ELSE IF logs[k] = None /\ k = "finished" THEN logs["active"] ELSE logs[k]

ReadingOf(k) ==
  LET previous == Previous(k)
      cursor   == IF previous = None THEN None ELSE previous.next
  IN [key |-> k, previous |-> previous, page |-> PageFor(cursor, FALSE)]

\* Restarted from the beginning, the text is added to the one that is shown (mutant).
JoinedAnyway(r) == IF r.page.reset THEN r.page.logs ELSE
  (IF logs[r.key] = None THEN <<>> ELSE logs[r.key].logs) \o r.page.logs

\* A page that is no continuation takes the place of the text.
Replaces(r) == r.page.reset \/ r.previous = None \/ r.previous.next = None

Joined(r) == IF Replaces(r) THEN r.page.logs ELSE r.previous.logs \o r.page.logs

\* The first lines are kept, not the last (mutant).
SlicedFirst(l) == IF Len(l) > MaxVisible THEN SubSeq(l, 1, MaxVisible) ELSE l

\* What is kept of a text, and whether lines before it were left out
Sliced(l)    == IF Len(l) > MaxVisible THEN SubSeq(l, Len(l) - MaxVisible + 1, Len(l)) ELSE l
Truncated(r) == Len(Joined(r)) > MaxVisible \/ (~Replaces(r) /\ r.previous.truncated)

\* The budget of readings after the end; recent: it ended within the last minute.
Checks(r, recent) ==
  LET before == IF r.previous = None THEN None ELSE r.previous.checks IN
  IF r.key = "finished" /\ \/ before /= None \/ logs["active"] /= None \/ recent
                           \/ ~r.page.available \/ Joined(r) = <<>>
  THEN IF before = None THEN 0 ELSE before + 1
  ELSE None

Arrives ==
  /\ reading /= None
  /\ \E recent \in BOOLEAN :
       logs' = [logs EXCEPT ![reading.key] =
                 [logs |-> Sliced(Joined(reading)), next |-> reading.page.next, more |-> reading.page.more,
                  available |-> reading.page.available, live |-> reading.page.live,
                  truncated |-> Truncated(reading), checks |-> Checks(reading, recent)]]
  /\ errored' = errored \ {reading.key} /\ reading' = None /\ afresh' = FALSE
  /\ UNCHANGED Run /\ UNCHANGED <<seen, paused, autos, settled, trouble, acts>>

Trouble == trouble < MaxTrouble /\ trouble' = trouble + 1

OutputFails ==
  /\ Trouble /\ reading /= None /\ reading' = None /\ errored' = errored \cup {reading.key}
  /\ UNCHANGED Run /\ UNCHANGED <<seen, logs, afresh, paused, autos, settled, acts>>

CursorExpires ==
  /\ Trouble /\ reading /= None /\ reading.previous /= None /\ reading.previous.next /= None
  /\ reading' = [reading EXCEPT !.page = PageFor(reading.previous.next, TRUE)]
  /\ UNCHANGED Run /\ UNCHANGED <<seen, logs, errored, afresh, paused, autos, settled, acts>>

\* refetchInterval
OutputDue(k) ==
  /\ k \notin errored
  /\ LET data == logs[k] IN
     \/ /\ Finished(seen) /\ data /= None
        /\ data.checks /= None /\ data.checks < FinalChecks
        /\ data.live \/ ~data.available
     \/ /\ seen = "Running" /\ ~paused
        /\ data /= None => data.live

Poll ==
  /\ seen \notin {None, "Pending"} /\ reading = None
  /\ LET k == Key(seen) IN
     /\ OutputDue(k) /\ reading' = ReadingOf(k)
     /\ autos' = IF k = "finished" THEN autos + 1 ELSE autos
  /\ UNCHANGED Run /\ UNCHANGED <<seen, logs, errored, afresh, paused, settled, trouble, acts>>

(***************************************************************************)
(* The viewer                                                               *)
(***************************************************************************)
Acts == acts < MaxActs /\ acts' = acts + 1

Current == IF ended /= None THEN ended ELSE "Running"

\* Mounting a query, or turning to another key: read at once, unless it failed
\* without data (retryOnMount).
ReadOnMount(s) ==
  LET k == Key(s) IN
  IF s = "Pending" \/ (k \in errored /\ logs[k] = None) THEN None ELSE ReadingOf(k)

Learns(s) ==
  /\ seen' = s
  /\ settled' = IF s = "Completed" /\ seen /= s THEN visible = MaxLines ELSE settled

\* The viewer is opened with the status the cache has of the run, late or not.
Open ==
  /\ Acts /\ seen = None
  /\ \E s \in {"Pending", "Running", Current} :
       /\ logs["finished"] /= None => s = Current
       /\ Learns(s) /\ reading' = ReadOnMount(s)
  /\ UNCHANGED Run /\ UNCHANGED <<logs, errored, paused, autos, trouble>>
  /\ afresh' = FALSE

StatusArrives ==
  /\ seen \notin {None, Current} /\ Learns(Current)
  /\ reading' = IF Key(seen) /= Key(Current) \/ (seen = "Pending" /\ reading = None)
                THEN ReadOnMount(Current) ELSE reading
  /\ UNCHANGED Run /\ UNCHANGED <<logs, errored, afresh, paused, autos, trouble, acts>>

\* The reading goes on for nobody (mutant).
CloseKeepsReading ==
  /\ seen /= None /\ seen' = None /\ UNCHANGED reading
  /\ UNCHANGED Run /\ UNCHANGED <<logs, errored, afresh, paused, autos, settled, trouble, acts>>

Close ==
  /\ seen /= None /\ seen' = None /\ reading' = None
  /\ UNCHANGED Run /\ UNCHANGED <<logs, errored, afresh, paused, autos, settled, trouble, acts>>

\* Refresh logs, Load more: after an error, from the beginning, with a new budget
Refresh ==
  /\ Acts /\ seen /= None /\ reading = None
  /\ LET k == Key(seen) IN
     /\ afresh' = (afresh \/ k \in errored)
     /\ autos' = IF afresh' THEN 0 ELSE autos
     /\ reading' = [ReadingOf(k) EXCEPT !.previous = IF afresh' THEN None ELSE @,
                                      !.page = IF afresh' THEN PageFor(None, FALSE) ELSE @]
  /\ UNCHANGED Run /\ UNCHANGED <<seen, logs, errored, paused, settled, trouble>>

Pause ==
  /\ Acts /\ seen = "Running" /\ paused' = ~paused
  /\ logs["active"] /= None => logs["active"].live
  /\ UNCHANGED Run /\ UNCHANGED <<seen, logs, errored, reading, afresh, autos, settled, trouble>>

\* Data nobody looks at are dropped after a while.
ForgetOutput ==
  /\ seen = None /\ logs' = [k \in DOMAIN logs |-> None] /\ errored' = {} /\ autos' = 0
  /\ UNCHANGED Run /\ UNCHANGED <<seen, reading, afresh, paused, settled, trouble, acts>>

JobOutputNext ==
  \/ Writes \/ RunRetried \/ Ends
  \/ Arrives \/ OutputFails \/ CursorExpires \/ Poll
  \/ Open \/ StatusArrives \/ Close \/ Refresh \/ Pause \/ ForgetOutput

\* A reading ends; the interval elapses while the tab is visible.
OutputProgress(i) ==
  \/ i = 1 /\ Poll
  \/ i = 2 /\ (Arrives \/ OutputFails)
JobOutputFairness == \A i \in 1..2 : WF_outputVars(OutputProgress(i))

JobOutputSpec == JobOutputInit /\ [][JobOutputNext]_outputVars /\ JobOutputFairness

(***************************************************************************)
(* Properties                                                               *)
(***************************************************************************)
\* Shape of the state; a closed viewer reads nothing (the signal of queryFn).
OutputTypeOK ==
  /\ visible \in 0..MaxLines /\ stream \in 1..2
  /\ seen \in ViewedStatuses \cup {None}
  /\ errored \subseteq DOMAIN logs
  /\ reading /= None => seen /= None /\ reading.key = Key(seen)

\* What is shown are lines of one stream in a row, no line twice, none left out between
\* two and none of another attempt, through the change of key, cursors that expire,
\* restarts after an error and snapshots.  They begin with the first line, or else it
\* says that they were cut, and then there are as many as are ever kept.
ShownIsPart ==
  \A k \in DOMAIN logs : logs[k] /= None =>
    LET l == logs[k].logs IN
    /\ \A i \in DOMAIN l : l[i] = <<l[1][1], l[1][2] + i - 1>>
    /\ Len(l) <= MaxVisible
    /\ logs[k].truncated <=> l /= <<>> /\ l[1][2] > 1
    /\ logs[k].truncated => Len(l) = MaxVisible

\* Once a run is over, the interval reads it FINAL_LOG_CHECKS times at most,
\* however often its viewer is closed and opened again ("Keep the budget in the
\* cache so remounting cannot restart polling"); only a restart renews the budget.
BudgetHolds == autos <= FinalChecks

\* docs/job-logs.md: "An observed transition to completion gets a final fetch and at most
\* three follow-up checks"; the code makes as many as FINAL_LOG_CHECKS, which is six.
FollowUpsDocumented == logs["active"] /= None => autos <= 3

\* The last line of a run that completed is shown without anyone asking, when it could be
\* read by the time its end was known: unless more pages are offered, an error is shown
\* or the viewer is closed.
ShownToTheEnd(d) == d.logs /= <<>> /\ d.logs[Len(d.logs)][2] = MaxLines

FinalOutputShown ==
  seen = "Completed" /\ settled ~>
    \/ seen = None
    \/ logs["finished"] /= None /\ (logs["finished"].more \/ ShownToTheEnd(logs["finished"]))
    \/ "finished" \in errored

\* The output on show is a part of one stream, and the budget of readings holds.
OutputFaithful == OutputTypeOK /\ ShownIsPart /\ BudgetHolds
=============================================================================
