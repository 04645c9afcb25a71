-------------------------------- MODULE MCJobStore --------------------------------
(* The table of runs for TLC, its watchdogs, what registers and queues the scheduled    *)
(* runs, the local runner and the limits with the processes' copies and counters, each *)
(* on its own: a part is chosen at the start, and the others stay as they begin.       *)
EXTENDS JobStore, Watchdogs, Scheduler, OutboxDelivery, NextRun, LocalExecution, LimitCopies,
        RequestWindow

VARIABLE part  \* which part runs

partVars == <<jobs, scheduleVars, outboxVars, calendarVars, localVars, copyVars, watchVars, windowVars, part>>

\* The rows the registration begins with: one well-formed script, and one that is not.
Saved(minutes, at) == [selects |-> minutes, enabled |-> TRUE, at |-> at, committed |-> 0]
SchedulesMC == {{0, 1, 2}}
FirstRows   == {[s |-> Saved({2}, 0), t |-> Saved(Malformed, 0)]}

\* A calendar of days of three hours of four minutes.  In the first zone two minutes
\* are skipped and had again; in the second a whole day is skipped.
Offsets(gap, first, end) == [u \in 0..59 |-> IF first <= u /\ u < end THEN gap ELSE 0]
ZonesMC == {Offsets(2, 15, 43), Offsets(12, 24, 60)}
MonthsMC == <<2, 3, 2>>

Star(first, last) == Field(TRUE, {<<first, last, 1>>})
Items(items)      == Field(FALSE, items)
HourlyMC  == [enabled: {TRUE}, type: {"hourly"}, minute: {0, 2}]
MonthlyMC == [enabled: BOOLEAN, type: {"monthly"}, minute: {1}, hour: {0, 1}, day: {2, 3}]
CronMC    == [enabled: {TRUE}, type: {"cron"},
              minute: {Items({<<0, 1, 1>>, <<2, 2, 1>>}), Items({<<0, 3, 3>>})},
              hour: {Items({<<1, 1, 1>>}), Star(0, 2)},
              day: {Star(1, 3), Items({<<1, 3, 1>>}), Items({<<2, 2, 1>>})},
              weekday: {Star(0, 2), Items({<<2, 2, 1>>})},
              month: {Star(1, 3), Items({<<2, 2, 1>>})}]
CalendarMC == HourlyMC \cup MonthlyMC \cup CronMC

\* Both writers are in the first process; both processes refresh.
ReadersMC == {<<1, 1>>, <<2, 1>>}
WritersMC == {<<1, 1>>, <<1, 2>>}

PartInit ==
  /\ part \in {"table", "watchdogs", "schedules", "delivery", "calendar", "local", "limits", "window"}
  /\ Init /\ WatchdogsInit /\ SchedulerInit /\ OutboxInit /\ CalendarInit /\ LocalInit
  /\ LimitCopiesInit /\ RequestWindowInit
  /\ part /= "calendar" => schedule = CHOOSE s \in [saved: CalendarMC, zone: ZonesMC] : TRUE
  /\ part /= "local" => scheduled
  /\ part /= "limits" => stored = Default
  /\ part /= "window" => windowLimit = CHOOSE n \in WindowLimits : TRUE

PartNext ==
  /\ UNCHANGED part
  /\ \/ part = "table" /\ Next
        /\ UNCHANGED <<scheduleVars, outboxVars, calendarVars, localVars, copyVars, watchVars, windowVars>>
     \/ part = "watchdogs" /\ WatchdogsNext
        /\ UNCHANGED <<jobs, scheduleVars, outboxVars, calendarVars, localVars, copyVars, windowVars>>
     \/ part = "schedules" /\ SchedulerNext
        /\ UNCHANGED <<jobs, outboxVars, calendarVars, localVars, copyVars, watchVars, windowVars>>
     \/ part = "delivery" /\ OutboxNext
        /\ UNCHANGED <<jobs, scheduleVars, calendarVars, localVars, copyVars, watchVars, windowVars>>
     \/ part = "calendar" /\ CalendarNext
        /\ UNCHANGED <<jobs, scheduleVars, outboxVars, localVars, copyVars, watchVars, windowVars>>
     \/ part = "local" /\ LocalNext
        /\ UNCHANGED <<jobs, scheduleVars, outboxVars, calendarVars, copyVars, watchVars, windowVars>>
     \/ part = "limits" /\ LimitCopiesNext
        /\ UNCHANGED <<jobs, scheduleVars, outboxVars, calendarVars, localVars, watchVars, windowVars>>
     \/ part = "window" /\ RequestWindowNext
        /\ UNCHANGED <<jobs, scheduleVars, outboxVars, calendarVars, localVars, copyVars, watchVars>>

\* The i-th thing that the part must go on with: the fairness of the modules.
Progress(i) ==
  /\ UNCHANGED part
  /\ \/ part = "watchdogs" /\ WatchdogsProgress(i)
        /\ UNCHANGED <<jobs, scheduleVars, outboxVars, calendarVars, localVars, copyVars, windowVars>>
     \/ part = "schedules" /\ SchedulerProgress(i)
        /\ UNCHANGED <<jobs, outboxVars, calendarVars, localVars, copyVars, watchVars, windowVars>>
     \/ part = "delivery" /\ OutboxProgress(i)
        /\ UNCHANGED <<jobs, scheduleVars, calendarVars, localVars, copyVars, watchVars, windowVars>>
     \/ part = "local" /\ LocalProgress(i)
        /\ UNCHANGED <<jobs, scheduleVars, outboxVars, calendarVars, copyVars, watchVars, windowVars>>
     \/ part = "limits" /\ CopiesProgress(i)
        /\ UNCHANGED <<jobs, scheduleVars, outboxVars, calendarVars, localVars, watchVars, windowVars>>

PartSpec == PartInit /\ [][PartNext]_partVars /\ \A i \in 1..6 : WF_partVars(Progress(i))

\* A due minute becomes one run, of the schedule as it was saved, whatever other scripts
\* are and whichever passes fail; its message is sent, and not again for nothing; a
\* watchdog gives up only the runs it is for; a local run has the containers and the
\* outcome that its row tells of; and the history of a limit has no gap.
BackgroundKept ==
  /\ part = "schedules" => ScheduleTypeOK /\ OccurrenceOnce /\ OnlyAsSaved /\ DueIsRegistered
  /\ part = "delivery" => OutboxTypeOK /\ SentIsQueued /\ SentOnceButForLosses
  /\ part = "watchdogs" => WatchdogsTypeOK /\ GivenUpIsBatch /\ ChosenStaysDue
  /\ part = "local" => LocalTypeOK /\ OccurrenceRunsOnce /\ CompletedIsTrue /\ CancelledIsStopped
  /\ part = "limits" => LimitCopiesTypeOK /\ HistoryChains

\* What is told beforehand comes true: the next run of a schedule, and when a request
\* will be let through.
ToldIsTrue ==
  /\ part = "calendar" => NextRunIsFirstDue
  /\ part = "window" => WindowTypeOK /\ WindowHolds /\ RetryAfterHolds /\ StatusNotTooMany

\* The watchdogs, registration, delivery, local runs and the copies of the limits go on,
\* past what hangs or cannot be evaluated, sent or read (WatchdogsGoOn, PassesGoOn,
\* QueuedInTheEnd, LocalRunEnds and CopiesCatchUp, for the part that runs).
BackgroundGoesOn ==
  <>[](CASE part = "watchdogs" -> WatchesGoOn
         [] part = "schedules" -> PassesAreCurrent
         [] part = "delivery"  -> NothingLeftToSend
         [] part = "local"     -> LocalRunEnded
         [] part = "limits"    -> CopiesAreCurrent
         [] OTHER              -> TRUE)
=============================================================================
