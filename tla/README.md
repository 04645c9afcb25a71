# A formal model of CWMS Batch Events

CWMS Batch Events runs office scripts on AWS Batch: users and a scheduler ask for a
*run* (a row of the `jobs` table), a queue carries it to a dispatcher, the dispatcher
submits it to AWS Batch, and status events and page views report what became of it. A web
application edits the scripts, asks for runs and shows them.
The TLA+ modules here model that life of a run, the server's background work around it and
the pages that show it. TLC checks them on small instances, and TLAPS proves theorems about
the job table, dispatch, statuses, the work in the background and some of the pages, for
instances of every size.

Source paths are relative to `src/`; `cwms_batch_events/` is left out where it is clear.

## 1. The system

| Component | State | Operations | Talks to |
|---|---|---|---|
| Job table (`core/job_database/postgres/postgres.py`, `core/dispatch.py`) | a row per run: status, AWS id, claim, cancellation time, reason, time of the last AWS observation | create, claim, fail, bind, cancel request and its outcomes, record an observation, report | everybody; each method locks the row and commits once |
| API (`api/routers/jobs.py`, `core/queue.py`) | background tasks of a process | post a run, cancel, read details and logs | job table, SQS, AWS Batch, CloudWatch |
| Scheduler (`core/maintenance.py`, `core/schedules.py`) | `last_checked`, the saved schedules | register due occurrences, tell the next run | job table, script registry |
| Outbox (`core/maintenance.py`) | `job_outbox` | deliver, defer, drop | SQS, job table |
| Watchdogs and their supervisor (`core/maintenance.py`) | a thread for each task of a process | start each task every 15 s, never twice at once; expire unlinked dispatches, flag unconfirmed cancellations | job table |
| Dispatcher lambda (`lambdas/dispatch_job`) | one batch of records for an invocation | claim, SubmitJob, bind or report a rejection, raise after the last record | internal API, AWS Batch, SQS |
| Status updater lambda (`lambdas/update_batch_job_status`) | none | forward a status event | EventBridge, internal API |
| Refresh (`core/job_logger/cloudwatch.py`) | `batch_checked_at` | DescribeJobs for a viewer, at most every 15 s for a run | AWS Batch, job table |
| Local executor (`local/`, `infra/dispatcher`) | a loop, a Docker container | run a job, stop it, report its end | Docker, SQS, job table |
| Rate limits (`core/rate_limit.py`) | overrides in the table, a copy and sliding windows for each process | consume, tell the status, refresh, set, remove | `office_rate_limits` |
| Script registry (`api/routers/scripts.py`, `postgres.py`) | scripts and their configuration version | save, upgrade, import, delete | scheduler, API |
| Job logs (`core/job_logger`) | streams and stored files | read a page after a cursor, search | CloudWatch, S3 |
| Script editor (`ScriptForm.tsx` and what it holds) | the form, its stored draft, a switch with a timer | edit, validate, save, upgrade, leave, come back | script registry, browser storage |
| Jobs page (`ScriptsWorkspace.tsx`) | the cached list, selection, drafts, modals | select, create, import, write, reload | script registry |
| Asking for a run (`ScriptJobs.tsx`, `useExecuteScript.ts`) | the form, the warning, a request | open, change, confirm, follow | rate limits, API |
| Run views and caches (`useJobDetails.ts`, `useJobsList.ts`, `JobsList.tsx`, `useJobLogs.ts`) | one query each, merged into each other | poll, page, cancel, read output | API |
| Administration panels (`features/admin`, `routes/log-search.tsx`) | queries by filter, drafts, ticks | filter, poll, write limits, cancel in bulk, search | API |
| Pickers (`RepositoryPathPicker.tsx`, `ReleaseJarPicker.tsx`) | folder, filter, page | browse, pick | GitHub through the API |
| Offices (`useRememberedOffice.ts`) | browser storage, one tab's view of it | choose, follow a link, hear of another tab | all pages |
| Notices (`utils/errorNotifications.ts`, `queryClient.ts`) | failures by source, toasts, timers | raise, clear, time out, dismiss | all queries |
| Service worker (`public/sw.js`) | a cache of the shell for each version | install, activate, answer | the network |

What is hard here:

- *Interleaving.* SQS may hand one message to several invocations; viewers, events, the
  watchdogs and cancel requests write the same row; replicas of the API run the same tasks;
  an administrator saves a script while it falls due.
- *Unreliable calls.* Any request of the dispatcher may be lost, may be carried out after
  the dispatcher gave up on it, or may succeed with its answer lost. `SubmitJob` cannot be
  taken back and is not idempotent. A browser's request may fail after it was carried out.
- *Ordering.* Events come late, twice, out of order, and before the run is linked. Answers
  of readings overtake each other, and writes that happened after they were asked.
- *Crashes* between the commit of a row and its message, between `SubmitJob` and the bind,
  between the commit of `Cancelling` and the call of the runner, between the sends of a
  delivery and its commit.
- *Time.* Deadlines run from the claim or from creation; event times have whole seconds,
  refresh times microseconds; days have 23, 24 or 25 hours; the page's timers go off after
  what they were set for is gone.
- *Two sources of one truth* in the browser: the row and the viewer of a run, a draft in
  storage and the form, a switch and the script it was drawn from, ticks and the list.

What makes it correct:

1. A run is given to AWS Batch by one call at most, is linked to a Batch job of that call and to
   no other, is never executed once it was cancelled in the queue, and is told to be rejected
   only when the attempt that AWS rejected made no Batch job.
2. A finished run tells what its Batch job did and keeps saying so.
3. No run stays unresolved for ever; every message leaves the queue; no task is stopped by
   one row, one script or one message that it cannot handle.
4. The table alone (whoever calls it, in whatever order) never loses a link, gives a claim
   back, or moves a cancelled run.
5. A due minute of a schedule becomes one run, of the version that was saved then, and the
   next run that is told is the one the scheduler will register.
6. What is typed is neither lost nor sent to another script; what is shown belongs to what
   was chosen, and comes to be what the server holds.

## 2. The modules

| Module | Models | Kind |
|---|---|---|
| `JobStore` | the table's handlers and what the watchdogs do to a row, called by anybody at any time | component |
| `Dispatch` | API post and cancel, outbox, SQS, dispatcher invocations, AWS SubmitJob, over `JobStore` | composition |
| `RunStatus` | the statuses of a run and what a step of the server may make of each, for the table's `StatusMoves` and for the pages that are read while they change | helper |
| `RunOnce` | what dispatch promises, with no queue, claim or watchdog | abstract specification |
| `BatchStatus` | the Batch job's life, events, refreshes, cancel requests, over `JobStore` | composition |
| `Watchdogs` | the scans, their locks and limits, and supervised threads, over `JobStore`'s rows | component |
| `Scheduler` | registration by replicas beside saves | component |
| `OutboxDelivery` | delivery in batches, with lost passes | component |
| `NextRun` | the calendar: `is_due` against `next_run` | algorithm |
| `LocalExecution` | the local loop, its container and a user who cancels, over `JobStore`'s rows | component |
| `LimitCopies`, `RequestWindow` | the processes' copies of a limit; the requests it counts | components |
| `ScriptForm` over `SchedulePresets` | the script editor; its schedule arithmetic | component |
| `ScriptsWorkspace` | the jobs page around it | component |
| `RunRequest` | asking for a run | component |
| `RunHistory`, `ServerLogs`, `LogSearch` | pages of runs, of log entries, of matches | components |
| `AdminUsage`, `FilePickers`, `ShellCache` | usage figures, pickers, the service worker | components |
| `RunViews`, `JobOutput` | a run's row, viewer and Cancel dialog; its output | components |
| `SchedulerPanel`, `RateLimits`, `QueuePanel`, `TimingPanel` | panels over what is read again while it changes | components |
| `Notices`, `Offices` | failures told; the office worked for | components |
| `Browser`, `Orders` | what the page modules share; which rows a statement takes first | helpers |
| `MCJobStore`, `MCDispatch`, `MCForms`, `MCPages`, `MCViews`, `MCPanels` | TLC instances; `Dispatch` and `BatchStatus` are also checked as they are | model checking |
| `JobStoreProofs`, `DispatchProofs`, `BatchStatusProofs` | theorems about `JobStore`, about `Dispatch` and its refinement of `RunOnce`, about `BatchStatus` | proofs |
| `BackgroundProofs` | theorems about `Scheduler`, `NextRun`, `Watchdogs`, `OutboxDelivery`, `LocalExecution`, `LimitCopies`, `RequestWindow` and all parts of `MCJobStore` | proofs |
| `WorkspaceProofs`, `PagesProofs` | theorems about `ScriptForm` and `ScriptsWorkspace`; about `RunRequest`, `RunHistory`, `ServerLogs`, `LogSearch`, `ShellCache`, `AdminUsage` and `FilePickers` | proofs |
| `ViewsProofs`, `PanelsProofs` | theorems about the parts of `MCViews` (`RunViews`, `SchedulerPanel`, `JobOutput`, `RateLimits`); about those of `MCPanels` (`Offices`, `Notices`, `QueuePanel`, `TimingPanel`) | proofs |

### JobStore

`jobs[j]` is a row reduced to the columns some decision reads. Each handler is one action,
because each takes the row's lock before it reads (`_load_job_for_update`) and commits once.
What a handler does to a row is a function of the row (`Expire`, `Claim`, `Reject`, `Bind`,
`RequestCancel`, `RevertCancel`, `Observe`, `Report`), so that the compositions and the
proofs can speak of it. `Update(j, row)` is a handler on a row that exists.

Times are abstracted to *ages*: `age` is how long the row has been claimed (or, unclaimed,
has existed) while unlinked, `cancelAge` how long ago the cancellation was requested; both
stop at their timeout, beyond which the code makes no difference. `Tick` ages every row.
`batch_status_reason` is reduced to who wrote it last. `run_time`, `end_time` and the
control audit are left out: nothing reads them to decide anything.

`RevertCancel` sets Running: `request_job_cancellation` keeps the previous status in an
attribute of an ORM object which `record_cancellation_failure`, in a later transaction, does
not get back.

### Dispatch

`queue` is the set of runs with a message in SQS: a message stays there while it is handled
and may be delivered again, to several invocations (`Receive` guards only its own worker).
An invocation (`worker[w]`) goes through its records one at a time: `ClaimAnswered`, then
`SubmitAccepted`, `SubmitRejected` or `SubmitUncertain`, then `BindAnswered` or
`RejectAnswered`. Records are handled in any order (a set), which includes the list's.
`Finish` acknowledges the batch unless a record failed. `GiveUp` is a request that timed out
or was not answered: it goes to `late`, from where the API may carry it out at any later
time (`ServeLate`) or never (`LoseLate`). A request that was carried out and whose answer was
lost is `GiveUp` followed at once by `ServeLate`.

`SubmitJob` is AWS's: `owner` records for every Batch job made the run it was tagged with.
The client sends the call up to `SdkAttempts` times; each attempt may make a Batch job and
the last one decides the outcome the dispatcher sees. `batch.py` leaves botocore's default
retries on, so the instances have two attempts and the theorems any number. `calls` is a
history variable.

`stopping` holds cancel requests between their commit and the runner's answer. An accepted
stop writes only the audit.

### RunOnce and the refinement

`RunOnce` knows only which Batch jobs execute a run, which one it is linked to, and which
runs were cancelled before they were given away or were rejected. A run is given away in one
step, which makes as many Batch jobs as the client has attempts, or fewer. `Dispatch!RunsOnce`
is `RunOnce!Spec` under the mapping `work[j]` = the Batch jobs tagged with `j`, `link[j]` =
`external_job_id`, and the unlinked runs that are Cancelled or Failed.

### BatchStatus

One Batch job for each run, the one it is linked to: another that the client's repetition made
has no row, and its events are refused (`get_job_by_external_id`). AWS moves it
(`BatchJobMoves`, with retries) and publishes an event with the time of its second (`SecondOf`,
`Second` clock times long); `since` is when the job came to its state; `DeliverEvent` applies an
event and may keep it to come again; an event for a run that is not linked yet is refused, that
is, not yet enabled. A viewer's `refresh_job` is three steps: the claim with the time of
observation, `DescribeJobs`, and the write. Cancel requests are committed in one step and
answered by AWS in another. Whether a saved stream goes with an observation is left open where a
container was started.

### Watchdogs

`table` are rows of `JobStore`, `threads[p, t]` what the thread of task `t` in process `p` is
doing: nothing, a scan with the rows it has chosen, or hanging. A scan takes its task's
advisory lock or ends; it chooses at most `ScanLimit` rows, the oldest first, and locks them
with `SKIP LOCKED`. A hung thread is never replaced in its process, which is what `supervise`
does: the task goes on only in another.

### Scheduler, OutboxDelivery and NextRun

`Scheduler` has the cursor `last_checked`, the saved versions and the registered
occurrences. A pass is one transaction that takes its time before it has the lock, so a pass
that began earlier can end later and set the cursor back. A save stamps its version before
it commits. `skipped` remembers the minutes that lay beyond the catch-up window.
`OutboxDelivery` tells apart what has been *sent*, which stays sent, from what a pass has
written, which is lost with it. `NextRun` is an algorithm with no steps but the choice of a
schedule, a zone and an instant: `NextOf` goes by dates and times of day as `next_run` does,
`IsDue` by minutes as the scheduler does; zones skip and repeat minutes, and whole days.

### LocalExecution

One run of the local runner. The loop may be stopped between any two steps, and its message
comes again; a report may fail. `containers` are those that were started, in order.

### LimitCopies and RequestWindow

`LimitCopies` has the row with its history and a copy for each process, written by refreshes
that may be overtaken and by administrators. `RequestWindow` is one window of one process: the
middleware reads the limit in one step and counts in another, since a write in another thread
may come between.

### The pages

In every page module a query is its last data, the reading under way and whether it failed.
What a reading answers is what the server had when it served it, and a reading that is no
longer observed is dropped where the code aborts it and kept where the code does not.

`ScriptForm` has every control that changes what is sent, validation, the draft in storage,
and the switch whose callback runs 300 ms later with the script it was drawn from. Reactivate
lies outside the form's fieldset, so it can be clicked while a save is under way: the answer
then drops the draft with that click in it, which `DraftDroppedWhenSaved` states.
`ScriptsWorkspace` abstracts the fields to a text that knows which form it was typed in, so
that a text in the wrong place is seen. `RunRequest` leaves the limiter's answer open.
`FilePickers` keeps a path as folders and a text. `ShellCache` reduces what a URL serves to
the release it comes from. `JobOutput` writes a line as its stream and its number, and counts
the 2,000,000 characters that are kept in lines, of which it cuts none in two. `Notices`
numbers events, so that a timer or a toast of an earlier event is known from one of a later.
`Offices` has two tabs over one storage. `RunViews` lets the server move the run as `RunStatus`
has it, also from Cancelling back to Running and from Running back to Pending; what is read
carries the number of changes until then, a history, so that an older report is known from
a server that went back. `QueuePanel` takes its states from the same steps. `RowAgreesWithViewer` allows a row to say that the
run completed or failed while the viewer does not yet, because `mergeObservedJobs` lets an
end pass.

## 3. Runs

| Run | Instance | Shows |
|---|---|---|
| `store` | eight parts, one at a time: the table; watchdogs; schedules; delivery; calendar; local; limits; window | the table keeps its promises whoever calls it; `BackgroundKept`, `ToldIsTrue`, `BackgroundGoesOn` |
| `dispatch` | a scheduled run, two invocations and three late requests, or two posted runs, one invocation with batches of two and one late request; a client that sends SubmitJob twice | run_job is called once and all Batch jobs are of that call; links are a run's own; a run cancelled in the queue never executes; rejections; the refinement of `RunOnce` |
| `dispatch_live` | two runs, one invocation with batches of two, the same client | no run waits for ever; messages drain |
| `status` | one run, two attempts of its Batch job, one viewer, seconds of two clock times | a finished run is true; once the event of the end is through the run is finished, unless it was refreshed in the second of its end and before it |
| `forms` | the editor, or the jobs page with two scripts | `EditorFits`, `EditorsOwnText`, `EditorKeepsInput`, `WritesTakeNothingElse` |
| `pages` | seven pages, one at a time | `RunsAsAsked`, `HistoryComplete`, `LogsHonest`, `OfflineSafe`, `ChoicesShown` |
| `views` | a run's row and viewer; output; scheduler health; rate limits | `ScreensAgree`, `OutputFaithful`, `LimitsCurrent`, `ScreensSettle` |
| `panels` | notices; the queue; offices in two tabs; timing | `FailuresTold`, `PanelsTrue`, `OfficesAllowed`, `PanelsSettle` |
| `status_refused` (violation) | | a refused cancellation leaves Running, not the prior status |
| `dispatch_repeat` (violation) | the scheduled run of `dispatch` | the client's repetition makes a second Batch job |
| `output_checks` (violation) | `FINAL_LOG_CHECKS` = 6 | more follow-up readings than documented |
| `form_toggle` (violation) | | the schedule switch puts an old script back over a save |

**Parts.** Components that do not touch each other's state share a run: a part is chosen in
the initial state, only its actions are taken, and the others stay as they begin. The states
are the sum of the parts', not their product, and nothing is lost, since no property speaks of
two parts. `MCDispatch` is `Dispatch` itself under a constraint, `Within`, by which there are
scheduled runs alone or posted runs alone: the scheduled run meets everything `Dispatch` has; the
posted runs share the batches of one invocation, have two Batch jobs between them, and are not
reported on or stopped once they are linked. A part's properties are conjoined under one name:

| Property | Its parts |
|---|---|
| `BackgroundKept` | `OccurrenceOnce`, `OnlyAsSaved`, `DueIsRegistered` (Scheduler); `SentIsQueued`, `SentOnceButForLosses` (OutboxDelivery); `GivenUpIsBatch`, `ChosenStaysDue` (Watchdogs); `OccurrenceRunsOnce`, `CompletedIsTrue`, `CancelledIsStopped` (LocalExecution); `HistoryChains` (LimitCopies) |
| `ToldIsTrue` | `NextRunIsFirstDue` (NextRun); `WindowHolds`, `RetryAfterHolds`, `StatusNotTooMany` (RequestWindow) |
| `BackgroundGoesOn` | `WatchdogsGoOn`, `PassesGoOn`, `QueuedInTheEnd`, `LocalRunEnds`, `CopiesCatchUp` |
| `EditorFits`, `EditorKeepsInput` | `ShownScheduleIsForm`, `SentIsAccepted`, `MarksCurrent`; `DraftFollowsForm`, `DraftDroppedWhenSaved`, `SourcePathKept` |
| `EditorsOwnText`, `WritesTakeNothingElse` | `NoForeignText`, `EditorShowsDraft`, `SingleCreate`; `DraftOutlivesFailure`, `DeletedStaysGone`, `NewImportKeepsOthers` |
| `RunsAsAsked` | `OnePostPerClick`, `RunsAsShown`, `NoOverlap`, `ShownRunBelongs` |
| `HistoryComplete` | `NoPageBeyond`, `PagingMissesNothing` |
| `LogsHonest` | `ShownIsWindow`, `NothingMeansNothing` (ServerLogs); `ResultsMatch`, `CompleteIsComplete` (LogSearch) |
| `OfflineSafe` | `OfflineShell`, `ApiFromNetwork` |
| `ChoicesShown` | `FiguresOfFilters`, `NothingLeftOut` (AdminUsage); `SelectedInFolder`, `BrowsedFolderExists`, `RuntimeOfPath`, `JarsOfRelease`, `NoJarPageBeyond` (FilePickers) |
| `ScreensAgree`, `OutputFaithful`, `LimitsCurrent` | `RowAgreesWithViewer`; `ShownIsPart`, `BudgetHolds`; `RowsAreCurrent`, `HistoryIsCurrent` |
| `ScreensSettle` | `DetailNeverRegresses`, `DraftsAreKept`, `ViewerSettles`, `RowSettles`, `FinalOutputShown`, `SchedulerSettles` |
| `FailuresTold`, `PanelsTrue`, `OfficesAllowed` | `FailureIsTold`, `WarningStays`; `BulkReachesTicked`, `OpenBulkHasRuns`, `NextOfSettings`; `WorksWhereAllowed`, `ChoiceHolds` |
| `PanelsSettle` | `FreshFailureHasToast`, `ErrorsExpire`, `QueueCatchesUp`, `TabsAgree`, `TimingCatchesUp` |

The invariants among them begin with the part's type invariant. `BackgroundGoesOn` is one
formula `<>[]` with a case for each part, because TLC's cost grows with the number of
temporal operators.

**Bounds of the table, dispatch and status.** Jobs, ids, invocations and viewers are small
sets. Two jobs are enough for a wrong link or for one record's failure to disturb another's;
two invocations for every race on one run. Timeouts of 1 or 2 ticks let a deadline pass before,
between and after any two steps, since other steps do not wait for the clock. `InFlight` bounds
late requests and stop requests: a claim, a bind and a failure call may all be late at once at
3. `LastTime` bounds the time of an observation: 0..2 gives an older, an equal and a newer one, and in
`status` two seconds, the first of two times, so that an event can be dated before an earlier refresh.
`Attempts`, `SdkAttempts` 2 stands for
"more than one", with three Batch ids for a third submission. In `dispatch_live` InFlight is 0: a lost
request then is a crash of the invocation before it, and stops of linked runs do not occur; both
only delay what the run checks.

**Bounds of the server's parts.** Watchdogs: three runs, one of them local, two processes, a
scan of one row, one thread that hangs, so that a scan must leave a due row for the next and the
task must go on elsewhere. Schedules: two replicas, a well-formed script and one that cannot be
evaluated, clock instants 0..4, a catch-up of 2, one save and one aborted pass. Delivery: three
runs of which two can never be sent, batches of two, so that the undeliverable fill a batch;
delays up to 2, one lost answer, one lost pass. Calendar: 60 minutes, hours of 4, days of 12,
three months of 2 or 3 days, two zones, every instant of each. Local: two stops of the loop, one
failed call. Limits: two processes that refresh, two writers in one, two writes, one failed reading. Window:
limits 1 and 2, a window of two seconds of two ticks, six ticks.

**Bounds of the pages.** Every constant named `Max...` bounds a number of acts of users, of
failures or of changes on the server: four edits of a form, two calls under way on the jobs
page, one other administrator, four turns of the history, six acts on the logs, four revisions
or presses of a panel, two moves of runs that no bulk asked for, three acts on an output of
which two lines are kept, two changes of a run that nobody on the page asked for, a release that
is a draft. They are enough for a reading to be overtaken by a write and by a newer reading, for
a second failure after a first, and for two people or tabs to act between two steps of one.
Pages have one or two entries, so that a last page and one beyond it occur.

**Fairness.** `WatchdogFairness`: time passes, and the watchdog, which the API runs every 15
seconds whether or not scheduling is enabled (`supervise`, `lifespan`), looks at each expired
row. `NoRunWaitsForever` needs nothing else: not the queue, not the dispatcher.
`WorkerFairness`: Lambda polls and a started invocation goes on; it is an assumption of
`MessagesDrain` alone, with the faults ended. `status` needs none: `OutcomeRecorded` speaks of a
run whose event of the end is through, and `EventsLost` is FALSE there, that is, only events of
earlier states may be given up. The other runs
name what must go on by number, `Progress(i)`, and assume each weakly fair: in the server's
parts that time passes, that `supervise` starts a task again after 15 s, that a
transaction once begun ends (well or not), that a container ends and that requests, which
refresh a copy, come; on the pages that a timer that is set goes off, that polling goes on
until the code stops it, that a reading ends (well or not), and that the run or the task
that is watched comes to its end. No user, administrator or failure is assumed to come or to stay
away. How often each can happen is bounded.

**Deadlock** is checked in the dispatch and status runs: the clock or a redelivery is always
possible there. It is off in `store` and in the runs of pages, whose parts stop at their bounds
or at their last instant.

## 4. Theorems

Every theorem holds for all values of the constants that satisfy the named assumptions of its
modules; TLC evaluates these on every run. The proof modules assume nothing further. Each
argument is an inductive invariant: the initial state has it, each action keeps it (one lemma
for each), it implies what is promised.

**The table** (`JobStoreProofs`): `TypeCorrect` (`TypeOK`), `LinkedRunsKnown`
(`LinkedNeverUnknown`), `UnresolvedRunsExplained` (`UnresolvedExplained`), `CancellingRunsSeen`
(`CancellingIsTimed`), `LinksStable` (`LinkStable`), `ClaimsStable` (`ClaimedOnce`), `CancellationFinal`
(`CancelledIsFinal`), `OutcomeFinal` (`FinishedIsFinal`) and `StatusesMove` (`StatusMoves`).

All rest on `StoreInv`, which speaks of rows one at a time, `GoodRow`: the row is well typed, is
unlinked and has its explanation if unresolved and only then, is timed if being cancelled, and
does not exist in part. Every handler is shown to keep it (`GoodStep`) by what its row function
does; a lemma lifts that from a row to the table. The explanation clause is what makes the
invariant inductive: a reason is overwritten by five handlers, and only the status decides
whether it was "unresolved". Assumed: `None` is no id and no number, the local jobs are jobs, and
timeouts are at least one tick (`core/settings.py` has `ge=1`).

**Dispatch** (`DispatchProofs`): `DispatchTypeCorrect`; `DispatchUsesStore`, that is
`DispatchSpec => Spec`, so that every theorem above also holds of `Dispatch`;
`SubmitCalledOnce`, `LinkedToOwn` and `CancelledInQueue` (`AtMostOneSubmitCall`, `LinkIsOwn`,
`CancelledNeverExecutes`); `JobsComeFromOneCall` (`JobsOfOneCall`), `RejectionMadeNone`
(`RejectedMadeNone`) and `DispatchRunsOnce` (`RunsOnce`), the refinement of `RunOnce`. They hold
for any number of attempts of the client. That a run has one Batch job needs a client with one
attempt, which the code's is not (section 5): `JobsOfOneCall` says then how many it may have.

None of these properties is inductive: what makes a second submission impossible is in the
claim, not in the count of calls. `DispatchInv` adds what each party knows. An invocation past
its claim is the run's *holder*: the run is claimed, it has no other holder, and before
SubmitJob nothing was made for it (`HolderInv`, `OneHolder`). The row tells the same from its
side: unclaimed means never submitted, cancelled and unlinked means unclaimed (`RunInv`). A
bind that was given up on still names the run's own Batch job, and a rejection that was given
up on still speaks of a run that is *settled*: claimed, with fewer Batch jobs than the client has
attempts, and with nobody left who could submit it or link it (`Settled`, `LateInv`). That the
Batch jobs of a run are those of one call is `OfOneCall`. Four lemmas cover the steps by what they do to the holders:
none changes (`HoldersKeptInv`: all of the API, SQS, the watchdogs, the clock, and every end
of a holder), one is made (`ClaimGrantedInv`), one submits (`SubmittedInv`), one gives up
before it submits (`NoJobRunnerInv`). For the refinement, a step either submits (`Start`) or
changes one row at most, and the invariant says how `RunOnce` sees that row change
(`RowSeen`): a new link, a cancellation, a rejection, or nothing.

**Statuses** (`BatchStatusProofs`): `StatusTypeCorrect`, `OutcomesTruthful` (`TruthfulOutcome`),
`OutcomesRecorded` (`OutcomeRecorded`) and `StatusRowsFinal`, the action properties of `JobStore` for
every caller that `BatchStatus` has. The last needs a step to be one of the table's handlers. The truth
needs `StatusInv` to speak of what is on its way: an event still to be delivered and an answer still to
be recorded that tell of an end tell of *the* end, because a Batch job that ended never moves again
(`TrueReport`). That the end is recorded needs `DatedInv`, which orders the times: no event is dated
after its Batch job came to its present state, the event of the end is dated with the second of the
end, and what AWS is asked after the end it answers with the end. So an observation that makes the
event of the end compare as older is the end itself or was made in the second of the end. Both hold
for any number of attempts, viewers and clock times in a second.

**Schedules** (`BackgroundProofs`): `RegisteredOnce` (`OccurrenceOnce`), `RegisteredAsSaved`
(`OnlyAsSaved`), `DueMinutesRegistered` (`DueIsRegistered`). `ScheduleInv` orders the times: the
last version of a script has the latest author, a save under way is stamped no earlier than the
version it replaces, a pass that has the lock looks at the minutes from the cursor to its own
time. Assumed of the scripts that are there at first: they were saved before the first instant.
`NextRunTold` (`NextRunIsFirstDue`) is about operators: the first match that is found by dates and
wall times is the first minute that the scheduler takes as due. `ZonesAssumption` says what of a
zone it needs: clocks that go back go back to times they had shown. The least match is had from
well-ordering (a minimal counterexample), without induction.

**The work in the background** (`BackgroundProofs`): `WatchdogsRight`,
`DeliveriesRight`, `LocalRunsRight`, `HistoryHasNoGap` and `WindowTold` state the parts;
`BackgroundRight` (`BackgroundKept`) and `TellingRight` (`ToldIsTrue`) put them together for
`MCJobStore!PartSpec`. `WatchInv` adds that two scans of a task never hold its lock at once and
that a chosen row stays due as time passes. `OutboxInv` counts: a run was sent no more often than
it is marked, plus the losses so far. `LocalInv` pays for each container with a stop of the loop
or the message (`StartsPaid`). `CopyInv` keeps what a writer read under the row's lock.
`WindowInv` relates the deque to the history of admitted requests: the same times lie in the
window, in order, so that the length of one is the count of the other; and a refusal is explained
by requests that leave the window as time passes (`ExplainedBy`).

**The script editor** (`WorkspaceProofs`): `EditorIsRight` (`EditorFits`) and `EditorLosesNothing`
(`EditorKeepsInput`), of `FormSpec`, which says nothing of the jobs page around the editor.
`EditorInv` says of every form the editor holds, the saved script, the draft, the one shown and
the one that is being saved, that its parts fit (`FormFits`): a form with a release JAR can run it,
command and mode agree, and the expression of a monthly schedule is one that the day and time
controls wrote. It is the last that keeps a monthly schedule shown as saved, and it holds of saved
scripts because the server takes no other. What is sent by the switch fits too, but for the
version and type, which the server then refuses. What is being saved passed the validation and is
what the form and the draft have but for Reactivate (`IsBut`), so that a late refusal marks the
name and nothing that is not in error. One lemma is about the day's arithmetic,
`IntervalKeepsApart`: the editor compares each slot with the next, and the last with the first of
the next day, and that keeps any two runs of two days in a row `MinInterval` apart. Assumed: a day
has two hours at least (the time first shown is 1:00), the scripts that are there at first are
ones the server takes, names are finitely many, and `None` is no form.

**The jobs page** (`WorkspaceProofs`): `OwnTexts` (`EditorsOwnText`) and `WritesKeepOthers`
(`WritesTakeNothingElse`). `WorkspaceInv` follows a text from where it is typed to where it is
shown: what the drafts, the editors, the calls, the answers, the list, a reading of it and the
server hold for a script is of that script, of a new one, or imported (`TextsOf`), and the
mounted editor is always that of the script that is selected, the reason that a save under
another id cannot happen. One creation at a time needs that its modal stays open and waits
(`CreatesRight`). For the action properties `CallsTold` adds that a call is told from the others
by its number, whoever waits for it. Assumed: `None`, "new" and "import" are no scripts, and
`None`, `Free` and `Deleted` no texts; `None` is no editor.

**The history of runs** (`PagesProofs`): `NoRunPassedOver` (`HistoryComplete`). `HistoryInv`
says of each page, in the cache or on its way, that it is the page as it was after so many runs
(`DataRight`), and of a walk forward that, counted when a page is answered, all runs before the
page have been seen, and with it those on it (`SeenTo`). It holds because a run that is added
only raises the ranks of the older ones (`RanksGrow`): a page read later begins no further down
than where the last one ended, and a page that was there stays there (`PagesStay`, from
`PagesTell`, which says what the count of pages is for). So the count of an older reading, which
lets the user go on, is no danger. Assumed: what `RunHistoryAssumption` says of the constants.

**The logs** (`PagesProofs`): `LogsAsAsked` (`LogsHonest`), from `LogsShownExactly` (`LogsExact`)
and `SearchTellsTheTruth` (`SearchHonest`). `SearchInv` says of the cursor that every run there was
when the search began, and whose output has the text, is found or *still to come* (`ComesYet`): it
is not among those passed, and on none of the pages that were read of its output. Runs are passed
newest first and by their number (`offset`), so that a run created in front of them only moves the
others further back (`MoreAfter`), to be read again but not passed over; and that a run is at the
place of the cursor follows from how many come after each (`SomeHasRank`). A request is a
recursive function of the pages it reads: `ScanRight` shows that the function exists, and what
each page adds (`PageRight`). `LogsInv` says of the server log that what is shown is the beginning
of its window, and that a request for more follows what is shown *or has been added to it already*
(`RequestRight`), the case of a renewed token. Two pages are one (`AscendingJoined`), and a page
read twice adds nothing (`AgainJoined`), also when the list has been cut to `MaxEntries`. Assumed:
an output is pages of texts, there is some range, and `None` is no number, no page and no cursor.

**Pages** (`PagesProofs`):

- `ClicksAreOneRun` (`RunsAsAsked`). `RequestInv`: a reading of the limit, a request and a warning
  belong to one form and one click, of which there is one of these only (`OnceEach`), and what a
  request asks for fits its click *whatever the script becomes* (`Fits`), since others save the
  script between the click and the run. Assumed: `None` is no number and no text.
- `ServedOffline` (`OfflineSafe`). `ShellInv`: releases are installed in their order, the active
  worker's cache has its shell and was made first, and what is written late is never the shell.
- `FiguresAddUp` (`FiguresTrue`, the half of `ChoicesShown` that is about `AdminUsage`). `UsageInv`:
  an answer, kept or being read, is of the filters it is kept under, and of a window as long as
  their period. The usage has each office of the window once: the order of its rows is total, so
  that for each place some row has as many before it (`SomeHasPlace`). The sums of the page and of
  the server are the same recursive function of a set, in which any element may be added last
  (`SumsAre`) and elements that add nothing may be left out (`SumsAgree`); so the offices without
  minutes (`TotalOfTimed`), the cut between the largest and the others (`TotalOfBoth`) and the days
  without runs (`DaysAddUp`) change no total. `ChoicesTrue` is the whole of `ChoicesShown`. Assumed:
  finitely many offices, some period to choose, and runs before the page was opened.
- `PickedFromWhatIsShown` (`PickedIsShown`, the half of `ChoicesShown` that is about `FilePickers`).
  `PickersInv`: the folder on show is on the way to a file seen by the browser (a prefix of its
  folders, kept by every step down or up: `OnePrefixMore`, `UpIsPrefix`), the suggestions are
  closed while the browser is open, and each list of releases or JARs that is kept is the page its
  own key names (`AnswerRight`), so that an answer read for another release is never taken for this
  one's. Assumed: paths are made of strings, the empty text names no runtime, and a JAR is run by
  Java.

**Views** (`ViewsProofs`):

- `ScreensRight` (`ScreensAgree`). `ViewsInv`: neither query is ahead of the server, what is said to
  be its last state is that (`TrueOf`), a reading under way is not older than the data it will
  replace, and the row agrees with the viewer. Nothing is assumed of the order of the statuses: the
  server may go back. `SchedulerInv`: a report in which all tasks
  are well, shown or on its way, is of a time after some task had recorded a success. From the same
  invariant `ViewerGoesOn` (`DetailNeverRegresses`, a part of `ScreensSettle`). Assumed: `None` is
  no age of a task.
- `OutputIsOneText` (`OutputFaithful`). `OutputInv`: what is kept are lines of one stream in a row
  and its cursor is at the last of them, a line that can be read or one of an earlier stream
  (`TextAfter`, `Reached`); lines before are missing if and only if it is said that the text was
  cut, and then it is as long as what is kept (`Cut`), also before the new page is cut itself; what a reading will be joined to is that (`ReadingJoins`), though it was
  given to it before. The budget: the interval's readings are counted in what is kept but for one
  (`Budgeted`), and a reading that joins to nothing is only of a restart. Assumed: `None` is no
  status, no data and no reading.
- `PanelSettles` (`LimitsCurrent`). `LimitsInv`: a list, read or being read, is what the server has
  but for offices with a write that was applied and is not answered, and for what no one tells the
  page of (`Answering`, `RowsCurrent`). `DraftsOutlive` (`DraftsAreKept`, a part of `ScreensSettle`)
  holds of every step. Assumed: some draft is one the server takes, and `None` is no list.

**Panels** (`PanelsProofs`):

- `PagesOfTheirUsers` (`OfficesAllowed`). `OfficesInv`: the office chosen last in a tab is the one
  the page has, or the one its navigation goes to, and the user may use it (`Chosen`).
- `NoFailureGoesUntold` (`FailuresTold`) and `NoToastHidesAnother` (`FreshFailureHasToast`, a part of
  `PanelsSettle`). `NoticesInv`: a source has one entry, that of its last event, and what a query was
  last answered is in its own source until it is waived (`ToldOf`), so that another source, a timer
  of an earlier event or a recovery cannot take it away; a hidden message is one that is still told.
  Assumed: `None` is no outcome, and a message is no query.
- `PanelsRight` (`PanelsTrue`). `QueueInv`: what is ticked was chosen, and a modal is open only
  while something is ticked. `TimingInv` follows the versions of the script that the list, a save
  or a reading of the list holds: two with one number are the same (`VersionsRight`), and a timing
  that is kept or read under the number of a version was told at that version or later and agrees
  with the version of its own number (`TimingRight`). So a timing can be newer than the settings
  beside it, but never older. Assumed: one save at least, and `None` is no version and no timing.

What stays with TLC alone is liveness: it needs fairness and `ENABLED`, out of this prover's
reach. The induction theorems of its library take an operator, which it cannot instantiate. The
proofs have induction from the well-ordering of the natural numbers instead, for a set
(`EveryNumber`, `EverySubset`): it gives ranks in a finite set, sums over one and the values of a
recursive function. No module with a theorem uses a `RECURSIVE` operator, for which the prover has
no SMT backend.

## 5. Where the code and its promises disagree

Four runs exhibit a disagreement with a sentence of the documentation; `PROJECT.json` quotes it.

- `status_refused`: a pending run whose cancellation AWS refuses becomes Running.
- `form_toggle`: the schedule switch sends the whole script as it was when it was clicked.
- `dispatch_repeat`: `docs/dispatch-outcomes.md` wants an uncertain `SubmitJob` not to be retried;
  the client that `batch.py` builds repeats it by itself, and a run gets two Batch jobs, of which
  the table links one.
- `output_checks`: `docs/job-logs.md` has three follow-up readings after the end, the code six.

Others are behaviours of the models, which have them as steps, and are not exhibited by a run.
Dispatch and status:

- `docs/job-cancellation.md` has a run remain Cancelling until the final result; a report that its
  job is runnable or running, made before the stop took effect, takes it out before (`StatusMoves`).
- A claimed run whose dispatch is unknown can be cancelled although its job may be running.
- The last event of a run, in whole seconds, can be older than a refresh of the same second
  and is then dropped: the case that `OutcomeRecorded` excepts (`Overtaken`).
- `CancelJob` is sent for a job that is past RUNNABLE by then.

Scheduling, watchdogs, limits and the local runner:

- Any save after a due minute, of whatever field, drops that occurrence if it was not yet
  registered: `DueIsRegistered` speaks of versions that are still the saved ones.
- More than a scan's limit of unconfirmed cancellations keep later ones from being flagged,
  since a flagged row stays due for the scan.
- Two first overrides that are written together both record that there was no limit before.
- `Retry-After` is too short after the limit was lowered below what is used.
- A manual local run that is cancelled between the second check and its report of RUNNING
  keeps its container.

Pages:

- A click on the schedule switch is lost when the page is left within 300 ms.
- The monthly preset with its time cleared makes the form throw (`Broken`).
- A save answered after the editor was reopened closes the new editor.
- A list read before an import lets it overwrite a script that was not shown.
- The role picker is not reset by Clear; Edit in a row lacks the guard on the version.
- Ticks set while a bulk cancellation runs are cleared by its end.
- The last lines of a run that was cancelled may not be read. A source that fails loses the
  warnings of its last answer, which is still shown.
- A message that is told already is told without a toast once that was dismissed, also when it is
  raised again: `FreshFailureHasToast` speaks of messages that are told anew.
- A typed limit of the office whose limit is being saved is dropped by the answer.

## 6. Not modelled

- Authentication and roles, settings, log records: decisions without state over time. What a
  user may do is a constant of `Offices`.
- The DynamoDB store and the updater's call without `batch_detail`: no deployed path reaches them.
- Migrations: run once by the pipeline. Generated code (`generated/api-types.ts`,
  `routeTree.gen.ts`) and static text (`AboutPage.tsx`).
- The server's validation of scripts and of packages, and how a package maps to fields; GitHub
  tokens and the verification of JARs; building commands and environments; formats of log lines.
- The control audit with its panel, leaving the queue page in the middle of a bulk, and the loss
  of the connection to Docker while a container is waited for.

## 7. Plan

1. Done: the table, dispatch with its refinement, status, watchdogs, scheduling, delivery, the
   calendar, local execution, rate limits, and the pages; the theorems of section 4.
2. The control audit and its panel; the server's validation of a script against the form's
   `SentIsAccepted`.
