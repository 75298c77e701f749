# Verification of masterplan optimiser V3

TLA+ modules, TLC runs and TLAPS proofs about the desktop application in `src/`:
an Electron shell that supervises a FastAPI backend and a Next.js renderer on one
machine, a compute sub-application that solves one day of an event's schedule, and
the client of the MP-Backend server that published schedules and deletion reports
are sent to.

Contents: [1 the system](#1-the-system) · [2 modules](#2-modules-and-their-correspondence-to-the-code) ·
[3 runs](#3-runs) · [4 bounds](#4-bounds) · [5 fairness](#5-fairness) ·
[6 findings](#6-findings) · [7 proofs](#7-proofs) · [8 not modelled](#8-what-is-not-modelled-and-why) ·
[9 plan](#9-plan)

How to run (inside this directory):

    tlc -workers 2 -config jobs_safety.cfg MCOptimisationJobs
    tlapm OptimisationProofs.tla

The modules with proofs are the eight whose names end in `Proofs`.

`PROJECT.json` lists the runs with their modules, the source lines of every
definition, the mutants that show each property can fail, the hazards and the theorems.

## 1 The system

### 1.1 Parts

| Part | State | Operations | Hard behaviour | What makes it correct |
|---|---|---|---|---|
| **Optimisation jobs** `backend/app/api/v1/optimize.py`, `core/optimization_runner.py`, `models/optimization_job.py` | table `optimization_jobs`: id, event, date, status, result | start, status, list, delete old job of a rerun, cleanup-on-close, clear-stuck, the background runner, the startup pass, event and person deletion, import | a runner thread works for up to an hour beside the endpoints and writes by row id; ids are used again; commits fail; the process is killed | one run at a time; a verdict belongs to its own job, has its result and is final; the gate opens again |
| **Optimisation tracker** `web/src/contexts/OptimizationContext.tsx` | the tracked job, the last handled id, the open promises, polls in flight | start and track, poll, upload results, settle, reload | polls are closures over old state; answers arrive after an event switch, a rerun or a reload; the upload fails | a promise tells the end of its own run; "completed" follows the upload; every job is reported |
| **Flow check page, all-days sequence** `app/dashboard/admin/tabs/CMITab.tsx`, `cmi/`, `lib/allDaysOptimization.ts` | the day on show, the verdict, ignored tasks, the runs under way | automatic check, full check, optimise a day or all days, edit, ignore, change the day | a debounced check is overtaken by another; callbacks of an old render read new data; the page is left | the verdict on show is about what is on show; checks and sequences end |
| **Publish preview and flow** `tabs/optimised/OptimisedTab.tsx`, `lib/publishPreview.ts`, `pdfExport.ts`, `excelExport.ts` | the preview, the policy, the day records, the export noted in the session | preview, confirm, cancel, write documents, finalise, publish, record | a dozen awaits from one snapshot; four destinations that fail apart; cancel, reload, policy changes | documents come first; a record is true; the page comes out of publishing |
| **General schedule** `tabs/GeneralScheduleTab.tsx`, `api/v1/general_schedule.py`, `models/general_schedule.py` | session elements, publish state with a fingerprint by day; the page's list of both | create, import, save, duplicate, bulk, copy, delete, publish | the list is patched by answers; edits during a publish; deletions that fail in part | "Up to date" is true |
| **PDF and Excel export** `desktop/pdf-export-service.js`, `excel-export-service.js`, `excel-export.js` | jobs by window, hidden windows, the output folder | start, cancel, run, forget, shut down | cancellation between two awaits, destroyed windows, retries, a folder that vanishes | nothing is written for a withdrawn export; completed means written; every export ends |
| **Electron shell** `desktop/main.js`, `process-ownership.js` | child processes and their registry, windows, the startup chain | start, wait, close, quit, reopen | everything can end between two awaits of the startup; hidden windows count as windows | no service escapes; the last close is seen; the startup page is not the last word |
| **Deletion work orders** `api/v1/mp_backend.py` (deletion part), `core/desktop_deletion.py`, `models/privacy.py` | table `desktop_deletion_outbox` (signed report, signed copy resolution, state, bearer secrets), the persons and the event, the publish secret in the credential store | sync, retry, confirm local copies, flush, stage | two requests flush together, awaits between read and write, lost answers, crash after the server took a report, the credential store is outside the transaction | a row is closed only when delivered; reports follow the erasure and never change; reports arrive |
| **MP-Backend connection, policy, publishing** `api/v1/mp_backend.py` | connection columns and secret, pending and final policy acknowledgement, publish records | settings, ping, acknowledge, publish, publish general schedule, export setup | records are read before a request and written after it | a signed acknowledgement is reused on a retry; a record tells what was sent |
| **Processor evidence keys** `api/v1/operator_evidence.py`, `core/operator_evidence.py` | key rows with states, private keys in the credential store | create, import, enrol, refresh, sign, retire, erase | two awaits in the enrolment; the private key and its row are stored apart; rows are written by ids that are used again | active keys were approved by root; a listed key can sign; the row goes after the private key |
| **Publish state** `api/v1/publish_state.py` | one record per event | get, put, failure, clear | last writer wins | |
| **Google Calendar** `core/google_calendar_service.py`, `api/v1/google.py` | at the provider | publish a calendar date: delete what overlaps it, insert the tasks with that raw date | external; errors are swallowed; the page goes by working days | the other days stay |
| **Task instances, solver exclusions** `api/v1/task_instances.py`, `core/solver_exclusions.py`, `web/src/contexts/TaskInstanceContext.tsx` | rows of the schedule; a cache of the selected event in the renderer | list, create, update, delete, bulk, restore | answers that arrive after an event switch | the cache shows the selected event |
| **Event deletion** `core/event_deletion.py` | all tables of an event, the secret | delete event, delete person | the secret is deleted before the commit | |
| **Import and export** `api/v1/data_management.py` | a whole event | export, import, factory reset | copies job rows with their status; brings identities back that were erased | |
| **Solver and flow check service** `src/compute/` | none between calls | solve, check flow | NP-hard search with a time limit | |
| **Input normalisation** `core/normalizer*.py`, `unavailability.py` | none | convert | raises on invalid input | |
| **Working-day arithmetic** `web/src/lib/workingDayBoundary.ts`, `scheduleDayRange.ts` | none | convert | day boundary after midnight, time zones | a time falls into exactly one working day |
| **Records** `api/v1/events.py`, `persons.py`, `tasks.py`, `groups.py`, ... | their tables | create, read, update, delete | none: one transaction per request | |
| **One-off converter** `tools/one_off/` | files | convert | none | |

### 1.2 How the parts interact

* The renderer starts a job with a POST, the start handler (`optimize.py:38`) looks for
  an active row, deletes the old row of the day, normalises, inserts the pending
  row and hands `run_optimization_background` to Starlette, which runs it on a
  worker thread. The renderer learns of its end by polling every two seconds.
* The job table is shared by the endpoints (one event loop), by the runner
  threads and by every deletion or import. Nobody tells a runner that its row was
  cancelled or deleted: it writes by row id.
* The tracker uploads a completed result to the task instances with
  `bulkSetOptimised`. The all-days sequence awaits the promise of each day.
* A publish asks the Electron managers for the documents over IPC and polls them, then
  calls the backend: finalise the task table, publish it to Google, publish it to
  MP-Backend, save the day records. The managers know the window that asked, not the flow.
* The managers' hidden windows are windows of the application, so they take part in
  `window-all-closed`, which stops the services.
* A deletion work order enters by `sync_deletion_work_orders`: flush, list, claim,
  stage (erase and insert the signed report in one transaction), flush. A flush
  sends the report, then the copy resolution, and closes the row. Retry and
  copy confirmation end in the same flush. Staging a whole-event order deletes jobs
  too, which is `DeleteJobsOfEvent` of the job module.

### 1.3 Concurrency of the code

The endpoints that are `async def` run on one event loop and are cut only at their
awaits. The job endpoints have no await between reading and writing, so each is one
step. Endpoints and runners that are plain `def` run on threads; a runner's commit that
falls between the check and the insertion of a start leaves the table as if it came right after
the start, since the runner writes one row of its own by id, so the step stays whole. The deletion
handlers await HTTP requests, and every await is a point where another handler, a
local deletion or a crash comes in; the models cut them exactly there. The renderer and
the Electron main process are single threads too: a step of `Publishing`, `FlowCheck`,
`GeneralSchedule`, `PdfExport`, `ExcelExport` and `DesktopShell` is what runs between two
awaits, and a continuation keeps the variables of the render or call it began in.

## 2 Modules and their correspondence to the code

| Module | Models | Used by |
|---|---|---|
| `OptimisationJobs` | job table, runners, every writer | `OptimisationTracker`, `MCOptimisationJobs` |
| `OptimisationProofs` | theorems about `OptimisationJobs` and `OptimisationTracker` | |
| `OptimisationTracker` | the renderer's tracker, composed with the job table | `OptimisationProofs`, `MCOptimisationTracker` |
| `DeletionOutbox` | work orders, outbox, handlers, network, server | `DeletionOutboxProofs`, `MCDeletionOutbox` |
| `DeletionOutboxProofs` | theorems about `DeletionOutbox` | |
| `ProcessorKeys` | evidence keys, credential store, enrolment, refresh, ping, erasure | `ProcessorKeysProofs`, `MCProcessorKeys` |
| `ProcessorKeysProofs` | theorems about `ProcessorKeys` | |
| `ExportContract` | abstract: what a local export promises | `PdfExport`, `ExcelExport` (INSTANCE) |
| `PdfExport`, `ExcelExport` | the two export managers | `LocalExports`, `DesktopShell`, `PdfExportProofs` |
| `PdfExportProofs` | theorems about `PdfExport`, its refinement of the contract | `LocalExportsProofs`, `DesktopShellProofs` |
| `LocalExports` | both managers in one process | `LocalExportsProofs`, `MCLocalExports` |
| `LocalExportsProofs` | theorems about `ExcelExport` and `LocalExports` | |
| `DesktopShell` | the main process, composed with the PDF manager | `DesktopShellProofs`, `MCDesktopShell` |
| `DesktopShellProofs` | theorems about `DesktopShell` | |
| `Publishing` | a publish, from the preview to the record | `PublishingProofs`, `MCPublishing` |
| `PublishingProofs` | theorems about `Publishing` | |
| `FlowCheck` | the flow check page and the all-days sequence | `PagesProofs`, `MCFlowCheck` |
| `GeneralSchedule` | the public programme: elements, page, publish | `PagesProofs`, `MCGeneralSchedule` |
| `EventDays` | the days of an event and the turns around a page | `Publishing`, `FlowCheck`, `GeneralSchedule` |
| `PagesProofs` | theorems about `FlowCheck` and `GeneralSchedule` | |
| `MC*` | sets and sample values for TLC | |

### OptimisationJobs

State: `jobs` is the table (row id to row; a row is reduced to event, day, status,
result, plus its `owner`, the run that inserted it, which is history and read by no
guard). `run` holds the background tasks. `disowned` is history: the runs whose row
somebody else failed, deleted or finished while they were on their thread. Progress
percentages, messages and timestamps are left out: no branch depends on them, except on a missing
start time (`MayHaveNoStart`).

| Action | Code |
|---|---|
| `StartAccepted`, `StartNotNormalised`, `StartNotScheduled` | `start_optimization`: the 409 guard, the deletion of the old row (committed on its own), and its three ends: accepted, normaliser raised, failure between commit and `add_task` |
| `RunnerBegins`, `RunnerAnswers`, `RunnerAnswersUnstarted`, `RunnerRaises`, `RunnerCannotWrite` | `run_optimization_background`: the two commits, the exception handler, and the exception handler failing too. `RunnerAnswersUnstarted` is the commit to a row that was given the run's id and never marked as running: its elapsed time cannot be computed, and the run stands before its exception handler (phase `raising`) |
| `CancelActiveJobs` | `cleanup_on_close` and `clear_stuck_jobs` |
| `DeleteJobsOfEvent` | the job rows of a deleted event, or of a deleted person's event |
| `ImportJob` | the job rows of an imported bundle, with the status they were exported with |
| `Restart`, `RestartWithoutClearing` | the process ends; the startup pass of `main.py` runs, or swallows its exception |

`IsNextId` models SQLite's choice of an id: `INTEGER PRIMARY KEY` without
`AUTOINCREMENT` takes the largest id in use plus one, so the id of a deleted last
row is used again. Several properties are hard only because of this.

A factory reset deletes the rows of all events in one transaction; in the model it is
a sequence of `DeleteJobsOfEvent` steps, which reaches a superset of its states.

### OptimisationTracker

Extends `OptimisationJobs`. `tracked` is `optimizationState`, `processed` is
`hasProcessedRef`, `resolver` is `completionResolversRef`, `held` is the event whose instances the page has loaded
(`TaskInstanceContext`), if any. A poll is a record in `polls`: it is asked, answered by the backend, handled by
the page, and for a completed job it waits for the upload (`syncing`). Any number of polls up to `MaxPolls` are under way
at once, as the interval does not wait for the last. Three variables are history: `outcome` (what each promise resolved
to), `applied` (whose result was stored) and `beside` (the ids that polls asked about when a run was started, and
those that became another run's while its promise was open).

| Actions | Code |
|---|---|
| `StartTracked` | the button (disabled while a job is tracked) and the answer to its POST, whatever event is selected by then |
| `AskStatus`, `StatusAnswered`, `PollFails` | `pollStatus` up to its answer |
| `CompletedSeen`, `SyncEnds`, `CompletedAgain`, `InconclusiveSeen`, `InconclusiveAgain`, `FailureSeen` | the rest of `pollStatus` between its awaits and by its branches; a completion that finds no instances of its event uploads nothing and is reported |
| `SelectEvent`, `InstancesArrive` | an event switch drops the instances at once; the load of the next ones may end late, or fail (the step is never taken) |
| `Reload`, `Relaunch` | the end of the page (with or without `cleanup-on-close` arriving) and of the application |
| `Background` | everything else of the job module: the runners, their failures, cancellations, deletions, imports and the starts that the page was answered with an error |

### DeletionOutbox

`events`, `people`, `connected`, `active` are what the handlers read of the local
database, the credential store and the processor keys. `outbox` is the table: `erased`
stands for the counts in the signed report, `copy` for the signed copy resolution,
`state` for pending or sent. `server` is external: what it holds for each order.
`calls` has one record per request under way, with the request it waits for (`pc`), the
orders still to do (`todo`), the copies the session had loaded (`loaded`: the row
objects are read at the start of a flush and not again) and the rows it has marked
(`done`: committed only after the last row).

| Actions | Code |
|---|---|
| `StartRetry`, `StartSync`, `ConfirmCopies` | the three endpoints up to their first await |
| `ReportAnswered`, `CopyAnswered`, `CopyRaises` | `_flush_deletion_outbox` after each of its awaits. A network error of the first request is caught, of the second it is not |
| `ListAnswered`, `ClaimRefused`, `Stage`, `StageRaises` | the rest of `sync_deletion_work_orders`, with `stage_deletion_report` |
| `ServerAnswers`, `ServerRefuses`, `NetworkFails`, `Crash` | server, network, end of the process; an answer may be lost after the server took the request |
| `DeleteEvent`, `DeletePerson`, `ChangeConnection`, `ChangeKey` | local deletions, settings, keys, between any two awaits |
| `ImportBackup` | `import_data`: an event that is not there comes back with any of its people, under the identities they had |

`restored` is history: the orders whose erasure an import has undone.

`attempts` and `last_error_code` are diagnostic columns and left out. The server is
taken to accept a report it holds already, which the code relies on when it sends
one again, and to list orders it has no report for.

### ProcessorKeys

`rows` is the table of the keys, `secrets` the credential store, `evidence` the
`evidence_id` of the events, `binding` the event of the server that a connection leads to,
`server` what the server knows of a key. A request (`calls`) carries what its session read before
an await: the ids of rows, the state of the key, the identity of the event. Four variables are
history: `approved` (root approved the key), `wiped` (an erasure, or a failed refresh, removed its private half),
`raced` (two requests stored the key at once) and `reused` (its row got an id that a request under
way had at hand).

| Actions | Code |
|---|---|
| `Store`, `StoreCommits`, `StoreFails`, `StoreRefreshed`, `StoreNotRefreshed`, `StoreBinds` | `generate_key`, `import_encrypted_key`: the private key, then the commit of the row and its refresh; when either raises, the private key is removed, in the second case from under the committed row; then the commit of `local_event_id` in the endpoint |
| `EnrolAsks`, `EnrolStarted`, `EnrolSubmitted` | `enrol_local_processor_key` between its two awaits, with `sign_document` |
| `RefreshAsks`, `RefreshAnswered` | `refresh_processor_key_status` before and after its await |
| `PingAsks`, `PingAnswered`, `Reconnect` | `ping_mp_backend`, which takes over the identity of the server's event, and the settings |
| `RequestFails` | every refusal and error of these requests |
| `RetireKey`, `EraseSecrets`, `EraseCommits` | `retire_key`, `erase_event_keys` before and after it has removed the private keys |
| `ServerStarts`, `ServerTakesProof`, `ServerReports`, `RootDecides`, `Crash` | the server as far as the code relies on it, the end of the process |

`Written` is the unit of work of SQLAlchemy: a column is in the UPDATE only when it differs from
what was loaded, so an enrolment of a key it had loaded as pending writes no state when it ends;
and the UPDATE goes to the row that has the id by then. Ids are chosen as for the jobs (`NextIds`).
The server is taken to issue challenges only for keys that root has not decided on. An operator retires
a key that is revoked: the code asks to type `REVOKED ON SERVER` and cannot look.

### ExportContract, PdfExport, ExcelExport, LocalExports

`ExportContract` is what a page and the shell rely on: an export is accepted for a window that
has none under way, may be withdrawn, and ends. `Complete` needs that it was not withdrawn and puts
the document into the folder in the same step; `GiveUp` leaves none. Its fairness says that every
accepted export ends.

| Action | Code |
|---|---|
| `Start`, `Cancel`, `CancelOwner`, `Shutdown` | `start` (an attached request gets the running job and changes nothing), `cancel`, `cancelOwner` of a destroyed window, `shutdown` of `before-quit` |
| PDF: `RunBegins`, `SectionAnswered`, `SectionCleared`, `Merged`, `MergeThrows` | `run` and `renderChunk` between their awaits: a hidden window per section, one retry, the storage cleared, the merge; then check, write and verdict in one go |
| Excel: `BuildDay`, `Serialised`, `RunThrows` | `buildExcelWorkbookBuffer` yields after every day and while serialising; then check, write and verdict |
| `ForgetJob`, `FolderChanges` | the retention timer; the folder is removed, comes back or is chosen anew |

`Abstract` in both modules is the refinement mapping: queued and running are *active*, the cancel
flag of a live job is *withdrawn*. That the mapping is right hinges on the last look at the flag being
in the same step as the write. `LocalExports` puts both behind the IPC handlers of `main.js`
and checks both refinements while the other manager is at work.

### DesktopShell

Extends `PdfExport` with the main process. `start` is the await at which the startup chain of each main window stands
(a chain outlives its window, and goes on in the window of then), `page` what was loaded last into the window on show and by whose chain; `owned` is the registry of `process-ownership.js`, `told` are the processes that
got a signal, `blocked` is `serviceStartBlocked`, `answers` what the two polls of a chain found.

| Action | Code |
|---|---|
| `IntegrityChecked`, `StartService`, `ServicesExpected`, `PollEnds`, `BothAnswered`, `StartupShown`, `InterfaceLoaded` | the handler of `whenReady` and `loadFrontendWhenReady`, await by await. The startup page takes a missing window or an interrupted load in its stride; the interface and the failure page throw, which ends the chain with an error page (`ChainThrows`). A chain that returns registers `activate` (`Returns`) |
| `CloseWindow`, `Quit`, `Exit`, `Reopen` | `window-all-closed` (with the exports of the window withdrawn first), `before-quit`, the end, `activate` on macOS, which opens a window with a chain of its own, beside one that may still wait, and starts no service |
| `ServiceListens`, `ServiceExits` | a service answers; it ends, leaves the registry, and blocks its poll if its exit code is bad |
| `Exporting` | every step of the PDF manager |

On macOS the application lives on without a window; `Reopen` then finds no services and
shows the page that says so, which is what the code does.

### Publishing

A flow is a record: where it is, the days, the schedule and the day records of the click
(`executePublishPreview` is a closure over them), and whether its page is still there (`here`).
`exports` are the managers reduced to `ExportContract`; `google` has for each *calendar date* the version of its own tasks, that of the
tasks after midnight of the working day before, and whether all of it is there; `Nights` are the working days with tasks that begin after midnight, `Overnight` those with
a task across it, whose end is sent before its start and refused; `unrecorded` and `astray` are history.

| Action | Code |
|---|---|
| `OpenPreview`, `PolicyShown`, `ClosePreview`, `CancelExport`, `Confirm` | the preview with its policy, its two kinds of Cancel, and the click |
| `PolicyAnswered` | the second look at the policy; `Cancel` during it closes the preview and the flow goes on |
| `ExportBegins`, `ExportSeen`, `LocalThrows` | `exportSchedulePdf`, `exportScheduleExcel`: take over the noted job, attach or start; poll; a cancelled export ends the flow without a failure record |
| `Finalise` | `finalize_schedule`, which replaces the task table by the snapshot |
| `GoogleAnswered`, `ServerAnswered` | the two publishes, from the task table; Google by calendar date (`EntriesOf`), and it may stop in front of a date or in the middle of its deletions (`CalendarStopped`); a 428 of the second returns without a record |
| `Record` | the save of all records, or the record of a failure, or neither |
| `Edit`, `LeavePage`, `Reload`, `RecordsLoaded`, `PolicyChanges`, `ExportEnds` | around the flow |

### FlowCheck

`tasks` are the contents of the days as the checks tell them apart: none, only floating ones, feasible,
feasible only without the floating ones. `quick` are the automatic checks under way, `fresh` unless overtaken
(the abort and the generation). A run is one click; it keeps the day on show, the tasks and the ignored ones
of the click, while its check reads `instancesRef.current`.

| Action | Code |
|---|---|
| `EditAsked`, `EditAnswered`, `ToggleAsked`, `ToggleAnswered`, `ChangeDay`, `ReferenceLoaded` | edits through the context, ignoring tasks, the arrows, `fetchData`; each restarts the timer |
| `TimerFires`, `QuickAnswered` | the debounce effect and `handleSendToFlowCheck` behind its await |
| `OptimiseDay`, `OptimiseAllDays`, `NextDay`, `CheckAnswered`, `StartAnswered`, `RunAnswered` | the button, `runAllDaysSequence`, `runFullFlowCheckForDate`, `runOptimisationForDate`, the promise of the tracker |
| `JobDone`, `JobDeleted`, `RunNotReported`, `LateAnswer` | the backend's job; its deletion (a 404 for ever); a completion under the id that was handled last; a poll that overlapped another one and is handled late |
| `CloseModal`, `LeavePage` | the modal, a keyboard shortcut to another page |

The tracker is reduced to what `OptimisationTracker` shows of it: the job it tracks (`job`: how it ended, and whether it got the id
that `hasProcessedRef` holds), and the days whose next job may get that id (`heard`). `ReferenceLoaded` is the arrival of persons *and* locations:
a request of `fetchData` that fails, or an event without one of them, is this step never taken.

### GeneralSchedule

`listed` and `publishState` are the page's elements and publish state, `stored` and `state` the tables, `server`
what MP-Backend has by day. An element is its id, its working day and its public fields. The hash of the code
is taken as the set it is a hash of (`Public`): what the page and the backend compute is compared, never inverted.

| Action | Code |
|---|---|
| `ReadElements`, `ReadState`, `LoadFails` | `load`: requests in parallel behind a spinner, shown together |
| `Create`, `Import`, `Save`, `Duplicate`, `Bulk`, `Copy` | the handlers, one transaction each, with the ids SQLite gives |
| `Delete`, `Deleted`, `DeleteFails`, `RefreshRead` | one request per element at once, ending one by one; at the first failure the list is read again |
| `Answered`, `AnswerLost` | `setElements` with the answer, or an error |
| `PublishAsked`, `ServerTakes`, `PublishEnds`, `PublishShown` | the handler up to its request (no await in front of it), the server, the record (or the failure, a broken unique constraint, a lost commit), the page's reload of the state |
| `TakenLate` | a request that was given up (its 30 seconds, or the end of the process) is taken by the server afterwards (`cut`) |
| `LeaveTab`, `Relaunch` | another page and back (a public view may be deleted there), the end of the process |

## 3 Runs

| Run | Expect | What it shows |
|---|---|---|
| `jobs_safety` | pass | With failing commits, imports of active jobs, deletions, cancellations and restarts around three runs: at most one run is attached to a row (`SingleFlight`), results stay with their job (`ResultProvenance`), a verdict has its result (`VerdictHasResult`) and is final (`VerdictIsFinal`), a blocking row is explained (`ActiveIsServed`), no day has two jobs (`OneJobPerDay`) |
| `jobs_progress` | pass | `GateReopens`: no job blocks all starts for ever |
| `tracker` | pass | With overlapping polls and instances that arrive late: a promise reports its own run (`OutcomeIsOwn`), a run is reported completed by the step behind its upload (`CompletionMeansApplied`), and a job with an id that was not the last handled one is always reported (`FirstRunsSettle`) |
| `tracker_rerun` | violation | finding 1 |
| `outbox` | pass | Two requests at once with two faults, and an order that the server refuses for ever: closed rows are delivered, the server's reports are about data that is gone (imports apart) and never change, the software never resolves a subject's provider copy by itself, and deliverable reports arrive |
| `keys` | pass | Two requests at work on a key, with reconnected events, crashes and a failing credential store: an active key was approved (`ActiveWasApproved`), a late enrolment does not undo an approval (`ActiveIsKept`), a listed key has its private half (`KeyHasSecret`), and its row goes only after it (`ErasureClaimsAreTrue`) |
| `exports` | pass | Both managers implement `ExportContract`, with its fairness, beside each other |
| `shell` | pass | A running service that was not told to end is in the registry (`ServicesAreReachable`), closing the last window is always seen (`LastCloseIsSeen`), a window does not stay on the startup page, whatever the chains of windows before it load into it (`StartupEnds`) |
| `publish` | pass | Nothing outside changes before every document is written (`DocumentsComeFirst`), a published day was sent everywhere in the version of its record (`RecordIsTrue`), the page comes out of publishing (`PublishEnds`) |
| `publish_other_days` | violation | finding 2 |
| `flow` | pass | At rest the verdict is about the day and tasks on show (`VerdictIsCurrent`), "checking" ends on a page with persons and locations (`CheckEnds`), the sequence ends when the jobs of its days are reported (`SequenceEnds`) |
| `general` | pass | An element is in the page's list once (`GeneralTypeOK`), and a day that is called up to date is so (`UpToDateIsTrue`) |

Some properties leave out what the code is known not to keep; each exception is named, most of them as a variable of history, so
that a reader can take it away and see the trace:

* `SingleFlight`, `ResultProvenance`: runs in `disowned` (section 6, cancelled jobs).
* `OutcomeIsOwn`, `FirstRunsSettle`: `beside`, a run whose id was asked about before it was started, or became another run's
  behind it; `OutcomeIsOwn` also a verdict that a disowned run wrote.
* `CompletionMeansApplied`: a poll that found no instances of its event on the page.
* `ReportedIsErased`: `restored`, an order whose event or person a later import has brought back. `docs/workflows.md:51` says that
  backups keep the identities, and that an import stops when one *exists locally*: an erased one does not.
* The properties of the keys: keys whose row could not be read again behind its commit (`wiped`, like an interrupted erasure), keys of two simultaneous imports (`raced`: the loser's clean-up removes the private key
  of the winner's row) and rows of a reused id (`reused`: a key is erased and another one created
  while an enrolment or a second erasure still has the id of the old row; it then becomes
  active without an approval, or loses its row and keeps its private half).
* `RecordIsTrue`: `unrecorded`, the days that a flow may have changed outside and could not record (a 428 behind a
  Google publish, a reload, a failure whose record fails too), and `astray`, two flows at once or a flow without its page.
* `VerdictIsCurrent`: `late`, the full check of an optimisation that was answered after its day or tasks had changed.
* `SequenceEnds`: `Unreported`, a run whose job no poll will report: it is not tracked any more, its row is gone, or it has the id handled last (finding 1).
* `CheckEnds`: `~loaded`, a page without persons or locations.
* `UpToDateIsTrue`: `unseen`, an edit whose effect the page missed (a lost answer, a departure, answers out of order),
  and `astray`, a publish that ended without its record, beside another one, or was taken by the server behind a newer publish of its days.
* `RecordIsTrue` speaks of Google's tasks before midnight only: records go by working days, Google by dates (finding 2).

Every property of a passing run has a mutant: an operator beside the original
("Variant" in the modules) that a plausible mistake would produce, under which the
same run finds the property violated.

## 4 Bounds

| Bound | Value | Why it is enough |
|---|---|---|
| `MaxJobs` | 2 | Ids matter when the largest one is freed and taken again; two rows have one id that is, and one that stays. |
| `MaxRuns` (jobs, tracker) | 3 (2 for the tracker, with `MaxJobs` = 1) | A disowned run, the run started after it and one more that gets its id. Two are enough for a rerun and its predecessor. |
| `Events`, `Days` | 2 and 2 (tracker 1 and 1) | Two jobs of one event, and jobs of different events. In the tracker a rerun of one day has the id of its predecessor, which is the hard case; another event is the page without instances. |
| `MaxPolls` | 2 (1 in `tracker_rerun`) | A poll that uploads and the next one, or a poll left from a run before. |
| `Answers` in `tracker` | completed, infeasible | Both inconclusive verdicts take one branch. |
| `MaxFaults` | 2 | Every fault is an end of one request, and a retry starts from scratch: two give a fault while recovering from a fault. Imports are counted with them. |
| `Handlers` | 2 | Two flushes at once, or a flush beside a sync; for the keys, no step needs three. |
| `Orders`, `Persons` | 2 and 1 | A subject order and a whole-event order about the same person. |
| `Keys`, `Events`, `Refs` | 1, 1, 2 | Ids are used again with one key too (erase, import again). Only ids relate two keys otherwise, and the theorem on approvals holds for any number; two keys with two identities have more than ten million states. Two identities give a rebound event. |
| `PdfJobs`, Excel `Jobs`, `Owners`, `Sections`, `Days` in `exports` | 2, 1, 1, 2, 2 | A job after another in one window; a first and a last section or day; a retry in each. |
| `Owners`, `Jobs`, `Sections` in `shell` | 3, 1, 1 | `activate` is registered by the first chain, so that it takes a third window for two chains at once; one hidden window is all the shell can see of an export. |
| `Nights`, `Overnight` in `publish` | day 1, day 2 | A day with tasks after midnight in front of another, and a day with a task across it. |
| `LastDay`, `MaxFlows`, `Versions`, `MaxTurns` in `publish` | 2, 2, 1, 1 | A day and its neighbour; a flow after or beside another; a day with and without something to publish; one thing that happens around them (each alone, at any await). |
| `LastDay`, `MaxRuns`, `MaxTurns`, `Contents` in `flow` | 2, 2, 2, two contents | A sequence with a next day and two clicks; two of: edit, departure, day change, deletion of the jobs, late poll. |
| `LastDay`, `MaxItems`, `Versions`, `MaxEdits`, `MaxPublishes`, `MaxTurns` in `general` | 2, 2, 1, 2, 2, 1 | An edit during another, a publish after another, an id that is used again, an element that moves between days or out of the public. |

`Faults = FALSE` (`jobs_progress`) means that the local
database works. `BundleStatuses` restricts imported
rows to finished jobs in `jobs_progress`, because an imported active row blocks until
somebody clears it or restarts (`ActiveIsServed` names it). Symmetry is used in
`jobs_safety` and `keys` only, where nothing but safety is checked. Deadlock is checked except where
the system really may stop: an application that has exited, and pages whose operator has nothing more to do
within the bounds.

## 5 Fairness

* `RunnerFairness`: a scheduled task gets a thread, and the compute call returns or
  runs into its timeout of one hour (`optimization_runner.py`). Nothing is assumed about
  starting, cancelling, deleting or restarting.
* `TrackerFairness`: the interval keeps ticking, the page handles what arrives, and a
  status request is answered if it is asked again and again (strong fairness:
  polls may fail, but not all of them). The upload may fail every time, and instances may never arrive.
* `OutboxFairness`: the event loop resumes every handler, a request without a fault is
  answered, and the operator keeps pressing "Retry pending deletion reports": the
  code itself has no timer for it. Faults are bounded by `MaxFaults`; with
  unboundedly many nothing could arrive. A `Refused` order is refused for ever.
* The exports: weak fairness of `RunStep` for each job. Every await of a run is bounded by `withPdfTimeout`
  or is local work. Nothing is assumed of the windows or of the folder.
* The shell: weak fairness of `StartupStep` for each window and of each `PollEnds`. The pages of the chain are local files, and
  `waitForService` gives up after a minute. That a service ever answers is not assumed.
* `Publishing` and `FlowCheck`: weak fairness of `Progress`, the steps that need no operator. Requests have
  timeouts, exports end by their contract, jobs end by `RunnerFairness`. `ReferenceLoaded`, `JobDeleted` and `LateAnswer` are not among them. As `Progress` can only be taken finitely often
  between two steps of the operator, fairness of the whole is as good as fairness of its parts.
* `GeneralSchedule` states no fairness: only safety is checked.

## 6 Findings

1. **A rerun is taken for processed** (`tracker_rerun`). The rerun of the newest job gets the id of the row
   that was deleted before it; `hasProcessedRef` still holds it. Its result is not uploaded and
   its promise never settles, which also stops an all-days sequence.
2. **Other days change** (`publish_other_days`, text against code). The preview of one day says that
   the other days remain unchanged (`publishPreview.ts:406`), and means working days, as do the target days and the records
   (`OptimisedTab.tsx:1337-1361`). Google is published by the raw date of the tasks (`google.py:522-536`), which for a task that begins after
   midnight is the date of the next day. In the run, the publish of the second day puts the tasks after midnight of the first day into the
   calendar, which was never published; and the publish of the first day alone does not send them.

The models also reach these, which no run repeats; the properties name them as exceptions:

* *Overlapping polls.* The interval starts a poll every two seconds without waiting for the last. While the first poll
  that saw the completion uploads the result, the next finds the id handled and enables the button again (`OptimizationContext.tsx:138`); the
  end of the upload then clears the tracker of whatever job was started meanwhile, and if it is a rerun of the day, which gets the same id, reports it completed
  before its run has begun. `OutcomeIsOwn` and `FirstRunsSettle` except it (`beside`), `FlowCheck` has it as `LateAnswer`.
* *Two solvers.* Cancelling or deleting an active row leaves its thread inside the compute call, the gate looks at
  the table only, and the next start runs beside it, against the comment at `models/optimization_job.py:18`.
* *A cancelled job comes back.* The runner sets `running`, and later a verdict, by row id and without looking at the status.
* *Completed without being stored.* The upload filters the loaded instances by the job's
  event. After a switch to another event, or back while the instances are still loading or failed to load, there are none, nothing is
  uploaded and `completed` is reported.
* *Erased, reported, restored.* The import of a backup looks for its identities among the rows that are there (`data_management.py:1252`), and brings an erased event
  or person back though the server holds its deletion report.
* *A listed key without its private half.* When the refresh behind a successful commit raises, the private key is removed and the row stays
  (`operator_evidence.py:178-183`).
* *"Checking" without a check.* Ignoring tasks sets `checking`; on a page without persons or locations the timer never checks, and it stays.
* *A late publish of the programme.* MP-Backend may take a request whose 30 seconds are over behind a newer publish of the same days; the page then calls
  the newer one up to date.
* *Copies of a whole event.* `docs/workstation-storage-security.md:82` wants data already sent to Google Calendar
  recorded as an outstanding action. Only the branch for one subject does; a whole-event order signs `no_known_local_copies`.
* *A retired key comes back.* A status answer from before the revocation makes a key active that the operator has retired
  meanwhile: `refresh_processor_key_status` does not look at the state.
* *Quit during the startup.* `before-quit` signals what is registered by then; a service that the chain spawns between it
  and the end of the process is in the registry, but nobody reads that any more. `ServicesAreReachable` therefore speaks of
  the registry, and of the time before the exit.
* *Published without a record.* A 428 behind a Google publish ends the flow with the calendar changed.

## 7 Proofs

Every theorem holds for all values of the constants that satisfy the named assumptions of the
modules; TLC evaluates the assumptions on every run. Each inductive invariant was checked with TLC on the run
of its module before it was proved.

### OptimisationProofs

For all sets of events and days, every number of rows
and runs, with or without database faults and for every choice of `BundleStatuses`:

| Theorem | States |
|---|---|
| `TypeCorrect` | `Spec => []TypeOK` |
| `OneFlight` | `Spec => [](AttachedRunsOwnTheirRow /\ SingleFlight)` |
| `VerdictsAreBacked` | `Spec => []VerdictHasResult` |
| `ResultsStayWithTheirJob` | `Spec => []ResultProvenance` |
| `VerdictsAreFinal` | `Spec => VerdictIsFinal` |
| `DaysHaveOneJob` | `Spec => []OneJobPerDay` |
| `ActiveJobsAreServed` | `Spec => []ActiveIsServed` |
| `TrackerKeepsJobs` | `TrackerSpec => Spec` |
| `TrackerTypeCorrect` | `TrackerSpec => [](TrackerTypeOK /\ AskedInv)` |
| `OutcomesAreOwn` | `TrackerSpec => []OutcomeIsOwn` |
| `CompletionsAreApplied` | `TrackerSpec => CompletionMeansApplied` |

Assumptions: `BoundsAssumption`, `FaultsAssumption`, `BundleAssumption`, `NoRowAssumption`, `PollsAssumption`, `NoEventAssumption`, `EventsAssumption`.

`SingleFlight` is not inductive: it says nothing of what the one attached run
is attached to. `FlightInv` adds `AttachedRunsOwnTheirRow`: an attached run is live, its row is
active and its owner is that run; and `SolvingIsMarked`: once it solves, its row is marked as running, so that its answer cannot fail behind the commit. A start needs `NoJobActive`, so at that
moment no run can be attached, and the new one is alone. Every writer that ends
an active row (cancel, delete, another run's verdict) puts the live runs on it into
`disowned` in the same step. That two attached runs are one follows where a start adds one,
and every other step only shrinks the set `Attached`.

The theorems about verdicts look at rows one by one. The lemma `RowSteps` says that after any
step a row of the table is one of three (`RowStep`): it was there with its owner and result and
at most became failed or running (`Kept`), a run that was sent to its id answered (`AnsweredBy`),
or it is new, from a start or an import (`Inserted`). `VerdictHasResult` is then inductive with
`TypeOK` alone. `ResultProvenance` also needs `FlightInv`: a run that is not disowned writes
its own row. `VerdictIsFinal` needs `FlightInv` (a live run on a finished row is disowned) and
`OwnersWereStarted`: every row of this process is owned by a run that has begun, so that a row
inserted under a used id has another owner and is not taken for the old one. `OneJobPerDay` rests on
`DayCleared`: deleting the one row of the day leaves none, which is true only because there
is at most one. `ActiveIsServed` is inductive with `TypeOK`: no step removes the last run of an
active row, or marks a row active, without leaving a run at it.

The tracker writes no row, so every step of it is a step of the jobs (`JobSteps`) and the theorems above hold beside the page too.
Its type is inductive only with `AskedInv`: an answer is read from the row with the id of the poll, and there is no row 0.
`OutcomeIsOwn` needs `OwnInv`, which speaks of every poll in flight and every open promise: a promise is registered under the id of its own run's
job (`PromiseRuns`); the row with that id is still the run's (`PromiseIsOwners`); and the verdict that a poll brings is one of the run whose promise it would settle, or of one that had lost
its row (`AnswerIsOwn`). The second and the third hold unless the id is in `beside`: this is the whole of what overlapping polls and used ids can spoil. That an answer
brings the verdict of the row's owner comes from `ResultProvenance` and `VerdictHasResult` at the moment the backend answers. `CompletionMeansApplied`
is a look at the two steps that settle a completion; `OwnInv` gives that an upload under way is one of a completed job.

### ProcessorKeysProofs

For all sets of keys, events, identities and requests, from `KeyNullAssumption` alone:

| Theorem | States |
|---|---|
| `KeysTypeCorrect` | `KeysSpec => [](KeysTypeOK /\ CallNamesKey)` |
| `ActiveKeysWereApproved` | `KeysSpec => []ActiveWasApproved` |
| `KeysHaveSecrets` | `KeysSpec => []KeyHasSecret` |
| `ErasuresAreTrue` | `KeysSpec => ErasureClaimsAreTrue` |
| `ActiveKeysStay` | `KeysSpec => ActiveIsKept` |

The type is inductive only with `CallNamesKey`: a request at a step that writes has named its key,
event or identity. `ActiveWasApproved` is not inductive, because answers on their way write it.
`ApprovedInv` adds that what requests have been told is true (`AnswersTrue`), that the server
reports only what root approved (`ServerTrue`), and where ids lead (`IdsInv`): rows have different
ids, and the id that an enrolment has loaded belongs to the row of its own key or of
a key in `reused`. The lemma `IdsStep` keeps the last apart from the rest: only the opening of an
enrolment and the insertion of a row touch it, all other steps satisfy `KeepsIds`.

`KeyHasSecret` looks at committed rows; a request that is about to commit one must have the private half
in the store too (`StoringHasSecret`); a refresh that fails takes it from a committed row, which `wiped` records; two requests that store the same key must be in `raced` (`StoringMet`), because the
loser removes what the winner needs. The two action properties go the same way: `ErasingInv` says that the ids an
erasure has at hand are those of rows without a private half or of reused ids; `LoadedInv` that an enrolment which has loaded its key
as active, and still gets as far as its last write, is one of a reused id: the server hands out no challenge for a key that root has decided on.

### DeletionOutboxProofs

For all sets of events, people, handlers, any finite set of orders and any number of faults, from `ShapeAssumption`,
`NullAssumption`, `RowAssumption` (null values are none of the real ones) and `FiniteAssumption`: ids are a count of rows.

| Theorem | States |
|---|---|
| `OutboxTypeCorrect` | `OutboxSpec => []OutboxTypeOK` |
| `ClosedRowsAreDelivered` | `OutboxSpec => []SentIsDelivered` |
| `ReportsAreTrue` | `OutboxSpec => []ReportedIsErased` |
| `CopiesAreConfirmed` | `OutboxSpec => []SubjectCopiesConfirmed` |
| `ReportsAreStable` | `OutboxSpec => ReportIsStable` |

One invariant, `OutboxInv`, carries all five. `OrderTrue` relates each row to the server: what the server holds stands
in the row, a closed row is delivered, and its subject is gone or `restored`. It is inductive only with `CallTrue`, which says that what the session of a
handler has at hand is still true however long it waited: the orders it has to do have rows, the copies it has loaded are
signed, what it marked (`done`, not yet committed) is delivered, and an answer "ok" on its way means that the server has it.
The other handler, a crash and a local deletion keep `CallTrue` because a report and a signed resolution never change, which is
why `ReportIsStable` comes with the same induction. `FirstOf` picks a row by its least id; that there is one is
`LeastNatural`, from the library's theorem on well-founded relations.

### PdfExportProofs, LocalExportsProofs

For all sets of jobs and windows, any number of sections and days:

| Theorem | States |
|---|---|
| `PdfTypeCorrect` | `PdfSafety => []PdfTypeOK` |
| `PdfImplementsContract` | `PdfSafety => Abstract!ContractSafety` |
| `ExcelImplementsContract` | `ExcelSafety => Abstract!ContractSafety` |
| `ManagersCompose` | `LocalSpec => Pdf!PdfSafety /\ ExcelSafety` |
| `LocalTypeCorrect` | `LocalSpec => []LocalTypeOK` |
| `LocalContracts` | `LocalSpec => Pdf!Abstract!ContractSafety /\ Abstract!ContractSafety` |

Assumptions: `PdfAssumption`, `ExcelAssumption`, `LocalAssumption`. The refinement goes action by action: a start is `Accept`, a
cancellation `Withdraw`, the last step of a run `Complete` or `GiveUp`, everything else a stutter. Two facts of the
reachable states make it true. `AttachInv`: a live job is the one its window is attached to, so that a start that finds no
running job in `activeByOwner` finds the window free, as the contract wants. `StageInv` (PDF): the stage of the run says
whether the job is live, so that a continuation of a cancelled run cannot complete it. `LocalContracts` joins them: each step of the
process is a step of one manager that leaves the other alone, or of both (shutdown, folder). The theorems about the PDF manager
are taken over by `INSTANCE PdfExportProofs`, the constants being covered by `LocalAssumption`.
`PdfContract` and `ExcelContract`, which the run `exports` checks, state the fairness of the contract too; that half
is liveness and stays with TLC.

### DesktopShellProofs

| Theorem | States |
|---|---|
| `ShellTypeCorrect` | `ShellSpec => []ShellTypeOK` |
| `ServicesStayReachable` | `ShellSpec => []ServicesAreReachable` |
| `LastCloseSeen` | `ShellSpec => []LastCloseIsSeen` |
| `ShellKeepsContract` | `ShellSpec => PdfSafety /\ Abstract!ContractSafety` |

From `PdfAssumption`. `ShellInv` extends `PdfInv` of the manager. That no hidden window stands in the way of the last close
needs `WindowInv` (only a job that renders and was not cancelled has one) and `OrphansWithdrawn`: a live job that was not
withdrawn belongs to the window that is open; `QuitWithdraws` is the same for the quit. The chains of the windows, however many run at once,
are proved together: `ChainKeeps` says what a step of one may do to the registry, the signals and the pages.

### PublishingProofs

For any number of days, flows, versions and turns and all sets of destinations, from `PublishingAssumption` and `DaysAssumption`:

| Theorem | States |
|---|---|
| `PublishTypeCorrect` | `PublishSpec => []PublishTypeOK` |
| `DocumentsAreFirst` | `PublishSpec => []DocumentsComeFirst` |
| `RecordsAreTrue` | `PublishSpec => []RecordIsTrue` |

`DocumentsComeFirst` needs `WrittenInv` (a kind that a flow has behind it is written by some export) and `UnbegunInv` (a flow
that has not come to a kind has no export of it). Without the second a start could reset a completed export that
another flow had counted as its own, and `WrittenInv` would not be inductive.

`RecordIsTrue` is about states between flows, its invariant `HonestInv` about the dozen awaits in
between. As long as nothing went `astray` there is one flow and it has its page (`AloneInv`). The records in the backend, those on the page and those in the
snapshot of the click agree with the destinations on every day outside those the flow has touched (`RecordsInv`): all three are needed, because
a save writes the snapshot's records for the other days. `SentInv` says how far the destinations hold the snapshot: the task table since the
finalisation, Google since its answer, MP-Backend since its own. Of Google, a record is compared with the tasks of its date before midnight: `EntriesOf` takes those from the task table of that day
whatever the day before has sent there.

### PagesProofs: FlowCheck

For any number of days, clicks and turns and all contents, from `FlowAssumption` and `DaysAssumption`:

| Theorem | States |
|---|---|
| `FlowTypeCorrect` | `FlowSpec => []FlowTypeOK` |
| `ChecksAreFresh` | `FlowSpec => [](FlowTypeOK /\ EditInv /\ CheckInv)` |
| `VerdictsAreCurrent` | `FlowSpec => []VerdictIsCurrent` |

`VerdictIsCurrent` is not inductive: an automatic check that is under way will write the verdict. `FreshInv` says that, as long as the
timer was not started again, a check that was not overtaken is about the day on show as it is, and `UnloadedInv` that none is under way
without persons and locations. The proof sorts the actions in two: those that start the timer (`Rearmed`) and those that leave day, tasks and
checks alone (`Undisturbed`); the timer, the two answers and the end of a run are left. What happens to the tracked job, late polls included,
is of the second sort or starts the timer (`JobStep`).

### PagesProofs: GeneralSchedule

For any number of days, elements, public contents, edits, publishes and turns, from `GeneralAssumption` (ids and contents are counted
from 1, and there is room for the element that the programme begins with) and `DaysAssumption`:

| Theorem | States |
|---|---|
| `GeneralInvariant` | `GeneralSpec => []GeneralInv` |
| `GeneralTypeCorrect` | `GeneralSpec => []GeneralTypeOK` |
| `UpToDateTrue` | `GeneralSpec => []UpToDateIsTrue` |

Even that an id is in the list once (`GeneralTypeOK`) is not inductive: an answer that adds an element needs a list without it, one that
replaces some a list with them, and both depend on what was answered before. `GeneralInv` follows each edit from the table to the page.
`Live` are the edits that are in the table and not yet on the page; `After` of an edit holds those that were when it was done, and an
edit that is answered while one of them is still live is noted in `unseen`. Hence, as long as nothing is missed:

* `OrderInv`: of two live edits one has to be answered after the other. Two of which each has to come after the other (`Crossed`: the
  parts of a deletion that end around another edit) will end in `unseen` whatever comes first, and so will what is behind them (`Blocked`).
* `ListInv`: if no edits are crossed, the last live edit of an element (`IsLast`) brings what the table has of it; with none live
  the list has it. A list that failed to load may lack it (`Shows`), which `UpToDate` excludes by `Configured`.
* `NeedsInv`: an answer that adds or replaces finds the element absent or present: in the list, or by the last answer in front of it.

An edit that is done joins behind all that are live (`Joins`, `JoinsKeeps`); an answer in its turn is the first of all (`AnsweredFirst`),
and what it shows is what it brings (`AnswerShows`). The other half of `GeneralInv` is about the records: as long as nothing went `astray` there is
one publish, which began with the state of the backend as it is, so that its record is right about its own days once the server
has taken them and about the others as before (`SentInv`); a request taken late only reaches days that count as failed or unpublished, else it is `astray` (`LateRecords`); the page shows that state or will read it (`ShownInv`).

The ids of copies come from a sequence over a finite set (`SetToSeq`): `CopiesAreProper` needs that it has an element for
each of its indices and nothing about their order, and that the maximum of a bounded set exists, which `LeastOf` and `GreatestOf` take from the library's
theorem on well-founded relations.

### Only model-checked

* All liveness: `GateReopens`, `FirstRunsSettle`, `ReportsArrive`, `StartupEnds`, `PublishEnds`, `SequenceEnds`, `CheckEnds`, and the
  fairness of the contract in `PdfContract` and `ExcelContract`. The provers have neither ENABLED nor fairness reasoning.
* What a recursive definition computes is nowhere needed. The two runs that expect a violation, and the exceptions of section 3, are TLC's.

The installed provers cannot instantiate the induction theorems that take an operator; no module declares a RECURSIVE operator.

## 8 What is not modelled, and why

* The solver's search, the flow check service and the normalisers: sequential computation on large
  data. Only the verdict, or that they raise, has an effect on what is modelled.
* Record handlers: one transaction per request, no state between requests.
* Most of the renderer's volume: the calendar, forms, tables, metrics and settings are layout and local
  editing state; what they change reaches the models as an edit. The API client is one `fetch` per function.
* Working-day arithmetic: pure functions on strings.
* `stopOptimization` of the tracker: no caller.
* What the server does inside: whether it rotates a claimed order's secrets on a second
  claim cannot be seen from this repository.
* For the outbox, rebinding of an event by ping (the ping refuses it while reports are
  outstanding; `ProcessorKeys` has it), restores of whole database files and
  the factory reset of the events behind outbox rows: the outbox table outlives it.
* Of the keys, the cryptography, the rotation of a key by its successor (`supersedes_key_id`) and the deletion of
  an event, which leaves its keys behind.
* Of the publishing, the signed acknowledgement of the policy (one fact that changes), the authorisation at Google, and
  more than one event; a single deletion at Google that fails is like an insertion that fails, a date that is not whole, and what its timezone does to the end of a date.
* Of the general schedule, the editors of views, teams, categories and types, except the deletion of a view.
* Of the task instances, what the cache shows when the loads of two events overlap; the tracker has the load itself.

## 9 Plan

The cache of task instances across events (`TaskInstanceContext.tsx`), where an answer arrives after an event switch.
