# A verification project for langgraph-agent

TLA+ models of the parts of this program whose correctness depends on the order of steps:
the task manager and its threads, the agent's graph and its conversation, what a task
remembers between rounds, how a browser tab follows a task, the launchers and the trace,
the model store, sub-agents, background processes and MCP sessions, the components of the
page, and the live browser script that ships with the repository.
TLC checks every model on small instances; TLAPS proves the central facts about rounds,
the graph, what a task remembers, the event stream, launchers, trace, sub-agents and process
trees for every value of the constants. All paths below are
relative to `src/`; `backend/services/task_manager.py` is abbreviated TM, `frontend/src/` FE,
`.agents/skills/impeccable/scripts/live-browser.js` LB.

## 1. The system

A FastAPI backend runs *tasks*. A task is one conversation in one workspace; it runs in
*rounds*. A round is one worker thread that invokes a LangGraph graph on the task's
`thread_id`; when it ends the task is *parked* (INTERRUPTED or FAILED) until the next
message or a resume starts the next round. A React frontend follows a task through a
server-sent event stream and REST snapshots. Beside them the repository holds the live
browser script: injected into a page under design, it lets the user pick an element, sends
*Go* to a helper process, compares the variants an agent writes, and talks to that agent.

| Component (source) | State it keeps | Operations | What is hard about it |
|---|---|---|---|
| TaskManager (TM) | the live record; `_lock`; per-task maps `_threads`, `_stop_flags`, `_active_states`, `_round_models`, `_interrupt_announced` | create, stop, resume, send message, delete, set plan; the worker's run, finalize, teardown | request threads and workers share the maps, partly outside the lock; failing saves; restart |
| Persistence (`services/persistence.py`) | `_tasks`, tasks.json | load, save, delete; a save dumps every record | a save of one record writes the live fields of all |
| Agent graph (`core/agent/nodes.py`, `graph.py`) | the checkpoint: messages, steps, counters | nodes agent, tool, finish; sweep of unanswered calls | stops and crashes between nodes, re-entry at the start |
| Compression (`core/agent/context.py`) | none | cut the head of the conversation | must not cut a call from its replies |
| Ledger and plan (TM, `services/plan_file.py`, nodes) | conversation, plan version and hash in the record; messages and plan in the checkpoint; the plan file | message, set_plan, seed, refresh of the plan note, merge of a settled round | three stores written one after the other, one of them edited by hand |
| EventBus (`services/event_bus.py`) | subscribers and a bounded buffer per task | publish, subscribe with replay, unsubscribe | callbacks run outside the lock |
| SSE endpoint (`api/sse.py`) | an outbox per stream | replay, forward, drop oldest | bounded; loses and replays |
| Task state of a tab (FE `store/`, `hooks/useSSE.ts`, `pages/TaskView.tsx`) | a snapshot of the task | reduce an event, merge a snapshot, refetch | events and snapshots race |
| TraceRecorder (`services/trace.py`) | an open file and a callback per task | attach, close | attach and close subscribe and unsubscribe outside the lock |
| Server lock and launchers (`server_lock.py`, `cli.py`, `start.py`) | data/server.json | look, judge, claim, serve, release | a record outlives its process; read and unlink are two steps |
| Composer (FE `components/center/Composer.tsx`, `hooks/useComposerSend.ts`) | text, drafts, busy flags, notes | send, stop, switch mode and model | answers arrive after the task was changed |
| Model settings (FE `components/settings/`, `store/modelStore.ts`) | card and dialog state, the store's catalog | test, discover, pick, edit, refresh | stale previews, overtaken refreshes |
| Plan pane (FE `components/dash/PlanPane.tsx`) | loaded and edited text, conflict, synced version | load, save after a fresh read, overwrite | other hands write the plan meanwhile |
| Task rail (FE `components/rail/`, `pages/TaskView.tsx`, `store/taskStore.ts`) | rows, snapshots, selection, pending deletions | list, select, filter, delete | lists overtake each other; rows are remounted |
| Workspace dialog (FE `components/rail/WorkspaceDialog.tsx`) | draft, busy, recent directories | validate, switch, dismiss | a validation outlives its dialog |
| Drawers (FE `hooks/useDrawerFocus.ts`, `lib/inertLedger.ts`) | open drawers, inert marks, focus | open, close, resize, tab | effects in several passes, overlapping marks |
| Dashboard (FE `components/dash/`, `components/TraceTab.tsx`, `lib/dashTabs.ts`) | tabs, files, previews, replay | open, close, poll, load | hidden panes, switched tasks |
| Live browser (LB) | session, staged edits, steer chat, agent targets | Go, accept, discard, resume; stage, apply, roll back; steer; claim a target | reloads, dropped streams, answers out of order, two tabs |
| ModelStore (`services/model_store.py`) and TaskManager's clients | providers, entries and default in memory; models.json, credentials.json, models.json.bak-v1; cached clients | edit providers, entries, keys, default; migrate v1; choose a task's model | two files, one logical write; a write fails or the process dies between them; caches |
| Sub-agents (`core/agent/subagent.py`) | a bounded pool of threads; stop flags; callbacks of futures | spawn, wait, time out, cancel, run a nested graph | a timeout races the result; the thread of a sub-task given up runs on |
| BashTool (`core/tools/bash.py`) | process trees, the background list, its reaper | run a call, register what survives it, reap, kill at a stop | a registration races a kill; a reaper that leaves races a registration |
| MCP client (`core/mcp/client.py`) | sessions, each with a thread, an event loop and a child process | connect, call, close | a start that times out late; exits that raise or hang |
| Routes, adapters, tools, policy, prompts, login | no state that interacts | | sequential |

Interactions: routes call TaskManager; TaskManager starts workers, reads and writes
Persistence, publishes on the EventBus; workers run the graph, whose nodes publish too,
poll the stop flag and write the checkpoint; the SSE endpoint and the TraceRecorder
subscribe to the bus; the tab reads the stream and GETs the record, which is the *live*
object (load_task returns the object itself, not a copy). The components of the page share
the store's selection and snapshots; each calls the REST API by itself and lives with
answers that come late. The components of LB share its mode (PICKING, CONFIGURING,
EDITING, GENERATING, CYCLING, SAVING) and one event stream from the helper.

What makes the components correct:

- TaskManager: one round at a time; a stop is obeyed; somebody always settles a live
  record; disk and record agree; every park is announced; nothing stays in the maps.
- Graph: every request to the provider is well paired; no tool call runs twice or after a
  refusal; verdicts are final; the budget holds.
- Ledger and plan: what was said and answered is shown once and stays; version names text;
  the plan does not change in the middle of a round.
- Stream and tab: nothing is lost or doubled between replay and live events; the tab at
  rest shows the record.
- Launchers and trace: one backend; a launcher removes only its own record; a dead record
  keeps nobody out; no callback of an era gone stays; a fresh era is whole.
- Model store: there is always a default that resolves, in memory and on disk; no key
  outlives its provider; no client is served from before an edit; v1 is not lost.
- Sub-agents, background trees, MCP: a sub-task given up does no more work and gives its
  thread and flag back; no process tree is forgotten; a failed connect leaves no process.
- Page: an answer changes only what it was asked for (task, configuration, directory); what
  the page shows at rest is the newest answer; nobody's work is overwritten; whatever spins
  ends; focus and inert marks end where they began.
- Live browser: an ended session stays ended; no recovery destroys new work; a lock has a
  reason and an end; one Go per agent target; a verdict is given and is fresh.

## 2. Modules

| Module | Models | Composes or extends |
|---|---|---|
| `RoundSlot` | abstract specification: a task's rounds as a slot with one owner | |
| `TaskRuns` | TaskManager's threads, record, tasks.json, lock and maps, for one task | instantiates `RoundSlot` as refinement |
| `TaskRunsProofs` | theorems about `TaskRuns`: types, one round, the refinement, what a round leaves to be done | extends `TaskRuns` |
| `Context` | operators: sweep of unanswered calls, pair-safe compression | |
| `AgentLoop` | the graph over the rounds of one task | extends `Context` |
| `AgentLoopProofs` | theorems about `AgentLoop`: calls, steps, budget, the conversation, and lemmas about `Context` | extends `AgentLoop` |
| `RoundMemory` | ledger, checkpoint, plan file and plan note over the rounds of one task | |
| `RoundMemoryProofs` | theorems about `RoundMemory` | extends `RoundMemory` |
| `LiveView` | bus, stream and tab, with the worker and the requests that publish | |
| `LiveViewProofs` | theorems about `LiveView` | extends `LiveView` |
| `ServerLock` | launchers, their record, ports and processes | |
| `Trace` | the recorder, the bus's callbacks and the threads that use them | |
| `ModelStore` | the catalog, its two files and their backup, cached clients, the model of one task | |
| `StoreProofs` | theorems about `ModelStore` | extends `ModelStore` |
| `Workers` | sub-agents: the rounds of tasks and the threads of the pool | |
| `Background` | the process trees of one task: calls, list, reaper, stop | |
| `McpSession` | one MCP server's session: opener, thread, calls, clean-up | |
| `Composer`, `Settings`, `PlanEdit`, `Rail`, `WorkspaceDialog`, `Drawer`, `Dash` | one component of the page each | |
| `LiveSession`, `ManualEdits`, `Steer`, `AgentTarget` | one component of LB each, with the helper and the agent as it sees them | |
| `MCTaskRuns`, `MCAgentLoop`, `MCRoundMemory`, `MCLiveView` | instances for TLC | extend the module they name |
| `MCServices` | instances of `ServerLock`, `Trace`, `ModelStore`, `Workers`, `Background`, `McpSession` | extends `ServerLock`, instantiates them all |
| `ServicesProofs` | theorems about `ServerLock` and the instances of `Trace`, `ModelStore`, `Workers`, `Background`, `McpSession` | extends `MCServices`, instantiates `StoreProofs` |
| `MCPage` | instances of the page's components | instantiates them |
| `MCLive` | instances of LB's components | instantiates them |
| `LiveBrowserProofs` | theorems about `Steer`, `ManualEdits`, `LiveSession` and `AgentTarget`, for any constants | instantiates them |
| `LiveProofs` | the same for the instances of `MCLive` | extends `MCLive`, instantiates `LiveBrowserProofs` |

**TaskRuns.** A request thread (`Clients`) and a worker thread (`Workers`) are processes
with a program counter (`cpc`, `wpc`); a step is one read or write of shared state, in the
order of the source; what runs under `self._lock` holds `lock` from its first step to its
last. `record` says whether Persistence lists the record, `status` is the live object's
field, `disk` what tasks.json holds. `maps` is the set of per-task maps that hold the id:
`_active_states` ("state"), `_stop_flags` ("stop"), `_round_models` ("model"),
`_interrupt_announced` ("announced") and the open trace. Requests are
`CreateSave .. StartThread`, `StopLoad .. StopTell`, `ContProbe .. ContTell` (resume and
send_message), `DeleteRecord .. DeletePop`; the worker is `WorkerLoad .. CloseTrace`, with
the graph reduced to a loop whose node entries (`Superstep`) see the stop flag.
`NeighbourSave` is a save of another record, `Restart` the death of the process, the
reload and `_reconcile_orphans`.

**AgentLoop.** A node of the graph is one step, since durability "sync" commits its whole
effect or none: `Answers`, `Asks`, `ModelFails`, `NodeRaises` are the agent node,
`RunsTools` the tool node, `Finish` the finish node; `Continue` and `Resume` invoke the
graph again (which re-enters at its start), `Crash` ends the process inside a node, after
any number of the node's tools have run. A message is a role and its call ids; texts are
left out. `Requests` is the set of requests the agent node may send: the conversation,
swept, and compressed or not. Whether compression is needed (a token count) is left open,
so every request is checked in both forms. `ran` and `lost` are history.

**RoundMemory.** Five stores: `record` and `disk`, `ckpt`, `file`, and what a round holds
(`said`, `final`). A plan is a member of `Texts`; its hash stands for it. `Seed` reads the
file at the start of a round or finds it locked, `Cuts` what compression may hand a call (all
messages, the long ones squeezed or not, or the newest ones), `Checked` the refresh of the plan note
at a model call (at a round's first one and after a compression, a squeeze included: `Refreshes`), `Merged` the merge of the ledger when a round settles, `SetPlan*` the
two-store write with its rollback (`RolledBack`), its failure and its tear.

**LiveView.** `Publish` is the locked part of publish, `Hand` its callback outside the
lock, through to the outbox. A stream is opened by `Connect` (subscribe: register and
snapshot under one lock), lost by `Disconnect`. `Receive` is the tab's onEvent with the
React effect that follows a changed status; `Serve` and `Answer` are a GET's two ends, so
everything may happen in between. The record is reduced to status, number of steps and
`said`, a stamp of everything else. Worker and requests are reduced to the publications
and assignments the view can see; their locks and maps are TaskRuns' matter.

**ServerLock.** A launcher is a process that runs once; its instance id and its record are
one value. `Look`, `Judge`, `Probe` are find_running, `Drop` and `Unlink` the two halves of
release_lock, `Claim` the O_EXCL creation, `Port` the check of the port, `Spawn`, `Serve`,
`Stop`, `Leave`, `Remove` its life. A launcher in `Dev` is start.py, which spawns before it
claims. `Crash`, `Reuse` (a dead launcher's process number is used again) and `Occupy` (a
foreign program on a port) are the troubles. Two histories are kept: `overtaken`, the launchers
about to unlink a record that somebody else has removed since they read it, and `robbed`, that
one of them has removed a fresh record.

**Trace.** A callback is named by the round whose attach made it. `Attach`, `Subscribe`,
`Check`, `Unsubscribe` are attach's steps in and out of the recorder's lock, `CloseFile` and
`Forget` those of close, for the worker, the request that gives up a round, and delete.
`Publish` copies the bus's callbacks under its lock, `Hand` calls them one at a time.

**ModelStore.** A mutation holds the manager's lock from its first write to its last;
what it has left to do is `req.todo`, a sequence of "keys" (credentials.json, `WriteKeys`),
"change" (the memory), "save" (`Backup` while a v1 backup is owed, then `Save`), "clear" or
"pop" (cached clients) and "point" (the task's record), in the order the method has them.
The actions named after the methods (`AddProvider`, `DeleteModel`, `SetTaskModel`, ...) begin
one; `KeysFail` and `SaveFails` are its exceptions, `Crash` ends the process between any two
steps, `Start` is `_load` with the seed and the migration. What a mutation makes carries its
`stamp`, so that a client tells which address, entry and key it was built from. `TakeClient`,
`PinRound`, `EndRound` are a round's model.

**Workers.** `ppc` is the round's worker: `Begin`, `Spawn`, then `Answered` or `TimeOut`,
`Cancel`, `Hook` (the done callback), `Tell`, and the three pops of its teardown: the registration
(`Teardown`), the flag (`Unflag`) and the pin (`Unpin`). The next round may begin after the first
of them, so workers of earlier rounds may pop the new round's flag and pin: `left` says which pops
are still to come, `robbed` which rounds have lost their pin to one. `own` is the model the round
itself works with. `st` is a sub-task's future together with its thread: `Take` (a free slot), `Pick`
(its model), `Enter`, `Work`, `Leave` (its graph), `Free` (the future's callbacks, the slot).
`pflag` and `sflag` are the stop flags of tasks and sub-tasks.

**Background.** A call goes through `Run` (the loop that polls), `Drain` (the pipes), `Look`
(does the tree live?) and `Register`. The reaper takes a `Snapshot` of the list, reads the flag
for each entry (`Check`) and takes off what has ended (`Remove`). `Stop` takes the task's
entries, kills them (`Kill`) and raises the flag afterwards (`RaiseFlag`).

**McpSession.** `lpc` is the session's thread (`SpawnChild`, `Initialize`, `Decide`, then
`Abort` or `Announce`), `opc` connect_all (`StartReturns`, `ListTools`), `pc` a tool worker
(`CheckCall`, `SubmitCall`, `CallReturns`), `kpc` the clean-up (`Cleanup`, `Close`, `StopLoop`).

**The page.** In each module a call is a record in `calls` with a stage ("out", the
server's answer): `Handle` is the server, `Answer` or `Got*` the continuation after the
`await`, so the user's clicks and other answers come in between, and answers arrive in any
order unless an effect's clean-up has cancelled the older one. A control can be pressed
only when a render of the current state offers it. React effects are steps of their own
where the code relies on their order (`Drawer`, `Dash`, `Rail`) and part of the
state change where it does not.

- `Composer`: `selected`, `view` (the snapshot held) and `failed` decide what `Send`
  does; `draft` keeps a text per task; `row` is the custom model row.
- `Settings`: `card` and `editor` are the state of one provider's card and of the dialog,
  `mine` and `cur` say of a call whether its configuration and its gate token are still
  current.
- `PlanEdit`: texts are numbers in the order they are written; a save is a read, a
  verdict (`Verdict`) and a put.
- `Rail`: `ListEffect` and `SnapEffect` with their clean-ups (`Cancelled`), `DropTasks` and
  `Victims` for deletions, `Remount` for the rows that leave.
- `WorkspaceDialog`: the request gate is the set of calls whose token is still current.
- `Drawer`: `open` drawers, the marks `inert` and the `ledger` that takes them back;
  `Effects` runs the two effects of useDrawerFocus in their order.
- `Dash`: `PaneKey` is what the file pane depends on; `previews` load once; `face` is the
  replay.

**The live browser.** `LiveSession`: `tab` is the script's state and its saved copies,
`srv` the helper's, `file` the source, `dom` the page; `posts` are requests under way,
`sse` events. `ManualEdits`: `tab`, the helper's `staged` edits and `phase` of an apply,
`wire` the messages. `Steer`: `chat`, the `page` with its focus, the `guard` of the
automatic focus, `posts`, the helper's `queue`, the `agent`. `AgentTarget`: a *chain* is the
continuation of one heard target in one tab, from the claim through the scroll and the
renewal to Go; `req` is the helper's request with its lease and its busy reports. Helper and
agent are not under src/ in source form; they are modelled from what LB sends and expects, and
marked external in the map.

## 3. Runs

| Run | Question | Properties |
|---|---|---|
| `taskruns_rounds` | three requests create, resume, continue, delete, with failing saves and restarts | `OneRound`, `AdmittedHasCheckpoint`, refinement `ImplementsRoundSlot`, `TypeOK` |
| `taskruns_full` | stops race continuations and workers | `RunningHasCarrier`, `DiskAgrees`, `RoundDrains` |
| `taskruns_stop` | two stops against the first round, failing saves | liveness `StopIsObeyed`; `NoSilentPark` |
| `agent_loop` | three invocations with stops, crashes, refusals, model errors, compression | `RequestsAreSound` (RequestsWellPaired, OneText), `DispatchedOnce`, `BudgetHolds`, `StepsSettle`, action property `VerdictsAreFinal`, `TypeOK` |
| `round_memory` | three rounds with messages, edits from every hand, locked files, lost saves, a crash | `LedgerIsExact` (AnswerIsShown, SaidOnce), `PlanIsTold` (OneNote, PlanAgrees), action properties `LedgerGrows`, `PlanStepsAreSound` (VersionNames, PlanIsStable), `TypeOK` |
| `live_view` | two rounds, or one that is stopped; a lost stream, a full outbox, late snapshots | `StreamIsSound` (StreamIsExact, PublisherOrder), `ViewSettles`, action property `StepsStay`, `TypeOK` |
| `services` | launchers, the trace, the model store, sub-agents, background trees, MCP: eleven parts | `OneBackend`, `DropsItsOwn`, `TraceIsSound`, `StoreIsSound`, `HelpersAreSound`, liveness `ServicesSettle` |
| `page` | the page's components, thirteen parts, late, lost and overtaken answers | `AnswersKeepToTheirOwn`, `PageIsTrue`, action property `WorkIsKept`, `TypeOK` |
| `page_ends` | what the page waits for ends | liveness `PageSettles` |
| `live_browser` | LB's components, seven parts, reloads, lost streams, refusals, two tabs | `LocksAreOwned`, `DoneStaysDone`, action property `StepsAreHonest`, `TypeOK` |
| `live_browser_ends` | what LB waits for ends | liveness `LiveSettles` |
| `taskruns_two_graphs` | *refuted*: resume's docstring, "two concurrent resumes can never both spawn workers on one thread_id" | `OneGraph` |

`OneGraph` is the part of `OneRound` the docstring states, with stops; section 6 tells what
happens, and lists the other sentences of the repository that a model refutes.

**Parts.** MCServices, MCPage and MCLive put several instances into one run. The components
in them share nothing at the grain of their modules, so a product of them would only
multiply their interleavings; instead a variable `part`, chosen in Init, says which instance
moves, and all others stay at one initial state. A run's states are the *sum* of its parts'.
A property of a component is stated and explained in its module; the MC module names it for
the part, or the parts, where it is asked, and joins the ones that ask one question:

| Joined property | Conjuncts |
|---|---|
| `TraceIsSound` | `TraceTypeOK`, `NoStaleCallback`, `FreshEraIsWhole`, `EraCloses` |
| `StoreIsSound`: the store's files agree with its memory | ModelStore's `TypeOK`, `DefaultResolves`, `CacheIsFresh`, `SecretsHaveOwner`, `RollbackHolds` |
| `HelpersAreSound`: nothing outlives whom it belongs to | `TypeOK` of the three; `FlagsDrain`, `RoundsModel`; `NoTreeIsForgotten`, `ReaperIsThere`; `FailedStartEnds`, `RegisteredIsLive` |
| `ServicesSettle` | `StaleIsCleared`; `FoldedIsQuiet`, `WaitEnds`, `SlotsComeBack`; `FlagEndsTrees`; `CallEnds`, `ConnectEnds` |
| `AnswersKeepToTheirOwn`: an answer only touches what it was asked for | `NoSecondTask`, `PreviewBelongs`, `PlanIsItsOwn`, `DashIsItsOwn`, `NoSwitchBehind`, `OneValidation` |
| `PageIsTrue`: what the page shows at rest is so (`RestIsTrue`), and no region is left dead, no open drawer hidden (`OverlaysAreSound`) | `PageAgrees`, `SpinnersEnd`, `RowsAreTheAnswer`, `RailEmptyIsAnswered`, `FilesCatchUp`, `FilesEmptyIsAnswered`, `HiddenIsQuiet`, `ActiveTabExists`; `MarksAreRight`, `OpenIsShown`, `TabCycles` |
| `WorkIsKept`: no step undoes newer work | `DraftIsKept`, `PlanNotEaten`, `NeverBack`, `VersionNeverBack`, `BackOnClose` |
| `PageSettles` | `SendEnds`, `RefreshEnds`, `SaveEnds`, `DeletingEnds`, `DrawerCloses`, `DashLoadingEnds` |
| `LocksAreOwned`: a lock has somebody who ends it | `LockedIsApplying`, `LockHasTimer`, `VoiceHasItsInput` |
| `DoneStaysDone`: what is over is not taken up again | `EndedStaysEnded`, `HiddenIsNotPicked`, `OneGo` |
| `StepsAreHonest`: no step swallows a failure or takes what is the user's | `NoReloadOverNewWork`, `SessionIsKept`, `FocusNotStolen`, `AcceptFailureIsTold`, `VerdictIsFresh` |
| `LiveSettles` | `FinishedIsShown`, `SavingEnds`, `ApplyingEnds`, `SteerEnds`, `RequestEnds`, `LoserIsCleared` |

The parts, and the conjuncts each is there for:

| Run | Part | Component and bounds | Properties it is for |
|---|---|---|---|
| services | lock | ServerLock, 3 launchers, 2 ports; crashes, reused process numbers | `OneBackend`, `DropsItsOwn` |
| | stale | ServerLock, a launcher and start.py; crash, reused process number, foreign port | `StaleIsCleared` |
| | rounds | Trace, 3 rounds, failing saves, stops | `NoStaleCallback`, `FreshEraIsWhole`, `EraCloses` |
| | deleted | Trace, 2 rounds, failing saves, stops, a delete | `NoStaleCallback`, `FreshEraIsWhole` |
| | store | ModelStore, no file, 2 providers, 1 model name, 3 mutations; failing keys, crashes | `DefaultResolves`, `CacheIsFresh`, `SecretsHaveOwner` |
| | legacy | ModelStore, a v1 file of one profile whose default is gone, 2 names, 2 mutations; failing keys and backups, crashes | `DefaultResolves`, `RollbackHolds` |
| | failing | ModelStore, the same file, 1 name, 2 mutations; everything fails | `DefaultResolves` |
| | pool | Workers, 1 task, 1 slot, 2 sub-tasks of 1 node, 1 switch, stops | `FlagsDrain`, `RoundsModel`, `FoldedIsQuiet`, `WaitEnds`, `SlotsComeBack` |
| | trees | Background, 2 calls, 2 rounds, 2 stops | `NoTreeIsForgotten`, `ReaperIsThere`, `FlagEndsTrees` |
| | mcp | McpSession, 2 calls, clean exits | `FailedStartEnds`, `RegisteredIsLive`, `CallEnds`, `ConnectEnds` |
| | mcp hangs | McpSession, 2 calls; exits raise, closes hang | `CallEnds`, `ConnectEnds` |
| page | sends | Composer, a task and one to come, 2 texts, 2 calls, lost calls, remounts | `NoSecondTask`, `DraftIsKept` |
| | controls | Composer, every control, 1 call | `NoSecondTask` |
| | cards | Settings, every write, 1 model, 3 calls | `PreviewBelongs`, `SpinnersEnd`, `NeverBack`, `PageAgrees` |
| | plan | PlanEdit, 1 task, 3 texts, 2 saves, other hands, rounds, lost calls | `PlanNotEaten`, `VersionNeverBack` |
| | plans | PlanEdit, 2 tasks in turn, other hands, lost calls | `PlanIsItsOwn` |
| | saves | PlanEdit, 2 tasks in turn, edits, other hands, lost calls, 2 texts, 1 save | `VersionNeverBack` |
| | two dirs | Rail, 2 directories, a task and one that comes, 2 lists, 1 deletion | `RowsAreTheAnswer`, `RailEmptyIsAnswered` |
| | one dir | Rail, 2 tasks of a directory, 2 lists, 1 deletion, 1 park | the same |
| | dialog | WorkspaceDialog, 2 directories, a second spelling and a path of nothing, 2 recent, 2 tries | `NoSwitchBehind`, `OneValidation` |
| | drawers | Drawer, all widths, a task or none, both drawers, the replay | `MarksAreRight`, `OpenIsShown`, `TabCycles`, `BackOnClose` |
| | polls | Dash, a task that runs and writes, polls out of order | `FilesCatchUp`, `HiddenIsQuiet`, `FilesEmptyIsAnswered` |
| | switches | Dash, 2 tasks at rest | `DashIsItsOwn`, `HiddenIsQuiet` |
| | files | Dash, 2 files | `ActiveTabExists` |
| page_ends | news | Composer, 2 sends from an empty list | `SendEnds` |
| | lost cards | Settings, 2 calls, lost ones too | `RefreshEnds` |
| | edits | PlanEdit, 2 tasks, an edit, other hands, lost calls | `SaveEnds` |
| | one row | Rail, 1 task, 2 deletions | `DeletingEnds` |
| | drawers, switches | as in page | `DrawerCloses`, `DashLoadingEnds` |
| live_browser | framework | LiveSession, 2 sessions, hot reload, 1 page load, a wrapper unmounted | `AcceptFailureIsTold` |
| | static | LiveSession, 2 sessions, static page, 1 load, 1 lost stream, refused calls, discards from outside | `EndedStaysEnded`, `NoReloadOverNewWork`, `AcceptFailureIsTold` |
| | staging | ManualEdits, 1 element, 2 clicks, a Go, a load, a lost stream, a refusal, a decision | `HiddenIsNotPicked` |
| | applying | ManualEdits, 1 element, 3 clicks, no lost event | `LockedIsApplying` |
| | chat | Steer, 2 messages, a page with fields, voice, failing posts | `LockHasTimer`, `VoiceHasItsInput`, `FocusNotStolen` |
| | two targets | AgentTarget, 2 tabs, 2 targets, 1 fault | `OneGo`, `SessionIsKept` |
| | lapses | AgentTarget, 2 tabs, 1 target, 3 faults, leases that lapse while the page scrolls | `OneGo`, `SessionIsKept`, `VerdictIsFresh` |
| live_browser_ends | one framework, one static | LiveSession, 1 session (2 variants on the static page), a load, a lost stream | `FinishedIsShown`, `SavingEnds` |
| | two clicks | ManualEdits, 2 elements, 2 clicks | `ApplyingEnds` |
| | silent | Steer, 2 messages, lost replies, a lost stream | `SteerEnds` |
| | holders, frozen | AgentTarget, 2 tabs, 1 target; tabs that reload, leave, freeze; requests that time out | `RequestEnds`, `LoserIsCleared` |

Bounds, and why they are enough:

- TaskRuns: 2 or 3 requests, 1 or 2 workers, one task. Threads are reused, so the number
  of calls and rounds is *not* bounded. Three requests are a claim, a rival claim and a
  delete; two workers are the old round's teardown and the new round. Stops and
  continuations together make a third request too expensive, hence three runs with
  different `Ops`. Counters of events stop at 2 (`Bump`).
- AgentLoop: 2 ids, 2 calls a turn, budget 2, 3 invocations: a block of two calls, one of
  them answered, or two blocks of one; turns before and after; a budget that is spent and
  one that is not; a crash, its sweep and the round after. What does not depend on the
  conversation's length is proved for all bounds (section 5).
- RoundMemory: 2 texts, 2 messages, 3 rounds, 1 edit by hand, 1 trouble (lost save, failed
  set-up or node, crash): each trouble with everything before and a round after it.
- LiveView: buffer and outbox of 2, 2 steps, one stop or one continuation, 2 connections,
  2 answers on their way: a buffer that evicts, an outbox that drops, a first fetch and
  the fetch of a park at the same time.
- ModelStore: three mutations make a provider, give it a key or an entry and take it away
  again, or make two and remove one; two suffice after a migration. `CacheIsFresh` is not asked
  of the legacy part, where a mutation refused for want of the backup leaves the memory changed.
- Workers, Background: one slot and two sub-tasks (one given up that holds the slot, one that
  waits); two calls and stops (a tree registered before and one after a kill), two rounds (a
  flag of the first, a tree of it in the second).
- The page: two of whatever can be taken for another (tasks, directories, texts,
  configurations), and as many calls as a hazard needs: one under way while the user
  does something, and a second that overtakes it. `Uses` names the controls a part offers,
  which keeps a part's calls on the ones that interact.
- LB: two sessions (one ended, one new), one or two elements, messages, tabs and targets;
  `MaxDrops`, `MaxLoads`, `MaxHides`, `MaxFaults` bound the troubles, `MaxPresses` and `MaxGos`
  the clicks; `Copies` the parallel chains of one target; each trouble comes with
  everything before it and a recovery after it.

Deadlock is checked in the TaskRuns runs. The others really stop: when their bounds are
spent the task is parked, the launchers are done, the page is at rest.

## 4. Fairness

Only these specifications state fairness, and none assumes that the user does anything.

- `FairSpec` of TaskRuns (`taskruns_stop`): a thread that serves a call goes on, because Python
  threads are preemptive and a lock's waiter gets it. A worker goes on too, but in the
  graph only while a stop is pending: model and tool calls carry timeouts, so a node
  returns and the next node entry polls the flag; nothing is assumed about how long a round
  runs that nobody stops.
- `ServicesSpec`: a launcher of the part stale goes on when it can, and a backend that serves
  may serve for ever. The pool's threads go on, since a model call or a batch of tools ends, and
  a wait for a sub-task ends at its timeout; nobody need stop, switch or end a round. The
  reaper's thread runs, a bash call ends at its deadline, a stop that has begun finishes. The
  MCP session's thread goes on (its awaits have timeouts), and so do the constructor, a call
  and a clean-up that has begun; nobody need shut the program down.
- `FairSpec` of MCPage: React runs due effects; the server handles a request or the request
  fails, and its continuation runs; for the kinds of call a property waits for.
- `FairSpec` of MCLive: the browser's timers fire; requests arrive and are answered or
  refused; a lost EventSource reconnects; leases lapse; in ManualEdits the helper and the
  agent end an apply they began; in LiveSession the agent's done arrives or the recovery
  timer fires. Nothing is assumed about the agent in Steer: `SteerEnds` rests on the tab's
  own timer.

Each property is shown to depend on the code by a mutant of one mapped definition (listed
in PROJECT.json, marked `(mutant)` in the modules) under which TLC refutes it. A joined
property is broken by any of its conjuncts, so the modules keep a mutant for the other
conjuncts as well; put in the place of the definition that follows it, each makes TLC refute
the joined property by the conjunct named here:

- Context: RequestsWellPaired by SweepToTail.
- AgentLoop: OneText by SweptStepsUnchanged.
- RoundMemory: VersionNames by PlanSavedSame, PlanIsStable by RefreshAlways, AnswerIsShown by MergedOnce, SaidOnce by SayingAgain, OneNote by EnsureNoteOnly, PlanAgrees by RolledBackNot.
- LiveView: StreamIsExact by RegisteredAfterReplay, PublisherOrder by FramesLiveFirst.
- ServerLock: DropsItsOwn by DropBlind.
- Trace: NoStaleCallback by ForgetAll, FreshEraIsWhole by CheckNothing, EraCloses by CloseNothing.
- ModelStore: CacheIsFresh by ClearNothing, RollbackHolds by SaveAtOnce, SecretsHaveOwner by AddProviderKeyFirst and by DeleteProviderKeyLast.
- Workers: FlagsDrain by HookKept, RoundsModel by PickChosen, FoldedIsQuiet by StoppedByParent.
- Background: ReaperIsThere by RegisterOnly, NoTreeIsForgotten by RemoveAll.
- McpSession: RegisteredIsLive by CloseNothing.
- Composer: NoSecondTask by NeverLoading, DraftIsKept by Emptied, SendEnds by BusyStays.
- Settings: PreviewBelongs by AnyDiscovery, SpinnersEnd by ResetSome, NeverBack by AnyRefresh, PageAgrees by RefreshesSome, RefreshEnds by FailedOnly.
- PlanEdit: PlanNotEaten by ReadOrNot, VersionNeverBack by VersionAsRead, PlanIsItsOwn by Kept, SaveEnds by BusyAtConflict.
- Rail: RowsAreTheAnswer by DropRows, RailEmptyIsAnswered by FaceOfRows, DeletingEnds by DeletingIfRefused.
- WorkspaceDialog: NoSwitchBehind by StillCurrent, OneValidation by BusyAfterAny.
- Drawer: MarksAreRight by RestoredTargets, OpenIsShown and DrawerCloses by NeverForTrace, TabCycles by NoWrap, BackOnClose by FocusFirst.
- Dash: ActiveTabExists by TabAfterOld, FilesCatchUp by KeyOfTask, DashIsItsOwn and HiddenIsQuiet by PaneCallsKept, FilesEmptyIsAnswered by PaneFaceOfCount, DashLoadingEnds by LoadedIfOk.
- LiveSession: EndedStaysEnded by ResumeAtAny, NoReloadOverNewWork by SupersededByIdOnly, AcceptFailureIsTold by AcceptOkForgets, SavingEnds by AcceptRefusedSilently, FinishedIsShown by RecoverNothing.
- ManualEdits: HiddenIsNotPicked by RemovedAnyway, LockedIsApplying by DoneCounterFirst, ApplyingEnds by RefusedStaysLocked.
- Steer: LockHasTimer by LockedKeepsTimer, VoiceHasItsInput by StoppedNothing, FocusNotStolen by AutoFocusAnyField, SteerEnds by TimeoutIfOpen.
- AgentTarget: SessionIsKept by BusySessionOnly, VerdictIsFresh by LiveForgets, OneGo by ScrolledToGo, RequestEnds by DeniedGivesUp, LoserIsCleared by RefusalIgnored.

Assumptions on constants are named. A module that is extended states them as ASSUME; a
module that is instantiated as a definition `Assumption`, which the MC module evaluates for
every instance (`ConstantsAreSound`).

## 5. Proofs

`TaskRunsProofs`, for any finite or infinite sets of clients and workers, any `Ops`, with or
without failing saves and restarts; assumption: `ConstantsAssumption` of TaskRuns (threads
are disjoint sets that do not contain `None`).

- `TypeCorrect`: `Spec => []TypeOK`. TypeOK alone is not inductive: a failed save puts
  back the status that `_mutate_task` has noted, so `TypeInv` adds that a process that may
  put it back has noted one (`SnapshotTaken`).
- `OneRoundWithoutStop`: `Spec => []OneRound`, provided `"stop" \notin Ops`. OneRound is
  not inductive either: it does not say *why* a second claim is refused. `RoundInv` adds the
  reasons: a claim holds the lock and has seen no live thread (`ClaimIsHeld`), the thread it
  made and the worker that runs are the registered ones (`MadeIsRegistered`,
  `RoundIsRegistered`), an owned record is listed and its status is one no claim accepts
  (`OwnedIsListed`), a record that is being deleted has no owner (`DeletingIsGone`).
- `RoundsImplementSlot`: under the same assumption TaskRuns refines `RoundSlot`, with
  `life <- record` and `owners <- Owners`.
- `AdmissionIsKept`: under the same assumption an admitted continuation finds its snapshot.

The assumption is needed: with stops the statements are false (run `taskruns_two_graphs`).
It is the code's gap and not the proof's: a stop rewrites the status that keeps a second
claim out.

The second half of `TaskRunsProofs`, under the same `ConstantsAssumption`, states promises: what
one thread leaves undone is done by another. Each invariant names the threads that can still
keep the promise and follows the duty from hand to hand; all rest on `ThreadInv`, which adds
to the types that a thread between its making and its start belongs to one request
(`Handed`), that only the first round marks its record RUNNING (`FirstMarks`), and that a
task never created has no threads.

- `ThreadsAreHanded`: `Spec => []ThreadInv`.
- `MapsAreDrained`: `Spec => []RoundDrains`, without any hypothesis. The trace's entry may
  be closed by a request that gives its round up as well as by the worker, so the invariant
  says who closes it (`TraceHasCloser`).
- `DiskIsBroughtUpToDate`: `Spec => []DiskAgrees`, provided no save fails (`~SaveMayFail`). A
  listed record is in the file (`ListedOnDisk`), which is why a thread that still has a save
  ahead of it writes the status that the record has by then. With failing saves it is false:
  a save that fails in FinalSave leaves the file behind until the next one.
- `LiveRecordIsCarried`: `Spec => []RunningHasCarrier`, provided no save fails. A claim holds
  the lock until its flip is made (`ClaimLocks`), a PENDING record is one whose first round
  is still to begin (`PendingIsFirst`), and nobody carries a deleted record back
  (`DeletedIsDormant`).
- `ParkIsAnnounced`: `Spec => []NoSilentPark` under `FirstRoundOnly`: the first round with
  its stops, saves that may fail, no continuation, no delete, no restart. A claim to announce
  is held by somebody who has not told yet (`ClaimIsTold`), and while nothing was heard of a
  stored record some thread is left that will tell (`SilentHasTeller`). The hypothesis is needed: with a
  continuation the statement is false (section 6).

`AgentLoopProofs`, for any set of ids, any budget, any number of invocations, reused ids and
crashes included; assumption: `LoopAssumption` of AgentLoop (the ranges of its constants).
The inductive invariant `LoopInv` holds the steps and the counters; the conversation does not
occur in it.

- `CallsRunOnce`: `Spec => []DispatchedOnce`. A call's counter may grow only in the tool
  node, so one has to know that the tool node finds nothing already run
  (`ToolStepIsFresh`): the step was opened by the agent node right before, and a crash or
  a new round enters at the agent node.
- `ParkedStepsAreSettled`: `Spec => []StepsSettle`. finish only looks at the last step and
  only if it is of this round; `OpenStepIsLast` says that no other one can be running
  unless a crash cut it off.
- `BudgetIsKept`: `Spec => []BudgetHolds`, because the agent node is entered only with a
  call left (`BudgetIsLeft`).
- `VerdictsNeverChange`: `Spec => VerdictsAreFinal`, an action property: each action keeps
  decided verdicts (`TurnKeepsVerdicts`, `ToolsKeepVerdicts`, ...), given the invariant.

The second half of `AgentLoopProofs` is about the conversation, with the same generality but for
one hypothesis of its second theorem; assumption: `LoopAssumption`.

- `ConversationIsTypeCorrect`: `Spec => []TypeOK`. The invariant `TalkInv` adds to `LoopInv` that
  the messages are made of ids the records know (`Said`) and that what waits is finite, which
  makes the lists of replies lists.
- `RequestsStaySound`: `~MayReuse => (Spec => []RequestsAreSound)`. The hypothesis says what
  a provider does, that it gives no id twice; without it the statement is false
  (`RequestsWellPaired`, section 6). The invariant `ReqInv` says what a conversation looks
  like at any time (`Shape`): every call has its replies right behind it, but for one call at
  most, whose replies so far are there too and whose missing ones all wait for their tools
  (`WaitsAt`); and every reply tells the final verdict of its call's record (`RepliesTell`). A
  conversation of that shape is closed by the sweep, by the tool node, and, where nothing waits,
  by the turn itself: in each case replies are put in behind message b (`Filled`), and the lemma
  `FilledIsPaired` says that no call is open then. `CutIsPaired` says that a compression cuts
  between blocks, `AskIsOpen` what a turn with refusals leaves open, `TextKeepsShape` that a
  user's message may come in between. That SweptSteps and SweepWord say the same of a call is
  the part of the proof about `Told`.

What the sweep makes of a conversation is FlattenSeq of the messages with their replies, a
recursion; `FlattenIsDefined` and `FlattenFills` settle it once by a smallest counterexample
(`SmallestOf`).

`LiveViewProofs`, for any size of buffer and outbox and any number of steps, stops, calls,
connections and requests; assumption: `ViewAssumption` of LiveView. The inductive invariant is
`ViewInv`, two halves, and `TabInv`, which rests on the first of them:

- `TypeInv` says what the types leave out: the buffer's numbers have no gap, each publisher
  hands on at most one event and its own (`BusTyped`), nobody hands anything to a stream that is off
  (`StreamTyped`), and whatever record an answer carries has its steps from the first on
  (`TabTyped`). It gives `ViewIsTypeCorrect`: `Spec => []TypeOK`, and `StepsAreKept`: `Spec =>
  StepsStay`, an action property: a record with its steps from the first on cannot be merged into
  a view without keeping the view's.
- `StreamInv` says where every event is between its number and the tab: an event is known by
  its number (`NumbersNameEvents`), what a stream has sent precedes what it holds
  (`SentBeforeFrames`, `FramesInOrder`), an event that a publisher still holds is the last of
  its publisher's (`HeldLast`), what was dropped is nowhere any more (`DroppedIsGone`), and
  every number from the stream's first to the bus's last is sent, dropped, queued or held
  (`Accounted`). It gives `StreamCarriesAll`: `Spec => []StreamIsSound`. Both an event lost between
  replay and live events and one that is doubled would break `Accounted` or `DroppedIsGone`, and
  two publishers that overtake each other break neither: hence StreamIsExact asks for the order of
  each publisher's events only.
- `TabInv` gives `ViewIsTheRecord`: `Spec => []ViewSettles`. Its argument follows a round. The
  stamp of the record tells whether the round is open, and no answer knows more than the record did
  when it was served (`RoundKept`, `FoundRound`). The steps of the view, of events and of
  answers are among those made, all of them once the round is over (`StepsKept`): hence an answer
  of the settled record replaces the view, whatever it shows (`MergesAll`), and an older one does
  not. The round's events lie behind the one that began it, the last of them is the one that
  parks, and from what the tab has seen to the bus's last there is no gap (`Flow`: `EventsFit`,
  `NothingIsMissed`). When the tab meets the parking event its ref still says that the round runs
  (`MarkRound`), so it asks; from then on either the view is the record and nothing on its way
  takes that back, or a request that will bring the record is on its way (`Settled`), and behind
  an answer that brings it none spoils it (`AnswersInOrder`). At rest nothing is on its way. Where
  the excuses bite: a stop publishes the parking event before the worker has settled the
  record; with a raise the record does not end as the checkpoint; a lost event breaks
  `NothingIsMissed`, an answer of an earlier round takes the view and the ref back
  (`ViewFollows`, `MarkRound`).

`RoundMemoryProofs`, for any plans and answers and any number of steps, messages, rounds, edits by
hand and troubles; assumption: `MemoryAssumption` of RoundMemory (the two words that stand for
"no plan" are no plans; a call and a message at least). All five properties of the run are proved.
The inductive invariant `MemoryInv` has, besides the types:

- `LedgerNumbers`: the user turns of the record are numbered 1 to some n, on disk too. A
  continuation adds n + 1, and what a crash falls back to is a ledger of the same numbers.
- `MessagesSound`: the user turns among the messages ascend and are of the ledger, and there
  is one plan note at most; a message that was claimed is not among them yet, so saying it keeps
  the order. That compression and the dropping of notes keep this is the bulk of the proof.
- `AnswerIsCarried`: a round's answer is the last of its messages until it is settled, which
  is why the merge finds it.
- `PlanIsFollowed` and `VersionIsAhead`: which of file, record and checkpoint agree in which
  phase, and that a plan the round took up has a version of its own before the record learns it.

It gives `MemoryIsTypeCorrect` (`Spec => []TypeOK`), `LedgerStaysExact` (`Spec => []LedgerIsExact`),
`PlanStaysTold` (`Spec => []PlanIsTold`), and the action properties `LedgerOnlyGrows`
(`Spec => LedgerGrows`) and `PlanStepsStaySound` (`Spec => PlanStepsAreSound`), which rests on the
history `shrunk`: a call's checkpoint has another plan text than the one before only if the context was
compressed or squeezed before it, or the model wrote the plan itself.
What `_drop_plan_notes` leaves is a recursion over the messages (`Kept`). Facts about it are
proved by a smallest counterexample (`SmallestNat`, from the well-foundedness of < on Nat):
that the recursive definition defines a function (`KeptIsDefined`), and that what is kept is
the messages without the notes in their order (`DroppedThins`).

`StoreProofs`, for any providers, models, v1 profiles and number of mutations; assumption:
`Assumption` of ModelStore. There are two invariants.

- `StoreInv` holds whatever write fails and wherever the program dies: a file that is v2
  resolves (`DiskIsSound`), what a mutation is about to put in memory, or may take back,
  resolves too (`RequestIsSound`), a start is alone with its save (`StartIsAlone`), and a
  v2 file or a program that is up has its backup behind it (`BackupIsBehind`). Types alone are
  not inductive: memory is restored from the request, and the file from memory. It gives
  `DefaultAlwaysResolves` (`Spec => [](TypeOK /\ DefaultResolves)`) and `BackupComesFirst`
  (`Spec => []RollbackHolds`, provided no backup is torn).
- `SteadyInv` is the conversation of the two files, the memory and the clients. Between two
  saves the file is the memory (`FilesAgree`); what a mutation has left to do, in its order,
  keeps the keys' owners in every catalog on the way (`KeysFit`) and leaves what a client was
  built from, or has its `clear` or `pop` still ahead (`ClientsFit`, `ClientsAreFresh`). It
  gives `ClientsAndKeysAgree` (`Spec => [](CacheIsFresh /\ SecretsHaveOwner)`), provided saves
  do not fail, nor backups of a v1 file (`Steady`). The hypothesis is needed: an OSError of
  the save leaves the mutation in memory with its clients undropped, and a key behind whose
  provider the file does not know (section 6). Crashes and failing writes of the keys are in.

`ServicesProofs`, for any number of sub-tasks, slots, calls, rounds, stops and tool calls of
the pool, the trees, the MCP session and the trace, as `MCServices` composes them (a step of
one part leaves the others as they are); assumption: `ConstantsAreSound`.

- `OneBackendAtATime`: `Spec => []OneBackend`, and `RecordsAreDroppedByOwners`:
  `Spec => []DropsItsOwn`, where Spec is ServerLock's, for any sets of launchers and ports and
  any assignment of ports; assumptions: `LockAssumption` of ServerLock and `Orderly` (no
  start.py and no foreign program on a port; processes may die, leave their records and have
  their numbers used again). Both say what holds until a launcher that was overtaken between
  release_lock's read and its unlink has removed a fresh record (`robbed`); that this happens is
  in section 6 (`NobodyIsRobbed`). The invariant `LockInv` says that a port which answers is held
  by the launcher that serves there (`PortsAreHeld`), and, until somebody is robbed, who may hold
  the record (`HolderIsListed`: a launcher from its claim to its removal), that what a look has seen
  had been claimed (`SeenHasHeld`), that only the record of a launcher that has ended is dropped
  (`DropsTheDone`), and that it is the one about to be unlinked, unless another launcher removed it since (`UnlinksTheSeen`). With
  start.py the first is false (section 6, `OneWriter`).
- `StoreStaysSound`: `ServicesSpec => []StoreIsSound`. The module's three instances of
  ModelStore meet the hypotheses of what `StoreProofs` proves step by step (`StoresInv`); the
  properties that StoreIsSound asks of each are among them.
- `HelpersStaySound`: `ServicesSpec => []HelpersAreSound`. The pool's invariant `PoolInv` has
  to know that sub-tasks are spawned in order, so that the one waited for is the last
  (`WaitedFor`, `SpawnedInOrder`), that a round is pinned from its begin on until it ends or
  a worker of an earlier round takes the pin (`PinnedInRound`), and that a flag is only raised for a sub-task that has a slot
  (`FlagIsLate`). The trees' invariant `TreesInv` says what is on the list, in the reaper's
  snapshot or in a stop's hands is a finished call's (`ListedIsOver`). The session's invariant
  `McpInv` ties the opener's, the thread's and the cleaner's counters (`ThreadHasChild`,
  `OpenerIsTold`, `CleanerOwns`).
- `FoldedStaysQuiet`: `ServicesSpec => Pool!FoldedIsQuiet`: a sub-task whose result was told
  takes no step of its graph.
- `TraceStaysSound`: `ServicesSpec => []TraceIsSound`. A callback gone stale is one some thread
  takes off right away, so `TraceInv` says which thread answers for each subscription
  (`SubsExplained`, `TakenOnce`), that a registered callback is subscribed or about to be
  (`RegSubscribed`), that it has a worker that will close it (`RegHasWorker`), and what the
  era's file holds (`EraInFile`).

`LiveBrowserProofs`, for any constants of Steer, ManualEdits, LiveSession and AgentTarget;
assumptions: `Assumption` of each (ManualEdits': a finite set of elements, so that staged edits
can be counted, and `None` is none of them; AgentTarget's: the name of a page that is gone is
no tab's). `LiveProofs` carries the results over to the instances of MCLive: a part there and
the component of an instance here are the same specification, so the component's inductive
invariant is one of the part (`ChatKeeps`, `FrameworkKeeps`, `LapsesKeeps`, ...). `LiveInv` puts
them together: the component of the chosen part has its invariant, and one that waits has that of
its first state.

- `ChatLocksAreOwned`: Steer keeps its types, `LockHasTimer` and `VoiceHasItsInput`. With the
  types these are inductive: whatever takes the lock sets the timer and the text in
  the same handler, a timer of another message leaves the lock alone, and what takes the
  lock or leaves the configuration stops the microphone it would orphan (`Held` names what each
  handler keeps).
- `HiddenStaysUnpicked`: ManualEdits keeps its types and `HiddenIsNotPicked`, with any mishaps,
  lost streams and reloads. The invariant `EditsInv` adds that the editing mode
  has a picked element (`PageSound`), which is what a save stages, and that one edit at most is staged of an element (`Stages`), which bounds the count.
- `LockIsTakenBack`: `LockedIsApplying`, as long as the stream and the page live and no apply
  ends in a question. `Owned` is the promise: a tab that is locked, or that will lock itself at the
  next count because the storage says so, has an apply at the helper or a commit on
  its way whose answer takes the lock back. The hypothesis is needed: with a lost event the
  tab stays locked (section 6).
- `EndedSessionStaysEnded`: LiveSession keeps its types and `EndedStaysEnded`, with any mishaps.
  The invariant `SessionInv` says of the tab's record that the current session is none of the
  handled ones (`Sound`), and counts the requests by the presses (`PostsCounted`), which bound the
  numbers they carry. Most of the proof shows, for each function the script runs on that record
  (`Save`, `Restores`, `ResumeAt`, `Watched`, ...), that a sound record stays one: what could
  take up an ended session again is a wrapper or a saved state that outlives it, and both ways
  back ask the handled list first, which no reload clears.
- `OneGoForARequest`: AgentTarget's `OneGo`, as long as a page shows the target once (`OneCopy`)
  and no tab is frozen between the renewal and its Go. The invariant `Sale` has two halves. Before
  a Go: of the chains of all tabs at most one has renewed its lease (`OnePresses`), it holds the
  lease of a request that is still open (`PressHoldsLease`), and nobody has pressed yet
  (`PressIsFirst`). After it: the request is answered, or its result is on the way and the lease
  is with the tab that pressed, which has no other chain and shows the session until the helper
  has heard of it, or with the page it has left (`SoldIsKept`); the code says nothing of this half,
  but without it a lease could be granted anew after the Go. Both hypotheses are needed: with
  two copies section 6 has the counterexample, and a tab that is frozen after the renewal
  presses when it wakes, though its lease has lapsed and another tab has pressed meanwhile.
- `TargetsKeepTheirForm`: the types of AgentTarget, frozen tabs and copies included.
- `LocksStayOwned`: `Spec => []LocksAreOwned`, `HiddenStays`: `Spec => []HiddenIsNotPicked`,
  `LiveTypes`: `Spec => []TypeOK`, and, without the part `frozen`, `DoneIsDone`:
  `Spec => []DoneStaysDone`, where Spec is MCLive's.

Only model-checked, and why:

- Liveness, `StopIsObeyed`, `ServicesSettle`, `PageSettles`, `LiveSettles`: fairness and
  ENABLED are beyond the prover.
- `RequestsAreSound` of AgentLoop where a provider repeats ids: it is false there (above).
- The invariants of MCPage (`TypeOK`, `AnswersKeepToTheirOwn`, `PageIsTrue`, `WorkIsKept`) and,
  of MCLive, `StepsAreHonest` (action properties, each about several handlers at once): sequential
  programs of many steps with asynchronous answers, whose inductive invariants are still to be
  found; and `OneBackend`, `DropsItsOwn` where a foreign program may sit on a port.
- The statements that are false with stops or with continuations (above), where the runs
  leave out what refutes them, and the refinement beyond those bounds.

## 6. Disagreements between the code and what it says

Each of these statements is a sentence of the repository; the code does not keep it, and TLC
finds a run that shows it. The statement is a property of the component's module, the bounds
that suffice are given in brackets (a set of `Mishaps`, `Uses` or `Ops` names the troubles or
the controls that are allowed); to see the trace, instantiate the module with them and check
the property. The first one is the run `taskruns_two_graphs`.

**Rounds and their memory.**

- `OneGraph` (TaskRuns; TM:1565 [Clients {c1, c2}, Workers {w1, w2}, Ops StopContinueOps]).
  resume and _continue release self._lock with the record RUNNING and only then put the new
  thread into self._threads; a stop in between flips the record to INTERRUPTED, so a second
  continuation finds an admissible record and no live thread, and two workers run graphs on
  one thread_id. The docstrings say "two concurrent resumes can never both spawn workers on
  one thread_id" (TM:1511-1512) and "two concurrent senders can never both spawn a worker on
  one thread_id" (TM:1792-1794).
- `NoFlagAtRest` (TaskRuns; TM:1256 [Clients {c1}, Workers {w1}, Ops StopOps]). stop reads the
  record, then sets self._stop_flags without the lock and without looking again; when the
  worker's finally has popped the flag in between, the flag stays on a parked task and the
  next continuation is aborted at its first node. The docstring says the flag "is set ONLY
  when the run is still live" because otherwise it "would otherwise poison the next
  continuation" (TM:1240-1243).
- `NoSilentPark` (TaskRuns; TM:1219 [Clients {c1, c2}, Workers {w1}, Ops StopContinueOps,
  CountEvents on]). The worker's finally removes its thread (TM:1216) before it discards the
  announcement claim (1219). A continuation admitted in between, and stopped at once, finds
  the old claim: stop stays quiet (1266), and the new worker, whose flip is undone, ends
  without an event, so the stream shows a running task that is parked. The docstring says
  "every other park publishes it here — one event per stop, whichever caused it"
  (TM:1389-1390).
- `RequestsWellPaired` (AgentLoop; backend/core/agent/nodes.py:589 [Ids TwoIds, MayReuse on,
  MaxSteps 2, KeepRecents Keeps, MaxCalls 1, MaxInvokes 2]). The sweep collects `answered'
  over the whole conversation by tool_call_id, so a dangling call whose id was already
  answered in an earlier turn gets no reply and the next request is malformed. The docstring
  says "Answer every tool call that never got an answer (issue #46)"
  (backend/core/agent/nodes.py:566). Ids are the provider's (backend/core/agent/nodes.py:505);
  the repository's own scripted client repeats them in every response
  (backend/core/llm/client.py:203).
- `SaidIsHeard` (RoundMemory; TM:1834 [Texts TwoTexts, Answers OneAnswer, MaxSteps 2, MayLock
  on, MaxSaid 2, MaxRounds 3, MaxEdits 1, MaxTroubles 1]). _continue puts the message into the
  record before its worker starts; when the worker then finds its flip undone by a stop, or
  fails before graph.invoke, the message never enters the checkpoint and no later resume or
  message adds it: the ledger shows a message the model never gets. send_message's docstring
  says "the next message resumes the SAME conversation (thread_id and checkpoint included)"
  (TM:1700-1702), and the worker's comment "the conversation keeps growing instead of being
  replayed or reset" (TM:1887-1889).
- `StoppedViewSettles` (LiveView; FE/pages/TaskView.tsx:220 [BufferSize 2, QueueMax 2,
  MaxSteps 2, MaxCalls 1, MaxConnects 2, MaxGets 2]). After a stop the tab fetches the record
  when task_interrupted arrives, which stop publishes before the worker has settled the round;
  when the worker then settles, its park is not announced (one event per stop) and the view,
  already INTERRUPTED, is not fetched again: it lacks the round's steps and turns until the
  task is selected anew. The comment says "A round just parked: pull the authoritative record
  (conversation, plan, steps)" (FE/pages/TaskView.tsx:213-214).

**Launchers and trace.**

- `NobodyIsRobbed` (ServerLock; backend/server_lock.py:111 [Launchers {l1, l2, l3}, Ports {p1,
  p2}, PortOf TwoPorts, Troubles {"crash"}]). release_lock compares the record it has read
  with the instance and unlinks the path afterwards: when two launchers find the record of a
  dead process, the slower one removes the fresh record of the faster one, whose backend runs
  on unlisted, and may claim beside it. The docstring says "Remove the record only when it
  still belongs to ``instance``." (backend/server_lock.py:109)
- `OneWriter` (ServerLock; start.py:113 [Launchers {l1, l2, l3}, Dev {l3}, Ports {p1, p2},
  PortOf TwoPorts]). start.py spawns uvicorn, which loads and writes data/, and claims the
  record only afterwards, terminating the backend when the claim is lost: two backends write
  data/ for a moment. Its message says "开发后台不能和它同时写 data/。" (start.py:59)
- `NoLineTwice` (Trace; backend/services/trace.py:169 [MaxRounds 2]). close pops the
  registration under the lock and unsubscribes after it; a round accepted between the two
  subscribes a second callback, and the event published then is written once by each. attach
  promises "no callback outlives the closed era" (backend/services/trace.py:74) and close that
  "a leaked callback would double-write into the next era's trace (#213)"
  (backend/services/trace.py:166-167).
- `BoundaryCaptured` (Trace; TM:1215 [MaxRounds 2]). run's finally clause leaves _threads
  before it closes the trace. A resume accepted in between finds the trace attached, the
  worker then closes it, and neither task_resumed nor anything else of the resumed round is
  recorded. The module says "Resume/continue reattach *before* ``task_resumed`` is published,
  so that boundary event is captured" (backend/services/trace.py:8-9).
- `EraCloses` (Trace; TM:1026 [MaxRounds 1]). create_task attaches the trace after
  the record is stored and outside the manager's lock: when the task is stopped and deleted in
  between, its worker returns before the try and the file handle and the callback stay. The
  finally clause says "always close the trace (success / failure / interrupt)" (TM:1221).

**The model store, sub-agents, processes and MCP.**

- `CacheIsFresh` (ModelStore; TM:885 [Providers {d, p}, Default d, Models {m, n}, Profiles {},
  MaxStamp 2, Troubles {"save"}]). A mutation changes the memory, saves and then drops the cached
  clients. A save that fails raises before the clients are dropped and leaves the memory changed:
  the catalog has the new address, the cached client the old one. "Model mutations go through the
  manager so the client cache cannot keep serving an old address / key." (TM:833-834)
- `SecretsHaveOwner` (ModelStore; backend/services/model_store.py:940 [the same]). A provider
  whose save has failed stays in memory; a key pasted for it afterwards goes to credentials.json,
  keyed by an id models.json does not have. "a credentials failure must not leave an orphaned
  secret keyed by an id the store never accepted" (backend/services/model_store.py:935-937): the
  order guards against a failure of the keys, and a failure of the save has the same outcome.
- `RollbackHolds` (ModelStore; backend/services/model_store.py:460 [Providers {d, p}, Default d,
  Models {m, n}, Profiles {p}, MaxStamp 1, Troubles {"torn"}]). A backup that breaks off half
  written leaves a file; the next attempt finds that it exists, takes it for the backup and
  writes v2 over the v1 file. "Rewrite the v1 file as v2 only after a backup exists
  (fail-closed)." (backend/services/model_store.py:428)
- `PinAgrees` (ModelStore; TM:762 [Providers {d, p}, Default d, Models {m, n}, Profiles {},
  MaxStamp 1, Troubles {}]). _pin_round_model takes the client of the task's model and then reads
  the record once more for the id; a set_model in between pins the id of one model with the
  client of another. "Fix this round's client; a subagent must not re-read the task record."
  (TM:761)
- `NoModelLeaks` (Workers; backend/core/agent/subagent.py:364 [Parents {a}, Slots 1, MaxSubs 1,
  MaxSteps 1, MaxSwitches 1]). A sub-task that was given up before it read the pin finds none
  when its parent's round has ended, and takes the task's model, which a switch made during that
  round has changed. "a switch made while the parent is running must not leak into a child spawned
  by that round." (backend/core/agent/subagent.py:362-363) A second way needs no sub-task that was
  given up: the worker's finally removes its registration (TM:1216) before the stop flag and the pin
  (1217, 1218); a round that begins in between has its own pin popped by the old worker, and a
  switch reaches a sub-task it spawns and waits for. `RoundsModel`, which is checked, excuses the
  rounds that have lost their pin like that (`robbed`); without the excuse TLC gives this run.
- `StoppedIsDead` (Background; TM:1247 [MaxCalls 1, MaxRounds 1, MaxStops 1]). stop kills what is
  on the list and raises the flag afterwards; a call that has seen no flag registers its tree
  after the kill, and when the round's teardown pops the flag before the reaper has looked, the
  tree runs on under a stopped task. kill_background is "Called by ``TaskManager.stop`` so a
  parked task's background processes are reaped too" (backend/core/tools/bash.py:442-443).
- `NoChildSurvives` (McpSession; backend/core/mcp/client.py:412 [Troubles {}, MaxCalls 2]). A
  session whose tools cannot be listed, or whose start has timed out after the thread had decided
  to go on, is neither registered nor closed: cleanup does not know it and its child runs on.
  "so no MCP child process survives the app" (backend/core/mcp/client.py:15-16)
- `FailedStartEnds` (McpSession; backend/core/mcp/client.py:148 [Troubles {"exit"}, MaxCalls 2]).
  _abort closes the session and then the transport in one try: an exit of the session that raises
  skips the transport, and the child is left. It is there "so a failed connect never leaks a stdio
  child process." (backend/core/mcp/client.py:142-143)

**The page.**

- `NotesBelong` (Composer; FE/hooks/useComposerSend.ts:83 [Old {t1, t2}, Texts {"a"}, Models
  {modelA}, Uses {"send", "fail"}, MaxCalls 1]). An answer sets the error or the note of whatever
  task is shown when it arrives; the effect that clears them has run before. "A server reason
  belongs to the task that produced it; switching tasks must not carry "操作失败" into the next
  conversation." (FE/components/center/Composer.tsx:88-89)
- `OneSwitch` (Composer; FE/components/center/Composer.tsx:97 [Old {t1, t2}, Texts {"a"},
  Models {modelA}, Uses {"custom"}, MaxCalls 2]). Switching tasks resets applyingCustom while the
  call is still under way, so coming back allows a second one. "One in-flight switch at a
  time: a double click (or Enter held) would otherwise POST twice"
  (FE/components/center/Composer.tsx:126-127)
- `AddedFromItsHost` (Settings; FE/components/settings/ProviderCard.tsx:217 [Models {a, b},
  Uses {"discover", "pick", "save"}, MaxCalls 4]). addPicked posts the chosen candidates one
  after the other and never looks whether the configuration has changed: an edit of the
  provider meanwhile makes the rest go into the new host. "a stale discovery preview must not
  be \"加入目录\"'d into the new host" (FE/components/settings/ProviderCard.tsx:74-75)
- `NoteBelongs` (Settings; FE/components/settings/ProviderCard.tsx:147 [Models {a}, Uses
  {"test", "add", "save"}, MaxCalls 4]). An answer sets the note of the card without looking
  at the configuration it was asked under; the effect that clears it has run before.
  "temporary card state (preview, armed deletes, add form, messages) belongs to this provider
  *configuration*" (FE/components/settings/ProviderCard.tsx:71-72)
- `TypingIsKept` (Settings; FE/components/settings/ProviderDialog.tsx:143 [Models {a}, Uses
  {"save", "create"}, MaxCalls 3]). A save goes on after its dialog was dismissed, and the end
  of its refresh closes whatever dialog is open by then. "a store refresh while the dialog is
  open must not discard what the user is typing"
  (FE/components/settings/ProviderDialog.tsx:85-86)
- `PaneCatchesUp` (PlanEdit; FE/components/dash/PlanPane.tsx:157 [Tasks {t1}, Uses
  {"elsewhere"}, MaxTexts 2, MaxSaves 1]). shouldReloadOnPlanVersion(synced, current) is
  called with the version of the store first and the synced one second, so the pane never
  reads a plan the store knows a newer version of. "A store-side version ahead of it means an
  external change needs one refetch." (FE/components/dash/PlanPane.tsx:75-76)
- `VersionsOnlyGrow` (PlanEdit; FE/components/dash/PlanPane.tsx:88 [Tasks {t1, t2}, Uses
  {"edit", "elsewhere"}, MaxTexts 2, MaxSaves 1]). applyVersion takes the maximum of the answer's
  version and of the version of the task that is shown by then, and stores it for the task that was
  saved (FE/store/taskStore.ts:133-142): when a snapshot has moved the saved task on and another
  one is selected before the answer comes, the version of the first falls. "plan versions only ever
  grow" and a response "must not walk a real version back" (FE/components/dash/PlanPane.tsx:82-86).
  `VersionNeverBack`, which is checked for two tasks as well, excuses exactly the step that takes
  such an answer (`AnsweredElsewhere`).
- `VersionIsItsOwn` (PlanEdit; FE/components/dash/PlanPane.tsx:88 [Tasks {t1, t2}, Uses
  {"edit", "elsewhere"}, MaxTexts 3, MaxSaves 2]). applyVersion merges with the version of the
  task that is shown when the answer arrives, and a conflict found for one task can be taken
  over on another: a version goes to a task whose plan never had it. "a saved plan version
  must reach the store, or PlanAnchor keeps showing the stale one and the next write starts
  from the wrong version" (FE/components/dash/PlanPane.tsx:61-62)
- `OverwriteIsChosen` (PlanEdit; FE/components/dash/PlanPane.tsx:214 [Tasks {t1, t2}, Uses
  {"edit", "elsewhere"}, MaxTexts 3, MaxSaves 3]). A save that finds a conflict sets it in a
  pane that shows another task by then, whose overwrite button saves what that pane holds over
  that task's plan, unread. "without a fresh read there is no proof the file still matches,
  and an empty editor must never reach the disk" (FE/components/dash/PlanPane.tsx:204-205)
- `SelectionGoesToo` (Rail; FE/store/taskStore.ts:157 [Tasks {1, 2}, Dirs {a}, Home MCHome,
  Begin {1}, Limit 1, MaxReads 3, MaxDeletes 1]). removeWorkspaceTasks looks for the tasks of
  the directory among the rows and the snapshots held; a selected task that is in neither (its
  row has left the list, its snapshot has not come or has failed) stays selected. "a selected
  task can slide out of the 50-row list while its snapshot (and selection) stays in memory,
  and it must not survive its directory's delete" (FE/store/taskStore.ts:150-152)
- `FocusEnters` (Drawer; FE/hooks/useDrawerFocus.ts:75). On opening, the first effect calls
  first.focus() while the panel still carries the inert mark of a closed drawer (the second
  effect, lines 133-137, withdraws it only afterwards), and focusing an inert element does
  nothing: the focus stays outside. docs/frontend-design.md:152 says: "窄于 860
  打开左抽屉：开关出现，打开后焦点落在抽屉内首个可聚焦元素（关闭按钮）；右抽屉窄于 1180 同理。"
- `FocusKept` (Drawer; FE/hooks/useDrawerFocus.ts:122). The replay opened from the right
  drawer closes it; the toggle that opened the drawer is unmounted with the conversation
  (TaskView.tsx:348), so trigger.isConnected is false and nothing gets the focus.
  docs/frontend-design.md:161 says: "仅用 Tab / Shift+Tab / Esc 完成「开 → 用 → 关」全流程，焦点不丢。"
- `BackgroundIsInert` (Drawer; FE/pages/TaskView.tsx:78). Between 860 and 1180 pixels the rail
  is static, railInert is false, and the edge written last (useDrawerFocus.ts:136) takes back
  the inert mark the open right drawer had just given it as a target (useDrawerFocus.ts:135).
  docs/frontend-design.md:155 says: "抽屉打开时背景（对话列、另一侧栏、跳转链接）Tab 不可达（inert）。"
- `HiddenTabsAskNothing` (Dash; FE/components/dash/FilePreviewTab.tsx:36 [Tasks {t1, t2},
  Paths {pathA}, MaxCalls 1]). When the selected task changes, the load effect of every
  preview that has loaded once runs again with the new taskId (line 56) before TaskView's own
  effect closes the previews (TaskView.tsx:234-242): hidden tabs ask for the old paths in the
  new task. docs/frontend-design.md:87 says: "预览首次被激活且右栏可见时才取数（隐藏页签不发请求）。"

**The live browser.**

- `CyclingHasSession` (LiveSession; LB:9525 [Sessions {s1}, Count 1, Hmr on, MaxPresses 2]).
  The catch of handleAccept sets CYCLING whatever happened meanwhile: after a discard of the
  same session was answered there is no session, Accept and Discard return at once (lines
  9484, 9730) and Pick does not leave CYCLING, yet the toast of line 9528 says: "Could not
  confirm accept with the live server. Session kept for recovery; try Accept again."
- `LateErrorIsHarmless` (LiveSession; LB:8016 [Sessions {s1, s2}, Count 1, Hmr on, MaxPresses
  1]). handleGo drops awaitingAcceptResult because (LB:8536-8537) "A new session supersedes
  any accept still awaiting its result; a late failure toast for the previous session would
  only mislead here"; without it the error of the earlier session falls through to the last
  branch, which shows the toast, hides the bar and sets PICKING over the session that is
  generating.
- `HandledWasEnded` (LiveSession; LB:9733 [Sessions {s1, s2}, Count 1, Hmr on, MaxPresses 2]).
  The answer to a discard calls markSessionHandled and cleanup for whatever session is current
  by then: a session opened meanwhile is dropped and marked handled. LB:10024 says: "Mark
  session as handled (accepted/discarded). The agent will clean up the source"; here the agent
  goes on with it.
- `OwnGoIsKept` (LiveSession; LB:9921 [Sessions {s1}, Count 1, Hmr on, MaxDrops 1, Mishaps
  {"annotated"}]). A reconnect restores the cached session and queues a checkpoint although
  its generate is still being captured: the gate is open, the helper refuses it as unknown and
  the tab clears its own Go as foreign. LB:8061-8062 says unknown_session "must mean 'foreign
  leftovers', not 'you raced your own Go click'. The gate serializes creation before
  progress."
- `MountedIsCycling` (LiveSession; LB:7332 [Sessions {s1}, Count 1, Hmr on, MaxDrops 1,
  MaxHides 1]). A reconnect while the wrapper is unmounted restores GENERATING with the saved
  count of variants; when the wrapper is mounted the observer sees nothing new (count <=
  arrivedVariants) and the bar stays at generating. LB:7935-7937 says: "The variant
  MutationObserver stays armed and auto-transitions to CYCLING the moment the wrapper actually
  mounts."
- `LockedIsApplying` (ManualEdits; LB:7830 [Els {e1}, MaxPresses 2, MaxDrops 1]). The stream's
  connect asks for no count and no apply state, so a commit_done or commit_failed lost with
  the stream leaves pendingApplyInFlight set and every control locked. LB:4590-4593 orders the
  flag before the counter because the other order "would otherwise leave the picker frozen
  forever after a partial/failed apply."
- `DecisionIsOffered` (ManualEdits; LB:4362 [Els {e1, e2}, MaxPresses 3, Mishaps
  {"decision"}]). While a repair waits for a decision its state is stored, so the next
  updatePendingCounter takes it for an apply to resume: setPendingApplyLoading hides Keep
  fixing and Rollback and locks the tab while the helper waits. The comment at LB:4590-4593
  names this outcome as the one to avoid: it "would otherwise leave the picker frozen
  forever".
- `StagedCanBeApplied` (ManualEdits; LB:4518 [Els {e1}, MaxPresses 3, Mishaps {"decision"}]).
  showManualApplyDecision disables the Apply button (line 4471) and the rollback's answer only
  updates the counter, which never enables it. The toast at LB:4519 says "Rolled back source;
  edits are still staged.", but they can no longer be applied.
- `EditingCanBeSaved` (ManualEdits; LB:4281 [Els {e1}, MaxPresses 3]). Apply can be pressed
  while a text is edited: the badge turns idle-disabled and is only made idle again in
  CONFIGURING, so Save and Cancel do not come back. The chips go on saying (LB:5042) "is
  disabled while the current edit is applying" when nothing is.
- `StagedIsShown` (ManualEdits; LB:4075 [Els {e1}, MaxPresses 2]). Cancel during a save
  restores the old text, and the save's answer keeps the edit staged: Apply writes a text the
  page no longer shows. LB:8417-8419 guards the draft map because otherwise "Apply would
  commit changes the user explicitly undid."
- `GeneratingIsShown` (ManualEdits; LB:4078 [Els {e1}, MaxPresses 2, MaxGos 1]). The answers
  to a save and to a removal set CONFIGURING or PICKING without looking at the state they
  find: a Go pressed meanwhile loses its generating bar. LB:8595-8597 keeps manual edits and
  generation apart because "starting a manual text edit mid-generation would conflict with the
  variant wrap that's about to land in the same DOM region."
- `LockIsItsOwn` (Steer; LB:11526 [Ids {i1, i2}, Msgs {m1, m2}, Mishaps {"fail"}]). The
  failure of a steer's POST unlocks whatever is locked, without the look at steerRequestId the
  timer takes (line 11183): a message sent meanwhile loses its lock, its timer and its reply,
  and the older text is put back in its place. reference/live.md:295 says that "the Steer bar
  unlocks on `steer_done` or `error`."
- `ToldIsTrue` (Steer; LB:11199 [Ids {i1}, Msgs {m1}]). While the agent works on the steer it
  does not poll, and after two minutes the tab says "No agent is polling right now. Run
  live-poll.mjs, then send it again." The comment at LB:11190-11194 says that "Naming the
  wrong one sends the user to restart a poll loop that was never the problem."
- `SessionIsKept` (AgentTarget; LB:7763 [Tabs {x1}, Targets {t1}, Copies {0}, MaxFaults 1,
  Mishaps {"user"}]). After the scroll and the renewal the tab picks the element and presses
  Go without asking agentTargetBusyReason again: a session the user started meanwhile is
  replaced. LB:7562-7565 wants a busy tab never to be claimed, or "the second Go would
  overwrite the session the first one minted."
- `OneGo` (AgentTarget; LB:7614 [Tabs {x1}, Targets {t1}, Copies {0, 1}, MaxFaults 1, Mishaps
  {"drop"}]). A replayed target is refused only when acting or done; between the first hearing
  and the answer of its claim a second chain starts, and the helper renews the lease for both:
  Go is pressed twice. LB:7755-7757 renews "so one request never gets two Go presses."
- `VerdictIsFresh` (AgentTarget; LB:7759 [Tabs {x1, x2}, Targets {t1, t2}, Copies {0},
  MaxFaults 1, Mishaps {"slow"}]). Declined targets are only claimed again by setLiveState and
  by the end of an apply: a tab that stands down from a target goes idle without either, and
  its busy report stands. LB:7575-7579 says that "a busy verdict is never built on a tab that
  has since gone idle."

## 7. What the models say besides

Reachable in a model, against no sentence of the repository:

- A stop whose `_claim_interrupt` comes after the worker's teardown dropped the claim
  announces the same park a second time, and leaves a claim that silences the next one.
- A stop that saves a record which delete_task has removed lists it again. So
  `ImplementsRoundSlot` is checked and proved without stops.
- A plan file that is locked while a round is seeded lets the round go on from the
  checkpoint's older version; the record's version falls when the round settles, although
  reduceTask.ts 195 relies on it growing. `VersionNames` excuses exactly those rounds
  (`blind`).
- After a crash in the tool node a call that did run is swept like one that did not, and
  the model is told "interrupted before execution".
- A tab's snapshot that was asked for in one round and is answered in the next can set the
  status back; an event that the outbox dropped is not announced to the tab. `ViewSettles`
  excuses these (`excuse`: "late", "missed"), and a graph that raised: then the record itself
  keeps the steps of the round before. Excused as "late" is also a tab whose answer to the first
  fetch of a task arrives when the round has been parked and continued: prevStatusRef then holds the
  parked status while the view runs on, and the next park of the same status is not noticed. A replay
  that begins behind task_resumed, which the bounded buffer has pushed out, and is cut off after
  task_interrupted is one more way to miss a park ("missed").

- The reaper may terminate an entry that kill_background has terminated before it: the process
  group's number may belong to somebody else by then.
- A models.json that cannot be read for an OSError is seeded over, although `_quarantine` is there
  to move an unreadable file aside "instead of overwriting it"; credentials that cannot be read
  count as none, and the next key written replaces them
  (backend/services/model_store.py:266-270, 1239-1243).

## 8. What is not modelled, and why

The backend:

- Several tasks at a time: tasks share only the lock, the dump of tasks.json
  (`NeighbourSave`) and the list; every map is keyed by task.
- TaskRuns: legacy records, workspace checks, the plan precheck (it refuses a claim before
  anything is changed), model pins beyond their entry in the map.
- AgentLoop: prompts, texts, redaction, token counts, eviction of large outputs, the
  sub-task ledger; the plan mode's text (RoundMemory has its control).
- RoundMemory: set_mode, records without a ledger, the markdown of a plan.
- LiveView: one stream and one tab, one request at a time; answers arrive in the order
  they were asked for; a GET does not fail; the React effect runs right after the store's
  update, and its second trigger, a changed final answer, only repeats it; what events
  change inside a step.
- Trace: the lines' contents; the reader of a trace.
- ServerLock: what a health check answers beyond "it is this instance".
- ModelStore: validation, quarantine of unreadable files, keys from the environment,
  discovery, redaction; a failing save of the task's record in set_task_model. A change of the
  memory is one step (`Change`): a delete removes the provider, its entries and the default one
  dict after the other (backend/services/model_store.py:847-850), and a reader that takes no lock may
  see it half done.
- Workers: tiers, prompts and summaries; a round that waits for several sub-tasks at a time.
- Background: Windows jobs, pipes and output; several tasks on one list; a deletion.
- McpSession: configurations, several servers, the SDK's own steps.
- Routes, adapters, tools, policy, prompts, login, CLI arguments: sequential and stateless
  around the parts above, or external services.

The page:

- Composer: the fetch that follows a switch of mode or model is part of its answer
  (`Switched`); texts, sizes and shortcuts are left out.
- PlanEdit: unmounting by a change of tab; the two reads of get_plan, which take no lock.
  `PlanIsItsOwn` is asked where no plan is edited (part `plans`): with edits it fails for the
  reason `VersionIsItsOwn` gives.
- Rail: the search box, notes and texts, the revision an event bumps, the retry of a failed
  snapshot.
- WorkspaceDialog: the tokens of the request gate (a call is current or is not).
- Dash: filter, expansion and export of the trace, the event pane, preview texts, the focus
  of tabs.
- Views that keep no state of their own, and styles.

The live browser script:

- LiveSession: a queued checkpoint names the session it was queued for; the clean-up that runs
  in a microtask is part of the step that queues it. Left out: previews of Svelte and Vue,
  insert mode, the recovery of a lost anchor, the refusal of an agent's target, the reload for
  a missing snapshot, stale answers of a dev server, other tabs. `FinishedIsShown` is asked
  without wrappers that are unmounted (`MountedIsCycling` says why). That a steer's POST
  overwrites sessionCreationGate is not modelled.
- ManualEdits: the 15 minutes after which an apply's saved state expires, counts and labels of
  the progress; identical requests count as one.
- Steer: the state EDITING, touch, the focus that follows a selection, the 60 ms before the
  prompt is focused; a generation ends directly in PICKING; the status poll stands for the
  message agent_polling.
- AgentTarget: busy reports arrive in the order a tab sends them; failing fetches and their
  20 retries, selectors and ambiguous ones; `Copies` bounds the parallel chains of one target;
  a lease lapses only while a tab scrolls ("slow"), a tab may freeze at any time ("frozen").
- Geometry, drawing, styles, dragging, the annotation canvas, colour and font pickers: more
  than half of the script, sequential and without a protocol.

## 9. Plan

Done: everything in section 2. What is left: the inductive invariants that are still to be
found, one part at a time: the parts of MCPage and the action properties of `StepsAreHonest`.
