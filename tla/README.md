# Design Studio: TLA+ models, model checking and proofs

This directory holds TLA+ specifications of Design Studio, the TLC
configurations that check them on small instances, and proofs that TLAPS checks
for every value of the constants. The specifications are written from the code
under `src/`; `PROJECT.json` maps every definition to the lines it models.

Contents

1. Inventory of the system
2. Modules, and how they correspond to the code
3. Runs, bounds and what they show
4. Fairness
5. Proofs
6. Findings
7. What is only model-checked, and what is not modelled
8. Plan

## 1. Inventory of the system

Design Studio is a desktop product-engineering environment. A Qt shell embeds
FreeCAD and a C++ PCB engine; a local Rust daemon owns product semantics; Python
services bridge to language models, solvers and GPU hosts.

### designstudio-agentd (`services/designstudio-agentd`, Rust)

The control plane. One process serves newline-delimited JSON-RPC requests, one
at a time, over stdin/stdout or a Unix socket (every connection gets a fresh
`ControlPlane`). *State*: the open workspace (manifest, product graph) and a
`PersistedState` with configurations, selections, jobs, evidence, branches,
integration sandboxes, agent tasks, product intents, work-package graphs,
workflow runs and interaction maps. The state lives in memory and, after every
mutating request, in `.designstudio/state.json` (replaced by write, sync and
rename) followed by a line appended to `.designstudio/events.jsonl`.
Configurations are also written once to `configurations/<id>.json`.

| part | operations | hard because | correct when |
|---|---|---|---|
| store | `persist`, `atomic_json`, `write_configuration`, `project_open`, `project_create`, `application_apply` | memory is updated before the write that may fail; the process can die between snapshot, state file and event line; two daemons may open one workspace | answered changes survive, sequence numbers in the log increase, a reopened workspace is one some prefix of the requests produced |
| workflow | `product_compile`, `workflow_approve/start/resume/cancel/read` | several effects in one request (persist, engine, result file, persist), source files change meanwhile | packages finish once, in order, within budget, after approval; results match checkpoints |
| configurations | `variant_equip`, `configuration_save`, `configuration_commit`, `selection_update` | snapshots are immutable, heads and ancestry are graph properties | parents never change, every configuration descends from the baseline |
| integration | `branch_*`, `integration_*` | heads advance between creation, evaluation and approval | only evaluated, evidenced and unconflicted heads are approved, never by an author |
| agent tasks and jobs | `agent_*`, `analysis_*`, `generation_*`, `job_cancel` | recoveries, cancels and progress interleave | budgets are ceilings, terminal states are final, at most three recoveries |
| evidence and release | `propagation_run`, `evidence_read`, `release_evaluate`, `load_evidence` | evidence is in memory, in the state file and in directories, and each reader uses another of them | a failed gate blocks the release until it is superseded |

### Qt application (`app/QtDesignStudio`, C++)

`AgentdClient` supervises the daemon (start, restart with a bounded retry budget,
request ids, pending map); `CodexAppServerClient` supervises the Codex app server
and its thread and turn protocol; `SupportJobClient` submits and polls gateway
jobs; `ProjectModel` loads and saves the PCB document whole, with a digest and a
revision; `InteractivePlacementModel` previews placements; panels render. *Hard*:
timers and process signals race with requests; answers arrive for requests that
were given up; waiting for a process to end delivers signals in the middle of a
handler. *Correct when* the client is ready only on the workspace and revision it
resolved, a request never reaches another workspace, restarts are bounded, and
no request and no state lasts for ever; a prompt reaches the app server once, works on
the product that is open, and can be stopped.

### PCB engine (`core`, C++20, with a C API)

Board model, design-rule check, autorouter, interactive router, copper pour,
obstacle index, mechanical and physics solvers. The interactive router is a
transaction (begin, move, place via, commit, cancel) over copies of the board; the
canvas shows its previews and applies the committed one to the document. *Hard*: a failing step in the middle of a transaction, a preview that
differs from the committed route, an incremental index that drifts from the
board. *Correct when* only commit changes the board, what is committed is what was
shown, and it has no rule violation.

### Native FreeCAD tools and redesigns (`modules/DesignStudioGui`, `freecad/DesignStudioWorkbench`)

A tool that changes a product workspace runs in a worker process on a copy of it
and publishes the changed files under a journal; the host inside FreeCAD starts it,
terminates or kills it, and has the journal acknowledged or rolled back by further
processes. Local redesigns put a candidate beside a part of a document (preview),
give it the part's identity (commit), and give the identity back (roll back).
*State*: the workspace files, backups and journal; the objects of a document with
their identities, and the receipts of previews and commits. *Hard*: a process
dies, or the user saves, between any two file operations; receipts are used after
other redesigns of the same document. *Correct when* the workspace is always at
one revision and the host says which, and each part is one object whose baseline
is kept.

### AI gateway and solver services (`services/ai-gateway`, `services/hunyuan3d-shape`, Python)

HTTP gateway with structured proposals, token accounting, a support-optimisation
job store (in memory, with idempotency keys and a remote worker), a
reference-form job store (mock runs only), and solver workers. *Hard*: an
answer of the worker races with cancel, a repeated submission finds a job that
was cancelled, jobs are lost at restart. *Correct when* a cancelled job never
completes, one idempotency key yields one job, and every job ends.

### GPU services and campaigns (`cloud/*`, Python and shell)

`hunyuan-omni-amd` is a generation service: a pool of worker threads, request
handlers that cancel and delete, and one directory per job as the only store.
`eight-mi300x-campaign` is a scheduler: one asyncio lane per GPU claims jobs in
configuration order, starts their commands, checks outputs, retries, saves
`state.json`, and is resumed after its own death; gates and job programs
around it run once. `support-optimizer-amd` answers one stateless request.
`single-gpu-product-batch` and the MI300X stacks are sequential scripts and
container configuration. *Hard*: threads and handlers race for one status file;
the controller dies while its commands go on; clocks and attempts over
resumptions. *Correct when* a cancelled job stays cancelled, a succeeded one is
complete, jobs run after what they need, one command runs on a GPU, finished
work is kept and every campaign ends.

### Product memory and agents (`swarm`, Python)

The design harness runs a build through phases with a budget of model calls,
checkpoints each, and keeps its outcome as a case that later builds reuse. The
engineering graph walks a product through synthesis, checks, repair and
publication as patches of one state. Incremental design keeps the electrical
reports of a schematic current under edits. Components are extracted from
datasheets into files, queued for review in SQLite and published into a library.
The Anti-Gravity task queue is a SQLite table (claim, complete, fail with three
retries at 30, 120 and 600 seconds, and blockers); the update installer swaps
directories; release gate, signing, product compilers, agents, MCP servers, CAM
export and renders are calls that keep nothing. *Hard*: reports of agents that are
late, repeated or never come; files that change behind a row that was reviewed;
a crash between a note in the memory and the checkpoint; findings of an earlier
round; an update interrupted between two renames. *Correct when* one task is
worked on by one agent and is started no more often than it may be, a build that
ends complete was verified, only what passed is published, reports are those of
a full analysis, and there is always a whole product.

### Earlier client (`app/DesignStudio`, C#, WPF)

A board editor on one thread. *State*: the document (parts, copper, nets), an undo
stack of closures, a native board that is rebuilt from the document when it is
stale, the project file and its autosave. Operations: place, drag, rotate, delete,
route by hand with shoving, by the engine, as a pair or all at once, tune, pour, take over
a schematic or advice, undo, save, open. *Hard*: a drag is many events and others
come between; closures are pushed after the change they undo, one on another;
the native board and the title bar know only of changes that were announced. *Correct
when* undoing everything restores the board that was opened, the engine sees what is
on the screen, and what is left without a question is on disk.

### Others

The rest of `freecad/DesignStudioWorkbench` (commands and geometry),
`tools` (conversion and
audit scripts), `web/mechanical-viewer` (static viewer), `testdata`, `evidence`,
`acceptance`, `third_party` (data).

## 2. Modules, and how they correspond to the code

| module | models | extends / composes |
|---|---|---|
| `PackageLedger` | what the workflow promises: approval frozen once work is done, packages finished in dependency order, each charged once, within the allocation | abstract |
| `Workflow` | the work-package workflow of the daemon | refines `PackageLedger` |
| `Store` | workspace files: creation, memory, `state.json`, `events.jsonl`, snapshots | |
| `Integration` | configurations, branches, integration sandboxes, approvals | |
| `Release` | evidence records, propagation runs, the release verdict | |
| `AgentdClient` | the Qt supervisor together with the daemon it talks to | |
| `Campaign` | the scheduler of campaigns and its commands | |
| `GenerationService` | job store, worker pool, cancel, delete, restart | |
| `TaskQueue` | the Anti-Gravity queue, its events, agents that report late or vanish | |
| `Harness` | builds of the design harness, checkpoints, the design memory | |
| `SupportJobs` | desktop, gateway, background task and FreeCAD around one support structure | |
| `WorkspaceRevision` | what native tools promise of a workspace: one revision, changed as a whole | abstract |
| `NativeWorker` | one process of `native_tool_worker.py`, with its journal, backups and copy | |
| `NativeTool` | the host of a native tool, its worker, and a worker that outlived its host | extends `NativeWorker`, and an instance of it; refines `WorkspaceRevision` |
| `LocalRedesign` | previews, commits and roll backs over the objects of a document | |
| `EngineeringGraph` | the nodes of an engineering run and the state they patch | |
| `IncrementalDesign` | edits of a schematic and the reports they recompute | |
| `ComponentPublication` | extraction, review queue and publication of one part | |
| `Installer` | `install_update` over directories | |
| `BoardEditor` | the earlier client's board: document, undo stack, native board, drags, project and autosave | |
| `CodexChat` | the design assistant: panel, supervisor of the Codex app server, the window's tools | |
| `InteractiveRoute` | a route drawn with the mouse: session, board handle, canvas and document | |
| `AgentTasks` | tasks of agents and jobs: budgets, recoveries, cancellation, over failed writes and reopenings | |
| `AutoRoute` | the automatic router: greedy pass, rip-up, and the window that adds the result to the document | |
| `Services` | `TaskQueue`, `Harness`, `SupportJobs`, `GenerationService` and `CodexChat` side by side | extends the five |
| `Engines` | `Integration`, `Release`, `Store`, `AgentTasks`, `InteractiveRoute` and `AutoRoute` side by side | extends the six |
| `Workbench` | the seven tools from `NativeTool` to `BoardEditor`, side by side | extends the seven |
| `WorkflowMC`, `IntegrationMC`, `ReleaseMC`, `AutoRouteMC`, `CampaignMC` | functions and sequences that a `.cfg` cannot write | |
| `WorkflowProofs`, `AgentdClientProofs`, `CampaignProofs` | theorems about one module, section 5 | extend it |
| `StoreProofs`, `IntegrationProofs`, `EnginesProofs` | theorems about the engines | the last extends the others and `Engines` |
| `ServicesProofs`, `WorkbenchProofs` | theorems about the parts and about their union | extend `Services`, `Workbench` |

Definitions whose comment says *mutant* are not used by the specifications. Each
is a bug that could be made in the code, and stands before the definition it
replaces. A property that joins several (`StoreAgrees`, `TasksSound`, ...) has one of
their mutants in `PROJECT.json`; the others are there in the modules, and each of
them breaks its own part when it is put in place.

### Workflow

The daemon serves one request at a time, so most handlers are one action. The
request that runs a package (`workflow/start`, `workflow/resume`) is four:
`BeginAdvance` (checks, first persist), `Inspect` (pick the first runnable package,
digest its inputs, reject it when it is too dear), `Dispatch` (the engine adapter
reads the inputs again and `result.json` is replaced) and `Record` (validate, store,
persist, answer), because the source tree can change and the process can die
between them. `mem` and `disk` are the run in memory and in `state.json`; `work` is
the private clone the handler works on. `Persist` has three outcomes: written,
not written (`lost`), written but the event line failed (`unlogged`). An
engine's result is the record of the input digest it names and the content it
read; equal digests are equal records. `Valid` is `validate_workflow_state` in full.

### Store

Every file operation of a request is a step: `Snapshot` for each configuration,
`WriteState`, `AppendLog`; `CreateWorkspace` and `CreateFile` make the workspace directory.
What the state says is the set of changes it holds (every handler inserts or
replaces a record, and `persist` writes everything). A failed append leaves
nothing, a part of a line, or a line without its end.

### Integration

The persisted records are `confs`, `branches` and `boxes` of one state value that
exists twice (`mem`, `disk`); a handler is an operator on states and `Persist`
gives its two outcomes. `BranchUpdate` persists twice, as the code does. Ancestry
is stated without recursion (`DescendsFrom`) so that it can be proved about.

### Release

`held` is the sequence of evidence records in memory, `files` the records in the
evidence directories. `Run` walks the gates in order and stops at a malformed
one, having pushed the records before it; `Open` replaces `held` by the files.
`word` is a history variable: the status the daemon last gave to each gate.
`told` is the status the last *answered* run gave.

### AgentTasks

`known` and `filed` are the records in memory and in `state.json`. Every handler
changes one record and persists the whole state (`PersistTask`): written and
answered, or failed before or after the file was replaced, with the change kept in
memory and an error as the answer. `PersistOther` is any other handler, which carries
such a change to the disk. `answered` is a history variable, the last record of each
that a caller was given. A task is a member of `AgentTask`, a job of `AgentJob`: jobs
make no progress in the daemon, they are queued and may be cancelled.

### AgentdClient

Each slot, timer callback and public method of the client is an action, and the
daemon, the pipe (`requests`, `inbox`) and the operating system are the others.
`waiting` is a `waitForFinished` in progress: signals delivered by it run handlers
inside the handler, as Qt does. `timers` counts armed single-shot timers, which
the code cannot cancel. `stop` also waits, and a process that starts while it does is
asked to open the project by a request that stays in `m_pending` (`AskedLate`).

### GenerationService

A worker thread's steps are `BeginJob`, `Check`, `Generate`, `PublishManifest`,
`Finish`, `FailJob`; handlers that wait or re-read (`cancel`, `delete`) are two or more steps.
`status` is the job file, `meshes` and `manifest` the artifacts. The model of a
shape is abstracted to success, failure or the deadline.

### Campaign

A step of the event loop ends at an `await`, so `Claim` is one action. `Report`
and `Retry` save separately and are two, with `turn` keeping other lanes out, as
nothing awaits between them. `orphans` are the jobs whose commands survived their
controller or their lane. `age` is a small clock of the controller that runs: its policy
counts from its own start, so a resumed one begins at zero.

At the time limit `wait_for` cancels the lanes and goes on waiting; `self.cancelled` is
set, and the lanes are cancelled once more, only when `gather` has ended, that is when one
lane has ended by the cancellation or all have returned (`Limit`, `LimitEnds`). What a
cancellation does depends on the `await` it meets, and is noticed later (`doomed`): in
`run_job` it stops the command and counts as its end (`StopCommand`), at the heartbeat of a
command that has ended it is swallowed (`Swallow`), and elsewhere, or while a stopped command has its
ten seconds, it ends the lane (`DropLane`): the record stays as it is and the command is left alone.
The final statuses `failed`, `timed_out` and `cancelled` are one, as no step tells them apart.

### NativeWorker, NativeTool and WorkspaceRevision

One file operation is one step of the process that runs (`proc`): the tool, a
recovery or an acknowledgement. `at` is the place in the sorted list of files, so
publishing, rolling back and what interrupts them are loops. `Terminate` and `Fail`
are the signal and the exception inside and outside the `try` of `_commit_shadow`;
`KillTool` and `Escalate` end a process without either. The host's actions are the
branches of `runTrustedNativeTool` after the worker has ended. The refinement maps
the abstract revision to what the workspace would be after rolling back
(`Revision`), and the offered result to the copy once the journal says published;
files that the user saves meanwhile are `Lost`, and only the others are claimed.

The host knows its worker by a pointer of its own process and nothing locks the
workspace, so a worker that outlives its host runs on beside the next call. `NativeWorker`
is one process and what it meets on the disk, with the names of another
transaction (`otherJournal`, `otherBackup`, ...) where it must tell them apart; `NativeTool`
is one process of the host, and `Stray` a second instance with the two exchanged.
`LeaveBehind` makes the stray of what ran when the next call begins. Both work on one
`root` and one journal file: each recovers or sweeps away what the other left there. `crossed`
is history: the stray has changed the workspace, the journal or the backups. From then on
neither the journal nor the host's answers are claimed to be right, and they are not
(section 6); the abstract revision is `Overrun`. Before it, everything is claimed, with the
stray there: while it copies, works or stages, or dies.

### TaskQueue, Harness, SupportJobs

SQLite serialises transactions, so a queue operation is one action and the event
that tells of it another (`owed`, `PushEvent`), between which the server can die.
`works` is what each agent has; a repeated report is one of a task the agent no
longer has. The harness does one phase and then `Checkpoint`; a `Crash` goes back to
the checkpoint and leaves the notes. A netlist is what the verifier would say of
it. In `SupportJobs` the desktop's call is one record (`desk`), the gateway's jobs
and their background tasks two sequences, and a specification is its digest; an
answer that is not heard leaves the gateway with what it did.

### CodexChat

The application is one thread: a slot, a callback of the process or a timer is one
action. `state` to `queue` are the fields of `CodexAppServerClient`, `running` and
`product` those of the panel, `card` and `executing` the tool that waits for the user
and the one the window executes. Prompts are their numbers. The app server is
`process`, the requests it has not answered (`asks`) and its `turns`. `stop` waits for
the process to end, and Qt handles in that wait what the process had already said:
`StopClient` takes any set of such signals (`late`) and leaves the state they make.
`executeApprovedCodexTool` lets Qt process events before the tool begins, so `Approve`
and `BeginTool` are two actions; `EndTool` may load another product. A process that is
killed ends within the second wait of `stop`, and read-only tools change nothing.
The flag that cancels a tool at work is left out, since after a stop its answer has
nowhere to go. `sent`, `over` and `left` are history variables: what was sent after
which stop, the last prompt before a stop, and whether prompts were left in the queue
when a restart found no executable.

### EngineeringGraph, IncrementalDesign, ComponentPublication, LocalRedesign, Installer

The engineering graph has one action per node, which takes the edge whose
condition its patch makes true. `IncrementalDesign` models each edit with the nets
it recomputes and states what a full analysis (`Analysis`) says. A preview in
`ComponentPublication` is a version of the part and its files live in the folder of
its CAD program, which versions may share; `publish_approved` is seven steps: it looks for the
row, selects it again, approves it, checks the digests of the files (`CheckFiles`), reads the component
once more (`ReadComponent`), stores it with the assets that lie there by then (`StoreComponent`), and
marks the manifest. `quiet` is history: no extraction has written the folder since the check.
`LocalRedesign` names objects by the preview that made them; `shape` stands for the
digest of a shape and `document` holds identity, status and shape of each object.
`Installer` has three directories and a step per rename or removal; an `rmtree` that
fails or is interrupted leaves `Remains`.

### InteractiveRoute

`start` to `hasPreview` are the fields of the session, `session` tells whether the
board's handle has one, `shown` is the preview that the bridge keeps and `project`
the document. Each event of the mouse is one action from the canvas down to the
router and back, since all of it runs in the GUI thread. Where a leg fits and what it
shoves is any choice; what happens to the copies of the board, in what order, and
what a refusal leaves behind, is the code's. `RebuildBoard` is any other call of the
bridge (a check, a pour, the automatic router) that builds the board anew and with it
a handle without a session; `ChangeProject` is an automatic route or a reload.
`waypoint` and `kept` are history variables for the two properties.

### AutoRoute

`drawing` is the copper of the document and `nativeBoard` that of the native board. A
run waits for the mutex of the board in `started`, has it as `work`, and leaves its
result in `finished` until the event loop delivers it (`TakeResult`). The fields of
`work` are the variables of `CoreBridge::autoRoute`: connections still `todo`, those of
`failed` that `still` fail, the `ripped` ones of the current blockers, `committed` in its
order, and the way of each. A way is a set of cells, chosen by `RouteOne` among those
that are free; the search may also fail with one there, as its budget is limited.
`thin` marks a straight way along an axis: the box of its copper has no area, and
`QRectF::intersects` is false for it, so it is never taken for a blocker. A run of the
design tool has the window's thread until it ends (`WindowLive`). `EditBoard` is the
canvas, Reload and the chat's new project. `fresh` and `spoiled` are history: whether
the document is still the one a run began with, and whether it ever was not.
The router reads the document in its thread when a run begins (and again when it
rebuilds the board) while the window may write it; the model takes those reads as
atomic, and claims `BoardTrue` only as long as nobody wrote.

### BoardEditor

Every handler of `PcbCanvas` and `MainWindow` that changes the board is an action;
between two of them anything else can happen, so a drag (`BeginDrag`, `DragMove`,
`EndDrag`) is interleaved with keys, menus, the autosave timer and the opening of
another board. `doc` is the `BoardDocument`: the board, the two stacks, `dirty`, and
`engine`, the board that the native core was last built from (`Stale` when
`_nativeStale`). An entry of the stack is a record of what its closures do (copper out
and in, parts gone and new, poses before and after) instead of the closures, and
`Backwards` is its undo. Copper is a set of pieces, a trace or route with its vias, or
a pour; whether the engine finds a way, what a shove bends and where auto-place puts
parts is a choice. A drag that goes on while the document is replaced keeps the nets of
its parts (`stray`), since its end reroutes those nets on the new board.

`loose` and `unseen` are history: whether something was changed past the stack, and
whether pads were assigned that nothing was told of. `EditsSound` claims `UndoRestores`
only while nothing is loose, and `EngineCurrent` and `CleanIsOnDisk` only while nothing
is unseen; the places where the code sets them are listed in section 6. Left out: layers,
outline, net classes and rules, planes, fan-outs and backdrills.

### Services, Workbench and Engines

The services share no state with each other, nor do the tools, nor do the engines: a
release reads no sandbox and a sandbox no evidence record, the failures of the store
are those each handler's `Persist` chooses from, and what the daemon does to the
document under one router, or the other router does, is an action of each. So
a behaviour of the union is one of a single part, chosen at the start (`service`,
`tool`, `engine`), and the properties of the parts are checked over all of them.

## 3. Runs, bounds and what they show

Bounds are constants named `Max...`: faults are failed writes, failed starts and
deaths; every one of them can strike at any step.

| run | distinct states | properties | question |
|---|---|---|---|
| `workflow_tight` | 162 680 | `StoreAgrees`, `NoStall`, `Provenance`, `LedgerSpec` | whatever fails between two effects, do checkpoints, result files and answers agree; with one unit too few, is the budget kept, is there always work, is the ledger implemented? |
| `workflow_six` | 2 919 | `RecordAccepts`, `PackagesComplete` | the six packages and costs of `controller_work_packages`: is finished work ever thrown away, and does a compiled run end? |
| `engines` | 1 212 876 | `EnginesTypeOK`, `HeadsAdvance`, `ApprovalsSound`, `StaleForever`, `VerdictsSound`, `AckedDurable`, `NothingForgotten`, `TrailTells`, `ReferencesResolve`, `TasksKept`, `RouteSound`, `RoutingSound` | can an approval be given by an author, without a role, over a conflict, or revived; does the newest record of each gate decide a release; is anything answered lost, or anything referred to missing; is a budget ever given back; is committed copper what was shown or routed, on a board that is what the router believes? |
| `client` | 208 764 | `OnItsWorkspace`, `RestartsBounded`, `EverythingSettles` | can the client be ready on the wrong revision, restart without bound, or stay recovering or pending? |
| `services` | 252 643 | `TypeOK`, `TasksSound`, `BuildsSound`, `HandedOutSound`, `ChatSound`, `StepsSound`, `WorkEnds` | over late, repeated and lost reports, crashes, restarts and retries: is work done once, as often as it may, for what was asked, and does it end? |
| `workbench` | 588 052 | `TypeOK`, `RevisionSpec`, `JournalSound`, `HostAnswers`, `RedesignsSound`, `GraphSound`, `PublicationSound`, `ProductSafe`, `DocumentsSound` | are files, documents and reports whole and current wherever a tool is stopped, does the user hear the truth, and can edits be undone? |
| `campaign` | 406 241 | `CampaignSound`, `FinishedStays`, `CampaignSettles` | order, retries, blame and finished work over cancellation, death and resumption; does a campaign end, but in one case? |
| `release_reopen` | violation | `ReadyOnReported` | finding 1 |
| `publication_review` | violation | `PublishedAsReviewed` | finding 2 |
| `route_springback` | violation | `Springback` | finding 3 |
| `chat_run_client` | violation | `RunHasClient` | finding 4 |
| `route_modified` | violation | `RoutedOnDocument` | finding 5 |

Several of these join properties that belong together; the modules state each part
with its own comment. `StoreAgrees` is `Reopenable`, `ReportedDurable` and
`ResultsMatch`; `TrailTells` is `LogOrdered` and `AnsweredLogged`; `BuildsSound` is
`CompleteIsSound`, `MemoryIsSound`, `TakenOverIsSound` and `CallsBounded`; `HostAnswers`
is `AnswersTrue` and `StopEndsCall`; `RouteSound` is `RouteJoined` and
`CommittedAsShown`; `RoutingSound` is `Accounted`, `BoardTrue` and `DocumentLegal`;
`DocumentsSound` is `ReportsCurrent` and `EditsSound`; `EditsSound` is
`UndoRestores`, `EngineCurrent` and `CleanIsOnDisk`;
`HandedOutSound` is `ResultsSound` of the support jobs and `JobsSound` of the generation
service; `CampaignSound` is `TypeOK`, `NeedsFirst`, `AttemptsBounded` and
`BlameJustified`; `ChatSound` is `SentOnce`, `RightProduct` and `Stoppable`; `StepsSound`
is `FailedForever`, `TerminalStays` and `BuiltForFile`; `WorkEnds` is the liveness of the
five services; and so on. The type invariants of `Workflow`,
`Store`, `Integration` and `AgentdClient` are theorems (section 5).

Why the bounds are enough for the cases that matter:

* Workflow: three packages hold a chain and a join, so a package with two
  dependencies of which one is finished; two faults allow a fault while another
  is being recovered from; a budget one short makes the last package the rejected
  one. Three contents per input tell apart *accepted*, *accepted but other* and
  *refused*. `workflow_six` has the whole allocation (72) and the real graph, so
  that a run can be finished; its one fault and one edit strike anywhere in it.
* Store: two boards per request give a snapshot before and after the failing one;
  four changes allow a failed request, a request that carries it to disk, and
  one after a reopening.
* Integration: two drafts conflict and two agree, one author owns two of them; a
  sandbox over two branches can be evaluated, left behind and approved in any
  order. The theorems of section 5 cover larger instances.
* Release: both gates required of two configurations, one not committed; two runs,
  so an older and a newer record and a malformed input half way. Time stamps may
  tie. A filed record never bears a time of the future. The results are `pass`, `fail` and
  `malformed`; `not_applicable`, the fourth, is to the verdict another one that is not `pass`.
* AgentdClient: two openings are needed for an answer to an earlier episode, an
  edit for one of an earlier revision, four faults to use up the three restarts.
  One workspace suffices to tell an answer of another revision apart; that it
  may be another workspace too is covered by the theorems of section 5.
  `RestartsBounded` is `BoundedRestarts` where it holds: with one opening and no
  wait that times out, as a process that survives `kill` for 500 ms lets an extra
  restart through.
* TaskQueue: three tasks of which one waits for another and one only suits one of
  two agents, one retry, and one each of a repeated report, a vanished agent and a
  dead server: a report can be late for a task that another agent has, and a
  blocker can fail for good.
* Harness: two builds, so that the second takes over what the first left; budgets
  of one and two calls, so that a run can be over budget with and without a
  netlist; a crash after any phase and an outcome recorded in between.
* SupportJobs: two specifications and two edits, so that the file can be back at
  the first one when the answer for it comes; four submissions and a restart.
* GenerationService: two jobs on a pool of one thread give one queued and one
  running; two candidates give a job that is half done; one failed write,
  generation or deadline and one death, in any order. `JobsEnd` is claimed while no
  write fails: when the update in the worker's `except` branch fails too, the record
  stays running until the next start.
* CodexChat: three prompts, so that one can be under way and one wait while a third is
  sent, or one be left over; one change of product, one new thread and one tool, each at
  any moment; two faults, so that a restart can fail and the one before it was a death.
* NativeTool: a file that does not exist yet and one that is authoritative and
  published last, two contents, two calls, a fault (of a process, a write or the
  host) and a save by the user: a fault in the recovery from a stopped call, a second
  call that finds what the first left, and a host that dies with its worker at work, so that
  the second call runs beside it. The theorems of section 5 cover more of each.
* EngineeringGraph: two domains and three rounds, so a finding of one round can
  survive into another; IncrementalDesign: two parts, two bindings of one and two
  pins, three nets.
* ComponentPublication: two versions that share a CAD program, and one reviewer; writes
  fail, reviewers die and extractions fail at any step, as often as they like. A version
  that fails the checks is in `publication_review` and in the theorem only.
* LocalRedesign: two redesigns of one part or of two, two previews, one edit of a
  shape by the user.
* Installer: three updates, so that the third finds what two deaths left.
* BoardEditor: two parts on two nets in two places, four pieces of copper, two edits of
  the board, any number of moves in a drag, any number of checks and redos, an undo and a step on
  files: a pair or a batch is one edit that makes three pieces, and an edit can meet a
  drag, an undo or a replaced board. The project has a route, and the newer autosave
  offered beside it does not.
* InteractiveRoute: two points and two layers, so that a leg can return to where the
  route began on another layer; two routes, of which the second starts on the board
  that the first left; three gestures, so that a via can be refused between two
  moves; one document edit in between.
* AgentTasks: one task and one job, since no handler looks at two; a budget of three,
  so that progress can be repeated, raised twice and refused; three faults, so that a
  failed write, the death after it and a second failure fit in one behaviour.
* AutoRoute: three connections of three nets on five cells, of which two can lie in the
  way of the third, and a way for each that lets all three fit; passes that make
  progress and passes that do not; two runs, so that one can wait for the other or
  start on what it left; one change of the document. The search may fail anywhere.
* Campaign: a long job that either GPU can run and that needs the other two, each of which
  one GPU can run, one of them with a retry; so both lanes can be busy when the limit comes
  while the long job waits. One resumption, one changed artifact; the clock
  passes the cut-off and the limit.

## 4. Fairness

* `workflow_six`: the request being served goes on (`Inspect`, `Dispatch`, `Record`:
  the daemon is a loop without blocking waits); a client opens the workspace when
  the daemon is down, compiles, approves and keeps asking for the next package
  (`Advance`); broken inputs are put right (`Repair`), without which a refused input
  rightly keeps a package from running. Cancels are not bounded.
* `client`: timers fire and the operating system reports starts and ends;
  waits are bounded in the code; the event loop reads the pipe; a living daemon
  answers the request it has. The last is an assumption on the daemon: requests
  have no timeout, so a daemon that hangs keeps the client waiting.
* `services`, each part when it is the one chosen. Generation: threads of the pool
  run, a handler that has begun ends, and a restarted service completes its
  recovery before it serves. Queue: the server pushes the event it owes, backoffs
  pass, an agent asks for work and reports on what it has; an agent that vanishes
  is not assumed to come back, nor is one assumed to report the same twice. Harness:
  the process goes on with its phases. Support: the desktop goes on and its overall
  timeout passes (`SupportJobClient::submitAndWait` loops on a timer); neither the
  gateway nor the worker is assumed to answer. Chat: a process that was started starts or
  fails and one that was killed ends, the restart timer fires, the app server answers
  and completes its turns, the user decides on a card, and a tool ends. `RunsEnd`
  exempts a run whose client was stopped under it, which is finding 4: only the user
  ends that.
* `workbench`: a recovery or acknowledgement process ends, by itself or killed after
  its ten seconds, and the host goes on with what it waits for. The tool itself has
  no time limit: `StopEndsCall`, a part of `HostAnswers`, is about a call that was stopped.
  Redesigns, documents, boards and routes wait for their user and have no liveness.
* `campaign`: the event loop serves each lane (`LaneStep`) and `run` itself (`RunStep`: the
  limit, the end of `gather`, the manifest), and a command ends or is ended by its
  timeout (`asyncio.wait_for` in `run_job`). Neither signals nor deaths are assumed, nor does
  the clock have to go on: a campaign whose clock stands still must end by its own work.

## 5. Proofs

TLAPS checks these for every value of the constants that satisfies the `ASSUME`s
of the modules (which TLC evaluates on every instance). Every component has one
inductive invariant (`IInv`, or `QueueInv`, `CampaignInv` and so on), a lemma for each
action or handler, and theorems that combine them. The properties say what holds between operations;
the strengthenings below say what is true in the middle of one.

`WorkflowProofs`: `TypeCorrect`, `AlwaysReopenable`, `ResultsAlwaysMatch`,
`ReportsAreDurable`, `StoreAlwaysAgrees`, `ImplementsLedger`, `ResultsAreTraced`,
`NeverStalls`, `RecordsAccepted`. None of the invariants is
inductive alone: that the stored run is valid after a *lost* write and a later persist
needs to know how far memory can be ahead of the disk. `Lead(disk, mem)` says: by nothing
but statuses, an approval given before work, or one finished package. It holds because
a request runs a package only after a persist that brought both together
(`Serving`: while a package runs, `disk = mem` and the clone is of that run).
What the charged units
add up to (`SumOf`, a recursive function) need not be known for these: every path to the
disk passes `Valid`, which compares them. The refinement maps the
ledger's `approver`, `entry` and `spent` to the stored run.

The last three rest on a second invariant, `DetailInv`, of the run in memory, the stored one
and the clone at work. `Traced`: a finished package names the outputs its dependencies have
(what is finished is not replaced, and a package is charged after what it depends on).
`Going`: a run that is not over has an unfinished package and no rejected one; the first
unfinished one can run, which is `NoStall`. `Prepared`: the input waiting for its adapter
digests the outputs of the run it will be recorded in. That the last validation never fails
(`RecordAccepts`) needs to know that a charge adds its cost to `SumOf` (`SumAdds`). The
sum is recursive, so it is reasoned about by the shortest prefix for which a claim would fail
(`Least`): that the function exists, unfolds, stays in `Nat`, and grows by what one package
is given. `RecordsAccepted` assumes `NullIsNoObject`: JSON `null`, the constant `None`, is
neither a digest nor a result record; it cannot be written as an `ASSUME` that TLC evaluates,
because it quantifies over all contents.

`AgentdClientProofs`: `TypeCorrect`, `ReadyCorrect`, `CallsCorrect`,
`AlwaysOnItsWorkspace`, `RestartsAreBounded`. `ReadyMeansOpened`
needs to know that the identity in an accepted answer is what the daemon has open
when it is handled (`Echo`); that holds because a `project/open` is alone in the
pipe with nothing said before it (`Alone`), which needs that pending ids and
requests agree on their method (`SameMethod`) and that a starting process is
silent (`Lives`). The restart budget needs `Counted`: while one workspace was opened and no
wait timed out, at most one timer is armed, and only where no process runs, so what was
restarted and what is due together stay within the attempts counted; an accepted answer
resets both counters when nothing is due. `StoppedKeeps`: a stop, whatever it leaves pending,
leaves nothing asked or said, so what it leaves matches anything. Neither hypothesis can go: a timer outlives the
episode that armed it, and a process that survives its kill is counted twice (sections 4, 6).

### The engines

`StoreProofs`: `StoreTyped`, `AnswersAreDurable`, `IndexNeverForgets`,
`TrailIsOrdered`, `AnswersAreLogged`, `TrailIsComplete`, `SnapshotsComeFirst`,
`ReferencesAlwaysResolve`. The strengthening is
`Behind` (memory holds at least what the file holds and is as recent),
`Appending` (between the halves of a persist they are equal and no event has their
revision) and `Request` (what is in progress is in memory).

`IntegrationProofs`: `IntegrationTyped`, `BranchesStayOnLine`, `ApprovalsAreSound`,
`ApprovalIsIndependent`, `VerdictsAreJustified`, `StaleStaysStale`. Each handler is
proved, of states alone,
to make a good state of a good state in which no head has gone back (`Later`); a
step then leaves in `mem` and `disk` states so made, and memory is never older.

`EnginesProofs` extends both and proves every property that the run `engines` checks:

* Tasks (`TaskTypes`, `TasksAreKept`). What callers were answered, the disk and
  the memory are a chain in `MayBecome`, which is inductive because a persist takes over
  changes that failed before: `Transitive` carries an answer over them.
* Verdicts (`VerdictsAreSound`). `TimesPast`: no record is of the future, so a record of a
  run is the newest when it is made. `WordsHeld`: the word last given about a gate is the
  status of the newest record about it, ties broken by position. Opening forgets the words,
  and inside `Run` the invariant `RunBehind` holds after each gate.
* Routes drawn (`RouteIsSound`). `Session`: on each of the four copies the copper behind the
  original board is one line from where the route began to the copy's end and layer
  (`InLine`, `EndAt`, `LayerAt`), shoves keep layers, and what is shown is
  `Changes(original, preview)`. That the commit is as shown needs `kept => project = board`.
* Automatic routes (`RoutingIsSound`). `Holds` says of a run between any two connections, in
  whichever of its phases, that every connection is in exactly one of its lists (`Spread`),
  that committed ways are apart and that the native board is theirs. `ToolAlone` and
  `ToolFresh` say that a run of the design tool is the only one, and of the document as it
  is, as it holds the window's thread. What the two filters of a rip-up (`Among`) return is
  proved of the recursive function itself: if it failed for some prefix there were a
  shortest one (`SmallestNumber`, from the well-foundedness of `Nat`), and the one before it
  is a contradiction.

`EnginesTyped`, `EnginesAreSound` and `EnginesNeverGoBack` carry all of it over to
`EnginesSpec`, a behaviour of which is one of each part (`EnginesAreTheirs`).

### The services

`ServicesProofs` proves every safety property that the run `services` checks:

* `TasksAreSound`. `StartsCounted`: a task that may be started has had no more starts than
  retries; `EventsTell`: it is completed exactly when the event that was last told of it, or
  is owed (`Told`), says so, while the server has not died in between.
* `BuildsAreSound`. One predicate (`RunOK`, `RunSound`, `Spent`) holds alike of the run and
  of its checkpoint, so that a crash changes nothing; and of every case of the memory, so
  that what a later build takes over is as good.
* `ResultsAreSound`. `DeskAsks`: while the desktop waits it holds the digest it asked for;
  `TasksRun`: a background task at work is of a job that runs or was cancelled.
* `JobsAreSound`. `WorkOf`: where a worker is in its program says how many candidates and
  which files there are, and what status the record can have; `Removals`: a job that is
  being removed has no worker. `PoolKept` bounds the threads.
* `ChatIsSound`. `PromptsInOrder`: what waits is later than what was sent and than the last
  stop, in increasing order; `Connected`: process, thread and timer are of the product that is open;
  `OneTurn`: as long as no prompt was left over, one turn at most is under way, it is of the
  run that the panel shows, and nothing waits beside it.

`ServicesTyped`, `HandedOutIsSound`, `StepsAreSound` and `ServicesAreSound` are their
conclusions under the specification that joins them.

### The tools

`WorkbenchProofs` proves every safety property that the run `workbench` checks:

* `WorkspaceRefines`: the journalled workspace implements `WorkspaceRevision`. The invariant
  is `NativeTyped /\ (crossed \/ CallOK)`. `BackupOK`: until
  the journal is gone the backups are what the files were, and the files from the place of
  a restoration on are them already; `ResultOK`: what of the copy is in the workspace at each
  step of publishing; `JournalOK`: the journal's state at each place of the program, and that
  it names nothing of the stray; `BaseOK`: until a call is accepted the revision is that from
  before it. Each step is then `Quiet` or one of the abstract ones, and the step with which the
  stray crosses is `Overrun` (`CrossingStep`). The types need no such condition (`NativeTypes`), and the
  stray's steps are typed by the lemmas about the worker's, proved of the other instance
  (`StrayWorkerTyped`). `JournalsAreSound` and `HostTellsTruth` follow from the same invariant.
* `RedesignsAreSound`. `PreviewsOK` and `CommitsOK` say which objects a receipt may name;
  `IdsOK`: an object of the original document that ever bore a baseline's identity is that
  baseline; `InOrder`: unless redesigns were undone out of order, a part has one
  object with its identity, and the baseline of each commit is there with the identity it was given.
* `PublicationIsSound`. `FoldersRight`: whatever lies in a folder is of its CAD program;
  `ChecksRight`: as long as no extraction has written the folder since the check (`quiet`), what a
  reviewer has read of it and what still lies there are of the version of its manifest; `RowsRight`: what is
  approved or ready passed the checks.
* `GraphIsSound`, `ReportsAreCurrent`, `ProductIsSafe`, whose invariants are nearly inductive.
* `EditsAreSound`. `UndoRestores` speaks of the end of a chain: undoing everything leads back
  to what was opened only if each closure meets the board it was made for. `Leads` holds the
  boards in between: from the seen part of a board (`Sight`) each entry of a stack leads to
  the next board, and its reverse back (`Exchange`). `Tight` says it of the undo stack, towards
  the opened board, and of the redo stack, towards the one before the first undo; an edit
  prolongs the one and drops the other, undo and redo move an entry between them. While parts
  are dragged the chains begin where the drag did (`Dragged`), as its entry will. A part that is
  not born yet is on no board of a chain, so it may lie anywhere (`LeadsReposed`). The pair
  router pushes its entries in the wrong order, which does no harm unless the piece it tunes
  is the new one (`PairedReached`). `Reached` is what a handler may make of the document, so each
  helper of the model is proved once to keep it; a batch over nets is a fold, and by the
  size of the set it keeps what one net keeps (`TurnsExist`, `BatchReached`). Assumed of the two
  files (`BoardOK`): the copper and parts on a board are among those made and born, in both of
  the boards a user can open; how a board file could say otherwise is not modelled.

`ToolsTyped`, `FilesAreSafe` and `ToolsAreSound` join them.

### Campaigns

`CampaignProofs`: `CampaignIsSound`, `DoneStaysDone`, `PassIsTheLoop`. `LanesOK`: a lane has a job that is
recorded as running, until it reports it or its task ends, and one that returned or was dropped has none
(`CancelKeeps`, `DropLaneKeeps`: what a cancellation does to lanes and commands takes no record back); `AttemptsOK`: a pending job of a controller that
runs has an attempt left; `BlameOK`: a blamed job needs one that has ended without success,
and that one is not the job whose retry is being decided; `SavedOK`: what is saved as done is
done. The pass in which a job takes down those that need it, one after the other
in the order of the configuration, is stated in the actions by what it ends in (`Blamed`);
`PassIsTheLoop` proves that the loop of the code (`Pass`) ends in exactly one such set, whatever the
jobs need of each other, and `CampaignMC` has TLC compare the two (`PassFailsOneSet`).

### What the proofs changed in the models

* `CodexChat`: its type invariant claimed that turns are of a living process only, where one
  that was killed and has not ended yet still has its turns; and `ScheduleRestart` set the
  state anew while the restart timer was running, where the code returns
  (CodexAppServerClient.cpp:445).
* `Harness` needs `MaxRefine > 0` (3 in harness.py:109): with none, a netlist that was taken
  over and fails its verification would be stored as if it were still that case.
* `NativeTool` needs an order that names each file once, and at least one.
* `BoardEditor`: `UndoRestores` is false when the user redoes in the middle of a drag, which
  takes an edit, its undo, a drag, the redo, the drop and another undo, more than the run's
  bounds allow; `RedoEdit` is now counted as loose there (section 6). Poses are
  put over others by `Put`, and the stacks are applied by a recursive function.
* `AutoRoute` needs that no way is empty, and its filters are a recursive function of
  their own, since the prover has no definition of `SelectSeq`.
* `Release`: its bounds are numbers.

## 6. Findings

Each is the counterexample of a run with `expect: violation`; `PROJECT.json` quotes
the line of the repository that says otherwise.

1. `release_reopen` (lib.rs:1166): `project/open` drops the records of propagation
   runs; a gate reported failed is passed by an older filed record.
2. `publication_review` (component_workflow.py:161): `publish_approved` checks the
   digest of the row and publishes whatever manifest is at its path; a later
   extraction with the same CAD program has replaced it, and a version that nobody
   approved is published.
3. `route_springback` (interactive_router.cpp:386): a via that is refused has already
   staged the preview and moved the anchor, so the next cursor move keeps the leg (and
   what it shoved) of a waypoint that was never accepted;
   docs/INTERACTIVE-ROUTING.md says that every move starts from the last accepted one.
4. `chat_run_client` (DesignChatPanel.cpp:1542): loading another product stops the app
   server but not the run that the panel shows, so the restart that the comment
   promises does not come with the next press of Send, which is taken as Stop. An
   approved `create_product_workspace` does this to the turn that called it: its answer is
   dropped and the turn that should create the stages after it is gone.
5. `route_modified` (MainWindow.cpp:2845): the result of the automatic router is added
   to whatever the document has become. The comment says that the routing UI is disabled
   to prevent concurrent calls and modifications of the model, but the canvas, Reload,
   the chat's new project and the chat's own route job stay usable.

Observed in the models while they were written, without a run of their own; each
can be reproduced by checking the formula in parentheses:

* AgentdClient.cpp:332: a restart timer outlives the episode that armed it and starts
  a process outside the budget of a later one (`BoundedRestarts` in `AgentdClient`).
* app.py:263 of the generation service: a cancellation that was answered before the
  worker began is overwritten by it (`CancelHolds` in `GenerationService`).
* lib.rs:4133: inputs are digested, then read again by the adapter; an edit between
  the two gives a successful result that names content no adapter accepted
  (`results[p].input.artifacts \in Sound` in `Workflow`).
* lib.rs:1097: a snapshot whose index write was lost is never taken up again, though
  docs/DESIGNSTUDIO-WORKSPACE.md:32 says live state is rebuilt from snapshots
  (`up /\ Idle => snaps \subseteq mem.has` in `Store`).
* lib.rs:2707: after a torn append the next, answered event shares its line and
  cannot be read back (in `Store`, `log[i - 1].kind = "whole"` for the `log[i]` of an
  answered request).
* app.py:379: `cancel` checks the status outside the lock it writes under, so a
  succeeded job can become cancelled (`status[j] = "succeeded" => status'[j] #
  "cancelled"` as a step property of `GenerationService`).
* campaign.py:225: a resumed controller runs a job next to the command its
  predecessor left (`job[l] \notin orphans` for every lane `l`, in `Campaign`).
* campaign.py:433: the limit need not end a campaign. `wait_for` cancels each lane once and
  waits for `gather`; a lane whose command is stopped by it takes that for the end of the
  command, and goes on claiming, since `self.cancelled` is set only afterwards. When every
  lane was busy and a long job is past its cut-off, all of them poll for ever
  (`CampaignSettles` without its last disjunct; 19 states). A cancellation that meets the ten
  seconds of a command that was stopped, or the start of one (line 222), ends the lane
  instead: the record stays `running`, also in the manifest, and the command is not killed
  (`up = "ended" => \A j \in Job : record[j].status # "running"`).
* AppDesignStudioGui.cpp:836: an acknowledgement that is killed after it removed the
  journal is answered as failed and recovered, though the new revision stays
  (`RecoveredMeansBefore` in `NativeTool`).
* native_tool_worker.py:157: a worker that outlived its host works on beside the next call,
  and the journal has one name. The newer worker rolls the journal of the living one back and removes
  it with its backups, while that one goes on replacing files and marks a journal as
  published again; or the older one does so to the newer. Then a journal names backups that are gone
  (`JournalBacked` without `~crossed` in `NativeTool`; 18 states), and the workspace is a mixture
  of two results, or is at a result after the host has answered that the last approved
  revision is preserved. The comment at line 175 says that a crash can leave only harmless
  orphaned recovery bytes rather than a journal whose backups no longer exist.
* component_cad_program.py:710: the publisher checks the digests of the files and then reads the
  component, the program, the STEP file, the footprint and the datasheet again; an extraction in between stores the
  component of one version with the assets or the manifest of another (`StoredWhole` without
  `library.quiet` in `ComponentPublication`; 12 states).
* AgentdClient.cpp:176: `stop` clears what is pending before it waits; a process that
  starts in that wait is asked to open the project, and that request is pending until the next
  start (`state = "stopped" => pending = {}` in `AgentdClient`).
* local_redesign_v2.py:840: rolling back an older commit, or previewing twice without
  discarding, leaves two objects with one identity (`IdentityUnique` in
  `LocalRedesign`).
* component_workflow.py:153: after a reviewer has died between the approval and its
  publication the row is approved and cannot be published, nor can the rows that
  `approve_all` approved (`Resumable` in `ComponentPublication` over all rows instead of
  those in `begun`, which such a death and `approve_all` leave).
* CodexAppServerClient.cpp:199: output of the process that is handled while `stop` waits
  makes the stopped client ready or initializing again; the next prompt then waits for
  a process that is not there until the user presses Stop (`~supervise => state \in
  {"stopped", "failed"}` in `CodexChat`).
* MainWindow.cpp:1640: a Stop that is handled by `processEvents` finds the approved tool
  neither pending nor active, and the tool begins after it (`BeginTool =>
  executing.prompt > over` as a step property).
* DesignChatPanel.cpp:1542: cards survive a change of product, and the tool of the old one
  can be approved on the new one (`Approve => card.product = product`); a second call
  replaces a card that was not answered, and nothing answers the first.
* CodexAppServerClient.cpp:104: prompts that wait when a restart finds no executable are
  sent by a later start while the panel shows no run (`Stoppable` without `~left`).

* lib.rs:2219: `agent/recover` takes any running task, interrupted or not, so a runner
  that is still at work finds its task queued and can be joined by a second one; after
  three recoveries nothing but a cancellation or the lost runner itself ends a task.
  A start that failed leaves a task that its caller has no name for, and the next
  persist of any request files it (`filed[i] # Absent => answered[i] # Absent` in
  `AgentTasks`).

Seen in the code beside the models:

* A file that the user saves while a native tool works is replaced by the tool's
  copy if the tool changes the workspace; files a tool deletes are not deleted in
  the workspace; and the journal of a host that died is rolled back by the next
  call only.
* `task_fail` looks at no status and no agent, so a repeated report of failure puts a
  running task back (which is why `OneWorker` is claimed without repeats); two servers
  over one queue file could claim a task twice (db.py:91-125). Two agents of the
  repository report to paths the server does not have
  (circuit_advisor_agent.py:275, datasheet_extractor_agent.py:244).
* harness.py: nothing resumes a session after a crash but a caller that knows its id;
  a proposal without parts passes the verifier and is stored as complete; a note
  written before a crash is written again after it; whole notes are saved, so two
  processes can lose an outcome (design_memory.py:75, 158).
* support_jobs.py:332: a specification whose job was cancelled, failed or timed out is
  not computed again until the gateway restarts; an answer with a `generator` that is
  not an object leaves its job running (line 412).
* campaign.py:160: the cut-off for long jobs and the time limit count from the start of
  the process, so a resumption grants both anew.
* interactive_router.cpp:276-330: a shove may displace the legs that the same route has
  already laid, and `placeVia` adds the vias of the transition only, so a via may stand
  beside its anchor with no trace between the two. A document that is reloaded, or an
  automatic route that is appended, while a route is drawn leaves the old preview to be
  applied by its indices (CoreBridge.cpp:464); results of the automatic router are
  appended without a check against the document they come to, and the interactive
  calls do not take the mutex under which the automatic router works on the board
  (CoreBridge.cpp:417), so they can destroy it under the router. `AutoRoute` leaves a
  route drawn during a run out. A rebuild that fails between two passes goes unnoticed
  (CoreBridge.cpp:688).
* CoreBridge.cpp:713: a straight way along an axis is never taken for a blocker, though
  the comment above says any committed geometry that overlaps; ripping up may end with
  fewer connections than the greedy pass had committed (line 729), and a result that is
  not complete is thrown away whole (MainWindow.cpp:2845).
* update_installer.py:119: after a death between the renames the product is in the
  backup only, and an update whose archive is rejected does not bring it back.
* BatchRouter.cs:19 says that one undo entry wraps the whole run; each connection pushes
  its own, and victims are taken off without one (line 94). HighSpeed.cs:106 pushes the
  pair after the meander that may have replaced its second side. UndoStack.cs:5 says that
  every mutation goes through the stack; layers, outline, advice and the schematic's
  assignments of pads do not. Undo and redo in the middle of a drag (MainWindow.xaml.cs:481,
  482; the keys are handled whatever the mouse does), and R, change poses between
  `_dragStart` and the entry made from it, so the entry of the drop starts from where the
  part did not stand when it was pushed, and undoing past it does not restore the board.
* AdviceApplier.cs:75, 118: pads are assigned after `AddNet` told of the net, or without
  it when the net exists; a board that the native core has meanwhile taken, or a saved one,
  does not become stale or dirty by it.
* PcbCanvas.cs:393: a drag is not ended when the document is replaced under it; its end
  rips up and reroutes nets of the new board that have the numbers of the old parts' nets.
* MainWindow.xaml.cs:184: the schematic is loaded once per run of the program and saved
  under the path of whatever project is open, so a second project's schematic is
  replaced by the first one's.
* engineering_graph.py: nodes can be completed with empty patches, and a run whose
  findings name no known domain, or whose bundle does not verify, can go nowhere.

## 7. What is only model-checked, and what is not modelled

Only checked by TLC, on the instances above:

* everything with fairness (`PackagesComplete`, `EverythingSettles`, `WorkEnds`,
  `CampaignSettles`, and `StopEndsCall` in `HostAnswers`), since liveness is out of the
  prover's reach, as are `ENABLED`, induction over data given by an operator parameter, and
  `RECURSIVE` operators (none of the modules has any).

Abstractions that bound what is claimed:

* The process dies, the machine does not: what a completed write wrote is there.
  Renames are atomic; the order in which a power loss would undo them is not
  modelled.
* One daemon per workspace. Nothing enforces it: a second one that opens the same
  workspace replaces the other's `state.json` by its own.
* The automatic router's search for one connection is any free way, or none, and the
  native board has cells instead of coordinates.
* The revisions of the workspace and of the product graph do not change while a
  daemon runs (only the client's view of the manifest does).
* One worker at a time outlives its host, and one that is there no more does nothing.
  The copy of the workspace that a tool works on leaves out the recovery directories of other
  transactions only; that a copied journal may be published again over the workspace is not
  modelled, and would come after `crossed`. After it nothing is claimed of the journal, the
  host's answers or the revision.
* One extraction of a part at a time, whose assets (program, STEP, footprint and
  datasheet) are one value that is read at once; rejecting a row, and approving all of them, are
  one step each.
* In `AgentdClient` a write that is cut short is an error of the process at any moment, and lines that were buffered
  when it was killed may be handled later or never.
* Digests do not collide, and content is its digest.
* Timers and budgets in seconds have no durations: a timer may fire at any time.
  Only `Campaign` has a clock, in units of its policy.
* Schemas, symbolic links, permissions and the shape of identifiers are checked
  by the code before any of the modelled state changes; inputs that fail those
  checks change nothing.

Not modelled: see the notes of the components in `PROJECT.json`. In short, the
geometric and numerical engines (real arithmetic), renderers and panels (no state
of their own that others depend on), stateless handlers and one-shot scripts, and,
for now, the components planned below.

## 8. Plan

Done: the models of section 2, and theorems for every safety property of the runs
`engines`, `services`, `campaign`, `client`, `workbench` and of the two workflow runs.

Theorems to come: the safety part of each liveness property, namely that what it waits for
stays possible (as `NeverStalls` does for `Workflow`).

Models to come: two daemons over one `Store`; the product graph, variants and context of
the daemon as functions against a definition.
