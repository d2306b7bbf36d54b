# Verification of OneDesktop

OneDesktop is a desktop application: a Rust process (`src/src-tauri/src`) and a
React interface (`src/src`).  A user talks to single agents, schedules jobs, and
puts agents together in groups that talk to each other and work through batches
of tasks.  The Rust process keeps its state in one SQLite database, in files and
in memory, and runs everything on a multi-threaded tokio runtime: commands of the
interface, agent runs, the futures that run group tasks, and the background loops
are all concurrent, and many of them read a row in one statement and write it in
another.

This directory holds TLA+ models of that process, the TLC configurations that
check them, and theorems about them with TLAPS proofs.  `PROJECT.json` links every
definition to the source lines it stands for, every hazard of the code to the
properties that watch it, and every property to a plausible bug in the code that
would break it.

Contents: [Inventory](#inventory), [Modules](#modules),
[The scheduler's model](#the-schedulers-model),
[The agent core's model](#the-agent-cores-model),
[The services' models](#the-services-models), [Runs](#runs), [Bounds](#bounds),
[Fairness](#fairness), [Findings](#findings),
[Departures met](#departures-met), [Hazards without a run](#hazards-without-a-run),
[Theorems](#theorems), [Only model-checked](#only-model-checked),
[Not modelled](#not-modelled), [What is left](#what-is-left).

## Inventory

Paths are relative to `src/src-tauri/src` unless they start with `docs/`.

### Groups

**Task scheduler** (`group/scheduler.rs`, commands in `commands/group.rs`).
State: the `tasks` rows of a batch, `dispatch_lock` (a fair tokio mutex),
`completed_batches`.  Operations: `submit_batch`, `approve_batch`,
`process_batch` (read the group, scan under the lock, dispatch each candidate
under the lock again, announce), `dispatch_task`, the spawned future that runs a
task and settles it, `cancel_batch`, the heartbeat of a run, the sweeper, and
the recovery at start-up.  Hard: the lock is let go between the scan and the
dispatches; the commands that retry, skip, reassign, cancel or edit a task do
not take it at all; the application may go down anywhere.  Correct when a task
runs after its dependencies and once at a time, no task is left `InProgress`
without anybody to settle it, a batch is announced once, and what can be
dispatched is.  Modelled: `GroupScheduler`.

**Task board** (`group/task_board.rs`, `task_board_repo.rs`).  State: the `tasks`
table.  Operations: create, list, update one column, reorder, find stale rows,
append outputs; every one is a statement on a pooled connection, the order of a
column takes several.  Correct when terminal statuses are final and a card is
where it was put.  Modelled: `GroupScheduler`, `BoardOrder`.

**Worker pool** (`group/worker.rs`, `worker_repo.rs`).  State: the `workers` table
(`status`, `current_task_id`, agent and capabilities).  Operations: register,
pick an idle worker by capability, `acquire` (refuses `Busy`), `release` (two
statements that ask nobody), bind an agent to an empty seat, set a status,
remove.  Correct when a worker is leased to one run at a time and comes back.
Modelled: `GroupScheduler`, `WorkerLease`.

**Group lifecycle** (`group/manager.rs`, `group_repo.rs`, `commands/upgrade.rs`).
State: `groups.status`, a policy, seats.  Operations: create (row, topology and
seats in separate statements), pause, resume, dissolve, add workers and seats,
make a chat a group and back.  Modelled: `GroupScheduler`, `Catalog`, `Upgrades`.

**Roundtable** (`group/roundtable.rs`, `roundtable_repo.rs`).  State: messages with
sequence numbers, one turn lock and one session per member, the status of the
members.  Operations: post, broadcast, a member's turn (`run_worker_turn`),
follow-up turns for mentioned members up to a depth, direct messages from inside
a turn, rerun and fork from a message.  Hard: members wait for one another inside
tool calls; the time limit of such a call drops the turn it waits for and the turn's
lock, but not the engine the turn has spawned, which goes on without anybody waiting
for it.  Correct when turns of a member are kept apart, follow-ups end and everything
comes to rest.  Modelled: `Roundtable`, `CutTexts`.

**Topology** (`group/topology*.rs`, `commands/group.rs`).  A versioned policy per
group and pure decisions: may a worker address a worker, the blackboard, somebody
by mention; closed when the policy is missing.  Modelled: `Topology`, `Stores`.

**Agent catalog, presets, playbooks** (`group/agent_*.rs`, `commands/agent_preset.rs`).
Records edited, exported and imported by several windows.  Modelled: `Catalog`.

**Executors** (`agent/executor/`).  A task is run by the engine or by the process of
a command-line agent: probed, logged in, fed a card, timed out, killed.  Modelled:
`Executors`.

### Agents

**Loop engine** (`agent/engine.rs`, `engine/`).  State: three maps from sessions to
senders (`cancel_tokens`, `pause_tokens`, `steer_inboxes`), each with a lock of its
own, and the locals of every run.  Operations: start, loop (check cancel and pause,
build the request, ask the model, run the tool calls, checkpoint), end in one of
several ways, clean up; cancel, pause, steer.  Hard: clean-up and the start of the
next run of the session interleave; a panic skips the tail of the run; history is
folded, repaired and cut before it is sent.  Modelled: `AgentRuns`, `ToolRound`,
`History`, `Sessions`, `CutTexts`, `Plans`.

**Approval broker** (`agent/approval.rs`).  Register and wait with a timeout, decide
one, decide in bulk, decide by session, exempt.  Hard: the timer against a late
answer; the bulk acceptance looks first and decides later.  Modelled:
`ApprovalBroker`, `AgentRuns`.

**Write gate and changesets** (`agent/write_gate.rs`, `storage/changeset_sqlite.rs`).
Which run holds which file; a log of what was on disk that can be rolled back.
Modelled: `WriteGate`, `AgentRuns`, `Changesets`.

**Permissions, tool plane, skills' budgets** (`agent/permission.rs`, `toolplane.rs`,
`engine/engine_toolrun.rs`, `skill/budget.rs`).  Overrides, scopes, risk, exemptions,
usage against a limit (of a skill, which has several tools with a permission each), the choice between running side by side and one by one.
Modelled: `ToolRound`.

**Tools** (`agent/tools/`).  Modelled step by step: `write_file`, the blackboard, the
kanban card, memory files, the calendar's reminders, how a page becomes text.  The
others are one step that succeeds or fails.

**Blackboard** (`agent/blackboard_sqlite.rs`, `tools/blackboard.rs`): versioned entries,
compare-and-set, retries.  Modelled: `Stores`.  The message bus
(`agent/message_bus_sqlite.rs`) is called by nobody in this commit.

**Ledger and trace** (`agent/ledger*.rs`, `storage/trace_repo.rs`): a writer thread that
batches steps and checkpoints of all runs; rows built from messages.  Modelled:
`Ledger`, `Sessions`.

**Long tasks** (`commands/longtask.rs`, `storage/longtask_repo.rs`): pause, resume,
orphans, and the panel that offers interrupted runs, dismisses and sweeps them.
Modelled: `AgentRuns`, `Interruptions`.

**Insight** (`agent/insight.rs`, `commands/redact.rs`): runs, steps, tokens and prices
added up for a group or a seat; a digest with personal memory taken out.  Modelled:
`Insight`.

### Around them

**Automation scheduler** (`scheduler/`).  A tick every second spawns an execution of
every due job; an execution writes `run_count`, `status` and `next_run_at` when it is
over, from the row it started with.  Modelled: `Automation`.

**Sessions and messages** (`session/`, `storage/session_repo.rs`, `message_repo.rs`,
`session_event_repo.rs`): messages, an event log, a trace and summaries of one
conversation, each written by statements of its own.  Modelled: `Sessions`.

**LLM clients** (`llm/`): a streaming client with a line buffer, deltas, retries, idle
timeout and cancellation; the repair of tool arguments.  Modelled: `LlmStream`,
`JsonRepair`.

**MCP client** (`mcp/`): one child process per server, a request and its response
matched by id under a mutex, a timeout per line (so a server that prints on is waited
for); a row with status and switch.
Modelled: `Mcp`.

**Storage, start-up and seed data** (`storage/connection.rs`, `migrations.rs`, `seed.rs`,
`lib.rs`): files moved from an old place, schema versions, back-fills, everything
seeded, each phase cut short by a crash.  Modelled: `Startup`.

**Reminders** (`reminder.rs`, `commands/calendar.rs`): a loop that shows and stamps.
Modelled: `Reminders`.  **Workspaces** (`commands/workspace.rs`): rows, sessions filed
under them, knowledge files in a folder, walks of its tree.  Modelled: `Workspaces`,
`UserFiles`.  **Memory files** (`tools/memory.rs`, `commands/memory.rs`,
`user_profile.rs`).  Modelled: `Memory`.  **Skills** (`skill/`, `commands/skill.rs`):
import, switch, delete, diagnose, read pages.  Modelled: `Skills`.  **Attachments and
previews** (`commands/attachment.rs`, `artifact.rs`).  Modelled: `UserFiles`.
**Agent cards**, **diagnostics** of the machine, **metrics**: input and
output.  **Frontend** (`src/src`): issues the commands the models take as the user's.

### How they interact

The interface calls commands; commands call the group manager, the group
scheduler, the engine or a repository.  The group scheduler spawns a future per
task, which asks an executor or runs the engine in the worker's session; the
roundtable runs the engine in a session of its own but writes the same worker row.
The engine builds its request from the session's messages, asks the permission
layer, the approval broker and the write gate before a tool call, and writes the
ledger, the session's tables and the changesets.  All of them share the database,
and single statements are the only atomic steps on it.

## Modules

| module | what it is |
| --- | --- |
| `WorkerLease` | abstract specification: what the worker pool promises |
| `GroupScheduler` | task scheduler, task statuses, worker pool, group lifecycle and the commands on them, in one module because all of them are sections on the same rows |
| `GroupSchedulerProofs` | theorems about it |
| `AgentIds`, `WriteGate`, `ApprovalBroker` | run ids; the gate and the broker as operators, one per critical section |
| `AgentRuns` | runs of the engine, `write_file`, ledger rows, long tasks; composes the three above |
| `AgentRunsProofs` | theorems about it |
| `Topology` | the decisions of a policy, as operators |
| `Roundtable` | the chat of a group; uses `Topology` |
| `RoundtableProofs` | theorems about `Roundtable` |
| `Stores` | blackboard and policy versions; uses `Topology` |
| `ServicesProofs` | theorems about `Stores`, `Changesets`, `ToolRound` and `BoardOrder` |
| `History` | projection of events, folding, compaction and healing of a history, as operators |
| `Sessions` | messages, events, trace, summaries, and the requests built of them; uses `History` |
| `ToolRound` | the tool calls of one answer: policy, budget, approval, parallel or serial, record |
| `CutTexts` | answers cut into bubbles, texts of tools and requests cut to size, as operators |
| `Plans` | the plan and its todo list |
| `Changesets`, `Ledger` | rollbacks beside writing agents; the writer thread |
| `Automation`, `Interruptions`, `Reminders` | jobs; the panel of interrupted runs; the reminder loop |
| `LlmStream`, `JsonRepair` | a streamed answer; the repair passes, as operators |
| `Mcp`, `Executors` | servers and command-line agents: processes, timeouts, rows |
| `Startup` | phases of `setup` |
| `ProgressProofs` | theorems about `Sessions`, `Ledger`, `Mcp`, `Executors` and `Reminders` |
| `BoardOrder`, `Workspaces`, `Memory`, `Catalog`, `Skills`, `Upgrades`, `Insight` | the services their names say |
| `UserFiles` | attachments, previews of artifacts and walks of a folder's tree |
| `UserRecords` | `Catalog`, `Skills`, `Upgrades` and `Memory` side by side, and what a user finds again in all of them |
| `RecordsProofs` | theorems about `Automation`, `Interruptions`, `Workspaces`, `Plans` and the modules of `UserRecords` |
| `MCGroupScheduler`, `MCAgentRuns` | small instances of the two cores |
| `MCTalks` | small chats and small streamed answers, for both of the following |
| `MCServices`, `MCProgress` | all services, one at a time (see [below](#the-services-models)) |

A definition marked `(mutant)` is a deliberately wrong variant of the definition
after it, the form that definition takes with a plausible bug.  No specification
uses it: it is there to show that a property depends on the code it is about.

## The scheduler's model

One group.  `Procs` are the asynchronous activities of the process.  An activity
is either a command of the user or the spawned future of a task; `pc[p]` says
where it is, and `job`, `seat`, `batch`, `todo`, `queue`, `own`, `res` are its
locals.  **One action is one SQL statement or one section under a mutex**, except
where two neighbouring statements touch what nobody else reads in between; every
other activity may step between two actions.

| TLA+ | code |
| --- | --- |
| `group`, `status`, `deps`, `wid`, `hb`, `wstat`, `wtask`, `bind` | columns of `groups`, `tasks`, `workers` |
| `lock`, `done`, `token` | `dispatch_lock`, `completed_batches`, the engine's cancel token of a worker's session |
| `leaked` | tasks whose beater survives a dispatch that failed |
| `stale` | rows the sweeper read and has not yet rewritten |
| `SubmitBatch`, `CreateTask`, `SubmitDone`, `SubmitAborts` | `submit_batch` |
| `Gate`, `Scan`, `Check`, `Announce`, `AlreadyAnnounced`, `NextBatch`, `Return` | `process_batch` and its callers |
| `DispatchSkipped`, `DispatchClaim`, `DispatchNoAgent`, `Acquire`, `AcquireBusy`, `Start`, `Spawn`, `SpawnFails` | `dispatch_task`, with `pick_idle_worker`, `acquire` and the filling of an empty seat |
| `RunBegin`, `RunEnd`, `Judge`, `Settle`, `Release`, `Unlink` | the spawned future |
| `Beat`, `SweepScan`, `SweepTask` | the beater and `run_sweeper_loop` |
| `ApproveBatch` ... `AttachWrite` | the task commands |
| `CancelBatch` ... `CancelDone` | `cancel_batch` |
| `GroupPause` ... `ResumeCollect` | pause, resume, dissolve |
| `GroupAddWorker` ... `RemoveDelete` | the worker commands |
| `RoundtableTurn`, `RoundtableReply` | what `run_worker_turn` does to its worker |
| `Stall`, `CrashRecover` | the machine sleeps; the process dies and runs `recover_orphan_dag_tasks` |

Time is three values of a heartbeat: absent, fresh, older than the timeout.
`Stall` makes all of them old at once; otherwise a beater keeps its task fresh.
`announced` and `revoked` count the two events a batch's owner may get.
`CrashRecover` clears both: promises about events are per life of the process,
because `completed_batches` is memory.

Environment: `Commands` says which commands the user gives (`MaxCommands` of them
in a behaviour), `Faults` which failures happen (`MaxFaults` crashes and stalls;
failing inserts, sessions and profiles are not counted).

## The agent core's model

`run[r]` is the local state of the future of run `r`; run ids are fresh uuids, so
each is used once.  `row` and `ckpt` are its `runs` row, `token[s]` the three
senders of session `s`, `file` and `log` the disk and the newest changeset of a
file (contents are named by the run that wrote them; a run that rewrites what it
wrote writes the same name again).  What a run does between two awaits is one
action unless it takes a lock somebody else takes, or changes the disk, in
between.

| TLA+ | code |
| --- | --- |
| `Send`, `ResumeTask`, `SpawnResumed`, `Arm` | `send_message`, `resume_task`, `run_guarded` and the head of `run` |
| `Load`, `ProposalDecided` | loading the session, planning and the proposal broker |
| `Iterate`, `LlmEnds`, `LlmCalls`, `Panic`, `RoundOver` | `run_agent_loop` |
| `Call`, `Decided`, `Elapse`, `DropReceiver`, `TimeoutDeny` | permission, `await_decision` |
| `Invoke`, `WriteFile`, `NoDirectory`, `WriteFails`, `WriteTorn`, `Written`, `Record`, `LetGo` | a tool call; `write_file` with `begin_write` and `commit_write` |
| `Leave`, `ExitStep` | the ways out: `cleanup_cancel`, `ledger.finish`, `release_run`, in the order each exit has them |
| `Cancel`, `Pause`, `SetAutoApprove`, `ExemptTool`, `Decide`, `BulkAccept`, `BulkDeliver`, `BulkIgnore` | commands |
| `Crash` | the application goes down and up, `mark_orphans_interrupted` |

`granted` is a history variable: which requests the user let through, and how.

`Overlaps` names two things the interface prevents in practice and the process
does not: sending a second message while a session's run goes on, and resuming a
session that is just starting.  It is `{}` in every run here; with either element
two runs share a session and `Reachable` falls, which the hazard at
`commands/longtask.rs:254` records.  A third way to such an overlap is the chat's: the
engine of a turn that was dropped by a time limit, and the next turn of the member, run
in one session of the member (`SessionIsOwn`, among the [departures](#departures-met)); the two then share senders too, and what
`agent_life` shows of a session holds of one without such an engine.

What is written to a file other than by `write_file` (a shell command, an editor)
is outside the gate and outside the model: `LogIsCurrent` is a promise about the
runs among themselves.

## The services' models

Around the two cores are some twenty-five parts that share no rows and no memory
with one another, or only rows a part treats as its environment.  Each has a module
with variables, `...Init`, `...Next`, its own fairness where it has any, and bounds
that are part of its state: a **kit** (`logKit`, `jobKit`, `mcpKit`, ...) is a record,
chosen in the initial state and used up as the behaviour goes on, of what the user
and the environment may still do (edits, crashes, failing statements, posts).
Different kits look into different corners, and TLC checks all of them in one run.

`MCServices` and `MCProgress` put these parts side by side.  A behaviour looks into
one of them, its `focus`: the others start in one state and never move.  This is a
sum, not a product, of the parts' states, which is what independence allows, and no
interleaving of two parts is lost, because no action of a part reads what another
writes.  `MCProgress` asks the fairness of the part in focus; the other parts are in a
state that owes nothing.

| part | one action is | hard about it |
| --- | --- | --- |
| `Roundtable` | a statement or a lock section of `post`, `run_worker_turn`, `rerun_from`, `fork`, `send_message` | turns inside turns that wait for one another's locks; a time limit that drops a turn and its lock and sets its engine loose (`Timeout`, `Stray`, `StrayEnds`) |
| `Sessions` | a statement of the session manager, of the repair at the start, of `get_trace`'s rebuild; a request built or folded | four tables for one conversation, none in one transaction with another |
| `ToolRound` | one call's permission, budget, approval, call and record | parallel and serial calls of one answer; answers in any order; a permission per tool, a budget per skill |
| `Changesets` | the read, the archive and the overwriting of a rollback; the steps of an agent's write | the rollback does not ask the gate |
| `Ledger` | a message received, a batch committed, a row closed | batches across runs; a bad row takes its neighbours with it |
| `Stores` | a read, a check, a compare-and-set | owner, members and two dialogs between them |
| `Automation` | a tick, one half of an execution, an edit's read or write | an execution writes back the row it read long ago |
| `Interruptions` | a statement of the panel, the sweep, a start | what the panel offers was read earlier |
| `LlmStream` | a chunk, a failure, a retry, a timeout, the user's stop | lines cut across chunks; retries after something was shown |
| `Mcp` | a line read or written under the mutex, a process spawned, dead or killed, a row written | late answers on the pipe the next call reads; lines nobody asked for, each of which starts the wait anew |
| `Executors` | probe, login, card, spawn, output, timeout; `JudgeTask` and `SettleTask`, the look at the row and the write; `TellCancel` and `CancelTask`, the same of a cancellation | process, map entry and row, each settled on its own; either write overruns the other |
| `Startup` | a file moved, a schema statement, a seeded row | every start may die anywhere, and the one before it did |
| `Reminders` | a scan, a notification, a stamp, an edit | shown first, stamped later |
| `BoardOrder` | one card's read or UPDATE | a column is renumbered card by card |
| `Workspaces` | one statement or file of creation, filing, deletion | autocommitted, row last |
| `Memory` | the read or the whole-file write of the tool, the distiller, the profile page | nobody holds anything in between |
| `Catalog` | the read or write of an edit; row, policy and seats of a group | column-wise write-back of what was read |
| `Skills` | folder, row, budget, references of an import; deletion; a diagnosis read by read | partial imports; tables that move while they are diagnosed |
| `Upgrades` | the steps of a confirmation and of the way back | two windows, a fold, failures that are swallowed |
| `Plans` | planning, a round's head, its outcome, an end | a run may end in a dozen ways, and the list must be true after each; a model that takes too long and a panic leave an entry active |
| `Insight` | one of the reads of a view | totals and rows from different moments |
| `UserFiles` | `save` of an attachment with decoding and naming; which file a preview opens; what a walk of a tree shows | base64 by hand |
| `JsonRepair`, `CutTexts`, redaction in `Insight`, pages in `Skills` | a pure function over bounded inputs | checked against a definition of what is meant, not of how |

In the last group the initial states enumerate the inputs: a page is built of pieces
whose text is known, an argument is written down with known slips, a folder's tree is
a set of entries; the property compares what the code's algorithm returns with what
the input was built from.

What is shared and left out of a part is named in its module's head: `Roundtable`
takes the engine's answer as a choice, `Automation` a job's outcome, `Sessions` a
model's calls.

## Runs

State counts are distinct states.  Deadlock is checked in the runs of the agent core
(whose only idle states are those in which the run ids are used up).  In the
scheduler's runs the system may come to rest, when everything is submitted and done
and the user gives no more commands; in `services` and `progress` a behaviour ends when
its kit is used up.

| run | question | states |
| --- | --- | --- |
| `core` | Can a second `process_batch` or a restart at any point break the dependency gate, run a task twice, put two runs on a worker, reopen a terminal task?  Is the worker pool a `WorkerLease`? | 400 509 |
| `live` | Is a task that finds the only worker busy, or its group paused, dispatched in the end? | 26 603 |
| `tasks` | Do the commands on tasks and batches, racing with dispatches, runs and the sweeper, ever leave a zombie, announce a batch twice, or announce it after its cancellation? | 336 317 |
| `pool` | Do the commands on workers, the group's lifecycle, edited statuses and roundtable turns ever leave a worker `Busy` with nobody to free it? | 328 055 |
| `notice` | Is an announced batch really over, through cancellations, stalls, half-created batches and dispatches that fail after the claim? | 130 093 |
| `agent_tools` | Two sessions write one file while directories and writes fail, runs panic and approvals are never answered: does the log stay in step with the disk, does anything stay behind, does every run end? | 177 186 |
| `agent_approve` | Is a tool call that was put to the user executed only if that very request was let through, and a high-risk one only one by one? | 392 370 |
| `agent_life` | Three runs of a session started, paused, cancelled, crashed and resumed: does the table tell the truth, do the senders belong to the run that is going on, is a run continued once? | 479 333 |
| `services` | What must never happen in any of the services, through their races, crashes and failing steps? | 675 268 |
| `progress` | Does what has to come to an end do so: chats, ledgers, server calls and tests, stopped streams, agent processes, starts, reminders, jobs? | 106 977 |
| `x_chat` | finding: `MutualExclusion` falls to a roundtable turn | (violation) |
| `x_restart` | finding: `WorkerReclaimed` falls to a restart during a task on a picked worker | (violation) |

A property of a run is often a conjunction of named parts; each part has its own
comment, and its own mutant in `PROJECT.json`.

| property | parts and what they say |
| --- | --- |
| `DependenciesRespected`, `SingleRun`, `MutualExclusion`, `LeasesAreExclusive`, `TerminalIsFinal` | the gate is evaluated in a scan whose lock is gone when the task starts; two activities that scanned one task, or picked one worker, are told apart by what is read again under the lock and by `acquire`.  `LeasesAreExclusive` is refinement: `Holders` is mapped to `lease` of `WorkerLease` |
| `InProgressIsOwned` | a task shown `InProgress` has an activity that will settle it |
| `OwnerToldOnce`, `AnnouncedIsTerminal` | `AnnouncedOnce`, `NoCompletionAfterCancel`; what the owner of a batch is told, once and rightly |
| `BusyIsHeld`, `EventuallyDispatched` | workers come back, tasks get their turn |
| `FileLogSound` | `LogIsCurrent`, `ChangesetsChain`: the newest changeset shows what is on disk, each starts from the one before |
| `FinishedRunsLeaveNothing`, `EveryRunEnds`, `ApprovedByHuman`, `Reachable` | the ways out of a run; the broker, its timer, the bulk acceptance; the senders |
| `RowsAreTrue` | `RunningIsLive`, `ResumedOnce` |
| `TurnsKeepApart` | `OnlyStraysIntrude`: a turn hears no other turn of its member, save an engine that a time limit set loose (without that exception it is `SessionIsOwn`, which falls: see [Departures met](#departures-met)); `RepliesWhole`: none speaks in the middle of its reply |
| `RoundsKeepOrder` | `RoundIsBlind`: who is addressed together answers without seeing the others; `SummonedKnowsWhy`; `ChainsBounded`; `QuietMeansIdle`: without turns and loose engines nobody is `Busy` but a member whose turn was cut off |
| `ModelIsTold` | `RequestFaithful` (`RequestPaired`, `NothingForgotten`), `PageTextKept`, `OldestCutFirst` |
| `ModelIsHeard` | `ShownIsAnswered`, `AnswerIsWhole`, `RepairRecovers`, `TolerantRecovers`, `PostsWhole` |
| `LogsAgree` | `EventLogMirrors`, `TraceComplete`; `CallsHealed`: the repair at the start reads log and messages, and leaves no call open |
| `CallsByPermission` | `ReplyInOrder`; `DeniedOnlyOverBudget`: what policy denies runs only as a tool of a skill whose budget is used up, and no tool of such a skill runs unasked or unexempted; `RanByPermission` |
| `ChangesKept` | what a rollback or a write overwrites can be had back |
| `StoresKept` | `WritesBuildOn`: a blackboard value is made from the one it replaces; `PoliciesKept`: no saved version is replaced |
| `JobsKept` | `PausedQuietly`, `CountIsNotAhead`, `DeletedStays` |
| `OffersAreTrue` | `OfferedResumes`, `PausedIsOffered`, `RestartAdopts` |
| `PlacedWhereAsked` | an operation on the board that nobody interrupted leaves its card where it was asked to |
| `WorkspacesKept` | `EveryEntryCounted`, `MovedWhole`, `OwnTextKept` |
| `RecordsKept` | `CatalogKept` (`RestrictionsSurviveExport`, `EditsKept`, `SeatedUnderPolicy`), `SkillsAccounted`, `UpgradeKeepsTalk`, `MemoryKept` (`MemoryIsolated`, `NotesKept`, `NotesOnOwnLines`, `ProfileReadsBack`) |
| `TodosTell` | the todos a run shows say what its rounds did; an entry is left active by a model that took too long or a panic, and by no other end |
| `ViewsKept` | `AttachmentReadsBack`, `ViewsAgree`, `TreeIsBounded`, `ProductFound`, `TotalsCovered`, `RedactionHides` |
| `LedgerKept` | `ClosedRunsAreComplete`, `StepsNumbered` |
| `ServersKept` | `AnswerIsOwn`, `NoStrayServer`, `EnabledIsWanted` |
| `ExecutorSettles` | `NothingRunsOn`; `CancelledNotDone`: a task shown as completed was not cancelled, unless the cancellation was written between the dispatch's look at the row and its write |
| `RingsOnce` | one time of a reminder rings once, and once more per crash at most |
| `WaitsEnd` | `Settles`: members that wait for each other's turn locks are freed, and engines set loose end; `FinishReturns`: the ledger answers; `ServersSettle` (`CallsReturn`: provided the server falls silent at last, `TestSettles`); `CancelStops`: a stopped stream ends, also one that a chatty server keeps alive; `RowSettles`: a task's row is settled, also when its agent hangs, provided the questions put to its program return (`ProbeReturns`) |
| `StartsWhole` | `UpIsWhole`, `PresetsOnce`, `TasksHaveSeats`, `LogFollows`, `ComesUp` |
| `DueHappens` | `RemindersRing`, `ActiveIsRun` |

`TypeOK` is checked once for each core and proved for both; the chat's is proved as part
of its invariant.

Some of these properties exempt a case by name, where the code gives no promise: a
memory file two writers *crossed* on, a job paused while it executed, a trace whose
rebuild a crash cut, a batch of the ledger that was dropped, archive rows in
`ChangesKept`.  The exemption is a history variable that the hazard alone sets, and the
stronger statement is written down where a document makes it (see
[Departures met](#departures-met)).

## Bounds

`MaxCommands` and `MaxFaults` bound the user and the environment of the scheduler;
`MaxIters`, `MaxCalls`, `MaxCrashes` and the number of run ids bound the agent core;
kits and a few `Max...` constants bound the services.  No state constraint is used.

Scheduler:

- Tasks: one chain of two and an independent one.  Dispatch treats a candidate by
  its own row and its dependencies', so two tasks compete for a worker, one waits
  for another, and the third keeps the batch open.
- Workers: two (three in `pool`, with an empty capability seat): one pre-assigned,
  one picked.  One in `live`, so that tasks have to queue.
- Activities (`Procs`): three, two in `live` and `notice`.  A submission, a run and a third party
  (a second process_batch, another run, a command) is every kind of race the code has
  between two statements; they are symmetric and reduced as such, except where
  liveness is checked.  A dispatch waits for a free activity to spawn its run on;
  activities end, so it gets one.
- Commands: one per behaviour, chosen freely from the run's list at any moment;
  two in `live` (a pause and a resume).
- Faults: one crash in `core` and `x_restart`, two stalls in `notice`.  `MaxFaults`
  does not bound the failures of inserts, sessions and profiles.

Agent core:

- Two runs for the gate and the broker (holder and contender), three for
  resumption (a run, its successor, and a rival).  The safety properties treat the runs
  alike, so their permutations are a symmetry of `agent_approve` and `agent_life`.
- `MaxIters`: two iterations reach the two failed rounds that end a run, the
  checkpoint and a pause between rounds.  `MaxCalls = 1`: two rounds already order two
  calls of one run; what several calls of one round do is `ToolRound`'s.
- `MaxCrashes = 1` in the run about resumption.  A second crash would need a fourth
  run id to show anything new.  `MaxCrashes = 0` in `agent_tools`, and no torn write:
  see [Theorems](#theorems).

Services:

- Two members, up to four turns, one level of follow-ups: a chain longer than its
  limit, two turns in each other's way, a third behind them, or an engine set loose
  beside them that starts the third or fourth.
- Three runs of a session with up to four calls, with folds and compactions small
  enough (`FoldAt = 4`, `RunMin = 5`) to fall between a call and its result; two readers
  of the trace, one crash, one failed write.
- Three calls in a round with two side by side: a full chunk, and one behind it.  A skill
  with two tools, one of them denied, so that the other can use up their budget.
- Two executions of a job at a time, three waiting callers of a server, two writers
  next to the owner of the blackboard, three cards, three writers of memory files:
  two in each other's way and one that is late.
- One crash and one failing step per kit.  Two crashes in a row are in `Startup`, where
  an unfinished start is what the next one begins with: every phase may die once per
  start, up to three starts.
- Pure functions: pages and requests of up to three pieces, values of up to three
  units, todo lists of three, trees of four entries, five marks in a text, answers of
  three sentences.  Each pass of those algorithms looks at a symbol and its
  neighbours, so a defect shows in two or three.

## Fairness

Scheduler: `WF_vars(Work(p))` for every activity, `WF` of `Beat(t)`, `SweepTask(t)`
and `SweepScan`.  `Work` is what an activity does once it was started; starting
one (a submission, a command) and every failure is never obliged to happen.  The
runtime polls a future that is ready; a statement returns; the dispatch lock is a
tokio mutex, a fair queue, held for a few statements; an engine run is bounded in
rounds and each wait inside it by a timeout; the beater and the sweeper are tickers.

Agent core: `WF_vars(RunStep(r))` for every run.  Waits for the model are bounded by
`ITERATION_TIMEOUT_SECS`, tools by `TOOL_TIMEOUT_SECS`, approvals by
`APPROVAL_TIMEOUT_SECS`, proposals by `PROPOSAL_TIMEOUT_SECS`.  The user is not
fair: `EveryRunEnds` holds although nobody answers.

Services, weak fairness throughout:

- `Roundtable`: a turn's steps are polled and its lock is a fair mutex; an engine ends
  (its rounds and waits are bounded), whether its turn is still there or not; a direct
  message that waits is dropped by `TOOL_TIMEOUT_SECS`.  `Settles` needs that timer and
  falls without it (it is the mutant of the property).
- `Ledger`: the writer thread receives and `finish` runs on; nothing is asked of whoever
  sends.
- `Mcp`: a call steps (`recv_timeout` bounds the wait for a line) and gets the session's
  mutex; a test ends.  Servers are not fair.  `CallsReturn` asks of a server only that it
  does not print for ever (`FallsSilent`), because each line starts the wait anew;
  `SessionComesFree` does not ask it and falls (see [Departures met](#departures-met)).
- `LlmStream`: the task is polled and the idle timer fires.  The server is not fair:
  a chatty one resets the idle timer for ever, and a stop is seen with its next chunk.
- `Executors`: reading, settling and `CLI_TIMEOUT_SECS`, and a probe whose program answers.
  The agent is not fair, nor is its program when asked for its version or login: nothing
  bounds that wait (`cli.rs:367`, `:385`), so `RowSettles` is about setups in which it
  ends (`ProbeReturns`).
- `Startup`: a start goes on; dying is never obliged, the user starts again.
- `Reminders`, `Automation`: the tickers tick, the notification returns, executions step.

`EventuallyDispatched` is checked without commands that edit a status and without
the roundtable: see [Departures met](#departures-met) and the first of the
[hazards without a run](#hazards-without-a-run).

## Findings

Each is a run TLC is expected to find violated, with the smallest instance that
shows it.

- `x_chat` (code): a roundtable turn sets its worker `Busy` without asking and `Idle`
  when it ends (`group/roundtable.rs:1290` and `:1755`).  A worker that runs a task
  is offered again and a second task runs on it at the same time, in the same
  session; `WorkerPool::acquire` says "concurrent engine run denied".
- `x_restart` (code): `recover_orphan_dag_tasks` frees the worker in the task's
  `worker_id`, which a picked worker never gets into.  It stays `Busy`, although
  `docs/architecture-collab-agent-m2-2026-08-03.md` names just that.

## Departures met

Statements of the repository's documents or comments that the model does not meet.
They are definitions of the modules, stated there with their source; none is in a
run, and each falls when it is added to the one named.

| definition | says | where the code differs | add to |
| --- | --- | --- | --- |
| `PausedStays` (`Automation`) | a paused job stays paused (`docs/longtask-design.md:176`) | an execution under way writes the status it computes (`scheduler/engine.rs:184–190`) | `services` |
| `RollbackKeepsAll` (`Changesets`) | no rollback loses an existing change (`docs/run-changeset-review-design.md:36`, `:102`) | an archive row is rolled back without being archived (`storage/changeset_sqlite.rs:142`) | `services` |
| `HistoryStaysFolded` (`Sessions`) | what was folded is sent as its summary (`docs/architecture-adjustment-plan.md:15`, `:163`) | the second fold sends older history raw (`engine_history.rs:116–135`) | `services` |
| `BoardObeysPolicy` (`Stores`) | the policy holds for the blackboard (`docs/architecture-collab-agent-m2-2026-08-03.md:985`) | entries are written under `bb:<group>`, which is no worker session, so the policy is never asked (`tools/blackboard.rs:79`) | `services` |
| `BudgetAsks` (`ToolRound`) | an exhausted skill is put to the user (the same, `:1087`, `:1091`) | the budget makes it a question, an exemption of the session answers it afterwards (`engine_toolrun.rs:564`), also for a tool the policy denies | `services` |
| `SessionIsOwn` (`Roundtable`) | a fixed session and a mutex per member make its turns serial, nothing is written concurrently (`docs/architecture-adjustment-plan.md:147`) | the time limit of a tool call (`engine_toolrun.rs:780`) drops the turn it waits for with its lock, but the turn's engine is a task of its own (`agent/engine.rs:685`) and writes on in the session the next turn has cleared and refilled | `progress` |
| `SessionComesFree` (`Mcp`) | a call that takes too long does not hang the session (`docs/prd-collab-agent-2026-08-03.md:233`) | every line that is not the answer starts the wait anew (`mcp/session.rs:314`) | `progress` |
| `RepairKeepsValues` (`JsonRepair`) | the repair changes no value (comment at `llm/json_repair.rs:36`) | a comma before a bracket is dropped inside a value too | `services` |
| `DefaultIsGlobal` (`Memory`) | the default workspace has one project memory (`docs/design/workspace-design.md:115`) | NULL and `"default"` go to two files (`tools/memory.rs:49`) | `services`, with `WorkspaceOf` giving `"default"` |
| `CompletedEndedWell` (`Executors`) | an agent that exits with an error failed (`docs/m3-plan-2026-08-04.md:264`) | with any output it counts as completed (`executor/cli.rs:567`) | `progress` |
| `OpensAgain` (`Startup`) | a database opens again after any interrupted migration (`docs/run-changeset-review-design.md:28`, `:54`) | the column is there, the version is not, and ALTER fails for ever (`storage/migrations.rs:96`) | `progress`, with `BootKits <- BootCut` |
| `EventuallyDispatched` | a task moved to `Pending` has its batch processed (`docs/kanban/PRD.md:91`) | `task_set_status` processes it for terminal statuses only (`commands/group.rs:1426`) | `live`, with `Commands = {"set_status"}` |
| `ResumeNeverGoesBack` (`AgentRuns`) | iterations count over the whole job (`docs/longtask-design.md:144`, `:167`) | a resumed run that dies before its first checkpoint hands on 0 (`storage/longtask_repo.rs:402`) | `agent_life` |

## Hazards without a run

`PROJECT.json` lists the hazards some property watches.  These have none, because no
text of the repository says which outcome is meant, or the repair would be elsewhere.
They were met while modelling, and the models reach most of them.

Scheduler and groups

- A task that found its worker busy with a roundtable turn, or a worker released by
  another batch, waits for the next trigger (`group/roundtable.rs:1290`,
  `group/scheduler.rs:786`).
- `release` is two statements that ask nobody (`group/worker.rs:157`); the group's status
  is read once before the scan (`scheduler.rs:363`); a retried run's predecessor settles
  the row of the new one (`scheduler.rs:749`); a dispatch that fails after its claim
  (`scheduler.rs:606`); an executor's error writes `mark_failed` over any status (`:730`).
- Pause, resume and dissolve read and write in two statements (`group/manager.rs:97`), a
  capability seat is `Idle` before it is `Offline` (`:170`); `commands/group.rs:547` checks
  `Busy` and writes later; manual status changes accept every transition (`:1422`);
  `append_outputs` is two statements (`task_board_repo.rs:86`); the kanban tool writes back
  the status it read (`tools/kanban.rs:143`).
- A group's row, topology and seats are separate statements whose errors are swallowed;
  deleting a preset does not look at its seats; two exports in one second share a file
  (`commands/group.rs:327`).
- A nested turn that is dropped leaves its worker `Busy` (`roundtable.rs:1290`, `:1680`), and
  the answer of the engine it leaves behind is written to the session and never posted; a
  first bubble that is nothing but the speaker's name is not posted, and the mentions
  and attachments that go with it are lost (`:1600`); the arms for a lost race and the
  abbreviation branch (`:1150`) are dead code.
- A second confirmation of an upgrade makes a second group; a fold during one is undone;
  dissolving the group leaves the session pointing at it (`commands/upgrade.rs:212`).

Agents

- A session's steering inbox can be taken away by the clean-up of an earlier run
  (`agent/engine.rs:900`); a resumption of a session that is just starting
  (`commands/longtask.rs:254`, `:350`); `write_file` returns with the file held when the
  directory fails (`tools/filesystem.rs:77`).
- Call ids start again after a fold, and after a deletion that was cut between its two
  statements, so the repair at the start, which compares sets of ids, can take the
  result of an older call, or one that lost its call, for the result of the one that
  hangs (`session_event_repo.rs:166`): `CallsHealed` is about calls whose id is new.  A
  summary is summarised again (`engine_loop.rs:221`); artifacts are stamped with the
  previous run's answer (`commands/agent.rs:336`).
- Waiting for the user counts against a skill's time (`engine_toolrun.rs:860`); the budget
  turns a denial into a question, for every tool of the skill whichever used it up
  (`:551`, `skill/budget.rs:44`); a provider that is down at the first build stays
  absent.
- `<header>` is taken for `<head` and swallows a page (`engine_toolrun.rs:977`); the note of a
  cut result may be cut (`engine_loop.rs:174`, which subtracts characters from bytes).
- A plan's entry is marked failed when the answer itself is its result; it stays active
  when the model takes too long (`engine_loop.rs:500`) or the run panics
  (`engine.rs:688`); a resumed run has no list.
- A step of a run whose `begin` failed rolls back the batch of all (`ledger_sqlite.rs:117`).

Around them

- An execution longer than a second is started again every second
  (`scheduler/engine.rs:85`); `record_run` un-pauses, and an edit during an execution is
  overwritten; a completed job enabled again has no time until a restart.
- A failed handshake drops a server's process without killing it (`mcp/session.rs:196`);
  a server's own request with a waiting id is taken for the answer (`:319`); a crash leaves
  `connecting`.
- A delta with two calls keeps the last (`openai.rs:412`); a clean close in mid-stream is
  taken for the end; a stop is seen with the next chunk.
- The scan for missing colons goes on inside the string it has just mended
  (`json_repair.rs:194`).
- `AgentExecutor::cancel` has no caller; the `running` map is overwritten by the same task.
  A cancellation written between the dispatch's look at the row and its write is
  overwritten (`group/scheduler.rs:749`, `:762`), as is a completion by a cancellation that
  read the row before (`:831`).
- A program that does not answer `--version` or the question whether somebody is logged in
  hangs the run of its task (`agent/executor/cli.rs:367`, `:385`); the plans speak of
  command-line agents that run out of time being killed
  (`docs/architecture-adjustment-plan.md:310`, `:565`), which is about their tasks.
- `config.json` is loaded, changed and saved without a lock, and an unreadable one counts
  as defaults (`config.rs:101`); providers' keys are refreshed at start and with a message.
- `calendar_event_update` binds one parameter too many (`commands/calendar.rs:179`), so
  every edit of the window fails; a reminder edited by the tool keeps its stamp.
- The scheduler starts before orphans are recovered and histories healed (`lib.rs:233`
  before `:281`); the demo group is seeded at every start that finds no session
  (`seed.rs:86`); default servers come back (`seed.rs:587`).
- An unreadable memory file counts as empty and is rewritten (`tools/memory.rs:193`); a
  broken marker of the profile makes a second block.
- A session filed under a workspace while it is deleted keeps the dangling id
  (`commands/workspace.rs:292`); two hundred entries are taken before the hidden ones are
  dropped (`:377`); pasted files of one name and millisecond overwrite each other
  (`attachment.rs:163`).
- The preview's fallback reads `_` in a name as any character (`artifact.rs:283`); an
  interrupted run's duration includes the time the program was down
  (`agent/insight.rs`); a digest cut inside a private block shows its rest.
- A deleted skill leaves folder, budget and references; a disabled one is still read by
  jobs (`scheduler/engine.rs:143`).

## Theorems

TLAPS proves these for every value of the constants that the named assumptions of
the modules allow: any number of tasks, workers, members, sessions' messages, keys,
policies, activities, runs, files, jobs, workspaces, skills, notes, windows, server
calls and reminders, and any kit.  The assumptions say what kind of thing a constant is
(`ConstantsAssumption`, `BoundsAssumption`, `ChunkAssumption`, `LedgerConstants`,
`PlanConstants`, ...), that a marker is none of the things it marks the absence of
(`NoRunAssumption`, `McpConstants`, `UpgradeConstants`, `RoomConstants`,
`MemoryConstants`), or what the code's own constants and parsers give: the tail kept is
shorter than what is compacted (`HistoryConstants`), a profile has its columns
(`CatalogConstants`), a front matter ends at its rule (`SkillConstants`).  TLC evaluates
each in the runs.

| theorem | says | premise | argument |
| --- | --- | --- | --- |
| `TypeCorrect` | `TypeOK` of the scheduler | none | one step per action |
| `CompletionAnnouncedOnce`, `CancellationIsLast`, `OwnersAreTold` | `OwnerToldOnce` and its halves | none | `Recorded`: a batch announced or cancelled is in `completed_batches` |
| `NoZombies` | `InProgressIsOwned` | `"session"` not in `Faults`, `"set_status"` not in `Commands` | it is inductive with `TypeOK`; the lemma `OnlyOwners` singles out the five actions that can disturb it |
| `RunsAreExclusive` | `MutualExclusion` | `Commands` and `Intruders` disjoint | `Leased`: who holds a worker has it `Busy`, and alone |
| `SchedulerLeases` | refinement of `WorkerLease` | the same | `Leased`; each step is one of the abstract steps or leaves every lease alone |
| `WorkersComeBack` | `BusyIsHeld` | neither `"session"` nor `"crash"` in `Faults` | each busy worker is tied to an activity that is not over, and only `Release` and the commands untie it |
| `DependenciesFirst`, `OneRunPerTask`, `TerminalsStay` | `DependenciesRespected`, `SingleRun`, `TerminalIsFinal` | `Commands` and `Rewriters` disjoint, no sweeper | `Ordered`: candidates of a scan are ready, a claim stands until it is served, a task is served once |
| `AnnouncementsAreTrue` | `AnnouncedIsTerminal` | `Commands` and `Reopeners` disjoint | `AnnouncedOver`, with who may still process a batch |
| `AgentsAreTyped` | `TypeOK` of the agent core | none | one step per action, runs seen by kind |
| `NothingUnapproved` | `ApprovedByHuman` | none | `BrokerInv`: a request has one question at a time, a permission is of the request it was given for, and the bulk acceptance gives none to what it may not |
| `RunsCleanUp` | `FinishedRunsLeaveNothing` | none | `Owed`: what a run still has is what its place still gives back |
| `RunningRowsAreAlive` | `RunningIsLive` | none | `RowsSettle`: a row and the place of its run go together |
| `RowsTellTheTruth` | `RowsAreTrue` | `"resume_early"` not in `Overlaps` | `RowsSettle` and `Continued`: one run continues a job, one marks it, one goes on |
| `LiveRunsAreReachable` | `Reachable` | `Overlaps = {}` | `SendInv`: one run of a session is between arming and leaving, and has the senders its place says |
| `LogFollowsDisk`, `ChangesetsAreChained`, `FileLogIsSound` | `FileLogSound` and its halves | `MaxCrashes = 0`, `"torn"` not in `Faults` | `Inv`: from the gate to the record a run holds its file, and what it read is what is there |
| `ChatIsTyped`, `OnlyStraysAreHeard`, `RepliesAreWhole`, `TurnsAreApart` | the chat's types; `TurnsKeepApart` and its halves | none | `ChatInv`, below |
| `EventLogFollows`, `TraceIsComplete`, `CallsAreHealed`, `LogsFollow` | `LogsAgree` and its parts | none | `LogInv`: the event log ends in the events of the messages, and a message without a row in the trace is in the hands of a reader; `Answered`: at most one call of both tables is open, the one of the run that waits or the one left to the repair |
| `RoundsAreInOrder` | `RoundsKeepOrder` | none | `ChatInv` and `Order`, below |
| `ChangesAreKept` | `ChangesKept` | none | `FileInv`: between the reading of a file and the write, what is on the disk is known, in a row, or came later |
| `CallsArePermitted` | `CallsByPermission` | none | `RoundInv`: calls are run in turn, results are in order, each step tells why it ran, and nothing bars the call in hand (`NotBarred`) |
| `NoWriteIsLost`, `PoliciesAreKept`, `StoresAreKept` | `StoresKept` and its halves | none | a draft is never newer than the board and equal to it when versions are; saved versions are the first n, and no dialog has a later one than the next |
| `JobsAreKept` | `JobsKept` | none | `JobInv`: the count an execution carries is no further than the results there were |
| `OffersAreKept` | `OffersAreTrue` | none | `PanelInv`: only an interrupted run is dismissed, and one the engine has is running |
| `WorkspacesAreKept` | `WorkspacesKept` | none | `RoomsInv`: what a deletion has still to do tells what it has done |
| `CatalogIsKept`, `SkillsAreAccounted`, `TalkIsKept`, `MemoryIsKept`, `RecordsAreKept` | `RecordsKept` and its parts | none | `CatalogInv`, `SkillInv`, `UpgradeInv`, `MemoryInv`, below |
| `TodosAreTrue` | `TodosTell` | none | `PlanInv`: each entry follows from its place, the rounds done and the stage; after a panic the one in hand may be pending or active |
| `AccountsAreKept` | `LedgerKept` | none | `LedgerInv`, below |
| `ServersAreKept` | `ServersKept` | none | `SessionInv`, below |
| `ExecutorLeavesNothing` | `ExecutorSettles` | none | `LeftClean`: a process runs only while the run waits for it, and there is an entry only while something can be cancelled; `CancelStands`: a row that reads `InProgress` has met no cancellation, and the outcome is written on the word of such a row |
| `RemindersRingOnce` | `RingsOnce` | none | `AgendaInv`: a time that is still awaited has rung once per crash at most |
| `CardsArePlaced` | `PlacedWhereAsked` | none | `CardsInv`: what an operation that runs alone has read is still so, and the cards of its line placed so far have their places |

Why a strengthening is needed: `AnnouncedOnce` alone does not know that the guard of
an announcement was recorded; `MutualExclusion` speaks of running activities only,
while the conflict is made earlier, between `acquire` and the spawn; `LogIsCurrent`
does not know what the writer holds and read; `TraceComplete` says nothing while a
reader rebuilds, so it cannot survive the reader's end.  `DependenciesRespected` speaks of
tasks under way, but a task becomes one several steps after a scan chose it; what it was
chosen for must stand until then.  `ApprovedByHuman` looks at a run that is past its
question, so it must know that no earlier answer is still on its way to that run.
`FinishedRunsLeaveNothing` holds of a run that is over because at each place of its exit
what is still owed is known.  `Reachable` depends on the order in which a leaving run and
an arriving one touch the maps of senders.  `CallsByPermission` compares what was decided
with what was run, and the budget is read in between and used up by other tools of the
skill: so the invariant says of the call in hand that a denial was overruled by an
exhausted budget (`NotBarred`), and that a tool of such a skill that nobody was asked
about is exempt (`ByExemption`); of calls that are over it keeps that a denied one was a
tool of a skill.
`PlacedWhereAsked` looks at a column in its order, so the proof must first show that there
is one: with ids to break ties, as many cards as stand before a card give its place
(`OrderExists`).

`ChatInv == Rest /\ Answered /\ Apart /\ Recorded` is the largest of them.  `Apart`
relates three structures: the turns, the locks and the sessions.  At most one turn of a
member is past its lock and it is the one in the table (`Exclusive`); a turn inside a tool
call is the only one there, and who made the call waits, if only as an engine set loose
(`Nested`): a time limit cuts one such link, and what hangs on the engine below goes
on; what a session holds was put there by the holder of its lock, or by an engine whose
turn was cut off (`OwnSession`).  `Recorded` relates turns and the conversation:
entries of one reply are not separated by another turn of the member, because only a
turn that holds the lock posts, and one that lost it posts no bubble again (its engine may
still send direct messages).  Each of the
lemmas `MoveIsApart`, `LockIsApart`, `FillIsApart`, `SpeakIsApart`, `EndIsApart`,
`DropIsApart`, `StartIsApart`, `CallIsApart` shows that one kind of change to the turns keeps them
apart, and each action is one of those kinds.

`Order == Based /\ Caused /\ Heard /\ Posted /\ BusyIsTaken` rests on `ChatInv`.  A turn is
anchored in the conversation and writes behind its anchor (`Based`), and it hears only
what is before it (`Heard`): so who is addressed together hears nothing of the others.
The message that summoned a turn is before its anchor, and one link nearer to the owner
(`Caused`); `Posted` is what makes the anchor of a follower come after the reply that
summons it.  `ChainsBounded` follows without induction: of the places of a chain where
the depth is less than the place, the first would follow one where it is not.

The services' properties look at tables, and their invariants add what is under way
between two statements:

- `CallsHealed` is about what the repair leaves behind; while it is at work, or a run
  waits, one call may lack its result, and the invariant says that it is the last
  message and that both tables agree on it.  The proof asked for two words more in the
  property than the runs had needed: a result that lost its call to a deletion cut in
  half would be taken for the result of a later call with its id.
- `LedgerInv`: the batch is numbered on from the rows, the channel goes on from the
  batch to the last step handed in, nothing of a run comes after its flush, an answered
  run has nothing pending, and after a crash nothing moves.
- `SessionInv` of `Mcp`: the holder of the mutex is the only call past it, a process owes
  other calls only answers with lower numbers, and one that shakes hands was asked for
  nothing else.
- `CatalogInv`: a window nobody overtook since it read holds the row as it is, and a
  group is made in the order of its statements.  `SkillInv`: ids are given out once, and
  what a diagnosis has read was so at one moment since it began.  `UpgradeInv`: the steps
  of a confirmation are those its group shows, and the transcript was the end of the talk
  then.  `MemoryInv`: every file is made of whole lines, a writer's notes are its own,
  there is at most one profile section, and what a writer holds is what is in the file
  unless it was crossed.

The premises are not for the prover's sake, each is what the code needs:

- a session that cannot be opened leaves its task `InProgress` with a beater and no
  run (`SpawnFails`), and a status written by hand has no run behind it; the same fault,
  and a crash until the recovery has run, leave a worker `Busy` with nobody to release it;
- `Rewriters` are the commands that write a task's status or its worker whatever it is
  (`retry`, `reassign`, `skip`, `set_status`, `attach`, `cancel`, `remove_worker`), and the
  sweeper writes `Failed` over whatever a row it has read has become; `Reopeners` are those
  that reopen a task of an announced batch, or process one that is still being submitted;
- a resumption of a session that is just starting marks a row it does not look at again
  (`"resume_early"`), and two runs of a session that overlap share its senders: the
  interface keeps both from happening;
- `Intruders` are `cancel`, `add_seat`, `worker_status`, `remove_worker` and `chat`:
  the commands that write a worker's status, or delete its row, without holding the
  worker.  `x_chat` shows what one of them does;
- a crash, or a write that fails after the file was truncated, leaves a file no
  changeset shows.

The proofs of the scheduler start with frame lemmas (`OnlyAnnouncers`, `OnlyOwners`,
`OnlyHolders`) that go through all actions once and leave the few that matter; the
agent core's calls a step `Quiet` when it neither opens, uses nor passes the gate.

## Only model-checked

Liveness (`EventuallyDispatched`, `EveryRunEnds`, `WorkerReclaimed`, all of `progress`) is
out of this prover's reach, and so is what a recursive pass computes for every input
(`JsonRepair`, `CutTexts`, `UserFiles`, `History`): the library's
induction theorems take an operator as a parameter, which no installed backend can
instantiate.  Only `JsonRepair` and `UserFiles` declare RECURSIVE operators, and no module
with a proof reaches them; the others, `History` among them, which `Sessions` uses, are
written with recursive functions and folds.

That leaves these to TLC: `ModelIsTold`, `ModelIsHeard` and `ViewsKept`, whose parts say what
a pass over a text, a history, a folder or a table returns; and `StartsWhole`, whose
`ComesUp` is liveness and whose safety half is about what the filters and folds of a
start do to the whole list of rows.  Outside the premises named above, the properties
of the two cores are checked by TLC and not proved.

## Not modelled

- Texts: prompts, titles, wording of errors, results of single tools, layouts of exports.
  No control depends on them, except where a language model decides, which is a
  nondeterministic choice, and where a text is parsed, which is modelled.
- HTTP servers of the MCP client and the conversion of schemas; bodies of requests per
  provider; single tools that only read or call out (weather, search, browser, shell).
- Approvals of command-line agents, and the proposal broker beyond its one step in
  `AgentRuns`.
- The message bus: nothing calls it in this commit.
- Manifests and playbooks: data that is parsed once and inserted.
- Agent cards, machine diagnostics, metrics, the interface.
- SQLite: a statement is atomic, and statements take effect in one order.  The
  repository opens a pool of four connections on one file; a closure over a connection
  commits each of its statements by itself, and where the code opens a transaction the
  model has one action.  Statements that fail are modelled where a kit or `Faults` names
  them.
- Poisoned locks, a full disk, and failures of the operating system other than those
  named.

The services' models do not meet the cores' inside one run.  Where a part depends on
another, it takes the other's interface as an environment that may do more than the
other really does: `Roundtable`'s worker rows in `GroupScheduler` (`RoundtableTurn`,
`RoundtableReply`), an outcome of the engine in `Executors` and `Automation`, a request in
`Sessions`.

## What is left

- A theorem for the safety half of `StartsWhole`.
- A lock specification the write gate implements, and a register the blackboard
  implements, as `WorkerLease` is for the pool.
- Two commands of the user against each other in the scheduler.
- The HTTP transport of the MCP client, manifests, and the tools that call out.
