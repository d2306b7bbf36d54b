----------------------------- MODULE Executors -----------------------------
(***************************************************************************)
(* Who runs a task of a group (agent/executor.rs, agent/executor/cli.rs):  *)
(* the engine of the application, or a command-line agent in a process of  *)
(* its own. The dispatch that waits for it is the one of GroupScheduler;   *)
(* here is what one run does and how its outcome becomes the status of the *)
(* task's row.                                                             *)
(***************************************************************************)
EXTENDS Integers, FiniteSets

CONSTANT RunKits   \* seats, machines and outcomes

Adapters == {"cli:codex", "cli:pi", "cli:opencode", "cli:claude"}

VARIABLES
  setup,    \* the seat, the machine, what the run will do
  stage,    \* where run is
  process,  \* the process of the command-line agent
  entry,    \* running: tasks that cancel can reach
  result,   \* what run returned
  taskRow,  \* the status of the task
  cancel    \* at: where cancel_batch stands; met: the run's stage when it wrote

execVars == <<setup, stage, process, entry, result, taskRow, cancel>>

NoResult == [is |-> "none", kind |-> "none"]
Ok(state) == [is |-> state, kind |-> "none"]
Err(kind) == [is |-> "error", kind |-> kind]

ExecInit ==
  /\ setup \in RunKits
  /\ stage = "start" /\ process = "none" /\ entry = FALSE
  /\ result = NoResult /\ taskRow = "InProgress"
  /\ cancel = [at |-> "none", met |-> "never"]

Come(to, with) == stage' = to /\ result' = with
-----------------------------------------------------------------------------
\* a seat whose executor nobody knows is run by the engine
IsCli(s) == s.executor \in Adapters

\* the engine: a session is made when there is none, which may fail
EngineBegin ==
  /\ stage = "start" /\ ~IsCli(setup)
  /\ \/ setup.session = "broken" /\ Come("settle", Err("session")) /\ UNCHANGED entry
     \/ setup.session # "broken" /\ stage' = "engine" /\ entry' = TRUE /\ UNCHANGED result
  /\ UNCHANGED <<setup, process, taskRow, cancel>>

\* the engine's reason to stop becomes the state of the task
StateOf(reason) ==
  CASE reason = "Completed" -> "Completed" [] reason = "Cancelled" -> "Canceled" [] OTHER -> "Failed"
EngineEnd ==
  /\ stage = "engine" /\ entry' = FALSE
  /\ Come("settle", Ok(StateOf(setup.stop)))
  /\ UNCHANGED <<setup, process, taskRow, cancel>>
-----------------------------------------------------------------------------
\* only codex can be asked whether it is logged in
ProbesAuth(executor) == executor = "cli:codex"
\* probe_detail: the version, then the login
Availability(s) ==
  IF s.machine # "installed" THEN s.machine \* "NotFound" or "LaunchFailed"
  ELSE IF ProbesAuth(s.executor) /\ s.login = "missing" THEN "AuthMissing"
  ELSE IF ProbesAuth(s.executor) /\ s.login = "broken" THEN "LaunchFailed"
  ELSE "Available"
\* status and output are awaited without a limit: a probe that hangs is waited for
ProbeReturns(s) == s.machine # "hangs" /\ (ProbesAuth(s.executor) => s.login # "hangs")
Probe ==
  /\ stage = "start" /\ IsCli(setup) /\ ProbeReturns(setup)
  /\ IF Availability(setup) = "Available" THEN Come("spawn", result) ELSE Come("settle", Err("not_found"))
  /\ UNCHANGED <<setup, process, entry, taskRow, cancel>>

\* build_command refuses a task without a card; the working directory may be gone
SpawnCli ==
  /\ stage = "spawn"
  /\ \/ setup.card = "empty" /\ Come("settle", Err("empty_card")) /\ UNCHANGED <<process, entry>>
     \/ setup.card # "empty" /\ setup.spawns
        /\ stage' = "waiting" /\ process' = "running" /\ entry' = TRUE /\ UNCHANGED result
     \/ setup.card # "empty" /\ ~setup.spawns
        /\ Come("settle", Err("spawn")) /\ UNCHANGED <<process, entry>>
  /\ UNCHANGED <<setup, taskRow, cancel>>

\* the exit code of a process that never exits
Hangs == -1
\* the process, outside the program: one that hangs never exits
ProcessExits ==
  /\ process = "running" /\ setup.exit # Hangs
  /\ process' = "exited"
  /\ UNCHANGED <<setup, stage, entry, result, taskRow, cancel>>

\* classify_cli_failure: asked only of a run that said nothing
FailureKind(s) ==
  IF s.exit = 0 THEN "empty_response"
  ELSE IF s.stderr \in {"auth_failure", "model_unavailable"} THEN s.stderr ELSE "non_zero_exit"
\* a run that said something is complete, whatever it exited with
Judged(s) ==
  IF s.stdout THEN Ok("Completed") ELSE [is |-> "Failed", kind |-> FailureKind(s)]
ReadOutput ==
  /\ stage = "waiting" /\ process = "exited"
  /\ Come("settle", Judged(setup)) /\ entry' = FALSE
  /\ UNCHANGED <<setup, process, taskRow, cancel>>

\* (mutant) the process of a run given up goes on
LeftRunning == "running"
\* kill_on_drop
Dropped == "killed"
\* (mutant) a command-line agent may take as long as it likes
CliTimeoutNever == FALSE /\ UNCHANGED execVars
\* CLI_TIMEOUT_SECS
CliTimeout ==
  /\ stage = "waiting" /\ process = "running"
  /\ process' = Dropped /\ entry' = FALSE
  /\ Come("settle", Err("timeout"))
  /\ UNCHANGED <<setup, taskRow, cancel>>
-----------------------------------------------------------------------------
\* cancel_batch goes by the row it read, tells the engine and then writes over
\* whatever has become of the row; a command-line agent is not told (no caller has
\* AgentExecutor::cancel)
TellCancel ==
  /\ setup.cancelled /\ taskRow = "InProgress" /\ cancel.at = "none"
  /\ cancel' = [cancel EXCEPT !.at = "told"]
  /\ setup' = IF stage = "engine" THEN [setup EXCEPT !.stop = "Cancelled"] ELSE setup
  /\ UNCHANGED <<stage, process, entry, result, taskRow>>
CancelTask ==
  /\ cancel.at = "told" /\ cancel' = [at |-> "written", met |-> stage]
  /\ taskRow' = "Cancelled"
  /\ UNCHANGED <<setup, stage, process, entry, result>>

\* (mutant) the outcome is written whatever became of the row
SettledAnyway == "write"
\* find_by_id after the run: the outcome is for a task that is InProgress
Settled == IF taskRow = "InProgress" THEN "write" ELSE "over"
\* an error is written over anything, at once
JudgeTask ==
  /\ stage = "settle"
  /\ \/ result.is = "error" /\ stage' = "over" /\ taskRow' = "Failed"
     \/ result.is # "error" /\ stage' = Settled /\ UNCHANGED taskRow
  /\ UNCHANGED <<setup, process, entry, result, cancel>>
\* mark_completed and mark_failed have no condition: what came since is written over
SettleTask ==
  /\ stage = "write" /\ stage' = "over"
  /\ taskRow' = IF result.is = "Completed" THEN "Completed" ELSE "Failed"
  /\ UNCHANGED <<setup, process, entry, result, cancel>>

ExecNext ==
  \/ EngineBegin \/ EngineEnd
  \/ Probe \/ SpawnCli \/ ProcessExits \/ ReadOutput \/ CliTimeout
  \/ TellCancel \/ CancelTask \/ JudgeTask \/ SettleTask
ExecSpec == ExecInit /\ [][ExecNext]_execVars
\* the dispatch's future is polled and the timer fires
ExecFairness ==
  /\ WF_execVars(EngineBegin \/ EngineEnd \/ Probe \/ SpawnCli \/ ReadOutput)
  /\ WF_execVars(JudgeTask \/ SettleTask)
  /\ WF_execVars(CliTimeout)
-----------------------------------------------------------------------------
\* When a run is over its process is, and cancel finds no entry of it: neither a
\* timeout nor an answer leaves something behind that writes on in the group's
\* directory.
NothingRunsOn == stage \in {"settle", "write", "over"} => process # "running" /\ ~entry

\* A cancelled task is shown as done only when the cancellation was written between the
\* dispatch's look at the row and its write; one that came earlier or later stands.
CancelledNotDone == taskRow = "Completed" => cancel.met \in {"never", "write"}

\* However the executor of a task ends, its process and its entry are settled, and a
\* cancellation is overruled in that one place only.
ExecutorSettles == NothingRunsOn /\ CancelledNotDone

\* The row of a task says more than InProgress in the end, also when the agent
\* hangs, provided the question whether it is there is answered.
RowSettles == ProbeReturns(setup) => <>(stage = "over" /\ taskRow # "InProgress")

\* What is called complete ended well: a command-line agent that exits with an
\* error has failed.
CompletedEndedWell ==
  taskRow = "Completed" => IF IsCli(setup) THEN setup.exit = 0 ELSE setup.stop = "Completed"
=============================================================================
