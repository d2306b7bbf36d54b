----------------------------- MODULE AgentRuns -----------------------------
(***************************************************************************)
(* Runs of the agent loop engine: agent/engine.rs, engine/engine_loop.rs,  *)
(* engine/engine_toolrun.rs, the write_file tool of tools/filesystem.rs,   *)
(* and the long-task commands that pause, cancel and resume them.          *)
(*                                                                         *)
(* A run is a future polled by a multi-threaded runtime.  What it does     *)
(* between two awaits is one action here, unless it takes a lock another   *)
(* activity takes, or changes the disk, in between: then it is several.    *)
(* Every map keyed by session (cancel_tokens, pause_tokens, steer_inboxes) *)
(* has a lock of its own, so arming and clearing them take three steps.    *)
(***************************************************************************)
EXTENDS Integers, Sequences, FiniteSets, WriteGate, ApprovalBroker

CONSTANTS
  MaxIters,      \* the max_iterations setting
  MaxCalls,      \* bound: tool calls the model asks for in one response
  MaxCrashes,    \* bound: times the application goes down
  Commands,      \* the commands the user may give
  Faults,        \* the failures that may happen: load, panic, mkdir, write, torn
  Endings,       \* how the model's answer may end a run
  Overlaps,      \* what the user interface does not prevent
  NoFile, NoTool, NoSession

ASSUME BoundsAssumption ==
  MaxIters \in Nat \ {0} /\ MaxCalls \in Nat \ {0} /\ MaxCrashes \in Nat
ASSUME EndingsAssumption == Endings \subseteq {"completed", "truncated", "timed_out", "llm_error"}
ASSUME AbsentAssumption ==
  NoFile \notin Files /\ NoTool \notin Tools /\ NoSession \notin Sessions

Tokens == {"cancel", "pause", "steer"}

VARIABLES
  run,        \* run[r]: the local state of the future of run r
  row,        \* row[r]: its status in the runs table
  ckpt,       \* ckpt[r]: the iterations of its last checkpoint, 0 without one
  token,      \* token[s][k]: the run whose sender session s has under k
  cancelled,  \* runs told to cancel
  paused,     \* runs told to pause
  auto,       \* the global auto-approve switch
  bulk,       \* requests a bulk acceptance under way will accept
  file,       \* file[f]: the run that wrote what is on disk
  log,        \* log[f]: before and after of f's newest changeset
  granted,    \* (history) <<request, how>>: what the user let through
  crashes

runVars == <<run, row, ckpt>>
userVars == <<cancelled, paused, auto, bulk, granted>>
diskVars == <<file, log>>
vars == <<held, pending, box, exempt, run, row, ckpt, token, cancelled, paused,
          auto, bulk, file, log, granted, crashes>>

Idle == [pc |-> "unused", sess |-> NoSession, from |-> NoRun, start |-> 0,
         iter |-> 0, left |-> 0, calls |-> 0, bad |-> 0, streak |-> 0, asks |-> 0,
         tool |-> NoTool, target |-> NoFile, asked |-> FALSE, auto |-> FALSE,
         before |-> NoRun, todo |-> <<>>, why |-> "none"]

Init ==
  /\ GateInit /\ BrokerInit
  /\ run = [r \in Runs |-> Idle]
  /\ row = [r \in Runs |-> "none"]
  /\ ckpt = [r \in Runs |-> 0]
  /\ token = [s \in Sessions |-> [k \in Tokens |-> NoRun]]
  /\ cancelled = {} /\ paused = {} /\ bulk = {} /\ granted = {}
  /\ auto = FALSE
  /\ file = [f \in Files |-> NoRun]
  /\ log = [f \in Files |-> [before |-> NoRun, after |-> NoRun]]
  /\ crashes = 0

-----------------------------------------------------------------------------
Live(r) == run[r].pc \notin {"unused", "done", "lost"}
LiveIn(s) == {r \in Runs : Live(r) /\ run[r].sess = s}
\* runs that is_running does not see yet
Starting(s) == {r \in LiveIn(s) : run[r].pc \in {"marking", "arming"}}

Max2(a, b) == IF a > b THEN a ELSE b
Limit(r) == IF run[r].from = NoRun THEN MaxIters ELSE Max2(MaxIters, run[r].start + 1)

Goto(r, pc) == run' = [run EXCEPT ![r].pc = pc]

Arming == <<"begin", "cancel", "pause", "steer">>
\* (mutant) is_running answers no while the cancel sender is still there
PauseFirst == <<"pause", "cancel", "steer", "finish", "release">>
\* the tail of run(), also taken when the user rejects the plan
Leaving == <<"cancel", "pause", "steer", "finish", "release">>
\* what is left to do when the session cannot be loaded, and after a panic
LoadFailed == <<"finish", "cancel", "pause", "steer">>
Panicked == <<"finish", "release", "cancel", "pause", "steer">>

\* (mutant) the stop reason is stored as it is
ReasonAsStatus(why) == why
StatusOf(why) ==
  CASE why \in {"completed", "exhausted"} -> "ok"
    [] why = "timed_out" -> "timeout"
    [] why \in {"cancelled", "paused"} -> why
    [] OTHER -> "failed"

\* r's future after it has decided to stop: seq is what is left to do
Leave(r, seq, why) ==
  run' = [run EXCEPT ![r] = [@ EXCEPT !.pc = "leaving", !.todo = seq, !.why = why,
                                      !.tool = NoTool, !.target = NoFile,
                                      !.asked = FALSE, !.before = NoRun]]

\* the call in hand is over; bad: whether it counts as failed
CallOver(r, bad) ==
  run' = [run EXCEPT ![r] = [@ EXCEPT !.pc = "calls", !.left = run[r].left - 1,
                                      !.bad = run[r].bad + bad,
                                      !.tool = NoTool, !.target = NoFile,
                                      !.asked = FALSE, !.before = NoRun]]

-----------------------------------------------------------------------------
(* How runs start. *)

\* send_message.  While a session has a run the chat box steers it instead of
\* sending, unless "send_again" is in Overlaps.
Send(r, s) ==
  /\ run[r].pc = "unused"
  /\ LiveIn(s) = {} \/ "send_again" \in Overlaps
  /\ run' = [run EXCEPT ![r] = [Idle EXCEPT !.pc = "arming", !.sess = s, !.todo = Arming]]
  /\ UNCHANGED <<held, brokerVars, row, ckpt, token, userVars, diskVars, crashes>>

\* resume_task up to the check that the session is idle: the row, its
\* checkpoint and pause_tokens are read, nothing is changed.  A user who does
\* not resume a session that is just starting leaves "resume_early" out of
\* Overlaps.
Resumable == {"paused", "interrupted"}
ResumeTask(r, o) ==
  LET s == run[o].sess IN
  /\ "resume" \in Commands
  /\ run[r].pc = "unused"
  /\ row[o] \in Resumable
  /\ token[s]["pause"] = NoRun
  /\ ckpt[o] < MaxIters
  /\ Starting(s) = {} \/ "resume_early" \in Overlaps
  /\ run' = [run EXCEPT ![r] = [Idle EXCEPT !.pc = "marking", !.sess = s, !.from = o,
                                            !.start = ckpt[o], !.iter = ckpt[o]]]
  /\ UNCHANGED <<held, brokerVars, row, ckpt, token, userVars, diskVars, crashes>>

\* (mutant) the resumed row stays in the recovery panel
KeepRow(o) == o \in Runs /\ row' = row
\* a row that is no longer resumable is left alone, and nobody looks whether
\* it was
MarkSuperseded(o) ==
  row' = [row EXCEPT ![o] = IF @ \in Resumable THEN "superseded" ELSE @]

SpawnResumed(r) ==
  /\ run[r].pc = "marking"
  /\ MarkSuperseded(run[r].from)
  /\ run' = [run EXCEPT ![r].pc = "arming", ![r].todo = Arming]
  /\ UNCHANGED <<held, brokerVars, ckpt, token, userVars, diskVars, crashes>>

\* ledger.begin, then the three senders, each under its own lock; a sender
\* that was there is replaced
Arm(r) ==
  LET s == run[r].sess
      k == Head(run[r].todo)
      rest == Tail(run[r].todo)
  IN
  /\ run[r].pc = "arming"
  /\ row' = IF k = "begin" THEN [row EXCEPT ![r] = "running"] ELSE row
  /\ token' = IF k = "begin" THEN token ELSE [token EXCEPT ![s][k] = r]
  /\ run' = [run EXCEPT ![r].todo = rest, ![r].pc = IF rest = <<>> THEN "loading" ELSE @]
  /\ UNCHANGED <<held, brokerVars, ckpt, userVars, diskVars, crashes>>

\* load_session_and_history, then the planner; a resumed run is not planned
Load(r) ==
  /\ run[r].pc = "loading"
  /\ \/ Goto(r, "top")
     \/ run[r].from = NoRun /\ "propose" \in Commands /\ Goto(r, "proposed")
     \/ "load" \in Faults /\ Leave(r, LoadFailed, "llm_error")
  /\ UNCHANGED <<held, brokerVars, row, ckpt, token, userVars, diskVars, crashes>>

\* the user picks an option, or rejects the plan, or the proposal expires
ProposalDecided(r) ==
  /\ run[r].pc = "proposed"
  /\ Goto(r, "top") \/ Leave(r, Leaving, "cancelled")
  /\ UNCHANGED <<held, brokerVars, row, ckpt, token, userVars, diskVars, crashes>>

-----------------------------------------------------------------------------
(* The loop of run_agent_loop. *)

\* the head of an iteration: cancelled comes before paused, and a pause leaves
\* a checkpoint behind
Iterate(r) ==
  /\ run[r].pc = "top"
  /\ \/ /\ run[r].iter >= Limit(r)
        /\ Leave(r, Leaving, "exhausted") /\ ckpt' = ckpt
     \/ /\ run[r].iter < Limit(r) /\ r \in cancelled
        /\ Leave(r, Leaving, "cancelled") /\ ckpt' = ckpt
     \/ /\ run[r].iter < Limit(r) /\ r \in paused \ cancelled
        /\ Leave(r, Leaving, "paused") /\ ckpt' = [ckpt EXCEPT ![r] = run[r].iter]
     \/ /\ run[r].iter < Limit(r) /\ r \notin cancelled \cup paused
        /\ Goto(r, "llm") /\ ckpt' = ckpt
  /\ UNCHANGED <<held, brokerVars, row, token, userVars, diskVars, crashes>>

\* the answer of the model that ends the run
LlmEnds(r) ==
  /\ run[r].pc = "llm"
  /\ \/ \E why \in Endings : Leave(r, Leaving, why)
     \/ r \in cancelled /\ Leave(r, Leaving, "cancelled")
  /\ UNCHANGED <<held, brokerVars, row, ckpt, token, userVars, diskVars, crashes>>

\* the answer of the model that asks for tools; the auto-approve switch is
\* read here, once for the round
LlmCalls(r) ==
  /\ run[r].pc = "llm"
  /\ \E n \in 1..MaxCalls :
       run' = [run EXCEPT ![r] = [@ EXCEPT !.pc = "calls", !.calls = n, !.left = n,
                                           !.bad = 0, !.auto = auto]]
  /\ UNCHANGED <<held, brokerVars, row, ckpt, token, userVars, diskVars, crashes>>

\* a panic inside the future: run_guarded settles the run
Panic(r) ==
  /\ run[r].pc = "llm" /\ "panic" \in Faults
  /\ Leave(r, Panicked, "llm_error")
  /\ UNCHANGED <<held, brokerVars, row, ckpt, token, userVars, diskVars, crashes>>

\* the end of a tool round: checkpoint, then give up after two rounds in which
\* every call failed
RoundOver(r) ==
  LET streak == IF run[r].bad = run[r].calls THEN run[r].streak + 1 ELSE 0 IN
  /\ run[r].pc = "calls" /\ run[r].left = 0
  /\ ckpt' = [ckpt EXCEPT ![r] = run[r].iter + 1]
  /\ \/ streak >= 2 /\ Leave(r, Leaving, "tool_error")
     \/ /\ streak < 2
        /\ run' = [run EXCEPT ![r] = [@ EXCEPT !.pc = "top", !.iter = run[r].iter + 1,
                                               !.streak = streak, !.calls = 0, !.bad = 0,
                                               !.auto = FALSE]]
  /\ UNCHANGED <<held, brokerVars, row, token, userVars, diskVars, crashes>>

-----------------------------------------------------------------------------
(* One tool call. *)

\* the request r is waiting on
Request(r) ==
  [run |-> r, n |-> run[r].asks, session |-> run[r].sess, tool |-> run[r].tool]

\* permission::decide for a user's session without overrides: the snapshot of
\* the auto-approve switch or the user's exemption lets a call through, every
\* other one is put to the user
Allowed(r, t) == run[r].auto \/ <<run[r].sess, t>> \in exempt

Call(r) ==
  /\ run[r].pc = "calls" /\ run[r].left > 0
  /\ \E t \in Tools, f \in Files \cup {NoFile} :
       /\ (t = "write_file") <=> (f \in Files)
       /\ \/ /\ Allowed(r, t)
             /\ run' = [run EXCEPT ![r] = [@ EXCEPT !.pc = "invoke", !.tool = t, !.target = f]]
             /\ UNCHANGED brokerVars
          \/ /\ ~Allowed(r, t)
             /\ run' = [run EXCEPT ![r] = [@ EXCEPT !.pc = "waiting", !.tool = t, !.target = f,
                                                    !.asked = TRUE,
                                                    !.asks = run[r].asks + 1]]
             /\ Register([run |-> r, n |-> run[r].asks + 1, session |-> run[r].sess, tool |-> t])
  /\ UNCHANGED <<held, row, ckpt, token, userVars, diskVars, crashes>>

\* the decision arrives: only "accept" and "edit" execute the call, and a call
\* that is not executed does not count as failed
Decided(r) ==
  /\ run[r].pc = "waiting" /\ box[r] \in Decisions
  /\ \/ box[r] \in {"accept", "edit"} /\ Goto(r, "invoke")
     \/ box[r] \in {"respond", "ignore"} /\ CallOver(r, 0)
  /\ Deafen(r)
  /\ UNCHANGED <<held, row, ckpt, token, userVars, diskVars, crashes>>

\* (mutant) nothing limits the wait
WaitsForever(r) == run[r].pc = "unused" /\ box[r] = "empty" /\ UNCHANGED vars
\* await_decision: the timer fires after a poll that found no decision; the
\* receiver is dropped, and only then the request taken out of the map
Elapse(r) ==
  /\ run[r].pc = "waiting" /\ box[r] = "empty"
  /\ Goto(r, "elapsing")
  /\ UNCHANGED <<held, brokerVars, row, ckpt, token, userVars, diskVars, crashes>>

DropReceiver(r) ==
  /\ run[r].pc = "elapsing" /\ box[r] # "deaf"
  /\ Deafen(r)
  /\ UNCHANGED <<held, runVars, token, userVars, diskVars, crashes>>

TimeoutDeny(r) ==
  /\ run[r].pc = "elapsing" /\ box[r] = "deaf"
  /\ Withdraw(r)
  /\ CallOver(r, 0)
  /\ UNCHANGED <<held, row, ckpt, token, userVars, diskVars, crashes>>

\* a tool other than write_file returns, fails, or is timed out
Invoke(r) ==
  /\ run[r].pc = "invoke" /\ run[r].target = NoFile
  /\ \E bad \in {0, 1} : CallOver(r, bad)
  /\ UNCHANGED <<held, brokerVars, row, ckpt, token, userVars, diskVars, crashes>>

\* write_file at the gate: refused, or let through with the old content read
WriteFile(r) ==
  LET f == run[r].target IN
  /\ run[r].pc = "invoke" /\ f \in Files
  /\ \/ Refuses(f, r) /\ CallOver(r, 1) /\ held' = held
     \/ /\ BeginWrite(f, r)
        /\ run' = [run EXCEPT ![r].pc = "writing", ![r].before = file[f]]
  /\ UNCHANGED <<brokerVars, row, ckpt, token, userVars, diskVars, crashes>>

\* create_dir_all fails: the tool returns and the file stays held
NoDirectory(r) ==
  /\ run[r].pc = "writing" /\ "mkdir" \in Faults
  /\ CallOver(r, 1)
  /\ UNCHANGED <<held, brokerVars, row, ckpt, token, userVars, diskVars, crashes>>

\* fs::write cannot open the file: everything the run holds is released
WriteFails(r) ==
  /\ run[r].pc = "writing" /\ "write" \in Faults
  /\ ReleaseRun(r)
  /\ CallOver(r, 1)
  /\ UNCHANGED <<brokerVars, row, ckpt, token, userVars, diskVars, crashes>>

\* fs::write fails after it has truncated the file: what it left on disk is of
\* r's making, and no changeset shows it
WriteTorn(r) ==
  /\ run[r].pc = "writing" /\ "torn" \in Faults
  /\ file' = [file EXCEPT ![run[r].target] = r]
  /\ ReleaseRun(r)
  /\ CallOver(r, 1)
  /\ UNCHANGED <<brokerVars, row, ckpt, token, userVars, log, crashes>>

Written(r) ==
  /\ run[r].pc = "writing"
  /\ file' = [file EXCEPT ![run[r].target] = r]
  /\ Goto(r, "written")
  /\ UNCHANGED <<held, brokerVars, row, ckpt, token, userVars, log, crashes>>

\* commit_write: the recorder inserts the changeset while the file is held
Record(r) ==
  LET f == run[r].target IN
  /\ run[r].pc = "written"
  /\ log' = [log EXCEPT ![f] = [before |-> run[r].before, after |-> r]]
  /\ Goto(r, "recorded")
  /\ UNCHANGED <<held, brokerVars, row, ckpt, token, userVars, file, crashes>>

LetGo(r) ==
  /\ run[r].pc = "recorded"
  /\ EndWrite(run[r].target, r)
  /\ CallOver(r, 0)
  /\ UNCHANGED <<brokerVars, row, ckpt, token, userVars, diskVars, crashes>>

-----------------------------------------------------------------------------
(* How runs end: cleanup_cancel takes the three senders of the session away  *)
(* one lock at a time, ledger.finish writes the row, release_run opens the   *)
(* gate; in the order the exit at hand has them.                             *)
ExitStep(r) ==
  LET s == run[r].sess
      k == Head(run[r].todo)
      rest == Tail(run[r].todo)
  IN
  /\ run[r].pc = "leaving"
  /\ token' = IF k \in Tokens THEN [token EXCEPT ![s][k] = NoRun] ELSE token
  /\ row' = IF k = "finish" THEN [row EXCEPT ![r] = StatusOf(run[r].why)] ELSE row
  /\ IF k = "release" THEN ReleaseRun(r) ELSE held' = held
  /\ run' = IF rest = <<>>
            THEN [run EXCEPT ![r] = [Idle EXCEPT !.pc = "done", !.sess = s,
                                                 !.from = run[r].from, !.start = run[r].start]]
            ELSE [run EXCEPT ![r].todo = rest]
  /\ UNCHANGED <<brokerVars, ckpt, userVars, diskVars, crashes>>

RunStep(r) ==
  \/ SpawnResumed(r) \/ Arm(r) \/ Load(r) \/ ProposalDecided(r)
  \/ Iterate(r) \/ LlmEnds(r) \/ LlmCalls(r) \/ Panic(r) \/ RoundOver(r)
  \/ Call(r) \/ Decided(r) \/ Elapse(r) \/ DropReceiver(r) \/ TimeoutDeny(r)
  \/ Invoke(r) \/ WriteFile(r) \/ NoDirectory(r) \/ WriteFails(r)
  \/ WriteTorn(r) \/ Written(r) \/ Record(r) \/ LetGo(r) \/ ExitStep(r)

-----------------------------------------------------------------------------
(* The user. *)

\* cancel consumes the sender, pause does not
Cancel(s) ==
  /\ "cancel" \in Commands /\ token[s]["cancel"] # NoRun
  /\ cancelled' = cancelled \cup {token[s]["cancel"]}
  /\ token' = [token EXCEPT ![s]["cancel"] = NoRun]
  /\ UNCHANGED <<held, brokerVars, runVars, paused, auto, bulk, granted, diskVars, crashes>>

Pause(s) ==
  /\ "pause" \in Commands /\ token[s]["pause"] # NoRun
  /\ paused' = paused \cup {token[s]["pause"]}
  /\ UNCHANGED <<held, brokerVars, runVars, token, cancelled, auto, bulk, granted,
                 diskVars, crashes>>

SetAutoApprove ==
  /\ "auto" \in Commands
  /\ auto' = ~auto
  /\ UNCHANGED <<held, brokerVars, runVars, token, cancelled, paused, bulk, granted,
                 diskVars, crashes>>

ExemptTool(s, t) ==
  /\ "exempt" \in Commands
  /\ Exempt(s, t)
  /\ UNCHANGED <<held, runVars, token, userVars, diskVars, crashes>>

Lets(d, qs, how) ==
  granted' = IF d \in {"accept", "edit"} THEN granted \cup {<<q, how>> : q \in qs} ELSE granted

\* decide_approval of one request, and approve_tool, which picks any pending
\* request of the session and knows only accept and ignore
Decide(q, d) ==
  /\ "decide" \in Commands
  /\ Deliver({q}, d)
  /\ Lets(d, {q}, "single")
  /\ UNCHANGED <<held, runVars, token, cancelled, paused, auto, bulk, diskVars, crashes>>

\* decide_approval_batch: an acceptance looks at the map, lets go of its lock,
\* and then decides what it found safe; other decisions go through at once
BulkAccept(qs) ==
  /\ "bulk" \in Commands /\ bulk = {}
  /\ bulk' = BulkSafe(qs)
  /\ UNCHANGED <<held, brokerVars, runVars, token, cancelled, paused, auto, granted,
                 diskVars, crashes>>

BulkDeliver ==
  /\ bulk # {}
  /\ Deliver(bulk, "accept")
  /\ Lets("accept", bulk, "bulk")
  /\ bulk' = {}
  /\ UNCHANGED <<held, runVars, token, cancelled, paused, auto, diskVars, crashes>>

BulkIgnore(qs) ==
  /\ "bulk" \in Commands
  /\ Deliver(qs, "ignore")
  /\ UNCHANGED <<held, runVars, token, userVars, diskVars, crashes>>

\* (mutant) rows of runs that died with the application are not looked for
OrphansLeft == row
\* mark_orphans_interrupted, before any command can be given
OrphansInterrupted ==
  [r \in Runs |-> IF row[r] = "running" THEN "interrupted" ELSE row[r]]

\* the application goes down and comes up again: the tables and the disk stay,
\* everything in memory is gone
Crash ==
  /\ crashes < MaxCrashes
  /\ crashes' = crashes + 1
  /\ GateLost /\ BrokerLost
  /\ run' = [r \in Runs |->
               IF Live(r) THEN [Idle EXCEPT !.pc = "lost", !.sess = run[r].sess,
                                            !.from = run[r].from, !.start = run[r].start]
               ELSE run[r]]
  /\ row' = OrphansInterrupted
  /\ token' = [s \in Sessions |-> [k \in Tokens |-> NoRun]]
  /\ cancelled' = {} /\ paused' = {} /\ auto' = FALSE /\ bulk' = {}
  /\ UNCHANGED <<ckpt, diskVars, granted>>

User ==
  \/ \E r \in Runs, s \in Sessions : Send(r, s)
  \/ \E r, o \in Runs : ResumeTask(r, o)
  \/ \E s \in Sessions : Cancel(s) \/ Pause(s) \/ \E t \in Tools : ExemptTool(s, t)
  \/ SetAutoApprove
  \/ \E q \in pending, d \in Decisions : Decide(q, d)
  \/ \E qs \in SUBSET pending \ {{}} : BulkAccept(qs) \/ BulkIgnore(qs)

\* bound: the ids of Runs are used up
UsedUp == (\A r \in Runs : run[r].pc \in {"done", "lost"}) /\ UNCHANGED vars

Next == User \/ BulkDeliver \/ Crash \/ UsedUp \/ \E r \in Runs : RunStep(r)

Spec == Init /\ [][Next]_vars

\* the runtime polls every future that can move; the model, the tools, the
\* approval and the proposal are all bounded by a timeout
FairSpec == Spec /\ \A r \in Runs : WF_vars(RunStep(r))

-----------------------------------------------------------------------------
(* Properties. *)

\* Every variable keeps its type; the program counters are those above.
Loop == {"top", "llm", "calls", "waiting", "elapsing", "invoke", "writing",
         "written", "recorded"}
RunStates ==
  [pc : Loop \cup {"unused", "marking", "arming", "loading", "proposed", "leaving", "done", "lost"},
   sess : Sessions \cup {NoSession}, from : Runs \cup {NoRun}, start : Nat, iter : Nat,
   left : 0..MaxCalls, calls : 0..MaxCalls, bad : 0..MaxCalls, streak : Nat, asks : Nat,
   tool : Tools \cup {NoTool}, target : Files \cup {NoFile}, asked : BOOLEAN, auto : BOOLEAN,
   before : Runs \cup {NoRun}, todo : Seq(Tokens \cup {"begin", "finish", "release"}),
   why : {"none", "completed", "truncated", "timed_out", "llm_error", "cancelled", "paused",
          "tool_error", "exhausted"}]
TypeOK ==
  /\ held \in [Files -> Runs \cup {NoRun}]
  /\ pending \subseteq Requests /\ bulk \subseteq Requests
  /\ box \in [Runs -> Decisions \cup {"deaf", "empty"}]
  /\ exempt \subseteq Sessions \X Tools
  /\ run \in [Runs -> RunStates]
  /\ row \in [Runs -> {"none", "running", "ok", "timeout", "cancelled", "paused", "failed",
                       "interrupted", "superseded"}]
  /\ ckpt \in [Runs -> Nat]
  /\ token \in [Sessions -> [Tokens -> Runs \cup {NoRun}]]
  /\ cancelled \subseteq Runs /\ paused \subseteq Runs /\ auto \in BOOLEAN
  /\ file \in [Files -> Runs \cup {NoRun}]
  /\ log \in [Files -> [before : Runs \cup {NoRun}, after : Runs \cup {NoRun}]]
  /\ granted \subseteq Requests \X {"single", "bulk"}
  /\ crashes \in Nat

\* The newest changeset of a file shows what is on disk, except while a run is
\* between writing it and recording it: two runs that write one file (each in
\* its own session) never record in another order than they wrote, because
\* write_file holds the file from before it reads the old content until after
\* the record.
LogIsCurrent ==
  \A f \in Files : (\A r \in Runs : run[r].target = f => run[r].pc # "written")
                     => log[f].after = file[f]

\* The changesets of a file form a chain: each one's old content is the new
\* content of the one before it, so that rolling back never brings back what
\* was not there (write_file reads the old content under the gate).
ChangesetsChain ==
  [][\A f \in Files : log'[f] # log[f] => log'[f].before = log[f].after]_vars

\* The log of a file is what happened to it: its newest entry is on the disk and
\* each entry starts from the one before.
FileLogSound == []LogIsCurrent /\ ChangesetsChain

\* A run that is over holds no file, waits for no approval and owns no token of
\* its session, whichever of the ways out of run() it took, the tool failures
\* that return with the file still held included.
FinishedRunsLeaveNothing ==
  \A r \in Runs : run[r].pc = "done" =>
    /\ \A f \in Files : held[f] # r
    /\ \A q \in pending : q.run # r
    /\ \A s \in Sessions, k \in Tokens : token[s][k] # r

\* A call that was put to the user is executed only if the user let that very
\* request through, and a high-risk one only if one by one, whatever bulk
\* acceptances, timeouts and late answers there were in between.
ApprovedByHuman ==
  \A r \in Runs : run[r].asked /\ run[r].pc \in {"invoke", "writing", "written", "recorded"} =>
    \/ <<Request(r), "single">> \in granted
    \/ run[r].tool \notin HighRisk /\ <<Request(r), "bulk">> \in granted

\* The runs table says "running" only of a run that is alive: every way out
\* settles the row, and what a crash leaves behind is settled at the next start.
RunningIsLive == \A r \in Runs : row[r] = "running" => Live(r)

\* While a run is in its loop its session's pause sender, and until it is
\* cancelled the cancel sender, are its own, so no two runs of a session are in
\* their loops and the user can stop the one that is: the clean-up of an earlier
\* run of the session never takes a sender of a resumed one away, because
\* resume_task asks for the sender that is taken away after the other.
Reachable ==
  \A r \in Runs : run[r].pc \in Loop =>
    LET t == token[run[r].sess] IN t["pause"] = r /\ (t["cancel"] = r \/ r \in cancelled)

\* A paused or interrupted run is continued by at most one later run, through
\* any number of crashes.
ResumedOnce ==
  \A r1, r2 \in Runs :
    run[r1].from # NoRun /\ run[r1].from = run[r2].from /\ row[r1] # "none" /\ row[r2] # "none"
      => r1 = r2

\* The rows of the runs tell the truth, through pauses, crashes and resumptions: who
\* is running is alive, and a job is continued by one run only.
RowsAreTrue == RunningIsLive /\ ResumedOnce

\* Every run ends, also when nobody answers its questions.
EveryRunEnds == \A r \in Runs : Live(r) ~> ~Live(r)

\* (docs/longtask-design.md 6.2) the iteration a resumed run starts from counts
\* what the whole job has completed, so it never goes back along a chain of
\* resumed runs.
ResumeNeverGoesBack ==
  \A r \in Runs : run[r].from # NoRun => run[r].start >= run[run[r].from].start
=============================================================================
