--------------------------- MODULE GroupScheduler ---------------------------
(***************************************************************************)
(* The group task scheduler of OneDesktop (group/scheduler.rs) together    *)
(* with the task board, the worker pool and the commands that write them   *)
(* without taking the scheduler's dispatch lock.                           *)
(*                                                                         *)
(* One group.  Each element of Procs is an asynchronous activity of the    *)
(* process: a command issued by the user, or the spawned future that runs  *)
(* one task.  Every action below is one SQL statement or one section under *)
(* a mutex; between two of them any other activity may take a step.        *)
(***************************************************************************)
EXTENDS Naturals, FiniteSets

CONSTANTS
  Tasks, Workers, Batches, Procs, Agents, Skills,
  NoTask, NoWorker, NoBatch, NoProc, NoAgent,
  BatchOf,       \* the batch a task is submitted in
  InitDeps,      \* depends_on of the submitted sub-task
  InitWorker,    \* worker_id of the submitted sub-task, or NoWorker
  Need,          \* the capabilities a task requires (none or one)
  InitSeat,      \* the workers present initially: [agent, caps] of each
  Present,       \* the workers registered when the behaviour starts
  AgentSkills,   \* capabilities of an agent preset
  AutoApprove,   \* whether a batch is submitted with auto_approve
  Commands,      \* the commands the user issues besides submitting
  Faults,        \* the failures the environment produces
  Sweeping,      \* whether the sweeper loop was spawned (start_scheduler)
  MaxCommands,   \* bound on the user commands of a behaviour
  MaxFaults      \* bound on crashes and stalls of a behaviour

AllCommands == {"approve", "launch", "retry", "reassign", "skip",
                "set_status", "attach", "cancel", "pause", "resume",
                "dissolve", "add_worker", "add_seat", "set_agent",
                "worker_status", "remove_worker", "chat"}
AllFaults == {"crash", "stall", "session", "profile", "store"}

TaskStatuses == {"absent", "Pending", "InProgress", "Completed", "Failed",
                 "Cancelled", "AwaitingApproval"}
Terminal == {"Completed", "Failed", "Cancelled"}
WorkerStatuses == {"new", "deleted", "Idle", "Busy", "Offline"}
GroupStatuses == {"Active", "Paused", "Archiving"}
Seats == [agent : Agents \cup {NoAgent}, caps : SUBSET Skills]

ASSUME ConstantsAssumption ==
  /\ NoTask \notin Tasks /\ NoWorker \notin Workers /\ NoBatch \notin Batches
  /\ NoProc \notin Procs /\ NoAgent \notin Agents
  /\ BatchOf \in [Tasks -> Batches]
  /\ InitDeps \in [Tasks -> SUBSET Tasks]
  /\ InitWorker \in [Tasks -> Workers \cup {NoWorker}]
  /\ Need \in [Tasks -> SUBSET Skills]
  /\ InitSeat \in [Workers -> Seats]
  /\ Present \subseteq Workers
  /\ AgentSkills \in [Agents -> SUBSET Skills]
  /\ AutoApprove \in [Batches -> BOOLEAN]
  /\ Commands \subseteq AllCommands
  /\ Faults \subseteq AllFaults
  /\ Sweeping \in BOOLEAN
  /\ MaxCommands \in Nat /\ MaxFaults \in Nat

VARIABLES
  group,      \* groups.status
  status,     \* tasks.status
  deps,       \* tasks.depends_on
  wid,        \* tasks.worker_id: the pre-assigned worker, never the picked one
  hb,         \* tasks.last_heartbeat: NULL, within the timeout, or older
  wstat,      \* workers.status
  wtask,      \* workers.current_task_id
  bind,       \* workers.agent_ref and workers.capabilities
  lock,       \* holder of dispatch_lock
  done,       \* completed_batches
  token,      \* engine cancel token registered for a worker's session
  stopped,    \* runs whose token was triggered
  leaked,     \* tasks whose beater nobody will abort
  pc, job, seat, batch, todo, queue, own, res,   \* locals of the activities
  stale,      \* rows the sweeper has read and not yet rewritten
  submitted,  \* batches whose submission was started
  announced,  \* number of batch_completed events since the process started
  revoked,    \* batches for which batch_cancelled was emitted
  budget,     \* user commands left
  mishaps     \* crashes and stalls left

boardVars == <<status, deps, wid, hb>>
poolVars  == <<wstat, wtask, bind>>
memVars   == <<lock, done, token, stopped, leaked>>
localVars == <<job, seat, batch, todo, queue, own, res>>
histVars  == <<announced, revoked>>
envVars   == <<submitted, budget, mishaps>>
vars == <<group, boardVars, poolVars, memVars, pc, localVars, stale,
          histVars, envVars>>

(***************************************************************************)
(* Reading the database                                                    *)
(***************************************************************************)
InBatch(b) == {t \in Tasks : BatchOf[t] = b /\ status[t] # "absent"}
\* (mutant) a failed or cancelled dependency lets its dependents through
DepsTerminal(t) == \A d \in deps[t] : status[d] \in Terminal
DepsCompleted(t) == \A d \in deps[t] : status[d] = "Completed"
Dispatchable(b) ==
  {t \in InBatch(b) : status[t] = "Pending" /\ DepsCompleted(t)}
\* (mutant) a batch is over as soon as nothing of it runs
AllSettled(b) ==
  /\ InBatch(b) # {}
  /\ \A t \in InBatch(b) : status[t] # "InProgress"
AllTerminal(b) ==
  /\ InBatch(b) # {}
  /\ \A t \in InBatch(b) : status[t] \in Terminal
PendingBatches == {BatchOf[t] : t \in {x \in Tasks : status[x] = "Pending"}}
Registered(w) == wstat[w] \notin {"new", "deleted"}
Covers(w, need) == need \subseteq bind[w].caps
Pickable(need) == {w \in Workers : wstat[w] = "Idle" /\ Covers(w, need)}
ChoosableAgents(w, need) ==
  {a \in Agents :
     IF bind[w].caps # {} /\ \E x \in Agents : bind[w].caps \subseteq AgentSkills[x]
       THEN bind[w].caps \subseteq AgentSkills[a]
       ELSE need # {} /\ need \subseteq AgentSkills[a]}
\* (mutant) the status is not read again before the claim
ClaimableUnread(t) == status[t] # "absent"
Claimable(t) == status[t] = "Pending"
\* (mutant) acquire refuses nobody
RefusedNever(w) == w \notin Workers
Refused(w) == wstat[w] = "Busy"
IsStale(t) == status[t] = "InProgress" /\ hb[t] # "fresh"

(***************************************************************************)
(* The locals of an activity.                                              *)
(***************************************************************************)
Goto(p, l) == pc' = [pc EXCEPT ![p] = l]
Locals == UNCHANGED localVars
Forget(p) == /\ job' = [job EXCEPT ![p] = NoTask]
             /\ seat' = [seat EXCEPT ![p] = NoWorker]
Quit(p) == /\ Goto(p, "free")
           /\ Forget(p)
           /\ batch' = [batch EXCEPT ![p] = NoBatch]
           /\ todo' = [todo EXCEPT ![p] = {}]
           /\ queue' = [queue EXCEPT ![p] = {}]
           /\ own' = [own EXCEPT ![p] = NoTask]
           /\ res' = [res EXCEPT ![p] = "none"]
SetStatus(t, s) == status' = [status EXCEPT ![t] = s]
SetWorker(w, s) ==
  wstat' = IF Registered(w) THEN [wstat EXCEPT ![w] = s] ELSE wstat
EngineCancel(w) ==
  /\ stopped' = stopped \cup ({token[w]} \ {NoProc})
  /\ token' = [token EXCEPT ![w] = NoProc]

Init ==
  /\ group = "Active"
  /\ status = [t \in Tasks |-> "absent"]
  /\ deps = [t \in Tasks |-> {}]
  /\ wid = [t \in Tasks |-> NoWorker]
  /\ hb = [t \in Tasks |-> "null"]
  /\ wstat = [w \in Workers |->
                IF w \notin Present THEN "new"
                ELSE IF InitSeat[w].agent = NoAgent THEN "Offline" ELSE "Idle"]
  /\ wtask = [w \in Workers |-> NoTask]
  /\ bind = InitSeat
  /\ lock = NoProc /\ done = {} /\ stopped = {} /\ leaked = {}
  /\ token = [w \in Workers |-> NoProc]
  /\ pc = [p \in Procs |-> "free"]
  /\ job = [p \in Procs |-> NoTask]
  /\ seat = [p \in Procs |-> NoWorker]
  /\ batch = [p \in Procs |-> NoBatch]
  /\ todo = [p \in Procs |-> {}]
  /\ queue = [p \in Procs |-> {}]
  /\ own = [p \in Procs |-> NoTask]
  /\ res = [p \in Procs |-> "none"]
  /\ stale = {} /\ submitted = {}
  /\ announced = [b \in Batches |-> 0]
  /\ revoked = {}
  /\ budget = MaxCommands /\ mishaps = MaxFaults

(***************************************************************************)
(* submit_batch: the rows are created one by one, then the batch is either *)
(* left awaiting approval or processed.                                    *)
(***************************************************************************)
SubmitBatch(p, b) ==
  /\ pc[p] = "free" /\ b \notin submitted
  /\ submitted' = submitted \cup {b}
  /\ batch' = [batch EXCEPT ![p] = b]
  /\ todo' = [todo EXCEPT ![p] =
                {<<t, InitWorker[t]>> : t \in {x \in Tasks : BatchOf[x] = b}}]
  /\ Goto(p, "create")
  /\ UNCHANGED <<group, boardVars, poolVars, memVars, job, seat, queue, own,
                 res, stale, histVars, budget, mishaps>>

CreateTask(p, e) ==
  /\ pc[p] = "create" /\ e \in todo[p]
  /\ SetStatus(e[1], IF AutoApprove[batch[p]] THEN "Pending"
                                              ELSE "AwaitingApproval")
  /\ deps' = [deps EXCEPT ![e[1]] = InitDeps[e[1]]]
  /\ wid' = [wid EXCEPT ![e[1]] = e[2]]
  /\ todo' = [todo EXCEPT ![p] = @ \ {e}]
  /\ UNCHANGED <<group, hb, poolVars, memVars, pc, job, seat, batch, queue,
                 own, res, stale, histVars, envVars>>

SubmitDone(p) ==
  /\ pc[p] = "create" /\ todo[p] = {}
  /\ Goto(p, IF AutoApprove[batch[p]] THEN "gate" ELSE "return")
  /\ Locals
  /\ UNCHANGED <<group, boardVars, poolVars, memVars, stale, histVars, envVars>>

\* repo.create(..)? : an insert fails and the rest of the batch is not created
SubmitAborts(p) ==
  /\ "store" \in Faults
  /\ pc[p] = "create" /\ todo[p] # {}
  /\ Quit(p)
  /\ UNCHANGED <<group, boardVars, poolVars, memVars, stale, histVars, envVars>>

(***************************************************************************)
(* process_batch: read the group's status (once, outside the lock), scan   *)
(* under the lock, dispatch each candidate, look again, announce.          *)
(***************************************************************************)
Gate(p) ==
  /\ pc[p] = "gate"
  /\ Goto(p, IF group = "Active" THEN "scan" ELSE "return")
  /\ Locals
  /\ UNCHANGED <<group, boardVars, poolVars, memVars, stale, histVars, envVars>>

\* (mutant) the snapshot's pairs are read the other way round
ScanSwapped(p) ==
  /\ pc[p] = "scan" /\ lock = NoProc
  /\ todo' = [todo EXCEPT ![p] =
                {<<wid[t], t>> : t \in Dispatchable(batch[p])}]
  /\ Goto(p, "next")
  /\ UNCHANGED <<group, boardVars, poolVars, memVars, job, seat, batch, queue,
                 own, res, stale, histVars, envVars>>

Scan(p) ==
  /\ pc[p] = "scan" /\ lock = NoProc
  /\ todo' = [todo EXCEPT ![p] =
                {<<t, wid[t]>> : t \in Dispatchable(batch[p])}]
  /\ Goto(p, "next")
  /\ UNCHANGED <<group, boardVars, poolVars, memVars, job, seat, batch, queue,
                 own, res, stale, histVars, envVars>>

\* dispatch_task returns at once, or with an error before it claims a worker
\* that it neither picks nor finds; the task keeps its status
DispatchSkipped(p, e) ==
  /\ pc[p] = "next" /\ e \in todo[p] /\ lock = NoProc
  /\ \/ ~Claimable(e[1])
     \/ e[2] = NoWorker /\ Pickable(Need[e[1]]) = {}
     \/ e[2] # NoWorker /\ ~Registered(e[2])
     \/ "profile" \in Faults
  /\ todo' = [todo EXCEPT ![p] = @ \ {e}]
  /\ UNCHANGED <<group, boardVars, poolVars, memVars, pc, job, seat, batch,
                 queue, own, res, stale, histVars, envVars>>

\* the worker is resolved: pre-assigned in the snapshot, or picked
Resolves(e, w) ==
  IF e[2] = NoWorker THEN w \in Pickable(Need[e[1]])
                     ELSE w = e[2] /\ Registered(w)

DispatchClaim(p, e, w) ==
  /\ pc[p] = "next" /\ e \in todo[p] /\ lock = NoProc
  /\ Claimable(e[1])
  /\ Resolves(e, w)
  /\ todo' = [todo EXCEPT ![p] = @ \ {e}]
  /\ IF bind[w].agent # NoAgent
       THEN bind' = bind
       ELSE \E a \in ChoosableAgents(w, Need[e[1]]) :
              bind' = [bind EXCEPT ![w] = [agent |-> a, caps |-> AgentSkills[a]]]
  /\ lock' = p
  /\ job' = [job EXCEPT ![p] = e[1]]
  /\ seat' = [seat EXCEPT ![p] = w]
  /\ Goto(p, "acquire")
  /\ UNCHANGED <<group, boardVars, wstat, wtask, done, token, stopped, leaked,
                 batch, queue, own, res, stale, histVars, envVars>>

\* an empty seat for which the catalog has no agent
DispatchNoAgent(p, e, w) ==
  /\ pc[p] = "next" /\ e \in todo[p] /\ lock = NoProc
  /\ Claimable(e[1])
  /\ Resolves(e, w)
  /\ bind[w].agent = NoAgent /\ ChoosableAgents(w, Need[e[1]]) = {}
  /\ todo' = [todo EXCEPT ![p] = @ \ {e}]
  /\ UNCHANGED <<group, boardVars, poolVars, memVars, pc, job, seat, batch,
                 queue, own, res, stale, histVars, envVars>>

\* WorkerPool::acquire; only Busy is refused, and a row deleted meanwhile is
\* acquired by two updates that change nothing
Acquire(p) ==
  /\ pc[p] = "acquire" /\ ~Refused(seat[p])
  /\ SetWorker(seat[p], "Busy")
  /\ wtask' = IF Registered(seat[p]) THEN [wtask EXCEPT ![seat[p]] = job[p]]
                                     ELSE wtask
  /\ Goto(p, "start")
  /\ Locals
  /\ UNCHANGED <<group, boardVars, bind, memVars, stale, histVars, envVars>>

AcquireBusy(p) ==
  /\ pc[p] = "acquire" /\ Refused(seat[p])
  /\ lock' = NoProc
  /\ Forget(p)
  /\ Goto(p, "next")
  /\ UNCHANGED <<group, boardVars, poolVars, done, token, stopped, leaked,
                 batch, todo, queue, own, res, stale, histVars, envVars>>

Start(p) ==
  /\ pc[p] = "start"
  /\ SetStatus(job[p], "InProgress")
  /\ lock' = NoProc
  /\ Goto(p, "spawn")
  /\ Locals
  /\ UNCHANGED <<group, deps, wid, hb, poolVars, done, token, stopped, leaked,
                 stale, histVars, envVars>>

\* first heartbeat, beater, session, and the future that runs the task
Spawn(p, q) ==
  /\ pc[p] = "spawn" /\ pc[q] = "free"
  /\ hb' = [hb EXCEPT ![job[p]] = "fresh"]
  /\ pc' = [pc EXCEPT ![p] = "next", ![q] = "spawned"]
  /\ own' = [own EXCEPT ![q] = job[p]]
  /\ job' = [job EXCEPT ![p] = NoTask, ![q] = job[p]]
  /\ seat' = [seat EXCEPT ![p] = NoWorker, ![q] = seat[p]]
  /\ batch' = [batch EXCEPT ![q] = batch[p]]
  /\ UNCHANGED <<group, status, deps, wid, poolVars, memVars, todo, queue, res,
                 stale, histVars, envVars>>

\* get_session / create_session fails: the beater is already running and the
\* worker and the task are already claimed
SpawnFails(p) ==
  /\ "session" \in Faults
  /\ pc[p] = "spawn"
  /\ hb' = [hb EXCEPT ![job[p]] = "fresh"]
  /\ leaked' = leaked \cup {job[p]}
  /\ Goto(p, "next")
  /\ Forget(p)
  /\ UNCHANGED <<group, status, deps, wid, poolVars, lock, done, token,
                 stopped, batch, todo, queue, own, res, stale, histVars, envVars>>

Check(p) ==
  /\ pc[p] = "next" /\ todo[p] = {} /\ lock = NoProc
  /\ Goto(p, IF AllTerminal(batch[p]) THEN "announce" ELSE "return")
  /\ Locals
  /\ UNCHANGED <<group, boardVars, poolVars, memVars, stale, histVars, envVars>>

\* (mutant) the batch is not recorded in completed_batches
AnnounceUnrecorded(p) ==
  /\ pc[p] = "announce" /\ batch[p] \notin done
  /\ announced' = [announced EXCEPT ![batch[p]] = @ + 1]
  /\ Goto(p, "return")
  /\ Locals
  /\ UNCHANGED <<group, boardVars, poolVars, memVars, stale, revoked, envVars>>

Announce(p) ==
  /\ pc[p] = "announce" /\ batch[p] \notin done
  /\ done' = done \cup {batch[p]}
  /\ announced' = [announced EXCEPT ![batch[p]] = @ + 1]
  /\ Goto(p, "return")
  /\ Locals
  /\ UNCHANGED <<group, boardVars, poolVars, lock, token, stopped, leaked,
                 stale, revoked, envVars>>

AlreadyAnnounced(p) ==
  /\ pc[p] = "announce" /\ batch[p] \in done
  /\ Goto(p, "return")
  /\ Locals
  /\ UNCHANGED <<group, boardVars, poolVars, memVars, stale, histVars, envVars>>

\* process_batch is over: the next batch of a resume, or the end of the
\* activity (a run aborts its beater here)
NextBatch(p, b) ==
  /\ pc[p] = "return" /\ b \in queue[p]
  /\ queue' = [queue EXCEPT ![p] = @ \ {b}]
  /\ batch' = [batch EXCEPT ![p] = b]
  /\ Goto(p, "gate")
  /\ UNCHANGED <<group, boardVars, poolVars, memVars, job, seat, todo, own, res,
                 stale, histVars, envVars>>

Return(p) ==
  /\ pc[p] = "return" /\ queue[p] = {}
  /\ Quit(p)
  /\ stopped' = stopped \ {p}
  /\ UNCHANGED <<group, boardVars, poolVars, lock, done, token, leaked, stale,
                 histVars, envVars>>

(***************************************************************************)
(* The future spawned by dispatch_task.                                    *)
(***************************************************************************)
\* engine.run registers its cancel token, replacing what the session had
RunBegin(p) ==
  /\ pc[p] = "spawned"
  /\ token' = [token EXCEPT ![seat[p]] = p]
  /\ Goto(p, "running")
  /\ Locals
  /\ UNCHANGED <<group, boardVars, poolVars, lock, done, stopped, leaked,
                 stale, histVars, envVars>>

\* ex.run(..).await returns; cleanup_cancel drops the session's token,
\* whoever registered it
RunEnd(p, o) ==
  /\ pc[p] = "running"
  /\ token' = [token EXCEPT ![seat[p]] = NoProc]
  /\ res' = [res EXCEPT ![p] = o]
  /\ Goto(p, IF o = "error" THEN "settle" ELSE "judge")
  /\ UNCHANGED <<group, boardVars, poolVars, lock, done, stopped, leaked, job,
                 seat, batch, todo, queue, own, stale, histVars, envVars>>

\* only an InProgress row is settled; the read and the write are two statements
Judge(p) ==
  /\ pc[p] = "judge"
  /\ Goto(p, IF status[own[p]] = "InProgress" THEN "settle" ELSE "release")
  /\ Locals
  /\ UNCHANGED <<group, boardVars, poolVars, memVars, stale, histVars, envVars>>

\* (mutant) a run that did not complete leaves its task alone
SettleCompleted(p) ==
  /\ pc[p] = "settle"
  /\ SetStatus(own[p], IF res[p] = "completed" THEN "Completed" ELSE status[own[p]])
  /\ Goto(p, "release")
  /\ Locals
  /\ UNCHANGED <<group, deps, wid, hb, poolVars, memVars, stale, histVars,
                 envVars>>

Settle(p) ==
  /\ pc[p] = "settle"
  /\ SetStatus(own[p], IF res[p] = "completed" THEN "Completed" ELSE "Failed")
  /\ Goto(p, "release")
  /\ Locals
  /\ UNCHANGED <<group, deps, wid, hb, poolVars, memVars, stale, histVars,
                 envVars>>

\* (mutant) a failed run keeps its worker
ReleaseCompleted(p) ==
  /\ pc[p] = "release"
  /\ SetWorker(seat[p], IF res[p] = "completed" THEN "Idle" ELSE "Busy")
  /\ Goto(p, "unlink")
  /\ Locals
  /\ UNCHANGED <<group, boardVars, wtask, bind, memVars, stale, histVars, envVars>>

\* WorkerPool::release: two statements, neither looks at who holds the worker
Release(p) ==
  /\ pc[p] = "release"
  /\ SetWorker(seat[p], "Idle")
  /\ Goto(p, "unlink")
  /\ Locals
  /\ UNCHANGED <<group, boardVars, wtask, bind, memVars, stale, histVars, envVars>>

\* (mutant) the run does not process its batch again
UnlinkQuits(p) ==
  /\ pc[p] = "unlink"
  /\ wtask' = [wtask EXCEPT ![seat[p]] = NoTask]
  /\ Quit(p)
  /\ UNCHANGED <<group, boardVars, wstat, bind, memVars, stale, histVars, envVars>>

Unlink(p) ==
  /\ pc[p] = "unlink"
  /\ wtask' = [wtask EXCEPT ![seat[p]] = NoTask]
  /\ Forget(p)
  /\ Goto(p, "gate")
  /\ UNCHANGED <<group, boardVars, wstat, bind, memVars, batch, todo, queue,
                 own, res, stale, histVars, envVars>>

Beating == leaked \cup {own[p] : p \in Procs}

Beat(t) ==
  /\ t \in Beating /\ hb[t] # "fresh"
  /\ hb' = [hb EXCEPT ![t] = "fresh"]
  /\ UNCHANGED <<group, status, deps, wid, poolVars, memVars, pc, localVars,
                 stale, histVars, envVars>>

(***************************************************************************)
(* run_sweeper_loop: find_stale, then one update per row read.             *)
(***************************************************************************)
SweepScan ==
  /\ Sweeping /\ stale = {}
  /\ stale' = {t \in Tasks : IsStale(t)}
  /\ stale' # {}
  /\ UNCHANGED <<group, boardVars, poolVars, memVars, pc, localVars, histVars,
                 envVars>>

SweepTask(t) ==
  /\ t \in stale
  /\ SetStatus(t, "Failed")
  /\ stale' = stale \ {t}
  /\ UNCHANGED <<group, deps, wid, hb, poolVars, memVars, pc, localVars,
                 histVars, envVars>>

(***************************************************************************)
(* Commands on tasks and batches.                                          *)
(***************************************************************************)
Issue(p, c) ==
  /\ pc[p] = "free" /\ c \in Commands /\ budget > 0
  /\ budget' = budget - 1
  /\ UNCHANGED <<submitted, mishaps>>

Process(p, b) ==
  /\ batch' = [batch EXCEPT ![p] = b]
  /\ Goto(p, "gate")
  /\ UNCHANGED <<job, seat, todo, queue, own, res>>

ApproveBatch(p, b) ==
  /\ Issue(p, "approve")
  /\ InBatch(b) # {}
  /\ status' = [t \in Tasks |->
                  IF t \in InBatch(b) /\ status[t] = "AwaitingApproval"
                    THEN "Pending" ELSE status[t]]
  /\ Process(p, b)
  /\ UNCHANGED <<group, deps, wid, hb, poolVars, memVars, stale, histVars>>

TaskLaunch(p, b) ==
  /\ Issue(p, "launch")
  /\ InBatch(b) # {}
  /\ Process(p, b)
  /\ UNCHANGED <<group, boardVars, poolVars, memVars, stale, histVars>>

\* retry, reassign and skip all make the row Pending whatever it was
Reset(p, t) ==
  /\ status[t] # "absent"
  /\ SetStatus(t, "Pending")
  /\ hb' = [hb EXCEPT ![t] = "null"]
  /\ Process(p, BatchOf[t])
  /\ UNCHANGED <<group, poolVars, memVars, stale, histVars>>

TaskRetry(p, t) ==
  Issue(p, "retry") /\ Reset(p, t) /\ UNCHANGED <<deps, wid>>

TaskReassign(p, t, w) ==
  /\ Issue(p, "reassign") /\ Reset(p, t)
  /\ wid' = [wid EXCEPT ![t] = w]
  /\ UNCHANGED deps

TaskSkipDependency(p, t) ==
  /\ Issue(p, "skip") /\ Reset(p, t)
  /\ deps' = [deps EXCEPT ![t] = {}]
  /\ UNCHANGED wid

TaskSetStatus(p, t, s) ==
  /\ Issue(p, "set_status")
  /\ status[t] # "absent"
  /\ SetStatus(t, s)
  /\ IF s \in Terminal THEN Process(p, BatchOf[t])
                       ELSE Locals /\ UNCHANGED pc
  /\ UNCHANGED <<group, deps, wid, hb, poolVars, memVars, stale, histVars>>

\* task_attach_outputs: the status is read before the outputs are appended
TaskAttachOutputs(p, t) ==
  /\ Issue(p, "attach")
  /\ status[t] # "absent"
  /\ job' = [job EXCEPT ![p] = t]
  /\ batch' = [batch EXCEPT ![p] = BatchOf[t]]
  /\ Goto(p, IF status[t] \in Terminal THEN "attached" ELSE "complete")
  /\ UNCHANGED <<group, boardVars, poolVars, memVars, seat, todo, queue, own,
                 res, stale, histVars>>

AttachWrite(p) ==
  /\ pc[p] \in {"attached", "complete"}
  /\ status' = IF pc[p] = "complete" THEN [status EXCEPT ![job[p]] = "Completed"]
                                     ELSE status
  /\ Forget(p)
  /\ Goto(p, "gate")
  /\ UNCHANGED <<group, deps, wid, hb, poolVars, memVars, batch, todo, queue,
                 own, res, stale, histVars, envVars>>

(***************************************************************************)
(* cancel_batch: one snapshot, then row by row, without the dispatch lock. *)
(* A row to cancel carries the worker to stop, NoWorker when the snapshot  *)
(* names none (Pending, or InProgress on a picked worker).                 *)
(***************************************************************************)
CancelBatch(p, b) ==
  /\ Issue(p, "cancel")
  /\ InBatch(b) # {}
  /\ batch' = [batch EXCEPT ![p] = b]
  /\ todo' = [todo EXCEPT ![p] =
       {<<t, IF status[t] = "InProgress" THEN wid[t] ELSE NoWorker>> :
          t \in {x \in InBatch(b) : status[x] \in {"Pending", "InProgress"}}}]
  /\ Goto(p, "cancel")
  /\ UNCHANGED <<group, boardVars, poolVars, memVars, job, seat, queue, own,
                 res, stale, histVars>>

CancelUnnamed(p, e) ==
  /\ pc[p] = "cancel" /\ e \in todo[p] /\ e[2] = NoWorker
  /\ todo' = [todo EXCEPT ![p] = @ \ {e}]
  /\ job' = [job EXCEPT ![p] = e[1]]
  /\ Goto(p, "cancel_mark")
  /\ UNCHANGED <<group, boardVars, poolVars, memVars, seat, batch, queue, own,
                 res, stale, histVars, envVars>>

CancelNamed(p, e) ==
  /\ pc[p] = "cancel" /\ e \in todo[p] /\ e[2] \in Workers
  /\ todo' = [todo EXCEPT ![p] = @ \ {e}]
  /\ job' = [job EXCEPT ![p] = e[1]]
  /\ seat' = [seat EXCEPT ![p] = e[2]]
  /\ EngineCancel(e[2])
  /\ Goto(p, "cancel_release")
  /\ UNCHANGED <<group, boardVars, poolVars, lock, done, leaked, batch, queue,
                 own, res, stale, histVars, envVars>>

CancelRelease(p) ==
  /\ pc[p] = "cancel_release"
  /\ SetWorker(seat[p], "Idle")
  /\ Goto(p, "cancel_unlink")
  /\ Locals
  /\ UNCHANGED <<group, boardVars, wtask, bind, memVars, stale, histVars, envVars>>

CancelUnlink(p) ==
  /\ pc[p] = "cancel_unlink"
  /\ wtask' = [wtask EXCEPT ![seat[p]] = NoTask]
  /\ Goto(p, "cancel_mark")
  /\ Locals
  /\ UNCHANGED <<group, boardVars, wstat, bind, memVars, stale, histVars, envVars>>

CancelMark(p) ==
  /\ pc[p] = "cancel_mark"
  /\ SetStatus(job[p], "Cancelled")
  /\ Forget(p)
  /\ Goto(p, "cancel")
  /\ UNCHANGED <<group, deps, wid, hb, poolVars, memVars, batch, todo, queue,
                 own, res, stale, histVars, envVars>>

\* (mutant) the cancelled batch is not recorded in completed_batches
CancelDoneUnrecorded(p) ==
  /\ pc[p] = "cancel" /\ todo[p] = {}
  /\ revoked' = revoked \cup {batch[p]}
  /\ Quit(p)
  /\ UNCHANGED <<group, boardVars, poolVars, memVars, stale, announced, envVars>>

CancelDone(p) ==
  /\ pc[p] = "cancel" /\ todo[p] = {}
  /\ done' = done \cup {batch[p]}
  /\ revoked' = revoked \cup {batch[p]}
  /\ Quit(p)
  /\ UNCHANGED <<group, boardVars, poolVars, lock, token, stopped, leaked,
                 stale, announced, envVars>>

(***************************************************************************)
(* Group lifecycle: the status is read, then written by a second statement.*)
(***************************************************************************)
GroupPause(p) ==
  /\ Issue(p, "pause") /\ group = "Active"
  /\ Goto(p, "pausing") /\ Locals
  /\ UNCHANGED <<group, boardVars, poolVars, memVars, stale, histVars>>

GroupResume(p) ==
  /\ Issue(p, "resume") /\ group = "Paused"
  /\ Goto(p, "resuming") /\ Locals
  /\ UNCHANGED <<group, boardVars, poolVars, memVars, stale, histVars>>

\* every worker session is cancelled before the status is looked at
GroupDissolve(p) ==
  /\ Issue(p, "dissolve")
  /\ todo' = [todo EXCEPT ![p] =
                {<<NoTask, w>> : w \in {x \in Workers : Registered(x)}}]
  /\ Goto(p, "dissolve")
  /\ UNCHANGED <<group, boardVars, poolVars, memVars, job, seat, batch, queue,
                 own, res, stale, histVars>>

DissolveCancel(p, w) ==
  /\ pc[p] = "dissolve" /\ <<NoTask, w>> \in todo[p]
  /\ todo' = [todo EXCEPT ![p] = @ \ {<<NoTask, w>>}]
  /\ EngineCancel(w)
  /\ UNCHANGED <<group, boardVars, poolVars, lock, done, leaked, pc, job, seat,
                 batch, queue, own, res, stale, histVars, envVars>>

DissolveRead(p) ==
  /\ pc[p] = "dissolve" /\ todo[p] = {}
  /\ Goto(p, IF group = "Archiving" THEN "return" ELSE "archiving")
  /\ Locals
  /\ UNCHANGED <<group, boardVars, poolVars, memVars, stale, histVars, envVars>>

GroupWrite(p) ==
  /\ pc[p] \in {"pausing", "resuming", "archiving"}
  /\ group' = CASE pc[p] = "pausing" -> "Paused"
                [] pc[p] = "resuming" -> "Active"
                [] pc[p] = "archiving" -> "Archiving"
  /\ Goto(p, IF pc[p] = "resuming" THEN "collect" ELSE "return")
  /\ Locals
  /\ UNCHANGED <<boardVars, poolVars, memVars, stale, histVars, envVars>>

\* group_resume re-reads the board and processes every batch with Pending rows
ResumeCollect(p) ==
  /\ pc[p] = "collect"
  /\ queue' = [queue EXCEPT ![p] = PendingBatches]
  /\ Goto(p, "return")
  /\ UNCHANGED <<group, boardVars, poolVars, memVars, job, seat, batch, todo,
                 own, res, stale, histVars, envVars>>

(***************************************************************************)
(* Commands on workers.                                                    *)
(***************************************************************************)
GroupAddWorker(p, w) ==
  /\ Issue(p, "add_worker")
  /\ wstat[w] = "new" /\ bind[w].agent # NoAgent
  /\ wstat' = [wstat EXCEPT ![w] = "Idle"]
  /\ UNCHANGED <<group, boardVars, wtask, bind, memVars, pc, localVars, stale,
                 histVars>>

\* add_capability_seat: the row is inserted Idle, then set Offline
GroupAddCapabilitySeat(p, w) ==
  /\ Issue(p, "add_seat")
  /\ wstat[w] = "new" /\ bind[w].agent = NoAgent
  /\ wstat' = [wstat EXCEPT ![w] = "Idle"]
  /\ seat' = [seat EXCEPT ![p] = w]
  /\ Goto(p, "to_offline")
  /\ UNCHANGED <<group, boardVars, wtask, bind, memVars, job, batch, todo,
                 queue, own, res, stale, histVars>>

GroupSetWorkerAgent(p, w, a) ==
  /\ Issue(p, "set_agent")
  /\ Registered(w)
  /\ bind' = [bind EXCEPT ![w] = [agent |-> a, caps |-> AgentSkills[a]]]
  /\ UNCHANGED <<group, boardVars, wstat, wtask, memVars, pc, localVars, stale,
                 histVars>>

GroupSetWorkerStatus(p, w) ==
  /\ Issue(p, "worker_status")
  /\ wstat[w] \in {"Idle", "Offline"}
  /\ seat' = [seat EXCEPT ![p] = w]
  /\ Goto(p, IF wstat[w] = "Idle" THEN "to_offline" ELSE "to_idle")
  /\ UNCHANGED <<group, boardVars, poolVars, memVars, job, batch, todo, queue,
                 own, res, stale, histVars>>

WorkerStatusWrite(p) ==
  /\ pc[p] \in {"to_offline", "to_idle"}
  /\ SetWorker(seat[p], IF pc[p] = "to_idle" THEN "Idle" ELSE "Offline")
  /\ Quit(p)
  /\ UNCHANGED <<group, boardVars, wtask, bind, memVars, stale, histVars, envVars>>

\* run_worker_turn, a turn of the roundtable in a session of its own: the
\* worker is set Busy whatever it is doing (the turn lock of its session is
\* taken only afterwards)
RoundtableTurn(p, w) ==
  /\ Issue(p, "chat")
  /\ Registered(w) /\ bind[w].agent # NoAgent
  /\ SetWorker(w, "Busy")
  /\ seat' = [seat EXCEPT ![p] = w]
  /\ Goto(p, "chatting")
  /\ UNCHANGED <<group, boardVars, wtask, bind, memVars, job, batch, todo,
                 queue, own, res, stale, histVars>>

\* release_worker_status: unless it reads Offline it writes Idle
RoundtableReply(p) ==
  /\ pc[p] = "chatting"
  /\ Goto(p, IF wstat[seat[p]] = "Offline" THEN "return" ELSE "to_idle")
  /\ Locals
  /\ UNCHANGED <<group, boardVars, poolVars, memVars, stale, histVars, envVars>>

\* the row is read once; a Busy one has its session and its task cancelled
GroupRemoveWorker(p, w) ==
  /\ Issue(p, "remove_worker")
  /\ Registered(w)
  /\ seat' = [seat EXCEPT ![p] = w]
  /\ job' = [job EXCEPT ![p] = wtask[w]]
  /\ IF wstat[w] = "Busy"
       THEN EngineCancel(w) /\ Goto(p, "remove_mark")
       ELSE UNCHANGED <<token, stopped>> /\ Goto(p, "remove")
  /\ UNCHANGED <<group, boardVars, poolVars, lock, done, leaked, batch, todo,
                 queue, own, res, stale, histVars>>

RemoveMark(p) ==
  /\ pc[p] = "remove_mark"
  /\ status' = IF job[p] = NoTask THEN status
               ELSE [status EXCEPT ![job[p]] = "Cancelled"]
  /\ Goto(p, "remove")
  /\ Locals
  /\ UNCHANGED <<group, deps, wid, hb, poolVars, memVars, stale, histVars,
                 envVars>>

RemoveDelete(p) ==
  /\ pc[p] = "remove"
  /\ wstat' = [wstat EXCEPT ![seat[p]] = "deleted"]
  /\ wtask' = [wtask EXCEPT ![seat[p]] = NoTask]
  /\ Quit(p)
  /\ UNCHANGED <<group, boardVars, bind, memVars, stale, histVars, envVars>>

(***************************************************************************)
(* The environment.                                                        *)
(***************************************************************************)
\* the machine sleeps: every heartbeat becomes older than the timeout
Stall ==
  /\ "stall" \in Faults /\ mishaps > 0
  /\ mishaps' = mishaps - 1
  /\ hb' = [t \in Tasks |-> IF hb[t] = "null" THEN "null" ELSE "old"]
  /\ UNCHANGED <<group, status, deps, wid, poolVars, memVars, pc, localVars,
                 stale, histVars, submitted, budget>>

\* (mutant) failed tasks are orphans too
OrphansFailed == {t \in Tasks : status[t] \in {"InProgress", "Failed"}}
Orphans == {t \in Tasks : status[t] = "InProgress"}

\* the process dies and starts again: memory is lost, then
\* recover_orphan_dag_tasks runs before any command or sweep
CrashRecover ==
  /\ "crash" \in Faults /\ mishaps > 0
  /\ mishaps' = mishaps - 1
  /\ status' = [t \in Tasks |-> IF t \in Orphans THEN "Pending" ELSE status[t]]
  /\ wstat' = [w \in Workers |->
                 IF Registered(w) /\ \E t \in Orphans : wid[t] = w
                   THEN "Idle" ELSE wstat[w]]
  /\ lock' = NoProc /\ done' = {} /\ stopped' = {} /\ leaked' = {}
  /\ token' = [w \in Workers |-> NoProc]
  /\ pc' = [p \in Procs |-> "free"]
  /\ job' = [p \in Procs |-> NoTask]
  /\ seat' = [p \in Procs |-> NoWorker]
  /\ batch' = [p \in Procs |-> NoBatch]
  /\ todo' = [p \in Procs |-> {}]
  /\ queue' = [p \in Procs |-> {}]
  /\ own' = [p \in Procs |-> NoTask]
  /\ res' = [p \in Procs |-> "none"]
  /\ stale' = {}
  /\ announced' = [b \in Batches |-> 0]
  /\ revoked' = {}
  /\ UNCHANGED <<group, deps, wid, hb, wtask, bind, submitted, budget>>

(***************************************************************************)
(* The specification.                                                      *)
(***************************************************************************)
Entries == (Tasks \cup {NoTask}) \X (Workers \cup {NoWorker})
Outcomes == {"completed", "other", "error"}

Submission(p) ==
  \/ \E b \in Batches : SubmitBatch(p, b)
  \/ \E e \in Entries : CreateTask(p, e)
  \/ SubmitDone(p)
  \/ SubmitAborts(p)

Dispatch(p) ==
  \/ Gate(p) \/ Scan(p)
  \/ \E e \in Entries : DispatchSkipped(p, e)
  \/ \E e \in Entries, w \in Workers : DispatchClaim(p, e, w)
  \/ \E e \in Entries, w \in Workers : DispatchNoAgent(p, e, w)
  \/ Acquire(p) \/ AcquireBusy(p) \/ Start(p)
  \/ \E q \in Procs : Spawn(p, q)
  \/ SpawnFails(p)
  \/ Check(p) \/ Announce(p) \/ AlreadyAnnounced(p)
  \/ \E b \in Batches : NextBatch(p, b)
  \/ Return(p)

Run(p) ==
  \/ RunBegin(p)
  \/ \E o \in Outcomes : RunEnd(p, o)
  \/ Judge(p) \/ Settle(p) \/ Release(p) \/ Unlink(p)

TaskCommand(p) ==
  \/ \E b \in Batches : ApproveBatch(p, b) \/ TaskLaunch(p, b)
  \/ \E t \in Tasks : TaskRetry(p, t) \/ TaskSkipDependency(p, t)
  \/ \E t \in Tasks, w \in Workers \cup {NoWorker} : TaskReassign(p, t, w)
  \/ \E t \in Tasks, s \in TaskStatuses \ {"absent"} : TaskSetStatus(p, t, s)
  \/ \E t \in Tasks : TaskAttachOutputs(p, t)
  \/ AttachWrite(p)

Cancellation(p) ==
  \/ \E b \in Batches : CancelBatch(p, b)
  \/ \E e \in Entries : CancelUnnamed(p, e) \/ CancelNamed(p, e)
  \/ CancelRelease(p) \/ CancelUnlink(p) \/ CancelMark(p) \/ CancelDone(p)

GroupCommand(p) ==
  \/ GroupPause(p) \/ GroupResume(p) \/ GroupDissolve(p)
  \/ \E w \in Workers : DissolveCancel(p, w)
  \/ DissolveRead(p) \/ GroupWrite(p) \/ ResumeCollect(p)

WorkerCommand(p) ==
  \/ \E w \in Workers : GroupAddWorker(p, w) \/ GroupAddCapabilitySeat(p, w)
  \/ \E w \in Workers, a \in Agents : GroupSetWorkerAgent(p, w, a)
  \/ \E w \in Workers : GroupSetWorkerStatus(p, w) \/ GroupRemoveWorker(p, w)
  \/ \E w \in Workers : RoundtableTurn(p, w)
  \/ RoundtableReply(p)
  \/ WorkerStatusWrite(p) \/ RemoveMark(p) \/ RemoveDelete(p)

Next ==
  \/ \E p \in Procs : \/ Submission(p) \/ Dispatch(p) \/ Run(p)
                      \/ TaskCommand(p) \/ Cancellation(p)
                      \/ GroupCommand(p) \/ WorkerCommand(p)
  \/ \E t \in Tasks : Beat(t) \/ SweepTask(t)
  \/ SweepScan \/ Stall \/ CrashRecover

Spec == Init /\ [][Next]_vars

\* What an activity does once started.  The futures of the runtime are polled
\* while they are ready, engine runs are bounded in rounds and in time, and the
\* dispatch lock is a fair queue held for a few statements.
Work(p) ==
  \/ \E e \in Entries : CreateTask(p, e)
  \/ SubmitDone(p)
  \/ Dispatch(p) \/ Run(p)
  \/ AttachWrite(p)
  \/ \E e \in Entries : CancelUnnamed(p, e) \/ CancelNamed(p, e)
  \/ CancelRelease(p) \/ CancelUnlink(p) \/ CancelMark(p) \/ CancelDone(p)
  \/ \E w \in Workers : DissolveCancel(p, w)
  \/ DissolveRead(p) \/ GroupWrite(p) \/ ResumeCollect(p)
  \/ RoundtableReply(p)
  \/ WorkerStatusWrite(p) \/ RemoveMark(p) \/ RemoveDelete(p)

Fairness ==
  /\ \A p \in Procs : WF_vars(Work(p))
  /\ \A t \in Tasks : WF_vars(Beat(t)) /\ WF_vars(SweepTask(t))
  /\ WF_vars(SweepScan)

FairSpec == Spec /\ Fairness

(***************************************************************************)
(* Properties.                                                             *)
(***************************************************************************)
PCs == {"free", "create", "gate", "scan", "next", "acquire", "start", "spawn",
        "announce", "return", "spawned", "running", "judge", "settle",
        "release", "unlink", "attached", "complete", "cancel",
        "cancel_release", "cancel_unlink", "cancel_mark", "pausing",
        "resuming", "dissolve", "archiving", "collect", "chatting", "to_offline",
        "to_idle", "remove_mark", "remove"}

\* The types of the columns, of the scheduler's memory and of the locals.
TypeOK ==
  /\ group \in GroupStatuses
  /\ status \in [Tasks -> TaskStatuses]
  /\ deps \in [Tasks -> SUBSET Tasks]
  /\ wid \in [Tasks -> Workers \cup {NoWorker}]
  /\ hb \in [Tasks -> {"null", "fresh", "old"}]
  /\ wstat \in [Workers -> WorkerStatuses]
  /\ wtask \in [Workers -> Tasks \cup {NoTask}]
  /\ bind \in [Workers -> Seats]
  /\ lock \in Procs \cup {NoProc}
  /\ done \in SUBSET (Batches \cup {NoBatch})
  /\ token \in [Workers -> Procs \cup {NoProc}]
  /\ stopped \in SUBSET Procs
  /\ leaked \in SUBSET (Tasks \cup {NoTask})
  /\ pc \in [Procs -> PCs]
  /\ job \in [Procs -> Tasks \cup {NoTask}]
  /\ seat \in [Procs -> Workers \cup {NoWorker}]
  /\ batch \in [Procs -> Batches \cup {NoBatch}]
  /\ todo \in [Procs -> SUBSET Entries]
  /\ queue \in [Procs -> SUBSET Batches]
  /\ own \in [Procs -> Tasks \cup {NoTask}]
  /\ res \in [Procs -> Outcomes \cup {"none"}]
  /\ stale \in SUBSET Tasks
  /\ submitted \in SUBSET Batches
  /\ announced \in [Batches -> Nat]
  /\ revoked \in SUBSET (Batches \cup {NoBatch})
  /\ budget \in Nat /\ mishaps \in Nat

\* The activities that have acquired a worker and not yet released it.
Holding(p) ==
  pc[p] \in {"start", "spawn", "spawned", "running", "judge", "settle",
             "release"}
Holders(w) == {p \in Procs : Holding(p) /\ seat[p] = w}
Runs(t) == {p \in Procs : own[p] = t /\ pc[p] \in {"spawned", "running"}}

\* Two engine runs never execute on the same worker, hence never on the same
\* session: WorkerPool::acquire says "concurrent engine run denied".
MutualExclusion ==
  \A p, q \in Procs :
    p # q /\ pc[p] = "running" /\ pc[q] = "running" => seat[p] # seat[q]

\* Without cancellation, without turns of the roundtable and without the commands
\* that write a worker's status or delete its row, the scheduler implements the leases of WorkerLease.
Lease == INSTANCE WorkerLease
           WITH lease <- [w \in Workers |-> Holders(w)]
LeasesAreExclusive == Lease!LeaseSpec

\* A worker shown Busy is one that some activity will release: a run, or a turn
\* of the roundtable.
Freeing(w) == {p \in Procs : pc[p] \in {"chatting", "to_idle"} /\ seat[p] = w}
BusyIsHeld == \A w \in Workers : wstat[w] = "Busy" => Holders(w) \cup Freeing(w) # {}

\* A task shown InProgress is one that some activity is about to run, is
\* running or is about to settle: no zombie task.
InProgressIsOwned ==
  \A t \in Tasks :
    status[t] = "InProgress" =>
      \E p \in Procs :
        \/ pc[p] = "spawn" /\ job[p] = t
        \/ own[p] = t /\ pc[p] \in {"spawned", "running", "judge", "settle"}

\* The dependency gate of process_batch: no task runs before everything it
\* depends on has completed, although the gate is evaluated in a scan whose
\* lock is released before the task is dispatched.
DependenciesRespected ==
  \A t \in Tasks :
    status[t] = "InProgress" => \A d \in deps[t] : status[d] = "Completed"

\* A task is run by one future at a time.
SingleRun == \A t \in Tasks : Cardinality(Runs(t)) <= 1

\* group:batch_completed is emitted at most once per batch while the process
\* lives, however many activities see the batch terminal together.
AnnouncedOnce == \A b \in Batches : announced[b] <= 1

\* The owner is told that a batch is complete only when it is and stays so.
AnnouncedIsTerminal ==
  \A b \in Batches : announced[b] > 0 => AllTerminal(b)

\* A terminal status is final as long as the user does not reset the task.
TerminalIsFinal ==
  [][\A t \in Tasks : status[t] \in Terminal => status'[t] = status[t]]_vars

\* Once batch_cancelled was emitted for a batch, no batch_completed follows.
NoCompletionAfterCancel ==
  [][\A b \in Batches : b \in revoked /\ b \in revoked' =>
                          announced'[b] = announced[b]]_vars

\* The owner of a batch hears of its end once: complete or cancelled, not twice and
\* not first the one and then the other.
OwnerToldOnce == []AnnouncedOnce /\ NoCompletionAfterCancel

\* A dispatchable task of an active group is eventually dispatched.
EventuallyDispatched ==
  \A t \in Tasks :
    (status[t] = "Pending" /\ DepsCompleted(t))
      ~> (status[t] # "Pending" \/ group # "Active")

\* A worker whose task is over is eventually out of Busy.
WorkerReclaimed == \A w \in Workers : []<>(wstat[w] # "Busy")

=============================================================================
