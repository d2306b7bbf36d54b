----------------------- MODULE GroupSchedulerProofs -----------------------
(***************************************************************************)
(* Safety of GroupScheduler, for all constants: the types, the completion  *)
(* events, the ownership of InProgress tasks, the leases of workers and    *)
(* their return, the order on the board, and the truth of announcements.   *)
(* Behind the types each section first singles out the few actions that    *)
(* can disturb its invariant (one frame lemma over the families of Next),  *)
(* then treats those one by one.                                           *)
(***************************************************************************)
EXTENDS GroupScheduler, FiniteSetTheorems, TLAPS

(***************************************************************************)
(* Type correctness, for every number of tasks, workers, batches and       *)
(* activities, every dependency relation and every environment: one lemma  *)
(* per family of actions, one step per action.                             *)
(***************************************************************************)
USE ConstantsAssumption
    DEF TypeOK, boardVars, poolVars, memVars, localVars, histVars, envVars,
        Goto, Locals, Forget, Quit, SetStatus, SetWorker, PCs, Entries, Outcomes,
        TaskStatuses, WorkerStatuses, GroupStatuses, Seats, Terminal

\* The initial values are typed.
LEMMA InitTypes == Init => TypeOK
  BY DEF Init

\* Submitting a batch keeps the types.
LEMMA SubmissionTypes ==
  ASSUME TypeOK, NEW p \in Procs, Submission(p)
  PROVE  TypeOK'
<1>1. ASSUME NEW b \in Batches, SubmitBatch(p, b) PROVE TypeOK'
  BY <1>1 DEF SubmitBatch
<1>2. ASSUME NEW e \in Entries, CreateTask(p, e) PROVE TypeOK'
  BY <1>2 DEF CreateTask
<1>3. ASSUME SubmitDone(p) PROVE TypeOK'
  BY <1>3 DEF SubmitDone
<1>4. ASSUME SubmitAborts(p) PROVE TypeOK'
  BY <1>4 DEF SubmitAborts
<1> QED
  BY <1>1, <1>2, <1>3, <1>4 DEF Submission

\* Processing a batch keeps the types.
LEMMA DispatchTypes ==
  ASSUME TypeOK, NEW p \in Procs, Dispatch(p)
  PROVE  TypeOK'
<1>1. ASSUME Gate(p) PROVE TypeOK'
  BY <1>1 DEF Gate
<1>2. ASSUME Scan(p) PROVE TypeOK'
  <2>1. {<<t, wid[t]>> : t \in Dispatchable(batch[p])} \subseteq Entries
    BY DEF Dispatchable, InBatch
  <2> QED BY <1>2, <2>1 DEF Scan
<1>3. ASSUME NEW e \in Entries, DispatchSkipped(p, e)
      PROVE  TypeOK'
  BY <1>3 DEF DispatchSkipped
<1>4. ASSUME NEW e \in Entries, NEW w \in Workers, DispatchClaim(p, e, w)
      PROVE  TypeOK'
  <2>1. CASE bind[w].agent # NoAgent
    BY <1>4, <2>1 DEF DispatchClaim
  <2>2. CASE bind[w].agent = NoAgent
    <3>1. PICK a \in Agents :
            bind' = [bind EXCEPT ![w] = [agent |-> a, caps |-> AgentSkills[a]]]
      BY <1>4, <2>2 DEF DispatchClaim, ChoosableAgents
    <3>2. bind' \in [Workers -> Seats]
      BY <3>1
    <3>3. e[1] \in Tasks \cup {NoTask}
      OBVIOUS
    <3>4. /\ todo' = [todo EXCEPT ![p] = @ \ {e}]
          /\ lock' = p /\ job' = [job EXCEPT ![p] = e[1]]
          /\ seat' = [seat EXCEPT ![p] = w] /\ Goto(p, "acquire")
          /\ UNCHANGED <<group, boardVars, wstat, wtask, done, token, stopped,
                         leaked, batch, queue, own, res, stale, histVars, envVars>>
      BY <1>4 DEF DispatchClaim
    <3> HIDE <1>4, <2>2
    <3> QED BY <3>2, <3>3, <3>4
  <2> QED BY <2>1, <2>2
<1>5. ASSUME NEW e \in Entries, NEW w \in Workers, DispatchNoAgent(p, e, w)
      PROVE  TypeOK'
  BY <1>5 DEF DispatchNoAgent, Resolves
<1>6. ASSUME Acquire(p) PROVE TypeOK'
  BY <1>6 DEF Acquire
<1>7. ASSUME AcquireBusy(p) PROVE TypeOK'
  BY <1>7 DEF AcquireBusy
<1>8. ASSUME Start(p) PROVE TypeOK'
  BY <1>8 DEF Start
<1>9. ASSUME NEW q \in Procs, Spawn(p, q) PROVE TypeOK'
  BY <1>9 DEF Spawn
<1>10. ASSUME SpawnFails(p) PROVE TypeOK'
  BY <1>10 DEF SpawnFails
<1>11. ASSUME Check(p) PROVE TypeOK'
  BY <1>11 DEF Check
<1>12. ASSUME Announce(p) PROVE TypeOK'
  <2>1. announced' \in [Batches -> Nat]
    <3>1. CASE batch[p] \in Batches
      BY <1>12, <3>1 DEF Announce
    <3>2. CASE batch[p] \notin Batches
      BY <1>12, <3>2 DEF Announce
    <3> QED BY <3>1, <3>2
  <2>2. done' \in SUBSET (Batches \cup {NoBatch})
    BY <1>12 DEF Announce
  <2>3. pc' \in [Procs -> PCs]
    BY <1>12 DEF Announce
  <2>4. UNCHANGED <<localVars, group, boardVars, poolVars, lock, token, stopped,
                   leaked, stale, revoked, envVars>>
    BY <1>12 DEF Announce
  <2> HIDE <1>12
  <2> QED BY <2>1, <2>2, <2>3, <2>4
<1>13. ASSUME AlreadyAnnounced(p) PROVE TypeOK'
  BY <1>13 DEF AlreadyAnnounced
<1>14. ASSUME NEW b \in Batches, NextBatch(p, b) PROVE TypeOK'
  BY <1>14 DEF NextBatch
<1>15. ASSUME Return(p) PROVE TypeOK'
  BY <1>15 DEF Return
<1> QED
  BY <1>1, <1>2, <1>3, <1>4, <1>5, <1>6, <1>7, <1>8, <1>9, <1>10, <1>11,
     <1>12, <1>13, <1>14, <1>15 DEF Dispatch

\* Running a task keeps the types.
LEMMA RunTypes ==
  ASSUME TypeOK, NEW p \in Procs, Run(p)
  PROVE  TypeOK'
<1>1. ASSUME RunBegin(p) PROVE TypeOK'
  BY <1>1 DEF RunBegin
<1>2. ASSUME NEW o \in Outcomes, RunEnd(p, o) PROVE TypeOK'
  BY <1>2 DEF RunEnd
<1>3. ASSUME Judge(p) PROVE TypeOK'
  BY <1>3 DEF Judge
<1>4. ASSUME Settle(p) PROVE TypeOK'
  BY <1>4 DEF Settle
<1>5. ASSUME Release(p) PROVE TypeOK'
  BY <1>5 DEF Release
<1>6. ASSUME Unlink(p) PROVE TypeOK'
  BY <1>6 DEF Unlink
<1> QED
  BY <1>1, <1>2, <1>3, <1>4, <1>5, <1>6 DEF Run

\* Commands on tasks keep the types.
LEMMA TaskCommandTypes ==
  ASSUME TypeOK, NEW p \in Procs, TaskCommand(p)
  PROVE  TypeOK'
<1>1. ASSUME NEW b \in Batches, ApproveBatch(p, b) PROVE TypeOK'
  BY <1>1 DEF ApproveBatch, Issue, Process
<1>2. ASSUME NEW b \in Batches, TaskLaunch(p, b) PROVE TypeOK'
  BY <1>2 DEF TaskLaunch, Issue, Process
<1>3. ASSUME NEW t \in Tasks, TaskRetry(p, t) PROVE TypeOK'
  BY <1>3 DEF TaskRetry, Issue, Reset, Process
<1>4. ASSUME NEW t \in Tasks, TaskSkipDependency(p, t)
      PROVE  TypeOK'
  BY <1>4 DEF TaskSkipDependency, Issue, Reset, Process
<1>5. ASSUME NEW t \in Tasks, NEW w \in Workers \cup {NoWorker}, TaskReassign(p, t, w)
      PROVE  TypeOK'
  BY <1>5 DEF TaskReassign, Issue, Reset, Process
<1>6. ASSUME NEW t \in Tasks, NEW s \in TaskStatuses \ {"absent"}, TaskSetStatus(p, t, s)
      PROVE  TypeOK'
  <2>1. /\ SetStatus(t, s) /\ budget' = budget - 1 /\ budget > 0
        /\ UNCHANGED <<submitted, mishaps, group, deps, wid, hb, poolVars,
                       memVars, stale, histVars>>
    BY <1>6 DEF TaskSetStatus, Issue
  <2>2. CASE s \in Terminal
    <3>1. Process(p, BatchOf[t])
      BY <1>6, <2>2 DEF TaskSetStatus
    <3>2. BatchOf[t] \in Batches
      OBVIOUS
    <3> HIDE <1>6, <2>2
    <3> QED BY <2>1, <3>1, <3>2 DEF Process
  <2>3. CASE s \notin Terminal
    <3>1. UNCHANGED <<localVars, pc>>
      BY <1>6, <2>3 DEF TaskSetStatus
    <3> HIDE <1>6, <2>3
    <3> QED BY <2>1, <3>1
  <2> QED BY <2>2, <2>3
<1>7. ASSUME NEW t \in Tasks, TaskAttachOutputs(p, t)
      PROVE  TypeOK'
  BY <1>7 DEF TaskAttachOutputs, Issue
<1>8. ASSUME AttachWrite(p) PROVE TypeOK'
  BY <1>8 DEF AttachWrite
<1> QED
  BY <1>1, <1>2, <1>3, <1>4, <1>5, <1>6, <1>7, <1>8 DEF TaskCommand

\* Cancelling a batch keeps the types.
LEMMA CancellationTypes ==
  ASSUME TypeOK, NEW p \in Procs, Cancellation(p)
  PROVE  TypeOK'
<1>1. ASSUME NEW b \in Batches, CancelBatch(p, b) PROVE TypeOK'
  <2>1. \A T \in SUBSET Tasks :
          {<<t, IF status[t] = "InProgress" THEN wid[t] ELSE NoWorker>> : t \in T}
            \subseteq Entries
    OBVIOUS
  <2>2. {x \in InBatch(b) : status[x] \in {"Pending", "InProgress"}} \subseteq Tasks
    BY DEF InBatch
  <2> QED BY <1>1, <2>1, <2>2 DEF CancelBatch, Issue
<1>2. ASSUME NEW e \in Entries, CancelUnnamed(p, e)
      PROVE  TypeOK'
  BY <1>2 DEF CancelUnnamed
<1>3. ASSUME NEW e \in Entries, CancelNamed(p, e) PROVE TypeOK'
  BY <1>3 DEF CancelNamed, EngineCancel
<1>4. ASSUME CancelRelease(p) PROVE TypeOK'
  BY <1>4 DEF CancelRelease
<1>5. ASSUME CancelUnlink(p) PROVE TypeOK'
  BY <1>5 DEF CancelUnlink
<1>6. ASSUME CancelMark(p) PROVE TypeOK'
  BY <1>6 DEF CancelMark
<1>7. ASSUME CancelDone(p) PROVE TypeOK'
  BY <1>7 DEF CancelDone
<1> QED
  BY <1>1, <1>2, <1>3, <1>4, <1>5, <1>6, <1>7 DEF Cancellation

\* Commands on the group keep the types.
LEMMA GroupCommandTypes ==
  ASSUME TypeOK, NEW p \in Procs, GroupCommand(p)
  PROVE  TypeOK'
<1>1. ASSUME GroupPause(p) PROVE TypeOK'
  BY <1>1 DEF GroupPause, Issue
<1>2. ASSUME GroupResume(p) PROVE TypeOK'
  BY <1>2 DEF GroupResume, Issue
<1>3. ASSUME GroupDissolve(p) PROVE TypeOK'
  BY <1>3 DEF GroupDissolve, Issue
<1>4. ASSUME NEW w \in Workers, DissolveCancel(p, w)
      PROVE  TypeOK'
  BY <1>4 DEF DissolveCancel, EngineCancel
<1>5. ASSUME DissolveRead(p) PROVE TypeOK'
  BY <1>5 DEF DissolveRead
<1>6. ASSUME GroupWrite(p) PROVE TypeOK'
  BY <1>6 DEF GroupWrite
<1>7. ASSUME ResumeCollect(p) PROVE TypeOK'
  <2>1. PendingBatches \subseteq Batches
    BY DEF PendingBatches
  <2> QED BY <1>7, <2>1 DEF ResumeCollect
<1> QED
  BY <1>1, <1>2, <1>3, <1>4, <1>5, <1>6, <1>7 DEF GroupCommand

\* Commands on workers keep the types.
LEMMA WorkerCommandTypes ==
  ASSUME TypeOK, NEW p \in Procs, WorkerCommand(p)
  PROVE  TypeOK'
<1>1. ASSUME NEW w \in Workers, GroupAddWorker(p, w)
      PROVE  TypeOK'
  BY <1>1 DEF GroupAddWorker, Issue
<1>2. ASSUME NEW w \in Workers, GroupAddCapabilitySeat(p, w)
      PROVE  TypeOK'
  BY <1>2 DEF GroupAddCapabilitySeat, Issue
<1>3. ASSUME NEW w \in Workers, NEW a \in Agents, GroupSetWorkerAgent(p, w, a)
      PROVE  TypeOK'
  BY <1>3 DEF GroupSetWorkerAgent, Issue
<1>4. ASSUME NEW w \in Workers, GroupSetWorkerStatus(p, w)
      PROVE  TypeOK'
  BY <1>4 DEF GroupSetWorkerStatus, Issue
<1>5. ASSUME NEW w \in Workers, GroupRemoveWorker(p, w)
      PROVE  TypeOK'
  <2>1. token[w] \in Procs \cup {NoProc}
    OBVIOUS
  <2>2. /\ token' \in [Workers -> Procs \cup {NoProc}]
        /\ stopped' \in SUBSET Procs
    <3>1. CASE wstat[w] = "Busy"
      <4>1. EngineCancel(w)
        BY <1>5, <3>1 DEF GroupRemoveWorker
      <4> HIDE <1>5
      <4> QED BY <2>1, <4>1 DEF EngineCancel
    <3>2. CASE wstat[w] # "Busy"
      BY <1>5, <3>2 DEF GroupRemoveWorker
    <3> QED BY <3>1, <3>2
  <2>3. pc' \in [Procs -> PCs]
    BY <1>5 DEF GroupRemoveWorker
  <2>4. /\ budget' = budget - 1 /\ budget > 0
        /\ seat' = [seat EXCEPT ![p] = w]
        /\ job' = [job EXCEPT ![p] = wtask[w]]
        /\ UNCHANGED <<submitted, mishaps, group, boardVars, poolVars, lock, done, leaked,
                       batch, todo, queue, own, res, stale, histVars>>
    BY <1>5 DEF GroupRemoveWorker, Issue
  <2> HIDE <1>5
  <2> QED BY <2>2, <2>3, <2>4
<1>6. ASSUME WorkerStatusWrite(p) PROVE TypeOK'
  BY <1>6 DEF WorkerStatusWrite
<1>7. ASSUME RemoveMark(p) PROVE TypeOK'
  BY <1>7 DEF RemoveMark
<1>8. ASSUME RemoveDelete(p) PROVE TypeOK'
  BY <1>8 DEF RemoveDelete
<1>9. ASSUME NEW w \in Workers, RoundtableTurn(p, w)
      PROVE TypeOK'
  BY <1>9 DEF RoundtableTurn, Issue
<1>10. ASSUME RoundtableReply(p) PROVE TypeOK'
  BY <1>10 DEF RoundtableReply
<1> QED
  BY <1>1, <1>2, <1>3, <1>4, <1>5, <1>6, <1>7, <1>8, <1>9, <1>10 DEF WorkerCommand

\* The beaters, the sweeper, a stall and a restart keep the types.
LEMMA EnvironmentTypes ==
  ASSUME TypeOK,
         \/ \E t \in Tasks : Beat(t) \/ SweepTask(t)
         \/ SweepScan \/ Stall \/ CrashRecover
  PROVE  TypeOK'
<1>1. ASSUME NEW t \in Tasks, Beat(t) PROVE TypeOK'
  BY <1>1 DEF Beat
<1>2. ASSUME NEW t \in Tasks, SweepTask(t) PROVE TypeOK'
  BY <1>2 DEF SweepTask
<1>3. ASSUME SweepScan PROVE TypeOK'
  BY <1>3 DEF SweepScan
<1>4. ASSUME Stall PROVE TypeOK'
  BY <1>4 DEF Stall
<1>5. ASSUME CrashRecover PROVE TypeOK'
  BY <1>5 DEF CrashRecover
<1> QED
  BY <1>1, <1>2, <1>3, <1>4, <1>5

HIDE ConstantsAssumption
     DEF TypeOK, boardVars, poolVars, memVars, localVars, histVars, envVars,
         Goto, Locals, Forget, Quit, SetStatus, SetWorker, PCs, Entries, Outcomes,
         TaskStatuses, WorkerStatuses, GroupStatuses, Seats, Terminal

\* Every step keeps the types.
LEMMA NextTypes == TypeOK /\ [Next]_vars => TypeOK'
<1>1. ASSUME TypeOK, Next PROVE TypeOK'
  BY <1>1, SubmissionTypes, DispatchTypes, RunTypes, TaskCommandTypes,
     CancellationTypes, GroupCommandTypes, WorkerCommandTypes,
     EnvironmentTypes DEF Next
<1>2. ASSUME TypeOK, UNCHANGED vars PROVE TypeOK'
  BY <1>2 DEF TypeOK, vars, boardVars, poolVars, memVars, localVars, histVars,
              envVars
<1> QED
  BY <1>1, <1>2

\* Every column, local and piece of the scheduler's memory keeps its type, in
\* every environment.
THEOREM TypeCorrect == Spec => []TypeOK
  BY InitTypes, NextTypes, PTL DEF Spec

\* What the types needed everywhere is cited where it is needed from here on.
HIDE ConstantsAssumption
     DEF TypeOK, boardVars, poolVars, memVars, localVars, histVars, envVars,
         Goto, Locals, Forget, Quit, SetStatus, SetWorker, PCs, Entries, Outcomes,
         TaskStatuses, WorkerStatuses, GroupStatuses, Seats, Terminal

(***************************************************************************)
(* The completion events.  completed_batches is the only guard of          *)
(* batch_completed; cancel_batch inserts into it what it cancels.          *)
(***************************************************************************)
\* What the events are decided by.
Announcements == <<announced, done, revoked>>

\* Only an announcement, the end of a cancellation and a restart touch the
\* events and completed_batches.
LEMMA OnlyAnnouncers ==
  ASSUME [Next]_vars
  PROVE  \/ UNCHANGED Announcements
         \/ \E p \in Procs : Announce(p) \/ CancelDone(p)
         \/ CrashRecover
<1> USE DEF Announcements, memVars, histVars
<1>1. ASSUME NEW p \in Procs, Submission(p) PROVE UNCHANGED Announcements
  BY <1>1 DEF Submission, SubmitBatch, CreateTask, SubmitDone, SubmitAborts
<1>2. ASSUME NEW p \in Procs, Dispatch(p)
      PROVE  UNCHANGED Announcements \/ Announce(p)
  BY <1>2 DEF Dispatch, Gate, Scan, DispatchSkipped, DispatchClaim,
              DispatchNoAgent, Acquire, AcquireBusy, Start, Spawn, SpawnFails,
              Check, AlreadyAnnounced, NextBatch, Return
<1>3. ASSUME NEW p \in Procs, Run(p) PROVE UNCHANGED Announcements
  BY <1>3 DEF Run, RunBegin, RunEnd, Judge, Settle, Release, Unlink
<1>4. ASSUME NEW p \in Procs, TaskCommand(p) PROVE UNCHANGED Announcements
  BY <1>4 DEF TaskCommand, ApproveBatch, TaskLaunch, TaskRetry,
              TaskSkipDependency, TaskReassign, TaskSetStatus,
              TaskAttachOutputs, AttachWrite, Reset
<1>5. ASSUME NEW p \in Procs, Cancellation(p)
      PROVE  UNCHANGED Announcements \/ CancelDone(p)
  BY <1>5 DEF Cancellation, CancelBatch, CancelUnnamed, CancelNamed,
              CancelRelease, CancelUnlink, CancelMark
<1>6. ASSUME NEW p \in Procs, GroupCommand(p) PROVE UNCHANGED Announcements
  BY <1>6 DEF GroupCommand, GroupPause, GroupResume, GroupDissolve,
              DissolveCancel, DissolveRead, GroupWrite, ResumeCollect
<1>7. ASSUME NEW p \in Procs, WorkerCommand(p) PROVE UNCHANGED Announcements
  BY <1>7 DEF WorkerCommand, GroupAddWorker, GroupAddCapabilitySeat,
              GroupSetWorkerAgent, GroupSetWorkerStatus, GroupRemoveWorker,
              RoundtableTurn, RoundtableReply, WorkerStatusWrite,
              RemoveMark, RemoveDelete
<1>8. ASSUME NEW t \in Tasks, Beat(t) \/ SweepTask(t)
      PROVE  UNCHANGED Announcements
  BY <1>8 DEF Beat, SweepTask
<1>9. ASSUME SweepScan \/ Stall \/ UNCHANGED vars
      PROVE  UNCHANGED Announcements
  BY <1>9 DEF SweepScan, Stall, vars
<1> QED
  BY <1>1, <1>2, <1>3, <1>4, <1>5, <1>6, <1>7, <1>8, <1>9 DEF Next

\* A batch that was announced or cancelled is in completed_batches.
Recorded ==
  /\ revoked \subseteq done
  /\ \A b \in Batches : announced[b] = 0 \/ (announced[b] = 1 /\ b \in done)

\* Recorded is inductive.
LEMMA RecordedInductive ==
  /\ Init => Recorded
  /\ TypeOK /\ Recorded /\ [Next]_vars => Recorded'
<1>1. Init => Recorded
  BY DEF Init, Recorded
<1>2. ASSUME TypeOK, Recorded, [Next]_vars PROVE Recorded'
  <2>1. CASE UNCHANGED Announcements
    BY <1>2, <2>1 DEF Announcements, Recorded
  <2>2. ASSUME NEW p \in Procs, Announce(p) PROVE Recorded'
    <3>1. /\ revoked' = revoked /\ done' = done \cup {batch[p]}
          /\ batch[p] \notin done
          /\ announced' = [announced EXCEPT ![batch[p]] = @ + 1]
          /\ announced \in [Batches -> Nat]
      BY <1>2, <2>2 DEF Announce, histVars, TypeOK
    <3> QED
      BY <1>2, <3>1 DEF Recorded
  <2>3. ASSUME NEW p \in Procs, CancelDone(p) PROVE Recorded'
    BY <1>2, <2>3 DEF CancelDone, Recorded
  <2>4. CASE CrashRecover
    BY <2>4 DEF CrashRecover, Recorded
  <2> QED
    BY <1>2, <2>1, <2>2, <2>3, <2>4, OnlyAnnouncers
<1> QED
  BY <1>1, <1>2

\* group:batch_completed is emitted at most once per batch and life of the
\* process, whatever is retried, cancelled or rewritten meanwhile.
THEOREM CompletionAnnouncedOnce == Spec => []AnnouncedOnce
<1>1. TypeOK /\ Recorded => AnnouncedOnce
  BY DEF TypeOK, Recorded, AnnouncedOnce
<1> QED
  BY <1>1, TypeCorrect, RecordedInductive, PTL DEF Spec

\* After group:batch_cancelled no group:batch_completed follows.
THEOREM CancellationIsLast == Spec => NoCompletionAfterCancel
<1> DEFINE Silent == \A b \in Batches : b \in revoked /\ b \in revoked'
                                          => announced'[b] = announced[b]
<1>1. ASSUME TypeOK, Recorded, [Next]_vars PROVE [Silent]_vars
  <2>1. CASE UNCHANGED Announcements
    BY <2>1 DEF Announcements
  <2>2. ASSUME NEW p \in Procs, Announce(p) PROVE Silent
    BY <1>1, <2>2 DEF Announce, Recorded, TypeOK
  <2>3. ASSUME NEW p \in Procs, CancelDone(p) PROVE Silent
    BY <2>3 DEF CancelDone
  <2>4. CASE CrashRecover
    BY <2>4 DEF CrashRecover
  <2> QED
    BY <1>1, <2>1, <2>2, <2>3, <2>4, OnlyAnnouncers
<1>2. Spec => [][Silent]_vars
  BY <1>1, TypeCorrect, RecordedInductive, PTL DEF Spec
<1> QED
  BY <1>2 DEF NoCompletionAfterCancel

\* Both together: what the owner of a batch hears of its end.
THEOREM OwnersAreTold == Spec => OwnerToldOnce
  BY CompletionAnnouncedOnce, CancellationIsLast, PTL DEF OwnerToldOnce

(***************************************************************************)
(* Zombie tasks: InProgress rows nobody will settle.                       *)
(***************************************************************************)

\* Activity p will run or settle task t.
Owner(p, t) ==
  \/ pc[p] = "spawn" /\ job[p] = t
  \/ own[p] = t /\ pc[p] \in {"spawned", "running", "judge", "settle"}

\* Steps that start no task and let no activity forget the one it owns.
Keeps ==
  /\ \A t \in Tasks : status'[t] = "InProgress" => status[t] = "InProgress"
  /\ \A p \in Procs, t \in Tasks : Owner(p, t) => Owner(p, t)'

\* Only the claim, the settlement and the hand-over of a task change who owns
\* it; a restart leaves no task InProgress.
LEMMA OnlyOwners ==
  ASSUME TypeOK, [Next]_vars, "session" \notin Faults,
         "set_status" \notin Commands
  PROVE  \/ Keeps
         \/ \E p \in Procs : Start(p) \/ Judge(p) \/ Settle(p)
         \/ \E p, q \in Procs : Spawn(p, q)
         \/ \A t \in Tasks : status'[t] # "InProgress"
<1> USE DEF Keeps, Owner, boardVars, localVars, Goto, Locals, Forget, Quit,
            SetStatus
<1>1. ASSUME NEW p \in Procs, Submission(p) PROVE Keeps
  BY <1>1 DEF TypeOK, Submission, SubmitBatch, CreateTask, SubmitDone,
              SubmitAborts
<1>2. ASSUME NEW p \in Procs, Dispatch(p)
      PROVE  Keeps \/ Start(p) \/ \E q \in Procs : Spawn(p, q)
  <2>1. ASSUME NEW e \in Entries, DispatchSkipped(p, e) PROVE Keeps
    BY <2>1 DEF TypeOK, DispatchSkipped
  <2>2. ASSUME NEW e \in Entries, NEW w \in Workers,
               DispatchClaim(p, e, w) \/ DispatchNoAgent(p, e, w)
        PROVE  Keeps
    BY <2>2 DEF TypeOK, DispatchClaim, DispatchNoAgent
  <2>3. ASSUME Gate(p) \/ Scan(p) \/ Check(p) PROVE Keeps
    BY <2>3 DEF TypeOK, Gate, Scan, Check
  <2>4. ASSUME Acquire(p) \/ AcquireBusy(p) PROVE Keeps
    BY <2>4 DEF TypeOK, Acquire, AcquireBusy
  <2>5. ASSUME Announce(p) \/ AlreadyAnnounced(p) \/ Return(p) PROVE Keeps
    BY <2>5 DEF TypeOK, Announce, AlreadyAnnounced, Return
  <2>6. ASSUME NEW b \in Batches, NextBatch(p, b) PROVE Keeps
    BY <2>6 DEF TypeOK, NextBatch
  <2>7. ASSUME SpawnFails(p) PROVE FALSE
    BY <2>7 DEF SpawnFails
  <2> QED
    BY <1>2, <2>1, <2>2, <2>3, <2>4, <2>5, <2>6, <2>7 DEF Dispatch
<1>3. ASSUME NEW p \in Procs, Run(p) PROVE Keeps \/ Judge(p) \/ Settle(p)
  <2>1. ASSUME NEW o \in Outcomes, RunEnd(p, o) PROVE Keeps
    <3>1. pc[p] = "running" /\ own' = own /\ job' = job /\ status' = status
      BY <2>1 DEF RunEnd
    <3>2. pc'[p] \in {"settle", "judge"} /\ \A q \in Procs : q # p => pc'[q] = pc[q]
      BY <2>1 DEF RunEnd, TypeOK
    <3> QED BY <3>1, <3>2
  <2>2. ASSUME RunBegin(p) \/ Release(p) \/ Unlink(p) PROVE Keeps
    BY <2>2 DEF TypeOK, RunBegin, Release, Unlink
  <2> QED
    BY <1>3, <2>1, <2>2 DEF Run
<1>4. ASSUME NEW p \in Procs, TaskCommand(p) PROVE Keeps
  BY <1>4 DEF TypeOK, TaskCommand, ApproveBatch, TaskLaunch, TaskRetry,
              TaskSkipDependency, TaskReassign, TaskSetStatus,
              TaskAttachOutputs, AttachWrite, Reset, Process, Issue
<1>5. ASSUME NEW p \in Procs, Cancellation(p) PROVE Keeps
  BY <1>5 DEF TypeOK, Cancellation, CancelBatch, CancelUnnamed, CancelNamed,
              CancelRelease, CancelUnlink, CancelMark, CancelDone, Issue
<1>6. ASSUME NEW p \in Procs, GroupCommand(p) PROVE Keeps
  <2>1. ASSUME GroupPause(p) \/ GroupResume(p) \/ GroupDissolve(p) PROVE Keeps
    BY <2>1 DEF TypeOK, GroupPause, GroupResume, GroupDissolve, Issue
  <2>2. ASSUME NEW w \in Workers, DissolveCancel(p, w) PROVE Keeps
    BY <2>2 DEF TypeOK, DissolveCancel
  <2>3. ASSUME GroupWrite(p) PROVE Keeps
    <3>1. /\ pc[p] \in {"pausing", "resuming", "archiving"}
          /\ \A q \in Procs : q # p => pc'[q] = pc[q]
          /\ UNCHANGED <<status, job, own>>
      BY <2>3 DEF GroupWrite, TypeOK
    <3> QED BY <3>1
  <2>4. ASSUME DissolveRead(p) \/ ResumeCollect(p) PROVE Keeps
    BY <2>4 DEF TypeOK, DissolveRead, ResumeCollect
  <2> QED
    BY <1>6, <2>1, <2>2, <2>3, <2>4 DEF GroupCommand
<1>7. ASSUME NEW p \in Procs, WorkerCommand(p) PROVE Keeps
  BY <1>7 DEF TypeOK, WorkerCommand, GroupAddWorker, GroupAddCapabilitySeat,
              GroupSetWorkerAgent, GroupSetWorkerStatus, GroupRemoveWorker,
              RoundtableTurn, RoundtableReply, WorkerStatusWrite,
              RemoveMark, RemoveDelete, Issue
<1>8. ASSUME NEW t \in Tasks, Beat(t) \/ SweepTask(t) PROVE Keeps
  BY <1>8 DEF TypeOK, Beat, SweepTask
<1>9. ASSUME SweepScan \/ Stall \/ UNCHANGED vars PROVE Keeps
  BY <1>9 DEF SweepScan, Stall, vars
<1>10. ASSUME CrashRecover PROVE \A t \in Tasks : status'[t] # "InProgress"
  BY <1>10 DEF CrashRecover, Orphans
<1> QED
  BY <1>1, <1>2, <1>3, <1>4, <1>5, <1>6, <1>7, <1>8, <1>9,
     <1>10 DEF Next

\* No zombie task: unless opening a session fails or the user writes statuses
\* by hand, what is InProgress has an activity that will settle it, across
\* crashes, sweeps, retries, cancellations and removals of workers.
THEOREM NoZombies ==
  ASSUME "session" \notin Faults, "set_status" \notin Commands
  PROVE  Spec => []InProgressIsOwned
<1> USE DEF InProgressIsOwned, Owner
<1>1. Init => InProgressIsOwned
  BY DEF Init
<1>2. ASSUME TypeOK, InProgressIsOwned, [Next]_vars PROVE InProgressIsOwned'
  <2>1. CASE Keeps
    BY <1>2, <2>1 DEF Keeps
  <2>2. ASSUME NEW p \in Procs, Start(p) PROVE InProgressIsOwned'
    BY <1>2, <2>2 DEF Start, TypeOK, SetStatus, Goto, Locals, localVars
  <2>3. ASSUME NEW p \in Procs, Judge(p) PROVE InProgressIsOwned'
    BY <1>2, <2>3 DEF Judge, TypeOK, Goto, Locals, localVars, boardVars
  <2>4. ASSUME NEW p \in Procs, Settle(p) PROVE InProgressIsOwned'
    <3>1. pc'[p] = "release" /\ pc[p] = "settle" /\ \A q \in Procs : q # p => pc'[q] = pc[q]
      BY <1>2, <2>4 DEF Settle, TypeOK, Goto
    <3>2. own' = own /\ job' = job
      BY <2>4 DEF Settle, Locals, localVars
    <3>3. \A t \in Tasks : status'[t] = "InProgress" => status[t] = "InProgress" /\ t # own[p]
      BY <1>2, <2>4 DEF Settle, TypeOK, SetStatus
    <3> QED
      BY <1>2, <3>1, <3>2, <3>3
  <2>5. ASSUME NEW p \in Procs, NEW q \in Procs, Spawn(p, q)
        PROVE  InProgressIsOwned'
    <3>1. /\ pc[p] = "spawn" /\ pc[q] = "free"
          /\ pc'[q] = "spawned" /\ own'[q] = job[p]
          /\ \A r \in Procs \ {p, q} : /\ pc'[r] = pc[r] /\ own'[r] = own[r]
                                       /\ job'[r] = job[r]
          /\ status' = status
      BY <1>2, <2>5 DEF Spawn, TypeOK
    <3> QED
      BY <1>2, <3>1
  <2> QED
    BY <1>2, <2>1, <2>2, <2>3, <2>4, <2>5, OnlyOwners
<1> QED
  BY <1>1, <1>2, TypeCorrect, PTL DEF Spec

(***************************************************************************)
(* Leases of workers: acquire refuses a Busy worker, release is called by  *)
(* the holder only, as long as no intruding command is issued.             *)
(***************************************************************************)
\* The commands that write a worker's status, or delete its row, without being
\* its holder, and the program counters they use.
Intruders == {"cancel", "add_seat", "worker_status", "remove_worker", "chat"}
IntruderPCs == {"chatting", "cancel", "cancel_release", "cancel_unlink", "cancel_mark",
                "to_offline", "to_idle", "remove_mark", "remove"}

\* The acquired worker is Busy until its holder releases it, and a worker that
\* was resolved stays registered.
Leased ==
  /\ \A p \in Procs : pc[p] \notin IntruderPCs
  /\ \A p \in Procs :
       pc[p] = "acquire" => seat[p] \in Workers /\ Registered(seat[p])
  /\ \A p \in Procs :
       Holding(p) => seat[p] \in Workers /\ wstat[seat[p]] = "Busy"
  /\ \A p, q \in Procs :
       Holding(p) /\ Holding(q) /\ p # q => seat[p] # seat[q]

\* Steps that neither acquire nor give back a worker.
Quiet ==
  /\ \A p \in Procs : pc'[p] \notin IntruderPCs
  /\ \A p \in Procs : Holding(p)' = Holding(p)
  /\ \A p \in Procs : Holding(p) => seat'[p] = seat[p]
  /\ \A p \in Procs : pc'[p] = "acquire" =>
        \/ pc[p] = "acquire" /\ seat'[p] = seat[p]
        \/ seat'[p] \in Workers /\ Registered(seat'[p])
  /\ \A w \in Workers : wstat'[w] = wstat[w] \/ (wstat[w] = "new" /\ wstat'[w] = "Idle")

\* Only taking, handing over and giving back a worker, and a restart, are not
\* Quiet.
LEMMA OnlyHolders ==
  ASSUME TypeOK, Leased, [Next]_vars, Commands \cap Intruders = {}
  PROVE  \/ Quiet
         \/ \E p \in Procs : Acquire(p) \/ Release(p) \/ SpawnFails(p)
         \/ \E p, q \in Procs : Spawn(p, q)
         \/ CrashRecover
<1> USE DEF Leased, Quiet, Holding, IntruderPCs, Intruders, poolVars, localVars, Goto, Locals, Forget, Quit
<1>1. ASSUME NEW p \in Procs, Submission(p) PROVE Quiet
  BY <1>1 DEF TypeOK, Submission, SubmitBatch, CreateTask, SubmitDone, SubmitAborts
<1>2. ASSUME NEW p \in Procs, Dispatch(p)
      PROVE  Quiet \/ Acquire(p) \/ SpawnFails(p) \/ \E q \in Procs : Spawn(p, q)
  <2>1. ASSUME Gate(p) \/ Scan(p) PROVE Quiet
    BY <2>1 DEF TypeOK, Gate, Scan
  <2>2. ASSUME NEW e \in Entries,
               \/ DispatchSkipped(p, e)
               \/ \E w \in Workers : DispatchNoAgent(p, e, w)
        PROVE  Quiet
    BY <2>2 DEF TypeOK, DispatchSkipped, DispatchNoAgent
  <2>3. ASSUME NEW e \in Entries, NEW w \in Workers, DispatchClaim(p, e, w) PROVE Quiet
    BY <2>3 DEF TypeOK, DispatchClaim, Resolves, Pickable, Registered
  <2>4. ASSUME AcquireBusy(p) \/ Start(p) \/ Check(p) PROVE Quiet
    BY <2>4 DEF TypeOK, AcquireBusy, Start, Check
  <2>5. ASSUME Announce(p) \/ AlreadyAnnounced(p) \/ Return(p) PROVE Quiet
    BY <2>5 DEF TypeOK, Announce, AlreadyAnnounced, Return
  <2>6. ASSUME NEW b \in Batches, NextBatch(p, b) PROVE Quiet
    BY <2>6 DEF TypeOK, NextBatch
  <2> QED
    BY <1>2, <2>1, <2>2, <2>3, <2>4, <2>5, <2>6 DEF Dispatch
<1>3. ASSUME NEW p \in Procs, Run(p) PROVE Quiet \/ Release(p)
  BY <1>3 DEF TypeOK, Run, RunBegin, RunEnd, Judge, Settle, Release, Unlink
<1>4. ASSUME NEW p \in Procs, TaskCommand(p) PROVE Quiet
  BY <1>4 DEF TypeOK, TaskCommand, ApproveBatch, TaskLaunch, TaskRetry,
              TaskSkipDependency, TaskReassign, TaskSetStatus,
              TaskAttachOutputs, AttachWrite, Reset, Process, Issue
<1>5. ASSUME NEW p \in Procs, Cancellation(p), Commands \cap Intruders = {}
      PROVE  FALSE
  BY <1>5 DEF Cancellation, CancelBatch, CancelUnnamed, CancelNamed,
              CancelRelease, CancelUnlink, CancelMark, CancelDone, Issue
<1>6. ASSUME NEW p \in Procs, GroupCommand(p) PROVE Quiet
  <2>1. ASSUME GroupPause(p) \/ GroupResume(p) \/ GroupDissolve(p) PROVE Quiet
    BY <2>1 DEF TypeOK, GroupPause, GroupResume, GroupDissolve, Issue
  <2>2. ASSUME NEW w \in Workers, DissolveCancel(p, w) PROVE Quiet
    BY <2>2 DEF TypeOK, DissolveCancel
  <2>3. ASSUME GroupWrite(p) PROVE Quiet
    <3>1. /\ pc[p] \in {"pausing", "resuming", "archiving"}
          /\ pc' \in {[pc EXCEPT ![p] = "collect"], [pc EXCEPT ![p] = "return"]}
          /\ UNCHANGED <<seat, wstat>>
      BY <2>3 DEF GroupWrite
    <3> QED BY <3>1 DEF TypeOK
  <2>4. ASSUME DissolveRead(p) \/ ResumeCollect(p) PROVE Quiet
    BY <2>4 DEF TypeOK, DissolveRead, ResumeCollect
  <2> QED
    BY <1>6, <2>1, <2>2, <2>3, <2>4 DEF GroupCommand
<1>7. ASSUME NEW p \in Procs, WorkerCommand(p), Commands \cap Intruders = {} PROVE Quiet
  BY <1>7 DEF TypeOK, WorkerCommand, GroupAddWorker, GroupAddCapabilitySeat,
              GroupSetWorkerAgent, GroupSetWorkerStatus, GroupRemoveWorker,
              RoundtableTurn, RoundtableReply, WorkerStatusWrite,
              RemoveMark, RemoveDelete, Issue
<1>8. ASSUME NEW t \in Tasks, Beat(t) \/ SweepTask(t)
      PROVE  Quiet
  BY <1>8 DEF Beat, SweepTask
<1>9. ASSUME SweepScan \/ Stall \/ UNCHANGED vars
      PROVE  Quiet
  BY <1>9 DEF SweepScan, Stall, vars
<1> QED
  BY <1>1, <1>2, <1>3, <1>4, <1>5, <1>6, <1>7, <1>8, <1>9 DEF Next

\* Leased is inductive when no intruder is issued.
LEMMA LeasedInductive ==
  ASSUME Commands \cap Intruders = {}
  PROVE  /\ Init => Leased
         /\ TypeOK /\ Leased /\ [Next]_vars => Leased'
<1>1. Init => Leased
  BY DEF Init, Leased, Holding, IntruderPCs
<1>2. ASSUME TypeOK, Leased, [Next]_vars PROVE Leased'
  <2> USE DEF Leased, Holding, Registered, IntruderPCs
  <2>1. CASE Quiet
    BY <1>2, <2>1 DEF Quiet
  <2>2. ASSUME NEW p \in Procs, Acquire(p) PROVE Leased'
    BY <1>2, <2>2 DEF Acquire, Refused, SetWorker, Goto, Locals, localVars, TypeOK
  <2>3. ASSUME NEW p \in Procs, Release(p) PROVE Leased'
    BY <1>2, <2>3 DEF Release, SetWorker, Goto, Locals, localVars, TypeOK
  <2>4. ASSUME NEW p \in Procs, SpawnFails(p) PROVE Leased'
    BY <1>2, <2>4 DEF SpawnFails, Goto, Forget, poolVars, TypeOK
  <2>5. ASSUME NEW p \in Procs, NEW q \in Procs, Spawn(p, q) PROVE Leased'
    <3>1. /\ pc[p] = "spawn" /\ pc[q] = "free" /\ p # q
          /\ pc' = [pc EXCEPT ![p] = "next", ![q] = "spawned"]
          /\ seat' = [seat EXCEPT ![p] = NoWorker, ![q] = seat[p]]
          /\ wstat' = wstat
          /\ pc \in [Procs -> PCs] /\ seat \in [Procs -> Workers \cup {NoWorker}]
      BY <1>2, <2>5 DEF Spawn, poolVars, TypeOK
    <3>4. \A r \in Procs :
            /\ pc'[r] = IF r = q THEN "spawned" ELSE IF r = p THEN "next" ELSE pc[r]
            /\ seat'[r] = IF r = q THEN seat[p] ELSE IF r = p THEN NoWorker ELSE seat[r]
      BY <3>1
    <3>2. \A r \in Procs :
            Holding(r)' =>
              \/ r = q /\ seat'[r] = seat[p]
              \/ r # p /\ r # q /\ Holding(r) /\ seat'[r] = seat[r]
      BY <3>1, <3>4
    <3>3. Holding(p)
      BY <3>1
    <3> QED
      BY <1>2, <3>1, <3>2, <3>3
  <2>6. CASE CrashRecover
    BY <2>6 DEF CrashRecover
  <2> QED
    BY <1>2, <2>1, <2>2, <2>3, <2>4, <2>5, <2>6, OnlyHolders
<1> QED
  BY <1>1, <1>2

\* No two engine runs share a worker's session when the user issues none of the
\* intruding commands: this is what acquire's refusal of Busy workers buys.
THEOREM RunsAreExclusive ==
  ASSUME Commands \cap Intruders = {}
  PROVE  Spec => []MutualExclusion
<1>1. Leased => MutualExclusion
  BY DEF Leased, MutualExclusion, Holding
<1> QED
  BY <1>1, TypeCorrect, LeasedInductive, PTL DEF Spec

\* The refinement mapping of Lease.
Leases == [w \in Workers |-> Holders(w)]

\* Every step is a step of WorkerLease or leaves the leases alone.
LEMMA LeaseStep ==
  ASSUME Commands \cap Intruders = {}, TypeOK, Leased, [Next]_vars
  PROVE  [Lease!LeaseNext]_Leases
<1> USE DEF Leases, Holders
<1>1. CASE Quiet
  BY <1>1 DEF Quiet
<1>2. ASSUME NEW p \in Procs, Acquire(p)
      PROVE  Lease!LeaseNext
  <2>1. PICK w \in Workers : w = seat[p]
    BY <1>2 DEF Leased, Acquire
  <2>2. Holders(w) = {}
    BY <1>2, <2>1 DEF Leased, Acquire, Refused
  <2>3. \A x \in Workers : Holders(x)' = IF x = w THEN {p} ELSE Holders(x)
    BY <1>2, <2>1, <2>2 DEF Acquire, Holding, Goto, Locals, localVars, TypeOK
  <2>4. Lease!Take(w, p)
    BY <2>2, <2>3 DEF Lease!Take
  <2> HIDE DEF Holders
  <2> QED BY <2>4 DEF Lease!LeaseNext
<1>3. ASSUME NEW p \in Procs, Release(p) \/ SpawnFails(p)
      PROVE  Lease!LeaseNext
  <2>1. PICK w \in Workers : w = seat[p]
    BY <1>3 DEF Leased, Release, SpawnFails, Holding
  <2>2. Holders(w) = {p}
    BY <1>3, <2>1 DEF Leased, Release, SpawnFails, Holding
  <2>3. \A x \in Workers : Holders(x)' = IF x = w THEN {} ELSE Holders(x)
    BY <1>3, <2>1, <2>2 DEF Release, SpawnFails, Holding, Goto, Locals, Forget,
                           localVars, TypeOK
  <2>4. Lease!Give(w, p)
    BY <2>2, <2>3 DEF Lease!Give
  <2> HIDE DEF Holders
  <2> QED BY <2>4 DEF Lease!LeaseNext
<1>4. ASSUME NEW p \in Procs, NEW q \in Procs, Spawn(p, q)
      PROVE  Lease!LeaseNext
  <2>1. PICK w \in Workers : w = seat[p]
    BY <1>4 DEF Leased, Spawn, Holding
  <2>2. Holders(w) = {p}
    BY <1>4, <2>1 DEF Leased, Spawn, Holding
  <2>3. \A x \in Workers : Holders(x)' = IF x = w THEN {q} ELSE Holders(x)
    BY <1>4, <2>1, <2>2 DEF Spawn, Holding, TypeOK
  <2>4. Lease!Hand(w, p, q)
    BY <2>2, <2>3 DEF Lease!Hand
  <2> HIDE DEF Holders
  <2> QED BY <2>4 DEF Lease!LeaseNext
<1>5. ASSUME CrashRecover PROVE Lease!LeaseNext
  BY <1>5 DEF CrashRecover, Lease!Forfeit, Lease!LeaseNext, Holding
<1> HIDE DEF Leases, Holders
<1> QED
  BY <1>1, <1>2, <1>3, <1>4, <1>5, OnlyHolders

\* Under the same condition the scheduler implements WorkerLease.
THEOREM SchedulerLeases ==
  ASSUME Commands \cap Intruders = {}
  PROVE  Spec => LeasesAreExclusive
<1>1. Init => Lease!LeaseInit
  BY DEF Init, Lease!LeaseInit, Holders, Holding
<1>2. Commands \cap Intruders = {}
  OBVIOUS
<1> QED
  BY <1>1, <1>2, LeaseStep, TypeCorrect, LeasedInductive, PTL DEF Spec, Lease!LeaseSpec, LeasesAreExclusive, Leases

(***************************************************************************)
(* Workers come back: whoever has set a worker Busy is there to set it     *)
(* back, whatever else is written to its row meanwhile.                    *)
(***************************************************************************)

\* Activity p will write the status of worker w back.
Tied(p, w) ==
  /\ seat[p] = w
  /\ pc[p] \in {"start", "spawn", "spawned", "running", "judge", "settle",
                "release", "chatting", "to_idle"}

\* Steps that set no worker Busy and let no activity forget the one it is tied to.
LeavesTied ==
  /\ \A w \in Workers : wstat'[w] = "Busy" => wstat[w] = "Busy"
  /\ \A p \in Procs, w \in Workers : Tied(p, w) => Tied(p, w)'

\* Only taking, handing over and giving back a worker changes who is tied to it.
LEMMA OnlyTied ==
  ASSUME TypeOK, [Next]_vars, Faults \cap {"session", "crash"} = {}
  PROVE  \/ LeavesTied
         \/ \E p \in Procs : \/ Acquire(p) \/ Release(p) \/ WorkerStatusWrite(p)
                             \/ RoundtableReply(p)
         \/ \E p \in Procs, w \in Workers : RoundtableTurn(p, w)
         \/ \E p, q \in Procs : Spawn(p, q)
<1> USE DEF LeavesTied, Tied, poolVars, localVars, Goto, Locals, Forget, Quit
<1>1. ASSUME NEW p \in Procs, Submission(p) PROVE LeavesTied
  BY <1>1 DEF TypeOK, Submission, SubmitBatch, CreateTask, SubmitDone, SubmitAborts
<1>2. ASSUME NEW p \in Procs, Dispatch(p)
      PROVE  LeavesTied \/ Acquire(p) \/ \E q \in Procs : Spawn(p, q)
  <2>1. ASSUME Gate(p) \/ Scan(p) PROVE LeavesTied
    BY <2>1 DEF TypeOK, Gate, Scan
  <2>2. ASSUME NEW e \in Entries,
               \/ DispatchSkipped(p, e)
               \/ \E w \in Workers : DispatchNoAgent(p, e, w) \/ DispatchClaim(p, e, w)
        PROVE  LeavesTied
    BY <2>2 DEF TypeOK, DispatchSkipped, DispatchNoAgent, DispatchClaim
  <2>3. ASSUME AcquireBusy(p) \/ Start(p) \/ Check(p) PROVE LeavesTied
    BY <2>3 DEF TypeOK, AcquireBusy, Start, Check
  <2>4. ASSUME Announce(p) \/ AlreadyAnnounced(p) \/ Return(p) PROVE LeavesTied
    BY <2>4 DEF TypeOK, Announce, AlreadyAnnounced, Return
  <2>5. ASSUME NEW b \in Batches, NextBatch(p, b) PROVE LeavesTied
    BY <2>5 DEF TypeOK, NextBatch
  <2>6. ASSUME SpawnFails(p) PROVE FALSE
    BY <2>6 DEF SpawnFails
  <2> QED
    BY <1>2, <2>1, <2>2, <2>3, <2>4, <2>5, <2>6 DEF Dispatch
<1>3. ASSUME NEW p \in Procs, Run(p) PROVE LeavesTied \/ Release(p)
  <2>1. ASSUME NEW o \in Outcomes, RunEnd(p, o) PROVE LeavesTied
    <3>1. /\ pc[p] = "running" /\ seat' = seat /\ wstat' = wstat
          /\ pc' \in {[pc EXCEPT ![p] = "settle"], [pc EXCEPT ![p] = "judge"]}
      BY <2>1 DEF RunEnd
    <3> QED BY <3>1 DEF TypeOK
  <2>2. ASSUME RunBegin(p) \/ Judge(p) \/ Settle(p) \/ Unlink(p) PROVE LeavesTied
    BY <2>2 DEF TypeOK, RunBegin, Judge, Settle, Unlink
  <2> QED
    BY <1>3, <2>1, <2>2 DEF Run
<1>4. ASSUME NEW p \in Procs, TaskCommand(p) PROVE LeavesTied
  BY <1>4 DEF TypeOK, TaskCommand, ApproveBatch, TaskLaunch, TaskRetry,
              TaskSkipDependency, TaskReassign, TaskSetStatus,
              TaskAttachOutputs, AttachWrite, Reset, Process, Issue
<1>5. ASSUME NEW p \in Procs, Cancellation(p) PROVE LeavesTied
  BY <1>5 DEF TypeOK, Cancellation, CancelBatch, CancelUnnamed, CancelNamed,
              CancelRelease, CancelUnlink, CancelMark, CancelDone, Issue, SetWorker
<1>6. ASSUME NEW p \in Procs, GroupCommand(p) PROVE LeavesTied
  <2>1. ASSUME GroupPause(p) \/ GroupResume(p) \/ GroupDissolve(p) PROVE LeavesTied
    BY <2>1 DEF TypeOK, GroupPause, GroupResume, GroupDissolve, Issue
  <2>2. ASSUME NEW w \in Workers, DissolveCancel(p, w) PROVE LeavesTied
    BY <2>2 DEF TypeOK, DissolveCancel
  <2>3. ASSUME GroupWrite(p) PROVE LeavesTied
    <3>1. /\ pc[p] \in {"pausing", "resuming", "archiving"}
          /\ pc' \in {[pc EXCEPT ![p] = "collect"], [pc EXCEPT ![p] = "return"]}
          /\ UNCHANGED <<seat, wstat>>
      BY <2>3 DEF GroupWrite
    <3> QED BY <3>1 DEF TypeOK
  <2>4. ASSUME DissolveRead(p) \/ ResumeCollect(p) PROVE LeavesTied
    BY <2>4 DEF TypeOK, DissolveRead, ResumeCollect
  <2> QED
    BY <1>6, <2>1, <2>2, <2>3, <2>4 DEF GroupCommand
<1>7. ASSUME NEW p \in Procs, WorkerCommand(p)
      PROVE  \/ LeavesTied \/ WorkerStatusWrite(p) \/ RoundtableReply(p)
             \/ \E w \in Workers : RoundtableTurn(p, w)
  <2>1. ASSUME NEW w \in Workers,
               \/ GroupAddWorker(p, w) \/ GroupAddCapabilitySeat(p, w)
               \/ \E a \in Agents : GroupSetWorkerAgent(p, w, a)
               \/ GroupSetWorkerStatus(p, w)
        PROVE  LeavesTied
    BY <2>1 DEF TypeOK, GroupAddWorker, GroupAddCapabilitySeat,
                GroupSetWorkerAgent, GroupSetWorkerStatus, Issue
  <2>2. ASSUME NEW w \in Workers, GroupRemoveWorker(p, w) PROVE LeavesTied
    BY <2>2 DEF TypeOK, GroupRemoveWorker, Issue
  <2>3. ASSUME RemoveMark(p) \/ RemoveDelete(p) PROVE LeavesTied
    BY <2>3 DEF TypeOK, RemoveMark, RemoveDelete
  <2> QED
    BY <1>7, <2>1, <2>2, <2>3 DEF WorkerCommand
<1>8. ASSUME NEW t \in Tasks, Beat(t) \/ SweepTask(t) PROVE LeavesTied
  BY <1>8 DEF Beat, SweepTask
<1>9. ASSUME SweepScan \/ Stall \/ UNCHANGED vars PROVE LeavesTied
  BY <1>9 DEF SweepScan, Stall, vars
<1>10. ASSUME CrashRecover PROVE FALSE
  BY <1>10 DEF CrashRecover
<1> QED
  BY <1>1, <1>2, <1>3, <1>4, <1>5, <1>6, <1>7, <1>8, <1>9, <1>10 DEF Next

\* No worker stays Busy with nobody to free it, through cancellations, removals,
\* edited statuses and turns of the roundtable: as long as sessions open and the
\* process lives, whoever has set it Busy writes its status again.
THEOREM WorkersComeBack ==
  ASSUME Faults \cap {"session", "crash"} = {}
  PROVE  Spec => []BusyIsHeld
<1> DEFINE Held == \A w \in Workers : wstat[w] = "Busy" => \E p \in Procs : Tied(p, w)
<1> USE DEF Tied, Goto, Locals, localVars, poolVars
<1>1. Init => Held
  BY DEF Init
<1>2. ASSUME TypeOK, Held, [Next]_vars PROVE Held'
  <2>1. CASE LeavesTied
    BY <1>2, <2>1 DEF LeavesTied
  <2>2. ASSUME NEW p \in Procs, Acquire(p) PROVE Held'
    BY <1>2, <2>2 DEF Acquire, SetWorker, TypeOK
  <2>3. ASSUME NEW p \in Procs, Release(p) PROVE Held'
    BY <1>2, <2>3 DEF Release, SetWorker, TypeOK, Registered
  <2>4. ASSUME NEW p \in Procs, WorkerStatusWrite(p) PROVE Held'
    BY <1>2, <2>4 DEF WorkerStatusWrite, SetWorker, TypeOK, Registered, Quit, Forget
  <2>5. ASSUME NEW p \in Procs, RoundtableReply(p) PROVE Held'
    BY <1>2, <2>5 DEF RoundtableReply, TypeOK
  <2>6. ASSUME NEW p \in Procs, NEW w \in Workers, RoundtableTurn(p, w) PROVE Held'
    BY SMTT(60), <1>2, <2>6 DEF RoundtableTurn, SetWorker, TypeOK, Issue
  <2>7. ASSUME NEW p \in Procs, NEW q \in Procs, Spawn(p, q) PROVE Held'
    BY <1>2, <2>7 DEF Spawn, TypeOK
  <2> QED
    BY <1>2, <2>1, <2>2, <2>3, <2>4, <2>5, <2>6, <2>7, OnlyTied
<1>3. Held => BusyIsHeld
  BY DEF BusyIsHeld, Holders, Holding, Freeing
<1> HIDE DEF Held
<1> QED
  BY <1>1, <1>2, <1>3, TypeCorrect, PTL DEF Spec

(***************************************************************************)
(* The board: dependencies first, one run per task, final statuses.  The   *)
(* scan is unlocked before its candidates are dispatched, so what it read  *)
(* has to stay true: no dependency leaves Completed, and a row is Pending  *)
(* when it is claimed and still is when it is started.                     *)
(***************************************************************************)

\* The commands that write a task's status whatever it is, and the program
\* counters they use.
Rewriters == {"retry", "reassign", "skip", "set_status", "attach", "cancel", "remove_worker"}
RewriterPCs == {"attached", "complete", "cancel", "cancel_release", "cancel_unlink",
                "cancel_mark", "remove_mark", "remove"}

\* Activity p has claimed a task and not started it yet; it may still dispatch
\* tasks of its scan.
Claims(p) == pc[p] \in {"acquire", "start"}
Dispatching(p) == pc[p] \in {"next", "acquire", "start", "spawn"}

\* Nothing writes over the board.
Unwritten == stale = {} /\ \A p \in Procs : pc[p] \notin RewriterPCs

\* A task's row is inserted once, by the one submission of its batch.
InsertedOnce ==
  /\ \A t \in Tasks : status[t] # "absent" => BatchOf[t] \in submitted
  /\ \A p \in Procs : pc[p] = "create" =>
       /\ batch[p] \in submitted
       /\ \A e \in todo[p] : /\ e[1] \in Tasks /\ BatchOf[e[1]] = batch[p]
                             /\ e[2] = InitWorker[e[1]] /\ status[e[1]] = "absent"
  /\ \A p, q \in Procs :
       pc[p] = "create" /\ pc[q] = "create" /\ batch[p] = batch[q] => p = q

\* A candidate of a scan exists, and what it waits for has completed.
Ready(t) == t \in Tasks /\ status[t] # "absent" /\ DepsCompleted(t)
CandidatesReady ==
  \A p \in Procs : Dispatching(p) => \A e \in todo[p] : Ready(e[1])

\* A claimed task is Pending and ready, and its claimant holds the lock.
ClaimsStand ==
  \A p \in Procs :
    Claims(p) => lock = p /\ Ready(job[p]) /\ status[job[p]] = "Pending"

\* A task that is served is InProgress, served once, and ready.
ServedOnce ==
  /\ \A p \in Procs, t \in Tasks : Owner(p, t) => status[t] = "InProgress"
  /\ \A p, q \in Procs, t \in Tasks : Owner(p, t) /\ Owner(q, t) => p = q
  /\ \A t \in Tasks : status[t] = "InProgress" => DepsCompleted(t)

Ordered == Unwritten /\ InsertedOnce /\ CandidatesReady /\ ClaimsStand /\ ServedOnce

\* Steps that leave the board alone and give nobody a row to create, a
\* candidate, a claim or a task.
Calm ==
  /\ UNCHANGED <<status, deps, submitted, stale>>
  /\ \A p \in Procs :
       /\ pc'[p] \notin RewriterPCs
       /\ pc'[p] = "create" => pc[p] = "create" /\ todo'[p] = todo[p] /\ batch'[p] = batch[p]
       /\ Dispatching(p)' => Dispatching(p) /\ todo'[p] \subseteq todo[p]
       /\ Claims(p)' => Claims(p) /\ job'[p] = job[p] /\ lock' = lock
       /\ \A t \in Tasks : Owner(p, t)' => Owner(p, t)

\* Only a submission, a scan, a claim, a start, a hand-over, a settlement, an
\* approval and a restart are not Calm.
LEMMA OnlyBoardSteps ==
  ASSUME TypeOK, Ordered, [Next]_vars, Commands \cap Rewriters = {}, ~Sweeping
  PROVE  \/ Calm
         \/ \E p \in Procs : \/ \E b \in Batches : SubmitBatch(p, b) \/ ApproveBatch(p, b)
                             \/ \E e \in Entries : CreateTask(p, e)
                             \/ \E e \in Entries, w \in Workers : DispatchClaim(p, e, w)
                             \/ \E q \in Procs : Spawn(p, q)
                             \/ Scan(p) \/ Start(p) \/ Settle(p)
         \/ CrashRecover
<1> USE DEF Calm, Dispatching, Claims, Owner, RewriterPCs, Rewriters, boardVars,
            localVars, memVars, envVars, Goto, Locals, Forget, Quit
<1>1. ASSUME NEW p \in Procs, SubmitDone(p) \/ SubmitAborts(p) PROVE Calm
  BY <1>1 DEF Ordered, Unwritten, TypeOK, SubmitDone, SubmitAborts
<1>2. ASSUME NEW p \in Procs, Gate(p) \/ Check(p) PROVE Calm
  BY <1>2 DEF Ordered, Unwritten, TypeOK, Gate, Check
<1>3. ASSUME NEW p \in Procs, NEW e \in Entries,
             DispatchSkipped(p, e) \/ \E w \in Workers : DispatchNoAgent(p, e, w)
      PROVE  Calm
  BY <1>3 DEF Ordered, Unwritten, TypeOK, DispatchSkipped, DispatchNoAgent
<1>4. ASSUME NEW p \in Procs, Acquire(p) PROVE Calm
  BY <1>4 DEF Ordered, Unwritten, TypeOK, Acquire
<1>5. ASSUME NEW p \in Procs, AcquireBusy(p) PROVE Calm
  BY <1>5 DEF Ordered, Unwritten, ClaimsStand, TypeOK, AcquireBusy
<1>6. ASSUME NEW p \in Procs, SpawnFails(p) PROVE Calm
  BY <1>6 DEF Ordered, Unwritten, TypeOK, SpawnFails
<1>7. ASSUME NEW p \in Procs, Announce(p) \/ AlreadyAnnounced(p) \/ Return(p) PROVE Calm
  BY <1>7 DEF Ordered, Unwritten, TypeOK, Announce, AlreadyAnnounced, Return
<1>8. ASSUME NEW p \in Procs, NEW b \in Batches, NextBatch(p, b) PROVE Calm
  BY <1>8 DEF Ordered, Unwritten, TypeOK, NextBatch
<1>9. ASSUME NEW p \in Procs, RunBegin(p) \/ Judge(p) \/ Release(p) \/ Unlink(p) PROVE Calm
  BY <1>9 DEF Ordered, Unwritten, TypeOK, RunBegin, Judge, Release, Unlink
<1>10. ASSUME NEW p \in Procs, NEW o \in Outcomes, RunEnd(p, o) PROVE Calm
  <2>1. /\ pc[p] = "running"
        /\ pc' \in {[pc EXCEPT ![p] = "settle"], [pc EXCEPT ![p] = "judge"]}
        /\ UNCHANGED <<status, deps, submitted, stale, todo, batch, job, own, lock>>
    BY <1>10 DEF RunEnd
  <2> QED BY <2>1 DEF Ordered, Unwritten, TypeOK
<1>11. ASSUME NEW p \in Procs, TaskCommand(p)
       PROVE  Calm \/ \E b \in Batches : ApproveBatch(p, b)
  BY <1>11 DEF Ordered, Unwritten, TypeOK, TaskCommand, TaskLaunch, TaskRetry,
               TaskSkipDependency, TaskReassign, TaskSetStatus, TaskAttachOutputs,
               AttachWrite, Process, Issue
<1>12. ASSUME NEW p \in Procs, Cancellation(p) PROVE FALSE
  BY <1>12 DEF Ordered, Unwritten, Cancellation, CancelBatch, CancelUnnamed, CancelNamed,
               CancelRelease, CancelUnlink, CancelMark, CancelDone, Issue
<1>13. ASSUME NEW p \in Procs, GroupCommand(p) PROVE Calm
  <2>1. ASSUME GroupPause(p) \/ GroupResume(p) \/ GroupDissolve(p) PROVE Calm
    BY <2>1 DEF Ordered, Unwritten, TypeOK, GroupPause, GroupResume, GroupDissolve, Issue
  <2>2. ASSUME NEW w \in Workers, DissolveCancel(p, w) PROVE Calm
    BY <2>2 DEF Ordered, Unwritten, TypeOK, DissolveCancel
  <2>3. ASSUME GroupWrite(p) PROVE Calm
    <3>1. /\ pc[p] \in {"pausing", "resuming", "archiving"}
          /\ pc' \in {[pc EXCEPT ![p] = "collect"], [pc EXCEPT ![p] = "return"]}
          /\ UNCHANGED <<status, deps, submitted, stale, todo, batch, job, own, lock>>
      BY <2>3 DEF GroupWrite
    <3> QED BY <3>1 DEF Ordered, Unwritten, TypeOK
  <2>4. ASSUME DissolveRead(p) \/ ResumeCollect(p) PROVE Calm
    BY <2>4 DEF Ordered, Unwritten, TypeOK, DissolveRead, ResumeCollect
  <2> QED
    BY <1>13, <2>1, <2>2, <2>3, <2>4 DEF GroupCommand
<1>14. ASSUME NEW p \in Procs, WorkerCommand(p) PROVE Calm
  <2>1. ASSUME NEW w \in Workers,
               \/ GroupAddWorker(p, w) \/ GroupAddCapabilitySeat(p, w)
               \/ \E a \in Agents : GroupSetWorkerAgent(p, w, a)
               \/ GroupSetWorkerStatus(p, w) \/ RoundtableTurn(p, w)
        PROVE  Calm
    BY <2>1 DEF Ordered, Unwritten, TypeOK, GroupAddWorker, GroupAddCapabilitySeat,
                GroupSetWorkerAgent, GroupSetWorkerStatus, RoundtableTurn, Issue
  <2>2. ASSUME RoundtableReply(p) \/ WorkerStatusWrite(p) PROVE Calm
    BY <2>2 DEF Ordered, Unwritten, TypeOK, RoundtableReply, WorkerStatusWrite
  <2>3. ASSUME RemoveMark(p) \/ RemoveDelete(p) \/ \E w \in Workers : GroupRemoveWorker(p, w)
        PROVE  FALSE
    BY <2>3 DEF Ordered, Unwritten, RemoveMark, RemoveDelete, GroupRemoveWorker, Issue
  <2> QED
    BY <1>14, <2>1, <2>2, <2>3 DEF WorkerCommand
<1>15. ASSUME NEW t \in Tasks, Beat(t) PROVE Calm
  BY <1>15 DEF Ordered, Unwritten, Beat
<1>16. ASSUME SweepScan \/ \E t \in Tasks : SweepTask(t) PROVE FALSE
  BY <1>16 DEF Ordered, Unwritten, SweepScan, SweepTask
<1>17. ASSUME Stall \/ UNCHANGED vars PROVE Calm
  BY <1>17 DEF Ordered, Unwritten, Stall, vars
<1> QED
  BY <1>1, <1>2, <1>3, <1>4, <1>5, <1>6, <1>7, <1>8, <1>9, <1>10, <1>11, <1>12, <1>13,
     <1>14, <1>15, <1>16, <1>17 DEF Next, Submission, Dispatch, Run

\* Calm steps keep the order.
LEMMA CalmKeepsOrder ==
  ASSUME TypeOK, Ordered, Calm
  PROVE  Ordered'
<1>1. Unwritten'
  BY DEF Calm, Ordered, Unwritten
<1>2. InsertedOnce'
  BY DEF Calm, Ordered, InsertedOnce
<1>3. CandidatesReady'
  BY DEF Calm, Ordered, CandidatesReady, Ready, DepsCompleted
<1>4. ClaimsStand'
  BY DEF Calm, Ordered, ClaimsStand, Ready, DepsCompleted
<1>5. ServedOnce'
  BY DEF Calm, Ordered, ServedOnce, DepsCompleted
<1> QED
  BY <1>1, <1>2, <1>3, <1>4, <1>5 DEF Ordered

\* What a task waits for stays completed when only rows that are not Completed
\* are written and no dependency of an existing row changes.
LEMMA ReadyStays ==
  ASSUME TypeOK, NEW t \in Tasks, Ready(t), deps'[t] = deps[t], status'[t] # "absent",
         \A d \in Tasks : status[d] = "Completed" => status'[d] = "Completed"
  PROVE  Ready(t)'
  BY DEF Ready, DepsCompleted, TypeOK

\* A submission starts: it is the only one of its batch.
LEMMA SubmissionKeepsOrder ==
  ASSUME TypeOK, Ordered, NEW p \in Procs, NEW b \in Batches, SubmitBatch(p, b)
  PROVE  Ordered'
<1> DEFINE rows == {<<t, InitWorker[t]>> : t \in {x \in Tasks : BatchOf[x] = b}}
<1>1. /\ pc[p] = "free" /\ b \notin submitted /\ submitted' = submitted \cup {b}
      /\ batch' = [batch EXCEPT ![p] = b] /\ todo' = [todo EXCEPT ![p] = rows]
      /\ pc' = [pc EXCEPT ![p] = "create"]
      /\ UNCHANGED <<status, deps, stale, job, own, lock>>
  BY DEF SubmitBatch, Goto, boardVars, memVars
<1>2. \A e \in rows : e[1] \in Tasks /\ BatchOf[e[1]] = b /\ e[2] = InitWorker[e[1]]
  OBVIOUS
<1>3. \A q \in Procs : /\ pc'[q] = IF q = p THEN "create" ELSE pc[q]
                       /\ batch'[q] = IF q = p THEN b ELSE batch[q]
                       /\ todo'[q] = IF q = p THEN rows ELSE todo[q]
  BY <1>1 DEF TypeOK
<1> HIDE DEF rows
<1>4. Unwritten'
  BY <1>1, <1>3 DEF Ordered, Unwritten, RewriterPCs
<1>5. InsertedOnce'
  BY <1>1, <1>2, <1>3 DEF Ordered, InsertedOnce
<1>6. CandidatesReady' /\ ClaimsStand'
  BY <1>1, <1>3 DEF Ordered, CandidatesReady, ClaimsStand, Dispatching, Claims, Ready, DepsCompleted
<1>7. ServedOnce'
  BY <1>1, <1>3 DEF Ordered, ServedOnce, Owner, DepsCompleted
<1> QED
  BY <1>4, <1>5, <1>6, <1>7 DEF Ordered

\* A row is inserted: nobody has looked at it before.
LEMMA InsertKeepsOrder ==
  ASSUME TypeOK, Ordered, NEW p \in Procs, NEW e \in Entries, CreateTask(p, e)
  PROVE  Ordered'
<1> DEFINE t == e[1]
<1>1. /\ pc[p] = "create" /\ e \in todo[p] /\ todo' = [todo EXCEPT ![p] = @ \ {e}]
      /\ UNCHANGED <<pc, stale, job, own, lock, batch, submitted>>
  BY DEF CreateTask, memVars, envVars
<1>2. /\ t \in Tasks /\ status[t] = "absent" /\ BatchOf[t] = batch[p] /\ batch[p] \in submitted
      /\ e[2] = InitWorker[t]
  BY <1>1 DEF Ordered, InsertedOnce
<1>3. /\ status'[t] \in {"Pending", "AwaitingApproval"}
      /\ \A x \in Tasks : x # t => status'[x] = status[x] /\ deps'[x] = deps[x]
  BY <1>2 DEF CreateTask, SetStatus, TypeOK
<1>4. \A q \in Procs : todo'[q] = IF q = p THEN todo[p] \ {e} ELSE todo[q]
  BY <1>1 DEF TypeOK
<1>5. \A q \in Procs : pc[q] = "create" => \A f \in todo'[q] : f[1] # t
  <2> SUFFICES ASSUME NEW q \in Procs, pc[q] = "create", NEW f \in todo'[q], f[1] = t
               PROVE  FALSE
    OBVIOUS
  <2>1. f \in todo[q] /\ f \in Entries
    BY <1>4 DEF TypeOK
  <2>2. q = p
    BY <1>1, <1>2, <2>1 DEF Ordered, InsertedOnce
  <2>3. f[2] = e[2]
    BY <1>2, <2>1, <2>2, <1>1 DEF Ordered, InsertedOnce
  <2>4. f = e
    BY <2>1, <2>3 DEF Entries
  <2> QED BY <1>4, <2>2, <2>4
<1> HIDE DEF t
<1>6. \A x \in Tasks : Ready(x) => Ready(x)'
  BY <1>2, <1>3, ReadyStays DEF Ready
<1>7. Unwritten'
  BY <1>1 DEF Ordered, Unwritten
<1>8. InsertedOnce'
  BY <1>1, <1>2, <1>3, <1>4, <1>5 DEF Ordered, InsertedOnce
<1>9. CandidatesReady'
  BY <1>1, <1>4, <1>6 DEF Ordered, CandidatesReady, Dispatching, Ready
<1>10. ClaimsStand'
  BY <1>1, <1>2, <1>3, <1>6 DEF Ordered, ClaimsStand, Claims, Ready
<1>11. ServedOnce'
  BY <1>1, <1>2, <1>3, <1>6 DEF Ordered, ServedOnce, Owner, Ready
<1> QED
  BY <1>7, <1>8, <1>9, <1>10, <1>11 DEF Ordered

\* A scan finds candidates that are ready, a claim one that still is.
LEMMA ClaimKeepsOrder ==
  ASSUME TypeOK, Ordered, NEW p \in Procs,
         Scan(p) \/ \E e \in Entries, w \in Workers : DispatchClaim(p, e, w)
  PROVE  Ordered'
<1> USE DEF boardVars, memVars, envVars, Goto
<1>1. CASE Scan(p)
  <2> DEFINE found == {<<t, wid[t]>> : t \in Dispatchable(batch[p])}
  <2>1. /\ pc[p] = "scan" /\ todo' = [todo EXCEPT ![p] = found]
        /\ pc' = [pc EXCEPT ![p] = "next"]
        /\ UNCHANGED <<status, deps, submitted, stale, job, own, lock, batch>>
    BY <1>1 DEF Scan
  <2>2. \A e \in found : Ready(e[1])
    BY DEF Dispatchable, InBatch, Ready
  <2>3. \A q \in Procs : /\ pc'[q] = IF q = p THEN "next" ELSE pc[q]
                         /\ todo'[q] = IF q = p THEN found ELSE todo[q]
    BY <2>1 DEF TypeOK
  <2> HIDE DEF found
  <2>4. Unwritten' /\ InsertedOnce'
    BY <2>1, <2>3 DEF Ordered, Unwritten, RewriterPCs, InsertedOnce
  <2>5. CandidatesReady' /\ ClaimsStand'
    BY <2>1, <2>2, <2>3 DEF Ordered, CandidatesReady, ClaimsStand, Dispatching, Claims,
                            Ready, DepsCompleted
  <2>6. ServedOnce'
    BY <2>1, <2>3 DEF Ordered, ServedOnce, Owner, DepsCompleted
  <2> QED
    BY <2>4, <2>5, <2>6 DEF Ordered
<1>2. ASSUME NEW e \in Entries, NEW w \in Workers, DispatchClaim(p, e, w) PROVE Ordered'
  <2>1. /\ pc[p] = "next" /\ e \in todo[p] /\ lock = NoProc /\ status[e[1]] = "Pending"
        /\ todo' = [todo EXCEPT ![p] = @ \ {e}] /\ lock' = p
        /\ job' = [job EXCEPT ![p] = e[1]] /\ pc' = [pc EXCEPT ![p] = "acquire"]
        /\ UNCHANGED <<status, deps, submitted, stale, own, batch>>
    BY <1>2 DEF DispatchClaim, Claimable
  <2>2. Ready(e[1])
    BY <2>1 DEF Ordered, CandidatesReady, Dispatching
  <2>3. \A q \in Procs : /\ pc'[q] = IF q = p THEN "acquire" ELSE pc[q]
                         /\ todo'[q] = IF q = p THEN todo[p] \ {e} ELSE todo[q]
                         /\ job'[q] = IF q = p THEN e[1] ELSE job[q]
    BY <2>1 DEF TypeOK
  <2>4. \A q \in Procs : ~Claims(q)
    BY <2>1, ConstantsAssumption DEF Ordered, ClaimsStand
  <2>5. Unwritten' /\ InsertedOnce'
    BY <2>1, <2>3 DEF Ordered, Unwritten, RewriterPCs, InsertedOnce
  <2>6. CandidatesReady'
    BY <2>1, <2>3 DEF Ordered, CandidatesReady, Dispatching, Ready, DepsCompleted
  <2>7. ClaimsStand'
    BY <2>1, <2>2, <2>3, <2>4 DEF ClaimsStand, Claims, Ready, DepsCompleted
  <2>8. ServedOnce'
    BY <2>1, <2>3 DEF Ordered, ServedOnce, Owner, DepsCompleted
  <2> QED
    BY <2>5, <2>6, <2>7, <2>8 DEF Ordered
<1> QED
  BY <1>1, <1>2

\* The claimed task is started, by its only claimant.
LEMMA StartKeepsOrder ==
  ASSUME TypeOK, Ordered, NEW p \in Procs, Start(p)
  PROVE  Ordered'
<1>1. /\ pc[p] = "start" /\ status' = [status EXCEPT ![job[p]] = "InProgress"]
      /\ lock' = NoProc /\ pc' = [pc EXCEPT ![p] = "spawn"]
      /\ UNCHANGED <<deps, submitted, stale, todo, job, own, batch>>
  BY DEF Start, SetStatus, Goto, Locals, localVars, envVars
<1>2. lock = p /\ Ready(job[p]) /\ status[job[p]] = "Pending"
  BY <1>1 DEF Ordered, ClaimsStand, Claims
<1>3. \A q \in Procs : pc'[q] = IF q = p THEN "spawn" ELSE pc[q]
  BY <1>1 DEF TypeOK
<1>4. \A t \in Tasks : status'[t] = IF t = job[p] THEN "InProgress" ELSE status[t]
  BY <1>1 DEF TypeOK
<1>5. \A t \in Tasks : Ready(t) => Ready(t)'
  BY <1>1, <1>2, <1>4, ReadyStays DEF Ready
<1>6. \A q \in Procs : q # p => ~Claims(q)
  BY <1>2 DEF Ordered, ClaimsStand
<1>7. Unwritten'
  BY <1>1, <1>3 DEF Ordered, Unwritten, RewriterPCs
<1>8. InsertedOnce'
  BY <1>1, <1>2, <1>3, <1>4 DEF Ordered, InsertedOnce, Ready
<1>9. CandidatesReady'
  BY <1>1, <1>3, <1>5 DEF Ordered, CandidatesReady, Dispatching, Ready
<1>10. ClaimsStand'
  BY <1>3, <1>6 DEF ClaimsStand, Claims
<1>11. ServedOnce'
  BY <1>1, <1>2, <1>3, <1>4, <1>5 DEF Ordered, ServedOnce, Owner, Ready
<1> QED
  BY <1>7, <1>8, <1>9, <1>10, <1>11 DEF Ordered

\* A started task is handed to one run.
LEMMA HandKeepsOrder ==
  ASSUME TypeOK, Ordered, NEW p \in Procs, NEW q \in Procs, Spawn(p, q)
  PROVE  Ordered'
<1>1. pc[p] = "spawn" /\ pc[q] = "free" /\ p # q
  BY DEF Spawn
<1>2. UNCHANGED <<status, deps, submitted, stale, todo, lock>>
  BY DEF Spawn, memVars, envVars
<1>3. \A r \in Procs :
        /\ pc'[r] = IF r = q THEN "spawned" ELSE IF r = p THEN "next" ELSE pc[r]
        /\ own'[r] = IF r = q THEN job[p] ELSE own[r]
        /\ r # p /\ r # q => job'[r] = job[r]
        /\ r # q => batch'[r] = batch[r]
  BY <1>1 DEF Spawn, TypeOK
<1>4. Unwritten'
  BY <1>2, <1>3 DEF Ordered, Unwritten, RewriterPCs
<1>5. InsertedOnce'
  <2>1. \A r \in Procs : pc'[r] = "create" => pc[r] = "create" /\ batch'[r] = batch[r]
    BY <1>3
  <2> QED BY <1>2, <2>1 DEF Ordered, InsertedOnce
<1>6. CandidatesReady'
  <2>1. \A r \in Procs : Dispatching(r)' => Dispatching(r)
    BY <1>1, <1>3 DEF Dispatching
  <2> QED BY <1>2, <2>1 DEF Ordered, CandidatesReady, Ready, DepsCompleted
<1>7. ClaimsStand'
  <2>1. \A r \in Procs : Claims(r)' => Claims(r) /\ job'[r] = job[r]
    BY <1>3 DEF Claims
  <2> QED BY <1>2, <2>1 DEF Ordered, ClaimsStand, Ready, DepsCompleted
<1>8. \A r \in Procs, t \in Tasks :
        Owner(r, t)' => IF r = q THEN Owner(p, t) ELSE r # p /\ Owner(r, t)
  BY <1>1, <1>3 DEF Owner
<1>9. ServedOnce'
  BY <1>2, <1>8 DEF Ordered, ServedOnce, DepsCompleted
<1> QED
  BY <1>4, <1>5, <1>6, <1>7, <1>9 DEF Ordered

\* A task is settled by the one that serves it.
LEMMA SettleKeepsOrder ==
  ASSUME TypeOK, Ordered, NEW p \in Procs, Settle(p)
  PROVE  Ordered'
<1>1. /\ pc[p] = "settle" /\ pc' = [pc EXCEPT ![p] = "release"]
      /\ \E s \in {"Completed", "Failed"} : status' = [status EXCEPT ![own[p]] = s]
      /\ UNCHANGED <<deps, submitted, stale, todo, job, own, lock, batch>>
  BY DEF Settle, SetStatus, Goto, Locals, localVars, memVars, envVars
<1>2. \A q \in Procs : pc'[q] = IF q = p THEN "release" ELSE pc[q]
  BY <1>1 DEF TypeOK
<1>3. \A t \in Tasks : t # own[p] => status'[t] = status[t]
  BY <1>1 DEF TypeOK
<1>4. own[p] \in Tasks =>
        Owner(p, own[p]) /\ status[own[p]] = "InProgress" /\ status'[own[p]] \in Terminal
  BY <1>1 DEF Ordered, ServedOnce, Owner, TypeOK, Terminal
<1>5. \A t \in Tasks : Ready(t) => Ready(t)'
  BY <1>1, <1>3, <1>4, ReadyStays DEF Ready, Terminal
<1>6. Unwritten'
  BY <1>1, <1>2 DEF Ordered, Unwritten, RewriterPCs
<1>7. InsertedOnce'
  BY <1>1, <1>2, <1>3, <1>4 DEF Ordered, InsertedOnce
<1>8. CandidatesReady'
  BY <1>1, <1>2, <1>5 DEF Ordered, CandidatesReady, Dispatching, Ready
<1>9. ClaimsStand'
  BY <1>1, <1>2, <1>3, <1>4, <1>5 DEF Ordered, ClaimsStand, Claims, Ready
<1>10. \A q \in Procs, t \in Tasks : Owner(q, t)' => Owner(q, t) /\ q # p
  BY <1>1, <1>2 DEF Owner
<1>11. ServedOnce'
  BY <1>1, <1>3, <1>4, <1>5, <1>10 DEF Ordered, ServedOnce, Ready, Terminal
<1> QED
  BY <1>6, <1>7, <1>8, <1>9, <1>11 DEF Ordered

\* An approval makes rows Pending that nobody has looked at, a restart those
\* nobody runs any more.
LEMMA ApprovalKeepsOrder ==
  ASSUME TypeOK, Ordered, NEW p \in Procs, NEW b \in Batches, ApproveBatch(p, b)
  PROVE  Ordered'
<1>1. /\ pc[p] = "free" /\ pc' = [pc EXCEPT ![p] = "gate"]
      /\ batch' = [batch EXCEPT ![p] = b]
      /\ UNCHANGED <<deps, submitted, stale, todo, job, own, lock>>
  BY DEF ApproveBatch, Issue, Process, Goto, memVars, envVars
<1>2. \A t \in Tasks : \/ status'[t] = status[t]
                       \/ status[t] = "AwaitingApproval" /\ status'[t] = "Pending"
  BY DEF ApproveBatch, TypeOK
<1>3. \A q \in Procs : /\ pc'[q] = IF q = p THEN "gate" ELSE pc[q]
                       /\ q # p => batch'[q] = batch[q]
  BY <1>1 DEF TypeOK
<1>4. \A t \in Tasks : Ready(t) => Ready(t)'
  BY <1>1, <1>2, ReadyStays DEF Ready
<1>5. Unwritten' /\ InsertedOnce'
  BY <1>1, <1>2, <1>3 DEF Ordered, Unwritten, RewriterPCs, InsertedOnce
<1>6. CandidatesReady'
  BY <1>1, <1>3, <1>4 DEF Ordered, CandidatesReady, Dispatching, Ready
<1>7. ClaimsStand'
  BY <1>1, <1>2, <1>3, <1>4 DEF Ordered, ClaimsStand, Claims, Ready
<1>8. ServedOnce'
  BY <1>1, <1>2, <1>3, <1>4 DEF Ordered, ServedOnce, Owner, Ready
<1> QED
  BY <1>5, <1>6, <1>7, <1>8 DEF Ordered

\* Ordered is inductive when nothing writes over the board.
LEMMA OrderedInductive ==
  ASSUME Commands \cap Rewriters = {}, ~Sweeping
  PROVE  /\ Init => Ordered
         /\ TypeOK /\ Ordered /\ [Next]_vars => Ordered'
<1>1. Init => Ordered
  BY DEF Init, Ordered, Unwritten, RewriterPCs, InsertedOnce, CandidatesReady,
         ClaimsStand, ServedOnce, Dispatching, Claims, Owner
<1>2. ASSUME TypeOK, Ordered, [Next]_vars PROVE Ordered'
  <2>1. CASE CrashRecover
    <3>1. /\ stale' = {} /\ UNCHANGED <<deps, submitted>>
          /\ \A p \in Procs : pc'[p] = "free"
          /\ \A t \in Tasks : /\ status'[t] # "InProgress"
                              /\ status'[t] # "absent" => status[t] # "absent"
      BY <1>2, <2>1 DEF CrashRecover, Orphans, TypeOK
    <3> QED
      BY <1>2, <3>1 DEF Ordered, Unwritten, RewriterPCs, InsertedOnce, CandidatesReady,
                        ClaimsStand, ServedOnce, Dispatching, Claims, Owner
  <2> QED
    BY <1>2, <2>1, OnlyBoardSteps, CalmKeepsOrder, SubmissionKeepsOrder, InsertKeepsOrder,
       ClaimKeepsOrder, StartKeepsOrder, HandKeepsOrder, SettleKeepsOrder,
       ApprovalKeepsOrder
<1> QED
  BY <1>1, <1>2

\* No task runs before what it depends on has completed, although the gate was
\* evaluated under a lock that is long released when the task starts.
THEOREM DependenciesFirst ==
  ASSUME Commands \cap Rewriters = {}, ~Sweeping
  PROVE  Spec => []DependenciesRespected
<1>1. Ordered => DependenciesRespected
  BY DEF Ordered, ServedOnce, DependenciesRespected, DepsCompleted
<1> QED
  BY <1>1, TypeCorrect, OrderedInductive, PTL DEF Spec

\* However many activities process a batch, one run per task comes of it.
THEOREM OneRunPerTask ==
  ASSUME Commands \cap Rewriters = {}, ~Sweeping
  PROVE  Spec => []SingleRun
<1>1. ASSUME Ordered PROVE SingleRun
  <2> SUFFICES ASSUME NEW t \in Tasks PROVE Cardinality(Runs(t)) <= 1
    BY DEF SingleRun
  <2>1. \A p, q \in Runs(t) : p = q
    BY <1>1 DEF Ordered, ServedOnce, Owner, Runs
  <2>2. CASE Runs(t) = {}
    BY <2>2, FS_EmptySet
  <2>3. ASSUME NEW p \in Runs(t) PROVE Cardinality(Runs(t)) <= 1
    <3>1. Runs(t) = {p}
      BY <2>1, <2>3
    <3> QED BY <3>1, FS_Singleton, 1 <= 1
  <2> QED
    BY <2>2, <2>3
<1> QED
  BY <1>1, TypeCorrect, OrderedInductive, PTL DEF Spec

\* What is completed, failed or cancelled stays so: no dispatch, run or restart
\* reopens it.
THEOREM TerminalsStay ==
  ASSUME Commands \cap Rewriters = {}, ~Sweeping
  PROVE  Spec => TerminalIsFinal
<1> DEFINE Final == \A t \in Tasks : status[t] \in Terminal => status'[t] = status[t]
<1>1. ASSUME TypeOK, Ordered, [Next]_vars PROVE [Final]_vars
  <2> USE DEF Terminal
  <2>1. CASE Calm
    BY <2>1 DEF Calm
  <2>2. ASSUME NEW p \in Procs, NEW b \in Batches, SubmitBatch(p, b) \/ ApproveBatch(p, b)
        PROVE  Final
    BY <1>1, <2>2 DEF SubmitBatch, ApproveBatch, boardVars, TypeOK
  <2>3. ASSUME NEW p \in Procs, NEW e \in Entries, CreateTask(p, e) PROVE Final
    <3>1. status[e[1]] = "absent" /\ status' \in [Tasks -> TaskStatuses]
          /\ \A x \in Tasks : x # e[1] => status'[x] = status[x]
      BY <1>1, <2>3, NextTypes DEF CreateTask, SetStatus, TypeOK, Ordered, InsertedOnce
    <3> QED BY <3>1
  <2>4. ASSUME NEW p \in Procs, \/ Scan(p) \/ \E q \in Procs : Spawn(p, q)
                                \/ \E e \in Entries, w \in Workers : DispatchClaim(p, e, w)
        PROVE  Final
    BY <2>4 DEF Scan, Spawn, DispatchClaim, boardVars
  <2>5. ASSUME NEW p \in Procs, Start(p) PROVE Final
    BY <1>1, <2>5 DEF Start, SetStatus, TypeOK, Ordered, ClaimsStand, Claims
  <2>6. ASSUME NEW p \in Procs, Settle(p) PROVE Final
    <3>1. \A x \in Tasks : x # own[p] => status'[x] = status[x]
      BY <1>1, <2>6 DEF Settle, SetStatus, TypeOK
    <3>2. own[p] \in Tasks => status[own[p]] = "InProgress"
      BY <1>1, <2>6 DEF Settle, Ordered, ServedOnce, Owner
    <3> QED BY <3>1, <3>2
  <2>7. CASE CrashRecover
    BY <1>1, <2>7 DEF CrashRecover, Orphans, TypeOK
  <2> QED
    BY <1>1, <2>1, <2>2, <2>3, <2>4, <2>5, <2>6, <2>7, OnlyBoardSteps
<1>2. Spec => [][Final]_vars
  BY <1>1, TypeCorrect, OrderedInductive, PTL DEF Spec
<1> QED
  BY <1>2 DEF TerminalIsFinal

(***************************************************************************)
(* What is announced is over.  Without the commands that process a batch   *)
(* which is still being submitted, or reopen one, a batch is announced     *)
(* when all its rows are there and terminal, and no claim on any of them   *)
(* is under way.                                                           *)
(***************************************************************************)

\* The commands that process a batch anew, and the program counters they use.
Reopeners == {"approve", "launch", "resume", "attach", "retry", "reassign", "skip",
              "set_status"}
ReopenerPCs == {"attached", "complete", "resuming", "collect"}

\* Activity p is inside process_batch, or a run that will process its batch.
Processing(p) ==
  pc[p] \in {"gate", "scan", "next", "acquire", "start", "spawn", "announce", "spawned",
             "running", "judge", "settle", "release", "unlink"}
Submitting(p, b) == pc[p] = "create" /\ batch[p] = b

\* Batch b is over: nobody adds to it, nobody has claimed one of its tasks.
Over(b) ==
  /\ AllTerminal(b) /\ b \in submitted
  /\ \A p \in Procs : ~Submitting(p, b)
  /\ \A p \in Procs : Claims(p) => BatchOf[job[p]] # b

\* A batch is processed after its submission, and a claim is of a task.
Processed ==
  /\ \A p \in Procs : pc[p] \notin ReopenerPCs /\ queue[p] = {}
  /\ \A p \in Procs : pc[p] = "create" =>
       /\ batch[p] \in submitted
       /\ \A e \in todo[p] : e[1] \in Tasks /\ BatchOf[e[1]] = batch[p]
  /\ \A p, q \in Procs, b \in Batches : Submitting(p, b) /\ Submitting(q, b) => p = q
  /\ \A p \in Procs : Processing(p) =>
       batch[p] \in submitted /\ \A q \in Procs : ~Submitting(q, batch[p])
  /\ \A p \in Procs : Dispatching(p) => \A e \in todo[p] : e[1] \in Tasks
  /\ \A p \in Procs : Claims(p) => lock = p /\ job[p] \in Tasks

\* What was announced, and what is about to be, is over.
AnnouncedOver ==
  /\ \A b \in Batches : announced[b] > 0 => Over(b)
  /\ \A p \in Procs : pc[p] = "announce" => Over(batch[p])

\* Steps that announce, submit, process and claim nothing, and leave every
\* status alone or make it terminal.
Hushed ==
  /\ UNCHANGED <<announced, submitted>>
  /\ \A t \in Tasks : status'[t] = status[t] \/ status'[t] \in Terminal
  /\ \A p \in Procs :
       /\ pc'[p] \notin ReopenerPCs /\ queue'[p] = {}
       /\ pc'[p] = "create" => pc[p] = "create" /\ batch'[p] = batch[p] /\ todo'[p] = todo[p]
       /\ Processing(p)' => Processing(p) /\ batch'[p] = batch[p]
       /\ pc'[p] = "announce" => pc[p] = "announce"
       /\ Dispatching(p)' => Dispatching(p) /\ todo'[p] \subseteq todo[p]
       /\ Claims(p)' => Claims(p) /\ job'[p] = job[p] /\ lock' = lock

\* Only submitting, dispatching, announcing and a restart are not Hushed.
LEMMA OnlyProcessors ==
  ASSUME TypeOK, Processed, [Next]_vars, Commands \cap Reopeners = {}
  PROVE  \/ Hushed
         \/ \E p \in Procs : \/ \E b \in Batches : SubmitBatch(p, b)
                             \/ \E e \in Entries : CreateTask(p, e)
                             \/ \E e \in Entries, w \in Workers : DispatchClaim(p, e, w)
                             \/ \E q \in Procs : Spawn(p, q)
                             \/ SubmitDone(p) \/ Scan(p) \/ Start(p) \/ Check(p)
                             \/ Announce(p)
         \/ CrashRecover
<1> USE DEF Hushed, Processing, Dispatching, Claims, Reopeners, ReopenerPCs, boardVars,
            localVars, memVars, histVars, envVars, Goto, Locals, Forget, Quit
<1>1. ASSUME NEW p \in Procs, SubmitAborts(p) \/ Gate(p) \/ SpawnFails(p) PROVE Hushed
  BY <1>1 DEF Processed, TypeOK, SubmitAborts, Gate, SpawnFails
<1>2. ASSUME NEW p \in Procs, NEW e \in Entries,
             DispatchSkipped(p, e) \/ \E w \in Workers : DispatchNoAgent(p, e, w)
      PROVE  Hushed
  BY <1>2 DEF Processed, TypeOK, DispatchSkipped, DispatchNoAgent
<1>3. ASSUME NEW p \in Procs, Acquire(p) \/ AcquireBusy(p) PROVE Hushed
  BY <1>3 DEF Processed, TypeOK, Acquire, AcquireBusy
<1>4. ASSUME NEW p \in Procs, AlreadyAnnounced(p) \/ Return(p) PROVE Hushed
  BY <1>4 DEF Processed, TypeOK, AlreadyAnnounced, Return
<1>5. ASSUME NEW p \in Procs, NEW b \in Batches, NextBatch(p, b) PROVE FALSE
  BY <1>5 DEF Processed, NextBatch
<1>6. ASSUME NEW p \in Procs, RunBegin(p) \/ Judge(p) \/ Release(p) \/ Unlink(p)
      PROVE  Hushed
  BY <1>6 DEF Processed, TypeOK, RunBegin, Judge, Release, Unlink
<1>7. ASSUME NEW p \in Procs, NEW o \in Outcomes, RunEnd(p, o) PROVE Hushed
  <2>1. /\ pc[p] = "running"
        /\ pc' \in {[pc EXCEPT ![p] = "settle"], [pc EXCEPT ![p] = "judge"]}
        /\ UNCHANGED <<status, announced, submitted, queue, todo, batch, job, lock>>
    BY <1>7 DEF RunEnd
  <2> QED BY <2>1 DEF Processed, TypeOK
<1>8. ASSUME NEW p \in Procs, Settle(p) PROVE Hushed
  <2>1. /\ pc[p] = "settle" /\ pc' = [pc EXCEPT ![p] = "release"]
        /\ UNCHANGED <<announced, submitted, queue, todo, batch, job, lock>>
    BY <1>8 DEF Settle
  <2>2. \A t \in Tasks : status'[t] = status[t] \/ status'[t] \in Terminal
    BY <1>8 DEF Settle, SetStatus, TypeOK, Terminal
  <2> QED BY <2>1, <2>2 DEF Processed, TypeOK
<1>9. ASSUME NEW p \in Procs, TaskCommand(p) PROVE FALSE
  BY <1>9 DEF Processed, TaskCommand, ApproveBatch, TaskLaunch, TaskRetry,
              TaskSkipDependency, TaskReassign, TaskSetStatus, TaskAttachOutputs,
              AttachWrite, Issue
<1>10. ASSUME NEW p \in Procs, Cancellation(p) PROVE Hushed
  <2>1. ASSUME NEW b \in Batches, CancelBatch(p, b) PROVE Hushed
    BY <2>1 DEF Processed, TypeOK, CancelBatch, Issue
  <2>2. ASSUME NEW e \in Entries, CancelUnnamed(p, e) \/ CancelNamed(p, e) PROVE Hushed
    BY <2>2 DEF Processed, TypeOK, CancelUnnamed, CancelNamed
  <2>3. ASSUME CancelRelease(p) \/ CancelUnlink(p) \/ CancelDone(p) PROVE Hushed
    BY <2>3 DEF Processed, TypeOK, CancelRelease, CancelUnlink, CancelDone
  <2>4. ASSUME CancelMark(p) PROVE Hushed
    <3>1. \A t \in Tasks : status'[t] = status[t] \/ status'[t] \in Terminal
      BY <2>4 DEF CancelMark, SetStatus, TypeOK, Terminal
    <3> QED BY <2>4, <3>1 DEF Processed, TypeOK, CancelMark
  <2> QED
    BY <1>10, <2>1, <2>2, <2>3, <2>4 DEF Cancellation
<1>11. ASSUME NEW p \in Procs, GroupCommand(p) PROVE Hushed
  <2>1. ASSUME GroupPause(p) \/ GroupResume(p) \/ GroupDissolve(p) PROVE Hushed
    BY <2>1 DEF Processed, TypeOK, GroupPause, GroupResume, GroupDissolve, Issue
  <2>2. ASSUME NEW w \in Workers, DissolveCancel(p, w) PROVE Hushed
    BY <2>2 DEF Processed, TypeOK, DissolveCancel
  <2>3. ASSUME GroupWrite(p) PROVE Hushed
    <3>1. /\ pc[p] \in {"pausing", "archiving"} /\ pc' = [pc EXCEPT ![p] = "return"]
          /\ UNCHANGED <<status, announced, submitted, queue, todo, batch, job, lock>>
      BY <2>3 DEF GroupWrite, Processed
    <3> QED BY <3>1 DEF Processed, TypeOK
  <2>4. ASSUME DissolveRead(p) \/ ResumeCollect(p) PROVE Hushed
    BY <2>4 DEF Processed, TypeOK, DissolveRead, ResumeCollect
  <2> QED
    BY <1>11, <2>1, <2>2, <2>3, <2>4 DEF GroupCommand
<1>12. ASSUME NEW p \in Procs, WorkerCommand(p) PROVE Hushed
  <2>1. ASSUME NEW w \in Workers,
               \/ GroupAddWorker(p, w) \/ GroupAddCapabilitySeat(p, w)
               \/ \E a \in Agents : GroupSetWorkerAgent(p, w, a)
               \/ GroupSetWorkerStatus(p, w) \/ RoundtableTurn(p, w)
        PROVE  Hushed
    BY <2>1 DEF Processed, TypeOK, GroupAddWorker, GroupAddCapabilitySeat,
                GroupSetWorkerAgent, GroupSetWorkerStatus, RoundtableTurn, Issue
  <2>2. ASSUME NEW w \in Workers, GroupRemoveWorker(p, w) PROVE Hushed
    BY <2>2 DEF Processed, TypeOK, GroupRemoveWorker, Issue
  <2>3. ASSUME RoundtableReply(p) \/ WorkerStatusWrite(p) \/ RemoveDelete(p) PROVE Hushed
    BY <2>3 DEF Processed, TypeOK, RoundtableReply, WorkerStatusWrite, RemoveDelete
  <2>4. ASSUME RemoveMark(p) PROVE Hushed
    <3>1. \A t \in Tasks : status'[t] = status[t] \/ status'[t] \in Terminal
      BY <2>4 DEF RemoveMark, TypeOK, Terminal
    <3> QED BY <2>4, <3>1 DEF Processed, TypeOK, RemoveMark
  <2> QED
    BY <1>12, <2>1, <2>2, <2>3, <2>4 DEF WorkerCommand
<1>13. ASSUME NEW t \in Tasks, Beat(t) \/ SweepTask(t) PROVE Hushed
  BY <1>13 DEF Processed, TypeOK, Beat, SweepTask, SetStatus, Terminal
<1>14. ASSUME SweepScan \/ Stall \/ UNCHANGED vars PROVE Hushed
  BY <1>14 DEF Processed, SweepScan, Stall, vars
<1> QED
  BY <1>1, <1>2, <1>3, <1>4, <1>5, <1>6, <1>7, <1>8, <1>9, <1>10, <1>11, <1>12, <1>13,
     <1>14 DEF Next, Submission, Dispatch, Run

\* A batch stays over while its rows keep their statuses or end otherwise, and
\* nobody begins to submit it or claims one of its tasks.
LEMMA OverStays ==
  ASSUME NEW b \in Batches, Over(b), b \in submitted',
         \A t \in Tasks : BatchOf[t] = b => status'[t] = status[t] \/ status'[t] \in Terminal,
         \A p \in Procs : Submitting(p, b)' => Submitting(p, b),
         \A p \in Procs : Claims(p)' => (Claims(p) /\ job'[p] = job[p]) \/ BatchOf[job'[p]] # b
  PROVE  Over(b)'
<1>1. \A t \in Tasks : BatchOf[t] = b /\ status[t] # "absent" => status[t] \in Terminal
  BY DEF Over, AllTerminal, InBatch
<1>2. \A t \in Tasks : BatchOf[t] = b /\ status'[t] # "absent" => status'[t] \in Terminal
  BY <1>1
<1>3. PICK t \in Tasks : BatchOf[t] = b /\ status[t] # "absent"
  BY DEF Over, AllTerminal, InBatch
<1>4. status'[t] # "absent"
  BY <1>3 DEF Terminal
<1>5. AllTerminal(b)'
  BY <1>2, <1>3, <1>4 DEF AllTerminal, InBatch
<1> QED
  BY <1>5 DEF Over

\* Hushed steps.
LEMMA HushedKeeps ==
  ASSUME TypeOK, Processed, AnnouncedOver, Hushed
  PROVE  Processed' /\ AnnouncedOver'
<1>1. \A p \in Procs, b \in Batches : Submitting(p, b)' => Submitting(p, b)
  BY DEF Hushed, Submitting
<1>2. Processed'
  <2>1. \A p \in Procs : pc'[p] \notin ReopenerPCs /\ queue'[p] = {}
    BY DEF Hushed
  <2>2. \A p \in Procs : pc'[p] = "create" =>
          /\ batch'[p] \in submitted'
          /\ \A e \in todo'[p] : e[1] \in Tasks /\ BatchOf[e[1]] = batch'[p]
    BY DEF Hushed, Processed
  <2>3. \A p, q \in Procs, b \in Batches : Submitting(p, b)' /\ Submitting(q, b)' => p = q
    BY <1>1 DEF Processed
  <2>4. \A p \in Procs : Processing(p)' =>
          batch'[p] \in submitted' /\ \A q \in Procs : ~Submitting(q, batch[p])'
    BY DEF Hushed, Processed, Submitting
  <2>5. \A p \in Procs : Processing(p)' => batch'[p] = batch[p]
    BY DEF Hushed
  <2>6. \A p \in Procs : Dispatching(p)' => \A e \in todo'[p] : e[1] \in Tasks
    BY DEF Hushed, Processed
  <2>7. \A p \in Procs : Claims(p)' => lock' = p /\ job'[p] \in Tasks
    BY DEF Hushed, Processed
  <2> QED
    BY <2>1, <2>2, <2>3, <2>4, <2>5, <2>6, <2>7 DEF Processed, Submitting
<1>3. \A b \in Batches : Over(b) => Over(b)'
  BY <1>1, OverStays DEF Hushed, Over
<1>4. \A p \in Procs : pc'[p] = "announce" => pc[p] = "announce" /\ batch'[p] = batch[p]
  BY DEF Hushed, Processing
<1>5. \A p \in Procs : pc[p] = "announce" => batch[p] \in Batches
  BY DEF AnnouncedOver, Over, AllTerminal, InBatch, TypeOK, ConstantsAssumption
<1>6. AnnouncedOver'
  BY <1>3, <1>4, <1>5 DEF AnnouncedOver, Hushed
<1> QED
  BY <1>2, <1>6

\* Submissions: only they put rows into a batch, and none of another batch.
LEMMA SubmissionKeepsOver ==
  ASSUME TypeOK, Processed, AnnouncedOver, NEW p \in Procs,
         \/ \E b \in Batches : SubmitBatch(p, b)
         \/ SubmitDone(p)
  PROVE  Processed' /\ AnnouncedOver'
<1> USE DEF boardVars, memVars, histVars, Goto, Locals, localVars, envVars
<1>1. ASSUME NEW b \in Batches, SubmitBatch(p, b) PROVE Processed' /\ AnnouncedOver'
  <2>1. /\ pc[p] = "free" /\ b \notin submitted /\ submitted' = submitted \cup {b}
        /\ UNCHANGED <<status, announced, lock, job, queue>>
    BY <1>1 DEF SubmitBatch
  <2>2. \A q \in Procs : /\ pc'[q] = IF q = p THEN "create" ELSE pc[q]
                         /\ batch'[q] = IF q = p THEN b ELSE batch[q]
                         /\ q # p => todo'[q] = todo[q]
    BY <1>1 DEF SubmitBatch, TypeOK
  <2>3. \A q \in Procs, c \in Batches :
          Submitting(q, c)' => IF q = p THEN c = b ELSE Submitting(q, c)
    BY <2>2 DEF Submitting
  <2>4. \A q \in Procs : ~Submitting(q, b)
    BY <2>1 DEF Processed, Submitting
  <2>5. Processed'
    <3>1. \A q \in Procs : Processing(q)' => Processing(q) /\ batch'[q] = batch[q] /\ q # p
      BY <2>2 DEF Processing
    <3>2. \A q \in Procs : Processing(q)' => \A r \in Procs : ~Submitting(r, batch[q])'
      BY <2>1, <2>2, <3>1 DEF Processed, Submitting
    <3>3. \A q \in Procs : Processing(q)' =>
            batch'[q] \in submitted' /\ \A r \in Procs : ~Submitting(r, batch[q])'
      BY <2>1, <3>1, <3>2 DEF Processed
    <3>4. \A q \in Procs : pc'[q] \notin ReopenerPCs /\ queue'[q] = {}
      BY <2>1, <2>2 DEF Processed, ReopenerPCs
    <3>5. \A q \in Procs : pc'[q] = "create" =>
            /\ batch'[q] \in submitted'
            /\ \A e \in todo'[q] : e[1] \in Tasks /\ BatchOf[e[1]] = batch'[q]
      <4>1. \A e \in todo'[p] : e[1] \in Tasks /\ BatchOf[e[1]] = b
        BY <1>1 DEF SubmitBatch, TypeOK
      <4> QED
        BY <2>1, <2>2, <4>1 DEF Processed
    <3>6. \A q, r \in Procs, c \in Batches :
            Submitting(q, c)' /\ Submitting(r, c)' => q = r
      BY <2>3, <2>4 DEF Processed
    <3>7. \A q \in Procs : Dispatching(q)' => \A e \in todo'[q] : e[1] \in Tasks
      BY <2>2 DEF Processed, Dispatching
    <3>8. \A q \in Procs : Claims(q)' => lock' = q /\ job'[q] \in Tasks
      BY <2>1, <2>2 DEF Processed, Claims
    <3> QED
      BY <3>1, <3>3, <3>4, <3>5, <3>6, <3>7, <3>8 DEF Processed
  <2>6. \A c \in Batches : Over(c) => Over(c)'
    <3>1. \A q \in Procs : Claims(q)' => Claims(q) /\ job'[q] = job[q]
      BY <2>1, <2>2 DEF Claims
    <3> QED BY <2>1, <2>3, <3>1, OverStays DEF Over
  <2>7. \A q \in Procs : pc[q] = "announce" => batch[q] \in Batches
    BY ConstantsAssumption DEF AnnouncedOver, Over, AllTerminal, InBatch
  <2>8. AnnouncedOver'
    BY <2>1, <2>2, <2>6, <2>7 DEF AnnouncedOver
  <2> QED BY <2>5, <2>8
<1>2. ASSUME SubmitDone(p) PROVE Processed' /\ AnnouncedOver'
  <2>1. /\ pc[p] = "create"
        /\ UNCHANGED <<status, announced, lock, job, queue, submitted, todo, batch>>
    BY <1>2 DEF SubmitDone
  <2>2. pc'[p] \in {"gate", "return"} /\ \A q \in Procs : q # p => pc'[q] = pc[q]
    BY <1>2 DEF SubmitDone, TypeOK
  <2>3. \A q \in Procs : \A c : Submitting(q, c)' <=> q # p /\ Submitting(q, c)
    BY <2>1, <2>2 DEF Submitting
  <2>4. batch[p] \in Batches
    BY <2>1, ConstantsAssumption DEF Processed, TypeOK
  <2>5. Processed'
    <3>1. \A q \in Procs : Processing(q)' => q = p \/ Processing(q)
      BY <2>2 DEF Processing
    <3>2. \A q \in Procs : Processing(q)' => \A r \in Procs : ~Submitting(r, batch[q])'
      BY <2>1, <2>3, <2>4, <3>1 DEF Processed, Submitting
    <3> QED
      BY <2>1, <2>2, <2>3, <3>1, <3>2
         DEF Processed, Processing, Dispatching, Claims, ReopenerPCs, Submitting
  <2>6. \A c \in Batches : Over(c) => Over(c)'
    <3>1. \A q \in Procs : Claims(q)' => Claims(q) /\ job'[q] = job[q]
      BY <2>1, <2>2 DEF Claims
    <3> QED BY <2>1, <2>3, <3>1, OverStays DEF Over
  <2>7. \A q \in Procs : pc[q] = "announce" => batch[q] \in Batches
    BY ConstantsAssumption DEF AnnouncedOver, Over, AllTerminal, InBatch
  <2>8. AnnouncedOver'
    BY <2>1, <2>2, <2>6, <2>7 DEF AnnouncedOver
  <2> QED BY <2>5, <2>8
<1> QED
  BY <1>1, <1>2

\* A row is inserted into a batch that is being submitted, hence not over.
LEMMA InsertKeepsOver ==
  ASSUME TypeOK, Processed, AnnouncedOver, NEW p \in Procs, NEW e \in Entries,
         CreateTask(p, e)
  PROVE  Processed' /\ AnnouncedOver'
<1>1. /\ pc[p] = "create" /\ e \in todo[p]
      /\ UNCHANGED <<pc, announced, lock, job, queue, submitted, batch>>
  BY DEF CreateTask, memVars, histVars, envVars
<1>2. e[1] \in Tasks /\ BatchOf[e[1]] = batch[p]
  BY <1>1 DEF Processed
<1>3. \A t \in Tasks : t # e[1] => status'[t] = status[t]
  BY DEF CreateTask, SetStatus, TypeOK
<1>4. \A q \in Procs : todo'[q] \subseteq todo[q]
  BY DEF CreateTask, TypeOK
<1>5. Processed'
  BY <1>1, <1>4 DEF Processed, Processing, Submitting, Dispatching, Claims
<1>6. \A b \in Batches : Over(b) => Over(b)'
  <2>1. \A b \in Batches : Over(b) => b # batch[p]
    BY <1>1 DEF Over, Submitting
  <2>2. \A q \in Procs : Claims(q)' => Claims(q) /\ job'[q] = job[q]
    BY <1>1 DEF Claims
  <2>3. \A q \in Procs, b \in Batches : Submitting(q, b)' => Submitting(q, b)
    BY <1>1 DEF Submitting
  <2> QED BY <1>1, <1>2, <1>3, <2>1, <2>2, <2>3, OverStays DEF Over
<1>7. \A q \in Procs : pc[q] = "announce" => batch[q] \in Batches
  BY DEF AnnouncedOver, Over, TypeOK
<1>8. AnnouncedOver'
  BY <1>1, <1>6, <1>7 DEF AnnouncedOver
<1> QED BY <1>5, <1>8

\* Scanning, claiming and starting: a task of a batch that is over is not
\* Pending, so it is not claimed, and what is started was claimed.
LEMMA DispatchKeepsOver ==
  ASSUME TypeOK, Processed, AnnouncedOver, NEW p \in Procs,
         \/ Scan(p) \/ Start(p) \/ \E q \in Procs : Spawn(p, q)
         \/ \E e \in Entries, w \in Workers : DispatchClaim(p, e, w)
  PROVE  Processed' /\ AnnouncedOver'
<1> USE DEF boardVars, memVars, histVars, envVars, Goto, Locals, localVars
<1>1. \A q \in Procs : pc[q] = "announce" => batch[q] \in Batches
  BY DEF AnnouncedOver, Over, TypeOK
<1>2. CASE Scan(p)
  <2>1. /\ pc[p] = "scan"
        /\ UNCHANGED <<status, announced, lock, job, queue, submitted, batch>>
    BY <1>2 DEF Scan
  <2>2. \A q \in Procs : /\ pc'[q] = IF q = p THEN "next" ELSE pc[q]
                         /\ q # p => todo'[q] = todo[q]
    BY <1>2 DEF Scan, TypeOK
  <2>3. \A e \in todo'[p] : e[1] \in Tasks
    BY <1>2 DEF Scan, Dispatchable, InBatch, TypeOK
  <2>4. \A q \in Procs : \A b : Submitting(q, b)' <=> Submitting(q, b)
    BY <2>1, <2>2 DEF Submitting
  <2>5. \A q \in Procs : Processing(q)' <=> Processing(q)
    BY <2>1, <2>2 DEF Processing
  <2>6. Processed'
    BY <2>1, <2>2, <2>3, <2>4, <2>5 DEF Processed, Dispatching, Claims, ReopenerPCs, Submitting
  <2>7. \A b \in Batches : Over(b) => Over(b)'
    BY <2>1, <2>2, <2>4, OverStays DEF Over, Claims
  <2>8. AnnouncedOver'
    BY <1>1, <2>1, <2>2, <2>7 DEF AnnouncedOver
  <2> QED BY <2>6, <2>8
<1>3. ASSUME NEW e \in Entries, NEW w \in Workers, DispatchClaim(p, e, w)
      PROVE  Processed' /\ AnnouncedOver'
  <2>1. /\ pc[p] = "next" /\ e \in todo[p] /\ lock = NoProc /\ lock' = p
        /\ status[e[1]] = "Pending"
        /\ UNCHANGED <<status, announced, queue, submitted, batch>>
    BY <1>3 DEF DispatchClaim, Claimable
  <2>2. \A q \in Procs : /\ pc'[q] = IF q = p THEN "acquire" ELSE pc[q]
                         /\ todo'[q] \subseteq todo[q]
                         /\ job'[q] = IF q = p THEN e[1] ELSE job[q]
    BY <1>3 DEF DispatchClaim, TypeOK
  <2>3. e[1] \in Tasks
    BY <2>1 DEF Processed, Dispatching
  <2>4. \A q \in Procs : ~Claims(q)
    BY <2>1, ConstantsAssumption DEF Processed
  <2>5. \A q \in Procs : \A b : Submitting(q, b)' <=> Submitting(q, b)
    BY <2>1, <2>2 DEF Submitting
  <2>6. \A q \in Procs : Processing(q)' <=> Processing(q)
    BY <2>1, <2>2 DEF Processing
  <2>7. \A q \in Procs : Claims(q)' => q = p
    BY <2>2, <2>4 DEF Claims
  <2>8. Processed'
    BY <2>1, <2>2, <2>3, <2>5, <2>6, <2>7 DEF Processed, Dispatching, ReopenerPCs, Submitting
  <2>9. \A b \in Batches : Over(b) => BatchOf[e[1]] # b
    BY <2>1, <2>3 DEF Over, AllTerminal, InBatch, Terminal
  <2>10. \A b \in Batches : Over(b) => Over(b)'
    BY <2>1, <2>2, <2>5, <2>7, <2>9, OverStays DEF Over
  <2>11. AnnouncedOver'
    BY <1>1, <2>1, <2>2, <2>10 DEF AnnouncedOver
  <2> QED BY <2>8, <2>11
<1>4. CASE Start(p)
  <2>1. /\ pc[p] = "start" /\ lock' = NoProc
        /\ UNCHANGED <<announced, job, queue, submitted, batch, todo>>
    BY <1>4 DEF Start
  <2>2. \A q \in Procs : pc'[q] = IF q = p THEN "spawn" ELSE pc[q]
    BY <1>4 DEF Start, TypeOK
  <2>3. \A t \in Tasks : t # job[p] => status'[t] = status[t]
    BY <1>4 DEF Start, SetStatus, TypeOK
  <2>4. \A q \in Procs : Claims(q) => q = p
    BY <2>1 DEF Processed, Claims
  <2>5. \A q \in Procs : ~Claims(q)'
    BY <2>2, <2>4 DEF Claims
  <2>6. \A q \in Procs : \A b : Submitting(q, b)' <=> Submitting(q, b)
    BY <2>1, <2>2 DEF Submitting
  <2>7. \A q \in Procs : Processing(q)' <=> Processing(q)
    BY <2>1, <2>2 DEF Processing
  <2>8. Processed'
    BY <2>1, <2>2, <2>5, <2>6, <2>7 DEF Processed, Dispatching, ReopenerPCs, Submitting
  <2>9. \A b \in Batches : Over(b) => BatchOf[job[p]] # b
    BY <2>1 DEF Over, Claims
  <2>10. \A b \in Batches : Over(b) => Over(b)'
    BY <2>1, <2>3, <2>5, <2>6, <2>9, OverStays DEF Over
  <2>11. AnnouncedOver'
    BY <1>1, <2>1, <2>2, <2>10 DEF AnnouncedOver
  <2> QED BY <2>8, <2>11
<1>5. ASSUME NEW q \in Procs, Spawn(p, q) PROVE Processed' /\ AnnouncedOver'
  <2>1. /\ pc[p] = "spawn" /\ pc[q] = "free"
        /\ UNCHANGED <<status, announced, lock, queue, submitted, todo>>
    BY <1>5 DEF Spawn
  <2>2. \A r \in Procs :
          /\ pc'[r] = IF r = q THEN "spawned" ELSE IF r = p THEN "next" ELSE pc[r]
          /\ batch'[r] = IF r = q THEN batch[p] ELSE batch[r]
          /\ r # p /\ r # q => job'[r] = job[r]
    BY <1>5, <2>1 DEF Spawn, TypeOK
  <2>3. \A r \in Procs : \A b : Submitting(r, b)' <=> Submitting(r, b)
    BY <2>1, <2>2 DEF Submitting
  <2>4. \A r \in Procs : Processing(r)' => IF r = q THEN Processing(p) ELSE Processing(r)
    BY <2>1, <2>2 DEF Processing
  <2>5. \A r \in Procs : Claims(r)' => Claims(r) /\ job'[r] = job[r]
    BY <2>2 DEF Claims
  <2>6. \A r \in Procs : Dispatching(r)' => Dispatching(r)
    BY <2>1, <2>2 DEF Dispatching
  <2>7. \A r \in Procs : pc'[r] = "create" => pc[r] = "create" /\ batch'[r] = batch[r]
    BY <2>2
  <2>8. \A r \in Procs : pc'[r] \notin ReopenerPCs
    BY <2>2 DEF Processed, ReopenerPCs
  <2>9. \A r \in Procs : Processing(r)' =>
          batch'[r] \in submitted' /\ \A s \in Procs : ~Submitting(s, batch[r])'
    <3>1. \A r, s \in Procs : Submitting(s, batch[r])' <=> Submitting(s, batch'[r])
      BY <2>1, <2>2 DEF Submitting
    <3> QED BY <2>1, <2>2, <2>3, <2>4, <3>1 DEF Processed
  <2>10. Processed'
    BY <2>1, <2>3, <2>5, <2>6, <2>7, <2>8, <2>9 DEF Processed
  <2>11. \A b \in Batches : Over(b) => Over(b)'
    BY <2>1, <2>3, <2>5, OverStays DEF Over
  <2>12. \A r \in Procs : pc'[r] = "announce" => pc[r] = "announce" /\ batch'[r] = batch[r]
    BY <2>2
  <2>13. AnnouncedOver'
    BY <1>1, <2>1, <2>11, <2>12 DEF AnnouncedOver
  <2> QED BY <2>10, <2>13
<1> QED
  BY <1>2, <1>3, <1>4, <1>5

\* The last look at the batch, under the lock, and its announcement.
LEMMA AnnouncingKeepsOver ==
  ASSUME TypeOK, Processed, AnnouncedOver, NEW p \in Procs, Check(p) \/ Announce(p)
  PROVE  Processed' /\ AnnouncedOver'
<1> USE DEF boardVars, memVars, histVars, envVars, Goto, Locals, localVars
<1>1. /\ pc[p] \in {"next", "announce"}
      /\ UNCHANGED <<status, lock, job, queue, submitted, todo, batch>>
  BY DEF Check, Announce
<1>2. /\ \A q \in Procs : q # p => pc'[q] = pc[q]
      /\ pc'[p] \in {"announce", "return"}
  BY DEF Check, Announce, TypeOK
<1>3. \A q \in Procs : \A b : Submitting(q, b)' <=> Submitting(q, b)
  BY <1>1, <1>2 DEF Submitting
<1>4. \A q \in Procs : Processing(q)' => Processing(q)
  BY <1>1, <1>2 DEF Processing
<1>5. \A q \in Procs : Claims(q)' => Claims(q) /\ job'[q] = job[q]
  BY <1>1, <1>2 DEF Claims
<1>6. Processed'
  BY <1>1, <1>2, <1>3, <1>4, <1>5 DEF Processed, Dispatching, ReopenerPCs, Submitting
<1>7. \A b \in Batches : Over(b) => Over(b)'
  BY <1>1, <1>3, <1>5, OverStays DEF Over
<1>8. \A q \in Procs : pc[q] = "announce" => batch[q] \in Batches
  BY DEF AnnouncedOver, Over, TypeOK
<1>9. CASE Check(p)
  <2>1. /\ pc[p] = "next" /\ lock = NoProc /\ announced' = announced
        /\ pc'[p] = "announce" => AllTerminal(batch[p])
    BY <1>9 DEF Check, TypeOK
  <2>2. pc'[p] = "announce" => Over(batch[p]) /\ batch[p] \in Batches
    BY <2>1, ConstantsAssumption DEF Processed, Processing, Over, TypeOK
  <2>3. AnnouncedOver'
    BY <1>1, <1>2, <1>7, <1>8, <2>1, <2>2 DEF AnnouncedOver
  <2> QED BY <1>6, <2>3
<1>10. CASE Announce(p)
  <2>1. pc[p] = "announce" /\ pc'[p] = "return"
    BY <1>10 DEF Announce, TypeOK
  <2>2. \A b \in Batches : b # batch[p] => announced'[b] = announced[b]
    BY <1>10 DEF Announce, TypeOK
  <2>3. AnnouncedOver'
    BY <1>1, <1>2, <1>7, <1>8, <2>1, <2>2 DEF AnnouncedOver
  <2> QED BY <1>6, <2>3
<1> QED
  BY <1>9, <1>10

\* Both parts are inductive when nothing processes a batch anew.
LEMMA AnnouncedOverInductive ==
  ASSUME Commands \cap Reopeners = {}
  PROVE  /\ Init => Processed /\ AnnouncedOver
         /\ TypeOK /\ (Processed /\ AnnouncedOver) /\ [Next]_vars
              => (Processed /\ AnnouncedOver)'
<1>1. Init => Processed /\ AnnouncedOver
  BY DEF Init, Processed, AnnouncedOver, ReopenerPCs, Submitting, Processing, Dispatching, Claims
<1>2. ASSUME TypeOK, Processed, AnnouncedOver, [Next]_vars PROVE Processed' /\ AnnouncedOver'
  <2>1. CASE CrashRecover
    <3>1. /\ submitted' = submitted /\ announced' = [b \in Batches |-> 0]
          /\ \A p \in Procs : pc'[p] = "free" /\ queue'[p] = {}
      BY <2>1 DEF CrashRecover
    <3> QED
      BY <3>1 DEF Processed, AnnouncedOver, ReopenerPCs, Submitting, Processing,
                  Dispatching, Claims
  <2> QED
    BY <1>2, <2>1, OnlyProcessors, HushedKeeps, SubmissionKeepsOver, InsertKeepsOver,
       DispatchKeepsOver, AnnouncingKeepsOver
<1> QED
  BY <1>1, <1>2

\* A batch whose completion was announced is complete and stays so, through
\* crashes, sweeps, stalls, cancellations and half-created batches.
THEOREM AnnouncementsAreTrue ==
  ASSUME Commands \cap Reopeners = {}
  PROVE  Spec => []AnnouncedIsTerminal
<1>1. AnnouncedOver => AnnouncedIsTerminal
  BY DEF AnnouncedOver, Over, AnnouncedIsTerminal
<1> QED
  BY <1>1, TypeCorrect, AnnouncedOverInductive, PTL DEF Spec
=============================================================================
