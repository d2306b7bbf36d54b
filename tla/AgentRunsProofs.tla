-------------------------- MODULE AgentRunsProofs --------------------------
(***************************************************************************)
(* What holds of AgentRuns for every number of runs, sessions, files and   *)
(* tools, every set of faults and commands and every bound.                *)
(*                                                                         *)
(* First the change log, which follows the disk as long as the application *)
(* does not go down (a crash between a write and its record loses the      *)
(* record) and no write fails after it has truncated the file.  The        *)
(* argument is about held, file, log and three fields of run.  Most        *)
(* actions of a run are Quiet: the run is not between a write and its      *)
(* record, does not get there, and at most lets go of what it holds.       *)
(*                                                                         *)
(* Then the types (Typed: TypeOK and what the program counter of a run     *)
(* says of its other fields), and on top of them four invariants that do   *)
(* not know of each other: what the broker knows (BrokerInv), what a run   *)
(* has taken and must give back (Owed), what the rows say (RowsSettle and  *)
(* Continued), and whose the senders of a session are (SendInv).  The last *)
(* three look at a step of a run through RunStepKinds only.                *)
(***************************************************************************)
EXTENDS AgentRuns, TLAPS

Fields == {"pc", "target", "before"}

\* what the EXCEPTs of the actions need to know of the domains
Shaped ==
  /\ DOMAIN run = Runs /\ \A r \in Runs : Fields \subseteq DOMAIN run[r]
  /\ DOMAIN held = Files /\ DOMAIN file = Files /\ DOMAIN log = Files

Gated == {"writing", "written", "recorded"}

\* from the gate to the record a run holds its file
HoldsTarget ==
  \A r \in Runs : run[r].pc \in Gated =>
    run[r].target \in Files /\ held[run[r].target] = r
\* what it read before it wrote is what is on disk, and after it wrote what
\* the newest changeset shows
ReadIsFresh ==
  \A r \in Runs :
    /\ run[r].pc = "writing" => run[r].before = file[run[r].target]
    /\ run[r].pc = "written" =>
         file[run[r].target] = r /\ run[r].before = log[run[r].target].after
Inv == Shaped /\ HoldsTarget /\ ReadIsFresh /\ LogIsCurrent

Others(r) == \A x \in Runs \ {r} : run'[x] = run[x]
\* a step of run r that neither opens, uses nor passes the gate
Quiet(r) ==
  /\ Shaped' /\ Others(r)
  /\ run[r].pc # "written" /\ run'[r].pc \notin Gated
  /\ file' = file /\ log' = log
  /\ \A f \in Files : held[f] # r => held'[f] = held[f]

-----------------------------------------------------------------------------
LEMMA IdleFields == Fields \subseteq DOMAIN Idle
  BY DEF Fields, Idle

\* Leaving is quiet wherever a run does it, whether or not it keeps its files.
LEMMA LeaveIsQuiet ==
  ASSUME Shaped, NEW r \in Runs, NEW seq, NEW why, Leave(r, seq, why),
         run[r].pc # "written", UNCHANGED <<held, file, log>>
  PROVE  Quiet(r)
  BY DEF Shaped, Leave, Fields, Others, Quiet, Gated

\* So is the end of a call, after which the run may hold fewer files.
LEMMA CallOverIsQuiet ==
  ASSUME Shaped, NEW r \in Runs, NEW bad, CallOver(r, bad),
         run[r].pc # "written", UNCHANGED <<file, log>>, DOMAIN held' = Files,
         \A f \in Files : held[f] # r => held'[f] = held[f]
  PROVE  Quiet(r)
  BY DEF Shaped, CallOver, Fields, Others, Quiet, Gated

LEMMA GotoIsQuiet ==
  ASSUME Shaped, NEW r \in Runs, NEW pc, Goto(r, pc), pc \notin Gated,
         run[r].pc # "written", UNCHANGED <<held, file, log>>
  PROVE  Quiet(r)
  BY DEF Shaped, Goto, Fields, Others, Quiet, Gated

\* A run that starts is quiet.
LEMMA SendIsQuiet ==
  ASSUME Shaped, NEW r \in Runs, NEW s \in Sessions, Send(r, s)
  PROVE  Quiet(r)
<1> DEFINE new == [Idle EXCEPT !.pc = "arming", !.sess = s, !.todo = Arming]
<1>1. run' = [run EXCEPT ![r] = new] /\ run[r].pc = "unused" /\ UNCHANGED <<held, file, log>>
  BY DEF Send, diskVars
<1>2. Fields \subseteq DOMAIN new /\ new.pc = "arming"
  BY IdleFields DEF Fields
<1> HIDE DEF new
<1> QED BY <1>1, <1>2 DEF Shaped, Others, Quiet, Gated

LEMMA ResumeIsQuiet ==
  ASSUME Shaped, NEW r \in Runs, NEW o \in Runs, ResumeTask(r, o)
  PROVE  Quiet(r)
<1> DEFINE new == [Idle EXCEPT !.pc = "marking", !.sess = run[o].sess, !.from = o,
                               !.start = ckpt[o], !.iter = ckpt[o]]
<1>1. run' = [run EXCEPT ![r] = new] /\ run[r].pc = "unused" /\ UNCHANGED <<held, file, log>>
  BY DEF ResumeTask, diskVars
<1>2. Fields \subseteq DOMAIN new /\ new.pc = "marking"
  BY IdleFields DEF Fields
<1> HIDE DEF new
<1> QED BY <1>1, <1>2 DEF Shaped, Others, Quiet, Gated

\* The actions that belong to the gate.
GateStep(r) ==
  \/ BeginWrite(run[r].target, r) /\ WriteFile(r)
  \/ Written(r) \/ Record(r)

LEMMA ExitIsQuiet ==
  ASSUME Shaped, NEW r \in Runs, ExitStep(r)
  PROVE  Quiet(r)
<1>0. run[r].pc = "leaving" /\ UNCHANGED <<file, log>>
  BY DEF ExitStep, diskVars
<1>1. DOMAIN held' = Files /\ \A f \in Files : held[f] # r => held'[f] = held[f]
  BY DEF ExitStep, ReleaseRun, Shaped
<1>2. CASE Tail(run[r].todo) = <<>>
  <2> DEFINE new == [Idle EXCEPT !.pc = "done", !.sess = run[r].sess,
                                 !.from = run[r].from, !.start = run[r].start]
  <2>1. run' = [run EXCEPT ![r] = new]
    BY <1>2 DEF ExitStep
  <2>2. Fields \subseteq DOMAIN new /\ new.pc = "done"
    BY IdleFields DEF Fields
  <2> HIDE DEF new
  <2> QED BY <1>0, <1>1, <2>1, <2>2 DEF Shaped, Others, Quiet, Gated
<1>3. CASE Tail(run[r].todo) # <<>>
  <2>1. run' = [run EXCEPT ![r].todo = Tail(run[r].todo)]
    BY <1>3 DEF ExitStep
  <2> QED BY <1>0, <1>1, <2>1 DEF Shaped, Others, Quiet, Gated, Fields
<1> QED BY <1>2, <1>3

\* Every other step of a run is quiet.
LEMMA RunStepIsQuiet ==
  ASSUME "torn" \notin Faults, Shaped, NEW r \in Runs, RunStep(r), ~GateStep(r)
  PROVE  Quiet(r)
<1>1. ASSUME SpawnResumed(r) PROVE Quiet(r)
  BY <1>1 DEF SpawnResumed, Shaped, Fields, Others, Quiet, Gated, diskVars
<1>2. ASSUME Arm(r) PROVE Quiet(r)
  BY <1>2 DEF Arm, Shaped, Fields, Others, Quiet, Gated, diskVars
<1>3. ASSUME Load(r) PROVE Quiet(r)
  BY <1>3, GotoIsQuiet, LeaveIsQuiet DEF Load, Gated, diskVars
<1>4. ASSUME ProposalDecided(r) PROVE Quiet(r)
  BY <1>4, GotoIsQuiet, LeaveIsQuiet DEF ProposalDecided, Gated, diskVars
<1>5. ASSUME Iterate(r) PROVE Quiet(r)
  BY <1>5, GotoIsQuiet, LeaveIsQuiet DEF Iterate, Gated, diskVars
<1>6. ASSUME LlmEnds(r) PROVE Quiet(r)
  BY <1>6, LeaveIsQuiet DEF LlmEnds, diskVars
<1>7. ASSUME LlmCalls(r) PROVE Quiet(r)
  BY <1>7 DEF LlmCalls, Shaped, Fields, Others, Quiet, Gated, diskVars
<1>8. ASSUME Panic(r) PROVE Quiet(r)
  BY <1>8, LeaveIsQuiet DEF Panic, diskVars
<1>9. ASSUME RoundOver(r) PROVE Quiet(r)
  <2>0. run[r].pc = "calls" /\ UNCHANGED <<held, file, log>>
    BY <1>9 DEF RoundOver, diskVars
  <2>1. CASE Leave(r, Leaving, "tool_error")
    BY <2>0, <2>1, LeaveIsQuiet
  <2>2. CASE ~Leave(r, Leaving, "tool_error")
    <3> DEFINE streak == IF run[r].bad = run[r].calls THEN run[r].streak + 1 ELSE 0
    <3>1. run' = [run EXCEPT ![r] = [@ EXCEPT !.pc = "top", !.iter = run[r].iter + 1,
                                              !.streak = streak, !.calls = 0, !.bad = 0,
                                              !.auto = FALSE]]
      BY <1>9, <2>2, Zenon DEF RoundOver
    <3> HIDE DEF streak
    <3> QED BY <2>0, <3>1 DEF Shaped, Fields, Others, Quiet, Gated
  <2> QED BY <2>1, <2>2
<1>10. ASSUME Call(r) PROVE Quiet(r)
  <2> PICK t \in Tools, f \in Files \cup {NoFile} :
        \/ run' = [run EXCEPT ![r] = [@ EXCEPT !.pc = "invoke", !.tool = t, !.target = f]]
        \/ run' = [run EXCEPT ![r] = [@ EXCEPT !.pc = "waiting", !.tool = t, !.target = f,
                                               !.asked = TRUE,
                                               !.asks = run[r].asks + 1]]
    BY <1>10 DEF Call
  <2> QED BY ZenonT(60), <1>10 DEF Call, Shaped, Fields, Others, Quiet, Gated, diskVars
<1>11. ASSUME Decided(r) PROVE Quiet(r)
  BY <1>11, GotoIsQuiet, CallOverIsQuiet DEF Decided, Gated, diskVars, Shaped
<1>12. ASSUME Elapse(r) PROVE Quiet(r)
  BY <1>12, GotoIsQuiet DEF Elapse, Gated, diskVars
<1>13. ASSUME DropReceiver(r) PROVE Quiet(r)
  BY <1>13 DEF DropReceiver, Shaped, Fields, Others, Quiet, Gated, runVars, diskVars
<1>14. ASSUME TimeoutDeny(r) PROVE Quiet(r)
  BY <1>14, CallOverIsQuiet DEF TimeoutDeny, diskVars, Shaped
<1>15. ASSUME Invoke(r) PROVE Quiet(r)
  BY <1>15, CallOverIsQuiet DEF Invoke, diskVars, Shaped
<1>16. ASSUME WriteFile(r) PROVE Quiet(r)
  <2> CallOver(r, 1) /\ held' = held /\ run[r].pc = "invoke" /\ UNCHANGED <<file, log>>
    BY <1>16 DEF WriteFile, GateStep, diskVars
  <2> QED BY CallOverIsQuiet DEF Shaped
<1>17. ASSUME NoDirectory(r) PROVE Quiet(r)
  BY <1>17, CallOverIsQuiet DEF NoDirectory, diskVars, Shaped
<1>18. ASSUME WriteFails(r) PROVE Quiet(r)
  BY <1>18, CallOverIsQuiet DEF WriteFails, ReleaseRun, diskVars, Shaped
<1>19. ASSUME LetGo(r) PROVE Quiet(r)
  BY <1>19, CallOverIsQuiet DEF LetGo, EndWrite, diskVars, Shaped
<1>20. ASSUME ExitStep(r) PROVE Quiet(r)
  BY <1>20, ExitIsQuiet
<1>21. ~WriteTorn(r)
  BY DEF WriteTorn
<1> QED
  BY <1>1, <1>2, <1>3, <1>4, <1>5, <1>6, <1>7, <1>8, <1>9, <1>10, <1>11, <1>12, <1>13,
     <1>14, <1>15, <1>16, <1>17, <1>18, <1>19, <1>20, <1>21 DEF RunStep, GateStep

\* What the user does is quiet, or leaves the runs, the gate, the disk and the
\* change log alone.
Core == <<run, held, file, log>>

LEMMA UserIsQuiet ==
  ASSUME Shaped, User \/ BulkDeliver \/ UsedUp
  PROVE  UNCHANGED Core \/ \E r \in Runs : Quiet(r)
<1>1. ASSUME NEW r \in Runs, NEW s \in Sessions, Send(r, s) PROVE Quiet(r)
  BY <1>1, SendIsQuiet
<1>2. ASSUME NEW r \in Runs, NEW o \in Runs, ResumeTask(r, o) PROVE Quiet(r)
  BY <1>2, ResumeIsQuiet
<1>3. ASSUME NEW s \in Sessions, Cancel(s) \/ Pause(s) PROVE UNCHANGED Core
  BY <1>3 DEF Cancel, Pause, Core, runVars, diskVars
<1>4. ASSUME NEW s \in Sessions, NEW t \in Tools, ExemptTool(s, t) PROVE UNCHANGED Core
  BY <1>4 DEF ExemptTool, Core, runVars, diskVars
<1>5. ASSUME SetAutoApprove PROVE UNCHANGED Core
  BY <1>5 DEF SetAutoApprove, Core, runVars, diskVars
<1>6. ASSUME NEW q \in pending, NEW d \in Decisions, Decide(q, d) PROVE UNCHANGED Core
  BY <1>6 DEF Decide, Core, runVars, diskVars
<1>7. ASSUME NEW qs, BulkAccept(qs) \/ BulkIgnore(qs) PROVE UNCHANGED Core
  BY <1>7 DEF BulkAccept, BulkIgnore, Core, runVars, diskVars
<1>8. ASSUME BulkDeliver \/ UsedUp PROVE UNCHANGED Core
  BY <1>8 DEF BulkDeliver, UsedUp, Core, vars, runVars, diskVars
<1> QED BY <1>1, <1>2, <1>3, <1>4, <1>5, <1>6, <1>7, <1>8 DEF User

-----------------------------------------------------------------------------
LEMMA InvInit == Init => Inv
<1> SUFFICES ASSUME Init PROVE Inv
  OBVIOUS
<1>1. Shaped
  BY IdleFields DEF Init, GateInit, Shaped
<1>2. \A r \in Runs : run[r].pc = "unused"
  BY DEF Init, Idle
<1>3. LogIsCurrent
  BY DEF Init, LogIsCurrent
<1> QED BY <1>1, <1>2, <1>3 DEF Inv, HoldsTarget, ReadIsFresh, Gated

\* A quiet step of one run takes no file from another run in the gate and makes
\* no write pending, so what is recorded stays what is on disk.
LEMMA QuietKeepsInv ==
  ASSUME Inv, NEW r \in Runs, Quiet(r)
  PROVE  Inv'
<1> USE DEF Inv, Quiet, Others
<1>1. HoldsTarget'
  BY DEF HoldsTarget, Gated
<1>2. ReadIsFresh'
  BY DEF ReadIsFresh, Gated
<1>3. LogIsCurrent'
  BY DEF LogIsCurrent, Gated
<1> QED BY <1>1, <1>2, <1>3

LEMMA StutterKeepsInv ==
  ASSUME Inv, UNCHANGED Core
  PROVE  Inv'
  BY DEF Inv, Core, Shaped, HoldsTarget, ReadIsFresh, LogIsCurrent

\* Only the holder writes, reads and records a file.
LEMMA GateStepKeepsInv ==
  ASSUME Inv, NEW r \in Runs, GateStep(r)
  PROVE  Inv'
<1> DEFINE f == run[r].target
<1>1. CASE BeginWrite(f, r) /\ WriteFile(r)
  <2>1. /\ run[r].pc = "invoke" /\ f \in Files /\ held[f] \in {NoRun, r}
        /\ held' = [held EXCEPT ![f] = r] /\ UNCHANGED <<file, log>>
    BY <1>1 DEF WriteFile, BeginWrite, Refuses, diskVars
  <2>2. run' = [run EXCEPT ![r].pc = "writing", ![r].before = file[f]]
    BY <1>1 DEF WriteFile, BeginWrite
  <2>3. /\ Shaped' /\ Others(r) /\ run'[r].pc = "writing"
        /\ run'[r].target = f /\ run'[r].before = file[f]
    BY <2>1, <2>2 DEF Inv, Shaped, Fields, Others
  <2>4. HoldsTarget'
    BY <2>1, <2>3, NoRunAssumption DEF Inv, HoldsTarget, Shaped, Others, Gated
  <2>5. ReadIsFresh'
    BY <2>1, <2>3 DEF Inv, ReadIsFresh, Others
  <2>6. LogIsCurrent'
    BY <2>1, <2>3 DEF Inv, LogIsCurrent, Others
  <2> QED BY <2>3, <2>4, <2>5, <2>6 DEF Inv
<1>2. CASE Written(r)
  <2>1. /\ run[r].pc = "writing" /\ f \in Files /\ held[f] = r
        /\ file' = [file EXCEPT ![f] = r] /\ UNCHANGED <<held, log>>
        /\ run' = [run EXCEPT ![r].pc = "written"]
    BY <1>2 DEF Written, Goto, Inv, HoldsTarget, Gated
  <2>2. /\ Shaped' /\ Others(r) /\ run'[r].pc = "written"
        /\ run'[r].target = f /\ run'[r].before = run[r].before
    BY <2>1 DEF Inv, Shaped, Fields, Others
  <2>3. \A x \in Runs \ {r} : run[x].pc \in Gated => run[x].target # f
    BY <2>1 DEF Inv, HoldsTarget
  <2>4. HoldsTarget'
    BY <2>1, <2>2 DEF Inv, HoldsTarget, Others, Gated
  <2>5. run[r].before = log[f].after
    BY <2>1, <2>3 DEF Inv, LogIsCurrent, ReadIsFresh, Gated
  <2>6. ReadIsFresh'
    BY <2>1, <2>2, <2>3, <2>5 DEF Inv, ReadIsFresh, HoldsTarget, Shaped, Others, Gated
  <2>7. LogIsCurrent'
    BY <2>1, <2>2 DEF Inv, LogIsCurrent, Shaped, Others
  <2> QED BY <2>2, <2>4, <2>6, <2>7 DEF Inv
<1>3. CASE Record(r)
  <2>1. /\ run[r].pc = "written" /\ f \in Files /\ held[f] = r /\ file[f] = r
        /\ log' = [log EXCEPT ![f] = [before |-> run[r].before, after |-> r]]
        /\ UNCHANGED <<held, file>>
        /\ run' = [run EXCEPT ![r].pc = "recorded"]
    BY <1>3 DEF Record, Goto, Inv, HoldsTarget, ReadIsFresh, Gated
  <2>2. /\ Shaped' /\ Others(r) /\ run'[r].pc = "recorded" /\ run'[r].target = f
    BY <2>1 DEF Inv, Shaped, Fields, Others
  <2>3. \A x \in Runs \ {r} : run[x].pc \in Gated => run[x].target # f
    BY <2>1 DEF Inv, HoldsTarget
  <2>4. HoldsTarget'
    BY <2>1, <2>2 DEF Inv, HoldsTarget, Others, Gated
  <2>5. ReadIsFresh'
    BY <2>1, <2>2, <2>3 DEF Inv, ReadIsFresh, HoldsTarget, Shaped, Others, Gated
  <2>6. LogIsCurrent'
    BY <2>1, <2>2 DEF Inv, LogIsCurrent, Shaped, Others
  <2> QED BY <2>2, <2>4, <2>5, <2>6 DEF Inv
<1> QED BY <1>1, <1>2, <1>3 DEF GateStep

\* The application does not go down.
NeverDown == crashes = 0

LEMMA NoCrash ==
  ASSUME MaxCrashes = 0, NeverDown
  PROVE  ~Crash
<1>1. Crash => crashes < MaxCrashes
  BY Zenon DEF Crash
<1>2. ~(crashes < MaxCrashes)
  BY DEF NeverDown
<1> QED BY <1>1, <1>2

LEMMA NeverDownHolds ==
  ASSUME MaxCrashes = 0
  PROVE  Spec => []NeverDown
<1>1. Init => NeverDown
  BY DEF Init, NeverDown
<1>2. ASSUME NeverDown, [Next]_vars PROVE NeverDown'
  <2>1. CASE UNCHANGED vars
    BY SMTT(60), <1>2, <2>1 DEF vars, NeverDown
  <2>2. CASE User
    BY ZenonT(60), <1>2, <2>2 DEF User, Send, ResumeTask, Cancel, Pause, ExemptTool, SetAutoApprove,
                      Decide, BulkAccept, BulkIgnore, NeverDown
  <2>3. CASE BulkDeliver \/ UsedUp
    BY <1>2, <2>3 DEF BulkDeliver, UsedUp, vars, NeverDown
  <2>4. CASE Crash
    BY <1>2, <2>4, NoCrash
  <2>5. ASSUME NEW r \in Runs, RunStep(r) PROVE NeverDown'
    BY <1>2, <2>5 DEF RunStep, SpawnResumed, Arm, Load, ProposalDecided, Iterate, LlmEnds,
         LlmCalls, Panic, RoundOver, Call, Decided, Elapse, DropReceiver, TimeoutDeny, Invoke,
         WriteFile, NoDirectory, WriteFails, WriteTorn, Written, Record, LetGo, ExitStep, diskVars,
         userVars, runVars, NeverDown
  <2> QED BY <1>2, <2>1, <2>2, <2>3, <2>4, <2>5 DEF Next
<1> QED BY <1>1, <1>2, PTL DEF Spec

LEMMA StepKeepsInv ==
  ASSUME MaxCrashes = 0, "torn" \notin Faults, NeverDown, Inv, [Next]_vars
  PROVE  Inv'
<1>1. CASE UNCHANGED vars
  BY <1>1, StutterKeepsInv DEF vars, Core
<1>2. CASE User \/ BulkDeliver \/ UsedUp
  BY <1>2, UserIsQuiet, QuietKeepsInv, StutterKeepsInv DEF Inv
<1>3. CASE Crash
  BY <1>3, NoCrash
<1>4. ASSUME NEW r \in Runs, RunStep(r) PROVE Inv'
  <2>1. CASE GateStep(r)
    BY <2>1, GateStepKeepsInv
  <2>2. CASE ~GateStep(r)
    BY <1>4, <2>2, RunStepIsQuiet, QuietKeepsInv DEF Inv
  <2> QED BY <2>1, <2>2
<1> QED BY <1>1, <1>2, <1>3, <1>4 DEF Next

LEMMA InvHolds ==
  ASSUME MaxCrashes = 0, "torn" \notin Faults
  PROVE  Spec => []Inv
<1>1. Spec => []NeverDown
  BY NeverDownHolds
<1>2. NeverDown /\ Inv /\ [Next]_vars => Inv'
  BY StepKeepsInv
<1> QED BY <1>1, <1>2, InvInit, PTL DEF Spec

\* The newest changeset of a file shows what is on disk whenever no run is
\* between writing the file and recording it, however many runs write it
\* through however many failed writes, timeouts and cancelled runs: the order
\* of the records in changeset_repo is that of the writes of write_file.
THEOREM LogFollowsDisk ==
  ASSUME MaxCrashes = 0, "torn" \notin Faults
  PROVE  Spec => []LogIsCurrent
<1>1. Inv => LogIsCurrent
  BY DEF Inv
<1> QED BY <1>1, InvHolds, PTL

\* The old content in a changeset is the new content of the changeset before
\* it: write_file reads what it is about to overwrite while it holds the file,
\* and no other run's record comes in between.
THEOREM ChangesetsAreChained ==
  ASSUME MaxCrashes = 0, "torn" \notin Faults
  PROVE  Spec => ChangesetsChain
<1> DEFINE Chained == \A f \in Files : log'[f] # log[f] => log'[f].before = log[f].after
<1>1. ASSUME NeverDown, Inv, [Next]_vars PROVE Chained
  <2>1. CASE UNCHANGED vars
    BY <2>1 DEF vars
  <2>2. CASE User \/ BulkDeliver \/ UsedUp
    BY <1>1, <2>2, UserIsQuiet DEF Inv, Quiet, Core
  <2>3. CASE Crash
    BY <1>1, <2>3, NoCrash
  <2>4. ASSUME NEW r \in Runs, RunStep(r), ~GateStep(r) PROVE Chained
    BY <1>1, <2>4, RunStepIsQuiet DEF Inv, Quiet
  <2>5. ASSUME NEW r \in Runs, WriteFile(r) \/ Written(r) PROVE Chained
    BY <2>5 DEF WriteFile, Written, diskVars
  <2>6. ASSUME NEW r \in Runs, Record(r) PROVE Chained
    BY <1>1, <2>6 DEF Record, Inv, ReadIsFresh, Shaped
  <2> QED BY <1>1, <2>1, <2>2, <2>3, <2>4, <2>5, <2>6 DEF Next, GateStep
<1>2. NeverDown /\ Inv /\ [Next]_vars => [Chained]_vars
  BY <1>1
<1> QED BY <1>2, InvHolds, NeverDownHolds, PTL DEF Spec, ChangesetsChain

\* Both together, for any number of runs, sessions and files.
THEOREM FileLogIsSound ==
  ASSUME MaxCrashes = 0, "torn" \notin Faults
  PROVE  Spec => FileLogSound
  BY LogFollowsDisk, ChangesetsAreChained, PTL DEF FileLogSound
-----------------------------------------------------------------------------
Keys == Tokens \cup {"begin", "finish", "release"}
Reasons == {"none", "completed", "truncated", "timed_out", "llm_error", "cancelled", "paused",
            "tool_error", "exhausted"}
Statuses == {"none", "running", "ok", "timeout", "cancelled", "paused", "failed",
             "interrupted", "superseded"}
PCs == Loop \cup {"unused", "marking", "arming", "loading", "proposed", "leaving", "done", "lost"}

\* what is left of the three senders, and of the ways out of run()
Armings == {<<"begin", "cancel", "pause", "steer">>, <<"cancel", "pause", "steer">>,
            <<"pause", "steer">>, <<"steer">>}
Exits == {<<"cancel", "pause", "steer", "finish", "release">>,
          <<"pause", "steer", "finish", "release">>, <<"steer", "finish", "release">>,
          <<"finish", "release">>, <<"release">>,
          <<"finish", "cancel", "pause", "steer">>, <<"cancel", "pause", "steer">>,
          <<"pause", "steer">>, <<"steer">>,
          <<"finish", "release", "cancel", "pause", "steer">>,
          <<"release", "cancel", "pause", "steer">>}

InCall == {"waiting", "elapsing", "invoke"} \cup Gated
\* what a run's program counter says of its other fields
ShapeOf(x) ==
  /\ x.pc # "unused" => x.sess \in Sessions
  /\ x.pc = "marking" => x.from \in Runs
  /\ x.pc = "arming" => x.todo \in Armings
  /\ x.pc = "leaving" => x.todo \in Exits
  /\ x.pc \in InCall => x.left > 0 /\ x.tool \in Tools
  /\ x.pc \in Gated => x.target \in Files
  /\ x.pc \in InCall \cup {"calls"} => x.bad + x.left <= x.calls

Typed ==
  /\ TypeOK
  /\ \A r \in Runs : ShapeOf(run[r]) /\ (row[r] # "none" => run[r].pc # "unused")

\* The head and the tail of the short lists the model makes.
LEMMA Cut ==
  /\ \A a : Head(<<a>>) = a /\ Tail(<<a>>) = <<>>
  /\ \A a, b : Head(<<a, b>>) = a /\ Tail(<<a, b>>) = <<b>>
  /\ \A a, b, c : Head(<<a, b, c>>) = a /\ Tail(<<a, b, c>>) = <<b, c>>
  /\ \A a, b, c, d : Head(<<a, b, c, d>>) = a /\ Tail(<<a, b, c, d>>) = <<b, c, d>>
  /\ \A a, b, c, d, e :
       Head(<<a, b, c, d, e>>) = a /\ Tail(<<a, b, c, d, e>>) = <<b, c, d, e>>
  OBVIOUS

\* What a run starts to do, and what each way out has it do, are such lists.
LEMMA TodoSeqs ==
  /\ Armings \cup Exits \subseteq Seq(Keys)
  /\ Arming \in Armings /\ {Leaving, LoadFailed, Panicked} \subseteq Exits
  /\ <<>> \in Seq(Keys)
  BY DEF Armings, Exits, Keys, Tokens, Arming, Leaving, LoadFailed, Panicked

\* One step of arming leaves less of it, and takes only senders and the row.
LEMMA ArmingsShrink ==
  ASSUME NEW q \in Armings
  PROVE  Head(q) \in Tokens \cup {"begin"} /\ (Tail(q) = <<>> \/ Tail(q) \in Armings)
<1>1. CASE q = <<"begin", "cancel", "pause", "steer">>
  BY <1>1, Cut DEF Armings, Tokens
<1>2. CASE q = <<"cancel", "pause", "steer">>
  BY <1>2, Cut DEF Armings, Tokens
<1>3. CASE q = <<"pause", "steer">>
  BY <1>3, Cut DEF Armings, Tokens
<1>4. CASE q = <<"steer">>
  BY <1>4, Cut DEF Armings, Tokens
<1> QED BY <1>1, <1>2, <1>3, <1>4 DEF Armings

\* One step of an exit leaves less of that exit.
LEMMA ExitsShrink ==
  ASSUME NEW q \in Exits
  PROVE  Head(q) \in Keys /\ (Tail(q) = <<>> \/ Tail(q) \in Exits)
<1>1. CASE q = <<"cancel", "pause", "steer", "finish", "release">>
  BY <1>1, Cut DEF Exits, Keys, Tokens
<1>2. CASE q = <<"pause", "steer", "finish", "release">>
  BY <1>2, Cut DEF Exits, Keys, Tokens
<1>3. CASE q = <<"steer", "finish", "release">>
  BY <1>3, Cut DEF Exits, Keys, Tokens
<1>4. CASE q = <<"finish", "release">>
  BY <1>4, Cut DEF Exits, Keys, Tokens
<1>5. CASE q = <<"release">>
  BY <1>5, Cut DEF Exits, Keys, Tokens
<1>6. CASE q = <<"finish", "cancel", "pause", "steer">>
  BY <1>6, Cut DEF Exits, Keys, Tokens
<1>7. CASE q = <<"cancel", "pause", "steer">>
  BY <1>7, Cut DEF Exits, Keys, Tokens
<1>8. CASE q = <<"pause", "steer">>
  BY <1>8, Cut DEF Exits, Keys, Tokens
<1>9. CASE q = <<"steer">>
  BY <1>9, Cut DEF Exits, Keys, Tokens
<1>10. CASE q = <<"finish", "release", "cancel", "pause", "steer">>
  BY <1>10, Cut DEF Exits, Keys, Tokens
<1>11. CASE q = <<"release", "cancel", "pause", "steer">>
  BY <1>11, Cut DEF Exits, Keys, Tokens
<1> QED
  BY <1>1, <1>2, <1>3, <1>4, <1>5, <1>6, <1>7, <1>8, <1>9, <1>10, <1>11 DEF Exits

\* A run's record is replaced by another.
Becomes(r, x) ==
  /\ run' \in [Runs -> RunStates] /\ run'[r] = x /\ Others(r)

\* A typed record in the place of a run's changes no other run.
LEMMA Replaced ==
  ASSUME run \in [Runs -> RunStates], NEW r \in Runs, NEW x \in RunStates,
         run' = [run EXCEPT ![r] = x]
  PROVE  Becomes(r, x)
  BY DEF Becomes, Others

\* A run that was not started is typed.
LEMMA IdleTyped == Idle \in RunStates
<1>1. 0 \in Nat /\ 0 \in 0..MaxCalls /\ <<>> \in Seq(Keys)
  BY BoundsAssumption, TodoSeqs
<1> QED BY <1>1, Zenon DEF Idle, RunStates, Keys

\* The updates of the actions keep the type of a run: the start of resume_task,
LEMMA StartTyped ==
  ASSUME NEW x \in RunStates, NEW s \in Sessions, NEW o \in Runs, NEW n \in Nat
  PROVE  [x EXCEPT !.pc = "marking", !.sess = s, !.from = o, !.start = n, !.iter = n]
           \in RunStates
  BY ZenonT(120) DEF RunStates

\* that of send_message,
LEMMA SendTyped ==
  ASSUME NEW x \in RunStates, NEW s \in Sessions, NEW q \in Seq(Keys)
  PROVE  [x EXCEPT !.pc = "arming", !.sess = s, !.todo = q] \in RunStates
  BY ZenonT(120) DEF RunStates, Keys

\* the end of a run, whether it came to it or died,
LEMMA EndTyped ==
  ASSUME NEW x \in RunStates, NEW s \in Sessions, NEW o \in Runs \cup {NoRun}, NEW n \in Nat,
         NEW pc \in {"done", "lost"}
  PROVE  [x EXCEPT !.pc = pc, !.sess = s, !.from = o, !.start = n] \in RunStates
  BY ZenonT(120) DEF RunStates

\* a move to another point of the run,
LEMMA MoveTyped ==
  ASSUME NEW x \in RunStates, NEW pc \in PCs
  PROVE  [x EXCEPT !.pc = pc] \in RunStates
  BY ZenonT(120) DEF RunStates, PCs, Keys

\* one more step of starting or ending,
LEMMA TodoTyped ==
  ASSUME NEW x \in RunStates, NEW pc \in PCs, NEW q \in Seq(Keys)
  PROVE  [x EXCEPT !.todo = q, !.pc = pc] \in RunStates
  BY ZenonT(120) DEF RunStates, PCs, Keys

\* the decision to stop,
LEMMA LeavingTyped ==
  ASSUME NEW x \in RunStates, NEW q \in Seq(Keys), NEW why \in Reasons
  PROVE  [x EXCEPT !.pc = "leaving", !.todo = q, !.why = why, !.tool = NoTool,
                   !.target = NoFile, !.asked = FALSE, !.before = NoRun] \in RunStates
  BY ZenonT(120) DEF RunStates, Keys, Reasons

\* the end of a call,
LEMMA CalledTyped ==
  ASSUME NEW x \in RunStates, NEW n \in 0..MaxCalls, NEW b \in 0..MaxCalls
  PROVE  [x EXCEPT !.pc = "calls", !.left = n, !.bad = b, !.tool = NoTool, !.target = NoFile,
                   !.asked = FALSE, !.before = NoRun] \in RunStates
  BY ZenonT(120) DEF RunStates, Loop

\* the calls the model asks for,
LEMMA RoundTyped ==
  ASSUME NEW x \in RunStates, NEW n \in 0..MaxCalls, NEW z \in 0..MaxCalls, NEW b \in BOOLEAN
  PROVE  [x EXCEPT !.pc = "calls", !.calls = n, !.left = n, !.bad = z, !.auto = b]
           \in RunStates
  BY ZenonT(120) DEF RunStates, Loop

\* the end of a round,
LEMMA NextRoundTyped ==
  ASSUME NEW x \in RunStates, NEW i \in Nat, NEW k \in Nat, NEW z \in 0..MaxCalls
  PROVE  [x EXCEPT !.pc = "top", !.iter = i, !.streak = k, !.calls = z, !.bad = z, !.auto = FALSE]
           \in RunStates
  BY ZenonT(120) DEF RunStates, Loop

\* a call that needs no approval,
LEMMA AllowedTyped ==
  ASSUME NEW x \in RunStates, NEW t \in Tools, NEW f \in Files \cup {NoFile}
  PROVE  [x EXCEPT !.pc = "invoke", !.tool = t, !.target = f] \in RunStates
  BY ZenonT(120) DEF RunStates, Loop

\* a call that is put to the user,
LEMMA AskingTyped ==
  ASSUME NEW x \in RunStates, NEW t \in Tools, NEW f \in Files \cup {NoFile}, NEW n \in Nat
  PROVE  [x EXCEPT !.pc = "waiting", !.tool = t, !.target = f, !.asked = TRUE, !.asks = n]
           \in RunStates
  BY ZenonT(120) DEF RunStates, Loop

\* and the old content write_file reads.
LEMMA ReadTyped ==
  ASSUME NEW x \in RunStates, NEW b \in Runs \cup {NoRun}
  PROVE  [x EXCEPT !.pc = "writing", !.before = b] \in RunStates
  BY ZenonT(120) DEF RunStates, Loop

-----------------------------------------------------------------------------
(* What the actions do to the record of the run. *)

Inside == {"loading", "proposed"} \cup Loop
Keeps(r) == run'[r].sess = run[r].sess /\ run'[r].from = run[r].from
\* the call in hand stays the one it is
SameCall(r) ==
  /\ run'[r].asked = run[r].asked /\ run'[r].tool = run[r].tool
  /\ run'[r].asks = run[r].asks

\* A move changes the program counter alone.
LEMMA GotoDoes ==
  ASSUME run \in [Runs -> RunStates], NEW r \in Runs, NEW pc \in Loop \cup {"proposed"},
         Goto(r, pc)
  PROVE  /\ run' \in [Runs -> RunStates] /\ Others(r) /\ Keeps(r) /\ SameCall(r)
         /\ run'[r].pc = pc /\ run'[r].target = run[r].target /\ run'[r].left = run[r].left
         /\ run'[r].bad = run[r].bad /\ run'[r].calls = run[r].calls
<1> DEFINE y == [run[r] EXCEPT !.pc = pc]
<1>1. run' = [run EXCEPT ![r] = y]
  BY DEF Goto
<1>2. y \in RunStates
  BY MoveTyped DEF PCs
<1>3. /\ y.pc = pc /\ y.sess = run[r].sess /\ y.from = run[r].from /\ y.tool = run[r].tool
      /\ y.asks = run[r].asks /\ y.target = run[r].target /\ y.left = run[r].left
      /\ y.bad = run[r].bad /\ y.calls = run[r].calls
  BY DEF RunStates
<1>4. y.asked = run[r].asked
  <2>1. run[r] \in RunStates
    OBVIOUS
  <2> QED BY <2>1, Zenon DEF RunStates
<1> HIDE DEF y
<1> QED BY <1>1, <1>2, <1>3, <1>4, Replaced DEF Becomes, Keeps, SameCall

\* Leaving sets what is left to do and forgets the call in hand.
LEMMA LeaveDoes ==
  ASSUME run \in [Runs -> RunStates], NEW r \in Runs, NEW q \in Exits, NEW why \in Reasons,
         Leave(r, q, why)
  PROVE  /\ run' \in [Runs -> RunStates] /\ Others(r) /\ Keeps(r)
         /\ run'[r].pc = "leaving" /\ run'[r].todo = q /\ run'[r].why = why
         /\ run'[r].asked = FALSE
<1> DEFINE y == [run[r] EXCEPT !.pc = "leaving", !.todo = q, !.why = why, !.tool = NoTool,
                               !.target = NoFile, !.asked = FALSE, !.before = NoRun]
<1>1. run' = [run EXCEPT ![r] = y]
  BY Zenon DEF Leave
<1>2. y \in RunStates
  BY TodoSeqs, LeavingTyped
<1>3. y.pc = "leaving" /\ y.todo = q /\ y.why = why /\ y.sess = run[r].sess /\ y.from = run[r].from
  BY DEF RunStates
<1>4. y.asked = FALSE
  <2>1. run[r] \in RunStates
    OBVIOUS
  <2> QED BY <2>1, Zenon DEF RunStates
<1> HIDE DEF y
<1> QED BY <1>1, <1>2, <1>3, <1>4, Replaced DEF Becomes, Keeps

\* The end of a call counts it once, so the failed calls stay within the calls.
LEMMA CallOverDoes ==
  ASSUME run \in [Runs -> RunStates], NEW r \in Runs, NEW bad \in {0, 1},
         CallOver(r, bad), run[r].left > 0, run[r].bad + run[r].left <= run[r].calls
  PROVE  /\ run' \in [Runs -> RunStates] /\ Others(r) /\ Keeps(r)
         /\ run'[r].pc = "calls" /\ run'[r].bad + run'[r].left <= run'[r].calls
         /\ run'[r].asked = FALSE
<1> DEFINE n == run[r].left - 1
           b == run[r].bad + bad
           y == [run[r] EXCEPT !.pc = "calls", !.left = n, !.bad = b, !.tool = NoTool,
                               !.target = NoFile, !.asked = FALSE, !.before = NoRun]
<1>1. run' = [run EXCEPT ![r] = y]
  BY Zenon DEF CallOver
<1>2. /\ run[r].left \in 0..MaxCalls /\ run[r].bad \in 0..MaxCalls
      /\ run[r].calls \in 0..MaxCalls
  BY DEF RunStates
<1>3. n \in 0..MaxCalls /\ b \in 0..MaxCalls /\ b + n <= run[r].calls
  BY <1>2, BoundsAssumption
<1> HIDE DEF n, b
<1>4. y \in RunStates
  BY <1>3, CalledTyped
<1>5. /\ y.pc = "calls" /\ y.left = n /\ y.bad = b /\ y.calls = run[r].calls
      /\ y.sess = run[r].sess /\ y.from = run[r].from
  BY DEF RunStates
<1>6. y.asked = FALSE
  <2>1. run[r] \in RunStates
    OBVIOUS
  <2> QED BY <2>1, Zenon DEF RunStates
<1> HIDE DEF y
<1> QED BY <1>1, <1>3, <1>4, <1>5, <1>6, Replaced DEF Becomes, Keeps

\* send_message starts a run that is to arm its senders and continues none.
LEMMA SendDoes ==
  ASSUME run \in [Runs -> RunStates], NEW r \in Runs, NEW s \in Sessions, Send(r, s)
  PROVE  /\ run' \in [Runs -> RunStates] /\ Others(r)
         /\ run'[r].pc = "arming" /\ run'[r].sess = s /\ run'[r].from = NoRun
         /\ run'[r].todo = Arming /\ run'[r].asked = FALSE
<1> DEFINE y == [Idle EXCEPT !.pc = "arming", !.sess = s, !.todo = Arming]
<1>1. run' = [run EXCEPT ![r] = y]
  BY DEF Send
<1>2. y \in RunStates
  BY IdleTyped, TodoSeqs, SendTyped
<1>3. y.pc = "arming" /\ y.sess = s /\ y.from = NoRun /\ y.todo = Arming
  BY DEF Idle
<1>4. y.asked = FALSE
  BY DEF Idle
<1> HIDE DEF y
<1> QED BY <1>1, <1>2, <1>3, <1>4, Replaced DEF Becomes

\* resume_task starts a run in the session of the one it continues.
LEMMA ResumeDoes ==
  ASSUME run \in [Runs -> RunStates], ckpt \in [Runs -> Nat], NEW r \in Runs, NEW o \in Runs,
         run[o].sess \in Sessions, ResumeTask(r, o)
  PROVE  /\ run' \in [Runs -> RunStates] /\ Others(r)
         /\ run'[r].pc = "marking" /\ run'[r].sess = run[o].sess /\ run'[r].from = o
         /\ run'[r].asked = FALSE
<1> DEFINE s == run[o].sess
           n == ckpt[o]
           y == [Idle EXCEPT !.pc = "marking", !.sess = s, !.from = o, !.start = n, !.iter = n]
<1>1. run' = [run EXCEPT ![r] = y]
  BY DEF ResumeTask
<1>2. n \in Nat /\ s \in Sessions
  OBVIOUS
<1> HIDE DEF s, n
<1>3. y \in RunStates
  BY <1>2, IdleTyped, StartTyped
<1>4. y.pc = "marking" /\ y.sess = s /\ y.from = o
  BY DEF Idle
<1>5. y.asked = FALSE
  BY DEF Idle
<1> HIDE DEF y
<1> QED BY <1>1, <1>3, <1>4, <1>5, Replaced DEF Becomes, s

\* The resumed run goes on to arm its senders.
LEMMA SpawnDoes ==
  ASSUME run \in [Runs -> RunStates], NEW r \in Runs, SpawnResumed(r)
  PROVE  /\ run' \in [Runs -> RunStates] /\ Others(r) /\ Keeps(r) /\ SameCall(r)
         /\ run'[r].pc = "arming" /\ run'[r].todo = Arming
<1> DEFINE y == [run[r] EXCEPT !.todo = Arming, !.pc = "arming"]
<1>1. run' = [run EXCEPT ![r] = y]
  BY DEF SpawnResumed, RunStates
<1>2. y \in RunStates
  BY TodoSeqs, TodoTyped DEF PCs
<1>3. /\ y.pc = "arming" /\ y.todo = Arming /\ y.sess = run[r].sess /\ y.from = run[r].from
      /\ y.tool = run[r].tool /\ y.asks = run[r].asks
  BY DEF RunStates
<1>4. y.asked = run[r].asked
  <2>1. run[r] \in RunStates
    OBVIOUS
  <2> QED BY <2>1, Zenon DEF RunStates
<1> HIDE DEF y
<1> QED BY <1>1, <1>2, <1>3, <1>4, Replaced DEF Becomes, Keeps, SameCall

\* A step of arming takes the first of what is left, and the loop comes after the last.
LEMMA ArmDoes ==
  ASSUME run \in [Runs -> RunStates], NEW r \in Runs, Arm(r), run[r].todo \in Armings
  PROVE  /\ run' \in [Runs -> RunStates] /\ Others(r) /\ Keeps(r) /\ SameCall(r)
         /\ run'[r].todo = Tail(run[r].todo)
         /\ run'[r].pc = IF Tail(run[r].todo) = <<>> THEN "loading" ELSE "arming"
<1> DEFINE rest == Tail(run[r].todo)
           pc == IF rest = <<>> THEN "loading" ELSE "arming"
           y == [run[r] EXCEPT !.todo = rest, !.pc = pc]
<1>1. run' = [run EXCEPT ![r] = y]
  BY DEF Arm, RunStates
<1>2. rest \in Seq(Keys) /\ pc \in PCs
  BY ArmingsShrink, TodoSeqs DEF PCs
<1> HIDE DEF rest, pc
<1>3. y \in RunStates
  BY <1>2, TodoTyped
<1>4. /\ y.pc = pc /\ y.todo = rest /\ y.sess = run[r].sess /\ y.from = run[r].from
      /\ y.tool = run[r].tool /\ y.asks = run[r].asks
  BY DEF RunStates
<1>5. y.asked = run[r].asked
  <2>1. run[r] \in RunStates
    OBVIOUS
  <2> QED BY <2>1, Zenon DEF RunStates
<1> HIDE DEF y
<1> QED BY <1>1, <1>3, <1>4, <1>5, Replaced DEF Becomes, Keeps, SameCall, rest, pc

\* The answer of the model opens a round none of whose calls was made yet.
LEMMA LlmCallsDoes ==
  ASSUME run \in [Runs -> RunStates], auto \in BOOLEAN, NEW r \in Runs, LlmCalls(r)
  PROVE  /\ run' \in [Runs -> RunStates] /\ Others(r) /\ Keeps(r) /\ SameCall(r)
         /\ run'[r].pc = "calls" /\ run'[r].bad + run'[r].left <= run'[r].calls
<1>0. PICK n \in 1..MaxCalls :
        run' = [run EXCEPT ![r] = [@ EXCEPT !.pc = "calls", !.calls = n, !.left = n,
                                            !.bad = 0, !.auto = auto]]
  BY Zenon DEF LlmCalls
<1> DEFINE y == [run[r] EXCEPT !.pc = "calls", !.calls = n, !.left = n, !.bad = 0, !.auto = auto]
<1>1. run' = [run EXCEPT ![r] = y]
  BY <1>0
<1>2. n \in 0..MaxCalls /\ 0 \in 0..MaxCalls /\ 0 + n <= n
  BY BoundsAssumption
<1>3. y \in RunStates
  BY <1>2, RoundTyped
<1>4. /\ y.pc = "calls" /\ y.calls = n /\ y.left = n /\ y.bad = 0
      /\ y.sess = run[r].sess /\ y.from = run[r].from
      /\ y.tool = run[r].tool /\ y.asks = run[r].asks
  BY DEF RunStates
<1>5. y.asked = run[r].asked
  <2>1. run[r] \in RunStates
    OBVIOUS
  <2> QED BY <2>1, Zenon DEF RunStates
<1> HIDE DEF y
<1> QED BY <1>1, <1>2, <1>3, <1>4, <1>5, Replaced DEF Becomes, Keeps, SameCall

\* A round ends with the next one or with the run giving up.
LEMMA RoundOverDoes ==
  ASSUME run \in [Runs -> RunStates], NEW r \in Runs, RoundOver(r)
  PROVE  \/ Leave(r, Leaving, "tool_error")
         \/ /\ run' \in [Runs -> RunStates] /\ Others(r) /\ Keeps(r) /\ SameCall(r)
            /\ run'[r].pc = "top"
<1> DEFINE streak == IF run[r].bad = run[r].calls THEN run[r].streak + 1 ELSE 0
           i == run[r].iter + 1
           y == [run[r] EXCEPT !.pc = "top", !.iter = i, !.streak = streak,
                               !.calls = 0, !.bad = 0, !.auto = FALSE]
<1>1. ASSUME ~Leave(r, Leaving, "tool_error") PROVE run' = [run EXCEPT ![r] = y]
  BY <1>1, Zenon DEF RoundOver
<1>2. streak \in Nat /\ i \in Nat /\ 0 \in 0..MaxCalls
  BY BoundsAssumption DEF RunStates
<1> HIDE DEF streak, i
<1>3. y \in RunStates
  BY <1>2, NextRoundTyped
<1>4. /\ y.pc = "top" /\ y.sess = run[r].sess /\ y.from = run[r].from
      /\ y.tool = run[r].tool /\ y.asks = run[r].asks
  BY DEF RunStates
<1>5. y.asked = run[r].asked
  <2>1. run[r] \in RunStates
    OBVIOUS
  <2> QED BY <2>1, Zenon DEF RunStates
<1> HIDE DEF y
<1> QED BY <1>1, <1>3, <1>4, <1>5, Replaced DEF Becomes, Keeps, SameCall

\* A call is executed at once or put to the user, with a request of its own.
LEMMA CallDoes ==
  ASSUME run \in [Runs -> RunStates], NEW r \in Runs, Call(r)
  PROVE  /\ run' \in [Runs -> RunStates] /\ Others(r) /\ Keeps(r)
         /\ run'[r].tool \in Tools /\ run'[r].left = run[r].left
         /\ run'[r].bad = run[r].bad /\ run'[r].calls = run[r].calls
         /\ \/ /\ run'[r].pc = "invoke" /\ run'[r].asked = run[r].asked
               /\ UNCHANGED brokerVars
            \/ /\ run'[r].pc = "waiting" /\ run'[r].asked = TRUE
               /\ run'[r].asks = run[r].asks + 1
               /\ Register([run |-> r, n |-> run'[r].asks, session |-> run'[r].sess,
                            tool |-> run'[r].tool])
<1>0. PICK t \in Tools, f \in Files \cup {NoFile} :
        \/ /\ run' = [run EXCEPT ![r] = [@ EXCEPT !.pc = "invoke", !.tool = t, !.target = f]]
           /\ UNCHANGED brokerVars
        \/ /\ run' = [run EXCEPT ![r] = [@ EXCEPT !.pc = "waiting", !.tool = t, !.target = f,
                                                  !.asked = TRUE, !.asks = run[r].asks + 1]]
           /\ Register([run |-> r, n |-> run[r].asks + 1, session |-> run[r].sess, tool |-> t])
  BY Zenon DEF Call
<1> DEFINE n == run[r].asks + 1
           y == [run[r] EXCEPT !.pc = "invoke", !.tool = t, !.target = f]
           z == [run[r] EXCEPT !.pc = "waiting", !.tool = t, !.target = f, !.asked = TRUE,
                               !.asks = n]
<1>1. n \in Nat
  BY DEF RunStates
<1>2. CASE run' = [run EXCEPT ![r] = y] /\ UNCHANGED brokerVars
  <2>1. y \in RunStates
    BY AllowedTyped
  <2>2. /\ y.pc = "invoke" /\ y.tool = t /\ y.sess = run[r].sess /\ y.from = run[r].from
        /\ y.left = run[r].left /\ y.bad = run[r].bad /\ y.calls = run[r].calls
    BY DEF RunStates
  <2>3. y.asked = run[r].asked
    <3>1. run[r] \in RunStates
      OBVIOUS
    <3> QED BY <3>1, Zenon DEF RunStates
  <2> HIDE DEF y
  <2> QED BY <1>2, <2>1, <2>2, <2>3, Replaced DEF Becomes, Keeps
<1>3. CASE /\ run' = [run EXCEPT ![r] = z]
           /\ Register([run |-> r, n |-> n, session |-> run[r].sess, tool |-> t])
  <2> HIDE DEF n
  <2>1. z \in RunStates
    BY <1>1, AskingTyped
  <2>2. /\ z.pc = "waiting" /\ z.tool = t /\ z.sess = run[r].sess /\ z.from = run[r].from
        /\ z.left = run[r].left /\ z.bad = run[r].bad /\ z.calls = run[r].calls /\ z.asks = n
    BY DEF RunStates
  <2>3. z.asked = TRUE
    <3>1. run[r] \in RunStates
      OBVIOUS
    <3> QED BY <3>1, Zenon DEF RunStates
  <2> HIDE DEF z
  <2> QED BY <1>3, <2>1, <2>2, <2>3, Replaced DEF Becomes, Keeps, n
<1> QED BY <1>0, <1>2, <1>3

\* write_file at the gate changes where the run is and what it read.
LEMMA ReadDoes ==
  ASSUME run \in [Runs -> RunStates], file \in [Files -> Runs \cup {NoRun}],
         NEW r \in Runs, WriteFile(r), ~CallOver(r, 1)
  PROVE  /\ run' \in [Runs -> RunStates] /\ Others(r) /\ Keeps(r) /\ SameCall(r)
         /\ run'[r].pc = "writing" /\ run'[r].target = run[r].target
         /\ run'[r].left = run[r].left /\ run'[r].bad = run[r].bad
         /\ run'[r].calls = run[r].calls
<1> DEFINE b == file[run[r].target]
           y == [run[r] EXCEPT !.pc = "writing", !.before = b]
<1>1. run' = [run EXCEPT ![r] = y]
  BY DEF WriteFile, RunStates
<1>2. b \in Runs \cup {NoRun}
  BY DEF WriteFile
<1> HIDE DEF b
<1>3. y \in RunStates
  BY <1>2, ReadTyped
<1>4. /\ y.pc = "writing" /\ y.sess = run[r].sess /\ y.from = run[r].from
      /\ y.tool = run[r].tool /\ y.asks = run[r].asks /\ y.target = run[r].target
      /\ y.left = run[r].left /\ y.bad = run[r].bad /\ y.calls = run[r].calls
  BY DEF RunStates
<1>5. y.asked = run[r].asked
  <2>1. run[r] \in RunStates
    OBVIOUS
  <2> QED BY <2>1, Zenon DEF RunStates
<1> HIDE DEF y
<1> QED BY <1>1, <1>3, <1>4, <1>5, Replaced DEF Becomes, Keeps, SameCall

\* A step of an exit takes the first of what is left; the run is done after the last.
LEMMA ExitDoes ==
  ASSUME run \in [Runs -> RunStates], NEW r \in Runs, ExitStep(r), run[r].todo \in Exits,
         run[r].sess \in Sessions
  PROVE  /\ run' \in [Runs -> RunStates] /\ Others(r) /\ Keeps(r)
         /\ \/ Tail(run[r].todo) = <<>> /\ run'[r].pc = "done" /\ run'[r].asked = FALSE
            \/ /\ Tail(run[r].todo) # <<>> /\ run'[r].pc = "leaving" /\ SameCall(r)
               /\ run'[r].todo = Tail(run[r].todo)
<1> DEFINE q == run[r].todo
           s == run[r].sess
           o == run[r].from
           n == run[r].start
           y == [Idle EXCEPT !.pc = "done", !.sess = s, !.from = o, !.start = n]
           rest == Tail(q)
           z == [run[r] EXCEPT !.todo = rest]
<1>1. CASE rest = <<>>
  <2>1. run' = [run EXCEPT ![r] = y]
    BY <1>1 DEF ExitStep
  <2>2. o \in Runs \cup {NoRun} /\ n \in Nat
    BY DEF RunStates
  <2> HIDE DEF s, o, n
  <2>3. y \in RunStates
    BY <2>2, IdleTyped, EndTyped DEF s
  <2>4. y.pc = "done" /\ y.sess = s /\ y.from = o
    BY DEF Idle
  <2>5. y.asked = FALSE
    BY DEF Idle
  <2> HIDE DEF y
  <2> QED BY <1>1, <2>1, <2>3, <2>4, <2>5, Replaced DEF Becomes, Keeps, s, o
<1>2. CASE rest # <<>>
  <2>1. rest \in Seq(Keys) /\ run[r].pc = "leaving"
    BY <1>2, ExitsShrink, TodoSeqs DEF ExitStep
  <2>2. run' = [run EXCEPT ![r] = z]
    BY <1>2 DEF ExitStep
  <2> HIDE DEF rest
  <2>3. z = [run[r] EXCEPT !.todo = rest, !.pc = "leaving"]
    BY <2>1 DEF RunStates
  <2>4. z \in RunStates
    BY <2>1, <2>3, TodoTyped DEF PCs
  <2>5. /\ z.pc = "leaving" /\ z.todo = rest /\ z.sess = run[r].sess /\ z.from = run[r].from
        /\ z.tool = run[r].tool /\ z.asks = run[r].asks
    BY <2>1 DEF RunStates
  <2>6. z.asked = run[r].asked
    <3>1. run[r] \in RunStates
      OBVIOUS
    <3> QED BY <3>1, Zenon DEF RunStates
  <2> HIDE DEF z
  <2> QED BY <1>2, <2>2, <2>4, <2>5, <2>6, Replaced DEF Becomes, Keeps, SameCall, rest
<1> QED BY <1>1, <1>2

-----------------------------------------------------------------------------
(* Types. *)

\* TypeOK but for run
RestOK ==
  /\ held \in [Files -> Runs \cup {NoRun}]
  /\ pending \subseteq Requests /\ bulk \subseteq Requests
  /\ box \in [Runs -> Decisions \cup {"deaf", "empty"}]
  /\ exempt \subseteq Sessions \X Tools
  /\ row \in [Runs -> Statuses]
  /\ ckpt \in [Runs -> Nat]
  /\ token \in [Sessions -> [Tokens -> Runs \cup {NoRun}]]
  /\ cancelled \subseteq Runs /\ paused \subseteq Runs /\ auto \in BOOLEAN
  /\ file \in [Files -> Runs \cup {NoRun}]
  /\ log \in [Files -> [before : Runs \cup {NoRun}, after : Runs \cup {NoRun}]]
  /\ granted \subseteq Requests \X {"single", "bulk"}
  /\ crashes \in Nat

\* TypeOK is about run and the rest.
LEMMA Split == TypeOK <=> RestOK /\ run \in [Runs -> RunStates]
  BY DEF TypeOK, RestOK, Statuses

\* Typed holds again when the run that moved is well-formed and the rest is typed.
LEMMA TypedBy ==
  ASSUME Typed, NEW r \in Runs, run' \in [Runs -> RunStates], Others(r), ShapeOf(run'[r]),
         RestOK', run'[r].pc # "unused",
         \A x \in Runs \ {r} : row'[x] # "none" => row[x] # "none"
  PROVE  Typed'
<1>1. TypeOK'
  BY DEF TypeOK, RestOK, Statuses
<1>2. \A x \in Runs : ShapeOf(run'[x])
  BY DEF Typed, Others
<1>3. \A x \in Runs : row'[x] # "none" => run'[x].pc # "unused"
  BY DEF Typed, Others
<1> QED BY <1>1, <1>2, <1>3 DEF Typed, ShapeOf

\* Nothing has started in the initial state.
LEMMA TypedStart == Init => Typed
<1> SUFFICES ASSUME Init PROVE Typed
  OBVIOUS
<1>1. run \in [Runs -> RunStates]
  BY IdleTyped DEF Init
<1>2. RestOK
  BY DEF Init, GateInit, BrokerInit, RestOK, Statuses
<1>3. \A r \in Runs : ShapeOf(run[r]) /\ row[r] = "none"
  BY DEF Init, Idle, ShapeOf, InCall, Gated
<1> QED BY <1>1, <1>2, <1>3, Split DEF Typed

\* the run decides to stop
Stops(r) ==
  \E why \in Reasons :
    \/ Leave(r, Leaving, why) \/ Leave(r, Panicked, why)
    \/ run[r].pc = "loading" /\ Leave(r, LoadFailed, why)
\* the steps of the loop that only move the run
LoopStep(r) == Load(r) \/ ProposalDecided(r) \/ Iterate(r) \/ LlmEnds(r) \/ Panic(r)

\* The steps of the loop that only move the run touch nothing but it and its checkpoint.
LEMMA LoopStepDoes ==
  ASSUME NEW r \in Runs, LoopStep(r)
  PROVE  /\ run[r].pc \in {"loading", "proposed", "top", "llm"}
         /\ Stops(r) \/ Goto(r, "top") \/ Goto(r, "proposed") \/ Goto(r, "llm")
         /\ UNCHANGED <<held, brokerVars, row, token, userVars, diskVars, crashes>>
         /\ ckpt' \in {ckpt, [ckpt EXCEPT ![r] = run[r].iter]}
<1>1. CASE Load(r)
  BY <1>1, Zenon DEF Load, Stops, Reasons
<1>2. CASE ProposalDecided(r)
  BY <1>2, Zenon DEF ProposalDecided, Stops, Reasons
<1>3. CASE Iterate(r)
  BY <1>3, Zenon DEF Iterate, Stops, Reasons
<1>4. CASE LlmEnds(r)
  <2>1. Endings \subseteq Reasons
    BY EndingsAssumption DEF Reasons
  <2> QED BY <1>4, <2>1, Zenon DEF LlmEnds, Stops, Reasons
<1>5. CASE Panic(r)
  BY <1>5, Zenon DEF Panic, Stops, Reasons
<1> QED BY <1>1, <1>2, <1>3, <1>4, <1>5 DEF LoopStep

\* A run that stops leaves by one of the three ways out.
LEMMA StopsDoes ==
  ASSUME run \in [Runs -> RunStates], NEW r \in Runs, Stops(r)
  PROVE  /\ run' \in [Runs -> RunStates] /\ Others(r) /\ Keeps(r)
         /\ run'[r].pc = "leaving" /\ run'[r].asked = FALSE
         /\ \/ run'[r].todo \in {Leaving, Panicked}
            \/ run[r].pc = "loading" /\ run'[r].todo = LoadFailed
<1>1. PICK why \in Reasons :
        \/ Leave(r, Leaving, why) \/ Leave(r, Panicked, why)
        \/ run[r].pc = "loading" /\ Leave(r, LoadFailed, why)
  BY DEF Stops
<1>2. CASE Leave(r, Leaving, why)
  BY <1>2, LeaveDoes, TodoSeqs
<1>3. CASE Leave(r, Panicked, why)
  BY <1>3, LeaveDoes, TodoSeqs
<1>4. CASE run[r].pc = "loading" /\ Leave(r, LoadFailed, why)
  BY <1>4, LeaveDoes, TodoSeqs
<1> QED BY <1>1, <1>2, <1>3, <1>4

\* Every step of a run keeps the types.
LEMMA RunStepTyped ==
  ASSUME Typed, NEW r \in Runs, RunStep(r)
  PROVE  Typed'
<1>0. /\ run \in [Runs -> RunStates] /\ RestOK /\ ShapeOf(run[r])
  BY Split DEF Typed
<1> USE DEF brokerVars, runVars, userVars, diskVars
<1>1. ASSUME SpawnResumed(r) PROVE Typed'
  <2>1. /\ run' \in [Runs -> RunStates] /\ Others(r) /\ Keeps(r)
        /\ run'[r].pc = "arming" /\ run'[r].todo = Arming
    BY <1>0, <1>1, SpawnDoes
  <2>2. ShapeOf(run'[r]) /\ run'[r].pc # "unused"
    BY <1>0, <1>1, <2>1, TodoSeqs DEF ShapeOf, Keeps, InCall, Gated, SpawnResumed
  <2>3. RestOK' /\ \A x \in Runs \ {r} : row'[x] # "none" => row[x] # "none"
    BY <1>0, <1>1 DEF RestOK, SpawnResumed, MarkSuperseded, Statuses, Resumable
  <2> QED BY <2>1, <2>2, <2>3, TypedBy
<1>2. ASSUME Arm(r) PROVE Typed'
  <2>1. run' \in [Runs -> RunStates] /\ Others(r) /\ Keeps(r) /\ run'[r].todo = Tail(run[r].todo)
        /\ run'[r].pc = IF Tail(run[r].todo) = <<>> THEN "loading" ELSE "arming"
    BY <1>0, <1>2, ArmDoes DEF ShapeOf, Arm
  <2>2. ShapeOf(run'[r]) /\ run'[r].pc # "unused"
    BY <1>0, <1>2, <2>1, ArmingsShrink DEF ShapeOf, Keeps, InCall, Gated, Arm
  <2>3. RestOK' /\ \A x \in Runs \ {r} : row'[x] # "none" => row[x] # "none"
    BY <1>0, <1>2, ArmingsShrink DEF RestOK, ShapeOf, Arm, Statuses, Tokens
  <2> QED BY <2>1, <2>2, <2>3, TypedBy
<1>3. ASSUME LoopStep(r) PROVE Typed'
  <2>1. /\ run' \in [Runs -> RunStates] /\ Others(r) /\ Keeps(r)
        /\ \/ run'[r].pc = "leaving" /\ run'[r].todo \in Exits
           \/ run'[r].pc \in {"top", "proposed", "llm"}
    BY ZenonT(60), <1>0, <1>3, LoopStepDoes, GotoDoes, StopsDoes, TodoSeqs DEF Loop
  <2>2. ShapeOf(run'[r]) /\ run'[r].pc # "unused"
    BY <1>0, <1>3, <2>1, LoopStepDoes DEF ShapeOf, Keeps, InCall, Gated
  <2>3. run[r].iter \in Nat
    BY <1>0 DEF RunStates
  <2>4. RestOK' /\ \A x \in Runs \ {r} : row'[x] # "none" => row[x] # "none"
    BY <1>0, <1>3, <2>3, LoopStepDoes DEF RestOK
  <2> QED BY <2>1, <2>2, <2>4, TypedBy
<1>4. ASSUME LlmCalls(r) PROVE Typed'
  <2>1. run' \in [Runs -> RunStates] /\ Others(r) /\ Keeps(r) /\ run'[r].pc = "calls"
        /\ run'[r].bad + run'[r].left <= run'[r].calls
    BY <1>0, <1>4, LlmCallsDoes DEF RestOK
  <2>2. ShapeOf(run'[r]) /\ run'[r].pc # "unused"
    BY <1>0, <1>4, <2>1 DEF ShapeOf, Keeps, InCall, Gated, LlmCalls
  <2>3. RestOK' /\ \A x \in Runs \ {r} : row'[x] # "none" => row[x] # "none"
    BY <1>0, <1>4 DEF RestOK, LlmCalls
  <2> QED BY <2>1, <2>2, <2>3, TypedBy
<1>5. ASSUME RoundOver(r) PROVE Typed'
  <2>1. /\ run' \in [Runs -> RunStates] /\ Others(r) /\ Keeps(r)
        /\ \/ run'[r].pc = "leaving" /\ run'[r].todo \in Exits
           \/ run'[r].pc = "top"
    BY ZenonT(60), <1>0, <1>5, RoundOverDoes, LeaveDoes, TodoSeqs DEF Reasons
  <2>2. ShapeOf(run'[r]) /\ run'[r].pc # "unused"
    BY <1>0, <1>5, <2>1 DEF ShapeOf, Keeps, InCall, Gated, RoundOver
  <2>3. run[r].iter + 1 \in Nat
    BY <1>0 DEF RunStates
  <2>4. RestOK' /\ \A x \in Runs \ {r} : row'[x] # "none" => row[x] # "none"
    BY <1>0, <1>5, <2>3 DEF RestOK, RoundOver
  <2> QED BY <2>1, <2>2, <2>4, TypedBy
<1>6. ASSUME Call(r) PROVE Typed'
  <2>1. /\ run' \in [Runs -> RunStates] /\ Others(r) /\ Keeps(r)
        /\ run'[r].tool \in Tools /\ run'[r].left = run[r].left
        /\ run'[r].bad = run[r].bad /\ run'[r].calls = run[r].calls
        /\ run'[r].pc \in {"invoke", "waiting"}
    BY <1>0, <1>6, CallDoes
  <2>2. /\ run[r].left > 0 /\ run[r].pc = "calls"
        /\ UNCHANGED <<held, row, ckpt, token, userVars, diskVars, crashes>>
    BY <1>6 DEF Call
  <2>3. ShapeOf(run'[r]) /\ run'[r].pc # "unused"
    BY <1>0, <2>1, <2>2 DEF ShapeOf, Keeps, InCall, Gated
  <2>4. /\ pending' \subseteq Requests /\ box' \in [Runs -> Decisions \cup {"deaf", "empty"}]
        /\ exempt' = exempt
    <3>1. CASE UNCHANGED brokerVars
      BY <1>0, <3>1 DEF RestOK
    <3>2. CASE Register([run |-> r, n |-> run'[r].asks, session |-> run'[r].sess,
                         tool |-> run'[r].tool])
      <4>1. /\ run'[r].asks \in Nat /\ run'[r].sess \in Sessions
        BY <1>0, <2>1, <2>2 DEF ShapeOf, Keeps, RunStates
      <4> QED BY <1>0, <2>1, <3>2, <4>1 DEF RestOK, Register, Requests
    <3> QED BY <1>0, <1>6, <3>1, <3>2, CallDoes
  <2>5. RestOK' /\ \A x \in Runs \ {r} : row'[x] # "none" => row[x] # "none"
    BY <1>0, <2>2, <2>4 DEF RestOK
  <2> QED BY <2>1, <2>3, <2>5, TypedBy
<1>7. ASSUME Decided(r) PROVE Typed'
  <2>1. /\ run' \in [Runs -> RunStates] /\ Others(r) /\ Keeps(r)
        /\ \/ run'[r].pc = "calls" /\ run'[r].bad + run'[r].left <= run'[r].calls
           \/ /\ run'[r].pc = "invoke" /\ run'[r].tool = run[r].tool
              /\ run'[r].bad = run[r].bad /\ run'[r].left = run[r].left
              /\ run'[r].calls = run[r].calls
    BY <1>0, <1>7, CallOverDoes, GotoDoes DEF Decided, ShapeOf, InCall, Loop, SameCall
  <2>2. ShapeOf(run'[r]) /\ run'[r].pc # "unused"
    BY <1>0, <1>7, <2>1 DEF ShapeOf, Keeps, InCall, Gated, Decided
  <2>3. RestOK' /\ \A x \in Runs \ {r} : row'[x] # "none" => row[x] # "none"
    BY <1>0, <1>7 DEF RestOK, Decided, Deafen
  <2> QED BY <2>1, <2>2, <2>3, TypedBy
<1>8. ASSUME Elapse(r) PROVE Typed'
  <2>1. /\ run' \in [Runs -> RunStates] /\ Others(r) /\ Keeps(r) /\ SameCall(r)
        /\ run'[r].pc \in InCall /\ run'[r].target = run[r].target
        /\ run'[r].left = run[r].left /\ run'[r].bad = run[r].bad
        /\ run'[r].calls = run[r].calls
    BY <1>0, <1>8, GotoDoes DEF Elapse, InCall, Gated, Loop
  <2>2. ShapeOf(run'[r]) /\ run'[r].pc # "unused"
    BY <1>0, <1>8, <2>1, GotoDoes DEF ShapeOf, Keeps, SameCall, InCall, Gated, Loop, Elapse
  <2>3. RestOK' /\ \A x \in Runs \ {r} : row'[x] # "none" => row[x] # "none"
    BY <1>0, <1>8 DEF RestOK, Elapse, ShapeOf, Gated
  <2> QED BY <2>1, <2>2, <2>3, TypedBy
<1>9. ASSUME DropReceiver(r) PROVE Typed'
  <2>1. run' = run /\ row' = row
    BY <1>9 DEF DropReceiver
  <2>2. RestOK'
    BY <1>0, <1>9 DEF RestOK, DropReceiver, Deafen
  <2> QED BY <1>0, <2>1, <2>2 DEF Typed, TypeOK, RestOK, Statuses, ShapeOf
<1>10. ASSUME TimeoutDeny(r) PROVE Typed'
  <2>1. /\ run' \in [Runs -> RunStates] /\ Others(r) /\ Keeps(r)
        /\ run'[r].pc = "calls" /\ run'[r].bad + run'[r].left <= run'[r].calls
    BY <1>0, <1>10, CallOverDoes DEF TimeoutDeny, ShapeOf, InCall, Gated
  <2>2. ShapeOf(run'[r]) /\ run'[r].pc # "unused"
    BY <1>0, <1>10, <2>1 DEF ShapeOf, Keeps, InCall, Gated, TimeoutDeny
  <2>3. RestOK' /\ \A x \in Runs \ {r} : row'[x] # "none" => row[x] # "none"
    BY <1>0, <1>10 DEF RestOK, TimeoutDeny, Withdraw
  <2> QED BY <2>1, <2>2, <2>3, TypedBy
<1>11. ASSUME Invoke(r) PROVE Typed'
  <2>1. /\ run' \in [Runs -> RunStates] /\ Others(r) /\ Keeps(r)
        /\ run'[r].pc = "calls" /\ run'[r].bad + run'[r].left <= run'[r].calls
    BY <1>0, <1>11, CallOverDoes DEF Invoke, ShapeOf, InCall, Gated
  <2>2. ShapeOf(run'[r]) /\ run'[r].pc # "unused"
    BY <1>0, <1>11, <2>1 DEF ShapeOf, Keeps, InCall, Gated, Invoke
  <2>3. RestOK' /\ \A x \in Runs \ {r} : row'[x] # "none" => row[x] # "none"
    BY <1>0, <1>11 DEF RestOK, Invoke
  <2> QED BY <2>1, <2>2, <2>3, TypedBy
<1>12. ASSUME WriteFile(r) /\ CallOver(r, 1) PROVE Typed'
  <2>1. /\ run' \in [Runs -> RunStates] /\ Others(r) /\ Keeps(r)
        /\ run'[r].pc = "calls" /\ run'[r].bad + run'[r].left <= run'[r].calls
    BY <1>0, <1>12, CallOverDoes DEF WriteFile, ShapeOf, InCall, Gated
  <2>2. ShapeOf(run'[r]) /\ run'[r].pc # "unused"
    BY <1>0, <1>12, <2>1 DEF ShapeOf, Keeps, InCall, Gated, WriteFile
  <2>3. RestOK' /\ \A x \in Runs \ {r} : row'[x] # "none" => row[x] # "none"
    BY <1>0, <1>12 DEF RestOK, WriteFile, BeginWrite
  <2> QED BY <2>1, <2>2, <2>3, TypedBy
<1>13. ASSUME WriteFile(r), ~CallOver(r, 1) PROVE Typed'
  <2>1. /\ run' \in [Runs -> RunStates] /\ Others(r) /\ Keeps(r) /\ SameCall(r)
        /\ run'[r].pc = "writing" /\ run'[r].target = run[r].target
        /\ run'[r].left = run[r].left /\ run'[r].bad = run[r].bad
        /\ run'[r].calls = run[r].calls
    BY <1>0, <1>13, ReadDoes DEF RestOK
  <2>2. ShapeOf(run'[r]) /\ run'[r].pc # "unused"
    BY <1>0, <1>13, <2>1 DEF ShapeOf, Keeps, SameCall, InCall, Gated, WriteFile
  <2>3. RestOK' /\ \A x \in Runs \ {r} : row'[x] # "none" => row[x] # "none"
    BY <1>0, <1>13 DEF RestOK, WriteFile, BeginWrite
  <2> QED BY <2>1, <2>2, <2>3, TypedBy
<1>14. ASSUME NoDirectory(r) PROVE Typed'
  <2>1. /\ run' \in [Runs -> RunStates] /\ Others(r) /\ Keeps(r)
        /\ run'[r].pc = "calls" /\ run'[r].bad + run'[r].left <= run'[r].calls
    BY <1>0, <1>14, CallOverDoes DEF NoDirectory, ShapeOf, InCall, Gated
  <2>2. ShapeOf(run'[r]) /\ run'[r].pc # "unused"
    BY <1>0, <1>14, <2>1 DEF ShapeOf, Keeps, InCall, Gated, NoDirectory
  <2>3. RestOK' /\ \A x \in Runs \ {r} : row'[x] # "none" => row[x] # "none"
    BY <1>0, <1>14 DEF RestOK, NoDirectory
  <2> QED BY <2>1, <2>2, <2>3, TypedBy
<1>15. ASSUME WriteFails(r) PROVE Typed'
  <2>1. /\ run' \in [Runs -> RunStates] /\ Others(r) /\ Keeps(r)
        /\ run'[r].pc = "calls" /\ run'[r].bad + run'[r].left <= run'[r].calls
    BY <1>0, <1>15, CallOverDoes DEF WriteFails, ShapeOf, InCall, Gated
  <2>2. ShapeOf(run'[r]) /\ run'[r].pc # "unused"
    BY <1>0, <1>15, <2>1 DEF ShapeOf, Keeps, InCall, Gated, WriteFails
  <2>3. RestOK' /\ \A x \in Runs \ {r} : row'[x] # "none" => row[x] # "none"
    BY <1>0, <1>15 DEF RestOK, WriteFails, ReleaseRun
  <2> QED BY <2>1, <2>2, <2>3, TypedBy
<1>16. ASSUME WriteTorn(r) PROVE Typed'
  <2>1. /\ run' \in [Runs -> RunStates] /\ Others(r) /\ Keeps(r)
        /\ run'[r].pc = "calls" /\ run'[r].bad + run'[r].left <= run'[r].calls
    BY <1>0, <1>16, CallOverDoes DEF WriteTorn, ShapeOf, InCall, Gated
  <2>2. ShapeOf(run'[r]) /\ run'[r].pc # "unused"
    BY <1>0, <1>16, <2>1 DEF ShapeOf, Keeps, InCall, Gated, WriteTorn
  <2>3. RestOK' /\ \A x \in Runs \ {r} : row'[x] # "none" => row[x] # "none"
    BY <1>0, <1>16 DEF RestOK, WriteTorn, ReleaseRun
  <2> QED BY <2>1, <2>2, <2>3, TypedBy
<1>17. ASSUME Written(r) PROVE Typed'
  <2>1. /\ run' \in [Runs -> RunStates] /\ Others(r) /\ Keeps(r) /\ SameCall(r)
        /\ run'[r].pc \in InCall /\ run'[r].target = run[r].target
        /\ run'[r].left = run[r].left /\ run'[r].bad = run[r].bad
        /\ run'[r].calls = run[r].calls
    BY <1>0, <1>17, GotoDoes DEF Written, InCall, Gated, Loop
  <2>2. ShapeOf(run'[r]) /\ run'[r].pc # "unused"
    BY <1>0, <1>17, <2>1, GotoDoes DEF ShapeOf, Keeps, SameCall, InCall, Gated, Loop, Written
  <2>3. RestOK' /\ \A x \in Runs \ {r} : row'[x] # "none" => row[x] # "none"
    BY <1>0, <1>17 DEF RestOK, Written, ShapeOf, Gated
  <2> QED BY <2>1, <2>2, <2>3, TypedBy
<1>18. ASSUME Record(r) PROVE Typed'
  <2>1. /\ run' \in [Runs -> RunStates] /\ Others(r) /\ Keeps(r) /\ SameCall(r)
        /\ run'[r].pc \in InCall /\ run'[r].target = run[r].target
        /\ run'[r].left = run[r].left /\ run'[r].bad = run[r].bad
        /\ run'[r].calls = run[r].calls
    BY <1>0, <1>18, GotoDoes DEF Record, InCall, Gated, Loop
  <2>2. ShapeOf(run'[r]) /\ run'[r].pc # "unused"
    BY <1>0, <1>18, <2>1, GotoDoes DEF ShapeOf, Keeps, SameCall, InCall, Gated, Loop, Record
  <2>3. RestOK' /\ \A x \in Runs \ {r} : row'[x] # "none" => row[x] # "none"
    BY <1>0, <1>18 DEF RestOK, Record, ShapeOf, Gated, RunStates
  <2> QED BY <2>1, <2>2, <2>3, TypedBy
<1>19. ASSUME LetGo(r) PROVE Typed'
  <2>1. /\ run' \in [Runs -> RunStates] /\ Others(r) /\ Keeps(r)
        /\ run'[r].pc = "calls" /\ run'[r].bad + run'[r].left <= run'[r].calls
    BY <1>0, <1>19, CallOverDoes DEF LetGo, ShapeOf, InCall, Gated
  <2>2. ShapeOf(run'[r]) /\ run'[r].pc # "unused"
    BY <1>0, <1>19, <2>1 DEF ShapeOf, Keeps, InCall, Gated, LetGo
  <2>3. RestOK' /\ \A x \in Runs \ {r} : row'[x] # "none" => row[x] # "none"
    BY <1>0, <1>19 DEF RestOK, LetGo, EndWrite
  <2> QED BY <2>1, <2>2, <2>3, TypedBy
<1>20. ASSUME ExitStep(r) PROVE Typed'
  <2>0. run[r].pc = "leaving" /\ run[r].todo \in Exits /\ run[r].sess \in Sessions
    BY <1>0, <1>20 DEF ShapeOf, ExitStep
  <2>1. /\ run' \in [Runs -> RunStates] /\ Others(r) /\ Keeps(r)
        /\ \/ run'[r].pc = "done"
           \/ run'[r].pc = "leaving" /\ run'[r].todo \in Exits
    BY <1>0, <1>20, <2>0, ExitDoes, ExitsShrink
  <2>2. ShapeOf(run'[r]) /\ run'[r].pc # "unused"
    BY <2>0, <2>1 DEF ShapeOf, Keeps, InCall, Gated
  <2>3. held' \in [Files -> Runs \cup {NoRun}]
    BY <1>0, <1>20 DEF RestOK, ExitStep, ReleaseRun
  <2>4. token' \in [Sessions -> [Tokens -> Runs \cup {NoRun}]]
    BY <1>0, <1>20, <2>0 DEF RestOK, ExitStep
  <2>5. row' \in [Runs -> Statuses] /\ \A x \in Runs \ {r} : row'[x] # "none" => row[x] # "none"
    <3>1. StatusOf(run[r].why) \in Statuses
      BY DEF StatusOf, Statuses
    <3> QED BY <1>0, <1>20, <3>1 DEF RestOK, ExitStep
  <2>6. RestOK'
    BY <1>0, <1>20, <2>3, <2>4, <2>5 DEF RestOK, ExitStep
  <2> QED BY <2>1, <2>2, <2>5, <2>6, TypedBy
<1> QED
  BY <1>1, <1>2, <1>3, <1>4, <1>5, <1>6, <1>7, <1>8, <1>9, <1>10, <1>11, <1>12, <1>13, <1>14,
     <1>15, <1>16, <1>17, <1>18, <1>19, <1>20 DEF RunStep, LoopStep

\* The commands that touch no run.
Aside ==
  \/ \E s \in Sessions : Cancel(s) \/ Pause(s) \/ \E t \in Tools : ExemptTool(s, t)
  \/ SetAutoApprove \/ BulkDeliver
  \/ \E q \in pending, d \in Decisions : Decide(q, d)
  \/ \E qs \in SUBSET pending \ {{}} : BulkAccept(qs) \/ BulkIgnore(qs)
Starts == \E r \in Runs : (\E s \in Sessions : Send(r, s)) \/ \E o \in Runs : ResumeTask(r, o)

\* A step is a command that touches no run, a start, a crash, or a step of a run.
LEMMA NextIs ==
  ASSUME [Next]_vars
  PROVE  UNCHANGED vars \/ Aside \/ Starts \/ Crash \/ \E r \in Runs : RunStep(r)
  BY Zenon DEF Next, User, UsedUp, Aside, Starts

\* Commands that touch no run keep the types.
LEMMA AsideTyped ==
  ASSUME Typed, Aside
  PROVE  Typed'
<1>0. RestOK /\ run \in [Runs -> RunStates]
  BY Split DEF Typed
<1> USE DEF brokerVars, runVars, userVars, diskVars
<1>1. run' = run /\ row' = row
  BY DEF Aside, Cancel, Pause, ExemptTool, SetAutoApprove, BulkDeliver, Decide, BulkAccept,
         BulkIgnore
<1>2. RestOK'
  <2>1. ASSUME NEW s \in Sessions, Cancel(s) PROVE RestOK'
    BY <1>0, <2>1 DEF Cancel, RestOK, Tokens
  <2>2. ASSUME NEW s \in Sessions, Pause(s) PROVE RestOK'
    BY <1>0, <2>2 DEF Pause, RestOK, Tokens
  <2>3. ASSUME NEW s \in Sessions, NEW t \in Tools, ExemptTool(s, t) PROVE RestOK'
    BY <1>0, <2>3 DEF ExemptTool, Exempt, RestOK
  <2>4. CASE SetAutoApprove
    BY <1>0, <2>4 DEF SetAutoApprove, RestOK
  <2>5. CASE BulkDeliver
    BY <1>0, <2>5 DEF BulkDeliver, Deliver, Lets, RestOK, Decisions
  <2>6. ASSUME NEW q \in pending, NEW d \in Decisions, Decide(q, d) PROVE RestOK'
    BY <1>0, <2>6 DEF Decide, Deliver, Lets, RestOK
  <2>7. ASSUME NEW qs \in SUBSET pending, BulkAccept(qs) PROVE RestOK'
    BY <1>0, <2>7 DEF BulkAccept, BulkSafe, RestOK
  <2>8. ASSUME NEW qs \in SUBSET pending, BulkIgnore(qs) PROVE RestOK'
    BY <1>0, <2>8 DEF BulkIgnore, Deliver, RestOK, Decisions
  <2> QED BY <2>1, <2>2, <2>3, <2>4, <2>5, <2>6, <2>7, <2>8 DEF Aside
<1> QED BY <1>0, <1>1, <1>2 DEF Typed, TypeOK, RestOK, Statuses, ShapeOf

\* So do starts,
LEMMA StartsTyped ==
  ASSUME Typed, Starts
  PROVE  Typed'
<1>0. RestOK /\ run \in [Runs -> RunStates] /\ \A r \in Runs : ShapeOf(run[r])
  BY Split DEF Typed
<1> USE DEF brokerVars, runVars, userVars, diskVars
<1>1. ASSUME NEW r \in Runs, NEW s \in Sessions, Send(r, s) PROVE Typed'
  <2>1. /\ run' \in [Runs -> RunStates] /\ Others(r)
        /\ run'[r].pc = "arming" /\ run'[r].sess = s /\ run'[r].todo \in Armings
    BY <1>0, <1>1, SendDoes, TodoSeqs
  <2>2. ShapeOf(run'[r]) /\ run'[r].pc # "unused"
    BY <2>1 DEF ShapeOf, InCall, Gated
  <2>3. RestOK' /\ row' = row
    BY <1>0, <1>1 DEF Send, RestOK
  <2> QED BY <2>1, <2>2, <2>3, TypedBy
<1>2. ASSUME NEW r \in Runs, NEW o \in Runs, ResumeTask(r, o) PROVE Typed'
  <2>0. run[o].sess \in Sessions
    BY <1>0, <1>2 DEF ResumeTask, Resumable, Typed, ShapeOf
  <2>1. /\ run' \in [Runs -> RunStates] /\ Others(r)
        /\ run'[r].pc = "marking" /\ run'[r].sess \in Sessions /\ run'[r].from \in Runs
    <3>1. ckpt \in [Runs -> Nat] /\ run \in [Runs -> RunStates]
      BY <1>0 DEF RestOK
    <3> QED BY <1>2, <2>0, <3>1, ResumeDoes
  <2>2. ShapeOf(run'[r]) /\ run'[r].pc # "unused"
    BY <2>1 DEF ShapeOf, InCall, Gated
  <2>3. RestOK' /\ row' = row
    BY <1>0, <1>2 DEF ResumeTask, RestOK
  <2> QED BY <2>1, <2>2, <2>3, TypedBy
<1> QED BY <1>1, <1>2 DEF Starts

\* A crash ends every run that is alive and no other.
LEMMA CrashDoes ==
  ASSUME run \in [Runs -> RunStates], Crash, \A r \in Runs : ShapeOf(run[r])
  PROVE  /\ run' \in [Runs -> RunStates]
         /\ \A r \in Runs :
              \/ ~Live(r) /\ run'[r] = run[r]
              \/ /\ Live(r) /\ run'[r].pc = "lost" /\ run'[r].asked = FALSE
                 /\ run'[r].sess = run[r].sess /\ run'[r].from = run[r].from
<1> DEFINE y(r) == [Idle EXCEPT !.pc = "lost", !.sess = run[r].sess, !.from = run[r].from,
                                !.start = run[r].start]
<1>1. run' = [r \in Runs |-> IF Live(r) THEN y(r) ELSE run[r]]
  BY Zenon DEF Crash
<1>2. ASSUME NEW r \in Runs, Live(r)
      PROVE  /\ y(r) \in RunStates /\ y(r).pc = "lost" /\ y(r).asked = FALSE
             /\ y(r).sess = run[r].sess /\ y(r).from = run[r].from
  <2> DEFINE s == run[r].sess
             o == run[r].from
             n == run[r].start
  <2>1. s \in Sessions /\ o \in Runs \cup {NoRun} /\ n \in Nat
    BY SMTT(60), <1>2 DEF Live, ShapeOf, RunStates
  <2> HIDE DEF s, o, n
  <2>2. y(r) = [Idle EXCEPT !.pc = "lost", !.sess = s, !.from = o, !.start = n]
    BY DEF s, o, n
  <2>3. y(r) \in RunStates
    <3>1. [Idle EXCEPT !.pc = "lost", !.sess = s, !.from = o, !.start = n] \in RunStates
      BY <2>1, IdleTyped, EndTyped
    <3> QED BY <2>2, <3>1, Zenon
  <2>4. y(r).pc = "lost" /\ y(r).sess = s /\ y(r).from = o /\ y(r).asked = FALSE
    BY DEF Idle, s, o, n
  <2> HIDE DEF y
  <2> QED BY <2>3, <2>4 DEF s, o
<1> HIDE DEF y
<1> QED BY <1>1, <1>2

\* A crash keeps the types too.
LEMMA CrashTyped ==
  ASSUME Typed, Crash
  PROVE  Typed'
<1>0. RestOK /\ run \in [Runs -> RunStates] /\ \A r \in Runs : ShapeOf(run[r])
  BY Split DEF Typed
<1>1. /\ run' \in [Runs -> RunStates]
      /\ \A r \in Runs :
           \/ ~Live(r) /\ run'[r] = run[r]
           \/ /\ Live(r) /\ run'[r].pc = "lost" /\ run'[r].sess = run[r].sess
  BY <1>0, CrashDoes
<1>2. \A r \in Runs : ShapeOf(run'[r])
  BY <1>0, <1>1 DEF ShapeOf, InCall, Gated, Live
<1>3. row' \in [Runs -> Statuses] /\ \A r \in Runs : row'[r] # "none" => row[r] # "none"
  BY <1>0 DEF RestOK, Crash, OrphansInterrupted, Statuses
<1>4. \A r \in Runs : row'[r] # "none" => run'[r].pc # "unused"
  BY <1>1, <1>3 DEF Typed
<1>5. RestOK'
  <2>1. /\ held' \in [Files -> Runs \cup {NoRun}]
        /\ box' \in [Runs -> Decisions \cup {"deaf", "empty"}]
    BY DEF Crash, GateLost, BrokerLost
  <2>2. token' \in [Sessions -> [Tokens -> Runs \cup {NoRun}]]
    BY DEF Crash
  <2>3. /\ pending' = {} /\ exempt' = {} /\ bulk' = {} /\ cancelled' = {} /\ paused' = {}
        /\ auto' = FALSE /\ crashes' = crashes + 1
        /\ UNCHANGED <<ckpt, file, log, granted>>
    BY Zenon DEF Crash, GateLost, BrokerLost, diskVars
  <2>4. crashes' \in Nat
    BY <1>0, <2>3 DEF RestOK
  <2> QED BY <1>0, <1>3, <2>1, <2>2, <2>3, <2>4 DEF RestOK
<1> QED BY <1>1, <1>2, <1>4, <1>5 DEF Typed, TypeOK, RestOK, Statuses, ShapeOf

\* Typed is inductive.
LEMMA TypedStep ==
  ASSUME Typed, [Next]_vars
  PROVE  Typed'
<1>1. ASSUME UNCHANGED vars PROVE Typed'
  BY <1>1 DEF vars, Typed, TypeOK, ShapeOf
<1> QED BY <1>1, NextIs, AsideTyped, StartsTyped, CrashTyped, RunStepTyped

\* Every variable of the runs keeps its type, for all constants and in every
\* environment.
THEOREM AgentsAreTyped == Spec => []TypeOK
<1>1. Typed => TypeOK
  BY DEF Typed
<1> QED BY <1>1, TypedStart, TypedStep, PTL DEF Spec

Waits == {"waiting", "elapsing"}
Invoked == {"invoke"} \cup Gated

\* a run has at most one request in the map, the one it waits on, and no
\* decision for it has been sent yet
OneQuestion ==
  \A q \in pending :
    q = Request(q.run) /\ run[q.run].pc \in Waits /\ box[q.run] \in {"empty", "deaf"}
LetThrough(r) ==
  \/ <<Request(r), "single">> \in granted
  \/ run[r].tool \notin HighRisk /\ <<Request(r), "bulk">> \in granted
\* who was asked about a call is asked about until it is over, and a decision
\* that arrived is one the user made
Permitted ==
  \A r \in Runs :
    /\ run[r].asked => run[r].pc \in InCall
    /\ run[r].asked /\ run[r].pc \in Invoked => LetThrough(r)
    /\ run[r].pc = "waiting" /\ box[r] \in {"accept", "edit"} => LetThrough(r)
BulkIsSafe == \A q \in bulk : q.tool \notin HighRisk
BrokerInv == OneQuestion /\ Permitted /\ BulkIsSafe

\* a step of run r that has nothing to do with the broker: it may let a call
\* run on that is running already
Unasking(r) ==
  /\ Others(r) /\ UNCHANGED <<pending, box, bulk, granted>>
  /\ run[r].pc \notin Waits /\ run'[r].pc \notin Waits
  /\ run'[r].asked =>
       /\ run[r].asked /\ run[r].pc \in Invoked /\ run'[r].pc \in Invoked
       /\ run'[r].tool = run[r].tool /\ run'[r].asks = run[r].asks
       /\ run'[r].sess = run[r].sess

\* A step that has nothing to do with the broker keeps what is known of it.
LEMMA UnaskingKeeps ==
  ASSUME Typed, BrokerInv, NEW r \in Runs, Unasking(r)
  PROVE  BrokerInv'
<1>0. \A q \in pending : q.run \in Runs
  BY DEF Typed, TypeOK, Requests
<1>1. \A x \in Runs \ {r} : Request(x)' = Request(x) /\ LetThrough(x)' = LetThrough(x)
  BY DEF Unasking, Others, Request, LetThrough
<1>2. \A q \in pending : q.run # r
  BY DEF BrokerInv, OneQuestion, Unasking
<1>3. OneQuestion'
  BY <1>0, <1>1, <1>2 DEF BrokerInv, OneQuestion, Unasking, Others
<1>4. run'[r].asked => LetThrough(r)'
  BY DEF BrokerInv, Permitted, Unasking, Request, LetThrough
<1>5. Permitted'
  BY <1>1, <1>4 DEF BrokerInv, Permitted, Unasking, Others, InCall, Waits, Invoked
<1> QED BY <1>3, <1>5 DEF BrokerInv, BulkIsSafe, Unasking

\* What a run does before it asks, after it was answered, and when it ends.
LEMMA RunStepAsks ==
  ASSUME Typed, BrokerInv, NEW r \in Runs, RunStep(r)
  PROVE  \/ Unasking(r)
         \/ Call(r) \/ Decided(r) \/ Elapse(r) \/ DropReceiver(r) \/ TimeoutDeny(r)
<1>0. /\ run \in [Runs -> RunStates] /\ RestOK /\ ShapeOf(run[r])
      /\ run[r].asked => run[r].pc \in InCall
  BY Split DEF Typed, BrokerInv, Permitted
<1> USE DEF brokerVars, runVars, userVars, diskVars, Unasking, Waits, Invoked, InCall, Gated,
            SameCall, Keeps
<1>1. ASSUME SpawnResumed(r) PROVE Unasking(r)
  BY <1>0, <1>1, SpawnDoes DEF SpawnResumed
<1>2. ASSUME Arm(r) PROVE Unasking(r)
  <2>1. run[r].todo \in Armings
    BY <1>0, <1>2 DEF Arm, ShapeOf
  <2>2. run[r].pc = "arming" /\ UNCHANGED <<pending, box, bulk, granted>>
    BY <1>2 DEF Arm
  <2>3. Others(r) /\ run'[r].pc \in {"arming", "loading"} /\ run'[r].asked = run[r].asked
    BY <1>0, <1>2, <2>1, ArmDoes
  <2> QED BY <1>0, <2>2, <2>3
<1>3. ASSUME LoopStep(r) PROVE Unasking(r)
  <2>1. /\ run[r].pc \in {"loading", "proposed", "top", "llm"}
        /\ UNCHANGED <<pending, box, bulk, granted>>
    BY <1>3, LoopStepDoes
  <2>2. CASE Stops(r)
    BY <1>0, <2>1, <2>2, StopsDoes
  <2>3. ASSUME NEW pc \in {"top", "proposed", "llm"}, Goto(r, pc) PROVE Unasking(r)
    <3>1. Others(r) /\ run'[r].pc = pc /\ run'[r].asked = run[r].asked
      BY <1>0, <2>3, GotoDoes DEF Loop
    <3> QED BY <1>0, <2>1, <3>1
  <2> QED BY <1>3, <2>2, <2>3, LoopStepDoes
<1>4. ASSUME LlmCalls(r) PROVE Unasking(r)
  <2>1. auto \in BOOLEAN
    BY <1>0 DEF RestOK
  <2> QED BY <1>0, <1>4, <2>1, LlmCallsDoes DEF LlmCalls
<1>5. ASSUME RoundOver(r) PROVE Unasking(r)
  BY <1>0, <1>5, RoundOverDoes, LeaveDoes, TodoSeqs DEF RoundOver, Reasons
<1>6. ASSUME Invoke(r) PROVE Unasking(r)
  BY <1>0, <1>6, CallOverDoes DEF Invoke, ShapeOf
<1>7. ASSUME WriteFile(r) PROVE Unasking(r)
  <2>1. CASE CallOver(r, 1)
    BY <1>0, <1>7, <2>1, CallOverDoes DEF WriteFile, ShapeOf
  <2>2. CASE ~CallOver(r, 1)
    <3>1. file \in [Files -> Runs \cup {NoRun}]
      BY <1>0 DEF RestOK
    <3> QED BY <1>0, <1>7, <2>2, <3>1, ReadDoes DEF WriteFile
  <2> QED BY <2>1, <2>2
<1>8. ASSUME NoDirectory(r) PROVE Unasking(r)
  BY <1>0, <1>8, CallOverDoes DEF NoDirectory, ShapeOf
<1>9. ASSUME WriteFails(r) PROVE Unasking(r)
  BY <1>0, <1>9, CallOverDoes DEF WriteFails, ShapeOf
<1>10. ASSUME WriteTorn(r) PROVE Unasking(r)
  BY <1>0, <1>10, CallOverDoes DEF WriteTorn, ShapeOf
<1>11. ASSUME Written(r) PROVE Unasking(r)
  BY <1>0, <1>11, GotoDoes DEF Written, Loop
<1>12. ASSUME Record(r) PROVE Unasking(r)
  BY <1>0, <1>12, GotoDoes DEF Record, Loop
<1>13. ASSUME LetGo(r) PROVE Unasking(r)
  BY <1>0, <1>13, CallOverDoes DEF LetGo, ShapeOf
<1>14. ASSUME ExitStep(r) PROVE Unasking(r)
  <2>1. run[r].pc = "leaving" /\ run[r].todo \in Exits /\ run[r].sess \in Sessions
    BY <1>0, <1>14 DEF ExitStep, ShapeOf
  <2> QED BY <1>0, <1>14, <2>1, ExitDoes DEF ExitStep
<1> QED
  BY <1>1, <1>2, <1>3, <1>4, <1>5, <1>6, <1>7, <1>8, <1>9, <1>10, <1>11, <1>12, <1>13, <1>14
  DEF RunStep, LoopStep

\* The steps of a question: it is put, answered, or left unanswered.
LEMMA QuestionKeeps ==
  ASSUME Typed, BrokerInv, NEW r \in Runs,
         Call(r) \/ Decided(r) \/ Elapse(r) \/ DropReceiver(r) \/ TimeoutDeny(r)
  PROVE  BrokerInv'
<1>0. /\ run \in [Runs -> RunStates] /\ RestOK /\ ShapeOf(run[r])
      /\ \A q \in pending : q.run \in Runs
      /\ run[r].asked => run[r].pc \in InCall
  BY Split DEF Typed, RestOK, Requests, BrokerInv, Permitted
<1> USE DEF brokerVars, runVars, userVars, diskVars
<1>1. ASSUME Others(r), granted' = granted
      PROVE  \A x \in Runs \ {r} : Request(x)' = Request(x) /\ LetThrough(x)' = LetThrough(x)
  BY <1>1 DEF Others, Request, LetThrough
<1>2. CASE Call(r)
  <2>0. /\ run[r].pc = "calls" /\ UNCHANGED <<bulk, granted>> /\ Others(r)
        /\ ~run[r].asked
    BY <1>0, <1>2, CallDoes DEF Call, InCall, Gated
  <2>1. CASE run'[r].pc = "invoke" /\ run'[r].asked = run[r].asked /\ UNCHANGED brokerVars
    BY <2>0, <2>1, UnaskingKeeps DEF Unasking, Waits
  <2>2. CASE /\ run'[r].pc = "waiting" /\ run'[r].asked = TRUE
             /\ Register([run |-> r, n |-> run'[r].asks, session |-> run'[r].sess,
                          tool |-> run'[r].tool])
    <3>1. /\ pending' = pending \cup {Request(r)'} /\ box' = [box EXCEPT ![r] = "empty"]
          /\ Request(r)'.run = r
      BY <2>2 DEF Register, Request
    <3>2. \A q \in pending : q.run # r
      BY <2>0 DEF BrokerInv, OneQuestion, Waits
    <3>3. OneQuestion'
      BY <1>0, <1>1, <2>0, <2>2, <3>1, <3>2 DEF BrokerInv, OneQuestion, Others, Waits, RestOK
    <3>4. Permitted'
      BY <1>0, <1>1, <2>0, <2>2, <3>1
      DEF BrokerInv, Permitted, Others, InCall, Invoked, Gated, RestOK
    <3> QED BY <2>0, <3>3, <3>4 DEF BrokerInv, BulkIsSafe
  <2> QED BY <1>0, <1>2, <2>1, <2>2, CallDoes
<1>3. CASE Decided(r)
  <2>0. /\ run[r].pc = "waiting" /\ box[r] \in Decisions /\ UNCHANGED <<bulk, granted, pending>>
        /\ box' = [box EXCEPT ![r] = "deaf"]
    BY <1>3 DEF Decided, Deafen
  <2>1. \A q \in pending : q.run # r
    BY <2>0 DEF BrokerInv, OneQuestion, Decisions
  <2>2. /\ Others(r) /\ run'[r].pc \in {"calls", "invoke"}
        /\ run'[r].asked => LetThrough(r)'
    <3>1. CASE box[r] \in {"accept", "edit"} /\ Goto(r, "invoke")
      <4>1. /\ Others(r) /\ run'[r].pc = "invoke" /\ run'[r].tool = run[r].tool
            /\ run'[r].asks = run[r].asks /\ run'[r].sess = run[r].sess
        BY <1>0, <3>1, GotoDoes DEF Loop, SameCall, Keeps
      <4> QED BY <2>0, <3>1, <4>1 DEF BrokerInv, Permitted, LetThrough, Request
    <3>2. CASE CallOver(r, 0)
      BY <1>0, <2>0, <3>2, CallOverDoes DEF ShapeOf, InCall
    <3> QED BY <1>3, <3>1, <3>2 DEF Decided
  <2>3. OneQuestion'
    BY <1>0, <1>1, <2>0, <2>1, <2>2 DEF BrokerInv, OneQuestion, Others, RestOK
  <2>4. Permitted'
    <3>1. run'[r].asked => run'[r].pc \in InCall
      BY <1>0, <1>3, GotoDoes, CallOverDoes DEF Decided, InCall, Loop, ShapeOf
    <3> QED BY <1>0, <1>1, <2>0, <2>2, <3>1 DEF BrokerInv, Permitted, Others, RestOK
  <2> QED BY <2>0, <2>3, <2>4 DEF BrokerInv, BulkIsSafe
<1>4. CASE Elapse(r)
  <2>1. /\ run[r].pc = "waiting" /\ UNCHANGED <<bulk, granted, pending, box>> /\ Others(r)
        /\ run'[r].pc = "elapsing" /\ run'[r].tool = run[r].tool
        /\ run'[r].asks = run[r].asks /\ run'[r].sess = run[r].sess
    BY <1>0, <1>4, GotoDoes DEF Elapse, Loop, SameCall, Keeps
  <2>2. Request(r)' = Request(r)
    BY <2>1 DEF Request
  <2>3. OneQuestion'
    BY <1>0, <1>1, <2>1, <2>2 DEF BrokerInv, OneQuestion, Others, Waits
  <2>4. Permitted'
    BY <1>0, <1>1, <2>1 DEF BrokerInv, Permitted, Others, InCall, Invoked, Gated
  <2> QED BY <2>1, <2>3, <2>4 DEF BrokerInv, BulkIsSafe
<1>5. CASE DropReceiver(r)
  <2>1. /\ run[r].pc = "elapsing" /\ UNCHANGED <<bulk, granted, pending, run>>
        /\ box' = [box EXCEPT ![r] = "deaf"]
    BY <1>5 DEF DropReceiver, Deafen
  <2>2. OneQuestion'
    BY <1>0, <2>1 DEF BrokerInv, OneQuestion, Request, RestOK
  <2>3. Permitted'
    BY <1>0, <2>1 DEF BrokerInv, Permitted, LetThrough, Request, RestOK
  <2> QED BY <2>1, <2>2, <2>3 DEF BrokerInv, BulkIsSafe
<1>6. CASE TimeoutDeny(r)
  <2>1. /\ run[r].pc = "elapsing" /\ UNCHANGED <<bulk, granted, box>> /\ Others(r)
        /\ pending' = {q \in pending : q.run # r} /\ run'[r].pc = "calls" /\ run'[r].asked = FALSE
    BY <1>0, <1>6, CallOverDoes DEF TimeoutDeny, Withdraw, ShapeOf, InCall
  <2>2. OneQuestion'
    BY <1>0, <1>1, <2>1 DEF BrokerInv, OneQuestion, Others
  <2>3. Permitted'
    BY <1>0, <1>1, <2>1 DEF BrokerInv, Permitted, Others
  <2> QED BY <2>1, <2>2, <2>3 DEF BrokerInv, BulkIsSafe
<1> QED BY <1>2, <1>3, <1>4, <1>5, <1>6

\* The user's word.
LEMMA AnswersKeep ==
  ASSUME Typed, BrokerInv, Aside
  PROVE  BrokerInv'
<1>0. /\ run \in [Runs -> RunStates] /\ RestOK /\ run' = run
      /\ \A q \in pending : q.run \in Runs
  <2>1. run' = run
    BY DEF Aside, Cancel, Pause, ExemptTool, SetAutoApprove, BulkDeliver, Decide, BulkAccept,
           BulkIgnore, runVars
  <2> QED BY <2>1, Split DEF Typed, RestOK, Requests
<1> USE DEF brokerVars, runVars, userVars, diskVars
<1>1. \A x \in Runs : Request(x)' = Request(x)
  BY <1>0 DEF Request
<1>2. ASSUME UNCHANGED <<pending, box, granted>>, \A q \in bulk' : q.tool \notin HighRisk
      PROVE  BrokerInv'
  BY <1>0, <1>1, <1>2 DEF BrokerInv, OneQuestion, Permitted, BulkIsSafe, LetThrough
<1>3. ASSUME NEW qs, NEW d \in Decisions, NEW how \in {"single", "bulk"},
             Deliver(qs, d), bulk' \subseteq bulk,
             granted \subseteq granted',
             d \in {"accept", "edit"} => \A q \in qs : <<q, how>> \in granted',
             how = "bulk" => \A q \in qs : q.tool \notin HighRisk
      PROVE  BrokerInv'
  <2>1. /\ pending' = pending \ qs
        /\ \A r \in Runs : box'[r] = IF box[r] # "deaf" /\ \E q \in qs \cap pending : q.run = r
                                     THEN d ELSE box[r]
    BY <1>3 DEF Deliver
  <2>2. OneQuestion'
    BY <1>0, <1>1, <2>1 DEF BrokerInv, OneQuestion
  <2>3. \A r \in Runs : LetThrough(r) => LetThrough(r)'
    BY <1>0, <1>1, <1>3 DEF LetThrough
  <2>4. ASSUME NEW r \in Runs, run[r].pc = "waiting", box'[r] \in {"accept", "edit"}
        PROVE  LetThrough(r)'
    <3>1. CASE box'[r] = box[r]
      BY <1>0, <2>3, <2>4, <3>1 DEF BrokerInv, Permitted
    <3>2. CASE box'[r] = d /\ \E q \in qs \cap pending : q.run = r
      <4>1. PICK q \in qs \cap pending : q.run = r
        BY <3>2
      <4>2. q = Request(r) /\ <<q, how>> \in granted' /\ q.tool = run[r].tool
        BY <1>3, <2>4, <3>2, <4>1 DEF BrokerInv, OneQuestion, Request
      <4> QED BY <1>0, <1>1, <1>3, <4>1, <4>2 DEF LetThrough
    <3> QED BY <2>1, <3>1, <3>2
  <2>5. Permitted'
    BY <1>0, <2>3, <2>4 DEF BrokerInv, Permitted
  <2>6. BulkIsSafe'
    BY <1>3 DEF BrokerInv, BulkIsSafe
  <2> QED BY <2>2, <2>5, <2>6 DEF BrokerInv
<1>4. ASSUME NEW s \in Sessions, Cancel(s) \/ Pause(s) \/ \E t \in Tools : ExemptTool(s, t)
      PROVE  BrokerInv'
  <2>1. UNCHANGED <<pending, box, granted, bulk>>
    BY <1>4 DEF Cancel, Pause, ExemptTool, Exempt
  <2> QED BY <1>2, <2>1 DEF BrokerInv, BulkIsSafe
<1>5. CASE SetAutoApprove
  BY <1>2, <1>5 DEF SetAutoApprove, BrokerInv, BulkIsSafe
<1>6. ASSUME NEW q \in pending, NEW d \in Decisions, Decide(q, d) PROVE BrokerInv'
  <2>1. /\ Deliver({q}, d) /\ bulk' = bulk /\ granted \subseteq granted'
        /\ d \in {"accept", "edit"} => \A z \in {q} : <<z, "single">> \in granted'
    BY <1>6 DEF Decide, Lets
  <2>2. "single" \in {"single", "bulk"} /\ "single" # "bulk"
    OBVIOUS
  <2> QED BY <1>3, <2>1, <2>2
<1>7. ASSUME NEW qs \in SUBSET pending, BulkAccept(qs) PROVE BrokerInv'
  <2>1. UNCHANGED <<pending, box, granted>> /\ bulk' = BulkSafe(qs)
    BY <1>7 DEF BulkAccept
  <2> QED BY <1>2, <2>1 DEF BulkSafe
<1>8. CASE BulkDeliver
  <2>1. /\ Deliver(bulk, "accept") /\ bulk' = {} /\ granted \subseteq granted'
        /\ \A q \in bulk : <<q, "bulk">> \in granted'
    BY <1>8 DEF BulkDeliver, Lets
  <2> QED BY <1>3, <2>1 DEF BrokerInv, BulkIsSafe, Decisions
<1>9. ASSUME NEW qs \in SUBSET pending, BulkIgnore(qs) PROVE BrokerInv'
  <2>1. /\ Deliver(qs, "ignore") /\ bulk' = bulk /\ granted' = granted
        /\ "ignore" \in {"accept", "edit"} => \A q \in qs : <<q, "single">> \in granted'
    BY <1>9 DEF BulkIgnore
  <2>2. "single" \in {"single", "bulk"} /\ "single" # "bulk" /\ "ignore" \in Decisions
    BY DEF Decisions
  <2> QED BY <1>3, <2>1, <2>2
<1> QED BY <1>4, <1>5, <1>6, <1>7, <1>8, <1>9 DEF Aside

\* BrokerInv is inductive.
LEMMA BrokerInductive ==
  ASSUME Typed, BrokerInv, [Next]_vars
  PROVE  BrokerInv'
<1>0. /\ run \in [Runs -> RunStates] /\ RestOK /\ \A r \in Runs : ShapeOf(run[r])
  BY Split DEF Typed
<1>1. ASSUME UNCHANGED vars PROVE BrokerInv'
  BY <1>1 DEF vars, BrokerInv, OneQuestion, Permitted, BulkIsSafe, LetThrough, Request
<1>2. ASSUME NEW r \in Runs, NEW s \in Sessions, Send(r, s) PROVE BrokerInv'
  <2>1. /\ run[r].pc = "unused" /\ Others(r) /\ run'[r].pc = "arming" /\ run'[r].asked = FALSE
        /\ UNCHANGED <<pending, box, bulk, granted>>
    BY <1>0, <1>2, SendDoes DEF Send, brokerVars, userVars
  <2> QED BY <2>1, UnaskingKeeps DEF Unasking, Waits
<1>3. ASSUME NEW r \in Runs, NEW o \in Runs, ResumeTask(r, o) PROVE BrokerInv'
  <2>1. run[o].sess \in Sessions /\ ckpt \in [Runs -> Nat]
    BY <1>0, <1>3 DEF ResumeTask, Resumable, Typed, ShapeOf, RestOK
  <2>2. /\ run[r].pc = "unused" /\ Others(r) /\ run'[r].pc = "marking" /\ run'[r].asked = FALSE
        /\ UNCHANGED <<pending, box, bulk, granted>>
    BY <1>0, <1>3, <2>1, ResumeDoes DEF ResumeTask, brokerVars, userVars
  <2> QED BY <2>2, UnaskingKeeps DEF Unasking, Waits
<1>4. CASE Crash
  <2>1. /\ \A r \in Runs :
             \/ ~Live(r) /\ run'[r] = run[r]
             \/ Live(r) /\ run'[r].pc = "lost" /\ run'[r].asked = FALSE
    BY <1>0, <1>4, CrashDoes
  <2>2. pending' = {} /\ bulk' = {}
    BY <1>4 DEF Crash, BrokerLost
  <2>3. \A r \in Runs : ~run'[r].asked /\ run'[r].pc \notin InCall
    BY <2>1 DEF BrokerInv, Permitted, Live, InCall, Gated
  <2> QED BY <2>2, <2>3 DEF BrokerInv, OneQuestion, Permitted, BulkIsSafe, InCall, Invoked
<1>5. ASSUME NEW r \in Runs, RunStep(r) PROVE BrokerInv'
  BY <1>5, RunStepAsks, UnaskingKeeps, QuestionKeeps
<1> QED BY <1>1, <1>2, <1>3, <1>4, <1>5, NextIs, AnswersKeep DEF Starts

\* Nobody was asked in the initial state.
LEMMA BrokerStart == Init => BrokerInv
  BY DEF Init, BrokerInit, BrokerInv, OneQuestion, Permitted, BulkIsSafe, Idle

\* A call that was put to the user runs only if the user let that request through, and a
\* high-risk one only if one by one (approval.rs, decide_approval and its batch form), for
\* every interleaving of timeouts, late answers and bulk acceptances.
THEOREM NothingUnapproved == Spec => []ApprovedByHuman
<1>1. BrokerInv => ApprovedByHuman
  BY DEF BrokerInv, Permitted, ApprovedByHuman, LetThrough, Invoked, Gated
<1> QED BY <1>1, TypedStart, TypedStep, BrokerStart, BrokerInductive, PTL DEF Spec

\* k is among what is left to do
Has(q, k) == \E i \in 1..Len(q) : q[i] = k

\* What is in a short list.
LEMMA Among ==
  /\ \A k : ~Has(<<>>, k)
  /\ \A a, k : Has(<<a>>, k) <=> k \in {a}
  /\ \A a, b, k : Has(<<a, b>>, k) <=> k \in {a, b}
  /\ \A a, b, c, k : Has(<<a, b, c>>, k) <=> k \in {a, b, c}
  /\ \A a, b, c, d, k : Has(<<a, b, c, d>>, k) <=> k \in {a, b, c, d}
  /\ \A a, b, c, d, e, k : Has(<<a, b, c, d, e>>, k) <=> k \in {a, b, c, d, e}
  BY DEF Has

\* The row is written before the senders are set, and the cancel sender before the pause
\* sender; nothing is done twice.
LEMMA ArmingsOrder ==
  ASSUME NEW q \in Armings
  PROVE  /\ \A k : Has(q, k) <=> k = Head(q) \/ Has(Tail(q), k)
         /\ ~Has(Tail(q), Head(q))
         /\ Has(q, "begin") => Has(q, "cancel")
         /\ Has(q, "cancel") => Has(q, "pause")
<1>1. CASE q = <<"begin", "cancel", "pause", "steer">>
  BY <1>1, Cut, Among DEF Armings
<1>2. CASE q = <<"cancel", "pause", "steer">>
  BY <1>2, Cut, Among DEF Armings
<1>3. CASE q = <<"pause", "steer">>
  BY <1>3, Cut, Among DEF Armings
<1>4. CASE q = <<"steer">>
  BY <1>4, Cut, Among DEF Armings
<1> QED
  BY <1>1, <1>2, <1>3, <1>4 DEF Armings

\* On every way out the cancel sender goes before the pause sender, and nothing is done
\* twice.
LEMMA ExitsOrder ==
  ASSUME NEW q \in Exits
  PROVE  /\ \A k : Has(q, k) <=> k = Head(q) \/ Has(Tail(q), k)
         /\ ~Has(Tail(q), Head(q))
         /\ Has(q, "cancel") => Has(q, "pause")
<1>1. CASE q = <<"cancel", "pause", "steer", "finish", "release">>
  BY <1>1, Cut, Among DEF Exits
<1>2. CASE q = <<"pause", "steer", "finish", "release">>
  BY <1>2, Cut, Among DEF Exits
<1>3. CASE q = <<"steer", "finish", "release">>
  BY <1>3, Cut, Among DEF Exits
<1>4. CASE q = <<"finish", "release">>
  BY <1>4, Cut, Among DEF Exits
<1>5. CASE q = <<"release">>
  BY <1>5, Cut, Among DEF Exits
<1>6. CASE q = <<"finish", "cancel", "pause", "steer">>
  BY <1>6, Cut, Among DEF Exits
<1>7. CASE q = <<"cancel", "pause", "steer">>
  BY <1>7, Cut, Among DEF Exits
<1>8. CASE q = <<"pause", "steer">>
  BY <1>8, Cut, Among DEF Exits
<1>9. CASE q = <<"steer">>
  BY <1>9, Cut, Among DEF Exits
<1>10. CASE q = <<"finish", "release", "cancel", "pause", "steer">>
  BY <1>10, Cut, Among DEF Exits
<1>11. CASE q = <<"release", "cancel", "pause", "steer">>
  BY <1>11, Cut, Among DEF Exits
<1> QED
  BY <1>1, <1>2, <1>3, <1>4, <1>5, <1>6, <1>7, <1>8, <1>9, <1>10, <1>11 DEF Exits

\* Every way out takes all three senders away and writes the row; the loop is only left by
\* one that opens the gate as well.
LEMMA WaysOut ==
  /\ \A k \in Tokens : Has(Leaving, k) /\ Has(Panicked, k) /\ Has(LoadFailed, k)
  /\ Has(Leaving, "finish") /\ Has(Panicked, "finish") /\ Has(LoadFailed, "finish")
  /\ Has(Leaving, "release") /\ Has(Panicked, "release")
  /\ \A k \in Tokens \cup {"begin"} : Has(Arming, k)
  BY Among DEF Leaving, Panicked, LoadFailed, Tokens, Arming

-----------------------------------------------------------------------------
\* a step of run r inside its loop, which keeps its row and its senders and
\* opens the gate for nobody else
Inner(r) ==
  /\ Others(r) /\ Keeps(r) /\ UNCHANGED <<row, token, cancelled>>
  /\ run[r].pc \in Inside /\ run'[r].pc \in Inside \ {"loading"}
  /\ run[r].pc \in Loop => run'[r].pc \in Loop
  /\ \A f \in Files : held'[f] \in {held[f], NoRun} \/ (held'[f] = r /\ run'[r].pc \in Loop)
Quits(r) ==
  /\ Others(r) /\ Keeps(r) /\ UNCHANGED <<row, token, cancelled, held>>
  /\ run[r].pc \in Inside /\ run'[r].pc = "leaving"
  /\ \/ run'[r].todo \in {Leaving, Panicked}
     \/ run[r].pc = "loading" /\ run'[r].todo = LoadFailed

\* What a step of a run can be, as its senders, its files and its row see it.
LEMMA RunStepKinds ==
  ASSUME Typed, NEW r \in Runs, RunStep(r)
  PROVE  SpawnResumed(r) \/ Arm(r) \/ ExitStep(r) \/ Inner(r) \/ Quits(r)
<1>0. /\ run \in [Runs -> RunStates] /\ RestOK /\ ShapeOf(run[r])
      /\ held \in [Files -> Runs \cup {NoRun}] /\ file \in [Files -> Runs \cup {NoRun}]
  BY Split DEF Typed, RestOK
<1> USE DEF runVars, userVars, diskVars
<1>1. ASSUME LoopStep(r) PROVE Inner(r) \/ Quits(r)
  <2>1. /\ run[r].pc \in {"loading", "proposed", "top", "llm"}
        /\ UNCHANGED <<held, row, token, cancelled>>
    BY <1>1, LoopStepDoes
  <2>2. ASSUME Stops(r) PROVE Quits(r)
    <3>1. /\ Others(r) /\ Keeps(r) /\ run'[r].pc = "leaving"
          /\ \/ run'[r].todo \in {Leaving, Panicked}
             \/ run[r].pc = "loading" /\ run'[r].todo = LoadFailed
      BY <1>0, <2>2, StopsDoes
    <3>2. run[r].pc \in Inside
      BY <2>1 DEF Inside, Loop
    <3> QED BY <2>1, <3>1, <3>2 DEF Quits
  <2>3. ASSUME NEW pc \in {"top", "llm"}, Goto(r, pc) PROVE Inner(r)
    <3>1. Others(r) /\ Keeps(r) /\ run'[r].pc = pc
      BY <1>0, <2>3, GotoDoes DEF Loop
    <3> QED BY <2>1, <3>1 DEF Inner, Inside, Loop
  <2>4. ASSUME Goto(r, "proposed"), ~(run[r].pc \in Loop) PROVE Inner(r)
    <3>0. "proposed" \in Loop \cup {"proposed"}
      OBVIOUS
    <3>1. Others(r) /\ Keeps(r) /\ run'[r].pc = "proposed"
      BY <1>0, <2>4, <3>0, GotoDoes
    <3> QED BY <2>1, <2>4, <3>1 DEF Inner, Inside, Loop
  <2>5. ASSUME run[r].pc \in Loop PROVE Stops(r) \/ Goto(r, "top") \/ Goto(r, "llm")
    <3>1. Iterate(r) \/ LlmEnds(r) \/ Panic(r)
      BY <1>1, <2>5 DEF LoopStep, Load, ProposalDecided, Loop
    <3>2. CASE Iterate(r)
      BY <3>2, Zenon DEF Iterate, Stops, Reasons
    <3>3. CASE LlmEnds(r)
      <4>1. Endings \subseteq Reasons
        BY EndingsAssumption DEF Reasons
      <4> QED BY <3>3, <4>1, Zenon DEF LlmEnds, Stops, Reasons
    <3>4. CASE Panic(r)
      BY <3>4, Zenon DEF Panic, Stops, Reasons
    <3> QED BY <3>1, <3>2, <3>3, <3>4
  <2> QED BY <1>1, <2>2, <2>3, <2>4, <2>5, LoopStepDoes
<1>2. ASSUME LlmCalls(r) PROVE Inner(r)
  <2>1. auto \in BOOLEAN /\ run[r].pc = "llm" /\ UNCHANGED <<held, row, token, cancelled>>
    BY <1>0, <1>2 DEF RestOK, LlmCalls
  <2> QED BY <1>0, <1>2, <2>1, LlmCallsDoes DEF Inner, Inside, Loop
<1>3. ASSUME RoundOver(r) PROVE Inner(r) \/ Quits(r)
  <2>1. run[r].pc = "calls" /\ UNCHANGED <<held, row, token, cancelled>>
    BY <1>3 DEF RoundOver
  <2>2. ASSUME Leave(r, Leaving, "tool_error") PROVE Quits(r)
    <3>1. "tool_error" \in Reasons /\ Leaving \in Exits
      BY TodoSeqs DEF Reasons
    <3>2. Others(r) /\ Keeps(r) /\ run'[r].pc = "leaving" /\ run'[r].todo = Leaving
      BY <1>0, <2>2, <3>1, LeaveDoes
    <3> QED BY <2>1, <3>2 DEF Quits, Inside, Loop
  <2>3. ASSUME Others(r), Keeps(r), run'[r].pc = "top" PROVE Inner(r)
    BY <2>1, <2>3 DEF Inner, Inside, Loop
  <2> QED BY <1>0, <1>3, <2>2, <2>3, RoundOverDoes
<1>4. ASSUME Call(r) PROVE Inner(r)
  <2>1. run[r].pc = "calls" /\ UNCHANGED <<held, row, token, cancelled>>
    BY <1>4 DEF Call
  <2>2. Others(r) /\ Keeps(r) /\ run'[r].pc \in {"invoke", "waiting"}
    BY <1>0, <1>4, CallDoes
  <2> QED BY <2>1, <2>2 DEF Inner, Inside, Loop
\* the steps of a call
<1>5. ASSUME run[r].pc \in InCall, Others(r), Keeps(r), run'[r].pc \in InCall \cup {"calls"},
             UNCHANGED <<row, token, cancelled>>,
             \A f \in Files : held'[f] \in {held[f], NoRun, r}
      PROVE  Inner(r)
  BY <1>5 DEF Inner, Inside, Loop, InCall, Gated
<1>6. ASSUME run[r].pc \in InCall, NEW bad \in {0, 1}, CallOver(r, bad)
      PROVE  Others(r) /\ Keeps(r) /\ run'[r].pc = "calls"
  BY <1>0, <1>6, CallOverDoes DEF ShapeOf
<1>7. ASSUME NEW pc \in InCall, Goto(r, pc)
      PROVE  Others(r) /\ Keeps(r) /\ run'[r].pc = pc
  BY <1>0, <1>7, GotoDoes DEF InCall, Gated, Loop
<1> USE DEF InCall, Gated
<1>8. ASSUME Decided(r) PROVE Inner(r)
  BY <1>5, <1>6, <1>7, <1>8 DEF Decided
<1>9. ASSUME Elapse(r) PROVE Inner(r)
  BY <1>5, <1>7, <1>9 DEF Elapse
<1>10. ASSUME DropReceiver(r) PROVE Inner(r)
  <2>1. Others(r) /\ Keeps(r) /\ run'[r].pc = "elapsing"
    BY <1>10 DEF DropReceiver, Others, Keeps
  <2> QED BY <1>5, <1>10, <2>1 DEF DropReceiver
<1>11. ASSUME TimeoutDeny(r) PROVE Inner(r)
  BY <1>5, <1>6, <1>11 DEF TimeoutDeny
<1>12. ASSUME Invoke(r) PROVE Inner(r)
  BY <1>5, <1>6, <1>12 DEF Invoke
<1>13. ASSUME WriteFile(r) PROVE Inner(r)
  <2>1. CASE CallOver(r, 1)
    BY <1>0, <1>5, <1>6, <1>13, <2>1 DEF WriteFile, BeginWrite
  <2>2. CASE ~CallOver(r, 1)
    <3>1. Others(r) /\ Keeps(r) /\ run'[r].pc = "writing"
      BY <1>0, <1>13, <2>2, ReadDoes
    <3> QED BY <1>0, <1>5, <1>13, <3>1 DEF WriteFile, BeginWrite
  <2> QED BY <2>1, <2>2
<1>14. ASSUME NoDirectory(r) PROVE Inner(r)
  BY <1>5, <1>6, <1>14 DEF NoDirectory
<1>15. ASSUME WriteFails(r) PROVE Inner(r)
  BY <1>5, <1>6, <1>15 DEF WriteFails, ReleaseRun
<1>16. ASSUME WriteTorn(r) PROVE Inner(r)
  BY <1>5, <1>6, <1>16 DEF WriteTorn, ReleaseRun
<1>17. ASSUME Written(r) PROVE Inner(r)
  BY <1>5, <1>7, <1>17 DEF Written
<1>18. ASSUME Record(r) PROVE Inner(r)
  BY <1>5, <1>7, <1>18 DEF Record
<1>19. ASSUME LetGo(r) PROVE Inner(r)
  BY <1>0, <1>5, <1>6, <1>19 DEF LetGo, EndWrite
<1> QED
  BY <1>1, <1>2, <1>3, <1>4, <1>8, <1>9, <1>10, <1>11, <1>12, <1>13, <1>14, <1>15, <1>16,
     <1>17, <1>18, <1>19 DEF RunStep, LoopStep

-----------------------------------------------------------------------------
(* What a run owns. *)

Owes(r, k) ==
  \/ run[r].pc \in Inside
  \/ run[r].pc = "arming" /\ ~Has(run[r].todo, k)
  \/ run[r].pc = "leaving" /\ Has(run[r].todo, k)
\* a sender belongs to a run of its session that is yet to take it away, a held
\* file to a run that is yet to release it
Owed ==
  \A r \in Runs :
    /\ \A s \in Sessions, k \in Tokens : token[s][k] = r => run[r].sess = s /\ Owes(r, k)
    /\ \A f \in Files : held[f] = r =>
         run[r].pc \in Loop \/ (run[r].pc = "leaving" /\ Has(run[r].todo, "release"))

\* Owed is inductive: whatever a run has taken is still on its list.
LEMMA OwedInductive ==
  ASSUME Typed, Owed, [Next]_vars
  PROVE  Owed'
<1>0. /\ run \in [Runs -> RunStates] /\ RestOK /\ \A r \in Runs : ShapeOf(run[r])
      /\ held \in [Files -> Runs \cup {NoRun}]
      /\ token \in [Sessions -> [Tokens -> Runs \cup {NoRun}]]
  BY Split DEF Typed, RestOK
<1>1. ASSUME run' = run, held' = held,
             \A s \in Sessions, k \in Tokens : token'[s][k] \in {token[s][k], NoRun}
      PROVE  Owed'
  BY <1>0, <1>1, NoRunAssumption DEF Owed, Owes
<1>2. CASE UNCHANGED vars
  BY <1>1, <1>2 DEF vars
<1>3. CASE Aside
  <2>1. run' = run /\ held' = held
    BY <1>3 DEF Aside, Cancel, Pause, ExemptTool, SetAutoApprove, BulkDeliver, Decide, BulkAccept,
                BulkIgnore, runVars
  <2>2. \A s \in Sessions, k \in Tokens : token'[s][k] \in {token[s][k], NoRun}
    <3>1. ASSUME NEW u \in Sessions, Cancel(u)
          PROVE  \A s \in Sessions, k \in Tokens : token'[s][k] \in {token[s][k], NoRun}
      BY <1>0, <3>1 DEF Cancel, Tokens
    <3>2. token' = token \/ \E u \in Sessions : Cancel(u)
      BY <1>3 DEF Aside, Pause, ExemptTool, SetAutoApprove, BulkDeliver, Decide,
                  BulkAccept, BulkIgnore
    <3> QED BY <3>1, <3>2
  <2> QED BY <1>1, <2>1, <2>2
\* a run that starts owns nothing, since it owed nothing
<1>4. ASSUME NEW r \in Runs, Others(r), run[r].pc = "unused", UNCHANGED <<token, held>>
      PROVE  Owed'
  BY <1>4 DEF Owed, Owes, Others, Inside, Loop
<1>5. CASE Starts
  <2>1. ASSUME NEW r \in Runs, NEW s \in Sessions, Send(r, s) PROVE Owed'
    BY <1>0, <1>4, <2>1, SendDoes DEF Send
  <2>2. ASSUME NEW r \in Runs, NEW o \in Runs, ResumeTask(r, o) PROVE Owed'
    <3>1. run[o].sess \in Sessions /\ ckpt \in [Runs -> Nat]
      BY <1>0, <2>2 DEF ResumeTask, Resumable, Typed, ShapeOf, RestOK
    <3> QED BY <1>0, <1>4, <2>2, <3>1, ResumeDoes DEF ResumeTask
  <2> QED BY <1>5, <2>1, <2>2 DEF Starts
<1>6. CASE Crash
  <2>1. \A f \in Files : held'[f] = NoRun
    BY <1>6 DEF Crash, GateLost
  <2>2. \A s \in Sessions, k \in Tokens : token'[s][k] = NoRun
    BY <1>6 DEF Crash
  <2> QED BY <2>1, <2>2, NoRunAssumption DEF Owed
<1>7. ASSUME NEW r \in Runs, SpawnResumed(r) PROVE Owed'
  <2>1. /\ Others(r) /\ run[r].pc = "marking" /\ UNCHANGED <<token, held>>
    BY <1>0, <1>7, SpawnDoes DEF SpawnResumed
  <2> QED BY <2>1 DEF Owed, Owes, Others, Inside, Loop
<1>8. ASSUME NEW r \in Runs, Arm(r) PROVE Owed'
  <2> DEFINE q == run[r].todo
             s == run[r].sess
             k == Head(q)
  <2>1. q \in Armings /\ s \in Sessions /\ run[r].pc = "arming" /\ held' = held
    BY <1>0, <1>8 DEF Arm, ShapeOf
  <2>2. /\ Others(r) /\ Keeps(r) /\ run'[r].todo = Tail(q)
        /\ run'[r].pc = IF Tail(q) = <<>> THEN "loading" ELSE "arming"
    BY <1>0, <1>8, <2>1, ArmDoes
  <2>3. /\ k = "begin" => token' = token
        /\ k # "begin" => k \in Tokens /\ token' = [token EXCEPT ![s][k] = r]
    BY <1>8, <2>1, ArmingsShrink DEF Arm
  <2>4. \A t \in Tokens : Owes(r, t)' <=> Owes(r, t) \/ t = k
    <3>1. \A t \in Tokens : Has(q, t) <=> t = k \/ Has(Tail(q), t)
      BY <2>1, ArmingsOrder
    <3>2. ~Has(Tail(q), k)
      BY <2>1, ArmingsOrder
    <3>3. \A t \in Tokens : Owes(r, t) <=> ~Has(q, t)
      BY <2>1 DEF Owes, Inside, Loop
    <3>4. \A t \in Tokens : Owes(r, t)' <=> ~Has(Tail(q), t)
      <4>1. CASE Tail(q) = <<>>
        <5>1. run'[r].pc = "loading"
          BY <2>2, <4>1
        <5>2. \A t \in Tokens : Owes(r, t)'
          BY <5>1 DEF Owes, Inside
        <5>3. \A t : ~Has(<<>>, t)
          BY Among
        <5>4. \A t \in Tokens : ~Has(Tail(q), t)
          BY <4>1, <5>3, Zenon
        <5> QED BY <5>2, <5>4
      <4>2. CASE Tail(q) # <<>>
        BY <2>2, <4>2 DEF Owes, Inside, Loop
      <4> QED BY <4>1, <4>2
    <3> QED BY <3>1, <3>2, <3>3, <3>4
  <2>5. \A x \in Runs \ {r} : run'[x] = run[x]
    BY <2>2 DEF Others
  <2>6. ASSUME NEW x \in Runs, NEW u \in Sessions, NEW t \in Tokens, token'[u][t] = x
        PROVE  run'[x].sess = u /\ Owes(x, t)'
    <3>1. CASE token[u][t] = x
      <4>1. run[x].sess = u /\ Owes(x, t)
        BY <3>1 DEF Owed
      <4>2. CASE x = r
        BY <2>2, <2>4, <4>1, <4>2 DEF Keeps
      <4>3. CASE x # r
        BY <2>5, <4>1, <4>3 DEF Owes
      <4> QED BY <4>2, <4>3
    <3>2. CASE token[u][t] # x
      <4>1. x = r /\ u = s /\ t = k
        BY <1>0, <2>1, <2>3, <2>6, <3>2
      <4> QED BY <2>2, <2>4, <4>1 DEF Keeps
    <3> QED BY <3>1, <3>2
  <2>7. ASSUME NEW x \in Runs, NEW f \in Files, held'[f] = x
        PROVE  run'[x].pc \in Loop \/ (run'[x].pc = "leaving" /\ Has(run'[x].todo, "release"))
    BY <2>1, <2>5, <2>7 DEF Owed, Loop
  <2> QED BY <2>6, <2>7 DEF Owed
<1>9. ASSUME NEW r \in Runs, ExitStep(r) PROVE Owed'
  <2> DEFINE q == run[r].todo
             s == run[r].sess
             k == Head(q)
  <2>1. q \in Exits /\ s \in Sessions /\ run[r].pc = "leaving"
    BY <1>0, <1>9 DEF ExitStep, ShapeOf
  <2>2. /\ Others(r) /\ Keeps(r)
        /\ \/ Tail(q) = <<>> /\ run'[r].pc = "done"
           \/ Tail(q) # <<>> /\ run'[r].pc = "leaving" /\ run'[r].todo = Tail(q)
    BY <1>0, <1>9, <2>1, ExitDoes
  <2>3. /\ k \in Tokens => token' = [token EXCEPT ![s][k] = NoRun]
        /\ k \notin Tokens => token' = token
        /\ k = "release" => held' = [f \in Files |-> IF held[f] = r THEN NoRun ELSE held[f]]
        /\ k # "release" => held' = held
    BY <1>9 DEF ExitStep, ReleaseRun
  <2>4. \A t : Has(q, t) /\ t # k => run'[r].pc = "leaving" /\ Has(run'[r].todo, t)
    <3>1. \A t : Has(q, t) <=> t = k \/ Has(Tail(q), t)
      BY <2>1, ExitsOrder
    <3>2. \A t : ~Has(<<>>, t)
      BY Among
    <3> QED BY <2>2, <3>1, <3>2
  <2>5. \A x \in Runs \ {r} : run'[x] = run[x]
    BY <2>2 DEF Others
  <2>6. ASSUME NEW x \in Runs, NEW u \in Sessions, NEW t \in Tokens, token'[u][t] = x
        PROVE  run'[x].sess = u /\ Owes(x, t)'
    <3>1. token[u][t] = x /\ ~(u = s /\ t = k)
      BY <1>0, <2>1, <2>3, <2>6, NoRunAssumption
    <3>2. CASE x # r
      BY <2>5, <3>1, <3>2 DEF Owed, Owes
    <3>3. CASE x = r
      <4>1. u = s /\ Has(q, t)
        BY <2>1, <3>1, <3>3 DEF Owed, Owes, Inside, Loop
      <4> QED BY <2>2, <2>4, <3>1, <3>3, <4>1 DEF Owes, Keeps
    <3> QED BY <3>2, <3>3
  <2>7. ASSUME NEW x \in Runs, NEW f \in Files, held'[f] = x
        PROVE  run'[x].pc \in Loop \/ (run'[x].pc = "leaving" /\ Has(run'[x].todo, "release"))
    <3>1. held[f] = x /\ (x = r => k # "release")
      BY <1>0, <2>3, <2>7, NoRunAssumption
    <3> QED BY <2>1, <2>4, <2>5, <3>1 DEF Owed, Loop
  <2> QED BY <2>6, <2>7 DEF Owed
<1>10. ASSUME NEW r \in Runs, Inner(r) PROVE Owed'
  <2>1. /\ \A x \in Runs \ {r} : run'[x] = run[x]
        /\ run'[r].sess = run[r].sess /\ token' = token
        /\ run[r].pc \in Inside /\ run'[r].pc \in Inside
        /\ run[r].pc \in Loop => run'[r].pc \in Loop
        /\ \A f \in Files :
             held'[f] \in {held[f], NoRun} \/ (held'[f] = r /\ run'[r].pc \in Loop)
    BY <1>10 DEF Inner, Others, Keeps
  <2>2. ASSUME NEW x \in Runs, NEW u \in Sessions, NEW t \in Tokens, token'[u][t] = x
        PROVE  run'[x].sess = u /\ Owes(x, t)'
    BY <2>1, <2>2 DEF Owed, Owes
  <2>3. ASSUME NEW x \in Runs, NEW f \in Files, held'[f] = x
        PROVE  run'[x].pc \in Loop \/ (run'[x].pc = "leaving" /\ Has(run'[x].todo, "release"))
    <3>1. CASE x = r
      <4>1. run[r].pc # "leaving"
        BY <2>1 DEF Inside, Loop
      <4> QED BY <2>1, <2>3, <3>1, <4>1, NoRunAssumption DEF Owed
    <3>2. CASE x # r
      BY <2>1, <2>3, <3>2, NoRunAssumption DEF Owed
    <3> QED BY <3>1, <3>2
  <2> QED BY <2>2, <2>3 DEF Owed
<1>11. ASSUME NEW r \in Runs, Quits(r) PROVE Owed'
  <2>1. /\ \A t \in Tokens : Has(run'[r].todo, t)
        /\ run[r].pc \in Loop => Has(run'[r].todo, "release")
    BY <1>11, WaysOut DEF Quits, Loop
  <2> QED BY <1>11, <2>1 DEF Quits, Owed, Owes, Others, Keeps, Inside, Loop
<1> QED
  BY <1>2, <1>3, <1>5, <1>6, <1>7, <1>8, <1>9, <1>10, <1>11, NextIs, RunStepKinds

\* Nobody owns anything in the initial state.
LEMMA OwedStart == Init => Owed
  BY NoRunAssumption DEF Init, GateInit, Owed

\* A run that is over holds no file, waits for no approval and owns no sender of its session,
\* on every way out of run(), run_guarded included.
THEOREM RunsCleanUp == Spec => []FinishedRunsLeaveNothing
<1>1. ASSUME Typed, BrokerInv, Owed, NEW r \in Runs, run[r].pc = "done"
      PROVE  /\ \A f \in Files : held[f] # r
             /\ \A q \in pending : q.run # r
             /\ \A s \in Sessions, k \in Tokens : token[s][k] # r
  <2>1. \A f \in Files : held[f] # r
    BY <1>1 DEF Owed, Loop
  <2>2. \A q \in pending : q.run # r
    BY <1>1 DEF Typed, TypeOK, Requests, BrokerInv, OneQuestion, Waits
  <2>3. \A s \in Sessions, k \in Tokens : token[s][k] # r
    BY <1>1 DEF Owed, Owes, Inside, Loop
  <2> QED BY <2>1, <2>2, <2>3
<1>2. Typed /\ BrokerInv /\ Owed => FinishedRunsLeaveNothing
  BY <1>1 DEF FinishedRunsLeaveNothing
<1> QED
  BY <1>2, TypedStart, TypedStep, BrokerStart, BrokerInductive, OwedStart, OwedInductive, PTL
  DEF Spec

-----------------------------------------------------------------------------
(* Rows. *)

\* r has written its last row, or died before it could
Settled(r) ==
  \/ run[r].pc \in {"done", "lost"}
  \/ run[r].pc = "leaving" /\ ~Has(run[r].todo, "finish")
RowSettled(r) ==
  /\ row[r] = "running" => Live(r) /\ ~Settled(r)
  /\ run[r].pc \in {"unused", "marking"} => row[r] = "none"
  /\ run[r].pc = "arming" /\ Has(run[r].todo, "begin") => row[r] = "none"
  /\ row[r] \in Resumable \cup {"superseded"} => Settled(r)
RowsSettle == \A r \in Runs : RowSettled(r)

\* everything the rows depend on stays as it is
SameRow(r) == run'[r] = run[r] /\ row'[r] = row[r]

\* A run whose row and record stay stays settled or not.
LEMMA SameRowKeeps ==
  ASSUME NEW r \in Runs, SameRow(r), RowSettled(r)
  PROVE  RowSettled(r)'
  BY DEF SameRow, RowSettled, Settled, Live

\* What a step of a run does to the rows.
LEMMA RowStep ==
  ASSUME Typed, NEW r \in Runs, RowSettled(r), Arm(r) \/ ExitStep(r) \/ Inner(r) \/ Quits(r)
  PROVE  /\ RowSettled(r)'
         /\ \A x \in Runs \ {r} : SameRow(x)
         /\ Keeps(r) /\ run[r].pc \notin {"unused", "marking", "done", "lost"}
         /\ run'[r].pc \notin {"unused", "marking", "lost"}
         /\ row[r] \in Resumable \cup {"superseded"} => row'[r] = row[r]
<1>0. /\ run \in [Runs -> RunStates] /\ RestOK /\ ShapeOf(run[r])
      /\ row \in [Runs -> Statuses]
  BY Split DEF Typed, RestOK
<1> USE DEF RowSettled, Settled, Live, SameRow, Resumable
<1> DEFINE q == run[r].todo
           k == Head(q)
<1>1. CASE Arm(r)
  <2>1. q \in Armings /\ run[r].pc = "arming"
    BY <1>0, <1>1 DEF Arm, ShapeOf
  <2>2. /\ Others(r) /\ Keeps(r) /\ run'[r].pc \in {"arming", "loading"}
        /\ run'[r].todo = Tail(q)
    BY <1>0, <1>1, <2>1, ArmDoes
  <2>3. row' = IF k = "begin" THEN [row EXCEPT ![r] = "running"] ELSE row
    BY <1>1 DEF Arm
  <2>4. /\ Has(Tail(q), "begin") => Has(q, "begin")
        /\ k = "begin" => ~Has(Tail(q), "begin")
    BY <2>1, ArmingsOrder
  <2>5. row[r] \notin Resumable \cup {"superseded"}
    BY <2>1
  <2>6. row'[r] \in {row[r], "running"} /\ \A x \in Runs \ {r} : row'[x] = row[x]
    BY <1>0, <2>3
  <2>7. run'[r].pc = "arming" /\ Has(run'[r].todo, "begin") => row'[r] = "none"
    BY <2>1, <2>2, <2>3, <2>4
  <2> QED BY <2>1, <2>2, <2>5, <2>6, <2>7 DEF Others
<1>2. CASE ExitStep(r)
  <2>1. q \in Exits /\ run[r].sess \in Sessions /\ run[r].pc = "leaving"
    BY <1>0, <1>2 DEF ExitStep, ShapeOf
  <2>2. /\ Others(r) /\ Keeps(r)
        /\ \/ Tail(q) = <<>> /\ run'[r].pc = "done"
           \/ Tail(q) # <<>> /\ run'[r].pc = "leaving" /\ run'[r].todo = Tail(q)
    BY <1>0, <1>2, <2>1, ExitDoes
  <2>3. row' = IF k = "finish" THEN [row EXCEPT ![r] = StatusOf(run[r].why)] ELSE row
    BY <1>2 DEF ExitStep
  <2>4. StatusOf(run[r].why) \in {"ok", "timeout", "cancelled", "paused", "failed"}
    BY DEF StatusOf
  <2>5. \A t : Has(q, t) <=> t = k \/ Has(Tail(q), t)
    BY <2>1, ExitsOrder
  <2>6. ~Has(Tail(q), k)
    BY <2>1, ExitsOrder
  <2>7. \A x \in Runs \ {r} : SameRow(x)
    BY <1>0, <2>2, <2>3 DEF Others
  <2>8. CASE k = "finish"
    <3>1. row'[r] \in {"ok", "timeout", "cancelled", "paused", "failed"}
      BY <1>0, <2>3, <2>4, <2>8
    <3>2. Settled(r)'
      BY <2>2, <2>6, <2>8
    <3>3. ~Settled(r)
      BY <2>1, <2>5, <2>8
    <3> QED BY <2>1, <2>2, <2>7, <3>1, <3>2, <3>3
  <2>9. CASE k # "finish"
    <3>1. row'[r] = row[r]
      BY <2>3, <2>9
    <3>2. \A t : ~Has(<<>>, t)
      BY Among
    <3>3. Settled(r)' <=> Settled(r)
      <4>1. Settled(r) <=> ~Has(Tail(q), "finish")
        BY <2>1, <2>5, <2>9
      <4>2. CASE Tail(q) = <<>>
        <5>1. ~Has(Tail(q), "finish")
          BY <3>2, <4>2, Zenon
        <5> QED BY <2>2, <4>1, <4>2, <5>1
      <4>3. CASE Tail(q) # <<>>
        BY <2>2, <4>1, <4>3
      <4> QED BY <4>2, <4>3
    <3>4. row[r] = "running" => Live(r)'
      <4>1. ASSUME row[r] = "running" PROVE Tail(q) # <<>>
        <5>1. Has(Tail(q), "finish")
          BY <2>1, <2>5, <2>9, <4>1
        <5> QED BY <3>2, <5>1, Zenon
      <4> QED BY <2>2, <4>1
    <3> QED BY <2>1, <2>2, <2>7, <3>1, <3>3, <3>4
  <2> QED BY <2>8, <2>9
<1>3. CASE Inner(r)
  <2>1. /\ \A x \in Runs \ {r} : SameRow(x)
        /\ run[r].pc \in Inside /\ run'[r].pc \in Inside /\ row' = row /\ Keeps(r)
    BY <1>3 DEF Inner, Others
  <2> QED BY <2>1 DEF Inside, Loop
<1>4. CASE Quits(r)
  <2>1. /\ \A x \in Runs \ {r} : SameRow(x)
        /\ run[r].pc \in Inside /\ run'[r].pc = "leaving" /\ row' = row /\ Keeps(r)
    BY <1>4 DEF Quits, Others
  <2>2. Has(run'[r].todo, "finish")
    BY <1>4, WaysOut DEF Quits
  <2> QED BY <2>1, <2>2 DEF Inside, Loop
<1> QED BY <1>1, <1>2, <1>3, <1>4

\* A resumption marks the row it continues, and no other.
LEMMA SpawnRows ==
  ASSUME Typed, RowsSettle, NEW r \in Runs, SpawnResumed(r)
  PROVE  /\ RowsSettle'
         /\ Others(r) /\ Keeps(r) /\ run[r].pc = "marking" /\ run'[r].pc = "arming"
         /\ \A x \in Runs :
              row'[x] = IF x = run[r].from /\ row[x] \in Resumable THEN "superseded" ELSE row[x]
<1>0. /\ run \in [Runs -> RunStates] /\ ShapeOf(run[r]) /\ row \in [Runs -> Statuses]
  BY Split DEF Typed, RestOK
<1>1. /\ Others(r) /\ Keeps(r) /\ run[r].pc = "marking" /\ run'[r].pc = "arming"
  BY <1>0, SpawnDoes DEF SpawnResumed
<1>2. \A x \in Runs :
        row'[x] = IF x = run[r].from /\ row[x] \in Resumable THEN "superseded" ELSE row[x]
  BY <1>0 DEF SpawnResumed, MarkSuperseded
<1>3. row[r] = "none" /\ row'[r] = "none"
  BY <1>1, <1>2 DEF RowsSettle, RowSettled, Resumable
<1>4. RowSettled(r)'
  BY <1>1, <1>3 DEF RowSettled, Resumable
<1>5. ASSUME NEW x \in Runs \ {r} PROVE RowSettled(x)'
  BY <1>1, <1>2 DEF RowsSettle, RowSettled, Others, Resumable, Settled, Live
<1> QED BY <1>1, <1>2, <1>4, <1>5 DEF RowsSettle

\* A crash interrupts exactly the rows of the runs that were alive.
LEMMA CrashRows ==
  ASSUME Typed, RowsSettle, Crash
  PROVE  /\ RowsSettle'
         /\ \A x \in Runs :
              /\ run'[x].sess = run[x].sess /\ run'[x].from = run[x].from
              /\ \/ ~Live(x) /\ run'[x] = run[x]
                 \/ Live(x) /\ run'[x].pc = "lost"
              /\ row'[x] = IF row[x] = "running" THEN "interrupted" ELSE row[x]
<1>0. /\ run \in [Runs -> RunStates] /\ \A r \in Runs : ShapeOf(run[r])
      /\ row \in [Runs -> Statuses]
  BY Split DEF Typed, RestOK
<1>1. \A x \in Runs : row'[x] = IF row[x] = "running" THEN "interrupted" ELSE row[x]
  BY DEF Crash, OrphansInterrupted
<1>2. \A x \in Runs :
        /\ run'[x].sess = run[x].sess /\ run'[x].from = run[x].from
        /\ \/ ~Live(x) /\ run'[x] = run[x]
           \/ Live(x) /\ run'[x].pc = "lost"
  BY <1>0, CrashDoes
<1>3. ASSUME NEW x \in Runs PROVE RowSettled(x)'
  <2>0. RowSettled(x)
    BY DEF RowsSettle
  <2>1. CASE Live(x)
    BY <1>1, <1>2, <2>0, <2>1 DEF RowSettled, Settled, Live
  <2>2. CASE ~Live(x)
    <3>1. run'[x] = run[x] /\ row'[x] = row[x]
      BY <1>1, <1>2, <2>0, <2>2 DEF RowSettled
    <3> QED BY <2>0, <3>1, SameRowKeeps DEF SameRow
  <2> QED BY <2>1, <2>2
<1> QED BY <1>1, <1>2, <1>3 DEF RowsSettle

\* How a run starts, as the rows see it.
LEMMA StartRows ==
  ASSUME Typed, RowsSettle, NEW r \in Runs,
         \/ \E s \in Sessions : Send(r, s)
         \/ \E o \in Runs : ResumeTask(r, o)
  PROVE  /\ RowsSettle'
         /\ Others(r) /\ row' = row /\ run[r].pc = "unused"
<1>0. /\ run \in [Runs -> RunStates] /\ \A x \in Runs : ShapeOf(run[x])
      /\ ckpt \in [Runs -> Nat]
  BY Split DEF Typed, RestOK
<1>1. /\ Others(r) /\ row' = row /\ run[r].pc = "unused"
      /\ run'[r].pc \in {"arming", "marking"}
  <2>1. ASSUME NEW s \in Sessions, Send(r, s)
        PROVE  Others(r) /\ run'[r].pc = "arming" /\ row' = row /\ run[r].pc = "unused"
    BY <1>0, <2>1, SendDoes DEF Send
  <2>2. ASSUME NEW o \in Runs, ResumeTask(r, o)
        PROVE  Others(r) /\ run'[r].pc = "marking" /\ row' = row /\ run[r].pc = "unused"
    <3>1. run[o].sess \in Sessions
      BY <1>0, <2>2 DEF ResumeTask, Resumable, Typed, ShapeOf
    <3> QED BY <1>0, <2>2, <3>1, ResumeDoes DEF ResumeTask
  <2> QED BY <2>1, <2>2
<1>2. row[r] = "none"
  BY <1>1 DEF RowsSettle, RowSettled
<1>3. RowSettled(r)'
  BY <1>1, <1>2 DEF RowSettled, Resumable
<1>4. ASSUME NEW x \in Runs \ {r} PROVE RowSettled(x)'
  BY <1>1, <1>4, SameRowKeeps DEF RowsSettle, SameRow, Others
<1> QED BY <1>1, <1>3, <1>4 DEF RowsSettle

\* Commands that touch no run touch no row.
LEMMA AsideRows ==
  ASSUME Aside \/ UNCHANGED vars
  PROVE  run' = run /\ row' = row
  BY DEF Aside, Cancel, Pause, ExemptTool, SetAutoApprove, BulkDeliver, Decide, BulkAccept,
         BulkIgnore, runVars, vars

\* RowsSettle is inductive.
LEMMA RowsInductive ==
  ASSUME Typed, RowsSettle, [Next]_vars
  PROVE  RowsSettle'
<1>1. CASE Aside \/ UNCHANGED vars
  BY <1>1, AsideRows, SameRowKeeps DEF RowsSettle, SameRow
<1>2. CASE Starts
  BY <1>2, StartRows DEF Starts
<1>3. ASSUME NEW r \in Runs, RunStep(r) PROVE RowsSettle'
  <2>1. CASE SpawnResumed(r)
    BY <2>1, SpawnRows
  <2>2. CASE ~SpawnResumed(r)
    BY <1>3, <2>2, RunStepKinds, RowStep, SameRowKeeps DEF RowsSettle
  <2> QED BY <2>1, <2>2
<1> QED BY <1>1, <1>2, <1>3, NextIs, CrashRows

\* There is no row in the initial state.
LEMMA RowsStart == Init => RowsSettle
  BY DEF Init, Idle, RowsSettle, RowSettled, Resumable

\* The runs table says "running" only of a run that is alive, whatever was resumed, cancelled
\* or lost, and however early: every way out writes the row, and a restart settles the others.
THEOREM RunningRowsAreAlive == Spec => []RunningIsLive
<1>1. RowsSettle => RunningIsLive
  BY DEF RowsSettle, RowSettled, RunningIsLive
<1> QED BY <1>1, TypedStart, TypedStep, RowsStart, RowsInductive, PTL DEF Spec

-----------------------------------------------------------------------------
(* Resumption. *)

\* r was started, and may still do something or has left a row
Goes(r) == run[r].pc \notin {"unused", "marking"} /\ (Live(r) \/ row[r] # "none")
ContinuesOne ==
  \A r \in Runs : run[r].from \in Runs =>
    LET o == run[r].from IN
    /\ run[o].pc # "unused" /\ run[r].sess = run[o].sess
    /\ run[r].pc = "marking" => row[o] \in Resumable
    /\ Goes(r) => row[o] = "superseded"
OneMarks ==
  \A x, y \in Runs :
    run[x].pc = "marking" /\ run[y].pc = "marking" /\ run[x].sess = run[y].sess => x = y
OneGoes ==
  \A x, y \in Runs :
    Goes(x) /\ Goes(y) /\ run[x].from \in Runs /\ run[x].from = run[y].from => x = y
Continued == ContinuesOne /\ OneMarks /\ OneGoes

\* Nothing but a resumption makes a run go on with another.
LEMMA ContinuedKeeps ==
  ASSUME run \in [Runs -> RunStates], Continued,
         \A x \in Runs :
           /\ run'[x].sess = run[x].sess /\ run'[x].from = run[x].from
           /\ run[x].pc # "unused" => run'[x].pc # "unused"
           /\ run'[x].pc = "marking" => run[x].pc = "marking"
           /\ Goes(x)' => Goes(x)
           /\ row[x] \in Resumable \cup {"superseded"} => row'[x] = row[x]
  PROVE  Continued'
<1>1. ContinuesOne'
  BY DEF Continued, ContinuesOne
<1>2. OneMarks'
  BY DEF Continued, OneMarks
<1>3. OneGoes'
  BY DEF Continued, OneGoes
<1> QED BY <1>1, <1>2, <1>3 DEF Continued

\* Continued is inductive as long as nobody resumes a session that is just starting:
\* resume_task then finds no other resumption of the session between its check and its mark.
LEMMA ContinuedInductive ==
  ASSUME "resume_early" \notin Overlaps, Typed, RowsSettle, Continued, [Next]_vars
  PROVE  Continued'
<1>0. /\ run \in [Runs -> RunStates] /\ \A x \in Runs : ShapeOf(run[x])
      /\ row \in [Runs -> Statuses] /\ ckpt \in [Runs -> Nat]
  BY Split DEF Typed, RestOK
<1>1. CASE Aside \/ UNCHANGED vars
  <2>1. run' = run /\ row' = row
    BY <1>1, AsideRows
  <2> QED BY <2>1 DEF Continued, ContinuesOne, OneMarks, OneGoes, Goes, Live
<1>2. ASSUME NEW r \in Runs, NEW s \in Sessions, Send(r, s) PROVE Continued'
  <2>1. /\ Others(r) /\ row' = row /\ run[r].pc = "unused"
        /\ run'[r].pc = "arming" /\ run'[r].from = NoRun
    BY <1>0, <1>2, SendDoes DEF Send
  <2>2. \A x \in Runs \ {r} : run'[x] = run[x] /\ (Goes(x)' <=> Goes(x))
    BY <2>1 DEF Others, Goes, Live
  <2>3. \A x \in Runs \ {r} : run[x].from # r
    BY <2>1 DEF Continued, ContinuesOne
  <2>4. ContinuesOne'
    BY <2>1, <2>2, <2>3, NoRunAssumption DEF Continued, ContinuesOne
  <2>5. OneMarks'
    BY <2>1, <2>2 DEF Continued, OneMarks
  <2>6. OneGoes'
    BY <2>1, <2>2, NoRunAssumption DEF Continued, OneGoes
  <2> QED BY <2>4, <2>5, <2>6 DEF Continued
<1>3. ASSUME NEW r \in Runs, NEW o \in Runs, ResumeTask(r, o) PROVE Continued'
  <2>0. /\ run[o].sess \in Sessions /\ run[o].pc # "unused" /\ row[o] \in Resumable
        /\ o # r /\ Starting(run[o].sess) = {}
    BY <1>0, <1>3 DEF ResumeTask, Resumable, Typed, ShapeOf
  <2>1. /\ Others(r) /\ row' = row /\ run[r].pc = "unused"
        /\ run'[r].pc = "marking" /\ run'[r].from = o /\ run'[r].sess = run[o].sess
    BY <1>0, <1>3, <2>0, ResumeDoes DEF ResumeTask
  <2>2. \A x \in Runs \ {r} : run'[x] = run[x] /\ (Goes(x)' <=> Goes(x))
    BY <2>1 DEF Others, Goes, Live
  <2>3. \A x \in Runs \ {r} : run[x].from # r
    BY <2>1 DEF Continued, ContinuesOne
  <2>4. ~Goes(r)'
    BY <2>1 DEF Goes
  <2>5. ContinuesOne'
    BY <2>0, <2>1, <2>2, <2>3, <2>4 DEF Continued, ContinuesOne
  <2>6. \A x \in Runs : run[x].pc = "marking" => run[x].sess # run[o].sess
    BY <2>0 DEF Starting, LiveIn, Live
  <2>7. OneMarks'
    BY <2>1, <2>2, <2>6 DEF Continued, OneMarks
  <2>8. OneGoes'
    BY <2>2, <2>4 DEF Continued, OneGoes
  <2> QED BY <2>5, <2>7, <2>8 DEF Continued
<1>4. ASSUME NEW r \in Runs, SpawnResumed(r) PROVE Continued'
  <2> DEFINE o == run[r].from
  <2>1. /\ Others(r) /\ Keeps(r) /\ run[r].pc = "marking" /\ run'[r].pc = "arming"
        /\ \A x \in Runs :
             row'[x] = IF x = o /\ row[x] \in Resumable THEN "superseded" ELSE row[x]
    BY <1>4, SpawnRows
  <2>2. o \in Runs /\ run[o].pc # "unused" /\ run[r].sess = run[o].sess /\ row[o] \in Resumable
    BY <1>0, <2>1 DEF Continued, ContinuesOne, ShapeOf
  <2> HIDE DEF o
  <2>3. \A x \in Runs \ {r} : run'[x] = run[x] /\ (Goes(x)' <=> Goes(x))
    BY <2>1, <2>2 DEF Others, Goes, Live, Resumable
  <2>4. row'[o] = "superseded" /\ \A x \in Runs \ {o} : row'[x] = row[x]
    BY <2>1, <2>2
  <2>5. \A x \in Runs \ {r} : run[x].from = o => run[x].pc # "marking" /\ ~Goes(x)
    BY <2>1, <2>2 DEF Continued, ContinuesOne, OneMarks, Resumable
  <2>6. run'[r].from = o /\ run'[r].sess = run[r].sess
    BY <2>1 DEF Keeps, o
  <2>7. ASSUME NEW x \in Runs, run'[x].from \in Runs
        PROVE  LET p == run'[x].from IN
               /\ run'[p].pc # "unused" /\ run'[x].sess = run'[p].sess
               /\ run'[x].pc = "marking" => row'[p] \in Resumable
               /\ Goes(x)' => row'[p] = "superseded"
    <3> DEFINE p == run'[x].from
    <3>1. CASE x = r
      BY <2>1, <2>2, <2>3, <2>4, <2>6, <3>1 DEF Keeps
    <3>2. CASE x # r
      <4>1. p = run[x].from /\ run[p].pc # "unused" /\ run[x].sess = run[p].sess
        BY <2>3, <2>7, <3>2 DEF Continued, ContinuesOne
      <4>2. run'[p].pc # "unused" /\ run'[p].sess = run[p].sess
        BY <2>1, <2>3, <2>6, <2>7, <4>1
      <4>3. CASE p = o
        BY <2>3, <2>4, <2>5, <3>2, <4>1, <4>2, <4>3
      <4>4. CASE p # o
        BY <2>3, <2>4, <2>7, <3>2, <4>1, <4>2, <4>4 DEF Continued, ContinuesOne
      <4> QED BY <4>3, <4>4
    <3> QED BY <3>1, <3>2
  <2>8. ContinuesOne'
    BY <2>7 DEF ContinuesOne
  <2>9. OneMarks'
    BY <2>1, <2>3 DEF Continued, OneMarks
  <2>10. OneGoes'
    BY <2>3, <2>5, <2>6 DEF Continued, OneGoes
  <2> QED BY <2>8, <2>9, <2>10 DEF Continued
<1>5. ASSUME NEW r \in Runs, Arm(r) \/ ExitStep(r) \/ Inner(r) \/ Quits(r) PROVE Continued'
  <2>1. /\ \A x \in Runs \ {r} : SameRow(x)
        /\ Keeps(r) /\ run[r].pc \notin {"unused", "marking", "done", "lost"}
        /\ run'[r].pc \notin {"unused", "marking", "lost"}
        /\ row[r] \in Resumable \cup {"superseded"} => row'[r] = row[r]
    BY <1>5, RowStep DEF RowsSettle
  <2>2. Goes(r)
    BY <2>1 DEF Goes, Live
  <2>3. \A x \in Runs \ {r} : Goes(x)' <=> Goes(x)
    BY <2>1 DEF SameRow, Goes, Live
  <2> QED BY <1>0, <2>1, <2>2, <2>3, ContinuedKeeps DEF SameRow, Keeps
<1>6. CASE Crash
  <2>1. \A x \in Runs :
          /\ run'[x].sess = run[x].sess /\ run'[x].from = run[x].from
          /\ \/ ~Live(x) /\ run'[x] = run[x]
             \/ Live(x) /\ run'[x].pc = "lost"
          /\ row'[x] = IF row[x] = "running" THEN "interrupted" ELSE row[x]
    BY <1>6, CrashRows
  <2>2. \A x \in Runs : run[x].pc = "marking" => row[x] = "none"
    BY DEF RowsSettle, RowSettled
  <2>3. \A x \in Runs : Goes(x)' => Goes(x)
    BY <2>1, <2>2 DEF Goes, Live
  <2> QED BY <1>0, <2>1, <2>3, ContinuedKeeps DEF Live, Resumable
<1>7. ASSUME NEW r \in Runs, RunStep(r) PROVE Continued'
  BY <1>4, <1>5, <1>7, RunStepKinds
<1> QED BY <1>1, <1>2, <1>3, <1>6, <1>7, NextIs DEF Starts

\* Nothing is resumed in the initial state.
LEMMA ContinuedStart == Init => Continued
  BY NoRunAssumption DEF Init, Idle, Continued, ContinuesOne, OneMarks, OneGoes, Goes

\* The rows tell the truth: besides, a paused or interrupted run is continued by at most one
\* later run, as long as nobody resumes a session that is just starting (resume_task checks
\* the session and marks the row in two steps, and does not look whether it marked it).
THEOREM RowsTellTheTruth ==
  ASSUME "resume_early" \notin Overlaps
  PROVE  Spec => []RowsAreTrue
<1>1. RowsSettle /\ Typed /\ Continued => RowsAreTrue
  <2> SUFFICES ASSUME RowsSettle, Typed, Continued PROVE RowsAreTrue
    OBVIOUS
  <2>1. RunningIsLive
    BY DEF RowsSettle, RowSettled, RunningIsLive
  <2>2. \A x \in Runs : run[x].from \in Runs \cup {NoRun}
    BY DEF Typed, TypeOK, RunStates
  <2>3. \A x \in Runs : row[x] # "none" => Goes(x)
    BY DEF RowsSettle, RowSettled, Goes
  <2>4. ResumedOnce
    BY <2>2, <2>3 DEF Continued, OneGoes, ResumedOnce
  <2> QED BY <2>1, <2>4 DEF RowsAreTrue
<1>2. Continued /\ Typed /\ RowsSettle /\ [Next]_vars => Continued'
  BY ContinuedInductive
<1> QED
  BY <1>1, <1>2, TypedStart, TypedStep, RowsStart, RowsInductive, ContinuedStart, PTL DEF Spec

-----------------------------------------------------------------------------
(* Senders. *)

\* r owns, or is about to own, its session's senders
Active(r) ==
  \/ run[r].pc \in {"marking", "arming"} \cup Inside
  \/ run[r].pc = "leaving" /\ Has(run[r].todo, "pause")
OneActive == \A x, y \in Runs : Active(x) /\ Active(y) /\ run[x].sess = run[y].sess => x = y
\* when a run can be told to pause, and to cancel
Pausable(r) ==
  \/ run[r].pc \in Inside
  \/ run[r].pc = "arming" /\ ~Has(run[r].todo, "pause")
  \/ run[r].pc = "leaving" /\ Has(run[r].todo, "pause")
Cancellable(r) ==
  \/ run[r].pc \in Inside
  \/ run[r].pc = "arming" /\ ~Has(run[r].todo, "cancel")
Armed ==
  \A r \in Runs :
    LET t == token[run[r].sess] IN
    /\ Pausable(r) => t["pause"] = r
    /\ Cancellable(r) => t["cancel"] = r \/ r \in cancelled
SendInv == OneActive /\ Armed

\* What a run needs of its session's senders stays, if the senders it needs stay.
LEMMA SendersKeep ==
  ASSUME Typed, SendInv,
         \A x \in Runs :
           /\ run'[x].sess = run[x].sess
           /\ Active(x)' => Active(x)
           /\ Pausable(x)' =>
                Pausable(x) /\ token'[run[x].sess]["pause"] = token[run[x].sess]["pause"]
           /\ Cancellable(x)' =>
                Cancellable(x) /\ token'[run[x].sess]["cancel"] = token[run[x].sess]["cancel"],
         cancelled \subseteq cancelled'
  PROVE  SendInv'
<1>1. OneActive'
  BY DEF SendInv, OneActive
<1>2. Armed'
  BY DEF SendInv, Armed
<1> QED BY <1>1, <1>2 DEF SendInv

\* In particular when no run and no sender changes.
LEMMA SendersUnmoved ==
  ASSUME Typed, SendInv, run' = run, token' = token, cancelled \subseteq cancelled'
  PROVE  SendInv'
  BY SendersKeep DEF Active, Pausable, Cancellable

\* A run that starts is alone, and owes nothing yet.
LEMMA StartSends ==
  ASSUME Typed, SendInv, NEW r \in Runs, Others(r), run[r].pc = "unused",
         UNCHANGED <<token, cancelled>>,
         \/ run'[r].pc = "marking"
         \/ run'[r].pc = "arming" /\ run'[r].todo = Arming,
         \A x \in Runs : Active(x) => run[x].sess # run'[r].sess
  PROVE  SendInv'
<1>1. ~Pausable(r)' /\ ~Cancellable(r)'
  BY WaysOut DEF Pausable, Cancellable, Inside, Loop, Tokens
<1>2. \A x \in Runs \ {r} :
        /\ run'[x] = run[x] /\ (Active(x)' <=> Active(x))
        /\ (Pausable(x)' <=> Pausable(x)) /\ (Cancellable(x)' <=> Cancellable(x))
  BY DEF Others, Active, Pausable, Cancellable
<1>3. OneActive'
  BY <1>2 DEF SendInv, OneActive
<1>4. Armed'
  BY <1>1, <1>2 DEF SendInv, Armed
<1> QED BY <1>3, <1>4 DEF SendInv

\* Arming overwrites nobody's sender: the run is the only active one of its session.
LEMMA ArmSends ==
  ASSUME Typed, SendInv, NEW r \in Runs, Arm(r)
  PROVE  SendInv'
<1> DEFINE q == run[r].todo
           s == run[r].sess
           k == Head(q)
<1>0. /\ run \in [Runs -> RunStates] /\ ShapeOf(run[r])
      /\ token \in [Sessions -> [Tokens -> Runs \cup {NoRun}]]
  BY Split DEF Typed, RestOK
<1>1. q \in Armings /\ s \in Sessions /\ run[r].pc = "arming" /\ cancelled' = cancelled
  BY <1>0 DEF Arm, ShapeOf, userVars
<1>2. /\ Others(r) /\ Keeps(r) /\ run'[r].todo = Tail(q)
      /\ run'[r].pc = IF Tail(q) = <<>> THEN "loading" ELSE "arming"
  BY <1>0, <1>1, ArmDoes
<1>3. /\ k = "begin" => token' = token
      /\ k # "begin" => k \in Tokens /\ token' = [token EXCEPT ![s][k] = r]
  BY <1>1, ArmingsShrink DEF Arm
<1>4. \A t : Has(q, t) <=> t = k \/ Has(Tail(q), t)
  BY <1>1, ArmingsOrder
<1>5. Tail(q) = <<>> => \A t : ~Has(Tail(q), t)
  <2>1. \A t : ~Has(<<>>, t)
    BY Among
  <2> QED BY <2>1, Zenon
<1>6. \A x \in Runs \ {r} :
        /\ run'[x] = run[x] /\ (Active(x)' <=> Active(x))
        /\ (Pausable(x)' <=> Pausable(x)) /\ (Cancellable(x)' <=> Cancellable(x))
  BY <1>2 DEF Others, Active, Pausable, Cancellable
<1>7. Active(r) /\ run'[r].sess = s
  BY <1>1, <1>2 DEF Active, Keeps
<1>8. OneActive'
  BY <1>6, <1>7 DEF SendInv, OneActive
<1>9. ASSUME NEW x \in Runs \ {r}
      PROVE  LET t == token'[run'[x].sess] IN
             /\ Pausable(x)' => t["pause"] = x
             /\ Cancellable(x)' => t["cancel"] = x \/ x \in cancelled'
  <2>1. CASE run[x].sess = s
    <3>1. ~Active(x)
      BY <1>7, <2>1 DEF SendInv, OneActive
    <3>2. ~Pausable(x) /\ ~Cancellable(x)
      BY <3>1 DEF Active, Pausable, Cancellable
    <3> QED BY <1>6, <3>2
  <2>2. CASE run[x].sess # s
    <3>1. Pausable(x) => run[x].pc # "unused"
      BY DEF Pausable, Inside, Loop
    <3>2. Cancellable(x) => run[x].pc # "unused"
      BY DEF Cancellable, Inside, Loop
    <3>3. run[x].pc # "unused" => run[x].sess \in Sessions
      BY DEF Typed, ShapeOf
    <3>4. run[x].sess \in Sessions => token'[run[x].sess] = token[run[x].sess]
      BY <1>0, <1>3, <2>2
    <3> QED BY <1>1, <1>6, <3>1, <3>2, <3>3, <3>4 DEF SendInv, Armed
  <2> QED BY <2>1, <2>2
<1>10. /\ Pausable(r)' => k = "pause" \/ Pausable(r)
       /\ Cancellable(r)' => k = "cancel" \/ Cancellable(r)
  <2>1. Pausable(r)' => ~Has(Tail(q), "pause")
    BY <1>2, <1>5 DEF Pausable, Inside, Loop
  <2>2. Cancellable(r)' => ~Has(Tail(q), "cancel")
    BY <1>2, <1>5 DEF Cancellable, Inside, Loop
  <2> QED BY <1>1, <1>4, <2>1, <2>2 DEF Pausable, Cancellable
<1>11. /\ token'[s]["pause"] = IF k = "pause" THEN r ELSE token[s]["pause"]
       /\ token'[s]["cancel"] = IF k = "cancel" THEN r ELSE token[s]["cancel"]
  BY <1>0, <1>1, <1>3 DEF Tokens
<1>12. /\ Pausable(r)' => token'[s]["pause"] = r
       /\ Cancellable(r)' => token'[s]["cancel"] = r \/ r \in cancelled'
  BY <1>1, <1>10, <1>11 DEF SendInv, Armed
<1>13. Armed'
  BY <1>7, <1>9, <1>12 DEF Armed
<1> QED BY <1>8, <1>13 DEF SendInv

\* An exit takes no other run's pause or cancel sender away: while it still has one of
\* them to take, the run is the only active one of its session, since the pause sender,
\* which resume_task asks for, goes last of the two.
LEMMA ExitSends ==
  ASSUME Typed, SendInv, NEW r \in Runs, ExitStep(r)
  PROVE  SendInv'
<1> DEFINE q == run[r].todo
           s == run[r].sess
           k == Head(q)
<1>0. /\ run \in [Runs -> RunStates] /\ ShapeOf(run[r])
      /\ token \in [Sessions -> [Tokens -> Runs \cup {NoRun}]]
  BY Split DEF Typed, RestOK
<1>1. q \in Exits /\ s \in Sessions /\ run[r].pc = "leaving" /\ cancelled' = cancelled
  BY <1>0 DEF ExitStep, ShapeOf, userVars
<1>2. /\ Others(r) /\ Keeps(r)
      /\ \/ Tail(q) = <<>> /\ run'[r].pc = "done"
         \/ Tail(q) # <<>> /\ run'[r].pc = "leaving" /\ run'[r].todo = Tail(q)
  BY <1>0, <1>1, ExitDoes
<1>3. token' = IF k \in Tokens THEN [token EXCEPT ![s][k] = NoRun] ELSE token
  BY DEF ExitStep
<1>4. \A t : Has(q, t) <=> t = k \/ Has(Tail(q), t)
  BY <1>1, ExitsOrder
<1>5. ~Has(Tail(q), k) /\ (Has(q, "cancel") => Has(q, "pause"))
  BY <1>1, ExitsOrder
<1>6. k \in {"pause", "cancel"} => Active(r)
  BY <1>1, <1>4, <1>5 DEF Active
<1>7. /\ Active(r)' => Active(r)
      /\ Pausable(r)' => Pausable(r) /\ k # "pause"
      /\ ~Cancellable(r)'
  <2>1. ~(run'[r].pc \in Inside) /\ run'[r].pc \notin {"marking", "arming"}
    BY <1>2 DEF Inside, Loop
  <2>2. Active(r)' => Has(Tail(q), "pause")
    BY <1>2, <2>1 DEF Active
  <2>3. Pausable(r)' => Has(Tail(q), "pause")
    BY <1>2, <2>1 DEF Pausable
  <2>4. ~Cancellable(r)'
    BY <2>1 DEF Cancellable
  <2> QED BY <1>1, <1>4, <1>5, <2>2, <2>3, <2>4 DEF Active, Pausable
<1>8. \A x \in Runs \ {r} :
        /\ run'[x] = run[x] /\ (Active(x)' <=> Active(x))
        /\ (Pausable(x)' <=> Pausable(x)) /\ (Cancellable(x)' <=> Cancellable(x))
  BY <1>2 DEF Others, Active, Pausable, Cancellable
<1>9. \A u \in Sessions, t \in Tokens : ~(u = s /\ t = k) => token'[u][t] = token[u][t]
  BY <1>0, <1>1, <1>3
<1>10. ASSUME NEW x \in Runs, Pausable(x)' \/ Cancellable(x)'
       PROVE  /\ run[x].sess \in Sessions
              /\ x # r /\ run[x].sess = s => k \notin {"pause", "cancel"}
  <2>1. Pausable(x) \/ Cancellable(x)
    BY <1>7, <1>8, <1>10
  <2>2. Active(x) /\ run[x].pc # "unused"
    BY <2>1 DEF Pausable, Cancellable, Active, Inside, Loop
  <2> QED BY <1>6, <2>2 DEF SendInv, OneActive, Typed, ShapeOf
<1>11. ASSUME NEW x \in Runs
       PROVE  /\ run'[x].sess = run[x].sess
              /\ Active(x)' => Active(x)
              /\ Pausable(x)' =>
                   Pausable(x) /\ token'[run[x].sess]["pause"] = token[run[x].sess]["pause"]
              /\ Cancellable(x)' =>
                   Cancellable(x) /\ token'[run[x].sess]["cancel"] = token[run[x].sess]["cancel"]
  <2>1. "pause" \in Tokens /\ "cancel" \in Tokens
    BY DEF Tokens
  <2>2. CASE x = r
    BY <1>1, <1>2, <1>7, <1>9, <2>1, <2>2 DEF Keeps
  <2>3. CASE x # r
    BY <1>8, <1>9, <1>10, <2>1, <2>3
  <2> QED BY <2>2, <2>3
<1> QED BY <1>1, <1>11, SendersKeep

\* SendInv is inductive when the user neither sends into a session that has a run nor
\* resumes one that is starting.
LEMMA SendersInductive ==
  ASSUME Overlaps = {}, Typed, SendInv, [Next]_vars
  PROVE  SendInv'
<1>0. /\ run \in [Runs -> RunStates] /\ \A x \in Runs : ShapeOf(run[x])
      /\ token \in [Sessions -> [Tokens -> Runs \cup {NoRun}]] /\ ckpt \in [Runs -> Nat]
  BY Split DEF Typed, RestOK
<1>1. ASSUME Aside \/ UNCHANGED vars PROVE SendInv'
  <2>1. run' = run
    BY <1>1, AsideRows
  <2>2. ASSUME NEW s \in Sessions, Cancel(s) PROVE SendInv'
    <3>1. /\ cancelled' = cancelled \cup {token[s]["cancel"]}
          /\ token' = [token EXCEPT ![s]["cancel"] = NoRun]
      BY <2>2 DEF Cancel
    <3>2. \A x \in Runs :
            /\ Active(x)' <=> Active(x)
            /\ Pausable(x)' <=> Pausable(x)
            /\ Cancellable(x)' <=> Cancellable(x)
      BY <2>1 DEF Active, Pausable, Cancellable
    <3>3. OneActive'
      BY <2>1, <3>2 DEF SendInv, OneActive
    <3>4. \A x \in Runs : Pausable(x) \/ Cancellable(x) => run[x].sess \in Sessions
      BY DEF Typed, ShapeOf, Pausable, Cancellable, Inside, Loop
    <3>5. \A u \in Sessions :
            /\ token'[u]["pause"] = token[u]["pause"]
            /\ token'[u]["cancel"] # token[u]["cancel"] => token[u]["cancel"] \in cancelled'
      BY <1>0, <3>1 DEF Tokens
    <3>6. Armed'
      BY <2>1, <3>1, <3>2, <3>4, <3>5 DEF SendInv, Armed
    <3> QED BY <3>3, <3>6 DEF SendInv
  <2>3. UNCHANGED <<token, cancelled>> \/ \E s \in Sessions : Cancel(s)
    BY <1>1 DEF Aside, Pause, ExemptTool, SetAutoApprove, BulkDeliver, Decide, BulkAccept,
                BulkIgnore, vars, userVars
  <2> QED BY <2>1, <2>2, <2>3, SendersUnmoved
<1>2. ASSUME NEW r \in Runs, NEW s \in Sessions, Send(r, s) PROVE SendInv'
  <2>1. /\ Others(r) /\ UNCHANGED <<token, cancelled>> /\ run[r].pc = "unused"
        /\ run'[r].pc = "arming" /\ run'[r].todo = Arming /\ run'[r].sess = s
    BY <1>0, <1>2, SendDoes DEF Send, userVars
  <2>2. LiveIn(s) = {}
    BY <1>2 DEF Send
  <2>3. \A x \in Runs : Active(x) => run[x].sess # s
    BY <2>2 DEF LiveIn, Live, Active, Inside, Loop
  <2> QED BY <2>1, <2>3, StartSends
<1>3. ASSUME NEW r \in Runs, NEW o \in Runs, ResumeTask(r, o) PROVE SendInv'
  <2> DEFINE s == run[o].sess
  <2>0. s \in Sessions /\ token[s]["pause"] = NoRun /\ Starting(s) = {}
    BY <1>0, <1>3 DEF ResumeTask, Resumable, Typed, ShapeOf
  <2>1. /\ Others(r) /\ UNCHANGED <<token, cancelled>> /\ run[r].pc = "unused"
        /\ run'[r].pc = "marking" /\ run'[r].sess = s
    BY <1>0, <1>3, <2>0, ResumeDoes DEF ResumeTask, userVars
  <2>2. ASSUME NEW x \in Runs, Active(x), run[x].sess = s PROVE FALSE
    <3>1. run[x].pc \notin {"marking", "arming"}
      BY <2>0, <2>2 DEF Starting, LiveIn, Live
    <3>2. Pausable(x)
      BY <2>2, <3>1 DEF Active, Pausable
    <3> QED BY <2>0, <2>2, <3>2, NoRunAssumption DEF SendInv, Armed
  <2> QED BY <2>1, <2>2, StartSends
<1>4. CASE Crash
  <2>1. \A x \in Runs : (~Live(x) /\ run'[x] = run[x]) \/ run'[x].pc = "lost"
    BY <1>0, <1>4, CrashDoes
  <2>2. \A x \in Runs : run'[x].pc \in {"unused", "done", "lost"}
    BY <2>1 DEF Live
  <2>3. \A x \in Runs : ~Active(x)' /\ ~Pausable(x)' /\ ~Cancellable(x)'
    BY <2>2 DEF Active, Pausable, Cancellable, Inside, Loop
  <2> QED BY <2>3 DEF SendInv, OneActive, Armed
<1>5. ASSUME NEW r \in Runs, SpawnResumed(r) \/ Inner(r) \/ Quits(r) PROVE SendInv'
  <2>1. Others(r) /\ Keeps(r) /\ UNCHANGED <<token, cancelled>>
    BY <1>0, <1>5, SpawnDoes DEF SpawnResumed, Inner, Quits, userVars
  <2>2. /\ Active(r)
        /\ Pausable(r)' => Pausable(r)
        /\ Cancellable(r)' => Cancellable(r)
    <3>1. CASE SpawnResumed(r)
      <4>1. run[r].pc = "marking" /\ run'[r].pc = "arming" /\ run'[r].todo = Arming
        BY <1>0, <3>1, SpawnDoes DEF SpawnResumed
      <4>2. Has(Arming, "pause") /\ Has(Arming, "cancel")
        BY WaysOut DEF Tokens
      <4> QED BY <4>1, <4>2 DEF Active, Pausable, Cancellable, Inside, Loop
    <3>2. CASE Inner(r) \/ Quits(r)
      <4>1. run[r].pc \in Inside
        BY <3>2 DEF Inner, Quits
      <4> QED BY <4>1 DEF Active, Pausable, Cancellable
    <3> QED BY <1>5, <3>1, <3>2
  <2>3. \A x \in Runs \ {r} :
          /\ run'[x] = run[x] /\ (Active(x)' <=> Active(x))
          /\ (Pausable(x)' <=> Pausable(x)) /\ (Cancellable(x)' <=> Cancellable(x))
    BY <2>1 DEF Others, Active, Pausable, Cancellable
  <2> QED BY <2>1, <2>2, <2>3, SendersKeep DEF Keeps
<1>6. ASSUME NEW r \in Runs, RunStep(r) PROVE SendInv'
  BY <1>5, <1>6, RunStepKinds, ArmSends, ExitSends
<1> QED BY <1>1, <1>2, <1>3, <1>4, <1>6, NextIs DEF Starts

\* No run is active in the initial state.
LEMMA SendersStart == Init => SendInv
  BY DEF Init, Idle, SendInv, OneActive, Armed, Active, Pausable, Cancellable, Inside, Loop

\* The user can pause and cancel whichever run of a session is in its loop, when the user
\* interface keeps sends and resumptions out of a session that has a run: the clean-up of an
\* earlier run never takes the senders of a later one away.
THEOREM LiveRunsAreReachable ==
  ASSUME Overlaps = {}
  PROVE  Spec => []Reachable
<1>1. SendInv => Reachable
  BY DEF SendInv, Armed, Reachable, Pausable, Cancellable, Inside
<1>2. Typed /\ SendInv /\ [Next]_vars => SendInv'
  BY SendersInductive
<1> QED BY <1>1, <1>2, TypedStart, TypedStep, SendersStart, PTL DEF Spec
=============================================================================
