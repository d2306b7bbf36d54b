--------------------------- MODULE RecordsProofs ---------------------------
(***************************************************************************)
(* Theorems about what is kept for the user while the program is used,     *)
(* edited from several sides, stopped and started again: scheduled jobs    *)
(* (Automation), interrupted runs (Interruptions), workspaces and what is  *)
(* filed under them (Workspaces), profiles and groups (Catalog), skills    *)
(* and budgets (Skills), the chat a team grows out of (Upgrades), the      *)
(* todos of a run (Plans) and what is remembered (Memory).  They hold for  *)
(* any number of each, of executions, edits and crashes.                   *)
(***************************************************************************)
EXTENDS ServicesProofs, Automation, Interruptions, Workspaces, UserRecords, Plans
-----------------------------------------------------------------------------
(***************************************************************************)
(* Automation.  An execution carries the count of the row it was given to  *)
(* the write that ends it; that count is no further than the results that  *)
(* were there already, and what is carried over is all that can un-pause.  *)
(***************************************************************************)
JobExpr == [is : {"every", "soon", "over", "none"}, left : Int]
JobRow == [known : BOOLEAN, expr : JobExpr, action : JobKinds,
           status : {"active", "paused", "completed", "failed"}, next : Int, count : Nat,
           stamp : {"none", "open", "closed"}]
JobWork == [at : {"none", "begin", "stamp", "good", "bad"}, repeats : BOOLEAN, count : Nat]
JobType ==
  /\ job \in JobRow /\ executions \in [Slots -> JobWork]
  /\ editing \in [expr : JobExpr, next : Int]
  /\ wish \in {"run", "pause"} /\ quiet \in BOOLEAN /\ results \in Nat

\* No execution was given a row that counted more than the results of that moment.
WorkIsNotAhead == results < MaxResults => \A s \in Slots : executions[s].count <= results
JobInv == JobType /\ PausedQuietly /\ CountIsNotAhead /\ WorkIsNotAhead

\* The cap of the counters is a number: there are finitely many slots.
LEMMA ResultsAreCapped ==
  /\ MaxResults \in Nat
  /\ \A n \in Nat : UpTo(n) \in Nat /\ UpTo(n) <= n /\ (UpTo(n) < MaxResults => UpTo(n) = n)
  <1>1. Cardinality(Slots) \in Nat
    BY JobConstants, FS_CardinalityType
  <1>2. MaxResults \in Nat
    BY <1>1 DEF MaxResults
  <1> QED
    BY <1>2 DEF UpTo

\* A row that ages keeps all but its times.
LEMMA AgeingKeeps ==
  ASSUME NEW row \in JobRow
  PROVE  /\ Elapsed(row) \in JobRow
         /\ Elapsed(row).known = row.known /\ Elapsed(row).status = row.status
         /\ Elapsed(row).count = row.count
  <1>1. \A t \in Int : Sooner(t) \in Int
    BY DEF Sooner, Never, Late
  <1>2. /\ row.next \in Int /\ row.expr \in JobExpr /\ row.expr.left \in Int
    BY DEF JobRow, JobExpr
  <1>3. [row.expr EXCEPT !.left = Sooner(@)] \in JobExpr
    BY <1>1, <1>2 DEF JobExpr
  <1> QED
    BY <1>1, <1>2, <1>3 DEF Elapsed, JobRow

\* An execution that starts is given the row's count.
LEMMA FireIs ==
  ASSUME JobType, NEW row \in JobRow, NEW s \in Slots, Fire(s, row)
  PROVE  /\ executions' \in [Slots -> JobWork]
         /\ \A x \in Slots : executions'[x].count \in {executions[x].count, row.count}
  <1>1. [at |-> "begin", repeats |-> Repeats(row.expr), count |-> row.count] \in JobWork
    BY DEF JobWork, JobRow, Repeats
  <1> QED
    BY <1>1 DEF Fire, JobType

LEMMA JobStarts == JobInit => JobInv
  <1> SUFFICES ASSUME JobInit PROVE JobInv
    OBVIOUS
  <1>1. jobKit.expr \in Exprs /\ jobKit.action \in JobKinds
    BY JobConstants DEF JobInit
  <1>2. jobKit.expr \in JobExpr
    BY <1>1 DEF Exprs, JobExpr, Never, Late
  <1>3. NextAfter(jobKit.expr) \in Int
    BY <1>2, JobConstants DEF NextAfter, JobExpr, Never
  <1>4. job \in JobRow /\ job.count = 0
    BY <1>1, <1>2, <1>3 DEF JobInit, CreateJob, CreateRow, Resolved, JobRow
  <1>5. JobType
    <2>1. NoWork \in JobWork /\ NoEditing \in [expr : JobExpr, next : Int]
      BY DEF NoWork, JobWork, NoEditing, JobExpr, Never
    <2> QED
      BY <1>4, <2>1 DEF JobInit, JobType
  <1>6. PausedQuietly /\ CountIsNotAhead /\ WorkIsNotAhead
    BY <1>4 DEF JobInit, PausedQuietly, CountIsNotAhead, WorkIsNotAhead, NoWork
  <1> QED
    BY <1>5, <1>6 DEF JobInv

\* Every step keeps the invariant, and none brings a deleted row back.
LEMMA JobStays ==
  ASSUME JobInv, [JobNext]_jobVars
  PROVE  JobInv' /\ (~job.known => ~job'.known)
  <1> USE DEF JobInv, JobType
  <1>a. MaxResults \in Nat /\ job \in JobRow /\ job.count \in Nat
    BY ResultsAreCapped DEF JobRow
  <1>n. NoWork \in JobWork /\ NoEditing \in [expr : JobExpr, next : Int]
    BY DEF NoWork, JobWork, NoEditing, JobExpr, Never
  <1>1. CASE TickJobs
    <2> DEFINE row == Elapsed(job)
    <2>1. /\ row \in JobRow /\ row.known = job.known /\ row.status = job.status
          /\ row.count = job.count /\ job' = row
      BY <1>1, AgeingKeeps DEF TickJobs
    <2> HIDE DEF row
    <2>2. editing' \in [expr : JobExpr, next : Int]
      <3>1. \A t \in Int : Sooner(t) \in Int
        BY DEF Sooner, Never, Late
      <3>2. [editing.expr EXCEPT !.left = Sooner(@)] \in JobExpr
        BY <3>1 DEF JobExpr
      <3> QED
        BY <1>1, <3>1, <3>2 DEF TickJobs, Elapsed
    <2>3. CASE DueJob(row) /\ \E s \in Slots : Fire(s, row)
      <3>1. PICK s \in Slots : Fire(s, row)
        BY <2>3
      <3>2. /\ executions' \in [Slots -> JobWork]
            /\ \A x \in Slots : executions'[x].count \in {executions[x].count, row.count}
        BY <2>1, <3>1, FireIs
      <3>3. row.status = "active"
        BY <2>3 DEF DueJob, FindActive
      <3>4. PausedQuietly'
        BY <1>1, <2>1, <3>3 DEF TickJobs, PausedQuietly, Executing
      <3>5. CountIsNotAhead' /\ WorkIsNotAhead'
        BY <1>1, <1>a, <2>1, <3>2 DEF TickJobs, CountIsNotAhead, WorkIsNotAhead, MaxResults
      <3> QED
        BY <1>1, <2>1, <2>2, <3>2, <3>4, <3>5 DEF TickJobs
    <2>4. CASE UNCHANGED executions
      <3>1. PausedQuietly'
        BY <1>1, <2>1, <2>4 DEF TickJobs, PausedQuietly, Executing
      <3>2. CountIsNotAhead' /\ WorkIsNotAhead'
        BY <1>1, <2>1, <2>4 DEF TickJobs, CountIsNotAhead, WorkIsNotAhead, MaxResults
      <3> QED
        BY <1>1, <2>1, <2>2, <2>4, <3>1, <3>2 DEF TickJobs
    <2> QED
      BY <1>1, <2>3, <2>4 DEF TickJobs, row
  <1>2. CASE RunTaskNow
    <2>1. PICK s \in Slots : Fire(s, job)
      BY <1>2 DEF RunTaskNow
    <2>2. /\ executions' \in [Slots -> JobWork]
          /\ \A x \in Slots : executions'[x].count \in {executions[x].count, job.count}
      BY <1>a, <2>1, FireIs
    <2>3. PausedQuietly'
      BY <1>2 DEF RunTaskNow, PausedQuietly
    <2>4. CountIsNotAhead' /\ WorkIsNotAhead'
      BY <1>2, <2>2 DEF RunTaskNow, CountIsNotAhead, WorkIsNotAhead, MaxResults
    <2> QED
      BY <1>2, <2>2, <2>3, <2>4 DEF RunTaskNow
  <1>3. CASE UpdateTask
    <2>1. /\ job' \in JobRow /\ job'.known = job.known /\ job'.status = job.status
          /\ job'.count = job.count
      BY <1>3, <1>a DEF UpdateTask, UpdateRow, Updated, JobRow
    <2>2. PausedQuietly' /\ CountIsNotAhead' /\ WorkIsNotAhead'
      BY <1>3, <2>1
      DEF UpdateTask, PausedQuietly, Executing, CountIsNotAhead, WorkIsNotAhead, MaxResults
    <2> QED
      BY <1>3, <1>n, <2>1, <2>2 DEF UpdateTask
  <1>4. CASE DeleteTask
    <2>1. job' \in JobRow /\ ~job'.known /\ job'.count = job.count
      BY <1>4, <1>a DEF DeleteTask, Removed, JobRow
    <2>2. PausedQuietly' /\ CountIsNotAhead' /\ WorkIsNotAhead'
      BY <1>4, <2>1
      DEF DeleteTask, PausedQuietly, CountIsNotAhead, WorkIsNotAhead, MaxResults
    <2> QED
      BY <1>4, <2>1, <2>2 DEF DeleteTask
  <1>5. CASE JobCrash
    <2>1. executions' = [s \in Slots |-> NoWork] /\ ~Executing'
      BY <1>5 DEF JobCrash, Executing, NoWork
    <2>2. PausedQuietly' /\ CountIsNotAhead' /\ WorkIsNotAhead'
      BY <1>5, <2>1
      DEF JobCrash, PausedQuietly, CountIsNotAhead, WorkIsNotAhead, MaxResults, NoWork
    <2> QED
      BY <1>5, <1>n, <2>1, <2>2 DEF JobCrash
  <1>6. CASE Pass
    <2>1. /\ job' \in JobRow /\ job'.known = job.known /\ job'.status = job.status
          /\ job'.count = job.count
      BY <1>6, <1>a, AgeingKeeps DEF Pass
    <2>2. PausedQuietly' /\ CountIsNotAhead' /\ WorkIsNotAhead'
      BY <1>6, <2>1 DEF Pass, PausedQuietly, Executing, CountIsNotAhead, WorkIsNotAhead, MaxResults
    <2> QED
      BY <1>6, <2>1, <2>2 DEF Pass
  <1>7. CASE StartScheduler
    <2>1. NextAfter(job.expr) \in Int
      BY <1>a, JobConstants DEF NextAfter, JobRow, JobExpr, Never
    <2>2. /\ job' \in JobRow /\ job'.known = job.known /\ job'.status = job.status
          /\ job'.count = job.count
      BY <1>7, <1>a, <2>1 DEF StartScheduler, Recompute, JobRow
    <2>3. PausedQuietly' /\ CountIsNotAhead' /\ WorkIsNotAhead'
      BY <1>7, <2>2
      DEF StartScheduler, PausedQuietly, Executing, CountIsNotAhead, WorkIsNotAhead, MaxResults
    <2> QED
      BY <1>7, <2>2, <2>3 DEF StartScheduler
  <1>8. ASSUME NEW paused \in BOOLEAN, SetTaskPaused(paused)
        PROVE  JobInv' /\ (~job.known => ~job'.known)
    <2>1. /\ job' \in JobRow /\ job'.known = job.known /\ job'.count = job.count
          /\ paused => job'.status = "paused"
      BY <1>8, <1>a DEF SetTaskPaused, EnableJob, SetStatus, Updated, JobRow
    <2>2. PausedQuietly'
      BY <1>8, <2>1 DEF SetTaskPaused, PausedQuietly, Executing
    <2>3. CountIsNotAhead' /\ WorkIsNotAhead'
      BY <1>8, <2>1 DEF SetTaskPaused, CountIsNotAhead, WorkIsNotAhead, MaxResults
    <2>4. wish' \in {"run", "pause"} /\ quiet' \in BOOLEAN
      BY <1>8 DEF SetTaskPaused, Executing
    <2> QED
      BY <1>8, <2>1, <2>2, <2>3, <2>4 DEF SetTaskPaused
  <1>9. ASSUME NEW expr \in Exprs \cup {job.expr}, ReadTask(expr)
        PROVE  JobInv' /\ (~job.known => ~job'.known)
    <2>1. expr \in JobExpr
      BY <1>a DEF Exprs, JobExpr, Never, Late, JobRow
    <2>2. KeptTime(job, expr) \in Int
      BY <1>a, <2>1, JobConstants DEF KeptTime, NextAfter, JobRow, JobExpr, Never
    <2>3. editing' \in [expr : JobExpr, next : Int]
      BY <1>9, <2>1, <2>2 DEF ReadTask
    <2>4. PausedQuietly' /\ CountIsNotAhead' /\ WorkIsNotAhead'
      BY <1>9
      DEF ReadTask, PausedQuietly, Executing, CountIsNotAhead, WorkIsNotAhead, MaxResults
    <2> QED
      BY <1>9, <2>3, <2>4 DEF ReadTask
  <1>10. ASSUME NEW s \in Slots, BeginWork(s) \/ EndRun(s)
         PROVE  JobInv' /\ (~job.known => ~job'.known)
    <2>1. /\ job' \in JobRow /\ job'.known = job.known /\ job'.count = job.count
      BY <1>10, <1>a
      DEF BeginWork, EndRun, StampStarted, StampFinished, Updated, JobRow
    <2>2. PICK at \in {"stamp", "good", "bad"} : Proceeds(s, at)
      BY <1>10 DEF BeginWork, EndRun
    <2>3. /\ executions' \in [Slots -> JobWork]
          /\ \A x \in Slots : executions'[x].count = executions[x].count
      BY <2>2 DEF Proceeds, JobWork
    <2>4. Executing
      BY <1>10 DEF Executing, BeginWork, EndRun
    <2>5. PausedQuietly'
      BY <1>10, <2>1, <2>4 DEF BeginWork, EndRun, PausedQuietly
    <2>6. CountIsNotAhead' /\ WorkIsNotAhead'
      BY <1>10, <2>1, <2>3 DEF BeginWork, EndRun, CountIsNotAhead, WorkIsNotAhead, MaxResults
    <2> QED
      BY <1>10, <2>1, <2>3, <2>5, <2>6 DEF BeginWork, EndRun
  <1>11. ASSUME NEW s \in Slots, RecordRun(s)
         PROVE  JobInv' /\ (~job.known => ~job'.known)
    <2> DEFINE w == executions[s]
    <2>1. w \in JobWork /\ w.count \in Nat /\ Executing
      BY <1>11 DEF RecordRun, JobWork, Executing
    <2>2. AfterRun(w).status \in {"active", "completed", "failed"} /\ AfterRun(w).next \in Int
      BY <2>1, JobConstants DEF AfterRun, JobWork, Never
    <2>3. CountAfter(w) \in Nat /\ CountAfter(w) <= w.count + 1
      BY <2>1, ResultsAreCapped DEF CountAfter
    <2>4. /\ job' \in JobRow /\ job'.known = job.known
          /\ job'.count = job.count \/ job'.count = CountAfter(w)
      BY <1>11, <1>a, <2>2, <2>3 DEF RecordRun, WriteRun, Updated, JobRow
    <2>5. /\ executions' \in [Slots -> JobWork]
          /\ \A x \in Slots : executions'[x].count \in {executions[x].count, 0}
      BY <1>11, <1>n DEF RecordRun, NoWork
    <2>6. /\ results' \in Nat
          /\ results' < MaxResults => results' = results + 1 /\ results < MaxResults
      BY <1>11, <1>a, ResultsAreCapped DEF RecordRun
    <2>7. PausedQuietly'
      BY <1>11, <2>1, <2>4 DEF RecordRun, PausedQuietly
    <2>8. CountIsNotAhead'
      <3>1. SUFFICES ASSUME results' < MaxResults PROVE job'.count <= results'
        BY DEF CountIsNotAhead, MaxResults
      <3>2. results' = results + 1 /\ job.count <= results /\ w.count <= results
        BY <2>6, <3>1, <1>a DEF CountIsNotAhead, WorkIsNotAhead
      <3> QED
        BY <1>a, <2>1, <2>3, <2>4, <3>2
    <2>9. WorkIsNotAhead'
      <3>1. SUFFICES ASSUME results' < MaxResults, NEW x \in Slots
                     PROVE  executions'[x].count <= results'
        BY DEF WorkIsNotAhead, MaxResults
      <3>2. results' = results + 1 /\ executions[x].count <= results
        BY <2>6, <3>1, <1>a DEF WorkIsNotAhead
      <3>3. executions[x].count \in Nat
        BY DEF JobWork
      <3> QED
        BY <2>5, <3>2, <3>3
    <2> QED
      BY <1>11, <2>4, <2>5, <2>6, <2>7, <2>8, <2>9 DEF RecordRun
  <1>12. CASE UNCHANGED jobVars
    BY <1>12
    DEF jobVars, PausedQuietly, Executing, CountIsNotAhead, WorkIsNotAhead, MaxResults
  <1> QED
    BY <1>1, <1>2, <1>3, <1>4, <1>5, <1>6, <1>7, <1>8, <1>9, <1>10, <1>11, <1>12
    DEF JobNext, Exec

\* An execution that ends, an edit that had read the row and a crash leave a job as
\* the user meant it: not revived, not un-paused in peace, not counted too much.
THEOREM JobsAreKept == JobSpec => JobsKept
  <1>1. JobInit => JobInv
    BY JobStarts
  <1>2. JobInv /\ [JobNext]_jobVars => JobInv'
    BY JobStays
  <1>3. JobSpec => []JobInv
    BY <1>1, <1>2, PTL DEF JobSpec
  <1>4. JobInv => PausedQuietly /\ CountIsNotAhead
    BY DEF JobInv
  <1>5. JobInv /\ [JobNext]_jobVars => [~job.known => ~job'.known]_jobVars
    BY JobStays
  <1>6. JobSpec => DeletedStays
    BY <1>3, <1>5, PTL DEF JobSpec, DeletedStays
  <1> QED
    BY <1>3, <1>4, <1>6, PTL DEF JobsKept
-----------------------------------------------------------------------------
(***************************************************************************)
(* Interruptions.  Only an interrupted run is ever dismissed, and a run    *)
(* the engine has in its table is running: what it pauses is on offer.     *)
(***************************************************************************)
PastRow == [status : {"none", "running", "completed", "paused", "interrupted", "superseded"},
            kind : {"none", "chat", "scheduled", "worker"}, of : {"none", "job", "task"},
            in : Talks \cup {"none"}, started : Nat, dismissed : BOOLEAN]
PanelType ==
  /\ past \in [Runs -> PastRow] /\ alive \subseteq Runs /\ tasks \subseteq Runs
  /\ today \in Nat
  /\ setting \in [auto : BOOLEAN, days : {0, 1}]
  /\ panel \in [days : Nat, limit : Nat, edits : Nat, restarts : Nat]

OnlyInterruptedDismissed ==
  \A r \in Runs : past[r].status \in {"running", "paused"} => ~past[r].dismissed
AliveIsRunning == \A r \in alive : past[r].status = "running"
PanelInv == PanelType /\ OnlyInterruptedDismissed /\ AliveIsRunning

LEMMA PanelStarts == PanelInit => PanelInv
  BY PanelConstants
  DEF PanelInit, PanelInv, PanelType, PastRow, NotRun, OnlyInterruptedDismissed, AliveIsRunning

\* A row that is written over another keeps the invariant when it is of the table and a
\* running or paused one is not dismissed.
LEMMA RowWritten ==
  ASSUME PanelInv, NEW r \in Runs, NEW row \in PastRow,
         row.status \in {"running", "paused"} => ~row.dismissed,
         past' = [past EXCEPT ![r] = row],
         alive' \subseteq Runs, \A x \in alive' : x = r \/ x \in alive,
         r \in alive' => row.status = "running"
  PROVE  /\ past' \in [Runs -> PastRow]
         /\ OnlyInterruptedDismissed' /\ AliveIsRunning'
  BY DEF PanelInv, PanelType, OnlyInterruptedDismissed, AliveIsRunning

\* A dismissed row differs in that alone.
LEMMA DismissedRow ==
  ASSUME NEW row \in PastRow
  PROVE  /\ [row EXCEPT !.dismissed = TRUE] \in PastRow
         /\ [row EXCEPT !.dismissed = TRUE].status = row.status
  BY DEF PastRow

LEMMA HideKeeps ==
  ASSUME PanelInv, NEW S \in SUBSET Of("interrupted"), past' = Hide(S), UNCHANGED alive
  PROVE  /\ past' \in [Runs -> PastRow]
         /\ OnlyInterruptedDismissed' /\ AliveIsRunning'
  <1>1. \A r \in Runs : past[r] \in PastRow
    BY DEF PanelInv, PanelType
  <1>2. \A r \in S : past[r].status = "interrupted"
    BY DEF Of
  <1>3. \A r \in Runs :
          /\ past'[r] \in PastRow /\ past'[r].status = past[r].status
          /\ r \notin S => past'[r] = past[r]
    BY <1>1, DismissedRow DEF Hide
  <1>4. past' \in [Runs -> PastRow]
    BY <1>3 DEF Hide
  <1> QED
    BY <1>2, <1>3, <1>4
    DEF PanelInv, PanelType, OnlyInterruptedDismissed, AliveIsRunning

LEMMA PanelStays == PanelInv /\ [PanelNext]_panelVars => PanelInv'
  <1> SUFFICES ASSUME PanelInv, [PanelNext]_panelVars PROVE PanelInv'
    OBVIOUS
  <1> USE DEF PanelInv, PanelType
  <1>1. CASE BeginRun
    <2>1. PICK r \in New, s \in Talks :
            \E o \in {<<"chat", "none">>, <<"scheduled", "job">>, <<"worker", "none">>,
                      <<"chat", "task">>} : LaunchIn(r, o[1], o[2], s)
      BY <1>1 DEF BeginRun
    <2>2. PICK kind \in {"chat", "scheduled", "worker"}, of \in {"none", "job", "task"} :
            LaunchIn(r, kind, of, s)
      BY <2>1
    <2> DEFINE row == [NotRun EXCEPT !.status = "running", !.kind = kind, !.of = of,
                                     !.in = s, !.started = today]
    <2>3. row \in PastRow /\ row.status = "running" /\ ~row.dismissed
      BY DEF NotRun, PastRow
    <2>4. r \in Runs /\ past' = [past EXCEPT ![r] = row] /\ alive' = alive \cup {r}
      BY <2>2 DEF LaunchIn, New
    <2> HIDE DEF row
    <2>5. past' \in [Runs -> PastRow] /\ OnlyInterruptedDismissed' /\ AliveIsRunning'
      BY <2>3, <2>4, RowWritten
    <2>6. tasks' \subseteq Runs
      BY <2>2, <2>4 DEF LaunchIn
    <2> QED
      BY <1>1, <2>4, <2>5, <2>6 DEF BeginRun
  <1>2. CASE DismissAll
    <2>1. {r \in Runs : Dismissable(r)} \in SUBSET Of("interrupted")
      BY DEF Of, Dismissable
    <2>2. /\ past' \in [Runs -> PastRow]
          /\ OnlyInterruptedDismissed' /\ AliveIsRunning'
      BY <1>2, <2>1, HideKeeps DEF DismissAll
    <2> QED
      BY <1>2, <2>1, <2>2 DEF DismissAll, Edits
  <1>3. CASE ChangeSetting
    BY <1>3 DEF ChangeSetting, Edits, OnlyInterruptedDismissed, AliveIsRunning
  <1>4. CASE NextDay
    BY <1>4 DEF NextDay, OnlyInterruptedDismissed, AliveIsRunning
  <1>5. CASE Restart
    <2>1. /\ Orphans \in [Runs -> PastRow]
          /\ \A r \in Runs : /\ Orphans[r].dismissed = past[r].dismissed
                             /\ Orphans[r].status \in {past[r].status, "interrupted"}
      BY DEF Orphans, PastRow
    <2>2. /\ past' \in [Runs -> PastRow]
          /\ \A r \in Runs : /\ past'[r].status = Orphans[r].status
                             /\ \/ past'[r].dismissed = Orphans[r].dismissed
                                \/ Orphans[r].status = "interrupted"
      <3>1. \A r \in Runs : past'[r] = IF Expired(Orphans[r])
                                       THEN [Orphans[r] EXCEPT !.dismissed = TRUE]
                                       ELSE Orphans[r]
        BY <1>5 DEF Restart
      <3>2. \A r \in Runs : past'[r] \in PastRow /\ past'[r].status = Orphans[r].status
        <4> SUFFICES ASSUME NEW r \in Runs
                     PROVE  past'[r] \in PastRow /\ past'[r].status = Orphans[r].status
          OBVIOUS
        <4>1. Orphans[r] \in PastRow
          BY <2>1
        <4>2. past'[r] \in {Orphans[r], [Orphans[r] EXCEPT !.dismissed = TRUE]}
          BY <3>1
        <4> QED
          BY <4>1, <4>2, DismissedRow
      <3>3. past' \in [Runs -> PastRow]
        BY <1>5, <3>2 DEF Restart
      <3> QED
        BY <3>1, <3>2, <3>3 DEF Expired
    <2>3. OnlyInterruptedDismissed' /\ AliveIsRunning'
      BY <1>5, <2>1, <2>2 DEF Restart, OnlyInterruptedDismissed, AliveIsRunning
    <2> QED
      BY <1>5, <2>2, <2>3 DEF Restart
  <1>6. ASSUME NEW r \in Runs, NEW status \in {"completed", "paused"}, EndRunAs(r, status)
        PROVE  PanelInv'
    <2> DEFINE row == [past[r] EXCEPT !.status = status]
    <2>1. row \in PastRow /\ row.dismissed = past[r].dismissed
      BY DEF PastRow
    <2>2. ~past[r].dismissed
      BY <1>6 DEF EndRunAs, AliveIsRunning, OnlyInterruptedDismissed
    <2>3. past' = [past EXCEPT ![r] = row] /\ alive' = alive \ {r}
      BY <1>6 DEF EndRunAs
    <2> HIDE DEF row
    <2>4. past' \in [Runs -> PastRow] /\ OnlyInterruptedDismissed' /\ AliveIsRunning'
      BY <2>1, <2>2, <2>3, RowWritten
    <2> QED
      BY <1>6, <2>3, <2>4 DEF EndRunAs
  <1>7. ASSUME NEW r \in Runs, ResumeOffered(r)
        PROVE  PanelInv'
    <2>1. PICK n \in New :
            /\ past' = [past EXCEPT ![r].status = "superseded",
                                    ![n] = [past[r] EXCEPT !.status = "running",
                                                           !.started = today,
                                                           !.dismissed = FALSE]]
            /\ alive' = alive \cup {n}
      BY <1>7 DEF ResumeOffered
    <2>2. n \in Runs /\ past[n].status = "none" /\ past[r].status \in {"paused", "interrupted"}
      BY <1>7 DEF ResumeOffered, New, Accepts
    <2> DEFINE row == [past[r] EXCEPT !.status = "running", !.started = today,
                                      !.dismissed = FALSE]
               old == [past[r] EXCEPT !.status = "superseded"]
    <2>3. /\ row \in PastRow /\ row.status = "running" /\ ~row.dismissed
          /\ old \in PastRow /\ old.status = "superseded"
      BY DEF PastRow
    <2>4. past' = [past EXCEPT ![r] = old, ![n] = row] /\ n # r /\ r \notin alive
      BY <2>1, <2>2 DEF AliveIsRunning
    <2> HIDE DEF row, old
    <2>5. past' \in [Runs -> PastRow] /\ past'[n] = row /\ past'[r] = old
          /\ \A x \in Runs \ {r, n} : past'[x] = past[x]
      BY <2>2, <2>3, <2>4
    <2>6. OnlyInterruptedDismissed' /\ AliveIsRunning'
      BY <2>1, <2>2, <2>3, <2>4, <2>5 DEF OnlyInterruptedDismissed, AliveIsRunning
    <2> QED
      BY <1>7, <2>1, <2>2, <2>5, <2>6 DEF ResumeOffered, Edits
  <1>8. ASSUME NEW r \in Runs, Dismiss(r)
        PROVE  PanelInv'
    <2>1. {r} \in SUBSET Of("interrupted")
      BY <1>8 DEF Dismiss, Interrupted, Of
    <2>2. /\ past' \in [Runs -> PastRow]
          /\ OnlyInterruptedDismissed' /\ AliveIsRunning'
      BY <1>8, <2>1, HideKeeps DEF Dismiss
    <2>3. Edits /\ UNCHANGED <<alive, tasks, setting, today>>
      BY <1>8 DEF Dismiss
    <2> QED
      BY <2>2, <2>3 DEF Edits
  <1>9. ASSUME NEW r \in Runs, DeleteTaskRow(r)
        PROVE  PanelInv'
    BY <1>9 DEF DeleteTaskRow, Edits, OnlyInterruptedDismissed, AliveIsRunning
  <1>10. CASE UNCHANGED panelVars
    BY <1>10 DEF panelVars, OnlyInterruptedDismissed, AliveIsRunning
  <1> QED
    BY <1>1, <1>2, <1>3, <1>4, <1>5, <1>6, <1>7, <1>8, <1>9, <1>10 DEF PanelNext

\* The bound of restarts is spent by a restart alone.
LEMMA OnlyRestartRestarts ==
  ASSUME PanelInv, [PanelNext]_panelVars, panel'.restarts < panel.restarts
  PROVE  Restart
  <1>1. panel.restarts \in Nat
    BY DEF PanelInv, PanelType
  <1>2. ~(panel'.restarts = panel.restarts)
    BY <1>1
  <1>3. Edits => panel'.restarts = panel.restarts
    BY DEF Edits, PanelInv, PanelType
  <1> QED
    BY <1>2, <1>3
    DEF PanelNext, panelVars, BeginRun, DismissAll, ChangeSetting, NextDay, EndRunAs,
        ResumeOffered, Dismiss, DeleteTaskRow

LEMMA RestartFinds ==
  ASSUME PanelInv, [PanelNext]_panelVars, panel'.restarts < panel.restarts,
         NEW r \in Of("running"), ResumableKind(past[r].kind)
  PROVE  past'[r].status = "interrupted"
  <1>1. Restart /\ r \in Runs /\ past[r].status = "running" /\ past[r] \in PastRow
    BY OnlyRestartRestarts DEF Of, PanelInv, PanelType
  <1>2. Orphans[r] = [past[r] EXCEPT !.status = "interrupted"]
    BY <1>1 DEF Orphans
  <1>3. Orphans[r] \in PastRow /\ Orphans[r].status = "interrupted"
    BY <1>1, <1>2 DEF PastRow
  <1>4. past'[r] \in {Orphans[r], [Orphans[r] EXCEPT !.dismissed = TRUE]}
    BY <1>1 DEF Restart
  <1> QED
    BY <1>3, <1>4 DEF PastRow

\* The panel of interrupted runs offers what can be resumed, keeps on offer what the
\* user paused, and after a restart nothing that could be resumed counts as running.
THEOREM OffersAreKept == PanelSpec => OffersAreTrue
  <1>1. PanelInit => PanelInv
    BY PanelStarts
  <1>2. PanelInv /\ [PanelNext]_panelVars => PanelInv'
    BY PanelStays
  <1>3. PanelSpec => []PanelInv
    BY <1>1, <1>2, PTL DEF PanelSpec
  <1>4. PanelInv => OfferedResumes
    BY DEF OfferedResumes, Offered, Recoverable, Accepts
  <1>5. PanelInv => PausedIsOffered
    BY DEF PanelInv, OnlyInterruptedDismissed, PausedIsOffered, Of, Recoverable
  <1>6. PanelInv /\ [PanelNext]_panelVars =>
          [panel'.restarts < panel.restarts
             => \A r \in Of("running") :
                  ResumableKind(past[r].kind) => past'[r].status = "interrupted"]_panelVars
    BY RestartFinds
  <1>7. PanelSpec => RestartAdopts
    BY <1>3, <1>6, PTL DEF PanelSpec, RestartAdopts
  <1> QED
    BY <1>3, <1>4, <1>5, <1>7, PTL DEF OffersAreTrue
-----------------------------------------------------------------------------
(***************************************************************************)
(* Workspaces.  What a deletion has left to do says what it has done: when *)
(* only the row is left nothing is filed under it any more, and one that   *)
(* is at the messages or the entries was asked to take them along.         *)
(***************************************************************************)
FileTexts == {"absent", "template", "own"} \cup Rooms
KnownFiles == Knowledge \cup {"config.json"}
EntryRow == [row : {"none", "there", "gone"}, in : Rooms \cup {Unfiled, Literal},
             messages : {0, 1}, digest : BOOLEAN]
\* what is left of a deletion
MovesLeft == {<<"move", "row">>}
TakesLeft == {<<"messages", "digests", "entries", "row">>, <<"digests", "entries", "row">>,
              <<"entries", "row">>}
RowLeft == <<"row">>
RoomsType ==
  /\ room \in [Rooms -> [row : {"none", "there", "gone"}, folder : Folders \cup {NoFolder}]]
  /\ entry \in [RoomSessions -> EntryRow]
  /\ dot \in [Folders -> [KnownFiles -> FileTexts]]
  /\ doing \in [Rooms -> {<<>>, <<"init">>, RowLeft} \cup MovesLeft \cup TakesLeft]
  /\ asked \subseteq Rooms /\ late \subseteq RoomSessions
  /\ spared \in [edits : Nat, crashes : Nat]

\* A session that was not created beside a deletion is filed under a workspace that is there.
FiledIsThere ==
  \A s \in RoomSessions \ late :
    entry[s].row = "there" => entry[s].in \in {Unfiled, Literal} \/ There(entry[s].in)
EmptiedBeforeRow == \A w \in Rooms : doing[w] = RowLeft => Filed(w) \subseteq late
TakenIsAsked == \A w \in Rooms : doing[w] \in TakesLeft => w \in asked
RoomsInv == RoomsType /\ FiledIsThere /\ EmptiedBeforeRow /\ TakenIsAsked

LEMMA NamesDiffer == Unfiled # Literal /\ Unfiled \notin Rooms /\ Literal \notin Rooms
  BY RoomConstants DEF Unfiled, Literal

\* The first of what is left, and the rest.
LEMMA StatementsInOrder ==
  /\ Statements(TRUE) \in MovesLeft /\ Statements(FALSE) \in TakesLeft
  /\ \A q \in MovesLeft : Head(q) = "move" /\ Tail(q) = RowLeft
  /\ Head(RowLeft) = "row" /\ Tail(RowLeft) = <<>>
  /\ \A q \in TakesLeft : \/ Head(q) \in {"messages", "digests"} /\ Tail(q) \in TakesLeft
                          \/ Head(q) = "entries" /\ Tail(q) = RowLeft
  BY DEF Statements, MovesLeft, TakesLeft, RowLeft
LEMMA StatementsDiffer ==
  \A q \in MovesLeft \cup TakesLeft : q # RowLeft /\ q # <<>> /\ q # <<"init">>
  BY DEF MovesLeft, TakesLeft, RowLeft
LEMMA MovesAreNotTakes ==
  /\ MovesLeft \cap TakesLeft = {}
  /\ RowLeft \notin MovesLeft \cup TakesLeft /\ RowLeft # <<>> /\ RowLeft # <<"init">>
  /\ <<"init">> # <<>>
  BY DEF MovesLeft, TakesLeft, RowLeft

\* The session is in the count of exactly one listed workspace.
LEMMA CountedOnce ==
  ASSUME RoomsInv, NEW s \in RoomSessions \ late, entry[s].row = "there", entry[s].in # Literal
  PROVE  Cardinality({w \in Listed : s \in Counted(w)}) = 1
  <1>1. CASE entry[s].in = Unfiled
    <2>1. {w \in Listed : s \in Counted(w)} = {Literal}
      BY <1>1, NamesDiffer DEF Listed, Counted, Filed
    <2> QED
      BY <2>1, FS_Singleton
  <1>2. CASE entry[s].in # Unfiled
    <2>1. entry[s].in \in Rooms /\ There(entry[s].in)
      BY <1>2 DEF RoomsInv, RoomsType, FiledIsThere, EntryRow
    <2>2. {w \in Listed : s \in Counted(w)} = {entry[s].in}
      BY <1>2, <2>1, NamesDiffer DEF Listed, Counted, Filed
    <2> QED
      BY <2>2, FS_Singleton
  <1> QED
    BY <1>1, <1>2

LEMMA RoomsStart == RoomsInit => RoomsInv
  <1> SUFFICES ASSUME RoomsInit PROVE RoomsInv
    OBVIOUS
  <1>1. NoEntry \in EntryRow /\ NoEntry.row = "none"
    BY DEF NoEntry, EntryRow
  <1>2. RoomsType
    BY <1>1, RoomConstants DEF RoomsInit, RoomsType, FileTexts, KnownFiles
  <1>3. FiledIsThere
    BY <1>1 DEF RoomsInit, FiledIsThere
  <1>4. EmptiedBeforeRow /\ TakenIsAsked
    BY StatementsDiffer, MovesAreNotTakes DEF RoomsInit, EmptiedBeforeRow, TakenIsAsked
  <1> QED
    BY <1>2, <1>3, <1>4 DEF RoomsInv

\* The bounds are counted down, so a step that spends one is not mistaken for another.
LEMMA SpareSpends ==
  ASSUME RoomsInv, NEW f \in {"edits", "crashes"}, Spare(f)
  PROVE  spared' \in [edits : Nat, crashes : Nat] /\ spared' # spared
  <1>1. spared[f] \in Nat /\ spared[f] > 0
    BY DEF Spare, RoomsInv, RoomsType
  <1>2. spared'[f] = spared[f] - 1
    BY DEF Spare, RoomsInv, RoomsType
  <1>3. spared' # spared
    BY <1>1, <1>2
  <1> QED
    BY <1>1, <1>3 DEF Spare, RoomsInv, RoomsType

\* Writing one entry, or some, in place: the rows that are not there do not matter.
LEMMA FiledKept ==
  ASSUME RoomsInv, UNCHANGED <<room, doing>>, late \subseteq late',
         \A s \in RoomSessions :
           entry'[s].row = "there" => entry[s].row = "there" /\ entry'[s].in = entry[s].in
  PROVE  FiledIsThere' /\ EmptiedBeforeRow'
  BY DEF RoomsInv, FiledIsThere, EmptiedBeforeRow, Filed, There

LEMMA CreateWorkspaceKeeps ==
  ASSUME RoomsInv, NEW w \in Rooms, CreateWorkspace(w)
  PROVE  RoomsInv' /\ spared' # spared /\ UNCHANGED <<entry, dot>>
  <1>1. PICK f \in Folders \cup {NoFolder} :
          /\ room' = [room EXCEPT ![w] = [row |-> "there", folder |-> f]]
          /\ doing' = [doing EXCEPT ![w] = IF f = NoFolder THEN <<>> ELSE <<"init">>]
    BY DEF CreateWorkspace
  <1>2. spared' \in [edits : Nat, crashes : Nat] /\ spared' # spared
    BY SpareSpends DEF CreateWorkspace
  <1>3. RoomsType'
    BY <1>1, <1>2 DEF RoomsInv, RoomsType, CreateWorkspace
  <1>4. FiledIsThere'
    BY <1>1 DEF RoomsInv, RoomsType, FiledIsThere, There, CreateWorkspace
  <1>5. EmptiedBeforeRow' /\ TakenIsAsked'
    BY <1>1, StatementsDiffer, MovesAreNotTakes
    DEF RoomsInv, RoomsType, EmptiedBeforeRow, TakenIsAsked, Filed, CreateWorkspace
  <1> QED
    BY <1>2, <1>3, <1>4, <1>5 DEF RoomsInv, CreateWorkspace

LEMMA InitWorkspaceKeeps ==
  ASSUME RoomsInv, NEW w \in Rooms, InitWorkspaceDir(w)
  PROVE  /\ RoomsInv' /\ UNCHANGED entry
         /\ \A f \in Folders, k \in Knowledge : dot[f][k] = "own" => dot'[f][k] = "own"
  <1> DEFINE files(old) == [k \in DOMAIN old |-> IF k = "config.json" THEN w
                                                 ELSE WriteIfAbsent(old, k)]
             g == room[w].folder
  <1>1. \A old \in [KnownFiles -> FileTexts] :
          /\ files(old) \in [KnownFiles -> FileTexts]
          /\ \A k \in Knowledge : old[k] = "own" => files(old)[k] = "own"
    <2> SUFFICES ASSUME NEW old \in [KnownFiles -> FileTexts]
                 PROVE  /\ files(old) \in [KnownFiles -> FileTexts]
                        /\ \A k \in Knowledge : old[k] = "own" => files(old)[k] = "own"
      OBVIOUS
    <2>1. \A k \in KnownFiles : WriteIfAbsent(old, k) \in FileTexts
      BY DEF WriteIfAbsent, FileTexts
    <2>2. w \in FileTexts /\ DOMAIN old = KnownFiles
      BY DEF FileTexts
    <2>3. files(old) \in [KnownFiles -> FileTexts]
      BY <2>1, <2>2
    <2>4. \A k \in Knowledge : k \in KnownFiles /\ k # "config.json"
      BY DEF KnownFiles, Knowledge
    <2>5. \A k \in Knowledge : old[k] = "own" => files(old)[k] = "own"
      BY <2>2, <2>4 DEF WriteIfAbsent
    <2> QED
      BY <2>3, <2>5
  <1>2. dot' = [dot EXCEPT ![g] = files(dot[g])] \/ dot' = dot
    BY DEF InitWorkspaceDir
  <1>3. /\ dot' \in [Folders -> [KnownFiles -> FileTexts]]
        /\ \A f \in Folders, k \in Knowledge : dot[f][k] = "own" => dot'[f][k] = "own"
    <2> HIDE DEF files, g
    <2>1. dot \in [Folders -> [KnownFiles -> FileTexts]]
      BY DEF RoomsInv, RoomsType
    <2>2. ASSUME NEW f \in Folders
          PROVE  /\ dot'[f] \in [KnownFiles -> FileTexts]
                 /\ \A k \in Knowledge : dot[f][k] = "own" => dot'[f][k] = "own"
      <3>1. dot'[f] = dot[f] \/ dot'[f] = files(dot[f])
        BY <1>2, <2>1
      <3> QED
        BY <1>1, <2>1, <3>1
    <2>3. dot' \in [Folders -> [KnownFiles -> FileTexts]]
      BY <1>2, <2>1, <2>2
    <2> QED
      BY <2>2, <2>3
  <1>4. RoomsType'
    BY <1>3 DEF RoomsInv, RoomsType, InitWorkspaceDir
  <1>5. FiledIsThere'
    BY DEF RoomsInv, FiledIsThere, There, InitWorkspaceDir
  <1>6. EmptiedBeforeRow' /\ TakenIsAsked'
    BY StatementsDiffer, MovesAreNotTakes
    DEF RoomsInv, RoomsType, EmptiedBeforeRow, TakenIsAsked, Filed, InitWorkspaceDir
  <1> QED
    BY <1>3, <1>4, <1>5, <1>6 DEF RoomsInv, InitWorkspaceDir

LEMMA WriteKnowledgeKeeps ==
  ASSUME RoomsInv, NEW g \in Folders, NEW j \in Knowledge, WriteKnowledge(g, j)
  PROVE  /\ RoomsInv' /\ UNCHANGED entry
         /\ \A f \in Folders, k \in Knowledge : dot[f][k] = "own" => dot'[f][k] = "own"
  <1>1. spared' \in [edits : Nat, crashes : Nat]
    BY SpareSpends DEF WriteKnowledge
  <1>2. /\ dot' \in [Folders -> [KnownFiles -> FileTexts]]
        /\ \A f \in Folders, k \in Knowledge : dot[f][k] = "own" => dot'[f][k] = "own"
    BY DEF WriteKnowledge, RoomsInv, RoomsType, KnownFiles, FileTexts
  <1>3. RoomsType'
    BY <1>1, <1>2 DEF RoomsInv, RoomsType, WriteKnowledge
  <1>4. FiledIsThere' /\ EmptiedBeforeRow' /\ TakenIsAsked'
    BY DEF RoomsInv, FiledIsThere, EmptiedBeforeRow, TakenIsAsked, There, Filed, WriteKnowledge
  <1> QED
    BY <1>2, <1>3, <1>4 DEF RoomsInv, WriteKnowledge

LEMMA CreateEntryKeeps ==
  ASSUME RoomsInv, NEW s \in RoomSessions, CreateEntry(s)
  PROVE  RoomsInv' /\ spared' # spared /\ UNCHANGED dot
  <1>1. PICK w \in {x \in Rooms : room[x].row # "none"} \cup {Unfiled, Literal} :
          /\ entry' = [entry EXCEPT ![s] = [NoEntry EXCEPT !.row = "there", !.in = w]]
          /\ late' = IF w \in Rooms /\ (~There(w) \/ doing[w] # <<>>) THEN late \cup {s} ELSE late
    BY DEF CreateEntry
  <1> DEFINE made == [NoEntry EXCEPT !.row = "there", !.in = w]
  <1>2. made \in EntryRow /\ made.row = "there" /\ made.in = w
    BY DEF NoEntry, EntryRow
  <1>3. entry' = [entry EXCEPT ![s] = made] /\ UNCHANGED <<room, dot, doing, asked>>
    BY <1>1 DEF CreateEntry
  <1> HIDE DEF made
  <1>4. spared' \in [edits : Nat, crashes : Nat] /\ spared' # spared
    BY SpareSpends DEF CreateEntry
  <1>5. RoomsType'
    BY <1>1, <1>2, <1>3, <1>4 DEF RoomsInv, RoomsType
  <1>6. s \notin late' /\ w \in Rooms => There(w) /\ doing[w] = <<>>
    BY <1>1
  <1>7. late \subseteq late' /\ \A x \in RoomSessions : entry'[x] = IF x = s THEN made ELSE entry[x]
    BY <1>1, <1>3 DEF RoomsInv, RoomsType
  <1>8. FiledIsThere'
    <2> SUFFICES ASSUME NEW x \in RoomSessions \ late', entry'[x].row = "there"
                 PROVE  entry'[x].in \in {Unfiled, Literal} \/ room'[entry'[x].in].row = "there"
      BY DEF FiledIsThere, There
    <2>1. CASE x = s
      BY <1>1, <1>2, <1>3, <1>6, <1>7, <2>1 DEF There
    <2>2. CASE x # s
      BY <1>3, <1>7, <2>2 DEF RoomsInv, FiledIsThere, There
    <2> QED
      BY <2>1, <2>2
  <1>9. EmptiedBeforeRow'
    <2> SUFFICES ASSUME NEW v \in Rooms, doing'[v] = RowLeft, NEW x \in RoomSessions,
                        entry'[x].row = "there", entry'[x].in = v
                 PROVE  x \in late'
      BY DEF EmptiedBeforeRow, Filed
    <2>1. CASE x = s
      BY <1>2, <1>3, <1>6, <1>7, <2>1, MovesAreNotTakes
    <2>2. CASE x # s
      BY <1>3, <1>7, <2>2 DEF RoomsInv, EmptiedBeforeRow, Filed
    <2> QED
      BY <2>1, <2>2
  <1>10. TakenIsAsked'
    BY <1>3 DEF RoomsInv, TakenIsAsked
  <1> QED
    BY <1>3, <1>4, <1>5, <1>8, <1>9, <1>10 DEF RoomsInv

LEMMA TalkKeeps ==
  ASSUME RoomsInv, NEW s \in RoomSessions, Talk(s)
  PROVE  /\ RoomsInv' /\ UNCHANGED dot
         /\ \A x \in RoomSessions : entry[x].messages > 0 => entry'[x].messages > 0
  <1> DEFINE filled == [entry[s] EXCEPT !.messages = 1, !.digest = TRUE]
  <1>1. /\ filled \in EntryRow /\ filled.row = entry[s].row /\ filled.in = entry[s].in
        /\ filled.messages = 1
    BY DEF RoomsInv, RoomsType, EntryRow
  <1>2. entry' = [entry EXCEPT ![s] = filled] /\ UNCHANGED <<room, dot, doing, asked, late, spared>>
    BY DEF Talk, RoomsInv, RoomsType
  <1> HIDE DEF filled
  <1>3. RoomsType'
    BY <1>1, <1>2 DEF RoomsInv, RoomsType
  <1>4. FiledIsThere' /\ EmptiedBeforeRow'
    BY <1>1, <1>2, FiledKept DEF RoomsInv, RoomsType
  <1>5. TakenIsAsked'
    BY <1>2 DEF RoomsInv, TakenIsAsked
  <1> QED
    BY <1>1, <1>2, <1>3, <1>4, <1>5 DEF RoomsInv, RoomsType

LEMMA DeleteEntryKeeps ==
  ASSUME RoomsInv, NEW s \in RoomSessions, DeleteEntry(s)
  PROVE  RoomsInv' /\ spared' # spared /\ UNCHANGED dot
  <1> DEFINE left == [entry[s] EXCEPT !.row = "gone", !.messages = 0]
  <1>1. left \in EntryRow /\ left.row = "gone"
    BY DEF RoomsInv, RoomsType, EntryRow
  <1>2. entry' = [entry EXCEPT ![s] = left] /\ UNCHANGED <<room, dot, doing, asked, late>>
    BY DEF DeleteEntry, RoomsInv, RoomsType
  <1> HIDE DEF left
  <1>3. spared' \in [edits : Nat, crashes : Nat] /\ spared' # spared
    BY SpareSpends DEF DeleteEntry
  <1>4. RoomsType'
    BY <1>1, <1>2, <1>3 DEF RoomsInv, RoomsType
  <1>5. FiledIsThere' /\ EmptiedBeforeRow'
    BY <1>1, <1>2, FiledKept DEF RoomsInv, RoomsType
  <1>6. TakenIsAsked'
    BY <1>2 DEF RoomsInv, TakenIsAsked
  <1> QED
    BY <1>2, <1>3, <1>4, <1>5, <1>6 DEF RoomsInv

LEMMA DeleteWorkspaceKeeps ==
  ASSUME RoomsInv, NEW w \in Rooms, DeleteWorkspace(w)
  PROVE  RoomsInv' /\ UNCHANGED <<entry, dot>>
  <1>1. PICK move \in BOOLEAN :
          /\ doing' = [doing EXCEPT ![w] = Statements(move)]
          /\ asked' = IF move THEN asked ELSE asked \cup {w}
    BY DEF DeleteWorkspace
  <1>2. spared' \in [edits : Nat, crashes : Nat]
    BY SpareSpends DEF DeleteWorkspace
  <1>3. /\ Statements(move) \in MovesLeft \cup TakesLeft
        /\ Statements(move) \in TakesLeft => ~move
    BY StatementsInOrder, MovesAreNotTakes
  <1>4. RoomsType'
    BY <1>1, <1>2, <1>3 DEF RoomsInv, RoomsType, DeleteWorkspace
  <1>5. FiledIsThere'
    BY DEF RoomsInv, FiledIsThere, There, DeleteWorkspace
  <1>6. EmptiedBeforeRow' /\ TakenIsAsked'
    BY <1>1, <1>3, MovesAreNotTakes
    DEF RoomsInv, RoomsType, EmptiedBeforeRow, TakenIsAsked, Filed, DeleteWorkspace
  <1> QED
    BY <1>4, <1>5, <1>6 DEF RoomsInv, DeleteWorkspace

LEMMA RoomsCrashKeeps ==
  ASSUME RoomsInv, RoomsCrash
  PROVE  RoomsInv' /\ UNCHANGED <<entry, dot>>
  <1>1. spared' \in [edits : Nat, crashes : Nat]
    BY SpareSpends DEF RoomsCrash
  <1>2. RoomsType'
    BY <1>1 DEF RoomsInv, RoomsType, RoomsCrash
  <1>3. FiledIsThere'
    BY DEF RoomsInv, FiledIsThere, There, RoomsCrash
  <1>4. EmptiedBeforeRow' /\ TakenIsAsked'
    BY StatementsDiffer, MovesAreNotTakes
    DEF EmptiedBeforeRow, TakenIsAsked, RoomsCrash
  <1> QED
    BY <1>2, <1>3, <1>4 DEF RoomsInv, RoomsCrash

\* One statement of a deletion, and what it does to the rows.
LEMMA ExecuteKeeps ==
  ASSUME RoomsInv, NEW w \in Rooms, Execute(w)
  PROVE  /\ RoomsInv' /\ UNCHANGED dot
         /\ \A s \in RoomSessions :
              entry[s].messages > 0 /\ entry'[s].messages = 0 => entry[s].in \in asked
  <1> DEFINE q == doing[w]
  <1>1. /\ q \in {RowLeft} \cup MovesLeft \cup TakesLeft
        /\ doing' = [doing EXCEPT ![w] = Tail(q)]
        /\ room' = IF Head(q) = "row" THEN [room EXCEPT ![w].row = "gone"] ELSE room
        /\ UNCHANGED <<dot, asked, late, spared>>
    BY DEF Execute, RoomsInv, RoomsType
  <1>2. \A s \in RoomSessions : entry[s] \in EntryRow
    BY DEF RoomsInv, RoomsType
  <1>3. Tail(q) \in {<<>>, RowLeft} \cup TakesLeft
    BY <1>1, StatementsInOrder
  <1>4. /\ room' \in [Rooms -> [row : {"none", "there", "gone"}, folder : Folders \cup {NoFolder}]]
        /\ doing' \in [Rooms -> {<<>>, <<"init">>, RowLeft} \cup MovesLeft \cup TakesLeft]
    BY <1>1, <1>3 DEF RoomsInv, RoomsType
  <1>5. TakenIsAsked'
    <2>1. Tail(q) \in TakesLeft => q \in TakesLeft
      BY <1>1, StatementsInOrder, StatementsDiffer, MovesAreNotTakes
    <2> QED
      BY <1>1, <2>1 DEF RoomsInv, RoomsType, TakenIsAsked
  <1>6. CASE q = RowLeft
    <2>1. Head(q) = "row" /\ Tail(q) = <<>>
      BY <1>6, StatementsInOrder
    <2>2. UNCHANGED entry
      BY <2>1 DEF Execute
    <2>3. \A s \in RoomSessions \ late : entry[s].row = "there" => entry[s].in # w
      BY <1>6 DEF RoomsInv, EmptiedBeforeRow, Filed
    <2>4. \A v \in Rooms \ {w} : room'[v] = room[v] /\ doing'[v] = doing[v]
      BY <1>1 DEF RoomsInv, RoomsType
    <2>5. FiledIsThere'
      <3> SUFFICES ASSUME NEW s \in RoomSessions \ late, entry[s].row = "there"
                   PROVE  entry[s].in \in {Unfiled, Literal} \/ room'[entry[s].in].row = "there"
        BY <1>1, <2>2 DEF FiledIsThere, There
      <3>1. entry[s].in \in Rooms \cup {Unfiled, Literal} /\ entry[s].in # w
        BY <1>2, <2>3 DEF EntryRow
      <3> QED
        BY <2>4, <3>1 DEF RoomsInv, FiledIsThere, There
    <2>6. EmptiedBeforeRow'
      <3>1. doing'[w] = <<>>
        BY <1>1, <2>1 DEF RoomsInv, RoomsType
      <3> QED
        BY <1>1, <2>2, <2>4, <3>1, MovesAreNotTakes DEF RoomsInv, EmptiedBeforeRow, Filed
    <2> QED
      BY <1>1, <1>2, <1>4, <1>5, <2>2, <2>5, <2>6 DEF RoomsInv, RoomsType
  <1>7. CASE q # RowLeft
    <2>1. Head(q) # "row" /\ UNCHANGED room
      BY <1>1, <1>7, StatementsInOrder
    <2>2. PICK st \in {"move", "messages", "digests", "entries"} : st = Head(q)
      BY <1>1, <1>7, StatementsInOrder
    <2> DEFINE new(e) == CASE st = "move" -> [e EXCEPT !.in = Unfiled]
                           [] st = "messages" -> [e EXCEPT !.messages = 0]
                           [] st = "digests" -> [e EXCEPT !.digest = FALSE]
                           [] st = "entries" -> [e EXCEPT !.row = "gone", !.messages = 0]
    <2>3. entry' = [s \in RoomSessions |-> IF s \in Filed(w) THEN new(entry[s]) ELSE entry[s]]
      BY <2>2 DEF Execute, Update
    <2>4. \A e \in EntryRow :
            /\ new(e) \in EntryRow
            /\ new(e).in # e.in => st = "move" /\ new(e).in = Unfiled
            /\ st = "move" => new(e).in = Unfiled
            /\ new(e).row = "there" => e.row = "there" /\ st # "entries"
            /\ new(e).messages # e.messages => st \in {"messages", "entries"}
      BY DEF EntryRow
    <2> HIDE DEF new
    <2>5. entry' \in [RoomSessions -> EntryRow]
      BY <1>2, <2>3, <2>4
    <2>6. \A s \in RoomSessions :
            \/ entry'[s] = entry[s] /\ s \notin Filed(w)
            \/ entry'[s] = new(entry[s]) /\ s \in Filed(w)
      BY <2>3
    <2>7. FiledIsThere'
      <3> SUFFICES ASSUME NEW s \in RoomSessions \ late, entry'[s].row = "there"
                   PROVE  entry'[s].in \in {Unfiled, Literal} \/ room[entry'[s].in].row = "there"
        BY <1>1, <2>1 DEF FiledIsThere, There
      <3>1. entry[s].row = "there" /\ entry'[s].in \in {entry[s].in, Unfiled}
        BY <1>2, <2>4, <2>6
      <3> QED
        BY <3>1 DEF RoomsInv, FiledIsThere, There
    <2>8. EmptiedBeforeRow'
      <3> SUFFICES ASSUME NEW v \in Rooms, doing'[v] = RowLeft, NEW s \in RoomSessions,
                          entry'[s].row = "there", entry'[s].in = v
                   PROVE  s \in late
        BY <1>1 DEF EmptiedBeforeRow, Filed
      <3>1. v # Unfiled
        BY NamesDiffer
      <3>2. entry[s].row = "there" /\ entry[s].in = v
        BY <1>2, <2>4, <2>6, <3>1
      <3>3. CASE v = w
        <4>1. s \in Filed(w)
          BY <3>2, <3>3 DEF Filed
        <4>2. Tail(q) = RowLeft
          BY <1>1, <3>3 DEF RoomsInv, RoomsType
        <4>3. st \in {"move", "entries"}
          BY <1>1, <1>7, <2>2, <4>2, StatementsInOrder, MovesAreNotTakes
        <4> QED
          BY <1>2, <2>4, <2>6, <3>1, <4>1, <4>3
      <3>4. CASE v # w
        <4>1. doing[v] = RowLeft
          BY <1>1, <3>4 DEF RoomsInv, RoomsType
        <4> QED
          BY <3>2, <4>1 DEF RoomsInv, EmptiedBeforeRow, Filed
      <3> QED
        BY <3>3, <3>4
    <2>9. \A s \in RoomSessions :
            entry[s].messages > 0 /\ entry'[s].messages = 0 => entry[s].in \in asked
      <3> SUFFICES ASSUME NEW s \in RoomSessions, entry[s].messages # entry'[s].messages
                   PROVE  entry[s].in \in asked
        BY <1>2 DEF EntryRow
      <3>1. s \in Filed(w) /\ st \in {"messages", "entries"}
        BY <1>2, <2>4, <2>6
      <3>2. q \in TakesLeft
        BY <1>1, <1>7, <2>2, <3>1, StatementsInOrder
      <3> QED
        BY <3>1, <3>2 DEF RoomsInv, TakenIsAsked, Filed
    <2> QED
      BY <1>1, <1>4, <1>5, <2>5, <2>7, <2>8, <2>9 DEF RoomsInv, RoomsType
  <1> QED
    BY <1>6, <1>7

\* Every step keeps the invariant, takes no message unasked and no text of the user's.
LEMMA RoomsStay ==
  ASSUME RoomsInv, [RoomsNext]_roomVars
  PROVE  /\ RoomsInv'
         /\ \A s \in RoomSessions :
              entry[s].messages > 0 /\ entry'[s].messages = 0 /\ spared' = spared
                => entry[s].in \in asked
         /\ \A f \in Folders, k \in Knowledge : dot[f][k] = "own" => dot'[f][k] = "own"
  <1>1. CASE UNCHANGED roomVars
    <2>1. RoomsInv'
      BY <1>1 DEF roomVars, RoomsInv, RoomsType, FiledIsThere, EmptiedBeforeRow, TakenIsAsked,
                  There, Filed
    <2>2. \A s \in RoomSessions : ~(entry[s].messages > 0 /\ entry'[s].messages = 0)
      BY <1>1 DEF roomVars
    <2> QED
      BY <1>1, <2>1, <2>2 DEF roomVars
  <1>2. ASSUME NEW w \in Rooms,
               \/ CreateWorkspace(w) \/ InitWorkspaceDir(w) \/ DeleteWorkspace(w) \/ Execute(w)
        PROVE  /\ RoomsInv'
               /\ \A s \in RoomSessions :
                    entry[s].messages > 0 /\ entry'[s].messages = 0 => entry[s].in \in asked
               /\ \A f \in Folders, k \in Knowledge : dot[f][k] = "own" => dot'[f][k] = "own"
    <2>1. CASE CreateWorkspace(w)
      BY <2>1, CreateWorkspaceKeeps
    <2>2. CASE InitWorkspaceDir(w)
      <3>1. RoomsInv' /\ UNCHANGED entry
        BY <2>2, InitWorkspaceKeeps
      <3>2. \A f \in Folders, k \in Knowledge : dot[f][k] = "own" => dot'[f][k] = "own"
        BY <2>2, InitWorkspaceKeeps
      <3> QED
        BY <3>1, <3>2
    <2>3. CASE DeleteWorkspace(w)
      BY <2>3, DeleteWorkspaceKeeps
    <2>4. CASE Execute(w)
      BY <2>4, ExecuteKeeps
    <2> QED
      BY <1>2, <2>1, <2>2, <2>3, <2>4
  <1>3. ASSUME NEW s \in RoomSessions, CreateEntry(s) \/ Talk(s) \/ DeleteEntry(s)
        PROVE  /\ RoomsInv' /\ UNCHANGED dot
               /\ \/ spared' # spared
                  \/ \A x \in RoomSessions : entry[x].messages > 0 => entry'[x].messages > 0
    BY <1>3, CreateEntryKeeps, TalkKeeps, DeleteEntryKeeps
  <1>4. ASSUME NEW g \in Folders, NEW j \in Knowledge, WriteKnowledge(g, j)
        PROVE  /\ RoomsInv' /\ UNCHANGED entry
               /\ \A f \in Folders, k \in Knowledge : dot[f][k] = "own" => dot'[f][k] = "own"
    BY <1>4, WriteKnowledgeKeeps
  <1>5. CASE RoomsCrash
    BY <1>5, RoomsCrashKeeps
  <1> QED
    BY <1>1, <1>2, <1>3, <1>4, <1>5 DEF RoomsNext

\* A workspace that is deleted, stopped half-way or opened again puts no session out of
\* every list, takes no message unasked and no text of the folder's files.
THEOREM WorkspacesAreKept == RoomsSpec => WorkspacesKept
  <1>1. RoomsInit => RoomsInv
    BY RoomsStart
  <1>2. RoomsInv /\ [RoomsNext]_roomVars => RoomsInv'
    BY RoomsStay
  <1>3. RoomsSpec => []RoomsInv
    BY <1>1, <1>2, PTL DEF RoomsSpec
  <1>4. RoomsInv => EveryEntryCounted
    BY CountedOnce DEF EveryEntryCounted
  <1>5. RoomsInv /\ [RoomsNext]_roomVars =>
          [\A s \in RoomSessions :
             entry[s].messages > 0 /\ entry'[s].messages = 0 /\ spared' = spared
               => entry[s].in \in asked]_roomVars
    BY RoomsStay
  <1>6. RoomsInv /\ [RoomsNext]_roomVars =>
          [\A f \in Folders, k \in Knowledge : dot[f][k] = "own" => dot'[f][k] = "own"]_roomVars
    BY RoomsStay
  <1>7. RoomsSpec => MovedWhole
    BY <1>3, <1>5, PTL DEF RoomsSpec, MovedWhole
  <1>8. RoomsSpec => OwnTextKept
    BY <1>3, <1>6, PTL DEF RoomsSpec, OwnTextKept
  <1> QED
    BY <1>3, <1>4, <1>7, <1>8, PTL DEF WorkspacesKept
-----------------------------------------------------------------------------
(***************************************************************************)
(* Catalog.  A window that nobody overtook holds the row as it is; an id   *)
(* whose profile was deleted is not given out again, so a window opened    *)
(* for the old one cannot meet a new one; and a group's seats are the last *)
(* thing its creation has left.                                            *)
(***************************************************************************)
\* f is a function of S and nothing else
Over(f, S) == DOMAIN f = S /\ f = [x \in S |-> f[x]]
TeamFields == {"row", "asked", "policy", "seats"}
KitFields == {"profile", "payloads", "seats", "edits", "crashes"}
Shapes == /\ Over(agent, Agents) /\ Over(given, Agents) /\ Over(window, Editors)
          /\ Over(team, Teams) /\ Over(making, Teams)
RowsWhole ==
  /\ \A id \in Agents : /\ Exists(id) => DOMAIN agent[id] = ProfileColumns
                        /\ given[id] # NoAgent => DOMAIN given[id] = ProfileColumns
                        /\ Exists(id) => given[id] # NoAgent
  /\ \A g \in Teams : DOMAIN team[g] = TeamFields
  /\ DOMAIN shop = KitFields /\ \A p \in shop.payloads : DOMAIN p \subseteq ProfileColumns

\* What a window with an update under way had read.
Reads(e, id) == window[e] # Shut /\ window[e].id = id
WindowsAreOld ==
  \A e \in Editors : window[e] # Shut =>
    /\ window[e].id \in Agents /\ given[window[e].id] # NoAgent
    /\ DOMAIN window[e].payload \subseteq ProfileColumns /\ DOMAIN window[e].row = ProfileColumns
    /\ window[e].id \notin stale /\ Exists(window[e].id) => window[e].row = agent[window[e].id]

\* A creation has the seats left only once the policy is written.
MakingInOrder ==
  \A g \in Teams :
    /\ making[g] \in {<<>>, <<"seats">>, <<"policy", "seats">>}
    /\ making[g] = <<"seats">> => team[g].policy = team[g].asked
CatalogInv == Shapes /\ RowsWhole /\ WindowsAreOld /\ EditsKept
              /\ MakingInOrder /\ SeatedUnderPolicy

\* Replacing one value of a function of S.
Replaced(g, f, i, v, S) == Over(g, S) /\ g[i] = v /\ \A x \in S : x # i => g[x] = f[x]
LEMMA OverExcept ==
  ASSUME NEW S, NEW f, Over(f, S), NEW i \in S, NEW v
  PROVE  Replaced([f EXCEPT ![i] = v], f, i, v, S)
  BY DEF Over, Replaced

\* An exported file says of every restriction what the row says.
LEMMA ExportRestricts ==
  ASSUME NEW row, NEW c \in DOMAIN Defaults
  PROVE  ParseAgentMd(RenderAgentMd(row, FALSE))[c]
           = IF Unspoken(c, row[c]) THEN Defaults[c] ELSE row[c]
  <1> DEFINE md == RenderAgentMd(row, FALSE)
  <1>1. /\ DOMAIN Defaults = DOMAIN Unwritten /\ c \in DOMAIN Unwritten /\ c # "name"
        /\ Unwritten[c] \subseteq {Defaults[c]}
    BY DEF Defaults, Unwritten
  <1>2. /\ DOMAIN md.lines = Exported(row) \cup {"name"}
        /\ \A x \in Exported(row) \cup {"name"} : md.lines[x] = row[x]
    BY DEF RenderAgentMd
  <1>3. ParseAgentMd(md)[c] = Value(md, c)
    BY DEF ParseAgentMd, Joined
  <1>4. CASE row[c] \in Unwritten[c]
    <2>1. c \notin DOMAIN md.lines
      BY <1>1, <1>2, <1>4 DEF Exported
    <2> QED
      BY <1>1, <1>3, <1>4, <2>1 DEF Value
  <1>5. CASE row[c] \notin Unwritten[c]
    <2>1. c \in DOMAIN md.lines /\ md.lines[c] = row[c]
      BY <1>1, <1>2, <1>5 DEF Exported
    <2> QED
      BY <1>3, <2>1 DEF Value
  <1> QED
    BY <1>4, <1>5

LEMMA ParsedIsWhole ==
  ASSUME NEW md
  PROVE  DOMAIN ParseAgentMd(md) = ProfileColumns /\ ParseAgentMd(md) # NoAgent
  <1>1. DOMAIN ParseAgentMd(md) = ProfileColumns
    BY DEF ParseAgentMd, Joined, Defaults, ProfileColumns
  <1> QED
    BY <1>1 DEF NoAgent, ProfileColumns

LEMMA CatalogStarts == CatalogInit => CatalogInv
  <1> SUFFICES ASSUME CatalogInit PROVE CatalogInv
    OBVIOUS
  <1>1. /\ DOMAIN shop = KitFields /\ DOMAIN shop.profile = ProfileColumns
        /\ \A p \in shop.payloads : DOMAIN p \subseteq ProfileColumns
    BY CatalogConstants DEF CatalogInit, KitFields
  <1>2. \A id \in Agents : agent[id] \in {shop.profile, NoAgent}
    BY DEF CatalogInit
  <1>3. Shapes
    BY DEF CatalogInit, Shapes, Over
  <1>4. \A g \in Teams : team[g] = NoTeam /\ DOMAIN team[g] = TeamFields
    BY DEF CatalogInit, NoTeam, TeamFields
  <1>5. RowsWhole
    BY <1>1, <1>2, <1>4 DEF CatalogInit, RowsWhole, Exists
  <1>6. WindowsAreOld /\ EditsKept /\ MakingInOrder
    BY DEF CatalogInit, WindowsAreOld, EditsKept, MakingInOrder
  <1>7. SeatedUnderPolicy
    BY <1>4 DEF SeatedUnderPolicy, NoTeam
  <1> QED
    BY <1>3, <1>5, <1>6, <1>7 DEF CatalogInv

\* Spending a bound leaves the rest of the kit.
LEMMA ShopSpends ==
  ASSUME RowsWhole, NEW f \in {"edits", "crashes"}, Shop(f)
  PROVE  DOMAIN shop' = KitFields /\ shop'.payloads = shop.payloads
  BY DEF RowsWhole, Shop, KitFields

LEMMA StartUpdateKeeps ==
  ASSUME CatalogInv, NEW e \in Editors, NEW id \in Agents, StartUpdate(e, id)
  PROVE  CatalogInv'
  <1>1. PICK p \in shop.payloads :
          window' = [window EXCEPT ![e] = [id |-> id, payload |-> p, row |-> agent[id]]]
    BY DEF StartUpdate
  <1>2. Exists(id) /\ Shop("edits") /\ UNCHANGED <<agent, team, making, given, stale, exported>>
    BY DEF StartUpdate
  <1>3. /\ Shapes /\ RowsWhole /\ WindowsAreOld /\ EditsKept /\ MakingInOrder
        /\ SeatedUnderPolicy
    BY DEF CatalogInv
  <1>4. DOMAIN shop' = KitFields /\ shop'.payloads = shop.payloads
    BY <1>2, <1>3, ShopSpends
  <1> DEFINE new == [id |-> id, payload |-> p, row |-> agent[id]]
  <1>5. Replaced(window', window, e, new, Editors)
    BY <1>1, <1>3, OverExcept DEF Shapes
  <1>6. /\ given[id] # NoAgent /\ DOMAIN agent[id] = ProfileColumns
        /\ DOMAIN p \subseteq ProfileColumns
    BY <1>1, <1>2, <1>3 DEF RowsWhole
  <1>7. Shapes'
    BY <1>2, <1>3, <1>5 DEF Shapes, Replaced
  <1>8. RowsWhole'
    BY <1>2, <1>3, <1>4 DEF RowsWhole, Exists
  <1>9. WindowsAreOld'
    BY <1>2, <1>3, <1>5, <1>6 DEF WindowsAreOld, Exists, Replaced
  <1>10. EditsKept' /\ MakingInOrder' /\ SeatedUnderPolicy'
    BY <1>2, <1>3 DEF EditsKept, Exists, MakingInOrder, SeatedUnderPolicy
  <1> QED
    BY <1>7, <1>8, <1>9, <1>10 DEF CatalogInv

\* Two payloads over equal rows are equal rows.
LEMMA PayloadsAgree ==
  ASSUME NEW row, DOMAIN row = ProfileColumns, NEW p, DOMAIN p \subseteq ProfileColumns,
         NEW kept, DOMAIN kept = ProfileColumns
  PROVE  /\ DOMAIN WithPayload(row, p) = ProfileColumns /\ WithPayload(row, p) # NoAgent
         /\ DOMAIN Joined(p, kept) = ProfileColumns /\ Joined(p, kept) # NoAgent
         /\ row = kept => WithPayload(row, p) = Joined(p, kept)
  <1>1. DOMAIN NoAgent # ProfileColumns
    BY DEF NoAgent, ProfileColumns
  <1>2. DOMAIN WithPayload(row, p) = ProfileColumns
    BY DEF WithPayload
  <1>3. DOMAIN p \cup DOMAIN kept = ProfileColumns
    OBVIOUS
  <1>4. DOMAIN Joined(p, kept) = ProfileColumns
    BY <1>3 DEF Joined
  <1>5. ASSUME row = kept PROVE WithPayload(row, p) = Joined(p, kept)
    BY <1>3, <1>5 DEF WithPayload, Joined
  <1> QED
    BY <1>1, <1>2, <1>4, <1>5

LEMMA FinishUpdateKeeps ==
  ASSUME CatalogInv, NEW e \in Editors, FinishUpdate(e)
  PROVE  CatalogInv'
  <1> DEFINE u == window[e]
             i == u.id
             next == WithPayload(u.row, u.payload)
             said == Joined(u.payload, given[i])
  <1>0. /\ Shapes /\ RowsWhole /\ WindowsAreOld /\ EditsKept /\ MakingInOrder
        /\ SeatedUnderPolicy
    BY DEF CatalogInv
  <1>1. /\ u # Shut /\ i \in Agents /\ given[i] # NoAgent /\ DOMAIN given[i] = ProfileColumns
        /\ DOMAIN u.payload \subseteq ProfileColumns /\ DOMAIN u.row = ProfileColumns
        /\ (i \notin stale /\ Exists(i) => u.row = agent[i])
    BY <1>0 DEF FinishUpdate, WindowsAreOld, RowsWhole
  <1>2. /\ window' = [window EXCEPT ![e] = Shut]
        /\ agent' = IF Exists(i) THEN [agent EXCEPT ![i] = next] ELSE agent
        /\ given' = [given EXCEPT ![i] = said]
        /\ stale' = IF \E x \in Editors \ {e} : Reads(x, i) THEN stale \cup {i} ELSE stale
        /\ UNCHANGED <<team, making, exported, shop>>
    BY DEF FinishUpdate, Reads
  <1>3. /\ DOMAIN next = ProfileColumns /\ next # NoAgent
        /\ DOMAIN said = ProfileColumns /\ said # NoAgent
        /\ u.row = given[i] => next = said
    <2> DEFINE row == u.row
               p == u.payload
               kept == given[i]
    <2>1. /\ DOMAIN row = ProfileColumns /\ DOMAIN p \subseteq ProfileColumns
          /\ DOMAIN kept = ProfileColumns
      BY <1>1
    <2> HIDE DEF row, p, kept
    <2>2. /\ DOMAIN WithPayload(row, p) = ProfileColumns /\ WithPayload(row, p) # NoAgent
          /\ DOMAIN Joined(p, kept) = ProfileColumns /\ Joined(p, kept) # NoAgent
          /\ row = kept => WithPayload(row, p) = Joined(p, kept)
      BY <2>1, PayloadsAgree
    <2> QED
      BY <2>2 DEF row, p, kept
  <1> HIDE DEF next, said
  <1>4. Replaced(window', window, e, Shut, Editors)
    BY <1>0, <1>2, OverExcept DEF Shapes
  <1>5. Replaced(given', given, i, said, Agents)
    BY <1>0, <1>1, <1>2, OverExcept DEF Shapes
  <1>6. /\ Over(agent', Agents) /\ (Exists(i) => agent'[i] = next)
        /\ (~Exists(i) => agent' = agent) /\ \A x \in Agents : x # i => agent'[x] = agent[x]
    <2>1. CASE Exists(i)
      <3>1. Replaced(agent', agent, i, next, Agents)
        BY <1>0, <1>1, <1>2, <2>1, OverExcept DEF Shapes
      <3> QED
        BY <2>1, <3>1 DEF Replaced
    <2>2. CASE ~Exists(i)
      BY <1>0, <1>2, <2>2 DEF Shapes
    <2> QED
      BY <2>1, <2>2
  <1>7. Shapes'
    BY <1>0, <1>2, <1>4, <1>5, <1>6 DEF Shapes, Replaced
  <1>8. RowsWhole'
    BY <1>0, <1>1, <1>2, <1>3, <1>5, <1>6 DEF RowsWhole, Exists, Replaced
  <1>9. \A x \in Editors \ {e} : Reads(x, i) => i \in stale'
    BY <1>2
  <1>10. stale \subseteq stale' /\ stale' \subseteq stale \cup {i}
    BY <1>2
  <1>11. WindowsAreOld'
    <2>1. ASSUME NEW x \in Editors, x # e, window[x] # Shut
          PROVE  /\ window[x].id \in Agents /\ given'[window[x].id] # NoAgent
                 /\ DOMAIN window[x].payload \subseteq ProfileColumns
                 /\ DOMAIN window[x].row = ProfileColumns
                 /\ window[x].id \notin stale' /\ agent'[window[x].id] # NoAgent
                      => window[x].row = agent'[window[x].id]
      BY <1>0, <1>3, <1>5, <1>6, <1>9, <1>10, <2>1
      DEF WindowsAreOld, Exists, Replaced, Reads
    <2> QED
      BY <1>4, <2>1 DEF WindowsAreOld, Exists, Replaced
  <1>12. EditsKept'
    BY <1>0, <1>1, <1>3, <1>5, <1>6, <1>10 DEF EditsKept, Exists, Replaced
  <1>13. MakingInOrder' /\ SeatedUnderPolicy'
    BY <1>0, <1>2 DEF MakingInOrder, SeatedUnderPolicy
  <1> QED
    BY <1>7, <1>8, <1>11, <1>12, <1>13 DEF CatalogInv

LEMMA DeleteProfileKeeps ==
  ASSUME CatalogInv, NEW id \in Agents, DeleteProfile(id)
  PROVE  CatalogInv'
  <1>1. /\ Shapes /\ RowsWhole /\ WindowsAreOld /\ EditsKept /\ MakingInOrder
        /\ SeatedUnderPolicy
    BY DEF CatalogInv
  <1>2. /\ Shop("edits") /\ agent' = [agent EXCEPT ![id] = NoAgent]
        /\ UNCHANGED <<window, team, making, given, stale, exported>>
    BY DEF DeleteProfile
  <1>3. DOMAIN shop' = KitFields /\ shop'.payloads = shop.payloads
    BY <1>1, <1>2, ShopSpends
  <1>4. Replaced(agent', agent, id, NoAgent, Agents)
    BY <1>1, <1>2, OverExcept DEF Shapes
  <1>5. Shapes'
    BY <1>1, <1>2, <1>4 DEF Shapes, Replaced
  <1>6. RowsWhole'
    BY <1>1, <1>2, <1>3, <1>4 DEF RowsWhole, Exists, Replaced
  <1>7. WindowsAreOld'
    BY <1>1, <1>2, <1>4 DEF WindowsAreOld, Exists, Replaced
  <1>8. EditsKept' /\ MakingInOrder' /\ SeatedUnderPolicy'
    BY <1>1, <1>2, <1>4 DEF EditsKept, Exists, Replaced, MakingInOrder, SeatedUnderPolicy
  <1> QED
    BY <1>5, <1>6, <1>7, <1>8 DEF CatalogInv

LEMMA ImportAgentKeeps ==
  ASSUME CatalogInv, NEW id \in Agents, ImportAgent(id)
  PROVE  CatalogInv'
  <1> DEFINE row == ParseAgentMd(exported)
  <1>1. DOMAIN row = ProfileColumns /\ row # NoAgent
    BY ParsedIsWhole
  <1>2. /\ agent' = [agent EXCEPT ![id] = row] /\ given' = [given EXCEPT ![id] = row]
        /\ given[id] = NoAgent /\ UNCHANGED <<window, team, making, stale, exported, shop>>
    BY DEF ImportAgent, CreateProfile, Unused
  <1> HIDE DEF row
  <1>3. /\ Shapes /\ RowsWhole /\ WindowsAreOld /\ EditsKept /\ MakingInOrder
        /\ SeatedUnderPolicy
    BY DEF CatalogInv
  <1>4. Replaced(agent', agent, id, row, Agents)
    BY <1>2, <1>3, OverExcept DEF Shapes
  <1>5. Replaced(given', given, id, row, Agents)
    BY <1>2, <1>3, OverExcept DEF Shapes
  <1>6. Shapes'
    BY <1>2, <1>3, <1>4, <1>5 DEF Shapes, Replaced
  <1>7. RowsWhole'
    BY <1>1, <1>2, <1>3, <1>4, <1>5 DEF RowsWhole, Exists, Replaced
  <1>8. WindowsAreOld'
    BY <1>2, <1>3, <1>4, <1>5 DEF WindowsAreOld, Exists, Replaced
  <1>9. EditsKept' /\ MakingInOrder' /\ SeatedUnderPolicy'
    BY <1>2, <1>3, <1>4, <1>5
    DEF EditsKept, Exists, Replaced, MakingInOrder, SeatedUnderPolicy
  <1> QED
    BY <1>6, <1>7, <1>8, <1>9 DEF CatalogInv

LEMMA CreateTeamKeeps ==
  ASSUME CatalogInv, NEW g \in Teams, CreateTeam(g)
  PROVE  CatalogInv'
  <1>1. PICK policy \in {"default", "manifest"} :
          team' = [team EXCEPT ![g] = [NoTeam EXCEPT !.row = TRUE, !.asked = policy]]
    BY DEF CreateTeam
  <1> DEFINE new == [NoTeam EXCEPT !.row = TRUE, !.asked = policy]
  <1>2. DOMAIN new = TeamFields /\ new.seats = {}
    BY DEF NoTeam, TeamFields
  <1> HIDE DEF new
  <1>3. /\ Shop("edits") /\ making' = [making EXCEPT ![g] = <<"policy", "seats">>]
        /\ UNCHANGED <<agent, window, given, stale, exported>>
    BY DEF CreateTeam, AfterRow
  <1>4. /\ Shapes /\ RowsWhole /\ WindowsAreOld /\ EditsKept /\ MakingInOrder
        /\ SeatedUnderPolicy
    BY DEF CatalogInv
  <1>5. DOMAIN shop' = KitFields /\ shop'.payloads = shop.payloads
    BY <1>3, <1>4, ShopSpends
  <1>6. Replaced(team', team, g, new, Teams)
    BY <1>1, <1>4, OverExcept DEF Shapes, new
  <1>7. Replaced(making', making, g, <<"policy", "seats">>, Teams)
    BY <1>3, <1>4, OverExcept DEF Shapes
  <1>8. Shapes'
    BY <1>3, <1>4, <1>6, <1>7 DEF Shapes, Replaced
  <1>9. RowsWhole'
    BY <1>2, <1>3, <1>4, <1>5, <1>6 DEF RowsWhole, Exists, Replaced
  <1>10. WindowsAreOld' /\ EditsKept'
    BY <1>3, <1>4 DEF WindowsAreOld, EditsKept, Exists
  <1>11. MakingInOrder' /\ SeatedUnderPolicy'
    <2>1. <<"policy", "seats">> # <<"seats">>
      OBVIOUS
    <2> QED
      BY <1>2, <1>4, <1>6, <1>7, <2>1 DEF MakingInOrder, SeatedUnderPolicy, Replaced
  <1> QED
    BY <1>8, <1>9, <1>10, <1>11 DEF CatalogInv

LEMMA CreationStepKeeps ==
  ASSUME CatalogInv, NEW g \in Teams, CreationStep(g)
  PROVE  CatalogInv'
  <1>1. /\ making[g] # <<>> /\ making' = [making EXCEPT ![g] = Tail(making[g])]
        /\ UNCHANGED <<agent, window, given, stale, exported, shop>>
    BY DEF CreationStep
  <1>2. /\ Shapes /\ RowsWhole /\ WindowsAreOld /\ EditsKept /\ MakingInOrder
        /\ SeatedUnderPolicy
    BY DEF CatalogInv
  <1>3. DOMAIN team[g] = TeamFields /\ making[g] \in {<<"seats">>, <<"policy", "seats">>}
    BY <1>1, <1>2 DEF RowsWhole, MakingInOrder
  <1>4. \E new : /\ team' = [team EXCEPT ![g] = new] /\ DOMAIN new = TeamFields
                 /\ new.policy = new.asked
    <2>1. CASE making[g] = <<"policy", "seats">>
      <3>1. Head(making[g]) = "policy"
        BY <2>1
      <3>2. team' = [team EXCEPT ![g].policy = team[g].asked]
        BY <3>1 DEF CreationStep
      <3> DEFINE new == [team[g] EXCEPT !.policy = team[g].asked]
      <3>3. team' = [team EXCEPT ![g] = new]
        BY <3>2
      <3>4. DOMAIN new = TeamFields /\ new.policy = new.asked
        BY <1>3 DEF TeamFields
      <3> HIDE DEF new
      <3> QED
        BY <3>3, <3>4
    <2>2. CASE making[g] = <<"seats">>
      <3>1. Head(making[g]) # "policy" /\ team[g].policy = team[g].asked
        BY <1>2, <2>2 DEF MakingInOrder
      <3>2. PICK seats : team' = [team EXCEPT ![g].seats = seats]
        BY <3>1 DEF CreationStep
      <3> DEFINE new == [team[g] EXCEPT !.seats = seats]
      <3>3. team' = [team EXCEPT ![g] = new]
        BY <3>2
      <3>4. DOMAIN new = TeamFields /\ new.policy = new.asked
        BY <1>3, <3>1 DEF TeamFields
      <3> HIDE DEF new
      <3> QED
        BY <3>3, <3>4
    <2> QED
      BY <1>3, <2>1, <2>2
  <1>5. PICK new : /\ team' = [team EXCEPT ![g] = new] /\ DOMAIN new = TeamFields
                   /\ new.policy = new.asked
    BY <1>4
  <1>6. Replaced(team', team, g, new, Teams)
    BY <1>2, <1>5, OverExcept DEF Shapes
  <1>7. Tail(making[g]) \in {<<>>, <<"seats">>}
    <2>1. \A a, b : Tail(<<a, b>>) = <<b>>
      OBVIOUS
    <2>2. \A a : Tail(<<a>>) = <<>>
      OBVIOUS
    <2> QED
      BY <1>3, <2>1, <2>2
  <1>8. Replaced(making', making, g, Tail(making[g]), Teams)
    BY <1>1, <1>2, OverExcept DEF Shapes
  <1>9. Shapes'
    BY <1>1, <1>2, <1>6, <1>8 DEF Shapes, Replaced
  <1>10. RowsWhole'
    BY <1>1, <1>2, <1>5, <1>6 DEF RowsWhole, Exists, Replaced
  <1>11. WindowsAreOld' /\ EditsKept'
    BY <1>1, <1>2 DEF WindowsAreOld, EditsKept, Exists
  <1>12. MakingInOrder' /\ SeatedUnderPolicy'
    BY <1>2, <1>5, <1>6, <1>7, <1>8 DEF MakingInOrder, SeatedUnderPolicy, Replaced
  <1> QED
    BY <1>9, <1>10, <1>11, <1>12 DEF CatalogInv

LEMMA CatalogStays == CatalogInv /\ [CatalogNext]_catalogVars => CatalogInv'
  <1> SUFFICES ASSUME CatalogInv, [CatalogNext]_catalogVars PROVE CatalogInv'
    OBVIOUS
  <1>1. /\ Shapes /\ RowsWhole /\ WindowsAreOld /\ EditsKept /\ MakingInOrder
        /\ SeatedUnderPolicy
    BY DEF CatalogInv
  <1>2. ASSUME NEW id \in Agents, ExportAgent(id) PROVE CatalogInv'
    <2>1. Shop("edits") /\ UNCHANGED <<agent, window, team, making, given, stale>>
      BY <1>2 DEF ExportAgent
    <2>2. DOMAIN shop' = KitFields /\ shop'.payloads = shop.payloads
      BY <1>1, <2>1, ShopSpends
    <2> QED
      BY <1>1, <2>1, <2>2 DEF CatalogInv, Shapes, RowsWhole, WindowsAreOld, EditsKept, Exists,
                              MakingInOrder, SeatedUnderPolicy
  <1>3. CASE CatalogCrash
    <2>1. Shop("crashes") /\ UNCHANGED <<agent, team, given, stale, exported>>
      BY <1>3 DEF CatalogCrash
    <2>2. DOMAIN shop' = KitFields /\ shop'.payloads = shop.payloads
      BY <1>1, <2>1, ShopSpends
    <2>3. /\ Over(window', Editors) /\ \A e \in Editors : window'[e] = Shut
          /\ Over(making', Teams) /\ \A g \in Teams : making'[g] = <<>>
      BY <1>3 DEF CatalogCrash, Over
    <2> QED
      BY <1>1, <2>1, <2>2, <2>3 DEF CatalogInv, Shapes, RowsWhole, WindowsAreOld, EditsKept,
                                    Exists, MakingInOrder, SeatedUnderPolicy
  <1>4. CASE UNCHANGED catalogVars
    BY <1>1, <1>4 DEF catalogVars, CatalogInv, Shapes, RowsWhole, WindowsAreOld, EditsKept,
                      Exists, MakingInOrder, SeatedUnderPolicy
  <1> QED
    BY <1>2, <1>3, <1>4, StartUpdateKeeps, FinishUpdateKeeps, DeleteProfileKeeps,
       ImportAgentKeeps, CreateTeamKeeps, CreationStepKeeps
    DEF CatalogNext

\* What was restricted stays restricted through an export, what was asked of a profile is
\* in it unless two windows overlapped, and nobody is seated before the policy.
THEOREM CatalogIsKept == CatalogSpec => []CatalogKept
  <1>1. CatalogInit => CatalogInv
    BY CatalogStarts
  <1>2. CatalogInv /\ [CatalogNext]_catalogVars => CatalogInv'
    BY CatalogStays
  <1>3. RestrictionsSurviveExport
    BY ExportRestricts DEF RestrictionsSurviveExport
  <1>4. CatalogInv => CatalogKept
    BY <1>3 DEF CatalogInv, CatalogKept
  <1> QED
    BY <1>1, <1>2, <1>4, PTL DEF CatalogSpec
-----------------------------------------------------------------------------
(***************************************************************************)
(* Skills.  An id is given out once: one that was deleted, or is being     *)
(* imported, is not among the rows again, so what a diagnosis read first   *)
(* can only have lost rows and gained new ones by the time it compares.    *)
(***************************************************************************)
CheckFields == {"at", "skills", "budgets", "orphaned", "missing", "before"}
RowFields == {"kind", "enabled"}
SkillShapes ==
  /\ DOMAIN importing = {"at", "id"} /\ importing.at \in {"none", "copy", "row"}
  /\ DOMAIN check = CheckFields /\ check.at \in {"none", "budgets", "refs", "told"}
  /\ \A id \in Skilled : DOMAIN skillRows[id] = RowFields

\* What was ever there has had its id taken.
IdsTaken == Skilled \subseteq usedIds /\ skillRefs \subseteq usedIds

\* What is being imported is not there yet, and when its row is due its folder is.
ImportIsNew == importing.at # "none" =>
  /\ importing.id \in usedIds /\ importing.id \notin Skilled /\ importing.id \notin skillRefs
  /\ importing.at = "row" => importing.id \in DOMAIN folders /\ folders[importing.id] = "whole"
FoldersWhole ==
  \A id \in Skilled : skillRows[id].kind = "local" => id \in DOMAIN folders /\ folders[id] = "whole"

\* What a diagnosis has read, against what was there when it began.
CheckIsOld == check.at # "none" =>
  LET was == check.before IN
  /\ check.skills = was.skills /\ was.refs \subseteq usedIds /\ was.budgets \subseteq budgets
  /\ \A id \in was.refs \ was.skills : id \notin Skilled
  /\ importing.at # "none" => importing.id \notin was.refs
  /\ check.at \in {"refs", "told"} =>
       was.budgets \subseteq check.budgets /\ check.budgets \subseteq budgets
  /\ check.at = "told" =>
       /\ check.orphaned = check.budgets \ was.skills
       /\ check.missing \cap was.skills = {}
       /\ (was.refs \cap skillRefs) \ was.skills \subseteq check.missing
SkillInv == SkillShapes /\ IdsTaken /\ ImportIsNew /\ FoldersWhole /\ CheckIsOld

LEMMA SkillsStart == SkillsInit => SkillInv
  <1> SUFFICES ASSUME SkillsInit PROVE SkillInv
    OBVIOUS
  <1>1. Skilled = {}
    BY DEF SkillsInit, Skilled
  <1>2. SkillShapes
    BY <1>1 DEF SkillsInit, SkillShapes, NoImport, NoCheck, CheckFields
  <1> QED
    BY <1>1, <1>2 DEF SkillsInit, SkillInv, IdsTaken, ImportIsNew, FoldersWhole, CheckIsOld,
                      NoImport, NoCheck

\* One more row, of an id that no diagnosis knows as gone.
LEMMA RowComes ==
  ASSUME SkillInv, NEW id, id \notin Skilled, id \in usedIds',
         NEW kind, kind = "local" => id \in DOMAIN folders /\ folders[id] = "whole",
         skillRows' = PutSkill(skillRows, id, [kind |-> kind, enabled |-> TRUE]),
         usedIds \subseteq usedIds',
         id \notin usedIds \/ (importing.at # "none" /\ id = importing.id),
         \/ importing' = NoImport
         \/ importing' = importing /\ (importing.at # "none" => importing.id # id),
         UNCHANGED <<folders, budgets, skillRefs, check>>
  PROVE  SkillInv'
  <1> DEFINE row == [kind |-> kind, enabled |-> TRUE]
  <1>1. /\ Skilled' = Skilled \cup {id} /\ skillRows'[id] = row
        /\ \A x \in Skilled : skillRows'[x] = skillRows[x]
    BY DEF PutSkill, Skilled
  <1>2. DOMAIN row = RowFields /\ row.kind = kind
    BY DEF RowFields
  <1> HIDE DEF row
  <1>3. SkillShapes'
    <2>1. DOMAIN importing' = {"at", "id"} /\ importing'.at \in {"none", "copy", "row"}
      BY DEF SkillInv, SkillShapes, NoImport
    <2>2. \A x \in Skilled' : DOMAIN skillRows'[x] = RowFields
      BY <1>1, <1>2 DEF SkillInv, SkillShapes
    <2> QED
      BY <2>1, <2>2 DEF SkillInv, SkillShapes
  <1>4. IdsTaken'
    BY <1>1 DEF SkillInv, IdsTaken
  <1>5. ImportIsNew'
    BY <1>1 DEF SkillInv, ImportIsNew, NoImport
  <1>6. FoldersWhole'
    BY <1>1, <1>2 DEF SkillInv, FoldersWhole
  <1>7. CheckIsOld'
    <2>1. check.at # "none" => id \notin check.before.refs
      BY DEF SkillInv, CheckIsOld
    <2> QED
      BY <1>1, <2>1 DEF SkillInv, CheckIsOld, NoImport
  <1> QED
    BY <1>3, <1>4, <1>5, <1>6, <1>7 DEF SkillInv

LEMMA StartImportKeeps == SkillInv /\ StartImport => SkillInv'
  <1> SUFFICES ASSUME SkillInv, StartImport PROVE SkillInv'
    OBVIOUS
  <1>1. PICK id \in SkillIds \ usedIds :
          /\ usedIds' = usedIds \cup {id} /\ importing' = [at |-> "copy", id |-> id]
          /\ folders' = PutSkill(folders, id, "part")
          /\ UNCHANGED <<skillRows, budgets, skillRefs, check, skillPage>>
    BY DEF StartImport
  <1>2. Skilled' = Skilled /\ id \notin Skilled /\ id \notin skillRefs
    BY <1>1 DEF SkillInv, IdsTaken, Skilled
  <1>3. \A x \in DOMAIN folders : x # id => x \in DOMAIN folders' /\ folders'[x] = folders[x]
    BY <1>1 DEF PutSkill
  <1>4. SkillShapes'
    BY <1>1, <1>2 DEF SkillInv, SkillShapes
  <1>5. IdsTaken' /\ ImportIsNew' /\ FoldersWhole'
    BY <1>1, <1>2, <1>3 DEF SkillInv, IdsTaken, ImportIsNew, FoldersWhole
  <1>6. CheckIsOld'
    BY <1>1, <1>2 DEF SkillInv, CheckIsOld
  <1> QED
    BY <1>4, <1>5, <1>6 DEF SkillInv

LEMMA CopyFolderKeeps == SkillInv /\ CopyFolder => SkillInv'
  <1> SUFFICES ASSUME SkillInv, CopyFolder PROVE SkillInv'
    OBVIOUS
  <1> DEFINE id == importing.id
  <1>1. /\ importing.at = "copy" /\ folders' = PutSkill(folders, id, "whole")
        /\ importing' = [importing EXCEPT !.at = "row"]
        /\ UNCHANGED <<skillRows, budgets, skillRefs, usedIds, skillEdits, check, skillPage>>
    BY DEF CopyFolder, CopyResults
  <1>2. DOMAIN importing' = {"at", "id"} /\ importing'.at = "row" /\ importing'.id = id
    BY <1>1 DEF SkillInv, SkillShapes
  <1>3. Skilled' = Skilled /\ id \notin Skilled
    BY <1>1 DEF SkillInv, ImportIsNew, Skilled
  <1>4. /\ id \in DOMAIN folders' /\ folders'[id] = "whole"
        /\ \A x \in DOMAIN folders : x # id => x \in DOMAIN folders' /\ folders'[x] = folders[x]
    BY <1>1 DEF PutSkill
  <1>5. SkillShapes'
    BY <1>1, <1>2, <1>3 DEF SkillInv, SkillShapes
  <1>6. IdsTaken' /\ ImportIsNew' /\ FoldersWhole'
    BY <1>1, <1>2, <1>3, <1>4 DEF SkillInv, IdsTaken, ImportIsNew, FoldersWhole
  <1>7. CheckIsOld'
    BY <1>1, <1>2, <1>3 DEF SkillInv, CheckIsOld
  <1> QED
    BY <1>5, <1>6, <1>7 DEF SkillInv

\* The rows are fewer, or one of them is switched on or off.
LEMMA RowsShrink ==
  ASSUME SkillInv, Skilled' \subseteq Skilled,
         \A id \in Skilled' : /\ DOMAIN skillRows'[id] = RowFields
                              /\ skillRows'[id].kind = skillRows[id].kind,
         UNCHANGED <<folders, budgets, skillRefs, importing, usedIds, check>>
  PROVE  SkillInv'
  <1>1. SkillShapes'
    BY DEF SkillInv, SkillShapes
  <1>2. IdsTaken' /\ ImportIsNew' /\ FoldersWhole'
    BY DEF SkillInv, IdsTaken, ImportIsNew, FoldersWhole
  <1>3. CheckIsOld'
    BY DEF SkillInv, CheckIsOld
  <1> QED
    BY <1>1, <1>2, <1>3 DEF SkillInv

LEMMA RowsStepKeeps ==
  SkillInv /\ (InsertSkill \/ WriteSkillRow \/ SetSkillEnabled \/ DeleteSkill) => SkillInv'
  <1> SUFFICES ASSUME SkillInv PROVE InsertSkill \/ WriteSkillRow \/ SetSkillEnabled \/ DeleteSkill
                                       => SkillInv'
    OBVIOUS
  <1>1. CASE InsertSkill
    <2>1. PICK id \in SkillIds \ usedIds :
            /\ usedIds' = usedIds \cup {id}
            /\ skillRows' = PutSkill(skillRows, id, [kind |-> "row", enabled |-> TRUE])
            /\ UNCHANGED <<folders, budgets, skillRefs, importing, check, skillPage>>
      BY <1>1 DEF InsertSkill
    <2>2. id \notin Skilled /\ (importing.at # "none" => importing.id # id)
      BY <2>1 DEF SkillInv, IdsTaken, ImportIsNew
    <2> QED
      BY <2>1, <2>2, RowComes
  <1>2. CASE WriteSkillRow
    <2> DEFINE id == importing.id
    <2>1. /\ importing.at = "row" /\ importing' = NoImport
          /\ skillRows' = PutSkill(skillRows, id, [kind |-> "local", enabled |-> TRUE])
          /\ UNCHANGED <<folders, budgets, skillRefs, usedIds, skillEdits, check, skillPage>>
      BY <1>2 DEF WriteSkillRow
    <2>2. id \notin Skilled /\ id \in usedIds /\ id \in DOMAIN folders /\ folders[id] = "whole"
      BY <2>1 DEF SkillInv, ImportIsNew
    <2> QED
      BY <2>1, <2>2, RowComes
  <1>3. CASE SetSkillEnabled
    <2>1. PICK id \in Skilled, on \in BOOLEAN :
            /\ skillRows' = [skillRows EXCEPT ![id].enabled = on]
            /\ UNCHANGED <<folders, budgets, skillRefs, importing, usedIds, check, skillPage>>
      BY <1>3 DEF SetSkillEnabled
    <2>2. Skilled' = Skilled /\ \A x \in Skilled : DOMAIN skillRows[x] = RowFields
      BY <2>1 DEF Skilled, SkillInv, SkillShapes
    <2>3. \A x \in Skilled : /\ DOMAIN skillRows'[x] = RowFields
                             /\ skillRows'[x].kind = skillRows[x].kind
      BY <2>1, <2>2 DEF Skilled, RowFields
    <2> QED
      BY <2>1, <2>2, <2>3, RowsShrink
  <1>4. CASE DeleteSkill
    <2>1. PICK id \in Skilled :
            /\ skillRows' = Without(skillRows, id)
            /\ UNCHANGED <<folders, budgets, skillRefs, importing, usedIds, check, skillPage>>
      BY <1>4 DEF DeleteSkill, DropSkill
    <2>2. Skilled' = Skilled \ {id} /\ \A x \in Skilled' : skillRows'[x] = skillRows[x]
      BY <2>1 DEF Skilled, Without
    <2>3. \A x \in Skilled' : /\ DOMAIN skillRows'[x] = RowFields
                              /\ skillRows'[x].kind = skillRows[x].kind
      BY <2>2 DEF SkillInv, SkillShapes
    <2> QED
      BY <2>1, <2>2, <2>3, RowsShrink
  <1> QED
    BY <1>1, <1>2, <1>3, <1>4

LEMMA RefersKeeps == SkillInv /\ ReferToSkill => SkillInv'
  <1> SUFFICES ASSUME SkillInv, ReferToSkill PROVE SkillInv'
    OBVIOUS
  <1>1. PICK id \in Skilled \cup skillRefs :
          /\ skillRefs' = IF id \in skillRefs THEN skillRefs \ {id} ELSE skillRefs \cup {id}
          /\ UNCHANGED <<skillRows, folders, budgets, importing, usedIds, check, skillPage>>
    BY DEF ReferToSkill
  <1>2. Skilled' = Skilled /\ \A x \in skillRefs' : x \in skillRefs \/ x \in Skilled
    BY <1>1 DEF Skilled
  <1>3. SkillShapes'
    BY <1>1, <1>2 DEF SkillInv, SkillShapes
  <1>4. IdsTaken' /\ ImportIsNew' /\ FoldersWhole'
    BY <1>1, <1>2 DEF SkillInv, IdsTaken, ImportIsNew, FoldersWhole
  <1>5. CheckIsOld'
    BY <1>1, <1>2 DEF SkillInv, CheckIsOld
  <1> QED
    BY <1>3, <1>4, <1>5 DEF SkillInv

\* The three reads of a diagnosis.
LEMMA CheckStepKeeps == SkillInv /\ (StartCheck \/ CheckBudgets \/ EvaluateSkills) => SkillInv'
  <1> SUFFICES ASSUME SkillInv, StartCheck \/ CheckBudgets \/ EvaluateSkills PROVE SkillInv'
    OBVIOUS
  <1>1. UNCHANGED <<skillRows, folders, budgets, skillRefs, importing, usedIds>>
    BY DEF StartCheck, CheckBudgets, EvaluateSkills
  <1>2. IdsTaken' /\ ImportIsNew' /\ FoldersWhole' /\ Skilled' = Skilled
    BY <1>1 DEF SkillInv, IdsTaken, ImportIsNew, FoldersWhole, Skilled
  <1>3. DOMAIN check = CheckFields
    BY DEF SkillInv, SkillShapes
  <1>4. CASE StartCheck
    <2> DEFINE was == [skills |-> Skilled, budgets |-> budgets, refs |-> skillRefs]
    <2>1. check' = [check EXCEPT !.at = "budgets", !.skills = Skilled, !.before = was]
      BY <1>4 DEF StartCheck
    <2>2. /\ DOMAIN check' = CheckFields /\ check'.at = "budgets" /\ check'.skills = Skilled
          /\ check'.before = was
      BY <1>3, <2>1 DEF CheckFields
    <2> QED
      BY <1>1, <1>2, <2>2 DEF SkillInv, SkillShapes, IdsTaken, ImportIsNew, CheckIsOld
  <1>5. CASE CheckBudgets
    <2>1. check.at = "budgets" /\ check' = [check EXCEPT !.at = "refs", !.budgets = budgets]
      BY <1>5 DEF CheckBudgets
    <2>2. /\ DOMAIN check' = CheckFields /\ check'.at = "refs" /\ check'.skills = check.skills
          /\ check'.before = check.before /\ check'.budgets = budgets
      BY <1>3, <2>1 DEF CheckFields
    <2> QED
      BY <1>1, <1>2, <2>1, <2>2 DEF SkillInv, SkillShapes, CheckIsOld
  <1>6. CASE EvaluateSkills
    <2> DEFINE o == check.budgets \ check.skills
               m == skillRefs \ check.skills
    <2>1. /\ check.at = "refs"
          /\ check' = [check EXCEPT !.at = "told", !.orphaned = o, !.missing = m]
      BY <1>6 DEF EvaluateSkills, NotAmong
    <2>2. /\ DOMAIN check' = CheckFields /\ check'.at = "told" /\ check'.skills = check.skills
          /\ check'.before = check.before /\ check'.budgets = check.budgets
          /\ check'.orphaned = o /\ check'.missing = m
      BY <1>3, <2>1 DEF CheckFields
    <2> QED
      BY <1>1, <1>2, <2>1, <2>2 DEF SkillInv, SkillShapes, CheckIsOld
  <1> QED
    BY <1>4, <1>5, <1>6

LEMMA SkillsStay == SkillInv /\ [SkillsNext]_skillVars => SkillInv'
  <1> SUFFICES ASSUME SkillInv, [SkillsNext]_skillVars PROVE SkillInv'
    OBVIOUS
  <1>1. CASE AbandonImport
    BY <1>1 DEF AbandonImport, SkillInv, SkillShapes, IdsTaken, ImportIsNew, FoldersWhole,
                CheckIsOld, Skilled, NoImport
  <1>2. CASE SetSkillBudget
    BY <1>2 DEF SetSkillBudget, SkillInv, SkillShapes, IdsTaken, ImportIsNew, FoldersWhole,
                CheckIsOld, Skilled
  <1>3. CASE UNCHANGED skillVars
    BY <1>3 DEF skillVars, SkillInv, SkillShapes, IdsTaken, ImportIsNew, FoldersWhole,
                CheckIsOld, Skilled
  <1> QED
    BY <1>1, <1>2, <1>3, RowsStepKeeps, StartImportKeeps, CopyFolderKeeps, RefersKeeps,
       CheckStepKeeps
    DEF SkillsNext
-----------------------------------------------------------------------------
\* What the pages say, read line by line.
LEMMA EndOfHeadIs ==
  ASSUME NEW T, NEW lines \in Seq(T), NEW k \in 2 .. Len(lines), lines[1] = "---", lines[k] = "---",
         \A i \in 2 .. k - 1 : lines[i] # "---"
  PROVE  EndOfHead(lines) = k
  <1> DEFINE rules == {i \in 2 .. Len(lines) : lines[i] = "---"}
             IsFirst(i) == \A j \in rules : i <= j
  <1>1. Len(lines) \in Nat /\ lines # <<>>
    OBVIOUS
  <1>2. k \in rules /\ k \in Int /\ IsFirst(k)
    BY <1>1
  <1>3. \A i \in rules : IsFirst(i) => i = k
    <2> SUFFICES ASSUME NEW i \in rules, IsFirst(i) PROVE i = k
      OBVIOUS
    <2>1. i <= k /\ k <= i /\ i \in Int
      BY <1>1, <1>2
    <2> QED
      BY <1>2, <2>1
  <1>4. (CHOOSE i \in rules : IsFirst(i)) = k
    <2> HIDE DEF rules, IsFirst
    <2> QED
      BY <1>2, <1>3
  <1>5. (CHOOSE i \in rules : \A j \in rules : i <= j) = k
    BY <1>4
  <1> QED
    BY <1>1, <1>2, <1>5 DEF EndOfHead

\* Behind a head that ends at k the body begins, if its first line is not empty.
LEMMA StripsTheHead ==
  ASSUME NEW T, NEW lines \in Seq(T), NEW k \in Nat, 1 <= k, k < Len(lines),
         EndOfHead(lines) = k, lines[k + 1] # Blank
  PROVE  StripFrontmatter(lines) = SubSeq(lines, k + 1, Len(lines))
  <1> DEFINE P(i) == /\ i > Len(lines) \/ lines[i] # Blank
                     /\ \A j \in k + 1 .. i - 1 : lines[j] = Blank
             S == k + 1 .. Len(lines) + 1
  <1>1. Len(lines) \in Nat
    OBVIOUS
  <1>2. k + 1 \in S /\ P(k + 1)
    <2>1. k + 1 .. (k + 1) - 1 = {}
      OBVIOUS
    <2> QED
      BY <1>1, <2>1
  <1>3. \A i \in S : P(i) => i = k + 1
    <2> SUFFICES ASSUME NEW i \in S, P(i), i # k + 1 PROVE FALSE
      OBVIOUS
    <2>1. k + 1 \in k + 1 .. i - 1
      BY <1>1
    <2>2. lines[k + 1] = Blank
      BY <2>1
    <2> QED
      BY <2>2
  <1>4. (CHOOSE i \in S : P(i)) = k + 1
    <2> HIDE DEF S, P
    <2> QED
      BY <1>2, <1>3
  <1>5. k # 0
    OBVIOUS
  <1> QED
    BY <1>4, <1>5 DEF StripFrontmatter

\* One sequence behind another.
Behind(u, s, t, T) ==
  /\ u \in Seq(T) /\ Len(u) = Len(s) + Len(t)
  /\ \A i \in 1 .. Len(s) : u[i] = s[i]
  /\ \A i \in 1 .. Len(t) : u[Len(s) + i] = t[i]
LEMMA ConcatIsBehind ==
  ASSUME NEW T, NEW s \in Seq(T), NEW t \in Seq(T)
  PROVE  Behind(s \o t, s, t, T)
  <1>1. Len(s) \in Nat /\ Len(t) \in Nat
    OBVIOUS
  <1>2. /\ s \o t \in Seq(T) /\ Len(s \o t) = Len(s) + Len(t)
        /\ \A i \in 1 .. Len(s) + Len(t) : (s \o t)[i] = IF i <= Len(s) THEN s[i]
                                                         ELSE t[i - Len(s)]
    BY ConcatProperties
  <1>3. \A i \in 1 .. Len(s) : (s \o t)[i] = s[i]
    BY <1>1, <1>2
  <1>4. \A i \in 1 .. Len(t) : (s \o t)[Len(s) + i] = t[i]
    BY <1>1, <1>2
  <1> QED
    BY <1>2, <1>3, <1>4 DEF Behind

\* What is short enough is not cut.
LEMMA ShortBody ==
  ASSUME NEW lines, NEW T, NEW B \in Seq(T), StripFrontmatter(lines) = B, Len(B) <= MaxBody
  PROVE  BodyOf(lines) = B
  <1>1. Len(B) \in Nat /\ MaxBody \in Nat
    BY SkillConstants
  <1>2. ~ (Len(B) > MaxBody)
    BY <1>1
  <1> QED
    BY <1>2 DEF BodyOf

\* The lines of a page with a head that is closed.
LEMMA ClosedPage ==
  ASSUME NEW T, "---" \in T, NEW L \in Seq(T), NEW B \in Seq(T),
         NEW page, page = (<<"---">> \o L \o <<"---">>) \o B
  PROVE  /\ page \in Seq(T) /\ Len(page) = (Len(L) + 2) + Len(B)
         /\ page[1] = "---" /\ page[Len(L) + 2] = "---"
         /\ \A i \in 2 .. Len(L) + 1 : page[i] = L[i - 1]
         /\ \A i \in 1 .. Len(B) : page[(Len(L) + 2) + i] = B[i]
  <1> DEFINE rule == <<"---">>
             begun == rule \o L
             head == begun \o rule
  <1>1. rule \in Seq(T) /\ Len(rule) = 1 /\ rule[1] = "---" /\ Len(L) \in Nat /\ Len(B) \in Nat
    OBVIOUS
  <1>2. page = head \o B
    OBVIOUS
  <1> HIDE DEF rule
  <1>3. Behind(begun, rule, L, T)
    BY <1>1, ConcatIsBehind
  <1>4. begun \in Seq(T) /\ Len(begun) = Len(L) + 1
    BY <1>1, <1>3 DEF Behind
  <1> HIDE DEF begun
  <1>5. Behind(head, begun, rule, T)
    BY <1>1, <1>4, ConcatIsBehind
  <1>6. head \in Seq(T) /\ Len(head) = Len(L) + 2
    BY <1>1, <1>4, <1>5 DEF Behind
  <1> HIDE DEF head
  <1>7. Behind(page, head, B, T)
    BY <1>2, <1>6, ConcatIsBehind
  <1>8. page \in Seq(T) /\ Len(page) = (Len(L) + 2) + Len(B)
    BY <1>6, <1>7 DEF Behind
  <1>9. \A i \in 1 .. Len(L) + 2 : page[i] = head[i]
    BY <1>6, <1>7 DEF Behind
  <1>10. \A i \in 1 .. Len(L) + 1 : head[i] = begun[i]
    BY <1>4, <1>5 DEF Behind
  <1>11. page[1] = "---"
    BY <1>1, <1>3, <1>9, <1>10 DEF Behind
  <1>12. \A i \in 2 .. Len(L) + 1 : page[i] = L[i - 1]
    <2>1. \A i \in 1 .. Len(L) : begun[1 + i] = L[i]
      BY <1>1, <1>3 DEF Behind
    <2>2. \A i \in 2 .. Len(L) + 1 : i - 1 \in 1 .. Len(L) /\ 1 + (i - 1) = i
      BY <1>1
    <2>3. \A i \in 2 .. Len(L) + 1 : begun[i] = L[i - 1]
      BY <2>1, <2>2
    <2> QED
      BY <1>1, <1>9, <1>10, <2>3
  <1>13. page[Len(L) + 2] = "---"
    <2>1. head[(Len(L) + 1) + 1] = "---"
      BY <1>1, <1>4, <1>5 DEF Behind
    <2>2. Len(L) + 2 \in 1 .. Len(L) + 2 /\ (Len(L) + 1) + 1 = Len(L) + 2
      BY <1>1
    <2> QED
      BY <1>9, <2>1, <2>2
  <1>14. \A i \in 1 .. Len(B) : page[(Len(L) + 2) + i] = B[i]
    BY <1>6, <1>7 DEF Behind
  <1> QED
    BY <1>8, <1>11, <1>12, <1>13, <1>14

\* The end of a sequence, item by item.
LEMMA RestIs ==
  ASSUME NEW T, NEW s \in Seq(T), NEW B \in Seq(T), NEW k \in Nat, Len(s) = k + Len(B),
         \A i \in 1 .. Len(B) : s[k + i] = B[i]
  PROVE  SubSeq(s, k + 1, Len(s)) = B
  <1> DEFINE r == SubSeq(s, k + 1, Len(s))
  <1>1. Len(B) \in Nat /\ Len(s) \in Nat
    OBVIOUS
  <1>2. r \in Seq(T) /\ Len(r) = Len(B)
    BY <1>1
  <1>3. \A i \in 1 .. Len(B) : r[i] = B[i]
    BY <1>1
  <1> QED
    BY <1>2, <1>3

LEMMA ClosedPageTells ==
  ASSUME NEW T, "---" \in T, NEW L \in Seq(T), NEW B \in Seq(T), "---" \notin ToSet(L),
         NEW page, page = (<<"---">> \o L \o <<"---">>) \o B
  PROVE  /\ B # <<>> /\ B[1] # Blank /\ Len(B) <= MaxBody => BodyOf(page) = B
         /\ "name a" \in ToSet(L) /\ "name b" \notin ToSet(L) => ParseFrontmatter(page) = "name a"
  <1> DEFINE k == Len(L) + 2
  <1>1. /\ Len(L) \in Nat /\ Len(B) \in Nat /\ MaxBody \in Nat
        /\ DOMAIN L = 1 .. Len(L) /\ DOMAIN B = 1 .. Len(B)
    BY SkillConstants
  <1>2. /\ \A i \in 1 .. Len(L) : L[i] \in ToSet(L)
        /\ \A x \in ToSet(L) : \E i \in 1 .. Len(L) : x = L[i]
    BY <1>1 DEF ToSet
  <1>3. /\ page \in Seq(T) /\ Len(page) = k + Len(B) /\ page[1] = "---" /\ page[k] = "---"
        /\ \A i \in 2 .. Len(L) + 1 : page[i] = L[i - 1]
        /\ \A i \in 1 .. Len(B) : page[k + i] = B[i]
    BY ClosedPage
  <1>4. k \in Nat /\ k \in 2 .. Len(page) /\ k - 1 = Len(L) + 1 /\ 1 <= k /\ k # 0
    BY <1>1, <1>3
  <1>5. \A i \in 2 .. k - 1 : page[i] \in ToSet(L)
    <2>1. \A i \in 2 .. k - 1 : i \in 2 .. Len(L) + 1 /\ i - 1 \in 1 .. Len(L)
      BY <1>1
    <2> QED
      BY <1>2, <1>3, <2>1
  <1> HIDE DEF k
  <1>6. EndOfHead(page) = k
    <2>1. \A i \in 2 .. k - 1 : page[i] # "---"
      BY <1>5
    <2> QED
      BY <1>3, <1>4, <2>1, EndOfHeadIs
  <1>7. ASSUME B # <<>>, B[1] # Blank, Len(B) <= MaxBody
        PROVE  BodyOf(page) = B
    <2>1. Len(B) >= 1
      BY <1>1, <1>7
    <2>2. k < Len(page) /\ page[k + 1] = B[1]
      BY <1>1, <1>3, <1>4, <2>1
    <2>3. StripFrontmatter(page) = SubSeq(page, k + 1, Len(page))
      BY <1>3, <1>4, <1>6, <1>7, <2>2, StripsTheHead
    <2>4. StripFrontmatter(page) = B
      BY <1>3, <1>4, <2>3, RestIs
    <2> QED
      BY <1>7, <2>4, ShortBody
  <1>8. ASSUME "name a" \in ToSet(L), "name b" \notin ToSet(L)
        PROVE  ParseFrontmatter(page) = "name a"
    <2> DEFINE named == {i \in 2 .. k - 1 : page[i] \in {"name a", "name b"}}
               first == CHOOSE i \in named : \A j \in named : i <= j
    <2>1. PICK i \in 1 .. Len(L) : L[i] = "name a"
      BY <1>2, <1>8
    <2>2. i + 1 \in 2 .. Len(L) + 1 /\ i + 1 \in 2 .. k - 1 /\ (i + 1) - 1 = i
      BY <1>1, <1>4
    <2>3. i + 1 \in named
      BY <1>3, <2>1, <2>2
    <2>4. named \in SUBSET (1 .. k) /\ named # {}
      <3>1. \A x \in 2 .. k - 1 : x \in 1 .. k
        BY <1>4
      <3> QED
        BY <2>3, <3>1
    <2>5. first \in named
      <3> HIDE DEF named
      <3> QED
        BY <1>4, <2>4, FirstIsIn
    <2>6. page[first] = "name a"
      BY <1>5, <1>8, <2>5
    <2>7. EndOfHead(page) = k /\ EndOfHead(page) # 0
      BY <1>4, <1>6
    <2>8. ParseFrontmatter(page) = IF named = {} THEN "imported-skill" ELSE page[first]
      BY ONLY <2>7 DEF ParseFrontmatter
    <2> QED
      BY <2>4, <2>6, <2>8
  <1> QED
    BY <1>7, <1>8

\* A page that has no rule has no head.
LEMMA PlainPageTells ==
  ASSUME NEW T, NEW B \in Seq(T), "---" \notin ToSet(B), Len(B) <= MaxBody
  PROVE  BodyOf(B) = B
  <1>1. Len(B) \in Nat /\ MaxBody \in Nat /\ DOMAIN B = 1 .. Len(B)
    BY SkillConstants
  <1>2. \A i \in 1 .. Len(B) : B[i] # "---"
    BY <1>1 DEF ToSet
  <1>3. B # <<>> => 1 \in 1 .. Len(B)
    BY <1>1
  <1>4. B = <<>> \/ B[1] # "---"
    BY <1>2, <1>3
  <1>5. EndOfHead(B) = 0
    BY <1>4 DEF EndOfHead
  <1>6. StripFrontmatter(B) = B
    BY <1>5 DEF StripFrontmatter
  <1> QED
    BY <1>6, ShortBody

LEMMA PageTells ==
  ASSUME skillPage \in PagesOfSkills
  PROVE  /\ skillPage.head = "closed" =>
              /\ skillPage.body # <<>> /\ skillPage.body[1] # Blank
                   /\ Len(skillPage.body) <= MaxBody => BodyOf(PageLines) = skillPage.body
              /\ "name a" \in ToSet(skillPage.lines) /\ "name b" \notin ToSet(skillPage.lines)
                   => ParseFrontmatter(PageLines) = "name a"
         /\ skillPage.head = "none" /\ "---" \notin ToSet(skillPage.body)
               /\ Len(skillPage.body) <= MaxBody => BodyOf(PageLines) = skillPage.body
  <1> DEFINE L == skillPage.lines
             B == skillPage.body
             T == ToSet(L) \cup ToSet(B) \cup {"---"}
  <1>1. "---" \notin ToSet(L) /\ L \in Seq(ToSet(L)) /\ B \in Seq(ToSet(B))
    BY SkillConstants
  <1>2. skillPage.head = "closed" => PageLines = (<<"---">> \o L \o <<"---">>) \o B
    BY DEF PageLines
  <1>3. skillPage.head = "none" => PageLines = <<>> \o B
    BY DEF PageLines
  <1> HIDE DEF L, B
  <1>4. L \in Seq(T) /\ B \in Seq(T) /\ "---" \in T
    BY <1>1
  <1>5. <<>> \o B = B
    BY <1>1
  <1> HIDE DEF T
  <1>6. skillPage.head = "closed" =>
          /\ B # <<>> /\ B[1] # Blank /\ Len(B) <= MaxBody => BodyOf(PageLines) = B
          /\ "name a" \in ToSet(L) /\ "name b" \notin ToSet(L)
               => ParseFrontmatter(PageLines) = "name a"
    BY <1>1, <1>2, <1>4, ClosedPageTells
  <1>7. skillPage.head = "none" /\ "---" \notin ToSet(B) /\ Len(B) <= MaxBody
          => BodyOf(PageLines) = B
    BY <1>1, <1>3, <1>5, PlainPageTells
  <1> QED
    BY <1>6, <1>7 DEF L, B

\* Whoever is told of a skill can be given it, a diagnosis tells what was wrong and nothing
\* else, and a page is read as it was written.
THEOREM SkillsAreAccounted == SkillsSpec => []SkillsAccounted
  <1> DEFINE PageIs == skillPage \in PagesOfSkills
  <1>1. SkillsInit => SkillInv /\ PageIs
    BY SkillsStart DEF SkillsInit
  <1>2. SkillInv /\ PageIs /\ [SkillsNext]_skillVars => (SkillInv /\ PageIs)'
    <2>1. [SkillsNext]_skillVars => skillPage' = skillPage
      BY DEF SkillsNext, skillVars, InsertSkill, StartImport, CopyFolder, AbandonImport,
             WriteSkillRow, SetSkillEnabled, DeleteSkill, SetSkillBudget, ReferToSkill,
             StartCheck, CheckBudgets, EvaluateSkills
    <2> QED
      BY <2>1, SkillsStay
  <1>3. SkillInv /\ PageIs => SkillsAccounted
    <2> SUFFICES ASSUME SkillInv, PageIs PROVE SkillsAccounted
      OBVIOUS
    <2>1. \A id \in Skilled :
            skillRows[id].kind = "local" => id \in DOMAIN folders /\ folders[id] = "whole"
      BY DEF SkillInv, FoldersWhole
    <2>2. {id \in L1Block : skillRows[id].kind = "local"} \subseteq Readable
      BY <2>1 DEF L1Block, Readable
    <2>3. ASSUME check.at = "told"
          PROVE  LET was == check.before
                 IN  /\ was.budgets \ was.skills \subseteq check.orphaned
                     /\ (was.refs \cap skillRefs) \ was.skills \subseteq check.missing
                     /\ (check.orphaned \cup check.missing) \cap was.skills = {}
                     /\ \A id \in (check.orphaned \cup check.missing) \cap Skilled :
                          id \notin was.skills
                     /\ was = [skills |-> Skilled, budgets |-> budgets, refs |-> skillRefs] =>
                          check.orphaned = budgets \ Skilled
      BY <2>3 DEF SkillInv, CheckIsOld
    <2> QED
      BY <2>1, <2>2, <2>3, PageTells DEF SkillsAccounted
  <1> QED
    BY <1>1, <1>2, <1>3, PTL DEF SkillsSpec
-----------------------------------------------------------------------------
(***************************************************************************)
(* Upgrades.  Where a confirmation is says how far its group is; what was  *)
(* said by then stays the beginning of the talk while the chat is there;   *)
(* and the session points only at a group whose confirmation is over.      *)
(***************************************************************************)
TeamParts == {"transcript", "posted", "batches", "tried", "then"}
UpgradeType ==
  /\ talk \in Seq(Nat) /\ confirm = [w \in Windows |-> confirm[w]]
  /\ DOMAIN session = {"there", "mode", "team"}
  /\ \A w \in Windows : confirm[w] \in {"idle", "group", "transcript", "tasks", "mode", "over"}
  /\ DOMAIN teams \subseteq Windows /\ \A w \in DOMAIN teams : DOMAIN teams[w] = TeamParts

\* The steps of a confirmation are the steps its group has gone through.
GroupsInStep ==
  \A w \in Windows :
    /\ confirm[w] \in {"idle", "group"} => w \notin DOMAIN teams
    /\ confirm[w] \in {"transcript", "tasks", "mode"} => w \in DOMAIN teams
    /\ w \in DOMAIN teams =>
         LET g == teams[w] IN
         /\ g.posted \in 0 .. 1 /\ g.batches \in 0 .. 1
         /\ confirm[w] = "transcript" => g.posted = 0 /\ g.batches = 0 /\ g.tried = 0
         /\ confirm[w] = "tasks" => g.batches = 0 /\ g.tried = 1
         /\ confirm[w] = "mode" => g.tried = 2
PointsAtDone ==
  /\ session.mode = "group" <=> session.team # NoGroup
  /\ session.team # NoGroup => /\ session.team \in DOMAIN teams /\ teams[session.team].tried = 2
                               /\ confirm[session.team] = "over"

\* The transcript is the end of what had been said at some moment since, and all of it if
\* that was nothing more and it is short.
Told(g, t) ==
  \E k \in Len(g.then) .. Len(t) :
    /\ IsSuffix(g.transcript, SubSeq(t, 1, k))
    /\ k = Len(g.then) /\ k <= MaxLines /\ SizeOf(g.then) <= MaxSize => g.transcript = g.then
Began(g, t) == g.then \in Seq(Nat) /\ Len(g.then) <= Len(t) /\ SubSeq(t, 1, Len(g.then)) = g.then
TalkIsTold == session.there => \A w \in DOMAIN teams :
                      /\ Began(teams[w], talk)
                      /\ teams[w].posted = 1 => Told(teams[w], talk)
UpgradeInv == UpgradeType /\ GroupsInStep /\ PointsAtDone /\ TalkIsTold

\* The greatest of a bounded set of numbers.
LEMMA GreatestIsIn ==
  ASSUME NEW n \in Nat, NEW S \in SUBSET (0 .. n), S # {}
  PROVE  \E k \in S : \A j \in S : j <= k
  <1> DEFINE R == {(n + 1) - k : k \in S}
             r == CHOOSE x \in R : \A y \in R : x <= y
  <1>1. R \in SUBSET (1 .. n + 1) /\ R # {} /\ n + 1 \in Nat
    <2>1. \A k \in S : (n + 1) - k \in 1 .. n + 1
      OBVIOUS
    <2>2. R # {}
      OBVIOUS
    <2> QED
      BY <2>1, <2>2
  <1>2. r \in R /\ \A y \in R : r <= y
    <2>1. \E x \in R : \A y \in R : x <= y
      <3> HIDE DEF R
      <3> QED
        BY <1>1, FirstIs
    <2> QED
      BY <2>1
  <1>3. PICK k \in S : r = (n + 1) - k
    BY <1>2
  <1>4. \A j \in S : r <= (n + 1) - j
    BY <1>2
  <1> HIDE DEF r, R
  <1>5. \A j \in S : j <= k
    <2>1. \A j \in S : (n + 1) - k <= (n + 1) - j
      BY <1>3, <1>4
    <2>2. \A j \in S : j \in Nat /\ k \in Nat
      OBVIOUS
    <2> QED
      BY <2>1, <2>2
  <1> QED
    BY <1>5

LEMMA NothingIsShort == SizeOf(<<>>) = 0
  <1> DEFINE Step(f) == [s \in SUBSET {} |-> IF s = {} THEN 0
                                             ELSE LET x == Max(s) IN f[s \ {x}] + <<>>[x]]
             sum == CHOOSE f : f = Step(f)
  <1>1. DOMAIN <<>> = {}
    OBVIOUS
  <1>2. SizeOf(<<>>) = sum[DOMAIN <<>>]
    BY Zenon, <1>1 DEF SizeOf, FoldLeft, MapThenFoldSet
  <1>3. SUBSET {} = {{}}
    OBVIOUS
  <1>4. \A f : Step(f) = [s \in {{}} |-> 0]
    BY <1>3
  <1>5. sum = [s \in {{}} |-> 0]
    <2> HIDE DEF Step
    <2> QED
      BY <1>4
  <1> QED
    BY <1>1, <1>2, <1>5

\* The last items of a sequence are its end.
LEMMA EndIsSuffix ==
  ASSUME NEW t \in Seq(Nat), NEW n \in 0 .. Len(t)
  PROVE  IsSuffix(SubSeq(t, Len(t) + 1 - n, Len(t)), t)
  <1> DEFINE s == SubSeq(t, Len(t) + 1 - n, Len(t))
             rs == Reverse(s)
             rt == Reverse(t)
  <1>1. Len(t) \in Nat /\ n \in Nat
    OBVIOUS
  <1>2. s \in Seq(Nat) /\ Len(s) = n
    BY <1>1
  <1>3. \A i \in 1 .. n : s[i] = t[Len(t) - n + i]
    <2>1. \A i \in 1 .. n : s[i] = t[(Len(t) + 1 - n) + i - 1]
      BY <1>1, SMTT(60)
    <2>2. \A i \in 1 .. n : (Len(t) + 1 - n) + i - 1 = Len(t) - n + i
      BY <1>1
    <2> QED
      BY <2>1, <2>2
  <1> HIDE DEF s
  <1>4. rs \in Seq(Nat) /\ Len(rs) = n /\ \A i \in 1 .. n : rs[i] = s[n - i + 1]
    BY <1>1, <1>2 DEF Reverse
  <1>5. rt \in Seq(Nat) /\ Len(rt) = Len(t) /\ \A i \in 1 .. Len(t) : rt[i] = t[Len(t) - i + 1]
    BY <1>1 DEF Reverse
  <1> HIDE DEF rs, rt
  <1>6. \A i \in 1 .. n : rs[i] = rt[i]
    <2> SUFFICES ASSUME NEW i \in 1 .. n PROVE rs[i] = rt[i]
      OBVIOUS
    <2>1. n - i + 1 \in 1 .. n /\ i \in 1 .. Len(t)
      BY <1>1
    <2>2. Len(t) - n + (n - i + 1) = Len(t) - i + 1
      BY <1>1
    <2> QED
      BY <1>3, <1>4, <1>5, <2>1, <2>2
  <1> DEFINE a == SubSeq(rs, 1, n)
             b == SubSeq(rt, 1, n)
  <1>7. a \in Seq(Nat) /\ Len(a) = n /\ \A i \in 1 .. n : a[i] = rs[i]
    BY <1>1, <1>4
  <1>8. b \in Seq(Nat) /\ Len(b) = n /\ \A i \in 1 .. n : b[i] = rt[i]
    BY <1>1, <1>5
  <1> HIDE DEF a, b
  <1>9. a = b
    <2>1. Len(a) = Len(b) /\ \A i \in 1 .. Len(a) : a[i] = b[i]
      BY <1>6, <1>7, <1>8
    <2> QED
      BY <1>7, <1>8, <2>1, SeqEqual
  <1>10. Len(rs) <= Len(rt) /\ SubSeq(rs, 1, Len(rs)) = SubSeq(rt, 1, Len(rs))
    <2>1. Len(rs) = n /\ Len(rs) <= Len(rt)
      BY <1>1, <1>4, <1>5
    <2>2. SubSeq(rs, 1, n) = SubSeq(rt, 1, n)
      BY <1>9 DEF a, b
    <2> QED
      BY <2>1, <2>2
  <1>11. IsPrefix(rs, rt)
    BY <1>10 DEF IsPrefix
  <1> QED
    BY <1>11 DEF IsSuffix, rs, rt, s

LEMMA TranscriptIs ==
  ASSUME NEW ms \in Seq(Nat)
  PROVE  /\ IsSuffix(BuildTranscript(ms), ms)
         /\ Len(ms) <= MaxLines /\ SizeOf(ms) <= MaxSize => BuildTranscript(ms) = ms
  <1> DEFINE LastOnes(k) == SubSeq(ms, Len(ms) + 1 - k, Len(ms))
             fit == {k \in 0 .. Len(ms) : k <= MaxLines /\ SizeOf(LastOnes(k)) <= MaxSize}
             most == CHOOSE k \in fit : \A j \in fit : j <= k
  <1>1. Len(ms) \in Nat /\ MaxLines \in Nat /\ MaxSize \in Nat
    BY UpgradeConstants
  <1>2. BuildTranscript(ms) = LastOnes(most)
    BY DEF BuildTranscript, LastOnes
  <1>3. LastOnes(0) = <<>>
    BY <1>1
  <1> HIDE DEF LastOnes
  <1>4. 0 \in fit
    <2>1. SizeOf(LastOnes(0)) <= MaxSize /\ 0 \in 0 .. Len(ms) /\ 0 <= MaxLines
      BY <1>1, <1>3, NothingIsShort
    <2> QED
      BY <2>1
  <1>5. fit \in SUBSET (0 .. Len(ms))
    OBVIOUS
  <1> HIDE DEF fit
  <1>6. most \in fit /\ \A j \in fit : j <= most
    BY <1>1, <1>4, <1>5, GreatestIsIn
  <1> HIDE DEF most
  <1>7. most \in 0 .. Len(ms)
    BY <1>5, <1>6
  <1>8. IsSuffix(LastOnes(most), ms)
    BY <1>7, EndIsSuffix DEF LastOnes
  <1>9. ASSUME Len(ms) <= MaxLines, SizeOf(ms) <= MaxSize
        PROVE  LastOnes(most) = ms
    <2>1. LastOnes(Len(ms)) = ms
      <3>1. Len(ms) + 1 - Len(ms) = 1
        BY <1>1
      <3> QED
        BY <3>1 DEF LastOnes
    <2>2. Len(ms) \in fit
      BY <1>1, <1>9, <2>1 DEF fit
    <2>3. most = Len(ms)
      BY <1>1, <1>6, <1>7, <2>2
    <2> QED
      BY <2>1, <2>3
  <1> QED
    BY <1>2, <1>8, <1>9

\* What is told of a talk is told of the talk that goes on.
LEMMA TellingStands ==
  ASSUME NEW t \in Seq(Nat), NEW x \in Nat, NEW g, Began(g, t)
  PROVE  /\ Began(g, Append(t, x))
         /\ Told(g, t) => Told(g, Append(t, x))
  <1> DEFINE u == Append(t, x)
  <1>1. /\ Len(t) \in Nat /\ Len(g.then) \in Nat /\ Len(g.then) <= Len(t)
        /\ u \in Seq(Nat) /\ Len(u) = Len(t) + 1
    BY DEF Began
  <1>2. \A k \in 0 .. Len(t) : SubSeq(u, 1, k) = SubSeq(t, 1, k)
    OBVIOUS
  <1> HIDE DEF u
  <1>3. Began(g, u)
    BY <1>1, <1>2 DEF Began
  <1>4. ASSUME Told(g, t) PROVE Told(g, u)
    <2>1. PICK k \in Len(g.then) .. Len(t) :
            /\ IsSuffix(g.transcript, SubSeq(t, 1, k))
            /\ k = Len(g.then) /\ k <= MaxLines /\ SizeOf(g.then) <= MaxSize
                 => g.transcript = g.then
      BY <1>4 DEF Told
    <2>2. k \in Len(g.then) .. Len(u) /\ k \in 0 .. Len(t)
      BY <1>1
    <2>3. SubSeq(u, 1, k) = SubSeq(t, 1, k)
      BY <1>2, <2>2
    <2> QED
      BY <2>1, <2>2, <2>3 DEF Told
  <1> QED
    BY <1>3, <1>4 DEF u

LEMMA SayMoreKeeps == UpgradeInv /\ SayMore => UpgradeInv'
  <1> SUFFICES ASSUME UpgradeInv, SayMore PROVE UpgradeInv'
    OBVIOUS
  <1> DEFINE x == TalkSizes[Len(talk) + 1]
  <1>1. /\ session.there /\ Len(talk) < Len(TalkSizes) /\ talk' = Append(talk, x)
        /\ UNCHANGED <<session, teams, confirm, folds>>
    BY DEF SayMore
  <1>2. UpgradeType /\ GroupsInStep /\ PointsAtDone /\ TalkIsTold
    BY DEF UpgradeInv
  <1>3. talk \in Seq(Nat) /\ x \in Nat
    BY <1>1, <1>2, UpgradeConstants DEF UpgradeType
  <1> HIDE DEF x
  <1>4. UpgradeType'
    BY <1>1, <1>2, <1>3 DEF UpgradeType
  <1>5. GroupsInStep' /\ PointsAtDone'
    BY <1>1, <1>2 DEF GroupsInStep, PointsAtDone
  <1>6. TalkIsTold'
    BY <1>1, <1>2, <1>3, TellingStands DEF TalkIsTold
  <1> QED
    BY <1>4, <1>5, <1>6 DEF UpgradeInv

\* A window's own step: the others stay where they are.
LEMMA Moves ==
  ASSUME UpgradeType, NEW w \in Windows, NEW from, NEW to, Move(w, from, to),
         to \in {"idle", "group", "transcript", "tasks", "mode", "over"}
  PROVE  /\ confirm[w] = from /\ confirm'[w] = to
         /\ \A v \in Windows \ {w} : confirm'[v] = confirm[v]
         /\ confirm' = [v \in Windows |-> confirm'[v]]
         /\ \A v \in Windows :
              confirm'[v] \in {"idle", "group", "transcript", "tasks", "mode", "over"}
  BY DEF UpgradeType, Move

\* A step on the group of a window, which changes its row as far as the step goes.
LEMMA RowMoves ==
  ASSUME UpgradeInv, NEW w \in Windows, NEW from \in {"transcript", "tasks"},
         NEW to \in {"tasks", "mode"}, Move(w, from, to), NEW row,
         teams' = [teams EXCEPT ![w] = row], DOMAIN row = TeamParts,
         row.posted \in 0 .. 1, row.batches \in 0 .. 1,
         to = "tasks" => row.batches = 0 /\ row.tried = 1,
         to = "mode" => row.tried = 2,
         row.then = teams[w].then,
         session.there /\ row.posted = 1 => Told(row, talk),
         UNCHANGED <<talk, session, folds>>
  PROVE  UpgradeInv'
  <1>1. UpgradeType /\ GroupsInStep /\ PointsAtDone /\ TalkIsTold
    BY DEF UpgradeInv
  <1>2. /\ confirm[w] = from /\ confirm'[w] = to
        /\ \A v \in Windows \ {w} : confirm'[v] = confirm[v]
        /\ confirm' = [v \in Windows |-> confirm'[v]]
        /\ \A v \in Windows :
             confirm'[v] \in {"idle", "group", "transcript", "tasks", "mode", "over"}
    BY <1>1, Moves
  <1>3. /\ w \in DOMAIN teams /\ DOMAIN teams' = DOMAIN teams /\ teams'[w] = row
        /\ \A v \in DOMAIN teams : v # w => teams'[v] = teams[v]
    BY <1>1, <1>2 DEF GroupsInStep
  <1>4. UpgradeType'
    BY <1>1, <1>2, <1>3 DEF UpgradeType
  <1>5. GroupsInStep'
    BY <1>1, <1>2, <1>3 DEF GroupsInStep, UpgradeType
  <1>6. PointsAtDone'
    BY <1>1, <1>2, <1>3 DEF PointsAtDone, UpgradeType
  <1>7. TalkIsTold'
    BY <1>1, <1>3 DEF TalkIsTold, Began
  <1> QED
    BY <1>4, <1>5, <1>6, <1>7 DEF UpgradeInv

LEMMA PostTranscriptKeeps ==
  ASSUME UpgradeInv, NEW w \in Windows, PostTranscript(w)
  PROVE  UpgradeInv'
  <1> DEFINE g == teams[w]
  <1>1. UpgradeType /\ GroupsInStep /\ TalkIsTold
    BY DEF UpgradeInv
  <1>2. Move(w, "transcript", "tasks") /\ UNCHANGED <<talk, session, folds>>
    BY DEF PostTranscript
  <1>3. /\ w \in DOMAIN teams /\ DOMAIN g = TeamParts /\ g.posted = 0 /\ g.batches = 0
        /\ g.tried = 0 /\ talk \in Seq(Nat) /\ (session.there => Began(g, talk))
    BY <1>1, <1>2 DEF GroupsInStep, UpgradeType, TalkIsTold, Move
  <1>4. CASE teams' = [teams EXCEPT ![w].tried = @ + 1]
    <2> DEFINE row == [g EXCEPT !.tried = g.tried + 1]
    <2>1. teams' = [teams EXCEPT ![w] = row]
      BY <1>4
    <2>2. /\ DOMAIN row = TeamParts /\ row.posted = 0 /\ row.batches = 0 /\ row.tried = 1
          /\ row.then = g.then
      BY <1>3 DEF TeamParts
    <2> HIDE DEF row
    <2>3. row.posted \in 0 .. 1 /\ row.batches \in 0 .. 1 /\ row.posted # 1
      BY <2>2
    <2> QED
      BY <1>2, <2>1, <2>2, <2>3, RowMoves
  <1>5. CASE teams' = [teams EXCEPT ![w].transcript = BuildTranscript(talk),
                                    ![w].posted = @ + 1, ![w].tried = @ + 1]
    <2> DEFINE row == [g EXCEPT !.transcript = BuildTranscript(talk),
                                !.posted = g.posted + 1, !.tried = g.tried + 1]
    <2>1. teams' = [teams EXCEPT ![w] = row]
      BY <1>3, <1>5
    <2>2. /\ DOMAIN row = TeamParts /\ row.posted = 1 /\ row.batches = 0 /\ row.tried = 1
          /\ row.then = g.then /\ row.transcript = BuildTranscript(talk)
      BY <1>3 DEF TeamParts
    <2> HIDE DEF row
    <2>3. session.there => Told(row, talk)
      <3> SUFFICES ASSUME session.there PROVE Told(row, talk)
        OBVIOUS
      <3>1. /\ Len(g.then) <= Len(talk) /\ SubSeq(talk, 1, Len(g.then)) = g.then
            /\ g.then \in Seq(Nat) /\ Len(talk) \in Len(g.then) .. Len(talk)
            /\ Len(talk) \in Nat
        BY <1>3 DEF Began
      <3>2. SubSeq(talk, 1, Len(talk)) = talk
        BY <1>3
      <3>3. IsSuffix(row.transcript, SubSeq(talk, 1, Len(talk)))
        BY <1>3, <2>2, <3>2, TranscriptIs
      <3>4. Len(talk) = Len(g.then) => talk = g.then
        BY <3>1, <3>2
      <3>5. Len(talk) = Len(g.then) /\ Len(talk) <= MaxLines /\ SizeOf(g.then) <= MaxSize
              => row.transcript = g.then
        BY <1>3, <2>2, <3>4, TranscriptIs
      <3> QED
        BY <2>2, <3>1, <3>3, <3>5 DEF Told
    <2>4. row.posted \in 0 .. 1 /\ row.batches \in 0 .. 1
      BY <2>2
    <2> QED
      BY <1>2, <2>1, <2>2, <2>3, <2>4, RowMoves
  <1> QED
    BY <1>4, <1>5 DEF PostTranscript

LEMMA SubmitTasksKeeps ==
  ASSUME UpgradeInv, NEW w \in Windows, SubmitTasks(w)
  PROVE  UpgradeInv'
  <1> DEFINE g == teams[w]
  <1>1. UpgradeType /\ GroupsInStep /\ TalkIsTold
    BY DEF UpgradeInv
  <1>2. Move(w, "tasks", "mode") /\ UNCHANGED <<talk, session, folds>>
    BY DEF SubmitTasks
  <1>3. /\ w \in DOMAIN teams /\ DOMAIN g = TeamParts /\ g.posted \in 0 .. 1 /\ g.batches = 0
        /\ g.tried = 1 /\ (session.there /\ g.posted = 1 => Told(g, talk))
    BY <1>1, <1>2 DEF GroupsInStep, UpgradeType, TalkIsTold, Move
  <1>4. \E row : /\ teams' = [teams EXCEPT ![w] = row]
                 /\ DOMAIN row = TeamParts /\ row.posted = g.posted /\ row.batches \in 0 .. 1
                 /\ row.tried = 2 /\ row.then = g.then /\ row.transcript = g.transcript
    <2>1. CASE teams' = [teams EXCEPT ![w].batches = @ + 1, ![w].tried = @ + 1]
      <3> DEFINE row == [g EXCEPT !.batches = g.batches + 1, !.tried = g.tried + 1]
      <3>1. teams' = [teams EXCEPT ![w] = row]
        BY <1>3, <2>1
      <3>2. /\ DOMAIN row = TeamParts /\ row.posted = g.posted /\ row.batches \in 0 .. 1
            /\ row.tried = 2 /\ row.then = g.then /\ row.transcript = g.transcript
        BY <1>3 DEF TeamParts
      <3> HIDE DEF row
      <3> QED
        BY <3>1, <3>2
    <2>2. CASE teams' = [teams EXCEPT ![w].tried = @ + 1]
      <3> DEFINE row == [g EXCEPT !.tried = g.tried + 1]
      <3>1. teams' = [teams EXCEPT ![w] = row]
        BY <2>2
      <3>2. /\ DOMAIN row = TeamParts /\ row.posted = g.posted /\ row.batches \in 0 .. 1
            /\ row.tried = 2 /\ row.then = g.then /\ row.transcript = g.transcript
        BY <1>3 DEF TeamParts
      <3> HIDE DEF row
      <3> QED
        BY <3>1, <3>2
    <2> QED
      BY <2>1, <2>2 DEF SubmitTasks
  <1>5. PICK row : /\ teams' = [teams EXCEPT ![w] = row]
                   /\ DOMAIN row = TeamParts /\ row.posted = g.posted /\ row.batches \in 0 .. 1
                   /\ row.tried = 2 /\ row.then = g.then /\ row.transcript = g.transcript
    BY <1>4
  <1>6. (session.there /\ row.posted = 1 => Told(row, talk)) /\ row.posted \in 0 .. 1
    BY <1>3, <1>5 DEF Told
  <1> QED
    BY <1>2, <1>5, <1>6, RowMoves

LEMMA MakeTeamKeeps ==
  ASSUME UpgradeInv, NEW w \in Windows, MakeTeam(w)
  PROVE  UpgradeInv'
  <1> DEFINE new == [transcript |-> <<>>, posted |-> 0, batches |-> 0, tried |-> 0, then |-> talk]
  <1>1. UpgradeType /\ GroupsInStep /\ PointsAtDone /\ TalkIsTold
    BY DEF UpgradeInv
  <1>2. /\ DOMAIN new = TeamParts /\ new.posted = 0 /\ new.batches = 0
        /\ new.tried = 0 /\ new.then = talk
    BY DEF TeamParts
  <1> HIDE DEF new
  <1>3. CASE Move(w, "group", "over") /\ UNCHANGED <<teams, talk, session, folds>>
    <2>1. /\ confirm[w] = "group" /\ confirm'[w] = "over"
          /\ \A v \in Windows \ {w} : confirm'[v] = confirm[v]
          /\ confirm' = [v \in Windows |-> confirm'[v]]
          /\ \A v \in Windows :
               confirm'[v] \in {"idle", "group", "transcript", "tasks", "mode", "over"}
      BY <1>1, <1>3, Moves
    <2>2. UpgradeType' /\ TalkIsTold'
      BY <1>1, <1>3, <2>1 DEF UpgradeType, TalkIsTold
    <2>3. GroupsInStep' /\ PointsAtDone'
      BY <1>1, <1>3, <2>1 DEF GroupsInStep, PointsAtDone, UpgradeType
    <2> QED
      BY <2>2, <2>3 DEF UpgradeInv
  <1>4. CASE /\ Move(w, "group", "transcript") /\ UNCHANGED <<talk, session, folds>>
             /\ teams' = [v \in DOMAIN teams \cup {w} |-> IF v = w THEN new ELSE teams[v]]
    <2>1. /\ confirm[w] = "group" /\ confirm'[w] = "transcript"
          /\ \A v \in Windows \ {w} : confirm'[v] = confirm[v]
          /\ confirm' = [v \in Windows |-> confirm'[v]]
          /\ \A v \in Windows :
               confirm'[v] \in {"idle", "group", "transcript", "tasks", "mode", "over"}
      BY <1>1, <1>4, Moves
    <2>2. /\ DOMAIN teams' = DOMAIN teams \cup {w} /\ teams'[w] = new /\ w \notin DOMAIN teams
          /\ \A v \in DOMAIN teams : v # w => teams'[v] = teams[v]
      BY <1>1, <1>4, <2>1 DEF GroupsInStep
    <2>3. UpgradeType'
      BY <1>1, <1>2, <1>4, <2>1, <2>2 DEF UpgradeType
    <2>4. GroupsInStep'
      BY <1>1, <1>2, <2>1, <2>2 DEF GroupsInStep, UpgradeType
    <2>5. PointsAtDone'
      BY <1>1, <1>4, <2>1, <2>2 DEF PointsAtDone, UpgradeType
    <2>6. Began(new, talk)
      BY <1>1, <1>2 DEF Began, UpgradeType
    <2>7. TalkIsTold'
      BY <1>1, <1>2, <1>4, <2>2, <2>6 DEF TalkIsTold
    <2> QED
      BY <2>3, <2>4, <2>5, <2>7 DEF UpgradeInv
  <1> QED
    BY <1>3, <1>4 DEF MakeTeam, new

LEMMA PointAtTeamKeeps ==
  ASSUME UpgradeInv, NEW w \in Windows, PointAtTeam(w)
  PROVE  UpgradeInv'
  <1>1. UpgradeType /\ GroupsInStep /\ PointsAtDone /\ TalkIsTold
    BY DEF UpgradeInv
  <1>2. /\ Move(w, "mode", "over") /\ UNCHANGED <<talk, teams, folds>>
        /\ session' = IF session.there THEN [session EXCEPT !.mode = "group", !.team = w]
                      ELSE session
    BY DEF PointAtTeam, ModeAfter
  <1>3. /\ confirm[w] = "mode" /\ confirm'[w] = "over"
        /\ \A v \in Windows \ {w} : confirm'[v] = confirm[v]
        /\ confirm' = [v \in Windows |-> confirm'[v]]
        /\ \A v \in Windows :
             confirm'[v] \in {"idle", "group", "transcript", "tasks", "mode", "over"}
    BY <1>1, <1>2, Moves
  <1>4. w \in DOMAIN teams /\ teams[w].tried = 2 /\ w # NoGroup
    BY <1>1, <1>3, UpgradeConstants DEF GroupsInStep, NoGroup
  <1>5. /\ DOMAIN session' = {"there", "mode", "team"} /\ session'.there = session.there
        /\ \/ session'.mode = "group" /\ session'.team = w
           \/ session' = session
    BY <1>1, <1>2 DEF UpgradeType
  <1>6. UpgradeType'
    BY <1>1, <1>2, <1>3, <1>5 DEF UpgradeType
  <1>7. GroupsInStep'
    BY <1>1, <1>2, <1>3 DEF GroupsInStep, UpgradeType
  <1>8. PointsAtDone'
    BY <1>1, <1>2, <1>3, <1>4, <1>5 DEF PointsAtDone, UpgradeType
  <1>9. TalkIsTold'
    BY <1>1, <1>2, <1>5 DEF TalkIsTold
  <1> QED
    BY <1>6, <1>7, <1>8, <1>9 DEF UpgradeInv

LEMMA SessionStepKeeps == UpgradeInv /\ (FoldToChat \/ DropSession) => UpgradeInv'
  <1> SUFFICES ASSUME UpgradeInv, FoldToChat \/ DropSession PROVE UpgradeInv'
    OBVIOUS
  <1>1. UpgradeType /\ GroupsInStep /\ PointsAtDone /\ TalkIsTold
    BY DEF UpgradeInv
  <1>2. UNCHANGED <<teams, confirm>>
    BY DEF FoldToChat, DropSession
  <1>3. GroupsInStep'
    BY <1>1, <1>2 DEF GroupsInStep
  <1>4. CASE FoldToChat
    <2>1. /\ talk' = talk /\ DOMAIN session' = {"there", "mode", "team"}
          /\ session'.there = session.there /\ session'.mode = "chat" /\ session'.team = NoGroup
      BY <1>1, <1>4 DEF FoldToChat, UpgradeType
    <2> QED
      BY <1>1, <1>2, <1>3, <2>1 DEF UpgradeInv, UpgradeType, PointsAtDone, TalkIsTold
  <1>5. CASE DropSession
    <2>1. /\ talk' = <<>> /\ DOMAIN session' = {"there", "mode", "team"}
          /\ session'.there = FALSE /\ session'.mode = session.mode
          /\ session'.team = session.team
      BY <1>1, <1>5 DEF DropSession, UpgradeType
    <2>2. talk' \in Seq(Nat)
      BY <2>1
    <2> QED
      BY <1>1, <1>2, <1>3, <2>1, <2>2 DEF UpgradeInv, UpgradeType, PointsAtDone, TalkIsTold
  <1> QED
    BY <1>4, <1>5

LEMMA UpgradesStay == UpgradeInv /\ [UpgradesNext]_upgradeVars => UpgradeInv'
  <1> SUFFICES ASSUME UpgradeInv, [UpgradesNext]_upgradeVars PROVE UpgradeInv'
    OBVIOUS
  <1>1. UpgradeType /\ GroupsInStep /\ PointsAtDone /\ TalkIsTold
    BY DEF UpgradeInv
  <1>2. ASSUME NEW w \in Windows, BeginConfirm(w) PROVE UpgradeInv'
    <2>1. Move(w, "idle", "group") /\ UNCHANGED <<talk, session, teams, folds>>
      BY <1>2 DEF BeginConfirm
    <2>2. /\ confirm[w] = "idle" /\ confirm'[w] = "group"
          /\ \A v \in Windows \ {w} : confirm'[v] = confirm[v]
          /\ confirm' = [v \in Windows |-> confirm'[v]]
          /\ \A v \in Windows :
               confirm'[v] \in {"idle", "group", "transcript", "tasks", "mode", "over"}
      BY <1>1, <2>1, Moves
    <2>3. GroupsInStep' /\ PointsAtDone'
      BY <1>1, <2>1, <2>2 DEF GroupsInStep, PointsAtDone, UpgradeType
    <2> QED
      BY <1>1, <2>1, <2>2, <2>3 DEF UpgradeInv, UpgradeType, TalkIsTold
  <1>3. ASSUME NEW w \in Windows, UpgradeCrash(w) PROVE UpgradeInv'
    <2>1. /\ confirm' = [v \in Windows |-> IF confirm[v] = "idle" THEN "idle" ELSE "over"]
          /\ UNCHANGED <<talk, session, teams, folds>>
      BY <1>3 DEF UpgradeCrash
    <2>2. /\ confirm' = [v \in Windows |-> confirm'[v]]
          /\ \A v \in Windows : /\ confirm'[v] \in {"idle", "over"}
                                /\ confirm'[v] = "idle" => confirm[v] = "idle"
                                /\ confirm[v] = "over" => confirm'[v] = "over"
      BY <2>1
    <2>3. GroupsInStep' /\ PointsAtDone'
      BY <1>1, <2>1, <2>2 DEF GroupsInStep, PointsAtDone, UpgradeType
    <2> QED
      BY <1>1, <2>1, <2>2, <2>3 DEF UpgradeInv, UpgradeType, TalkIsTold
  <1>4. CASE UNCHANGED upgradeVars
    BY <1>1, <1>4 DEF upgradeVars, UpgradeInv, UpgradeType, GroupsInStep, PointsAtDone, TalkIsTold
  <1> QED
    BY <1>2, <1>3, <1>4, SayMoreKeeps, SessionStepKeeps, MakeTeamKeeps, PostTranscriptKeeps,
       SubmitTasksKeeps, PointAtTeamKeeps
    DEF UpgradesNext

\* A chat that was made a group keeps what was said, whatever windows, folds, deletions and
\* crashes fall together.
THEOREM TalkIsKept == UpgradesSpec => []UpgradeKeepsTalk
  <1>1. UpgradesInit => UpgradeInv
    <2> SUFFICES ASSUME UpgradesInit PROVE UpgradeInv
      OBVIOUS
    <2>1. UpgradeType
      BY DEF UpgradesInit, UpgradeType
    <2>2. GroupsInStep /\ PointsAtDone /\ TalkIsTold
      BY DEF UpgradesInit, GroupsInStep, PointsAtDone, TalkIsTold, NoGroup
    <2> QED
      BY <2>1, <2>2 DEF UpgradeInv
  <1>2. UpgradeInv /\ [UpgradesNext]_upgradeVars => UpgradeInv'
    BY UpgradesStay
  <1>3. UpgradeInv => UpgradeKeepsTalk
    <2> SUFFICES ASSUME UpgradeInv PROVE UpgradeKeepsTalk
      OBVIOUS
    <2>1. ASSUME NEW w \in DOMAIN teams
          PROVE  /\ teams[w].posted <= 1 /\ teams[w].batches <= 1
                 /\ teams[w].posted = 1 /\ session.there => Told(teams[w], talk)
      BY DEF UpgradeInv, UpgradeType, GroupsInStep, TalkIsTold
    <2> QED
      BY <2>1 DEF UpgradeInv, PointsAtDone, UpgradeKeepsTalk, Told
  <1> QED
    BY <1>1, <1>2, <1>3, PTL DEF UpgradesSpec
-----------------------------------------------------------------------------
(***************************************************************************)
(* Plans.  What an entry says follows from its place, the rounds there     *)
(* have been and where the run is.                                         *)
(***************************************************************************)
PlanStages == {"plan", "propose", "top", "llm", "round", "rejected", "exhausted", "cancelled",
               "paused", "text", "error", "stopped", "timed out", "panicked"}
PlanType ==
  /\ planKit \in PlanKits /\ planStage \in PlanStages
  /\ outcomesSoFar \in Seq({"ok", "some", "all"})
  /\ iteration = planKit.from + Len(outcomesSoFar)
  /\ todos = [i \in DOMAIN todos |-> todos[i]] /\ DOMAIN todos \subseteq Nat \ {0}
  /\ planStage \in {"plan", "propose"} => outcomesSoFar = <<>>
  /\ planStage = "plan" => todos = <<>>

\* A round ended there; it is the turn of this one; it was never begun.
EntriesTell ==
  \A i \in DOMAIN todos :
    /\ i <= Rounds => todos[i] = IF outcomesSoFar[i] = "ok" THEN "done" ELSE "failed"
    /\ i = Rounds + 1 =>
         /\ planStage \in {"llm", "round", "timed out"} => todos[i] = "active"
         /\ planStage = "panicked" => todos[i] \in {"pending", "active"}
         /\ planStage \in {"error", "text", "stopped"} => todos[i] = "failed"
         /\ planStage = "cancelled" => todos[i] \in {"pending", "failed"}
         /\ planStage \in {"plan", "propose", "top", "rejected", "paused", "exhausted"} =>
              todos[i] = "pending"
    /\ i > Rounds + 1 =>
         todos[i] = IF planStage \in {"text", "stopped"} THEN "failed" ELSE "pending"
ListsAreMeant == /\ planStage = "propose" => DOMAIN todos # {}
                 /\ planKit.from > 0 => todos = <<>>
PlanInv == PlanType /\ EntriesTell /\ ListsAreMeant

LEMMA IndexIs == PlanType => Rounds \in Nat /\ Index = Rounds + 1
  <1> SUFFICES ASSUME PlanType PROVE Rounds \in Nat /\ Index = Rounds + 1
    OBVIOUS
  <1>1. Rounds \in Nat /\ planKit.from \in Nat
    BY PlanConstants DEF PlanType, Rounds
  <1> QED
    BY <1>1 DEF PlanType, Rounds, Index

LEMMA EntriesAreCounted ==
  ASSUME NEW items \in Seq(BOOLEAN)
  PROVE  Titled(items) \in Nat
  <1> DEFINE S == {i \in DOMAIN items : items[i]}
  <1>1. Len(items) \in Nat /\ S \subseteq 1 .. Len(items)
    OBVIOUS
  <1>2. IsFiniteSet(1 .. Len(items))
    BY <1>1, FS_Interval
  <1> HIDE DEF S
  <1>3. Cardinality(S) \in Nat
    BY <1>1, <1>2, FS_Subset, FS_CardinalityType
  <1> QED
    BY <1>3 DEF Titled, S

\* A list of no entries is still one when its entries are marked.
LEMMA EmptyStays ==
  ASSUME NEW t, NEW u, DOMAIN u = DOMAIN t, u = [i \in DOMAIN u |-> u[i]], t = <<>>
  PROVE  u = <<>>
  <1>1. DOMAIN u = {}
    OBVIOUS
  <1>2. [i \in {} |-> u[i]] = <<>>
    OBVIOUS
  <1> QED
    BY <1>1, <1>2

LEMMA PlanSays ==
  ASSUME NEW plan, NEW n, NEW p, plan = [todos |-> n, proposal |-> p]
  PROVE  plan.todos = n
  OBVIOUS

LEMMA PlanTurnKeeps == PlanInv /\ PlanTurn => PlanInv'
  <1> SUFFICES ASSUME PlanInv, PlanTurn PROVE PlanInv'
    OBVIOUS
  <1> DEFINE got == IF SkipsPlanning THEN NoPlan ELSE ParsePlan(planKit.answer)
  <1>1. /\ planStage = "plan" /\ todos' = [i \in 1 .. got.todos |-> "pending"]
        /\ planStage' = IF got.proposal THEN "propose" ELSE "top"
        /\ UNCHANGED <<planKit, iteration, failedRounds, outcomesSoFar>>
    BY DEF PlanTurn
  <1>2. PlanType /\ planKit.from \in Nat /\ Titled(planKit.answer.items) \in Nat
    BY PlanConstants, EntriesAreCounted DEF PlanInv, PlanType
  <1>3. got.todos \in Nat /\ (got.proposal => got.todos > 0) /\ (planKit.from > 0 => got.todos = 0)
    <2> DEFINE n == Titled(planKit.answer.items)
               parsed == ParsePlan(planKit.answer)
    <2>1. NoPlan.todos = 0 /\ NoPlan.proposal = FALSE
      BY DEF NoPlan
    <2>2. parsed = NoPlan \/ (n # 0 /\ parsed.todos = n)
      <3>1. \/ parsed = NoPlan
            \/ /\ n # 0
               /\ parsed = [todos |-> n, proposal |-> TRUE \in ToSet(planKit.answer.options)]
        BY Zenon DEF ParsePlan
      <3> HIDE DEF n, parsed
      <3> QED
        BY <3>1, PlanSays
    <2>3. planKit.from > 0 => SkipsPlanning
      BY DEF SkipsPlanning
    <2> HIDE DEF parsed
    <2>4. got = NoPlan \/ (n # 0 /\ got.todos = n /\ ~ SkipsPlanning)
      BY <2>2 DEF parsed
    <2> QED
      BY <1>2, <2>1, <2>3, <2>4
  <1> HIDE DEF got
  <1>4. DOMAIN todos' = 1 .. got.todos /\ \A i \in DOMAIN todos' : todos'[i] = "pending"
    BY <1>1
  <1>5. outcomesSoFar = <<>> /\ Rounds' = 0
    BY <1>1, <1>2 DEF PlanType, Rounds
  <1>6. PlanType'
    BY <1>1, <1>2, <1>3, <1>5 DEF PlanType, PlanStages
  <1>7. EntriesTell'
    BY <1>1, <1>3, <1>4, <1>5 DEF EntriesTell
  <1>8. ListsAreMeant'
    <2>1. planKit.from > 0 => todos' = <<>>
      BY <1>1, <1>3
    <2>2. planStage' = "propose" => 1 \in DOMAIN todos'
      BY <1>1, <1>3, <1>4
    <2> QED
      BY <1>1, <2>1, <2>2 DEF ListsAreMeant
  <1> QED
    BY <1>6, <1>7, <1>8 DEF PlanInv

\* The list is the same, the round has not ended.
LEMMA DecideKeeps == PlanInv /\ DecideProposal => PlanInv'
  <1> SUFFICES ASSUME PlanInv, DecideProposal PROVE PlanInv'
    OBVIOUS
  <1>1. /\ planStage = "propose" /\ planStage' \in {"top", "rejected"}
        /\ UNCHANGED <<planKit, todos, iteration, failedRounds, outcomesSoFar>>
    BY DEF DecideProposal
  <1> QED
    BY <1>1 DEF PlanInv, PlanType, PlanStages, EntriesTell, ListsAreMeant, Rounds

\* What a step makes of the list, entry by entry.
LEMMA ListStays ==
  ASSUME PlanInv, UNCHANGED <<planKit, iteration, outcomesSoFar>>,
         planStage \in {"top", "llm"}, planStage' \in PlanStages \ {"plan", "propose"},
         \/ todos' = todos
         \/ \E s : todos' = Mark(Index, s)
         \/ todos' = FinalizeTodos(todos)
  PROVE  /\ PlanType' /\ ListsAreMeant' /\ Rounds' = Rounds /\ DOMAIN todos' = DOMAIN todos
  <1>1. DOMAIN todos' = DOMAIN todos /\ todos' = [i \in DOMAIN todos' |-> todos'[i]]
    BY DEF PlanInv, PlanType, Mark, FinalizeTodos
  <1>2. todos = <<>> => todos' = <<>>
    BY <1>1, EmptyStays
  <1> QED
    BY <1>1, <1>2 DEF PlanInv, PlanType, ListsAreMeant, Rounds

LEMMA TopOfLoopKeeps == PlanInv /\ TopOfLoop => PlanInv'
  <1> SUFFICES ASSUME PlanInv, TopOfLoop PROVE PlanInv'
    OBVIOUS
  <1>1. planStage = "top" /\ UNCHANGED <<planKit, iteration, failedRounds, outcomesSoFar>>
    BY DEF TopOfLoop
  <1>2. \/ planStage' = "llm" /\ todos' = Mark(Index, "active")
        \/ planStage' \in {"exhausted", "cancelled", "paused"} /\ todos' = todos
    BY DEF TopOfLoop
  <1>3. planStage' \in PlanStages \ {"plan", "propose"}
    BY <1>2 DEF PlanStages
  <1>4. /\ PlanType' /\ ListsAreMeant' /\ Rounds' = Rounds /\ DOMAIN todos' = DOMAIN todos
        /\ Rounds \in Nat /\ Index = Rounds + 1 /\ DOMAIN todos \subseteq Nat /\ EntriesTell
    BY <1>1, <1>2, <1>3, ListStays, IndexIs DEF PlanInv, PlanType
  <1>5. CASE planStage' = "llm" /\ todos' = Mark(Index, "active")
    <2>1. \A i \in DOMAIN todos : todos'[i] = IF i = Rounds + 1 THEN "active" ELSE todos[i]
      BY <1>4, <1>5 DEF Mark
    <2>2. EntriesTell'
      BY <1>1, <1>4, <1>5, <2>1 DEF EntriesTell
    <2> QED
      BY <1>4, <2>2 DEF PlanInv
  <1>6. CASE planStage' \in {"exhausted", "cancelled", "paused"} /\ todos' = todos
    <2>1. EntriesTell'
      BY <1>1, <1>4, <1>6 DEF EntriesTell
    <2> QED
      BY <1>4, <2>1 DEF PlanInv
  <1> QED
    BY <1>2, <1>5, <1>6

LEMMA LlmAnswersKeeps == PlanInv /\ LlmAnswers => PlanInv'
  <1> SUFFICES ASSUME PlanInv, LlmAnswers PROVE PlanInv'
    OBVIOUS
  <1>1. planStage = "llm" /\ UNCHANGED <<planKit, iteration, failedRounds, outcomesSoFar>>
    BY DEF LlmAnswers
  <1>2. \/ planStage' = "text" /\ todos' = FinalizeTodos(todos)
        \/ planStage' \in {"round", "timed out"} /\ todos' = todos
        \/ planStage' \in {"error", "cancelled"} /\ todos' = Mark(Index, "failed")
    BY DEF LlmAnswers
  <1>3. planStage' \in PlanStages \ {"plan", "propose"}
    BY <1>2 DEF PlanStages
  <1>4. /\ PlanType' /\ ListsAreMeant' /\ Rounds' = Rounds /\ DOMAIN todos' = DOMAIN todos
        /\ Rounds \in Nat /\ Index = Rounds + 1 /\ DOMAIN todos \subseteq Nat /\ EntriesTell
    BY <1>1, <1>2, <1>3, ListStays, IndexIs DEF PlanInv, PlanType
  <1>5. CASE planStage' = "text" /\ todos' = FinalizeTodos(todos)
    <2>1. \A i \in DOMAIN todos : todos'[i] = IF todos[i] = "done" THEN "done" ELSE "failed"
      BY <1>5 DEF FinalizeTodos
    <2>2. EntriesTell'
      BY <1>1, <1>4, <1>5, <2>1 DEF EntriesTell
    <2> QED
      BY <1>4, <2>2 DEF PlanInv
  <1>6. CASE planStage' \in {"round", "timed out"} /\ todos' = todos
    <2>1. EntriesTell'
      BY <1>1, <1>4, <1>6 DEF EntriesTell
    <2> QED
      BY <1>4, <2>1 DEF PlanInv
  <1>7. CASE planStage' \in {"error", "cancelled"} /\ todos' = Mark(Index, "failed")
    <2>1. \A i \in DOMAIN todos : todos'[i] = IF i = Rounds + 1 THEN "failed" ELSE todos[i]
      BY <1>4, <1>7 DEF Mark
    <2>2. EntriesTell'
      BY <1>1, <1>4, <1>7, <2>1 DEF EntriesTell
    <2> QED
      BY <1>4, <2>2 DEF PlanInv
  <1> QED
    BY <1>2, <1>5, <1>6, <1>7

LEMMA EndRoundKeeps ==
  ASSUME PlanInv, NEW o \in {"ok", "some", "all"}, RoundEnds(o)
  PROVE  PlanInv'
  <1> DEFINE marked == Mark(Index, StatusAfter(o))
             stops == o = "all" /\ failedRounds + 1 >= MaxFailedRounds
  <1>1. /\ planStage = "round" /\ outcomesSoFar' = Append(outcomesSoFar, o)
        /\ todos' = IF stops THEN FailRest(marked) ELSE marked
        /\ planStage' = IF stops THEN "stopped" ELSE "top"
        /\ iteration' = iteration + 1 /\ planKit' = planKit
    BY DEF RoundEnds
  <1>2. stops => o = "all"
    OBVIOUS
  <1>3. /\ PlanType /\ EntriesTell /\ ListsAreMeant /\ Rounds \in Nat /\ Index = Rounds + 1
        /\ outcomesSoFar \in Seq({"ok", "some", "all"}) /\ DOMAIN todos \subseteq Nat
        /\ planKit.from \in Nat
    BY IndexIs, PlanConstants DEF PlanInv, PlanType
  <1>4. /\ outcomesSoFar' \in Seq({"ok", "some", "all"}) /\ Rounds' = Rounds + 1
        /\ outcomesSoFar'[Rounds + 1] = o
        /\ \A i \in 1 .. Rounds : outcomesSoFar'[i] = outcomesSoFar[i]
    BY <1>1, <1>3 DEF Rounds
  <1>5. DOMAIN marked = DOMAIN todos /\ \A i \in DOMAIN todos :
          marked[i] = IF i = Rounds + 1 THEN (IF o = "ok" THEN "done" ELSE "failed") ELSE todos[i]
    BY <1>3 DEF Mark, StatusAfter
  <1>0. \A i \in DOMAIN todos :
          /\ i <= Rounds => todos[i] = IF outcomesSoFar[i] = "ok" THEN "done" ELSE "failed"
          /\ i > Rounds + 1 => todos[i] = "pending"
    BY <1>1, <1>3 DEF EntriesTell
  <1> HIDE DEF marked, stops
  <1>6. DOMAIN FailRest(marked) = DOMAIN todos /\ \A i \in DOMAIN todos :
          FailRest(marked)[i] =
            IF i >= Rounds + 1 /\ marked[i] # "done" THEN "failed" ELSE marked[i]
    BY <1>3, <1>5 DEF FailRest
  <1>7. DOMAIN todos' = DOMAIN todos /\ todos' = [i \in DOMAIN todos' |-> todos'[i]]
    BY <1>1, <1>5, <1>6 DEF FailRest, marked, Mark
  <1>8. 0 \notin DOMAIN todos /\ (todos = <<>> => todos' = <<>>)
    BY <1>3, <1>7, EmptyStays DEF PlanType
  <1>9. PlanType'
    <2>1. iteration' = planKit'.from + Len(outcomesSoFar')
      <3>1. iteration = planKit.from + Rounds /\ Len(outcomesSoFar') = Rounds + 1
        BY <1>3, <1>4 DEF PlanType, Rounds
      <3> QED
        BY <1>1, <1>3, <3>1
    <2>2. planStage' \in PlanStages \ {"plan", "propose"}
      BY <1>1 DEF PlanStages
    <2> QED
      BY <1>1, <1>3, <1>4, <1>7, <2>1, <2>2 DEF PlanType
  <1>10. EntriesTell'
    <2>1. \A i \in DOMAIN todos' : i \in DOMAIN todos /\ i \in Nat
      BY <1>3, <1>4, <1>7
    <2>2. CASE stops
      <3>1. \A i \in DOMAIN todos : todos'[i] = IF i <= Rounds THEN marked[i] ELSE "failed"
        BY <1>1, <1>2, <1>3, <1>4, <1>5, <1>6, <2>2 DEF EntriesTell
      <3>2. \A i \in DOMAIN todos : i <= Rounds => marked[i] = todos[i]
        BY <1>3, <1>5
      <3>3. \A i \in DOMAIN todos : i <= Rounds =>
              todos'[i] = IF outcomesSoFar'[i] = "ok" THEN "done" ELSE "failed"
        <4> SUFFICES ASSUME NEW i \in DOMAIN todos, i <= Rounds
                     PROVE  todos'[i] = IF outcomesSoFar'[i] = "ok" THEN "done" ELSE "failed"
          OBVIOUS
        <4>1. todos'[i] = todos[i]
          BY <3>1, <3>2
        <4>2. i \in 1 .. Rounds
          BY <1>3, <1>8
        <4> QED
          BY <1>0, <1>4, <4>1, <4>2
      <3>4. planStage' = "stopped" /\ outcomesSoFar'[Rounds + 1] # "ok"
        BY <1>1, <1>2, <1>4, <2>2
      <3>5. \A i \in DOMAIN todos : i > Rounds => todos'[i] = "failed"
        BY <1>3, <3>1
      <3> SUFFICES ASSUME NEW i \in DOMAIN todos' PROVE EntriesTell!(i)'
        BY DEF EntriesTell
      <3>6. i \in DOMAIN todos /\ i \in Nat /\ Rounds' = Rounds + 1 /\ Rounds \in Nat
        BY <1>3, <1>4, <2>1
      <3>7. /\ i <= Rounds + 1 => todos'[i] = IF outcomesSoFar'[i] = "ok" THEN "done" ELSE "failed"
            /\ i > Rounds + 1 => todos'[i] = "failed"
        BY <3>3, <3>4, <3>5, <3>6
      <3> QED
        BY <3>4, <3>6, <3>7
    <2>3. CASE ~ stops
      <3>1. \A i \in DOMAIN todos : todos'[i] =
              IF i = Rounds + 1 THEN (IF o = "ok" THEN "done" ELSE "failed") ELSE todos[i]
        BY <1>1, <1>5, <2>3
      <3>2. \A i \in DOMAIN todos : i <= Rounds =>
              todos'[i] = IF outcomesSoFar'[i] = "ok" THEN "done" ELSE "failed"
        <4> SUFFICES ASSUME NEW i \in DOMAIN todos, i <= Rounds
                     PROVE  todos'[i] = IF outcomesSoFar'[i] = "ok" THEN "done" ELSE "failed"
          OBVIOUS
        <4>1. i \in 1 .. Rounds
          BY <1>3, <1>8
        <4>2. todos'[i] = todos[i]
          BY <1>3, <3>1, <4>1
        <4> QED
          BY <1>0, <1>4, <4>1, <4>2
      <3>3. planStage' = "top" /\ planStage = "round"
        BY <1>1, <2>3
      <3>4. \A i \in DOMAIN todos : i > Rounds + 1 => todos'[i] = "pending"
        BY <1>0, <1>3, <3>1
      <3>5. \A i \in DOMAIN todos : i = Rounds + 1 =>
              todos'[i] = IF outcomesSoFar'[i] = "ok" THEN "done" ELSE "failed"
        BY <1>3, <1>4, <3>1
      <3> SUFFICES ASSUME NEW i \in DOMAIN todos' PROVE EntriesTell!(i)'
        BY DEF EntriesTell
      <3>6. i \in DOMAIN todos /\ i \in Nat /\ Rounds' = Rounds + 1 /\ Rounds \in Nat
        BY <1>3, <1>4, <2>1
      <3>7. /\ i <= Rounds + 1 => todos'[i] = IF outcomesSoFar'[i] = "ok" THEN "done" ELSE "failed"
            /\ i > Rounds + 1 => todos'[i] = "pending"
        BY <3>2, <3>4, <3>5, <3>6
      <3> QED
        BY <3>3, <3>6, <3>7
    <2> QED
      BY <2>2, <2>3
  <1>11. ListsAreMeant'
    BY <1>1, <1>3, <1>7, <1>8 DEF ListsAreMeant
  <1> QED
    BY <1>9, <1>10, <1>11 DEF PlanInv

LEMMA PanicKeeps == PlanInv /\ Panic => PlanInv'
  <1> SUFFICES ASSUME PlanInv, Panic PROVE PlanInv'
    OBVIOUS
  <1>1. /\ planStage \in {"plan", "propose", "top", "llm", "round"} /\ planStage' = "panicked"
        /\ UNCHANGED <<planKit, todos, iteration, failedRounds, outcomesSoFar>>
    BY DEF Panic
  <1>2. PlanType'
    BY <1>1 DEF PlanInv, PlanType, PlanStages
  <1> QED
    BY <1>1, <1>2 DEF PlanInv, EntriesTell, ListsAreMeant, Rounds

\* The list of a run says what was done and what was not, whatever the planner and the model
\* answered and however the run ended; only a call of the model that took too long and a
\* panic leave the entry they fell on active.
THEOREM TodosAreTrue == PlansSpec => []TodosTell
  <1>1. PlansInit => PlanInv
    <2> SUFFICES ASSUME PlansInit PROVE PlanInv
      OBVIOUS
    <2>1. /\ DOMAIN <<>> = {} /\ <<>> = [i \in DOMAIN <<>> |-> <<>>[i]]
          /\ <<>> \in Seq({"ok", "some", "all"})
      OBVIOUS
    <2>2. planKit.from \in Nat /\ Len(outcomesSoFar) = 0
      BY PlanConstants DEF PlansInit
    <2> QED
      BY <2>1, <2>2 DEF PlansInit, PlanInv, PlanType, PlanStages, EntriesTell, ListsAreMeant
  <1>2. PlanInv /\ [PlansNext]_planVars => PlanInv'
    <2> SUFFICES ASSUME PlanInv, [PlansNext]_planVars PROVE PlanInv'
      OBVIOUS
    <2>1. CASE UNCHANGED planVars
      BY <2>1 DEF planVars, PlanInv, PlanType, EntriesTell, ListsAreMeant, Rounds
    <2> QED
      BY <2>1, PlanTurnKeeps, DecideKeeps, TopOfLoopKeeps, LlmAnswersKeeps, EndRoundKeeps, PanicKeeps
      DEF PlansNext, EndRound
  <1>3. PlanInv => TodosTell
    <2> SUFFICES ASSUME PlanInv PROVE TodosTell
      OBVIOUS
    <2>1. /\ Rounds \in Nat /\ Index = Rounds + 1 /\ DOMAIN todos \subseteq Nat
          /\ planStage \in PlanStages /\ ListsAreMeant
      BY IndexIs DEF PlanInv, PlanType
    <2>2. \A i \in DOMAIN todos : i <= Rounds =>
            todos[i] = IF outcomesSoFar[i] = "ok" THEN "done" ELSE "failed"
      BY DEF PlanInv, EntriesTell
    <2>3. \A i \in DOMAIN todos : i = Rounds + 1 =>
            /\ planStage \in {"llm", "round", "timed out"} => todos[i] = "active"
            /\ planStage = "panicked" => todos[i] \in {"pending", "active"}
            /\ planStage \notin {"llm", "round", "timed out", "panicked"} =>
                 todos[i] \in {"pending", "failed"}
            /\ planStage \in {"text", "stopped"} => todos[i] = "failed"
            /\ planStage \in {"paused", "exhausted", "top"} => todos[i] = "pending"
      BY <2>1 DEF PlanInv, EntriesTell, PlanStages
    <2>4. \A i \in DOMAIN todos : i > Rounds + 1 =>
            todos[i] = IF planStage \in {"text", "stopped"} THEN "failed" ELSE "pending"
      BY DEF PlanInv, EntriesTell
    <2>5. \A i \in DOMAIN todos : i <= Rounds \/ i = Rounds + 1 \/ i > Rounds + 1
      BY <2>1
    <2>6. Positions("done") = {i \in DOMAIN todos : i <= Rounds /\ outcomesSoFar[i] = "ok"}
      <3> SUFFICES ASSUME NEW i \in DOMAIN todos
                   PROVE  todos[i] = "done" <=> i <= Rounds /\ outcomesSoFar[i] = "ok"
        BY DEF Positions
      <3>1. CASE i <= Rounds
        BY <2>2, <3>1
      <3>2. CASE i = Rounds + 1
        <4>1. todos[i] \in {"active", "pending", "failed"}
          BY <2>3, <3>2
        <4>2. ~ (i <= Rounds)
          BY <2>1, <3>2
        <4> QED
          BY <4>1, <4>2
      <3>3. CASE i > Rounds + 1
        BY <2>1, <2>4, <3>3
      <3> QED
        BY <2>5, <3>1, <3>2, <3>3
    <2>7. /\ planStage # "panicked" =>
               Positions("active") =
                 {i \in DOMAIN todos : planStage \in {"llm", "round", "timed out"} /\ i = Index}
          /\ planStage = "panicked" => Positions("active") \subseteq {Index}
      <3>1. ASSUME NEW i \in DOMAIN todos, i # Index
            PROVE  todos[i] # "active"
        BY <2>1, <2>2, <2>4, <2>5, <3>1
      <3>2. ASSUME NEW i \in DOMAIN todos, i = Index, planStage # "panicked"
            PROVE  todos[i] = "active" <=> planStage \in {"llm", "round", "timed out"}
        BY <2>1, <2>3, <3>2
      <3> QED
        BY <3>1, <3>2 DEF Positions
    <2>8. planStage \in {"text", "stopped"} => Positions("pending") = {}
      <3> SUFFICES ASSUME planStage \in {"text", "stopped"}, NEW i \in DOMAIN todos
                   PROVE  todos[i] # "pending"
        BY DEF Positions
      <3> QED
        BY <2>2, <2>3, <2>4, <2>5
    <2>9. planStage \notin {"text", "stopped"}
            => {i \in DOMAIN todos : i > Rounds + 1} \subseteq Positions("pending")
      BY <2>4 DEF Positions
    <2>10. planStage \in {"paused", "exhausted", "top"}
            => Positions("pending") = {i \in DOMAIN todos : i > Rounds}
      <3> SUFFICES ASSUME planStage \in {"paused", "exhausted", "top"}, NEW i \in DOMAIN todos
                   PROVE  todos[i] = "pending" <=> i > Rounds
        BY DEF Positions
      <3>1. CASE i <= Rounds
        BY <2>1, <2>2, <3>1
      <3>2. CASE i = Rounds + 1
        <4>1. todos[i] = "pending"
          BY <2>3, <3>2
        <4>2. i > Rounds
          BY <2>1, <3>2
        <4> QED
          BY <4>1, <4>2
      <3>3. CASE i > Rounds + 1
        BY <2>1, <2>4, <3>3
      <3> QED
        BY <2>5, <3>1, <3>2, <3>3
    <2>11. /\ planStage = "propose" => todos # <<>>
           /\ planKit.from > 0 => todos = <<>>
      <3>1. DOMAIN <<>> = {}
        OBVIOUS
      <3> QED
        BY <2>1, <3>1 DEF ListsAreMeant
    <2> QED
      BY <2>6, <2>7, <2>8, <2>9, <2>10, <2>11 DEF TodosTell
  <1> QED
    BY <1>1, <1>2, <1>3, PTL DEF PlansSpec
-----------------------------------------------------------------------------
(***************************************************************************)
(* Memory.  Every text that is in a file, or was read and not yet written  *)
(* back, has its notes on lines of their own, notes only of those who      *)
(* write there, and at most one section; a text nobody overtook is the one *)
(* in the file.                                                            *)
(***************************************************************************)
Glyphs == Rememberers \cup {EOL, Begin, End, "title"}
Text == Seq(Glyphs)
Profiles == Rememberers \cup {NoProfile}
Lined(t) == \A i \in 1 .. Len(t) - 1 : t[i] = EOL \/ t[i + 1] = EOL
Plain(t) == \A i \in 1 .. Len(t) : t[i] # Begin /\ t[i] # End
SectionAt(t, b, x) ==
  /\ \A i \in 1 .. Len(t) : (t[i] = Begin <=> i = b) /\ (t[i] = End <=> i = b + 4)
  /\ t[b + 1] = EOL /\ t[b + 2] = x /\ t[b + 3] = EOL
\* the profile the text holds
Shows(t, x) == IF x = NoProfile THEN Plain(t) ELSE \E b \in 1 .. Len(t) - 4 : SectionAt(t, b, x)

TextOf(t, p) ==
  /\ t \in Text /\ Lined(t)
  /\ \A x \in Range(t) \cap Rememberers : TargetPath(x) = p
  /\ \E x \in Profiles : Shows(t, x) /\ (x # NoProfile => notes.target[x] = "profile")

NoteForms == [mode : [Rememberers -> {"append", "replace", "save", "clear"}],
              target : [Rememberers -> {"user", "profile", "memory", "project", "distill"}],
              unreadable : Nat]
MemoryType ==
  /\ notes \in NoteForms
  /\ Over(file, Paths) /\ Over(held, Rememberers) /\ Over(prompted, Rememberers)
  /\ wrote \subseteq Rememberers /\ profile \in Profiles
TextsAreSound ==
  /\ \A p \in Paths : TextOf(file[p], p)
  /\ \A s \in Rememberers : held[s] # NotHeld =>
       TextOf(held[s], TargetPath(s)) /\ notes.mode[s] # "replace"
HeldIsFresh == \A s \in Rememberers :
  held[s] # NotHeld /\ TargetPath(s) \notin crossed => held[s] = file[TargetPath(s)]
NotesThere == \A s \in wrote :
  TargetPath(s) \in crossed \cup replaced \/ notes.target[s] = "profile"
    \/ s \in Range(file[TargetPath(s)])
ProfileShown == UserPath \in crossed \/ Shows(file[UserPath], profile)
MemoryInv == /\ MemoryType /\ TextsAreSound /\ HeldIsFresh /\ NotesThere /\ ProfileShown
             /\ MemoryIsolated
-----------------------------------------------------------------------------
LEMMA GlyphsDiffer ==
  /\ EOL # Begin /\ EOL # End /\ Begin # End /\ "title" \notin {EOL, Begin, End}
  /\ NoProfile \notin Rememberers /\ "not held" \notin Glyphs
  /\ EOL \notin Rememberers /\ Begin \notin Rememberers /\ End \notin Rememberers
  /\ EOL \in Glyphs /\ Begin \in Glyphs /\ End \in Glyphs
  BY MemoryConstants DEF EOL, Begin, End, NoProfile, Glyphs

\* trim_end takes line ends and nothing else.
LEMMA TrimIs ==
  ASSUME NEW t \in Text
  PROVE  \E n \in 0 .. Len(t) :
           /\ TrimEnd(t) = SubSeq(t, 1, n) /\ \A i \in n + 1 .. Len(t) : t[i] = EOL
           /\ n > 0 => t[n] # EOL
  <1> DEFINE Good(n) == /\ \A i \in n + 1 .. Len(t) : t[i] = EOL
                        /\ n > 0 => t[n] # EOL
             S == {n \in 0 .. Len(t) : n > 0 => t[n] # EOL}
  <1>1. Len(t) \in Nat
    BY DEF Text
  <1>2. 0 \in S
    BY <1>1
  <1>3. PICK k \in S : \A j \in S : j <= k
    BY <1>1, <1>2, GreatestIsIn
  <1>4. k \in 0 .. Len(t) /\ Good(k)
    BY <1>1, <1>3
  <1>5. TrimEnd(t) = SubSeq(t, 1, CHOOSE n \in 0 .. Len(t) : Good(n))
    BY DEF TrimEnd
  <1> DEFINE n == CHOOSE m \in 0 .. Len(t) : Good(m)
  <1>6. n \in 0 .. Len(t) /\ Good(n)
    <2> HIDE DEF Good
    <2> QED
      BY <1>4
  <1>7. TrimEnd(t) = SubSeq(t, 1, n)
    BY <1>5
  <1> HIDE DEF n
  <1> QED
    BY <1>6, <1>7

LEMMA FindIs ==
  ASSUME NEW t \in Text, NEW x
  PROVE  /\ Find(t, x) \in 0 .. Len(t)
         /\ x \in Range(t) => /\ Find(t, x) > 0 /\ t[Find(t, x)] = x
                              /\ \A k \in 1 .. Find(t, x) - 1 : t[k] # x
         /\ x \notin Range(t) => Find(t, x) = 0
  <1> DEFINE Good(i) == IF x \in Range(t) THEN i > 0 /\ t[i] = x /\ \A k \in 1 .. i - 1 : t[k] # x
                        ELSE i = 0
             S == {i \in 1 .. Len(t) : t[i] = x}
  <1>1. Len(t) \in Nat /\ DOMAIN t = 1 .. Len(t)
    BY DEF Text
  <1>2. \E i \in 0 .. Len(t) : Good(i)
    <2>1. CASE x \in Range(t)
      <3>1. S # {} /\ S \in SUBSET (1 .. Len(t))
        BY <1>1, <2>1 DEF Range
      <3>2. PICK i \in S : \A j \in S : i <= j
        BY <1>1, <3>1, FirstIs
      <3>3. i \in 0 .. Len(t) /\ Good(i)
        BY <1>1, <2>1, <3>2
      <3> QED
        BY <3>3
    <2>2. CASE x \notin Range(t)
      BY <1>1, <2>2
    <2> QED
      BY <2>1, <2>2
  <1>3. Find(t, x) = CHOOSE i \in 0 .. Len(t) : Good(i)
    BY DEF Find
  <1>4. Find(t, x) \in 0 .. Len(t) /\ Good(Find(t, x))
    <2> HIDE DEF Good
    <2> QED
      BY <1>2, <1>3
  <1> QED
    BY <1>4

LEMMA RangeIs ==
  ASSUME NEW t \in Text
  PROVE  \A x : x \in Range(t) <=> \E i \in 1 .. Len(t) : t[i] = x
  BY DEF Text, Range

\* Two texts one behind the other.
LEMMA JoinIs ==
  ASSUME NEW a \in Text, NEW b \in Text
  PROVE  /\ a \o b \in Text /\ Len(a \o b) = Len(a) + Len(b)
         /\ \A i \in 1 .. Len(a) : (a \o b)[i] = a[i]
         /\ \A i \in 1 .. Len(b) : (a \o b)[Len(a) + i] = b[i]
         /\ \A i \in 1 .. Len(a) + Len(b) :
              i \in 1 .. Len(a) \/ \E j \in 1 .. Len(b) : i = Len(a) + j
         /\ Len(a) \in Nat /\ Len(b) \in Nat
  <1>1. Len(a) \in Nat /\ Len(b) \in Nat /\ a \in Seq(Glyphs) /\ b \in Seq(Glyphs)
    BY DEF Text
  <1>2. /\ a \o b \in Text /\ Len(a \o b) = Len(a) + Len(b)
        /\ \A i \in 1 .. Len(a) : (a \o b)[i] = a[i]
    BY <1>1 DEF Text
  <1>3. ASSUME NEW i \in 1 .. Len(b)
        PROVE  (a \o b)[Len(a) + i] = b[i]
    BY <1>1
  <1>4. ASSUME NEW i \in 1 .. Len(a) + Len(b), i \notin 1 .. Len(a)
        PROVE  \E j \in 1 .. Len(b) : i = Len(a) + j
    <2>1. i - Len(a) \in 1 .. Len(b) /\ i = Len(a) + (i - Len(a))
      BY <1>1, <1>4
    <2> QED
      BY <2>1
  <1> QED
    BY <1>1, <1>2, <1>3, <1>4

LEMMA JoinRange ==
  ASSUME NEW a \in Text, NEW b \in Text
  PROVE  \A x : x \in Range(a \o b) <=> x \in Range(a) \/ x \in Range(b)
  <1> DEFINE c == a \o b
  <1>1. /\ c \in Text /\ Len(c) = Len(a) + Len(b) /\ Len(a) \in Nat /\ Len(b) \in Nat
        /\ \A i \in 1 .. Len(a) : c[i] = a[i]
        /\ \A i \in 1 .. Len(b) : c[Len(a) + i] = b[i]
        /\ \A i \in 1 .. Len(a) + Len(b) :
              i \in 1 .. Len(a) \/ \E j \in 1 .. Len(b) : i = Len(a) + j
    BY JoinIs
  <1> HIDE DEF c
  <1>2. SUFFICES ASSUME NEW x
                 PROVE  (\E i \in 1 .. Len(c) : c[i] = x)
                        <=> (\E i \in 1 .. Len(a) : a[i] = x) \/ (\E i \in 1 .. Len(b) : b[i] = x)
    <2>1. /\ \A x : x \in Range(a) <=> \E i \in 1 .. Len(a) : a[i] = x
          /\ \A x : x \in Range(b) <=> \E i \in 1 .. Len(b) : b[i] = x
          /\ \A x : x \in Range(c) <=> \E i \in 1 .. Len(c) : c[i] = x
      BY <1>1, RangeIs
    <2> QED
      BY <2>1 DEF c
  <1>3. ASSUME NEW i \in 1 .. Len(c), c[i] = x
        PROVE  (\E j \in 1 .. Len(a) : a[j] = x) \/ (\E j \in 1 .. Len(b) : b[j] = x)
    <2>1. CASE i \in 1 .. Len(a)
      BY <1>1, <1>3, <2>1
    <2>2. ASSUME NEW j \in 1 .. Len(b), i = Len(a) + j
          PROVE  b[j] = x
      BY <1>1, <1>3, <2>2
    <2> QED
      BY <1>1, <1>3, <2>1, <2>2
  <1>4. ASSUME NEW i \in 1 .. Len(a), a[i] = x
        PROVE  \E j \in 1 .. Len(c) : c[j] = x
    BY <1>1, <1>4
  <1>5. ASSUME NEW i \in 1 .. Len(b), b[i] = x
        PROVE  \E j \in 1 .. Len(c) : c[j] = x
    <2>1. c[Len(a) + i] = x /\ Len(a) + i \in 1 .. Len(c)
      BY <1>1, <1>5
    <2> QED
      BY <2>1
  <1> QED
    BY <1>3, <1>4, <1>5

\* Notes stay on lines of their own where a line ends at the seam.
LEMMA JoinLined ==
  ASSUME NEW a \in Text, NEW b \in Text, Lined(a), Lined(b),
         Len(a) = 0 \/ Len(b) = 0 \/ a[Len(a)] = EOL \/ b[1] = EOL
  PROVE  Lined(a \o b)
  <1> DEFINE c == a \o b
  <1>1. /\ Len(a) \in Nat /\ Len(b) \in Nat /\ Len(c) = Len(a) + Len(b)
        /\ \A i \in 1 .. Len(a) : c[i] = a[i]
        /\ \A i \in 1 .. Len(b) : c[Len(a) + i] = b[i]
    BY JoinIs
  <1> HIDE DEF c
  <1> SUFFICES ASSUME NEW i \in 1 .. Len(c) - 1 PROVE c[i] = EOL \/ c[i + 1] = EOL
    BY DEF Lined, c
  <1>2. CASE i < Len(a)
    BY <1>1, <1>2 DEF Lined
  <1>3. CASE i = Len(a)
    <2>1. c[i] = a[Len(a)] /\ c[i + 1] = b[1] /\ Len(a) # 0 /\ Len(b) # 0
      BY <1>1, <1>3
    <2> QED
      BY <2>1
  <1>4. CASE i > Len(a)
    <2> DEFINE j == i - Len(a)
    <2>1. /\ j \in 1 .. Len(b) - 1 /\ i = Len(a) + j
          /\ i + 1 = Len(a) + (j + 1) /\ j + 1 \in 1 .. Len(b)
      <3>1. Len(c) = Len(a) + Len(b) /\ Len(a) \in Nat /\ Len(b) \in Nat
        BY <1>1
      <3> QED
        BY <1>4, <3>1
    <2>2. c[i] = b[j] /\ c[i + 1] = b[j + 1]
      BY <1>1, <2>1
    <2> QED
      BY <2>1, <2>2 DEF Lined
  <1> QED
    BY <1>1, <1>2, <1>3, <1>4

LEMMA JoinPlain ==
  ASSUME NEW a \in Text, NEW b \in Text, Plain(a), Plain(b)
  PROVE  Plain(a \o b)
  <1> DEFINE c == a \o b
  <1>1. /\ Len(c) = Len(a) + Len(b)
        /\ \A i \in 1 .. Len(a) : c[i] = a[i]
        /\ \A i \in 1 .. Len(b) : c[Len(a) + i] = b[i]
        /\ \A i \in 1 .. Len(a) + Len(b) :
              i \in 1 .. Len(a) \/ \E j \in 1 .. Len(b) : i = Len(a) + j
    BY JoinIs
  <1> HIDE DEF c
  <1> SUFFICES ASSUME NEW i \in 1 .. Len(c) PROVE c[i] # Begin /\ c[i] # End
    BY DEF Plain, c
  <1>2. CASE i \in 1 .. Len(a)
    BY <1>1, <1>2 DEF Plain
  <1>3. ASSUME NEW j \in 1 .. Len(b), i = Len(a) + j PROVE c[i] # Begin /\ c[i] # End
    BY <1>1, <1>3 DEF Plain
  <1> QED
    BY <1>1, <1>2, <1>3

\* A section stays one, with plain text behind it or before it.
LEMMA JoinShows ==
  ASSUME NEW a \in Text, NEW b \in Text, NEW x \in Profiles,
         (Shows(a, x) /\ Plain(b)) \/ (Plain(a) /\ Shows(b, x))
  PROVE  Shows(a \o b, x)
  <1> DEFINE c == a \o b
  <1>1. /\ Len(c) = Len(a) + Len(b) /\ Len(a) \in Nat /\ Len(b) \in Nat
        /\ \A i \in 1 .. Len(a) : c[i] = a[i]
        /\ \A i \in 1 .. Len(b) : c[Len(a) + i] = b[i]
        /\ \A i \in 1 .. Len(a) + Len(b) :
              i \in 1 .. Len(a) \/ \E j \in 1 .. Len(b) : i = Len(a) + j
    BY JoinIs
  <1>2. CASE x = NoProfile
    BY <1>2, JoinPlain DEF Shows
  <1>3. CASE x # NoProfile /\ Shows(a, x) /\ Plain(b)
    <2>1. PICK k \in 1 .. Len(a) - 4 : SectionAt(a, k, x)
      BY <1>3 DEF Shows
    <2> HIDE DEF c
    <2>2. k \in 1 .. Len(c) - 4
      BY <1>1
    <2>3. c[k + 1] = a[k + 1] /\ c[k + 2] = a[k + 2] /\ c[k + 3] = a[k + 3]
      <3>1. k + 1 \in 1 .. Len(a) /\ k + 2 \in 1 .. Len(a) /\ k + 3 \in 1 .. Len(a)
        BY <1>1
      <3> QED
        BY <1>1, <3>1
    <2>4. ASSUME NEW i \in 1 .. Len(c)
          PROVE  (c[i] = Begin <=> i = k) /\ (c[i] = End <=> i = k + 4)
      <3>1. CASE i \in 1 .. Len(a)
        BY <1>1, <2>1, <3>1 DEF SectionAt
      <3>2. ASSUME NEW j \in 1 .. Len(b), i = Len(a) + j
            PROVE  (c[i] = Begin <=> i = k) /\ (c[i] = End <=> i = k + 4)
        BY <1>1, <1>3, <3>2 DEF Plain
      <3> QED
        BY <1>1, <3>1, <3>2
    <2>5. SectionAt(c, k, x)
      BY <2>1, <2>3, <2>4 DEF SectionAt
    <2> QED
      BY <1>3, <2>2, <2>5 DEF Shows, c
  <1>4. CASE x # NoProfile /\ Plain(a) /\ Shows(b, x)
    <2>1. PICK k \in 1 .. Len(b) - 4 : SectionAt(b, k, x)
      BY <1>4 DEF Shows
    <2> HIDE DEF c
    <2>2. Len(a) + k \in 1 .. Len(c) - 4
      BY <1>1
    <2>3. /\ c[(Len(a) + k) + 1] = b[k + 1] /\ c[(Len(a) + k) + 2] = b[k + 2]
          /\ c[(Len(a) + k) + 3] = b[k + 3]
      <3>1. /\ k + 1 \in 1 .. Len(b) /\ k + 2 \in 1 .. Len(b) /\ k + 3 \in 1 .. Len(b)
            /\ (Len(a) + k) + 1 = Len(a) + (k + 1) /\ (Len(a) + k) + 2 = Len(a) + (k + 2)
            /\ (Len(a) + k) + 3 = Len(a) + (k + 3)
        BY <1>1
      <3> QED
        BY <1>1, <3>1
    <2>4. ASSUME NEW i \in 1 .. Len(c)
          PROVE  (c[i] = Begin <=> i = Len(a) + k) /\ (c[i] = End <=> i = (Len(a) + k) + 4)
      <3>1. CASE i \in 1 .. Len(a)
        BY <1>1, <1>4, <3>1 DEF Plain
      <3>2. ASSUME NEW j \in 1 .. Len(b), i = Len(a) + j
            PROVE  (c[i] = Begin <=> i = Len(a) + k) /\ (c[i] = End <=> i = (Len(a) + k) + 4)
        <4>1. c[i] = b[j] /\ (b[j] = Begin <=> j = k) /\ (b[j] = End <=> j = k + 4)
          BY <1>1, <2>1, <3>2 DEF SectionAt
        <4>2. (i = Len(a) + k <=> j = k) /\ (i = (Len(a) + k) + 4 <=> j = k + 4)
          BY <1>1, <3>2
        <4> QED
          BY <4>1, <4>2
      <3> QED
        BY <1>1, <3>1, <3>2
    <2>5. SectionAt(c, Len(a) + k, x)
      BY <2>1, <2>3, <2>4 DEF SectionAt
    <2> QED
      BY <1>4, <2>2, <2>5 DEF Shows, c
  <1> QED
    BY <1>2, <1>3, <1>4 DEF Shows

LEMMA PartIs ==
  ASSUME NEW t \in Text, NEW m \in Nat \ {0}, NEW n \in 0 .. Len(t), m <= n + 1
  PROVE  /\ SubSeq(t, m, n) \in Text /\ Len(SubSeq(t, m, n)) = n + 1 - m
         /\ \A i \in 1 .. n + 1 - m : SubSeq(t, m, n)[i] = t[m + i - 1]
         /\ \A x : x \in Range(SubSeq(t, m, n)) => x \in Range(t)
         /\ Lined(t) => Lined(SubSeq(t, m, n))
         /\ (\A i \in m .. n : t[i] # Begin /\ t[i] # End) => Plain(SubSeq(t, m, n))
  <1> DEFINE s == SubSeq(t, m, n)
  <1>1. t \in Seq(Glyphs) /\ Len(t) \in Nat /\ n \in Nat
    BY DEF Text
  <1>2. /\ s \in Seq(Glyphs) /\ Len(s) = n + 1 - m
        /\ \A i \in 1 .. n + 1 - m : s[i] = t[m + i - 1]
    BY <1>1, SMTT(60)
  <1>3. \A i \in 1 .. Len(s) : m + i - 1 \in 1 .. Len(t) /\ m + i - 1 \in m .. n
    <2> HIDE DEF s
    <2> QED
      BY <1>1, <1>2
  <1>4. s \in Text
    BY <1>2 DEF Text
  <1>5. ASSUME NEW x, x \in Range(s)
        PROVE  x \in Range(t)
    <2>1. PICK i \in 1 .. Len(s) : s[i] = x
      BY <1>4, <1>5, RangeIs
    <2>2. t[m + i - 1] = x /\ m + i - 1 \in 1 .. Len(t)
      BY <1>2, <1>3, <2>1
    <2> QED
      BY <2>2, RangeIs
  <1>6. ASSUME Lined(t)
        PROVE  Lined(s)
    <2> SUFFICES ASSUME NEW i \in 1 .. Len(s) - 1 PROVE s[i] = EOL \/ s[i + 1] = EOL
      BY DEF Lined
    <2> HIDE DEF s
    <2> DEFINE k == m + i - 1
    <2>1. i \in 1 .. n + 1 - m /\ i + 1 \in 1 .. n + 1 - m /\ k \in 1 .. Len(t) - 1
          /\ m + (i + 1) - 1 = k + 1
      BY <1>1, <1>2
    <2>2. s[i] = t[k] /\ s[i + 1] = t[k + 1]
      BY <1>2, <2>1
    <2> QED
      BY <1>6, <2>1, <2>2 DEF Lined
  <1>7. ASSUME \A i \in m .. n : t[i] # Begin /\ t[i] # End
        PROVE  Plain(s)
    <2> SUFFICES ASSUME NEW i \in 1 .. Len(s) PROVE s[i] # Begin /\ s[i] # End
      BY DEF Plain
    <2>1. s[i] = t[m + i - 1] /\ m + i - 1 \in m .. n
      BY <1>2, <1>3
    <2> QED
      BY <1>7, <2>1
  <1> QED
    BY <1>2, <1>4, <1>5, <1>6, <1>7

LEMMA SectionIs ==
  ASSUME NEW s \in Rememberers
  PROVE  /\ Section(s) \in Text /\ Len(Section(s)) = 5 /\ Lined(Section(s))
         /\ Section(s)[1] = Begin /\ Section(s)[5] = End
         /\ Shows(Section(s), s)
         /\ \A x : x \in Range(Section(s)) <=> x \in {Begin, EOL, s, End}
  <1> DEFINE t == Section(s)
  <1>1. /\ t \in Text /\ Len(t) = 5 /\ t[1] = Begin /\ t[2] = EOL /\ t[3] = s /\ t[4] = EOL
        /\ t[5] = End
    <2>1. s \in Glyphs /\ EOL \in Glyphs /\ Begin \in Glyphs /\ End \in Glyphs
      BY GlyphsDiffer DEF Glyphs
    <2> QED
      BY <2>1 DEF Section, Text
  <1>2. \A i \in 1 .. Len(t) : i \in {1, 2, 3, 4, 5}
    BY <1>1
  <1>3. Lined(t)
    BY <1>1 DEF Lined
  <1>4. SectionAt(t, 1, s)
    <2>1. s # Begin /\ s # End /\ EOL # Begin /\ EOL # End /\ Begin # End
      BY GlyphsDiffer
    <2>2. \A i \in 1 .. Len(t) : (t[i] = Begin <=> i = 1) /\ (t[i] = End <=> i = 1 + 4)
      BY <1>1, <1>2, <2>1
    <2>3. t[1 + 1] = EOL /\ t[1 + 2] = s /\ t[1 + 3] = EOL
      BY <1>1
    <2> QED
      BY <2>2, <2>3 DEF SectionAt
  <1>5. Shows(t, s)
    <2>1. s # NoProfile
      BY GlyphsDiffer
    <2>2. 1 \in 1 .. Len(t) - 4
      BY <1>1
    <2> QED
      BY <1>4, <2>1, <2>2 DEF Shows
  <1>6. \A x : x \in Range(t) <=> x \in {Begin, EOL, s, End}
    <2>1. \A x : x \in Range(t) <=> \E i \in 1 .. Len(t) : t[i] = x
      BY <1>1, RangeIs
    <2> QED
      BY <1>1, <1>2, <2>1
  <1> QED
    BY <1>1, <1>3, <1>5, <1>6 DEF t

\* The pieces that are put behind a text.
LEMMA ShortIs ==
  ASSUME NEW t \in Text, NEW s \in Rememberers, Len(t) \in 1 .. 3,
         t[1] \in {s, EOL}, Len(t) > 1 => t[2] = EOL \/ (t[1] = EOL /\ t[2] = s),
         Len(t) > 2 => t[2] = s /\ t[3] = EOL
  PROVE  /\ Lined(t) /\ Plain(t) /\ \A x \in Range(t) : x \in {s, EOL}
         /\ (\E i \in 1 .. Len(t) : t[i] = s) => s \in Range(t)
  <1>1. s # Begin /\ s # End /\ EOL # Begin /\ EOL # End
    BY GlyphsDiffer
  <1>2. \A i \in 1 .. Len(t) : i \in {1, 2, 3} /\ t[i] \in {s, EOL}
    OBVIOUS
  <1>3. Lined(t)
    BY DEF Lined
  <1>4. Plain(t)
    BY <1>1, <1>2 DEF Plain
  <1>5. \A x : x \in Range(t) <=> \E i \in 1 .. Len(t) : t[i] = x
    BY RangeIs
  <1> QED
    BY <1>2, <1>3, <1>4, <1>5

LEMMA PiecesAre ==
  ASSUME NEW s \in Rememberers
  PROVE  /\ <<>> \in Text /\ Lined(<<>>) /\ Plain(<<>>) /\ \A x : x \notin Range(<<>>)
         /\ <<s>> \in Text /\ Lined(<<s>>) /\ Plain(<<s>>)
         /\ \A x : x \in Range(<<s>>) <=> x = s
         /\ <<s, EOL>> \in Text /\ Lined(<<s, EOL>>) /\ Plain(<<s, EOL>>)
         /\ s \in Range(<<s, EOL>>) /\ \A x \in Range(<<s, EOL>>) : x \in {s, EOL}
         /\ <<EOL, s, EOL>> \in Text /\ Lined(<<EOL, s, EOL>>) /\ Plain(<<EOL, s, EOL>>)
         /\ s \in Range(<<EOL, s, EOL>>) /\ \A x \in Range(<<EOL, s, EOL>>) : x \in {s, EOL}
  <1>1. s \in Glyphs /\ EOL \in Glyphs
    BY GlyphsDiffer DEF Glyphs
  <1>2. <<>> \in Text /\ Lined(<<>>) /\ Plain(<<>>) /\ \A x : x \notin Range(<<>>)
    BY DEF Text, Lined, Plain, Range
  <1>3. <<s>> \in Text /\ Lined(<<s>>) /\ Plain(<<s>>) /\ \A x : x \in Range(<<s>>) <=> x = s
    <2> DEFINE t == <<s>>
    <2>1. t \in Text /\ Len(t) = 1 /\ t[1] = s
      BY <1>1 DEF Text
    <2> HIDE DEF t
    <2>2. Lined(t) /\ Plain(t)
      BY <2>1, ShortIs
    <2>3. \A x : x \in Range(t) <=> \E i \in 1 .. Len(t) : t[i] = x
      BY <2>1, RangeIs
    <2> QED
      BY <2>1, <2>2, <2>3 DEF t
  <1>4. /\ <<s, EOL>> \in Text /\ Lined(<<s, EOL>>) /\ Plain(<<s, EOL>>)
        /\ s \in Range(<<s, EOL>>) /\ \A x \in Range(<<s, EOL>>) : x \in {s, EOL}
    <2> DEFINE t == <<s, EOL>>
    <2>1. t \in Text /\ Len(t) = 2 /\ t[1] = s /\ t[2] = EOL
      BY <1>1 DEF Text
    <2> HIDE DEF t
    <2>2. Lined(t) /\ Plain(t) /\ s \in Range(t) /\ \A x \in Range(t) : x \in {s, EOL}
      BY <2>1, ShortIs
    <2> QED
      BY <2>1, <2>2 DEF t
  <1>5. /\ <<EOL, s, EOL>> \in Text /\ Lined(<<EOL, s, EOL>>) /\ Plain(<<EOL, s, EOL>>)
        /\ s \in Range(<<EOL, s, EOL>>) /\ \A x \in Range(<<EOL, s, EOL>>) : x \in {s, EOL}
    <2> DEFINE t == <<EOL, s, EOL>>
    <2>1. t \in Text /\ Len(t) = 3 /\ t[1] = EOL /\ t[2] = s /\ t[3] = EOL
      BY <1>1 DEF Text
    <2> HIDE DEF t
    <2>2. Lined(t) /\ Plain(t) /\ s \in Range(t) /\ \A x \in Range(t) : x \in {s, EOL}
      BY <2>1, ShortIs
    <2> QED
      BY <2>1, <2>2 DEF t
  <1> QED
    BY <1>2, <1>3, <1>4, <1>5

LEMMA EndsOfLine ==
  /\ <<EOL>> \in Text /\ Lined(<<EOL>>) /\ Plain(<<EOL>>) /\ \A x \in Range(<<EOL>>) : x = EOL
  /\ <<EOL, EOL>> \in Text /\ Lined(<<EOL, EOL>>) /\ Plain(<<EOL, EOL>>)
  /\ \A x \in Range(<<EOL, EOL>>) : x = EOL
  <1>1. EOL \in Glyphs /\ EOL # Begin /\ EOL # End
    BY GlyphsDiffer
  <1>2. /\ <<EOL>> \in Text /\ Lined(<<EOL>>) /\ Plain(<<EOL>>)
        /\ \A x \in Range(<<EOL>>) : x = EOL
    <2> DEFINE t == <<EOL>>
    <2>1. t \in Text /\ Len(t) = 1 /\ t[1] = EOL
      BY <1>1 DEF Text
    <2> HIDE DEF t
    <2>2. \A x : x \in Range(t) <=> \E i \in 1 .. Len(t) : t[i] = x
      BY <2>1, RangeIs
    <2>3. Lined(t) /\ Plain(t)
      BY <1>1, <2>1 DEF Lined, Plain
    <2> QED
      BY <2>1, <2>2, <2>3 DEF t
  <1>3. /\ <<EOL, EOL>> \in Text /\ Lined(<<EOL, EOL>>) /\ Plain(<<EOL, EOL>>)
        /\ \A x \in Range(<<EOL, EOL>>) : x = EOL
    <2> DEFINE t == <<EOL, EOL>>
    <2>1. t \in Text /\ Len(t) = 2 /\ t[1] = EOL /\ t[2] = EOL
      BY <1>1 DEF Text
    <2> HIDE DEF t
    <2>2. \A x : x \in Range(t) <=> \E i \in 1 .. Len(t) : t[i] = x
      BY <2>1, RangeIs
    <2>3. Lined(t) /\ Plain(t)
      BY <1>1, <2>1 DEF Lined, Plain
    <2> QED
      BY <2>1, <2>2, <2>3 DEF t
  <1> QED
    BY <1>2, <1>3

\* Without its last line ends a text has all that was in it.
LEMMA TrimKeeps ==
  ASSUME NEW t \in Text
  PROVE  /\ TrimEnd(t) \in Text
         /\ Lined(t) => Lined(TrimEnd(t))
         /\ \A x \in Profiles : Shows(t, x) => Shows(TrimEnd(t), x)
         /\ \A x : x \in Range(TrimEnd(t)) => x \in Range(t)
         /\ \A x : x \in Range(t) /\ x # EOL => x \in Range(TrimEnd(t))
  <1>1. PICK n \in 0 .. Len(t) : /\ TrimEnd(t) = SubSeq(t, 1, n)
                                /\ \A i \in n + 1 .. Len(t) : t[i] = EOL
    BY TrimIs
  <1> DEFINE s == TrimEnd(t)
  <1>2. Len(t) \in Nat /\ n \in Nat
    BY DEF Text
  <1>3. /\ s \in Text /\ Len(s) = n /\ \A i \in 1 .. n : s[i] = t[i]
        /\ \A x : x \in Range(s) => x \in Range(t)
        /\ Lined(t) => Lined(s)
        /\ (\A i \in 1 .. n : t[i] # Begin /\ t[i] # End) => Plain(s)
    <2>1. 1 \in Nat \ {0} /\ 1 <= n + 1 /\ n + 1 - 1 = n /\ \A i \in 1 .. n : 1 + i - 1 = i
      BY <1>2
    <2> QED
      BY <1>1, <2>1, PartIs
  <1> HIDE DEF s
  <1>4. ASSUME NEW x, x \in Range(t), x # EOL
        PROVE  x \in Range(s)
    <2>1. PICK i \in 1 .. Len(t) : t[i] = x
      BY <1>4, RangeIs
    <2>2. i \in 1 .. Len(s) /\ s[i] = x
      BY <1>1, <1>2, <1>3, <1>4, <2>1
    <2> QED
      BY <1>3, <2>2, RangeIs
  <1>5. ASSUME NEW x \in Profiles, Shows(t, x)
        PROVE  Shows(s, x)
    <2>1. CASE x = NoProfile
      <3>1. \A i \in 1 .. n : t[i] # Begin /\ t[i] # End
        BY <1>2, <1>5, <2>1 DEF Shows, Plain
      <3> QED
        BY <1>3, <2>1, <3>1 DEF Shows
    <2>2. CASE x # NoProfile
      <3>1. PICK b \in 1 .. Len(t) - 4 : SectionAt(t, b, x)
        BY <1>5, <2>2 DEF Shows
      <3>2. b + 4 \in 1 .. Len(t) /\ t[b + 4] = End
        BY <1>2, <3>1 DEF SectionAt
      <3>3. b + 4 <= n
        <4>1. EOL # End
          BY GlyphsDiffer
        <4>2. b + 4 \notin n + 1 .. Len(t)
          BY <1>1, <3>2, <4>1
        <4> QED
          BY <1>2, <3>2, <4>2
      <3>4. b \in 1 .. Len(s) - 4 /\ \A i \in 1 .. 4 : b + i \in 1 .. n
        BY <1>2, <1>3, <3>3
      <3>5. s[b + 1] = t[b + 1] /\ s[b + 2] = t[b + 2] /\ s[b + 3] = t[b + 3]
        BY <1>3, <3>4
      <3>6. \A i \in 1 .. Len(s) : s[i] = t[i] /\ i \in 1 .. Len(t)
        BY <1>2, <1>3
      <3>7. SectionAt(s, b, x)
        BY <3>1, <3>5, <3>6 DEF SectionAt
      <3> QED
        BY <2>2, <3>4, <3>7 DEF Shows
    <2> QED
      BY <2>1, <2>2
  <1> QED
    BY <1>3, <1>4, <1>5 DEF s

LEMMA AppendIs ==
  ASSUME NEW t \in Text
  PROVE  Append(t, EOL) = t \o <<EOL>>
  <1>1. t \in Seq(Glyphs) /\ EOL \in Glyphs
    BY GlyphsDiffer DEF Text
  <1> QED
    BY <1>1

\* A text b put behind a text a that ends a line or is empty, or that ends one itself.
LEMMA JoinKeeps ==
  ASSUME NEW a \in Text, NEW b \in Text, Plain(b)
  PROVE  /\ a \o b \in Text
         /\ \A x \in Profiles : Shows(a, x) => Shows(a \o b, x)
         /\ \A x : x \in Range(a \o b) <=> x \in Range(a) \/ x \in Range(b)
         /\ Lined(a) /\ Lined(b) /\ (a = <<>> \/ a[Len(a)] = EOL \/ b[1] = EOL) => Lined(a \o b)
  <1>1. a = <<>> => Len(a) = 0
    OBVIOUS
  <1> QED
    BY <1>1, JoinIs, JoinShows, JoinRange, JoinLined

LEMMA TailKeeps ==
  ASSUME NEW t \in Text
  PROVE  /\ NormalizeTail(t) \in Text
         /\ Lined(t) => Lined(NormalizeTail(t))
         /\ \A x \in Profiles : Shows(t, x) => Shows(NormalizeTail(t), x)
         /\ \A x \in Rememberers : x \in Range(t) <=> x \in Range(NormalizeTail(t))
  <1> DEFINE s == TrimEnd(t)
  <1>1. s \in Text /\ NormalizeTail(t) = s \o <<EOL>>
    <2>1. s \in Text /\ NormalizeTail(t) = Append(s, EOL)
      BY TrimKeeps DEF NormalizeTail
    <2> HIDE DEF s
    <2> QED
      BY <2>1, AppendIs
  <1>2. /\ <<EOL>> \in Text /\ Lined(<<EOL>>) /\ Plain(<<EOL>>) /\ \A x \in Range(<<EOL>>) : x = EOL
        /\ <<EOL>>[1] = EOL
    BY EndsOfLine
  <1>3. /\ s \o <<EOL>> \in Text
        /\ \A x \in Profiles : Shows(s, x) => Shows(s \o <<EOL>>, x)
        /\ \A x : x \in Range(s \o <<EOL>>) <=> x \in Range(s) \/ x \in Range(<<EOL>>)
        /\ Lined(s) => Lined(s \o <<EOL>>)
    BY <1>1, <1>2, JoinKeeps
  <1>4. /\ Lined(t) => Lined(s)
        /\ \A x \in Profiles : Shows(t, x) => Shows(s, x)
        /\ \A x : x \in Range(s) => x \in Range(t)
        /\ \A x : x \in Range(t) /\ x # EOL => x \in Range(s)
    BY TrimKeeps
  <1>5. EOL \notin Rememberers
    BY GlyphsDiffer
  <1> HIDE DEF s
  <1> QED
    BY <1>1, <1>2, <1>3, <1>4, <1>5

\* Where the section is found, and what is before it and behind it.
LEMMA FindsSection ==
  ASSUME NEW t \in Text, NEW x \in Profiles, Shows(t, x)
  PROVE  /\ Marked(t) <=> x # NoProfile
         /\ x = NoProfile => Find(t, Begin) = 0 /\ Find(t, End) = 0
         /\ x # NoProfile => /\ Find(t, Begin) \in 1 .. Len(t) - 4
                            /\ Find(t, End) = Find(t, Begin) + 4
                            /\ SectionAt(t, Find(t, Begin), x)
  <1>1. Len(t) \in Nat
    BY DEF Text
  <1>2. \A y : y \in Range(t) <=> \E i \in 1 .. Len(t) : t[i] = y
    BY RangeIs
  <1>3. CASE x = NoProfile
    <2>1. Begin \notin Range(t) /\ End \notin Range(t)
      BY <1>2, <1>3 DEF Shows, Plain
    <2>2. Find(t, Begin) = 0 /\ Find(t, End) = 0
      BY <2>1, FindIs
    <2> QED
      BY <1>3, <2>2 DEF Marked
  <1>4. CASE x # NoProfile
    <2>1. PICK b \in 1 .. Len(t) - 4 : SectionAt(t, b, x)
      BY <1>4 DEF Shows
    <2>2. b \in 1 .. Len(t) /\ b + 4 \in 1 .. Len(t) /\ b \in Nat
      BY <1>1
    <2>3. t[b] = Begin /\ t[b + 4] = End
      BY <2>1, <2>2 DEF SectionAt
    <2>4. Begin \in Range(t) /\ End \in Range(t)
      BY <1>2, <2>2, <2>3
    <2>5. /\ Find(t, Begin) \in 1 .. Len(t) /\ t[Find(t, Begin)] = Begin
          /\ Find(t, End) \in 1 .. Len(t) /\ t[Find(t, End)] = End
      <3>1. /\ Find(t, Begin) \in 0 .. Len(t) /\ Find(t, Begin) > 0 /\ t[Find(t, Begin)] = Begin
        BY <2>4, FindIs
      <3>2. /\ Find(t, End) \in 0 .. Len(t) /\ Find(t, End) > 0 /\ t[Find(t, End)] = End
        BY <2>4, FindIs
      <3> QED
        BY <1>1, <3>1, <3>2
    <2>6. Find(t, Begin) = b /\ Find(t, End) = b + 4
      BY <2>1, <2>5 DEF SectionAt
    <2>7. Find(t, Begin) > 0 /\ Find(t, End) > Find(t, Begin)
      BY <2>2, <2>6
    <2> QED
      BY <1>4, <2>1, <2>6, <2>7 DEF Marked
  <1> QED
    BY <1>3, <1>4

LEMMA AroundSection ==
  ASSUME NEW t \in Text, NEW x \in Rememberers, NEW b \in 1 .. Len(t) - 4, SectionAt(t, b, x),
         Lined(t)
  PROVE  LET head == SubSeq(t, 1, b - 1)
             tail == SubSeq(t, b + 4 + 1, Len(t))
         IN  /\ head \in Text /\ Lined(head) /\ Plain(head)
             /\ head = <<>> \/ head[Len(head)] = EOL
             /\ tail \in Text /\ Lined(tail) /\ Plain(tail)
             /\ Len(tail) = 0 \/ tail[1] = EOL
             /\ \A y \in Rememberers :
                  /\ y \in Range(t) => y \in Range(head) \cup Range(tail) \cup {x}
                  /\ y \in Range(head) \cup Range(tail) => y \in Range(t)
  <1> DEFINE head == SubSeq(t, 1, b - 1)
             tail == SubSeq(t, b + 4 + 1, Len(t))
             k == Len(t) - (b + 4)
  <1>1. Len(t) \in Nat /\ b \in Nat \ {0} /\ b <= Len(t) - 4
    BY DEF Text
  <1>2. \A i \in 1 .. Len(t) : (t[i] = Begin <=> i = b) /\ (t[i] = End <=> i = b + 4)
    BY DEF SectionAt
  <1>3. /\ head \in Text /\ Len(head) = b - 1 /\ \A i \in 1 .. b - 1 : head[i] = t[i]
        /\ Lined(head) /\ Plain(head) /\ \A y : y \in Range(head) => y \in Range(t)
    <2>1. /\ 1 \in Nat \ {0} /\ b - 1 \in 0 .. Len(t) /\ 1 <= (b - 1) + 1 /\ (b - 1) + 1 - 1 = b - 1
          /\ \A i \in 1 .. b - 1 : 1 + i - 1 = i
      BY <1>1
    <2>2. \A i \in 1 .. b - 1 : t[i] # Begin /\ t[i] # End
      BY <1>1, <1>2
    <2> QED
      BY <2>1, <2>2, PartIs
  <1>4. /\ tail \in Text /\ Len(tail) = k /\ \A i \in 1 .. k : tail[i] = t[(b + 4) + i]
        /\ Lined(tail) /\ Plain(tail) /\ \A y : y \in Range(tail) => y \in Range(t)
    <2>1. /\ b + 4 + 1 \in Nat \ {0} /\ Len(t) \in 0 .. Len(t) /\ b + 4 + 1 <= Len(t) + 1
          /\ Len(t) + 1 - (b + 4 + 1) = k /\ \A i \in 1 .. k : (b + 4 + 1) + i - 1 = (b + 4) + i
      BY <1>1
    <2>2. \A i \in b + 4 + 1 .. Len(t) : t[i] # Begin /\ t[i] # End
      BY <1>1, <1>2
    <2>3. /\ tail \in Text /\ Len(tail) = Len(t) + 1 - (b + 4 + 1)
          /\ \A i \in 1 .. Len(t) + 1 - (b + 4 + 1) : tail[i] = t[(b + 4 + 1) + i - 1]
          /\ Lined(tail) /\ Plain(tail) /\ \A y : y \in Range(tail) => y \in Range(t)
      BY <2>1, <2>2, PartIs
    <2> HIDE DEF tail
    <2> QED
      BY <2>1, <2>3
  <1> HIDE DEF head, tail
  <1>5. EOL # Begin /\ EOL # End /\ EOL \notin Rememberers /\ Begin \notin Rememberers
        /\ End \notin Rememberers
    BY GlyphsDiffer
  <1>6. head = <<>> \/ head[Len(head)] = EOL
    <2>1. CASE b = 1
      <3>1. Len(head) = 0
        BY <1>3, <2>1
      <3> QED
        BY <1>3, <3>1 DEF Text
    <2>2. CASE b # 1
      <3>1. /\ b - 1 \in 1 .. Len(t) - 1 /\ (b - 1) + 1 = b
            /\ b \in 1 .. Len(t) /\ b - 1 \in 1 .. b - 1
        BY <1>1, <2>2
      <3>2. t[b - 1] = EOL \/ t[b] = EOL
        BY <3>1 DEF Lined
      <3> QED
        BY <1>2, <1>3, <1>5, <3>1, <3>2
    <2> QED
      BY <2>1, <2>2
  <1>7. Len(tail) = 0 \/ tail[1] = EOL
    <2> SUFFICES ASSUME Len(tail) # 0 PROVE tail[1] = EOL
      OBVIOUS
    <2>1. k \in Nat /\ k # 0
      BY <1>1, <1>4
    <2>2. b + 4 \in 1 .. Len(t) - 1 /\ b + 4 \in 1 .. Len(t) /\ 1 \in 1 .. k
      BY <1>1, <2>1
    <2>3. t[b + 4] = EOL \/ t[(b + 4) + 1] = EOL
      BY <2>2 DEF Lined
    <2> QED
      BY <1>2, <1>4, <1>5, <2>2, <2>3
  <1>8. ASSUME NEW y \in Rememberers, y \in Range(t)
        PROVE  y \in Range(head) \cup Range(tail) \cup {x}
    <2>1. PICK i \in 1 .. Len(t) : t[i] = y
      BY <1>8, RangeIs
    <2>2. CASE i < b
      <3>1. i \in 1 .. Len(head) /\ head[i] = y
        BY <1>1, <1>3, <2>1, <2>2
      <3> QED
        BY <1>3, <3>1, RangeIs
    <2>3. CASE i > b + 4
      <3>1. i - (b + 4) \in 1 .. Len(tail) /\ (b + 4) + (i - (b + 4)) = i
        BY <1>1, <1>4, <2>3
      <3>2. tail[i - (b + 4)] = y
        BY <1>4, <2>1, <3>1
      <3> QED
        BY <1>4, <3>1, <3>2, RangeIs
    <2>4. CASE i \in b .. b + 4
      <3>1. i \in {b, b + 1, b + 2, b + 3, b + 4}
        BY <1>1, <2>4
      <3>2. b \in 1 .. Len(t) /\ b + 4 \in 1 .. Len(t)
        BY <1>1
      <3>3. t[b] = Begin /\ t[b + 4] = End
        BY <1>2, <3>2
      <3>4. t[b + 1] = EOL /\ t[b + 2] = x /\ t[b + 3] = EOL
        BY DEF SectionAt
      <3> QED
        BY <1>5, <2>1, <3>1, <3>3, <3>4
    <2> QED
      BY <1>1, <2>2, <2>3, <2>4
  <1> QED
    BY <1>3, <1>4, <1>6, <1>7, <1>8 DEF head, tail

\* Saving a profile puts it into its section and takes nothing else away.
LEMMA UpsertKeeps ==
  ASSUME NEW t \in Text, Lined(t), NEW x \in Profiles, Shows(t, x), NEW s \in Profiles
  PROVE  /\ UpsertSection(t, s) \in Text /\ Lined(UpsertSection(t, s))
         /\ Shows(UpsertSection(t, s), s)
         /\ \A y \in Rememberers :
              /\ y \in Range(UpsertSection(t, s)) => y \in Range(t) \/ y = s
              /\ y \in Range(t) => y \in Range(UpsertSection(t, s)) \/ y = x
  <1> DEFINE u == UpsertSection(t, s)
             Fits(v) == /\ v \in Text /\ Lined(v) /\ Shows(v, s)
                        /\ \A y \in Rememberers : /\ y \in Range(v) => y \in Range(t) \/ y = s
                                                  /\ y \in Range(t) => y \in Range(v) \/ y = x
             b == Find(t, Begin)
             head == SubSeq(t, 1, Find(t, Begin) - 1)
             tail == SubSeq(t, Find(t, End) + 1, Len(t))
  <1>1. SUFFICES \E w : Fits(w) /\ u = NormalizeTail(w)
    <2>1. PICK w : Fits(w) /\ u = NormalizeTail(w)
      BY <1>1
    <2>2. /\ u \in Text /\ Lined(u) /\ Shows(u, s)
          /\ \A y \in Rememberers : y \in Range(w) <=> y \in Range(u)
      <3> HIDE DEF u
      <3> QED
        BY <2>1, TailKeeps
    <2> HIDE DEF u
    <2>3. \A y \in Rememberers : /\ y \in Range(u) => y \in Range(t) \/ y = s
                                 /\ y \in Range(t) => y \in Range(u) \/ y = x
      BY <2>1, <2>2
    <2> QED
      BY <2>2, <2>3 DEF u
  <1>2. /\ Marked(t) <=> x # NoProfile
        /\ x # NoProfile => b \in 1 .. Len(t) - 4 /\ Find(t, End) = b + 4 /\ SectionAt(t, b, x)
    BY FindsSection
  <1>3. /\ EOL # Begin /\ EOL # End /\ EOL \notin Rememberers /\ Begin \notin Rememberers
        /\ End \notin Rememberers /\ NoProfile \notin Rememberers
    BY GlyphsDiffer
  <1>4. ASSUME x # NoProfile
        PROVE  /\ head \in Text /\ Lined(head) /\ Plain(head)
               /\ head = <<>> \/ head[Len(head)] = EOL
               /\ tail \in Text /\ Lined(tail) /\ Plain(tail)
               /\ Len(tail) = 0 \/ tail[1] = EOL
               /\ \A y \in Rememberers :
                    /\ y \in Range(t) => y \in Range(head) \cup Range(tail) \cup {x}
                    /\ y \in Range(head) \cup Range(tail) => y \in Range(t)
    <2>1. x \in Rememberers /\ tail = SubSeq(t, b + 4 + 1, Len(t))
      BY <1>2, <1>4 DEF Profiles
    <2>2. /\ b \in 1 .. Len(t) - 4 /\ SectionAt(t, b, x) /\ head = SubSeq(t, 1, b - 1)
      BY <1>2, <1>4
    <2> HIDE DEF b, head, tail
    <2> QED
      BY <2>1, <2>2, AroundSection
  <1>5. CASE x # NoProfile /\ s = NoProfile
    <2> DEFINE front == TrimEnd(head)
               v == front \o tail
    <2>1. u = NormalizeTail(v)
      BY <1>2, <1>5 DEF UpsertSection
    <2> HIDE DEF head, tail, u
    <2>2. /\ front \in Text /\ Lined(front) /\ Shows(front, NoProfile)
          /\ \A y : y \in Range(front) => y \in Range(head)
          /\ \A y : y \in Range(head) /\ y # EOL => y \in Range(front)
      BY <1>4, <1>5, TrimKeeps DEF Shows, Profiles
    <2> HIDE DEF front
    <2>3. /\ v \in Text /\ Lined(v) /\ Shows(v, NoProfile)
          /\ \A y : y \in Range(v) <=> y \in Range(front) \/ y \in Range(tail)
      BY <1>4, <1>5, <2>2, JoinIs, JoinLined, JoinShows, JoinRange DEF Profiles
    <2> HIDE DEF v
    <2>4. \A y \in Rememberers : /\ y \in Range(v) => y \in Range(t)
                                 /\ y \in Range(t) => y \in Range(v) \/ y = x
      BY <1>3, <1>4, <1>5, <2>2, <2>3
    <2>5. Fits(v)
      BY <1>5, <2>3, <2>4
    <2> HIDE DEF Fits
    <2> QED
      BY <2>1, <2>5
  <1>6. CASE x # NoProfile /\ s # NoProfile
    <2> DEFINE front == head \o Section(s)
               v == front \o tail
    <2>1. u = NormalizeTail(v)
      BY <1>2, <1>6 DEF UpsertSection
    <2>2. /\ s \in Rememberers /\ Section(s) \in Text /\ Len(Section(s)) = 5 /\ Lined(Section(s))
          /\ Shows(Section(s), s)
          /\ \A y : y \in Range(Section(s)) <=> y \in {Begin, EOL, s, End}
      BY <1>6, SectionIs DEF Profiles
    <2> HIDE DEF head, tail, u
    <2>3. /\ front \in Text /\ Lined(front) /\ Shows(front, s)
          /\ \A y : y \in Range(front) <=> y \in Range(head) \/ y \in Range(Section(s))
      <3>1. head = <<>> => Len(head) = 0
        OBVIOUS
      <3> QED
        BY <1>4, <1>6, <2>2, <3>1, JoinIs, JoinLined, JoinShows, JoinRange
    <2> HIDE DEF front
    <2>4. /\ v \in Text /\ Lined(v) /\ Shows(v, s)
          /\ \A y : y \in Range(v) <=> y \in Range(front) \/ y \in Range(tail)
      BY <1>4, <1>6, <2>3, JoinIs, JoinLined, JoinShows, JoinRange
    <2> HIDE DEF v
    <2>5. \A y \in Rememberers : /\ y \in Range(v) => y \in Range(t) \/ y = s
                                 /\ y \in Range(t) => y \in Range(v) \/ y = x
      BY <1>3, <1>4, <1>6, <2>2, <2>3, <2>4
    <2>6. Fits(v)
      BY <2>4, <2>5
    <2> HIDE DEF Fits
    <2> QED
      BY <2>1, <2>6
  <1>7. CASE x = NoProfile /\ s = NoProfile
    <2>1. u = NormalizeTail(t)
      BY <1>2, <1>7 DEF UpsertSection
    <2> QED
      BY <1>7, <2>1
  <1>8. CASE x = NoProfile /\ s # NoProfile
    <2> DEFINE trimmed == TrimEnd(t)
               front == IF trimmed = <<>> THEN <<>> ELSE trimmed \o <<EOL, EOL>>
               v == front \o Section(s)
    <2>1. u = NormalizeTail(v)
      BY <1>2, <1>8 DEF UpsertSection
    <2>2. /\ s \in Rememberers /\ Section(s) \in Text /\ Len(Section(s)) = 5 /\ Lined(Section(s))
          /\ Shows(Section(s), s)
          /\ \A y : y \in Range(Section(s)) <=> y \in {Begin, EOL, s, End}
      BY <1>8, SectionIs DEF Profiles
    <2>3. /\ trimmed \in Text /\ Lined(trimmed) /\ Plain(trimmed)
          /\ \A y : y \in Range(trimmed) => y \in Range(t)
          /\ \A y : y \in Range(t) /\ y # EOL => y \in Range(trimmed)
      BY <1>8, TrimKeeps DEF Shows
    <2> HIDE DEF trimmed, u
    <2>4. /\ front \in Text /\ Lined(front) /\ Plain(front)
          /\ front = <<>> \/ front[Len(front)] = EOL
          /\ \A y \in Rememberers : y \in Range(front) <=> y \in Range(trimmed)
      <3>1. CASE trimmed = <<>>
        BY <2>3, <3>1
      <3>2. CASE trimmed # <<>>
        <4>1. front = trimmed \o <<EOL, EOL>>
          BY <3>2
        <4>2. /\ <<EOL, EOL>> \in Text /\ Lined(<<EOL, EOL>>) /\ Plain(<<EOL, EOL>>)
              /\ <<EOL, EOL>>[1] = EOL /\ Len(<<EOL, EOL>>) = 2 /\ <<EOL, EOL>>[2] = EOL
              /\ \A y \in Range(<<EOL, EOL>>) : y = EOL
          BY EndsOfLine
        <4> HIDE DEF front
        <4>3. /\ front \in Text /\ Lined(front) /\ Plain(front)
              /\ \A y : y \in Range(front) <=> y \in Range(trimmed) \/ y \in Range(<<EOL, EOL>>)
          BY <2>3, <4>1, <4>2, JoinKeeps, JoinPlain
        <4>4. front[Len(front)] = EOL
          BY <2>3, <4>1, <4>2, JoinIs
        <4> QED
          BY <1>3, <4>2, <4>3, <4>4
      <3> QED
        BY <3>1, <3>2
    <2> HIDE DEF front
    <2>5. /\ v \in Text /\ Lined(v) /\ Shows(v, s)
          /\ \A y : y \in Range(v) <=> y \in Range(front) \/ y \in Range(Section(s))
      <3>1. front = <<>> => Len(front) = 0
        OBVIOUS
      <3> QED
        BY <2>2, <2>4, <3>1, JoinIs, JoinLined, JoinShows, JoinRange
    <2> HIDE DEF v
    <2>6. \A y \in Rememberers : /\ y \in Range(v) => y \in Range(t) \/ y = s
                                 /\ y \in Range(t) => y \in Range(v) \/ y = x
      BY <1>3, <2>2, <2>3, <2>4, <2>5
    <2>7. Fits(v)
      BY <2>5, <2>6
    <2> HIDE DEF Fits
    <2> QED
      BY <2>1, <2>7
  <1> QED
    BY <1>5, <1>6, <1>7, <1>8

\* A note goes behind what is there, on a line of its own.
LEMMA AppendedKeeps ==
  ASSUME NEW t \in Text, Lined(t), NEW s \in Rememberers
  PROVE  /\ Appended(t, s) \in Text /\ Lined(Appended(t, s))
         /\ \A x \in Profiles : Shows(t, x) => Shows(Appended(t, s), x)
         /\ \A y \in Rememberers : y \in Range(Appended(t, s)) <=> y \in Range(t) \/ y = s
  <1> DEFINE front == IF Terminated(t) THEN t ELSE Append(t, EOL)
             u == front \o <<s, EOL>>
  <1>1. Appended(t, s) = u
    BY DEF Appended
  <1>2. EOL \notin Rememberers
    BY GlyphsDiffer
  <1>3. /\ <<EOL>> \in Text /\ Lined(<<EOL>>) /\ Plain(<<EOL>>) /\ \A x \in Range(<<EOL>>) : x = EOL
        /\ <<EOL>>[1] = EOL /\ Len(<<EOL>>) = 1
    BY EndsOfLine
  <1>4. /\ <<s, EOL>> \in Text /\ Lined(<<s, EOL>>) /\ Plain(<<s, EOL>>)
        /\ s \in Range(<<s, EOL>>) /\ \A x \in Range(<<s, EOL>>) : x \in {s, EOL}
    BY PiecesAre
  <1>5. /\ front \in Text /\ Lined(front) /\ (front = <<>> \/ front[Len(front)] = EOL)
        /\ \A x \in Profiles : Shows(t, x) => Shows(front, x)
        /\ \A y \in Rememberers : y \in Range(front) <=> y \in Range(t)
    <2>1. CASE Terminated(t)
      <3>1. t = <<>> \/ t[Len(t)] = EOL
        BY <2>1 DEF Terminated, Last
      <3> QED
        BY <2>1, <3>1
    <2>2. CASE ~ Terminated(t)
      <3>1. front = t \o <<EOL>>
        BY <2>2, AppendIs
      <3> HIDE DEF front
      <3>2. /\ front \in Text /\ Lined(front)
            /\ \A x \in Profiles : Shows(t, x) => Shows(front, x)
            /\ \A x : x \in Range(front) <=> x \in Range(t) \/ x \in Range(<<EOL>>)
        BY <1>3, <3>1, JoinKeeps
      <3>3. front[Len(front)] = EOL
        BY <1>3, <3>1, JoinIs
      <3> QED
        BY <1>2, <1>3, <3>2, <3>3
    <2> QED
      BY <2>1, <2>2
  <1> HIDE DEF front
  <1>6. /\ u \in Text /\ Lined(u)
        /\ \A x \in Profiles : Shows(front, x) => Shows(u, x)
        /\ \A x : x \in Range(u) <=> x \in Range(front) \/ x \in Range(<<s, EOL>>)
    BY <1>4, <1>5, JoinKeeps
  <1> HIDE DEF u
  <1>7. \A y \in Rememberers : y \in Range(u) <=> y \in Range(t) \/ y = s
    BY <1>2, <1>4, <1>5, <1>6
  <1> QED
    BY <1>1, <1>5, <1>6, <1>7

LEMMA DistilledKeeps ==
  ASSUME NEW t \in Text, Lined(t), NEW s \in Rememberers
  PROVE  /\ Distilled(t, s) \in Text /\ Lined(Distilled(t, s))
         /\ \A x \in Profiles : Shows(t, x) => Shows(Distilled(t, s), x)
         /\ \A y \in Rememberers : y \in Range(Distilled(t, s)) <=> y \in Range(t) \/ y = s
  <1> DEFINE u == t \o <<EOL, s, EOL>>
  <1>1. /\ <<EOL, s, EOL>> \in Text /\ Lined(<<EOL, s, EOL>>) /\ Plain(<<EOL, s, EOL>>)
        /\ s \in Range(<<EOL, s, EOL>>) /\ \A x \in Range(<<EOL, s, EOL>>) : x \in {s, EOL}
        /\ <<EOL, s, EOL>>[1] = EOL
    BY PiecesAre
  <1>2. /\ u \in Text /\ Lined(u)
        /\ \A x \in Profiles : Shows(t, x) => Shows(u, x)
        /\ \A x : x \in Range(u) <=> x \in Range(t) \/ x \in Range(<<EOL, s, EOL>>)
    BY <1>1, JoinKeeps
  <1>3. Distilled(t, s) = u
    BY DEF Distilled
  <1> HIDE DEF u
  <1>4. \A y \in Rememberers : y \in Range(u) <=> y \in Range(t) \/ y = s
    BY <1>1, <1>2, GlyphsDiffer
  <1> QED
    BY <1>2, <1>3, <1>4
-----------------------------------------------------------------------------
LEMMA TargetsAre ==
  ASSUME MemoryType, NEW s \in Rememberers
  PROVE  /\ notes.target[s] \in {"user", "profile", "memory", "project", "distill"}
         /\ TargetPath(s) \in Paths
         /\ notes.target[s] \in {"user", "profile"} => TargetPath(s) = UserPath
         /\ notes.target[s] = "memory" => TargetPath(s) = MemoryPath
         /\ ForProject(s) => TargetPath(s) = ResolveProject(WorkspaceOf[s])
         /\ ForProject(s) \/ TargetPath(s) \in {UserPath, MemoryPath}
         /\ TargetPath(s) = UserPath => notes.target[s] \in {"user", "profile"}
  <1>1. notes.target[s] \in {"user", "profile", "memory", "project", "distill"}
    BY DEF MemoryType, NoteForms
  <1>2. DistillPath(WorkspaceOf[s]) = ResolveProject(WorkspaceOf[s])
    BY DEF DistillPath, ResolveProject
  <1>3. /\ ResolveProject(WorkspaceOf[s]) \in Paths
        /\ ResolveProject(WorkspaceOf[s]) \notin {UserPath, MemoryPath}
    BY MemoryConstants DEF ResolveProject, Paths, UserPath, MemoryPath, ProjectPath
  <1>4. UserPath \in Paths /\ MemoryPath \in Paths /\ UserPath # MemoryPath
    BY DEF Paths, UserPath, MemoryPath
  <1>5. CASE notes.target[s] \in {"user", "profile"}
    <2>1. TargetPath(s) = UserPath
      BY <1>5 DEF TargetPath
    <2> QED
      BY <1>1, <1>4, <1>5, <2>1 DEF ForProject
  <1>6. CASE notes.target[s] = "memory"
    <2>1. TargetPath(s) = MemoryPath
      BY <1>6 DEF TargetPath
    <2> QED
      BY <1>4, <1>6, <2>1 DEF ForProject
  <1>7. CASE notes.target[s] \in {"project", "distill"}
    <2>1. TargetPath(s) = ResolveProject(WorkspaceOf[s])
      BY <1>2, <1>7 DEF TargetPath
    <2> QED
      BY <1>3, <1>4, <1>7, <2>1 DEF ForProject
  <1> QED
    BY <1>1, <1>5, <1>6, <1>7

LEMMA TargetsStay ==
  ASSUME notes'.target = notes.target, NEW s \in Rememberers
  PROVE  TargetPath(s)' = TargetPath(s) /\ ForProject(s)' = ForProject(s)
  BY DEF TargetPath, ForProject, ResolveProject, DistillPath, WorkspacePath, NoWorkspace, UserPath,
         MemoryPath, ProjectPath

LEMMA TextsStay ==
  ASSUME notes'.target = notes.target, NEW t, NEW p, TextOf(t, p)
  PROVE  TextOf(t, p)'
  BY TargetsStay DEF TextOf

\* A run is given the notes of its own project only.
LEMMA ProjectsApart ==
  ASSUME MemoryInv, NEW s \in Rememberers, NEW x \in Rememberers,
         x \in Range(file[ResolveProject(WorkspaceOf[s])])
  PROVE  ForProject(x) /\ WorkspaceOf[x] = WorkspaceOf[s]
  <1> DEFINE p == ResolveProject(WorkspaceOf[s])
  <1>1. /\ p \in Paths /\ p \notin {UserPath, MemoryPath}
    BY MemoryConstants DEF ResolveProject, Paths, UserPath, MemoryPath, ProjectPath
  <1>2. TargetPath(x) = p
    BY <1>1 DEF MemoryInv, TextsAreSound, TextOf
  <1>3. ForProject(x) /\ ResolveProject(WorkspaceOf[x]) = p
    BY <1>1, <1>2, TargetsAre DEF MemoryInv
  <1>4. WorkspaceOf[x] = WorkspaceOf[s]
    BY <1>3, MemoryConstants DEF ResolveProject
  <1> QED
    BY <1>3, <1>4

LEMMA MemoryStarts == MemoryInit => MemoryInv
  <1> SUFFICES ASSUME MemoryInit PROVE MemoryInv
    OBVIOUS
  <1>1. MemoryType
    BY MemoryConstants DEF MemoryInit, MemoryType, NoteForms, Over, Profiles
  <1>2. ASSUME NEW p \in Paths
        PROVE  TextOf(file[p], p) /\ Plain(file[p])
    <2>1. file[p] = <<"title", EOL>> \/ file[p] = <<>>
      BY DEF MemoryInit
    <2>2. NoProfile \in Profiles
      BY DEF Profiles
    <2> DEFINE t == <<"title", EOL>>
    <2>3. t \in Text /\ Len(t) = 2 /\ t[1] = "title" /\ t[2] = EOL
      <3>1. "title" \in Glyphs /\ EOL \in Glyphs
        BY DEF Glyphs
      <3> QED
        BY <3>1 DEF Text
    <2> HIDE DEF t
    <2>4. Lined(t) /\ Plain(t) /\ \A x \in Range(t) : x \in {"title", EOL}
      <3>1. \A x : x \in Range(t) <=> \E i \in 1 .. Len(t) : t[i] = x
        BY <2>3, RangeIs
      <3>2. "title" \notin {Begin, End} /\ EOL \notin {Begin, End}
        BY GlyphsDiffer
      <3>3. \A i \in 1 .. Len(t) : i \in {1, 2}
        BY <2>3
      <3> QED
        BY <2>3, <3>1, <3>2, <3>3 DEF Lined, Plain
    <2>5. <<>> \in Text /\ Lined(<<>>) /\ Plain(<<>>) /\ \A x : x \notin Range(<<>>)
      BY DEF Text, Lined, Plain, Range
    <2>6. "title" \notin Rememberers /\ EOL \notin Rememberers
      BY MemoryConstants
    <2>7. Shows(t, NoProfile) /\ Shows(<<>>, NoProfile)
      BY <2>4, <2>5 DEF Shows
    <2>8. TextOf(t, p)
      BY <2>2, <2>3, <2>4, <2>6, <2>7 DEF TextOf
    <2>9. TextOf(<<>>, p)
      BY <2>2, <2>5, <2>7 DEF TextOf
    <2> QED
      BY <2>1, <2>4, <2>5, <2>8, <2>9 DEF t
  <1>3. \A s \in Rememberers : held[s] = NotHeld
    BY DEF MemoryInit
  <1>4. UserPath \in Paths
    BY DEF Paths
  <1>5. ProfileShown
    BY <1>2, <1>4 DEF ProfileShown, Shows, MemoryInit
  <1>6. NotesThere /\ MemoryIsolated
    BY DEF NotesThere, MemoryIsolated, MemoryInit
  <1> QED
    BY <1>1, <1>2, <1>3, <1>5, <1>6 DEF MemoryInv, TextsAreSound, HeldIsFresh

LEMMA EmptyIsText ==
  ASSUME NEW p
  PROVE  TextOf(<<>>, p)
  <1>1. <<>> \in Text /\ Lined(<<>>) /\ Plain(<<>>) /\ \A x : x \notin Range(<<>>)
    BY DEF Text, Lined, Plain, Range
  <1>2. NoProfile \in Profiles /\ Shows(<<>>, NoProfile)
    BY <1>1 DEF Profiles, Shows
  <1> QED
    BY <1>1, <1>2 DEF TextOf

LEMMA ReadOldKeeps ==
  ASSUME MemoryInv, NEW s \in Rememberers, ReadOld(s)
  PROVE  MemoryInv'
  <1> DEFINE p == TargetPath(s)
             less == [notes EXCEPT !.unreadable = @ - 1]
  <1>1. \E t : /\ held' = [held EXCEPT ![s] = t]
               /\ \/ t = file[p] /\ crossed' = crossed /\ notes' = notes
                  \/ /\ t = <<>> /\ crossed' = crossed \cup {p}
                     /\ notes' = less /\ notes.unreadable > 0
    BY DEF ReadOld
  <1>2. PICK t : /\ held' = [held EXCEPT ![s] = t]
                 /\ \/ t = file[p] /\ crossed' = crossed /\ notes' = notes
                    \/ /\ t = <<>> /\ crossed' = crossed \cup {p}
                       /\ notes' = less /\ notes.unreadable > 0
    BY <1>1
  <1>3. /\ MemoryType /\ p \in Paths /\ notes.mode[s] # "replace"
        /\ UNCHANGED <<file, wrote, replaced, profile, prompted>>
    BY TargetsAre DEF MemoryInv, ReadOld
  <1> HIDE DEF p
  <1>4. /\ notes'.target = notes.target /\ notes'.mode = notes.mode /\ notes' \in NoteForms
    <2>1. CASE notes' = notes
      BY <1>3, <2>1 DEF MemoryType
    <2>2. CASE notes' = less /\ notes.unreadable > 0
      BY <1>3, <2>2 DEF MemoryType, NoteForms
    <2> QED
      BY <1>2, <2>1, <2>2
  <1>5. Replaced(held', held, s, t, Rememberers)
    BY <1>2, <1>3, OverExcept DEF MemoryType
  <1>6. MemoryType'
    BY <1>3, <1>4, <1>5 DEF MemoryType, Over, Replaced
  <1>7. \A x \in Rememberers : TargetPath(x)' = TargetPath(x) /\ ForProject(x)' = ForProject(x)
    BY <1>4, TargetsStay
  <1>8. TextOf(t, p)
    BY <1>2, <1>3, EmptyIsText DEF MemoryInv, TextsAreSound
  <1>9. TextsAreSound'
    <2>1. ASSUME NEW q \in Paths PROVE TextOf(file[q], q)'
      <3>1. TextOf(file[q], q)
        BY DEF MemoryInv, TextsAreSound
      <3>2. TextOf(file'[q], q)
        BY <1>3, <3>1
      <3> QED
        BY <1>4, <3>2, TextsStay DEF TextOf
    <2>2. ASSUME NEW x \in Rememberers, held'[x] # NotHeld
          PROVE  TextOf(held[x], TargetPath(x))' /\ notes'.mode[x] # "replace"
      <3>1. TextOf(held'[x], TargetPath(x)) /\ notes.mode[x] # "replace"
        BY <1>3, <1>5, <1>8, <2>2 DEF MemoryInv, TextsAreSound, Replaced, p
      <3> QED
        BY <1>4, <1>7, <3>1, TextsStay DEF TextOf
    <2> QED
      BY <2>1, <2>2 DEF TextsAreSound
  <1>10. HeldIsFresh'
    <2> SUFFICES ASSUME NEW x \in Rememberers, held'[x] # NotHeld, TargetPath(x)' \notin crossed'
                 PROVE  held'[x] = file'[TargetPath(x)']
      BY DEF HeldIsFresh
    <2>1. TargetPath(x)' = TargetPath(x) /\ TargetPath(x) \notin crossed /\ file' = file
      BY <1>2, <1>3, <1>7
    <2>2. CASE x = s
      BY <1>2, <1>3, <1>5, <2>1, <2>2 DEF Replaced, p
    <2>3. CASE x # s
      BY <1>5, <2>1, <2>3 DEF Replaced, MemoryInv, HeldIsFresh
    <2> QED
      BY <2>2, <2>3
  <1>11. NotesThere'
    <2>1. crossed \subseteq crossed' /\ wrote \subseteq Rememberers
      BY <1>2, <1>3 DEF MemoryType
    <2> QED
      BY <1>3, <1>4, <1>7, <2>1 DEF MemoryInv, NotesThere
  <1>12. ProfileShown'
    BY <1>2, <1>3 DEF MemoryInv, ProfileShown
  <1>13. MemoryIsolated'
    BY <1>3, <1>7 DEF MemoryInv, MemoryIsolated
  <1> QED
    BY <1>6, <1>9, <1>10, <1>11, <1>12, <1>13 DEF MemoryInv

LEMMA ReadBlockKeeps ==
  ASSUME MemoryInv, NEW s \in Rememberers, ReadMemoryBlock(s)
  PROVE  MemoryInv'
  <1> DEFINE block == Range(file[ResolveProject(WorkspaceOf[s])]) \cap Rememberers
  <1>1. /\ prompted' = [prompted EXCEPT ![s] = block]
        /\ UNCHANGED <<file, held, wrote, crossed, replaced, profile, notes>>
    BY DEF ReadMemoryBlock
  <1>2. \A x \in block : ForProject(x) /\ WorkspaceOf[x] = WorkspaceOf[s]
    BY ProjectsApart
  <1> HIDE DEF block
  <1>3. Replaced(prompted', prompted, s, block, Rememberers)
    BY <1>1, OverExcept DEF MemoryInv, MemoryType
  <1>4. \A x \in Rememberers : TargetPath(x)' = TargetPath(x) /\ ForProject(x)' = ForProject(x)
    BY <1>1, TargetsStay
  <1>5. MemoryType'
    BY <1>1, <1>3 DEF MemoryInv, MemoryType, Over, Replaced
  <1>6. TextsAreSound'
    <2>1. ASSUME NEW t, NEW p, TextOf(t, p) PROVE TextOf(t, p)'
      BY <1>1, <2>1, TextsStay
    <2> QED
      BY <1>1, <1>4, <2>1 DEF MemoryInv, TextsAreSound, TextOf
  <1>7. HeldIsFresh' /\ NotesThere' /\ ProfileShown'
    BY <1>1, <1>4 DEF MemoryInv, MemoryType, HeldIsFresh, NotesThere, ProfileShown
  <1>8. MemoryIsolated'
    <2> SUFFICES ASSUME NEW v \in Rememberers, NEW x \in Rememberers, x \in prompted'[v]
                 PROVE  ForProject(x) /\ WorkspaceOf[x] = WorkspaceOf[v]
      BY <1>4 DEF MemoryIsolated
    <2> QED
      BY <1>2, <1>3 DEF MemoryInv, MemoryIsolated, Replaced
  <1> QED
    BY <1>5, <1>6, <1>7, <1>8 DEF MemoryInv

\* A write of the whole file: whoever still holds the old text has the file marked.
LEMMA WriteKeeps ==
  ASSUME MemoryInv, NEW s \in Rememberers, NEW text, TextOf(text, TargetPath(s)),
         Write(TargetPath(s), text, s), UNCHANGED <<notes, prompted>>,
         held' = held \/ held' = [held EXCEPT ![s] = NotHeld], held'[s] = NotHeld,
         profile' \in Profiles, replaced \subseteq replaced',
         s \in Range(text) \/ notes.target[s] = "profile",
         \/ TargetPath(s) \in crossed' \cup replaced'
         \/ \A y \in Rememberers :
              y \in Range(file[TargetPath(s)]) /\ notes.target[y] # "profile" => y \in Range(text),
         TargetPath(s) # UserPath => profile' = profile,
         TargetPath(s) = UserPath => UserPath \in crossed' \/ Shows(text, profile')
  PROVE  MemoryInv'
  <1> DEFINE p == TargetPath(s)
  <1>1. /\ file' = [file EXCEPT ![p] = text] /\ wrote' = wrote \cup {s}
        /\ crossed \subseteq crossed' /\ crossed' \subseteq crossed \cup {p}
        /\ \A x \in Rememberers \ {s} : held[x] # NotHeld /\ TargetPath(x) = p => p \in crossed'
    BY DEF Write
  <1>2. MemoryType /\ p \in Paths
    BY TargetsAre DEF MemoryInv
  <1>3. \A x \in Rememberers : TargetPath(x)' = TargetPath(x) /\ ForProject(x)' = ForProject(x)
    BY TargetsStay
  <1> HIDE DEF p
  <1>4. Replaced(file', file, p, text, Paths)
    BY <1>1, <1>2, OverExcept DEF MemoryType
  <1>5. Over(held', Rememberers) /\ \A x \in Rememberers : x # s => held'[x] = held[x]
    BY <1>2 DEF MemoryType, Over
  <1>6. MemoryType'
    BY <1>1, <1>2, <1>4, <1>5 DEF MemoryType, Over, Replaced
  <1>7. \A t, q : TextOf(t, q) => TextOf(t, q)'
    BY TextsStay
  <1>8. TextsAreSound'
    <2>1. ASSUME NEW q \in Paths PROVE TextOf(file'[q], q)
      <3>1. CASE q = p
        BY <1>4, <3>1 DEF Replaced, p
      <3>2. CASE q # p
        BY <1>4, <3>2 DEF Replaced, MemoryInv, TextsAreSound
      <3> QED
        BY <3>1, <3>2
    <2>2. ASSUME NEW x \in Rememberers, held'[x] # NotHeld
          PROVE  TextOf(held'[x], TargetPath(x)) /\ notes.mode[x] # "replace"
      BY <1>5, <2>2 DEF MemoryInv, TextsAreSound
    <2> QED
      BY <1>3, <1>7, <2>1, <2>2 DEF TextsAreSound, TextOf
  <1>9. HeldIsFresh'
    <2> SUFFICES ASSUME NEW x \in Rememberers, held'[x] # NotHeld, TargetPath(x) \notin crossed'
                 PROVE  held'[x] = file'[TargetPath(x)]
      BY <1>3 DEF HeldIsFresh
    <2>1. x # s /\ held'[x] = held[x] /\ TargetPath(x) \notin crossed /\ TargetPath(x) \in Paths
      BY <1>1, <1>2, <1>5, TargetsAre
    <2>2. TargetPath(x) # p
      BY <1>1, <2>1
    <2> QED
      BY <1>4, <2>1, <2>2 DEF Replaced, MemoryInv, HeldIsFresh
  <1>10. NotesThere'
    <2> SUFFICES ASSUME NEW x \in wrote'
                 PROVE  \/ TargetPath(x) \in crossed' \cup replaced' \/ notes.target[x] = "profile"
                        \/ x \in Range(file'[TargetPath(x)])
      <3>1. wrote' \subseteq Rememberers
        BY <1>6 DEF MemoryType
      <3> QED
        BY <1>3, <3>1 DEF NotesThere
    <2>1. x \in Rememberers /\ TargetPath(x) \in Paths
      BY <1>2, <1>6, TargetsAre DEF MemoryType
    <2>2. CASE x = s
      BY <1>4, <2>2 DEF Replaced, p
    <2>3. CASE x # s
      <3>1. x \in wrote
        BY <1>1, <2>3
      <3>2. \/ TargetPath(x) \in crossed' \cup replaced' \/ notes.target[x] = "profile"
            \/ x \in Range(file[TargetPath(x)])
        BY <1>1, <3>1 DEF MemoryInv, NotesThere
      <3>3. CASE TargetPath(x) = p
        BY <1>4, <2>1, <3>2, <3>3 DEF Replaced, p
      <3>4. CASE TargetPath(x) # p
        BY <1>4, <2>1, <3>2, <3>4 DEF Replaced
      <3> QED
        BY <3>3, <3>4
    <2> QED
      BY <2>2, <2>3
  <1>11. ProfileShown'
    <2>1. UserPath \in Paths
      BY DEF Paths
    <2>2. CASE p = UserPath
      BY <1>4, <2>1, <2>2 DEF Replaced, ProfileShown, p
    <2>3. CASE p # UserPath
      <3>1. profile' = profile /\ file'[UserPath] = file[UserPath]
        BY <1>4, <2>1, <2>3 DEF Replaced, p
      <3>2. UserPath \in crossed \/ Shows(file[UserPath], profile)
        BY DEF MemoryInv, ProfileShown
      <3> QED
        BY <1>1, <3>1, <3>2 DEF ProfileShown
    <2> QED
      BY <2>2, <2>3
  <1>12. MemoryIsolated'
    BY <1>3 DEF MemoryInv, MemoryIsolated
  <1> QED
    BY <1>6, <1>8, <1>9, <1>10, <1>11, <1>12 DEF MemoryInv

\* What is read and may be written back.
LEMMA HeldText ==
  ASSUME MemoryInv, NEW s \in Rememberers, held[s] # NotHeld
  PROVE  /\ TextOf(held[s], TargetPath(s))
         /\ TargetPath(s) \notin crossed => held[s] = file[TargetPath(s)]
         /\ TargetPath(s) = UserPath /\ UserPath \notin crossed => Shows(held[s], profile)
         /\ MemoryType
  BY DEF MemoryInv, TextsAreSound, HeldIsFresh, ProfileShown

LEMMA WriteBackKeeps ==
  ASSUME MemoryInv, NEW s \in Rememberers, WriteBack(s)
  PROVE  MemoryInv'
  <1> DEFINE t == held[s]
             p == TargetPath(s)
             text == IF notes.target[s] = "distill" THEN Distilled(held[s], s)
                     ELSE Appended(held[s], s)
  <1>1. /\ held[s] # NotHeld /\ held' = [held EXCEPT ![s] = NotHeld] /\ notes.target[s] # "profile"
        /\ Write(p, text, s) /\ UNCHANGED <<replaced, profile, prompted, notes>>
    BY DEF WriteBack
  <1>2. /\ TextOf(t, p) /\ (p \notin crossed => t = file[p]) /\ MemoryType
        /\ p = UserPath /\ UserPath \notin crossed => Shows(t, profile)
    BY <1>1, HeldText
  <1>3. held'[s] = NotHeld /\ profile' \in Profiles /\ crossed \subseteq crossed'
    BY <1>1, <1>2 DEF MemoryType, Over, Write
  <1>4. t \in Text /\ Lined(t)
    BY <1>2 DEF TextOf
  <1>5. /\ text \in Text /\ Lined(text) /\ \A x \in Profiles : Shows(t, x) => Shows(text, x)
        /\ \A y \in Rememberers : y \in Range(text) <=> y \in Range(t) \/ y = s
    BY <1>4, AppendedKeeps, DistilledKeeps
  <1> HIDE DEF t, text, p
  <1>6. TextOf(text, p)
    BY <1>2, <1>5 DEF TextOf, p
  <1>7. \/ p \in crossed'
        \/ \A y \in Rememberers : y \in Range(file[p]) => y \in Range(text)
    BY <1>2, <1>3, <1>5
  <1>8. p = UserPath => UserPath \in crossed' \/ Shows(text, profile')
    BY <1>1, <1>2, <1>3, <1>5
  <1> QED
    BY <1>1, <1>3, <1>5, <1>6, <1>7, <1>8, WriteKeeps DEF p

LEMMA WriteProfileKeeps ==
  ASSUME MemoryInv, NEW s \in Rememberers, WriteProfile(s)
  PROVE  MemoryInv'
  <1> DEFINE t == held[s]
             p == TargetPath(s)
             text == UpsertSection(held[s], profile')
  <1>1. /\ held[s] # NotHeld /\ held' = [held EXCEPT ![s] = NotHeld] /\ notes.target[s] = "profile"
        /\ profile' \in {NoProfile, s} /\ Write(UserPath, text, s)
        /\ UNCHANGED <<replaced, prompted, notes>>
    BY DEF WriteProfile
  <1>2. /\ TextOf(t, p) /\ (p \notin crossed => t = file[p]) /\ MemoryType /\ p = UserPath
    BY <1>1, HeldText, TargetsAre
  <1>3. held'[s] = NotHeld /\ profile' \in Profiles /\ crossed \subseteq crossed'
    BY <1>1, <1>2 DEF MemoryType, Over, Write, Profiles
  <1>4. PICK x \in Profiles : Shows(t, x) /\ (x # NoProfile => notes.target[x] = "profile")
    BY <1>2 DEF TextOf
  <1>5. t \in Text /\ Lined(t) /\ \A y \in Range(t) \cap Rememberers : TargetPath(y) = p
    BY <1>2 DEF TextOf
  <1>6. /\ text \in Text /\ Lined(text) /\ Shows(text, profile')
        /\ \A y \in Rememberers : /\ y \in Range(text) => y \in Range(t) \/ y = profile'
                                  /\ y \in Range(t) => y \in Range(text) \/ y = x
    BY <1>3, <1>4, <1>5, UpsertKeeps
  <1>7. NoProfile \notin Rememberers
    BY GlyphsDiffer
  <1> HIDE DEF t, text, p
  <1>8. TextOf(text, p)
    <2>1. profile' # NoProfile => notes.target[profile'] = "profile"
      BY <1>1
    <2>2. \A y \in Range(text) \cap Rememberers : TargetPath(y) = p
      BY <1>1, <1>5, <1>6, <1>7 DEF p
    <2> QED
      BY <1>3, <1>6, <2>1, <2>2 DEF TextOf
  <1>9. \/ p \in crossed'
        \/ \A y \in Rememberers :
             y \in Range(file[p]) /\ notes.target[y] # "profile" => y \in Range(text)
    BY <1>2, <1>3, <1>4, <1>6, <1>7
  <1> QED
    BY <1>1, <1>2, <1>3, <1>6, <1>8, <1>9, WriteKeeps DEF p

LEMMA ReplaceKeeps ==
  ASSUME MemoryInv, NEW s \in Rememberers, Replace(s)
  PROVE  MemoryInv'
  <1> DEFINE p == TargetPath(s)
             text == <<s>>
  <1>1. /\ notes.mode[s] = "replace" /\ Write(p, text, s) /\ replaced' = replaced \cup {p}
        /\ profile' = (IF p = UserPath THEN NoProfile ELSE profile)
        /\ UNCHANGED <<held, prompted, notes>>
    BY DEF Replace
  <1>2. held[s] = NotHeld /\ MemoryType
    BY <1>1 DEF MemoryInv, TextsAreSound
  <1>3. profile' \in Profiles
    BY <1>1, <1>2 DEF MemoryType, Profiles
  <1>4. text \in Text /\ Lined(text) /\ Plain(text) /\ \A x : x \in Range(text) <=> x = s
    BY PiecesAre
  <1> HIDE DEF text, p
  <1>5. Shows(text, NoProfile) /\ NoProfile \in Profiles
    BY <1>4 DEF Shows, Profiles
  <1>6. TextOf(text, p)
    BY <1>4, <1>5 DEF TextOf, p
  <1> QED
    BY <1>1, <1>2, <1>3, <1>4, <1>5, <1>6, WriteKeeps DEF p

\* Files that are rewritten whole keep every note, on lines of its own, for the workspace it
\* was made in, and one profile, whoever writes when.
THEOREM MemoryIsKept == MemorySpec => []MemoryKept
  <1>1. MemoryInv /\ [MemoryNext]_memoryVars => MemoryInv'
    <2> SUFFICES ASSUME MemoryInv, [MemoryNext]_memoryVars PROVE MemoryInv'
      OBVIOUS
    <2>1. CASE UNCHANGED memoryVars
      <3>1. /\ UNCHANGED <<file, held, wrote, crossed, replaced, profile, prompted, notes>>
        BY <2>1 DEF memoryVars
      <3>2. \A x \in Rememberers : TargetPath(x)' = TargetPath(x) /\ ForProject(x)' = ForProject(x)
        BY <3>1, TargetsStay
      <3>3. \A t, q : TextOf(t, q) => TextOf(t, q)'
        BY <3>1, TextsStay
      <3>4. TextsAreSound'
        BY <3>1, <3>2, <3>3 DEF MemoryInv, TextsAreSound, TextOf
      <3>5. MemoryType' /\ HeldIsFresh' /\ NotesThere' /\ ProfileShown' /\ MemoryIsolated'
        BY <3>1, <3>2
        DEF MemoryInv, MemoryType, HeldIsFresh, NotesThere, ProfileShown, MemoryIsolated
      <3> QED
        BY <3>4, <3>5 DEF MemoryInv
    <2>2. CASE MemoryNext
      BY <2>2, ReadOldKeeps, WriteBackKeeps, WriteProfileKeeps, ReplaceKeeps, ReadBlockKeeps
      DEF MemoryNext
    <2> QED
      BY <2>1, <2>2
  <1>2. MemoryInv => MemoryKept
    <2> SUFFICES ASSUME MemoryInv PROVE MemoryKept
      OBVIOUS
    <2>1. MemoryIsolated
      BY DEF MemoryInv
    <2>2. NotesKept
      <3> SUFFICES ASSUME NEW s \in wrote
                   PROVE  \/ TargetPath(s) \in crossed \cup replaced \/ notes.target[s] = "profile"
                          \/ s \in Range(file[IF ForProject(s) THEN ResolveProject(WorkspaceOf[s])
                                             ELSE TargetPath(s)])
        BY DEF NotesKept
      <3>1. s \in Rememberers
        BY DEF MemoryInv, MemoryType
      <3>2. (IF ForProject(s) THEN ResolveProject(WorkspaceOf[s]) ELSE TargetPath(s))
              = TargetPath(s)
        BY <3>1, TargetsAre DEF MemoryInv
      <3> QED
        BY <3>2 DEF MemoryInv, NotesThere
    <2>3. NotesOnOwnLines
      BY DEF MemoryInv, TextsAreSound, TextOf, Lined, NotesOnOwnLines
    <2>4. ProfileReadsBack
      <3> DEFINE t == file[UserPath]
      <3> SUFFICES ASSUME UserPath \notin crossed
                   PROVE  ExtractSection(t) = IF profile = NoProfile THEN {} ELSE {profile}
        BY DEF ProfileReadsBack
      <3>1. t \in Text /\ profile \in Profiles /\ Shows(t, profile)
        BY DEF MemoryInv, MemoryType, TextsAreSound, TextOf, ProfileShown, Paths
      <3> DEFINE b == Find(t, Begin)
      <3>2. /\ profile = NoProfile => b = 0 /\ Find(t, End) = 0
            /\ profile # NoProfile => /\ b \in 1 .. Len(t) - 4 /\ Find(t, End) = b + 4
                                      /\ SectionAt(t, b, profile)
        BY <3>1, FindsSection
      <3>3. ExtractSection(t) = {t[i] : i \in b + 1 .. Find(t, End) - 1} \ {EOL}
        BY DEF ExtractSection
      <3>4. EOL \notin Rememberers /\ Len(t) \in Nat
        <4>1. EOL \notin Rememberers
          BY GlyphsDiffer
        <4>2. t \in Seq(Glyphs)
          BY <3>1 DEF Text
        <4> HIDE DEF t
        <4> QED
          BY <4>1, <4>2
      <3> HIDE DEF t, b
      <3>5. CASE profile = NoProfile
        BY <3>2, <3>3, <3>5
      <3>6. CASE profile # NoProfile
        <4>1. b + 1 .. (b + 4) - 1 = {b + 1, b + 2, b + 3}
          BY <3>2, <3>4, <3>6
        <4>2. t[b + 1] = EOL /\ t[b + 2] = profile /\ t[b + 3] = EOL /\ profile # EOL
          BY <3>1, <3>2, <3>4, <3>6 DEF SectionAt, Profiles
        <4>3. ExtractSection(t) = {t[i] : i \in {b + 1, b + 2, b + 3}} \ {EOL}
          BY <3>2, <3>3, <3>6, <4>1
        <4> QED
          BY <3>6, <4>2, <4>3
      <3> QED
        BY <3>5, <3>6
    <2> QED
      BY <2>1, <2>2, <2>3, <2>4 DEF MemoryKept
  <1> QED
    BY <1>1, <1>2, MemoryStarts, PTL DEF MemorySpec
-----------------------------------------------------------------------------
\* All that a user set up is found as it was left, whatever happens to the rest of it
\* in between.
THEOREM RecordsAreKept == RecordsSpec => []RecordsKept
  BY CatalogIsKept, SkillsAreAccounted, TalkIsKept, MemoryIsKept, PTL DEF RecordsSpec, RecordsKept
=============================================================================
