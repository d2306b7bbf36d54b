----------------------------- MODULE Automation -----------------------------
(***************************************************************************)
(* A scheduled job (scheduler/engine.rs, scheduler/model.rs and the        *)
(* commands and tools that edit it).  A ticker looks at the rows every     *)
(* second and starts an activity for each active one that is due; the row  *)
(* is only moved on when that activity is through, from what it knew when  *)
(* it began, while the user pauses, edits, deletes and reruns the job.     *)
(* Times are counted in seconds from now; -1 is any time in the past.      *)
(***************************************************************************)
EXTENDS Integers, FiniteSets

CONSTANTS
  Period,    \* seconds between two runs of a repeating job
  Slots,     \* executions a behaviour may have at a time
  JobKits    \* what a behaviour is bounded to

Never == -2    \* next_run_at IS NULL
Late == -1
\* the schedules users write: a repeating one, a moment to come, one that is
\* over; `left` is the time to that moment
Exprs == {[is |-> "every", left |-> Never], [is |-> "soon", left |-> 1],
          [is |-> "over", left |-> Late]}
JobKinds == {"agent", "shell"}
ASSUME JobConstants ==
  /\ Period \in Nat \ {0} /\ IsFiniteSet(Slots)
  /\ \A k \in JobKits : k.expr \in Exprs /\ k.action \in JobKinds

VARIABLES
  job,       \* the row of scheduled_tasks
  executions,      \* the executions in progress
  editing,   \* update_scheduled_task between its two statements
  wish,      \* what the user last asked of the job: "run" or "pause"
  quiet,     \* nothing was executing then, and nothing was run by hand since
  results,       \* results recorded, counted up to MaxResults
  down,      \* the program is not running
  jobKit     \* what is left of the bounds

jobVars == <<job, executions, editing, wish, quiet, results, down, jobKit>>

NoWork == [at |-> "none", repeats |-> FALSE, count |-> 0]
NoEditing == [expr |-> [is |-> "none", left |-> Never], next |-> Never]
MaxResults == Cardinality(Slots) + 1
UpTo(n) == IF n < MaxResults THEN n ELSE MaxResults
Charge(f) == jobKit[f] > 0 /\ jobKit' = [jobKit EXCEPT ![f] = @ - 1]
Executing == \E s \in Slots : executions[s].at # "none"

\* Schedule::parse and next_after
Repeats(expr) == expr.is = "every"
NextAfter(expr) ==
  IF Repeats(expr) THEN Period ELSE IF expr.left > 0 THEN expr.left ELSE Never

(***************************************************************************)
(* The table (storage/task_repo.rs): one statement each.                   *)
(***************************************************************************)
CreateRow(expr, action, next) ==
  [known |-> TRUE, expr |-> expr, action |-> action, status |-> "active",
   next |-> next, count |-> 0, stamp |-> "none"]
FindActive(row) == row.known /\ row.status = "active"
\* an UPDATE by id changes nothing when the row is gone
Updated(row, new) == IF row.known THEN new ELSE row
SetStatus(row, status) == Updated(row, [row EXCEPT !.status = status])
UpdateRow(row, expr, next) == Updated(row, [row EXCEPT !.expr = expr, !.next = next])
\* (mutant) a result that is inserted when there is no row
WriteRunInserting(row, count, status, next) ==
  [row EXCEPT !.known = TRUE, !.count = count, !.status = status, !.next = next]
WriteRun(row, count, status, next) ==
  Updated(row, [row EXCEPT !.count = count, !.status = status, !.next = next])
StampStarted(row) == Updated(row, [row EXCEPT !.stamp = "open"])
StampFinished(row) == Updated(row, [row EXCEPT !.stamp = "closed"])

\* create_scheduled_task: an expression whose time is over is accepted, and an
\* active row without a time is left
\* the tool asks for the same
Resolved(expr) == NextAfter(expr)
CreateJob(expr, action) == CreateRow(expr, action, Resolved(expr))

JobInit ==
  /\ jobKit \in JobKits
  /\ job = CreateJob(jobKit.expr, jobKit.action)
  /\ executions = [s \in Slots |-> NoWork] /\ editing = NoEditing
  /\ wish = "run" /\ quiet = FALSE /\ results = 0 /\ down = FALSE

(***************************************************************************)
(* The ticker.                                                             *)
(***************************************************************************)
\* (mutant) a moment that was missed while the program was down is gone
DueExactly(row) == FindActive(row) /\ row.next = 0
\* (mutant) a row with a time is due whatever the user made of it
DueUnasked(row) == row.known /\ row.next \in {0, Late}
DueJob(row) == FindActive(row) /\ row.next \in {0, Late}

Sooner(t) == IF t = Never THEN Never ELSE IF t < 1 THEN Late ELSE t - 1
Elapsed(row) == [row EXCEPT !.next = Sooner(@), !.expr.left = Sooner(@)]
Fire(s, row) ==
  /\ executions[s].at = "none"
  /\ \A x \in Slots : executions[x].at = "none" => s <= x
  /\ executions' = [executions EXCEPT ![s] = [at |-> "begin", repeats |-> Repeats(row.expr), count |-> row.count]]

\* a second passes and the ticker looks at the row it finds; a job whose
\* execution is not through is started once more
TickJobs ==
  /\ ~down
  /\ LET row == Elapsed(job)
     IN  /\ job' = row
         /\ \/ DueJob(row) /\ \E s \in Slots : Fire(s, row)
            \/ /\ ~DueJob(row) \/ \A s \in Slots : executions[s].at # "none"
               /\ UNCHANGED executions
  /\ editing' = Elapsed(editing)
  /\ UNCHANGED <<wish, quiet, results, down, jobKit>>
\* run_task_now takes the row as it is, a paused or completed one too
RunTaskNow ==
  /\ ~down /\ job.known /\ Charge("now")
  /\ \E s \in Slots : Fire(s, job)
  /\ quiet' = FALSE
  /\ UNCHANGED <<job, editing, wish, results, down>>

(***************************************************************************)
(* One execution.                                                          *)
(***************************************************************************)
Proceeds(s, at) == executions' = [executions EXCEPT ![s].at = at]
\* run_agent stamps the session it created before the run; the payload may be
\* unusable, the key missing or the session refused, and a command stamps nothing
BeginWork(s) ==
  /\ executions[s].at = "begin"
  /\ \/ Proceeds(s, "stamp") /\ job.action = "agent" /\ job' = StampStarted(job)
     \/ \E result \in {"good", "bad"} : Proceeds(s, result) /\ UNCHANGED job
  /\ UNCHANGED <<editing, wish, quiet, results, down, jobKit>>
\* the engine is back; how the run went does not matter
EndRun(s) ==
  /\ executions[s].at = "stamp"
  /\ job' = StampFinished(job) /\ Proceeds(s, "good")
  /\ UNCHANGED <<editing, wish, quiet, results, down, jobKit>>

\* what execute makes of the row it was given
AfterRun(w) ==
  IF w.repeats THEN [status |-> "active", next |-> Period]
  ELSE [status |-> IF w.at = "good" THEN "completed" ELSE "failed", next |-> Never]
\* (mutant) a count that is raised when a run begins and when it ends
CountTwice(w) == UpTo(w.count + 2)
CountAfter(w) == UpTo(w.count + 1)
\* record_run: one UPDATE by id, from the row the execution was given
RecordRun(s) ==
  /\ executions[s].at \in {"good", "bad"}
  /\ job' = WriteRun(job, CountAfter(executions[s]), AfterRun(executions[s]).status,
                     AfterRun(executions[s]).next)
  /\ results' = UpTo(results + 1)
  /\ executions' = [executions EXCEPT ![s] = NoWork]
  /\ UNCHANGED <<editing, wish, quiet, down, jobKit>>

(***************************************************************************)
(* What the user does, and the agents' tools.                              *)
(***************************************************************************)
\* the switch, of the user and of the agent's tool: whatever the row's status is
EnableJob(row, enabled) == SetStatus(row, IF enabled THEN "active" ELSE "paused")
SetTaskPaused(paused) ==
  /\ ~down /\ job.known /\ Charge("edits")
  /\ job' = EnableJob(job, ~paused)
  /\ wish' = IF paused THEN "pause" ELSE "run"
  /\ quiet' = ~Executing
  /\ UNCHANGED <<executions, editing, results, down>>
\* an edit, of the user or of the tool, keeps the time when the schedule is the same
KeptTime(row, expr) == IF row.expr = expr THEN row.next ELSE NextAfter(expr)
ReadTask(expr) ==
  /\ ~down /\ job.known /\ editing = NoEditing /\ Charge("edits")
  /\ editing' = [expr |-> expr, next |-> KeptTime(job, expr)]
  /\ UNCHANGED <<job, executions, wish, quiet, results, down>>
UpdateTask ==
  /\ editing # NoEditing
  /\ job' = UpdateRow(job, editing.expr, editing.next)
  /\ editing' = NoEditing
  /\ UNCHANGED <<executions, wish, quiet, results, down, jobKit>>
Removed(row) == [row EXCEPT !.known = FALSE]
DeleteTask ==
  /\ ~down /\ job.known /\ Charge("edits")
  /\ job' = Removed(job)
  /\ UNCHANGED <<executions, editing, wish, quiet, results, down>>

JobCrash ==
  /\ ~down /\ Charge("crash")
  /\ down' = TRUE
  /\ executions' = [s \in Slots |-> NoWork] /\ editing' = NoEditing
  /\ UNCHANGED <<job, wish, quiet, results>>
Pass ==
  /\ down /\ job' = Elapsed(job) /\ job' # job
  /\ UNCHANGED <<executions, editing, wish, quiet, results, down, jobKit>>
\* recompute_all: an active row without a time gets one
Recompute(row) ==
  IF FindActive(row) /\ row.next = Never
  THEN [row EXCEPT !.next = NextAfter(row.expr)] ELSE row
StartScheduler ==
  /\ down /\ down' = FALSE /\ job' = Recompute(job)
  /\ UNCHANGED <<executions, editing, wish, quiet, results, jobKit>>

Exec(s) == BeginWork(s) \/ EndRun(s) \/ RecordRun(s)
JobNext ==
  \/ TickJobs \/ RunTaskNow \/ UpdateTask \/ DeleteTask \/ JobCrash \/ Pass \/ StartScheduler
  \/ \E paused \in BOOLEAN : SetTaskPaused(paused)
  \/ \E expr \in Exprs \cup {job.expr} : ReadTask(expr)
  \/ \E s \in Slots : Exec(s)
JobSpec == JobInit /\ [][JobNext]_jobVars
\* the ticker and the activities it starts are scheduled, the user starts the
\* program again
JobFairness ==
  /\ WF_jobVars(TickJobs) /\ WF_jobVars(StartScheduler)
  /\ \A s \in Slots : WF_jobVars(Exec(s))
-----------------------------------------------------------------------------
\* A job that was paused while none of its executions was in progress stays
\* paused and is not executed; one under way, or one started by hand, un-pauses
\* it when it ends (see PausedStays).
PausedQuietly ==
  (wish = "pause" /\ quiet /\ job.known) =>
    job.status = "paused" /\ ~Executing

\* The count a job shows is at most the number of its executions that ended,
\* however many of them ran side by side and wrote it from what they had read.
CountIsNotAhead == results < MaxResults => job.count <= results

\* A deleted job does not come back with the result of an execution that was
\* under way or with an edit that had read it.
DeletedStays == [][~job.known => ~job'.known]_jobVars

\* An execution that ends writes into a row that was edited meanwhile: it neither
\* revives what was deleted, nor what was paused in peace, nor counts too much.
JobsKept == []PausedQuietly /\ []CountIsNotAhead /\ DeletedStays

\* An active job that has a time is executed when it has come, also when the
\* program was down at that moment.
ActiveIsRun ==
  (job.known /\ job.status = "active" /\ job.next # Never)
    ~> (Executing \/ ~job.known \/ job.status # "active" \/ job.next = Never)

\* "Paused: not triggered any more" (docs/longtask-design.md): what the user
\* paused stays paused until the user enables it again.
PausedStays == (wish = "pause" /\ job.known) => job.status = "paused"
=============================================================================
