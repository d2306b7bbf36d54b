--------------------------- MODULE Interruptions ---------------------------
(***************************************************************************)
(* The panel of interrupted runs (storage/longtask_repo.rs,                *)
(* commands/longtask.rs): which runs of the past it offers to go on with,  *)
(* for how long, and which of them resume_task accepts. The two sides read *)
(* the same rows with conditions of their own, and tasks are deleted,      *)
(* settings changed and the application restarted in between.              *)
(***************************************************************************)
EXTENDS Integers, FiniteSets

CONSTANTS
  Runs,        \* ids, in the order the runs begin
  Talks,       \* sessions
  PanelKits    \* bound of the clock, rows shown, bounds
ASSUME PanelConstants == PanelKits \subseteq [days : Nat, limit : Nat, edits : Nat, restarts : Nat]

VARIABLES
  past,     \* per run [status, kind, of, in, started, dismissed]
  alive,    \* runs the engine has in its table: gone with the process
  tasks,    \* runs whose DAG task still has its row
  setting,  \* [auto, days]: interrupted_auto_clean, interrupted_retention_days
  today,    \* days
  panel     \* the kit, edits and restarts counted down

panelVars == <<past, alive, tasks, setting, today, panel>>

NotRun == [status |-> "none", kind |-> "none", of |-> "none", in |-> "none",
           started |-> 0, dismissed |-> FALSE]

Of(status) == {r \in Runs : past[r].status = status}
IsRunning(s) == \E r \in alive : past[r].in = s

\* RESUMABLE_KINDS; a task's run is a "chat" with the task's id as its job
ResumableKind(kind) == kind \in {"chat", "scheduled"}
OfTask(r) == past[r].of = "task" /\ r \in tasks

PanelInit ==
  /\ past = [r \in Runs |-> NotRun] /\ alive = {} /\ tasks = {}
  /\ today = 0
  /\ setting \in [auto : BOOLEAN, days : {1}] /\ panel \in PanelKits
-----------------------------------------------------------------------------
\* list_interruptions and the restart compute the same date; 0 keeps everything
Cutoff == IF setting.auto /\ setting.days > 0 THEN today - setting.days ELSE 0

\* (mutant) the runs of tasks among the others
RecoverableTasksToo(r) ==
  /\ ~past[r].dismissed /\ ResumableKind(past[r].kind)
  /\ \/ past[r].status = "paused"
     \/ past[r].status = "interrupted" /\ past[r].started >= Cutoff
\* list_recoverable
Recoverable(r) ==
  /\ ~past[r].dismissed /\ ResumableKind(past[r].kind) /\ ~OfTask(r)
  /\ \/ past[r].status = "paused"
     \/ past[r].status = "interrupted" /\ past[r].started >= Cutoff
\* the newest of them
Offered == {r \in Runs : /\ Recoverable(r)
                         /\ Cardinality({x \in Runs : Recoverable(x) /\ x > r}) < panel.limit}

\* what resume_task asks of the run it has resolved
Accepts(r) == /\ ResumableKind(past[r].kind) /\ ~OfTask(r)
              /\ past[r].status \in {"paused", "interrupted"}
              /\ ~IsRunning(past[r].in)
-----------------------------------------------------------------------------
Edits == panel.edits > 0 /\ panel' = [panel EXCEPT !.edits = @ - 1]
New == {r \in Runs : past[r].status = "none" /\ \A x \in Runs : x < r => past[x].status # "none"}

\* a chat, a job of the scheduler, a worker's turn in a roundtable or a task of a batch;
\* the engine takes one run per session
LaunchIn(r, kind, of, s) ==
  /\ ~IsRunning(s)
  /\ past' = [past EXCEPT ![r] = [NotRun EXCEPT !.status = "running", !.kind = kind, !.of = of,
                                               !.in = s, !.started = today]]
  /\ alive' = alive \cup {r}
  /\ tasks' = IF of = "task" THEN tasks \cup {r} ELSE tasks
BeginRun == /\ \E r \in New, s \in Talks :
                 \E o \in {<<"chat", "none">>, <<"scheduled", "job">>, <<"worker", "none">>,
                           <<"chat", "task">>} : LaunchIn(r, o[1], o[2], s)
            /\ UNCHANGED <<setting, today, panel>>
EndRunAs(r, status) == /\ r \in alive /\ alive' = alive \ {r}
                       /\ past' = [past EXCEPT ![r].status = status]
                       /\ UNCHANGED <<tasks, setting, today, panel>>

\* mark_superseded, then a new attempt in the same session for the same job
ResumeOffered(r) ==
  /\ Edits /\ Accepts(r)
  /\ \E n \in New :
       /\ past' = [past EXCEPT ![r].status = "superseded",
                               ![n] = [past[r] EXCEPT !.status = "running", !.started = today,
                                                      !.dismissed = FALSE]]
       /\ alive' = alive \cup {n}
  /\ UNCHANGED <<tasks, setting, today>>

Interrupted(r) == past[r].status = "interrupted" /\ ~past[r].dismissed
\* (mutant) whatever is shown
InterruptedOrPaused(r) == past[r].status \in {"interrupted", "paused"} /\ ~past[r].dismissed
Dismissable(r) == past[r].status = "interrupted" /\ ~past[r].dismissed
Hide(S) == [r \in Runs |-> IF r \in S THEN [past[r] EXCEPT !.dismissed = TRUE] ELSE past[r]]
Dismiss(r) == /\ Edits /\ Interrupted(r) /\ past' = Hide({r})
              /\ UNCHANGED <<alive, tasks, setting, today>>
DismissAll == /\ Edits /\ past' = Hide({r \in Runs : Dismissable(r)})
              /\ UNCHANGED <<alive, tasks, setting, today>>

\* the kanban tool and the board delete any task
DeleteTaskRow(r) == /\ Edits /\ r \in tasks /\ tasks' = tasks \ {r}
                    /\ UNCHANGED <<past, alive, setting, today>>
ChangeSetting == /\ Edits /\ setting' \in [auto : BOOLEAN, days : {0, 1}]
                 /\ UNCHANGED <<past, alive, tasks, today>>
NextDay == /\ today < panel.days /\ today' = today + 1
           /\ UNCHANGED <<past, alive, tasks, setting, panel>>

\* (mutant) the runs in progress are left as they are
OrphansLeft == past
\* mark_orphans_interrupted; a worker's run keeps its status
Orphans == [r \in Runs |->
  IF past[r].status = "running" /\ ResumableKind(past[r].kind)
  THEN [past[r] EXCEPT !.status = "interrupted"] ELSE past[r]]
\* sweep_expired_interruptions
Expired(row) == row.status = "interrupted" /\ ~row.dismissed /\ row.started < Cutoff
Restart ==
  /\ panel.restarts > 0 /\ panel' = [panel EXCEPT !.restarts = @ - 1]
  /\ past' = [r \in Runs |-> IF Expired(Orphans[r]) THEN [Orphans[r] EXCEPT !.dismissed = TRUE]
                             ELSE Orphans[r]]
  /\ alive' = {}
  /\ UNCHANGED <<tasks, setting, today>>

PanelNext ==
  \/ BeginRun \/ DismissAll \/ ChangeSetting \/ NextDay \/ Restart
  \/ \E r \in Runs : \/ \E status \in {"completed", "paused"} : EndRunAs(r, status)
                     \/ ResumeOffered(r) \/ Dismiss(r) \/ DeleteTaskRow(r)
PanelSpec == PanelInit /\ [][PanelNext]_panelVars
-----------------------------------------------------------------------------
\* whatever the panel offers can be resumed, as soon as nothing runs in its session
OfferedResumes == \A r \in Offered : IsRunning(past[r].in) \/ Accepts(r)

\* what the user paused is offered until it is resumed: no dismissal, no retention and
\* no restart takes it away, only newer entries can push it out of the panel
PausedIsOffered == \A r \in Of("paused") : ResumableKind(past[r].kind) /\ ~OfTask(r) => Recoverable(r)

\* a chat or job that a restart cut off is known as such: after a restart nothing that
\* could be resumed still counts as running
RestartAdopts ==
  [][panel'.restarts < panel.restarts
       => \A r \in Of("running") : ResumableKind(past[r].kind) => past'[r].status = "interrupted"]_panelVars

\* The panel tells the truth: what it offers can be resumed, what was paused stays
\* on offer, and a restart finds everything it cut off.
OffersAreTrue == []OfferedResumes /\ []PausedIsOffered /\ RestartAdopts
=============================================================================
