------------------------------- MODULE Plans -------------------------------
(***************************************************************************)
(* The list of todos a run shows: whether a run plans at all and what it   *)
(* makes of the plan it gets (agent/plan.rs, agent/engine.rs), and how the *)
(* loop ticks the list off, one entry per round                            *)
(* (agent/engine/engine_loop.rs).                                          *)
(***************************************************************************)
EXTENDS Integers, FiniteSets, SequencesExt

CONSTANT PlanKits   \* the run's message, the planner's answer, first and last iteration
ASSUME PlanConstants == \A k \in PlanKits : /\ k.from \in Nat /\ k.most \in Nat
                                           /\ k.answer.items \in Seq(BOOLEAN)

VARIABLES
  planKit,
  planStage,     \* "plan", "propose", "top", "llm", "round", or how the run ended
  todos,         \* status of each entry
  iteration,
  failedRounds,  \* rounds in a row that failed entirely
  outcomesSoFar  \* of the rounds, for the properties
planVars == <<planKit, planStage, todos, iteration, failedRounds, outcomesSoFar>>

MaxFailedRounds == 2
-----------------------------------------------------------------------------
\* should_skip_planning: a short line that names no several steps
ShouldSkip(m) == m.empty \/ ~(m.lines \/ m.long \/ m.steps)
\* runs approved beforehand, workers' sessions and resumed runs do not plan
SkipsPlanning == planKit.auto \/ planKit.from > 0 \/ ShouldSkip(planKit.message)

\* how many entries have a title
Titled(items) == Cardinality({i \in DOMAIN items : items[i]})
\* (mutant) a plan of nothing but a proposal is one
PlanWithoutTodos(answer) ==
  [todos |-> Titled(answer.items), proposal |-> TRUE \in ToSet(answer.options)]
NoPlan == [todos |-> 0, proposal |-> FALSE]
\* parse_plan, parse_proposal: entries and options without a title are left out; without
\* entries there is no plan, without options no proposal
ParsePlan(answer) ==
  IF ~answer.parses \/ Titled(answer.items) = 0 THEN NoPlan
  ELSE [todos |-> Titled(answer.items), proposal |-> TRUE \in ToSet(answer.options)]

PlansInit ==
  /\ planKit \in PlanKits
  /\ planStage = "plan"
  /\ todos = <<>>
  /\ iteration = planKit.from
  /\ failedRounds = 0
  /\ outcomesSoFar = <<>>

\* plan_turn; a planner that fails leaves the run without a plan
PlanTurn ==
  /\ planStage = "plan"
  /\ LET got == IF SkipsPlanning THEN NoPlan ELSE ParsePlan(planKit.answer)
     IN  /\ todos' = [i \in 1 .. got.todos |-> "pending"]
         /\ planStage' = IF got.proposal THEN "propose" ELSE "top"
  /\ UNCHANGED <<planKit, iteration, failedRounds, outcomesSoFar>>
\* the proposal is chosen from, answered with words of the user's own, or rejected, as it is
\* when nobody answers in time
DecideProposal ==
  /\ planStage = "propose"
  /\ planStage' \in {"top", "rejected"}
  /\ UNCHANGED <<planKit, todos, iteration, failedRounds, outcomesSoFar>>
-----------------------------------------------------------------------------
Index == iteration - planKit.from + 1
Mark(i, status) == [j \in DOMAIN todos |-> IF j = i THEN status ELSE todos[j]]

\* the top of the loop: out of iterations, cancelled, paused, or on with the next entry
TopOfLoop ==
  /\ planStage = "top"
  /\ \/ /\ planStage' = "llm" /\ iteration < planKit.most
        /\ todos' = Mark(Index, "active")
     \/ /\ planStage' = "exhausted" /\ iteration >= planKit.most
        /\ UNCHANGED todos
     \/ /\ planStage' \in {"cancelled", "paused"} /\ iteration < planKit.most
        /\ UNCHANGED todos
  /\ UNCHANGED <<planKit, iteration, failedRounds, outcomesSoFar>>

\* (mutant) the answer counts for the whole list
FinalizeDone(ts) == [i \in DOMAIN ts |-> "done"]
\* finalize_todos_on_text
FinalizeTodos(ts) == [i \in DOMAIN ts |-> IF ts[i] = "done" THEN "done" ELSE "failed"]
\* what the model says: an answer ends the run, calls make a round, an error or a
\* cancellation fails the entry; a call that takes too long ends the run and leaves the
\* list alone
LlmAnswers ==
  /\ planStage = "llm"
  /\ \/ planStage' = "text" /\ todos' = FinalizeTodos(todos)
     \/ planStage' \in {"round", "timed out"} /\ UNCHANGED todos
     \/ planStage' \in {"error", "cancelled"} /\ todos' = Mark(Index, "failed")
  /\ UNCHANGED <<planKit, iteration, failedRounds, outcomesSoFar>>

\* (mutant) only a round that failed entirely fails its entry
StatusAfterAll(o) == IF o = "all" THEN "failed" ELSE "done"
\* the entry of a round failed if any of its calls did
StatusAfter(o) == IF o \in {"all", "some"} THEN "failed" ELSE "done"
\* (mutant) all of the list fails
FailAll(ts) == [i \in DOMAIN ts |-> "failed"]
\* two rounds that failed entirely end the run: what is not done from here on failed
FailRest(ts) == [i \in DOMAIN ts |-> IF i >= Index /\ ts[i] # "done" THEN "failed" ELSE ts[i]]
RoundEnds(o) ==
  LET marked == Mark(Index, StatusAfter(o))
      stops == o = "all" /\ failedRounds + 1 >= MaxFailedRounds
  IN  /\ planStage = "round"
      /\ outcomesSoFar' = Append(outcomesSoFar, o)
      /\ failedRounds' = IF o = "all" THEN failedRounds + 1 ELSE 0
      /\ todos' = IF stops THEN FailRest(marked) ELSE marked
      /\ planStage' = IF stops THEN "stopped" ELSE "top"
      /\ iteration' = iteration + 1
      /\ UNCHANGED planKit
EndRound == \E o \in {"ok", "some", "all"} : RoundEnds(o)

\* run_guarded: a panic anywhere ends the run, and nobody looks at the list again
Panic ==
  /\ planStage \in {"plan", "propose", "top", "llm", "round"}
  /\ planStage' = "panicked"
  /\ UNCHANGED <<planKit, todos, iteration, failedRounds, outcomesSoFar>>

PlansNext == PlanTurn \/ DecideProposal \/ TopOfLoop \/ LlmAnswers \/ EndRound \/ Panic
PlansSpec == PlansInit /\ [][PlansNext]_planVars
-----------------------------------------------------------------------------
Positions(status) == {i \in DOMAIN todos : todos[i] = status}
Rounds == Len(outcomesSoFar)
\* What the list says is what happened: an entry is done if and only if the round at its
\* place had no failed call, and stays so however the run ends; the entry of the call under
\* way is the only active one, and none is when the run is over, save the one at which the
\* model took too long or the run panicked; after an answer or two failed rounds nothing is
\* open, and otherwise what was never begun still is (the tests of
\* finalize_todos_on_text). A run with a proposal has a list, and a run that was resumed has
\* none, whatever the planner would say.
TodosTell ==
  /\ Positions("done") = {i \in DOMAIN todos : i <= Rounds /\ outcomesSoFar[i] = "ok"}
  /\ planStage # "panicked" =>
       Positions("active") =
         {i \in DOMAIN todos : planStage \in {"llm", "round", "timed out"} /\ i = Index}
  /\ planStage = "panicked" => Positions("active") \subseteq {Index}
  /\ planStage \in {"text", "stopped"} => Positions("pending") = {}
  /\ planStage \notin {"text", "stopped"} => {i \in DOMAIN todos : i > Rounds + 1} \subseteq Positions("pending")
  /\ planStage \in {"paused", "exhausted", "top"} => Positions("pending") = {i \in DOMAIN todos : i > Rounds}
  /\ planStage = "propose" => todos # <<>>
  /\ planKit.from > 0 => todos = <<>>
=============================================================================
