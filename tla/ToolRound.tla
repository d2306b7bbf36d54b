----------------------------- MODULE ToolRound -----------------------------
(***************************************************************************)
(* One round of tool calls (engine/engine_toolrun.rs): the model asked for *)
(* several tools at once.  A round of read-only calls that nobody has to   *)
(* allow runs up to four of them side by side and writes everything down   *)
(* afterwards; any other round goes call by call, asks the user where the  *)
(* permissions (agent/permission.rs), the skill's budget (skill/budget.rs) *)
(* and the exemptions leave it to them, and writes a call down before it   *)
(* runs.                                                                   *)
(***************************************************************************)
EXTENDS Naturals, Sequences, FiniteSets

CONSTANTS
  RoundKits,    \* the rounds: calls, who runs them, what is configured
  SkillTools,   \* the tools of each skill: those named skill__<id>__<tool>
  MaxParallel   \* MAX_PARALLEL_TOOLS

ASSUME ParallelAssumption == MaxParallel \in Nat \ {0}
ASSUME SkillsAssumption ==
  \A s, z \in DOMAIN SkillTools : s # z => SkillTools[s] \cap SkillTools[z] = {}
\* a round has a call; the answers a kit prescribes are of tools somebody serves
ASSUME RoundsAssumption ==
  \A r \in RoundKits :
    /\ r.calls \in Seq(STRING) /\ r.calls # <<>>
    /\ r.limit \in [DOMAIN SkillTools -> Nat] /\ r.used \in [DOMAIN SkillTools -> Nat]
    /\ r.providers \in Seq(SUBSET STRING)
    /\ \A i \in DOMAIN r.calls :
         r.answers[i] # "any" => \E p \in DOMAIN r.providers : r.calls[i] \in r.providers[p]

VARIABLES
  round,      \* the round's constants, chosen at the start
  roundAt,    \* where the round is
  nth,        \* the call in hand, or the first of the chunk
  perm,       \* what decide said of it, and what became of that
  told,       \* parts_at, and the outcome of the call in hand
  messages,   \* what the next request to the model will hold
  steps,      \* the ledger's steps of the round
  invoked,        \* calls whose tool was invoked
  exemptNow,  \* tools the user exempted meanwhile
  spent,      \* elapsed_ms recorded for each skill in this run
  failed      \* failed_count

roundVars == <<round, roundAt, nth, perm, told, messages, steps, invoked, exemptNow, spent, failed>>

Calls == round.calls
CallsOf == DOMAIN Calls
ReadOnly == {"read_file", "read_text_file", "list_dir", "get_weather", "read_state"}
\* risk_class
Safe == {"read_file", "write_file", "list_dir", "get_weather", "assign_tasks", "read_state",
         "update_state", "kanban"}
Dangerous == {"run_shell", "update_memory"}
Outcomes == {"ok", "failed", "unavailable", "timeout"}
NotYet == "none"
Unlimited == 1000   \* a budget without a limit
Result(i) == [call |-> i, what |-> told[i]]
Request(i) == [call |-> i, what |-> "call"]

RoundInit ==
  /\ round \in RoundKits
  /\ roundAt = "plan" /\ nth = 1 /\ perm = "none"
  /\ told = [i \in DOMAIN round.calls |-> NotYet]
  /\ messages = <<>> /\ steps = <<>> /\ invoked = {} /\ exemptNow = {}
  /\ spent = round.used /\ failed = 0
-----------------------------------------------------------------------------
(***************************************************************************)
(* Whether a call may run.                                                 *)
(***************************************************************************)
\* the first override for the tool with the session's scope; a worker's session
\* of either kind also answers to "worker"
Exact(t) == {i \in DOMAIN round.overrides :
               /\ round.overrides[i].tool = t
               /\ \/ round.overrides[i].scope = round.kind
                  \/ round.kind # "user" /\ round.overrides[i].scope = "worker"}
Wildcard(t) == {i \in DOMAIN round.overrides :
                  round.overrides[i].tool = t /\ round.overrides[i].scope = "all"}
First(is) == round.overrides[CHOOSE i \in is : \A j \in is : i <= j].action

\* the matrix of a session without overrides
ByRisk(t) ==
  CASE t \in Safe -> "allow"
    [] t \in Dangerous -> "deny"
    [] OTHER -> IF round.kind = "attended_worker" THEN "ask" ELSE "deny"
Decide(t) ==
  CASE Exact(t) # {} -> First(Exact(t))
    [] Exact(t) = {} /\ Wildcard(t) # {} -> First(Wildcard(t))
    [] OTHER -> IF round.kind # "user" THEN ByRisk(t)
                ELSE IF round.auto THEN "allow" ELSE "ask"

\* (mutant) a budget is exceeded when it is reached
ExceededAt(limit, usage) == usage >= limit
\* evaluate, for the one dimension that is ever recorded
Exceeded(limit, usage) == usage > limit
\* skill_id_of: a skill has many tools, each with a permission of its own
IsSkill(t) == \E s \in DOMAIN SkillTools : t \in SkillTools[s]
SkillOf(t) == CHOOSE s \in DOMAIN SkillTools : t \in SkillTools[s]
GetBudget(s) == round.limit[s]
GetUsage(s) == spent[s]
\* check: a tool of a skill whose budget for this run is used up, by whichever of its tools
OverBudget(t) == IsSkill(t) /\ Exceeded(GetBudget(SkillOf(t)), GetUsage(SkillOf(t)))
Exempt(t) == t \in round.exempt \cup exemptNow
\* decide, then the budget, which makes a question of any answer, a denial too, then
\* the user's exemptions
Permission(t) ==
  LET p == IF OverBudget(t) THEN "ask" ELSE Decide(t)
  IN  IF p = "ask" /\ Exempt(t) THEN "allow" ELSE p
\* ToolScope::allows
InScope(t) ==
  CASE round.scope.allow = "all" -> TRUE
    [] round.scope.allow = "only" -> t \in round.scope.tools
    [] round.scope.allow = "all_except" -> t \notin round.scope.tools

\* (mutant) the first call speaks for the others
ParallelByFirst ==
  /\ Len(Calls) > 1 /\ \A i \in CallsOf : Calls[i] \in ReadOnly
  /\ Permission(Calls[1]) = "allow" /\ InScope(Calls[1])
UseParallel ==
  /\ Len(Calls) > 1 /\ \A i \in CallsOf : Calls[i] \in ReadOnly
  /\ \A i \in CallsOf : Permission(Calls[i]) = "allow" /\ InScope(Calls[i])
\* rebuild, invoke of the tool plane: the first provider that listed the name
\* when the catalog was built, 0 when none did; a server that was down then
\* stays out of it
Provider(t) ==
  LET listing == {p \in DOMAIN round.providers : t \in round.providers[p]}
  IN  IF listing = {} THEN 0 ELSE CHOOSE p \in listing : \A q \in listing : p <= q
-----------------------------------------------------------------------------
(***************************************************************************)
(* Writing down.                                                           *)
(***************************************************************************)
\* record_tool_step: the outcome with who let the call through
StepRow(i, how) == [call |-> i, outcome |-> told[i], how |-> how]
\* record_usage: a skill pays for the time since its call came up, the wait for
\* the user included
RecordUsage(s, elapsed) == spent' = [spent EXCEPT ![s] = @ + elapsed]
Pays(t, asked) ==
  IF IsSkill(t) THEN RecordUsage(SkillOf(t), IF asked THEN 2 ELSE 1) ELSE UNCHANGED spent
CountsFailed(i) == IF told[i] = "ok" THEN 0 ELSE 1

Plan ==
  /\ roundAt = "plan"
  /\ \/ UseParallel /\ roundAt' = "chunk"
     \/ ~UseParallel /\ roundAt' = "call"
  /\ UNCHANGED <<round, nth, perm, told, messages, steps, invoked, exemptNow, spent, failed>>
-----------------------------------------------------------------------------
(***************************************************************************)
(* Side by side.                                                           *)
(***************************************************************************)
Chunk == {i \in CallsOf : i >= nth /\ i < nth + MaxParallel}
StartChunk ==
  /\ roundAt = "chunk"
  /\ invoked' = invoked \cup Chunk /\ roundAt' = "running"
  /\ UNCHANGED <<round, nth, perm, told, messages, steps, exemptNow, spent, failed>>
\* (mutant) a result goes to the first place that is free
FinishAtFirst(i, what) ==
  told' = [told EXCEPT ![CHOOSE j \in Chunk : told[j] = NotYet
                                              /\ \A k \in Chunk : told[k] = NotYet => j <= k] = what]
\* a tool of the chunk returns, in whatever order, and its result goes to its place
Finish(i, what) == told' = [told EXCEPT ![i] = what]
\* what the tool of call i answers; the kits tell the answers apart, so that a
\* mix-up shows
Answer(i) ==
  IF Provider(Calls[i]) = 0 THEN {"unavailable"}
  ELSE {what \in Outcomes : round.answers[i] = "any" \/ what = round.answers[i]}
FinishOne(i) ==
  /\ roundAt = "running" /\ i \in Chunk /\ told[i] = NotYet
  /\ \E what \in Answer(i) : Finish(i, what)
  /\ UNCHANGED <<round, roundAt, nth, perm, messages, steps, invoked, exemptNow, spent, failed>>
\* join_all: the next chunk starts when all of this one are back
NextChunk ==
  /\ roundAt = "running" /\ \A i \in Chunk : told[i] # NotYet
  /\ \/ nth + MaxParallel <= Len(Calls) /\ nth' = nth + MaxParallel /\ roundAt' = "chunk"
     \/ nth + MaxParallel > Len(Calls) /\ nth' = 1 /\ roundAt' = "persist"
  /\ UNCHANGED <<round, perm, told, messages, steps, invoked, exemptNow, spent, failed>>
\* the call, its step and its result, in the order the model asked
PersistParallel ==
  /\ roundAt = "persist"
  /\ messages' = messages \o <<Request(nth), Result(nth)>>
  /\ steps' = Append(steps, StepRow(nth, "auto"))
  /\ failed' = failed + CountsFailed(nth)
  /\ nth' = nth + 1
  /\ roundAt' = IF nth = Len(Calls) THEN "over" ELSE "persist"
  /\ UNCHANGED <<round, perm, told, invoked, exemptNow, spent>>
-----------------------------------------------------------------------------
(***************************************************************************)
(* Call by call.                                                           *)
(***************************************************************************)
\* the call is written down, and the permission made out
StoreCall ==
  /\ roundAt = "call"
  /\ messages' = Append(messages, Request(nth))
  /\ perm' = Permission(Calls[nth])
  /\ roundAt' = IF InScope(Calls[nth]) THEN "permit" ELSE "skip"
  /\ told' = IF InScope(Calls[nth]) THEN told ELSE [told EXCEPT ![nth] = "out of scope"]
  /\ UNCHANGED <<round, nth, steps, invoked, exemptNow, spent, failed>>
Permit ==
  /\ roundAt = "permit"
  /\ \/ /\ perm = "allow" /\ roundAt' = "invoke" /\ perm' = "auto" /\ told' = told
     \/ /\ perm = "deny" /\ roundAt' = "skip" /\ perm' = perm
        /\ told' = [told EXCEPT ![nth] = "denied"]
     \/ /\ perm = "ask" /\ roundAt' = "asked" /\ perm' = perm /\ told' = told
  /\ UNCHANGED <<round, nth, messages, steps, invoked, exemptNow, spent, failed>>
\* await_decision; with an acceptance the user may exempt the tool from now on
Decision ==
  /\ roundAt = "asked"
  /\ \/ /\ roundAt' = "invoke" /\ told' = told
        /\ \E how \in {"accept", "edit"} : perm' = how
        /\ exemptNow' \in {exemptNow, exemptNow \cup {Calls[nth]}}
     \/ /\ roundAt' = "skip" /\ told' = [told EXCEPT ![nth] = "declined"]
        /\ \E how \in {"respond", "ignore", "timeout"} : perm' = how
        /\ exemptNow' = exemptNow
  /\ UNCHANGED <<round, nth, messages, steps, invoked, spent, failed>>
\* a call that was not let through: its message, its step, not counted as failed
Skip ==
  /\ roundAt = "skip"
  /\ messages' = Append(messages, Result(nth))
  /\ steps' = Append(steps, StepRow(nth, IF told[nth] = "declined" THEN perm ELSE "nobody"))
  /\ nth' = nth + 1 /\ perm' = "none"
  /\ roundAt' = IF nth = Len(Calls) THEN "over" ELSE "call"
  /\ UNCHANGED <<round, told, invoked, exemptNow, spent, failed>>
InvokeOne ==
  /\ roundAt = "invoke"
  /\ invoked' = invoked \cup {nth} /\ roundAt' = "invoked"
  /\ \E what \in Answer(nth) : Finish(nth, what)
  /\ UNCHANGED <<round, nth, perm, messages, steps, exemptNow, spent, failed>>
StoreResult ==
  /\ roundAt = "invoked"
  /\ messages' = Append(messages, Result(nth))
  /\ steps' = Append(steps, StepRow(nth, perm))
  /\ Pays(Calls[nth], perm # "auto")
  /\ failed' = failed + CountsFailed(nth)
  /\ nth' = nth + 1 /\ perm' = "none"
  /\ roundAt' = IF nth = Len(Calls) THEN "over" ELSE "call"
  /\ UNCHANGED <<round, told, invoked, exemptNow>>

RoundNext ==
  \/ Plan \/ StartChunk \/ NextChunk \/ PersistParallel
  \/ \E i \in CallsOf : FinishOne(i)
  \/ StoreCall \/ Permit \/ Decision \/ Skip \/ InvokeOne \/ StoreResult
RoundSpec == RoundInit /\ [][RoundNext]_roundVars
-----------------------------------------------------------------------------
\* Every call is followed by its own result, in the order the model asked for
\* them, whichever tool came back first: a provider refuses any other history.
ReplyInOrder ==
  \A n \in DOMAIN messages :
    LET i == (n + 1) \div 2
    IN  IF n % 2 = 1 THEN messages[n] = Request(i)
        ELSE /\ messages[n].call = i
             /\ i \in invoked /\ round.answers[i] # "any"
                  => messages[n].what = round.answers[i]

\* What the policy denies runs only when it is a tool of a skill that has used its
\* budget up, which makes a question of the denial (ADR-018); then the user or an
\* exemption let it through, as they must any tool of that skill. What is out of scope
\* never runs.
UsedUp(t) == \E s \in DOMAIN SkillTools : t \in SkillTools[s] /\ spent[s] > round.limit[s]
DeniedOnlyOverBudget ==
  /\ \A i \in invoked :
       InScope(Calls[i]) /\ (Decide(Calls[i]) = "deny" => IsSkill(Calls[i]))
  /\ roundAt \in {"invoke", "invoked"} =>
       /\ Decide(Calls[nth]) = "deny" => UsedUp(Calls[nth])
       /\ UsedUp(Calls[nth]) /\ perm = "auto" => Exempt(Calls[nth])

\* A call that is not allowed runs only when a user said so, for it or for its
\* tool, and its step says which; nobody's call runs unseen among others.
RanByPermission ==
  \A n \in DOMAIN steps :
    LET t == Calls[steps[n].call]
    IN  /\ steps[n].call \in invoked
             => \/ steps[n].how = "auto" /\ (Decide(t) = "allow" \/ Exempt(t))
                \/ steps[n].how \in {"accept", "edit"}
        /\ steps[n].call \notin invoked => steps[n].how \notin {"auto", "accept", "edit"}

\* A round of tool calls, side by side or one by one: the policy, the budget, the
\* exemptions and the user decide what runs, and each call gets its own result.
CallsByPermission == ReplyInOrder /\ DeniedOnlyOverBudget /\ RanByPermission

\* A skill that used up its budget is put to the user, never let through in
\* silence (docs/architecture-collab-agent-m2-2026-08-03.md).
BudgetAsks ==
  [][roundAt = "permit" /\ roundAt' = "invoke" => ~OverBudget(Calls[nth])]_roundVars
=============================================================================
