--------------------------- MODULE ApprovalBroker ---------------------------
(***************************************************************************)
(* The approval broker (agent/approval.rs).  A run that needs a human's    *)
(* word registers a request and waits on a one-shot channel; the user      *)
(* answers by the request's id, in bulk, or (a deprecated command) by      *)
(* session.  Ids are never reused: a request is its run and the count of   *)
(* what that run has asked so far.                                         *)
(***************************************************************************)
EXTENDS Naturals, AgentIds

CONSTANTS Sessions, Tools,
          HighRisk      \* the tools of RiskLevel::High

ASSUME HighRiskAssumption == HighRisk \subseteq Tools

Decisions == {"accept", "edit", "respond", "ignore"}
Requests == [run : Runs, n : Nat, session : Sessions, tool : Tools]

VARIABLES
  pending,     \* the map of undecided requests
  box,         \* box[r]: "deaf" without a receiver, "empty", or the decision sent
  exempt       \* <<session, tool>> pairs the user no longer wants to see

brokerVars == <<pending, box, exempt>>

BrokerInit ==
  /\ pending = {} /\ exempt = {}
  /\ box = [r \in Runs |-> "deaf"]

Register(q) ==
  /\ pending' = pending \cup {q}
  /\ box' = [box EXCEPT ![q.run] = "empty"]
  /\ exempt' = exempt

\* every request of qs that is still pending is taken out of the map and its
\* channel gets the decision, if somebody still listens
Deliver(qs, d) ==
  /\ pending' = pending \ qs
  /\ box' = [r \in Runs |-> IF box[r] # "deaf" /\ \E q \in qs \cap pending : q.run = r
                            THEN d ELSE box[r]]
  /\ exempt' = exempt

\* r stops listening: with the decision in hand, or at the timeout, when
\* whatever is sent to it from here on is lost
Deafen(r) == box' = [box EXCEPT ![r] = "deaf"] /\ UNCHANGED <<pending, exempt>>

\* the second half of the timeout
Withdraw(r) ==
  /\ pending' = {q \in pending : q.run # r}
  /\ UNCHANGED <<box, exempt>>

Exempt(s, t) == exempt' = exempt \cup {<<s, t>>} /\ UNCHANGED <<pending, box>>

\* (mutant) what a bulk acceptance may touch is not looked at
BulkAll(qs) == qs
\* decide_approval_batch leaves out what its snapshot of the map calls high risk
BulkSafe(qs) == qs \ {q \in pending : q.tool \in HighRisk}

BrokerLost ==
  /\ pending' = {} /\ exempt' = {}
  /\ box' = [r \in Runs |-> "deaf"]
=============================================================================
