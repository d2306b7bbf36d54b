---------------------------- MODULE MCAgentRuns ----------------------------
(* Small instances of AgentRuns. *)
EXTENDS AgentRuns, TLC

CONSTANTS r1, r2, r3, s1, s2, f1, none

TwoRuns == {r1, r2}
ThreeRuns == {r1, r2, r3}
OneSession == {s1}
TwoSessions == {s1, s2}

\* runs have fresh ids and sessions have no order (sound where only states are judged)
RunSymmetry == Permutations(Runs) \cup Permutations(Sessions)
=============================================================================
