----------------------------- MODULE WriteGate -----------------------------
(***************************************************************************)
(* The write gate (agent/write_gate.rs): which run may write which file.   *)
(* The gate is one map under a lock; every operator is one critical        *)
(* section.  Paths are normalised before they are looked up, so a file is  *)
(* one element of Files whatever path names it.                            *)
(***************************************************************************)
EXTENDS AgentIds

CONSTANT Files

VARIABLE held     \* held[f]: the run that may write f, or NoRun

GateInit == held = [f \in Files |-> NoRun]

\* (mutant) nobody is refused
RefusesNobody(f, r) == f \notin Files
\* the holder itself is let through again
Refuses(f, r) == held[f] \notin {NoRun, r}
BeginWrite(f, r) == ~Refuses(f, r) /\ held' = [held EXCEPT ![f] = r]

\* the second half of commit_write, after the recorder has returned
EndWrite(f, r) == held' = [held EXCEPT ![f] = IF @ = r THEN NoRun ELSE @]

\* (mutant) nothing is released
ReleaseNothing(r) == r \in Runs /\ held' = held
ReleaseRun(r) == held' = [f \in Files |-> IF held[f] = r THEN NoRun ELSE held[f]]

GateLost == held' = [f \in Files |-> NoRun]
=============================================================================
