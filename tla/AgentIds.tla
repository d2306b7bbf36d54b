------------------------------ MODULE AgentIds ------------------------------
(* What the parts of the agent core have in common: the ids of runs.       *)
CONSTANTS
  Runs,     \* run ids (run_guarded draws a fresh uuid for every run)
  NoRun     \* no run

ASSUME NoRunAssumption == NoRun \notin Runs
=============================================================================
