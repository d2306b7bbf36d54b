---------------------------- MODULE UserRecords ----------------------------
(***************************************************************************)
(* What a user sets up and expects to find again: agents and the groups    *)
(* they sit in, skills, chats that were made groups, and notes.  Each has  *)
(* tables and files of its own; the models meet in nothing but the user,   *)
(* so what is done to one may fall between any two steps of another.       *)
(***************************************************************************)
EXTENDS Catalog, Skills, Upgrades, Memory

\* the four side by side
RecordsSpec == CatalogSpec /\ SkillsSpec /\ UpgradesSpec /\ MemorySpec

\* What was set up stays as it was left: edits and restrictions of agents, seats under
\* their policy, skills and what is said of them, the talk of a chat that became a
\* group, and notes (commands/agent.rs, group/manager.rs, skill/manager.rs,
\* commands/upgrade.rs, agent/tools/memory.rs).
RecordsKept == CatalogKept /\ SkillsAccounted /\ UpgradeKeepsTalk /\ MemoryKept
=============================================================================
