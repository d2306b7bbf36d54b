\* Restart frees only pre-assigned workers.
CONSTANTS
  t1 = t1  t2 = t2  t3 = t3  w1 = w1  w2 = w2  w3 = w3  b1 = b1  b2 = b2
  a1 = a1  s1 = s1  s2 = s2
  Tasks = {t1}
  Workers = {w1}
  Batches = {b1}
  Procs = {p1, p2, p3}
  Agents = {a1}
  Skills = {s1, s2}
  NoTask = NoTask  NoWorker = NoWorker  NoBatch = NoBatch
  NoProc = NoProc  NoAgent = NoAgent
  BatchOf <- OneBatch
  InitDeps <- NoDeps
  InitWorker <- Unassigned
  Need <- NoNeed
  InitSeat <- Staffed
  Present = {w1}
  AgentSkills <- SkilledAgents
  AutoApprove <- AllAuto
  Commands = {}
  Faults = {"crash"}
  Sweeping = TRUE
  MaxCommands = 0
  MaxFaults = 1
SPECIFICATION FairSpec
PROPERTIES
  WorkerReclaimed
CHECK_DEADLOCK FALSE
