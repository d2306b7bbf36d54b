\* Three tasks, t2 after t1, for one worker, with pauses and resumes: whatever may
\* be dispatched eventually is, by the run that gives the worker back if need be.
CONSTANTS
  t1 = t1  t2 = t2  t3 = t3  w1 = w1  w2 = w2  w3 = w3  b1 = b1  b2 = b2
  a1 = a1  s1 = s1  s2 = s2
  Tasks = {t1, t2, t3}
  Workers = {w1}
  Batches = {b1}
  Procs = {p1, p2}
  Agents = {a1}
  Skills = {s1, s2}
  NoTask = NoTask  NoWorker = NoWorker  NoBatch = NoBatch
  NoProc = NoProc  NoAgent = NoAgent
  BatchOf <- OneBatch
  InitDeps <- Chain
  InitWorker <- Unassigned
  Need <- NoNeed
  InitSeat <- Staffed
  Present = {w1}
  AgentSkills <- SkilledAgents
  AutoApprove <- AllAuto
  Commands = {"pause", "resume"}
  Faults = {}
  Sweeping = FALSE
  MaxCommands = 2
  MaxFaults = 0
SPECIFICATION FairSpec
PROPERTIES
  EventuallyDispatched
CHECK_DEADLOCK FALSE
