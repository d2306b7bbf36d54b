\* A batch is announced complete only when it is: cancellations, the sweeper,
\* stalls, aborted submissions and dispatches that fail after their claim.
CONSTANTS
  t1 = t1  t2 = t2  t3 = t3  w1 = w1  w2 = w2  w3 = w3  b1 = b1  b2 = b2
  a1 = a1  s1 = s1  s2 = s2
  Tasks = {t1, t2}
  Workers = {w1, w2}
  Batches = {b1}
  Procs = {p1, p2}
  Agents = {a1}
  Skills = {s1, s2}
  NoTask = NoTask  NoWorker = NoWorker  NoBatch = NoBatch
  NoProc = NoProc  NoAgent = NoAgent
  BatchOf <- OneBatch
  InitDeps <- Chain
  InitWorker <- FirstToW1
  Need <- NoNeed
  InitSeat <- Staffed
  Present = {w1, w2}
  AgentSkills <- SkilledAgents
  AutoApprove <- AllAuto
  Commands = {"cancel"}
  Faults = {"stall", "store", "session"}
  Sweeping = TRUE
  MaxCommands = 1
  MaxFaults = 2
SYMMETRY ProcSymmetry
SPECIFICATION Spec
INVARIANTS
  AnnouncedIsTerminal
CHECK_DEADLOCK FALSE
