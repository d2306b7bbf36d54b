\* A turn of the roundtable frees a worker whose run is still going on.
CONSTANTS
  t1 = t1  t2 = t2  t3 = t3  w1 = w1  w2 = w2  w3 = w3  b1 = b1  b2 = b2
  a1 = a1  s1 = s1  s2 = s2
  Tasks = {t1, t2}
  Workers = {w1}
  Batches = {b1, b2}
  Procs = {p1, p2, p3}
  Agents = {a1}
  Skills = {s1, s2}
  NoTask = NoTask  NoWorker = NoWorker  NoBatch = NoBatch
  NoProc = NoProc  NoAgent = NoAgent
  BatchOf <- TwoBatches
  InitDeps <- NoDeps
  InitWorker <- AllToW1
  Need <- NoNeed
  InitSeat <- Staffed
  Present = {w1}
  AgentSkills <- SkilledAgents
  AutoApprove <- AllAuto
  Commands = {"chat"}
  Faults = {}
  Sweeping = FALSE
  MaxCommands = 1
  MaxFaults = 0
SYMMETRY ProcSymmetry
SPECIFICATION Spec
INVARIANTS
  MutualExclusion
CHECK_DEADLOCK FALSE
