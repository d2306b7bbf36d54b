\* The scheduler alone: a batch of a chain and an independent task, two
\* workers, a user who presses launch once, and one crash, at any point.
CONSTANTS
  t1 = t1  t2 = t2  t3 = t3  w1 = w1  w2 = w2  w3 = w3  b1 = b1  b2 = b2
  a1 = a1  s1 = s1  s2 = s2
  Tasks = {t1, t2, t3}
  Workers = {w1, w2}
  Batches = {b1}
  Procs = {p1, p2, p3}
  Agents = {a1}
  Skills = {s1, s2}
  NoTask = NoTask  NoWorker = NoWorker  NoBatch = NoBatch
  NoProc = NoProc  NoAgent = NoAgent
  BatchOf <- OneBatch
  InitDeps <- Chain
  InitWorker <- OneEach
  Need <- NoNeed
  InitSeat <- Staffed
  Present = {w1, w2}
  AgentSkills <- SkilledAgents
  AutoApprove <- AllAuto
  Commands = {"launch"}
  Faults = {"crash"}
  Sweeping = FALSE
  MaxCommands = 1
  MaxFaults = 1
SYMMETRY ProcSymmetry
SPECIFICATION Spec
INVARIANTS
  TypeOK
  DependenciesRespected
  SingleRun
  MutualExclusion
PROPERTIES
  TerminalIsFinal
  LeasesAreExclusive
CHECK_DEADLOCK FALSE
