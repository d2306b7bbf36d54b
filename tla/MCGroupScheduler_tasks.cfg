\* One command on tasks or batches at any moment, with the sweeper running:
\* t1 is approved with its submission, t2 depends on it and waits for approval.
CONSTANTS
  t1 = t1  t2 = t2  t3 = t3  w1 = w1  w2 = w2  w3 = w3  b1 = b1  b2 = b2
  a1 = a1  s1 = s1  s2 = s2
  Tasks = {t1, t2}
  Workers = {w1}
  Batches = {b1, b2}
  Procs = {p1, p2, p3}
  Agents = {a1}
  Skills = {s1, s2}
  NoTask = NoTask  NoWorker = NoWorker  NoBatch = NoBatch
  NoProc = NoProc  NoAgent = NoAgent
  BatchOf <- TwoBatches
  InitDeps <- Chain
  InitWorker <- Unassigned
  Need <- NoNeed
  InitSeat <- Staffed
  Present = {w1}
  AgentSkills <- SkilledAgents
  AutoApprove <- FirstAuto
  Commands = {"approve", "retry", "reassign", "skip", "attach", "cancel"}
  Faults = {}
  Sweeping = TRUE
  MaxCommands = 1
  MaxFaults = 0
SYMMETRY ProcSymmetry
SPECIFICATION Spec
INVARIANTS
  InProgressIsOwned
PROPERTIES
  OwnerToldOnce
CHECK_DEADLOCK FALSE
