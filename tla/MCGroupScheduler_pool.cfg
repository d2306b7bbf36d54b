\* One command on workers or on the group at any moment: t1 and t3 name an empty
\* capability seat, t2 goes to any idle worker.
CONSTANTS
  t1 = t1  t2 = t2  t3 = t3  w1 = w1  w2 = w2  w3 = w3  b1 = b1  b2 = b2
  a1 = a1  s1 = s1  s2 = s2
  Tasks = {t1, t2, t3}
  Workers = {w1, w2, w3}
  Batches = {b1}
  Procs = {p1, p2, p3}
  Agents = {a1}
  Skills = {s1, s2}
  NoTask = NoTask  NoWorker = NoWorker  NoBatch = NoBatch
  NoProc = NoProc  NoAgent = NoAgent
  BatchOf <- OneBatch
  InitDeps <- NoDeps
  InitWorker <- OthersToW2
  Need <- NeedT3
  InitSeat <- SeatW2
  Present = {w1}
  AgentSkills <- SkilledAgents
  AutoApprove <- AllAuto
  Commands = {"pause", "dissolve", "add_worker", "add_seat", "set_agent",
              "worker_status", "remove_worker", "set_status", "chat"}
  Faults = {"profile"}
  Sweeping = FALSE
  MaxCommands = 1
  MaxFaults = 0
SYMMETRY ProcSymmetry
SPECIFICATION Spec
INVARIANTS
  BusyIsHeld
CHECK_DEADLOCK FALSE
