\* Every part that has to come to an end, one at a time.
CONSTANTS
  Focuses = {"chat", "ledger", "mcp", "llm", "executor", "startup", "reminders", "automation"}
  m1 = m1
  m2 = m2
  Members = {m1, m2}
  Owner = owner
  Everyone = everyone
  NoPolicy = nopolicy
  Policy <- MeshPolicy
  MaxMentionDepth = 1
  Kits <- WaitingKits
  LedgerRuns = {"r1", "r2"}
  LedgerKits <- SmallLedgers
  FlushBatch = 2
  Calls = {"c1", "c2", "c3"}
  McpKits <- SmallServers
  StreamKits <- CutAnswers
  MaxChunk = 3
  RunKits <- SmallAgents
  BootKits <- SmallBoots
  Events = {"e1", "e2"}
  LastMinute = 2
  AgendaKits <- SmallAgendas
  Period = 2
  Slots = {1, 2}
  JobKits <- SmallJobs
SPECIFICATION ProgressSpec
INVARIANTS
  RingsOnce
  LedgerKept
  ServersKept
  ExecutorSettles
PROPERTIES
  StartsWhole
  WaitsEnd
  DueHappens
CHECK_DEADLOCK FALSE
