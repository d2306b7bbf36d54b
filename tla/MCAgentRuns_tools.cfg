\* Two runs in two sessions write one file: directories and writes fail, a run
\* panics, the auto-approve switch flips, and nobody answers an approval.
CONSTANTS
  r1 = r1  r2 = r2  r3 = r3
  s1 = s1  s2 = s2
  f1 = f1  none = none
  NoRun = none  NoFile = none
  NoTool = none  NoSession = none
  Runs <- TwoRuns
  Sessions <- TwoSessions
  Tools = {"write_file"}
  HighRisk = {"write_file"}
  Files = {f1}
  MaxIters = 2
  MaxCalls = 1
  MaxCrashes = 0
  Commands = {"auto"}
  Faults = {"mkdir","write","panic"}
  Overlaps = {}
  Endings = {"completed"}
SPECIFICATION FairSpec
INVARIANTS FinishedRunsLeaveNothing
PROPERTIES FileLogSound EveryRunEnds
