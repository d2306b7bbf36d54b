\* Three runs of one session: started, paused, cancelled, lost in one crash and
\* resumed.
CONSTANTS
  r1 = r1  r2 = r2  r3 = r3
  s1 = s1  s2 = s2
  f1 = f1  none = none
  NoRun = none  NoFile = none
  NoTool = none  NoSession = none
  Runs <- ThreeRuns
  Sessions <- OneSession
  Tools = {"look"}
  HighRisk = {}
  Files = {}
  MaxIters = 2
  MaxCalls = 1
  MaxCrashes = 1
  Commands = {"pause","cancel","resume"}
  Faults = {}
  Overlaps = {}
  Endings = {"completed"}
SYMMETRY RunSymmetry
SPECIFICATION Spec
INVARIANTS Reachable RowsAreTrue
