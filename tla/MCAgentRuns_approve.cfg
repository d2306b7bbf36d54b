\* Two runs ask for a harmless and a high-risk tool while the user answers one by
\* one, in bulk or late, exempts tools and rejects plans.
CONSTANTS
  r1 = r1  r2 = r2  r3 = r3
  s1 = s1  s2 = s2
  f1 = f1  none = none
  NoRun = none  NoFile = none
  NoTool = none  NoSession = none
  Runs <- TwoRuns
  Sessions <- TwoSessions
  Tools = {"look","write_file"}
  HighRisk = {"write_file"}
  Files = {f1}
  MaxIters = 1
  MaxCalls = 1
  MaxCrashes = 0
  Commands = {"decide","bulk","exempt","propose"}
  Faults = {"load","torn"}
  Overlaps = {}
  Endings = {"timed_out","truncated"}
SYMMETRY RunSymmetry
SPECIFICATION Spec
INVARIANTS TypeOK ApprovedByHuman
