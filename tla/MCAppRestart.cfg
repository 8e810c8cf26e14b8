CONSTANTS
  Plans = {"both", "one"}
  Machines = {"mini", "book"}
  Targets <- MCTargets
  Controller = "book"
  Calls = {c1, c2}
  MaxPids = 3
  MaxMisses = 1
  MaxMishaps = 2
SPECIFICATION Spec
CHECK_DEADLOCK FALSE
INVARIANTS OneHelper OneByOne ArrivalIsNew VerdictIsWritten
