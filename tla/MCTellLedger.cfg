CONSTANTS
  Ids <- MCIds
  Addresses <- MCAddresses
  SurfaceOf <- MCSurfaceOf
  Bodies <- MCBodies
  IssuedAt <- MCIssuedAt
  Machines <- MCMachines
  Lifetime = 2
  Ttl = 1
  Skew = 1
  HoldReasons = {"draft"}
  MaxTime = 3
CHECK_DEADLOCK FALSE
SPECIFICATION Spec
INVARIANTS AtMostOneWrite DispatchHasWorker AckedIsKept FailedIsUnwritten
PROPERTIES FinalStays KeepsPromise
