CONSTANTS
  Requests = {r}
  MayCut = {r}
  Mirrors = TRUE
  Pane <- MCPane
  Ttl = 1
  KeepClosed = 1
  BrokerTtl = 2
  MaxMisses = 1
  MaxTime = 4
  MaxFaults = 2
SPECIFICATION FairSpec
CHECK_DEADLOCK FALSE
INVARIANTS NoSleeperMissesAnswer RemoteAnswerWasGiven WithdrawalUnderWay
PROPERTIES KeepsOneAnswer HookReturns DecisionArrives
