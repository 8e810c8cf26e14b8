CONSTANTS
  Requests = {r, q}
  Devices = {"mac"}
  Screens = {"mac"}
  Ttl = 1
  KeepClosed = 1
  MaxOpen = 1
  MaxTime = 2
  MaxPresses = 0
  MaxRestarts = 1
SPECIFICATION FairSpec
CHECK_DEADLOCK FALSE
INVARIANTS HeldIsCurrent ClosedIsAnnouncedOnce
PROPERTIES ScreenLetsGo
