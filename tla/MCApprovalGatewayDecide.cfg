CONSTANTS
  Requests = {r}
  Devices = {"mac", "phone"}
  Screens = {"mac"}
  Ttl = 1
  KeepClosed = 1
  MaxOpen = 1
  MaxTime = 3
  MaxPresses = 2
  MaxRestarts = 1
SPECIFICATION Spec
CHECK_DEADLOCK FALSE
INVARIANTS OneWinner NotRefusedForKey
