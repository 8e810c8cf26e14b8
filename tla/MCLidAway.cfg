CONSTANTS
  Quiet = 2
  Retry = 1
  Stale = 3
  Cap = 4
SPECIFICATION FairSpec
INVARIANTS BlockIsWatched
PROPERTIES NotCutShort BlockIsReleased KeepsItAsleep
