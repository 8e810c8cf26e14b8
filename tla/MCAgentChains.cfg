CONSTANTS
  Slots = {"a", "b"}
  Named = {"a"}
  Chosen = {"b"}
  Logins = {1, 2, 3}
  People = {"ann", "bob"}
  OwnerOf <- MCOwnerOf
  Nobody = Nobody
  Known = {2}
  Life = 2
  Ahead = 2
  OfferLeft = 1
  SealLeft = 0
  ClaudeLeft = 0
  LineageTtl = 0
  Surprises = FALSE
  MaxTime = 2
  MaxRotations = 2
  MaxFaults = 1
SPECIFICATION FairSpec
CHECK_DEADLOCK FALSE
INVARIANTS OwnerIsRight
PROPERTIES SlotKeepsPerson HandOverKeepsLogin SlotFollows
