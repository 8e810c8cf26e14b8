CONSTANTS
  Slots = {"a", "b"}
  Named = {"a"}
  Chosen = {"b"}
  Logins = {1}
  People = {"ann", "bob"}
  OwnerOf <- MCOwnerOf
  Nobody = Nobody
  Known = {}
  Life = 2
  Ahead = 2
  OfferLeft = 1
  SealLeft = 0
  ClaudeLeft = 0
  LineageTtl = 0
  Surprises = TRUE
  MaxTime = 2
  MaxRotations = 2
  MaxFaults = 0
SPECIFICATION Spec
CHECK_DEADLOCK FALSE

PROPERTIES OfferKeepsLogin
