CONSTANTS
  Requests = {r1, r2}
  None = None
  MaxTokens = 3
  MaxRotations = 1
  MaxChanges = 1
SPECIFICATION Spec
SYMMETRY Alike
CHECK_DEADLOCK FALSE
INVARIANTS RetryIsOwn OneLookAtATime RoundIsHeard
