SPECIFICATION Spec
CONSTANTS
  a = a
  b = b
  O = O
  Client <- MCClient
  Owner = O
  Pairs <- Chain
  Mortal <- Nobody
  LastInt32 = 2
  BatchLen = 2
  Tries = 2
  MaxEvent <- TwiceOnce
  MaxWires = 1
  MaxFailures = 0
  MaxDeaths = 0
INVARIANTS
  NothingLeaks
CHECK_DEADLOCK FALSE
