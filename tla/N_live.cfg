SPECIFICATION FairSpec
CONSTANTS
  a = a
  b = b
  O = O
  Client <- MCClient
  Owner = O
  Pairs <- Diamond
  Mortal <- JustB
  LastInt32 = 2
  BatchLen = 2
  Tries = 2
  MaxEvent <- OnceEach
  MaxWires = 1
  MaxFailures = 1
  MaxDeaths = 0
PROPERTIES
  FindEnds
  Collected
CHECK_DEADLOCK FALSE
