SPECIFICATION Spec
CONSTANTS
  a = a
  b = b
  O = O
  Client <- MCClient
  Owner = O
  Pairs <- Chain
  Mortal <- JustB
  LastInt32 = 2
  BatchLen = 2
  Tries = 2
  MaxEvent <- TwiceOnce
  MaxWires = 2
  MaxFailures = 1
  MaxDeaths = 1
INVARIANTS
  TypeOK
  PinsCounted
  SurrogatesHold
  NeverDies
  DirtyHasReason
PROPERTIES
  ImplementsRemoteObject
CHECK_DEADLOCK FALSE
