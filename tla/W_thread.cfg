SPECIFICATION Spec
CONSTANTS
  Main = main
  Thread = {main, a, b}
  Mutex = {m}
  Cond = {c}
  threadMu = threadMu
  Nil = nil
  CSectCacheSize = 1
  LastSlot = 19
  MainOps = {"Fork","Join","AlertJoin","TestAlert","Broadcast","Signal","Alert","AlertPause","Collect"}
  Ops = {"Acquire","Exit","AlertWait","Wait","Release","Alert","Signal","Collect"}
INVARIANTS
  TypeOK
  NeverDies
  JoinersWoken
PROPERTIES
  ImplementsThread
CHECK_DEADLOCK FALSE
SYMMETRY Symmetry
