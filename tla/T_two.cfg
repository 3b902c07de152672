SPECIFICATION Spec
CONSTANTS
  Main = main
  Thread = {main, a}
  Mutex = {m}
  Cond = {c}
  Nil = nil
  Preemption = TRUE
  ForkYieldRatio = 1
  MaxSuspend = 1
  Ops = {"Fork","Exit","Join","AlertJoin","Wait","AlertWait","Acquire","Release","Signal","Broadcast","Alert","TestAlert","Yield","Pause","AlertPause","IOWait","IOAlertWait","Suspend"}
INVARIANTS
  TypeOK
  QueuesMatchStates
  RingHasAll
  DeadlockIsReal
PROPERTIES
  SuspendedStay
  WokenForCause
  WaitRelocks
