SPECIFICATION FairSpec
CONSTANTS
  Main = main
  Thread = {main, a}
  Mutex = {m}
  Cond = {c}
  Nil = nil
  Preemption = TRUE
  ForkYieldRatio = 5
  MaxSuspend = 0
  Ops = {"Fork","Exit","AlertJoin","AlertWait","Acquire","Alert","Pause","IOWait"}
PROPERTIES
  AlertEndsWait
  JoinReturns
  PauseEnds
