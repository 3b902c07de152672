SPECIFICATION FairSpec
CONSTANTS
  Main = main
  Thread = {main, a, b}
  Mutex = {m}
  Cond = {c}
  Nil = nil
  Preemption = TRUE
  ForkYieldRatio = 5
  MaxSuspend = 0
  Ops = {"Fork","Yield","Exit","Acquire","Release"}
PROPERTIES
  EveryoneRuns
