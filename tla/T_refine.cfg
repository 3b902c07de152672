SPECIFICATION Spec
CONSTANTS
  Main = main
  Thread = {main, a, b}
  Mutex = {m}
  Cond = {c}
  Nil = nil
  Preemption = TRUE
  ForkYieldRatio = 5
  MaxSuspend = 0
  Ops = {"Fork","AlertWait","Acquire","Release","Signal","Broadcast","Alert"}
INVARIANTS
  LockedByHolder
  NoLostUnlock
PROPERTIES
  ImplementsThread
SYMMETRY Symmetry
