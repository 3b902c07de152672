SPECIFICATION Spec
CONSTANTS
  DirectorySize = 1
  ForceToDisk = TRUE
  Spills = FALSE
  CrashPoints = {"off","up","403","101","open","102","103","104","105","restore","dropOld","read","501","501old","501new","502","503","dropNew"}
  BootCrashPoints = {"open","102","103","502","503"}
  FailurePoints = {"101"}
  MaxUpdates = 3
  MaxCrashes = 4
  MaxFailures = 1
INVARIANTS
  TypeOK
  Durable
  ReplayedOnce
PROPERTIES
  ImplementsStore
