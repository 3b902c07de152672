SPECIFICATION Spec
CONSTANTS
  DirectorySize = 0
  ForceToDisk = FALSE
  Spills = TRUE
  CrashPoints = {"off","up","403","101","open","102","103","104","105","restore","dropOld","read","501","501old","501new","502","503"}
  BootCrashPoints = {"open","102","103","502","503"}
  FailurePoints = {"101"}
  MaxUpdates = 3
  MaxCrashes = 3
  MaxFailures = 1
INVARIANTS
  Durable
  RecoverySucceeds
PROPERTIES
  ImplementsStore
