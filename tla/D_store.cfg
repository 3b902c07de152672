SPECIFICATION Spec
CONSTANTS
  Absent = Absent
  Torn = Torn
  Pad = TRUE
  PageSize = 4
  IntBytes = 2
  Sizes = {1, 4}
  WideUnforced = FALSE
  FailurePoints = {"writeSnapshot", "deleteNewVersion", "recover"}
  MaxPages = 1
  MaxUpdates = 2
  MaxVersions = 3
  MaxCrashes = 2
  MaxFailures = 1
INVARIANTS
  TypeOK
  Durable
  RecoverySucceeds
PROPERTIES
  ImplementsDatabase
