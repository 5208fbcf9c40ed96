SPECIFICATION Spec
CONSTANTS
  Tab = {t1, t2}
  None = None
  MaxEdits = 2
  MaxLoads = 2
  MaxFailures = 0
  MaxCrashes = 0
  MaxEvents = 2
INVARIANTS
  ConflictKeepsCheckpoint
