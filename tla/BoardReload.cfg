SPECIFICATION Spec
CONSTANTS
  Tab = {t1, t2}
  None = None
  MaxEdits = 2
  MaxLoads = 3
  MaxFailures = 0
  MaxCrashes = 0
  MaxEvents = 4
INVARIANTS
  ReloadForgets
