SPECIFICATION Spec
CONSTANTS
  Tab = {t1, t2}
  None = None
  MaxEdits = 2
  MaxLoads = 3
  MaxFailures = 1
  MaxCrashes = 1
  MaxEvents = 4
INVARIANTS
  CheckpointFitsBase
  SavedMeansServed
  WorkKept
  NothingStalls
PROPERTIES
  CommittedEditsKept
SYMMETRY Tabs
