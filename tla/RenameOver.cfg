SPECIFICATION Spec
CONSTANTS
  NumOps = 1
  MaxExternal = 1
  MaxCrashes = 0
  MaxPasses = 16
  Writers = {"rename"}
  Kinds = {"replace"}
  LinkMayFail = FALSE
  None = None
INVARIANTS
  PathShowsDocument
