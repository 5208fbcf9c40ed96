SPECIFICATION Spec
CONSTANTS
  NumOps = 1
  MaxExternal = 2
  MaxCrashes = 1
  MaxPasses = 16
  Writers = {"create", "inplace"}
  Kinds = {"remove"}
  LinkMayFail = FALSE
  None = None
INVARIANTS
  ExternalBytesKept
