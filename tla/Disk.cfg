SPECIFICATION Spec
CONSTANTS
  NumOps = 2
  MaxExternal = 2
  MaxCrashes = 2
  MaxPasses = 16
  Writers = {"create", "rename", "inplace", "handle", "delete"}
  Kinds = {"replace", "create", "remove"}
  LinkMayFail = TRUE
  None = None
INVARIANTS
  TypeOK
  ExternalBytesKeptElsewhere
  PathShowsDocumentOrAside
PROPERTIES
  ReplacesOnlyExpected
  RecoveryShowsDocumentOrRetains
  RecoveryFinishes
