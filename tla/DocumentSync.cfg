SPECIFICATION FairSpec
CONSTANTS
  Text = {A, B, C}
  InitialText = A
  Typed = {A, B}
  Foreign = {A, C}
  Gone = Gone
  None = None
  MaxEdits = 2
  MaxExternal = 2
  MaxAssists = 1
  MaxFailures = 1
  MaxBarriers = 1
  MaxChoices = 2
  MaxLogouts = 1
  MaxEvents = 4
INVARIANTS
  TypeOK
  TimeMeansText
  DraftKept
  IdleMeansSavedOrKept
  BarrierQuiet
  LogoutKeepsText
PROPERTIES
  UserTextKept
  EditSettles
