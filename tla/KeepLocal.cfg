SPECIFICATION Spec
CONSTANTS
  Text = {A, B, C}
  InitialText = A
  Typed = {A, B}
  Foreign = {A, C}
  Gone = Gone
  None = None
  MaxEdits = 2
  MaxExternal = 1
  MaxAssists = 0
  MaxFailures = 0
  MaxBarriers = 0
  MaxChoices = 1
  MaxLogouts = 0
  MaxEvents = 4
INVARIANTS
  IdleMeansSaved
