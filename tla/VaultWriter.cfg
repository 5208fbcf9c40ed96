SPECIFICATION FairSpec
CONSTANTS
  p1 = p1
  p2 = p2
  p3 = p3
  p4 = p4
  Proc <- FourProcs
  Host <- TwoHosts
  Pid <- ReusedPid
  Stops <- SomeStops
  None = None
INVARIANTS
  SoleWriter
  RecordProtectsWriter
PROPERTIES
  StartEnds
