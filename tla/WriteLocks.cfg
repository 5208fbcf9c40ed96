SPECIFICATION FairSpec
CONSTANTS
  Op = {r1, r2, r3}
  Vault = Vault
  Structure = Structure
  DocA = DocA
  Key = {Vault, Structure, DocA}
  None = None
  Rank <- MCRank
  Footprints <- MCFootprints
INVARIANTS
  MutualExclusion
  FirstComeFirstServed
  TailIsLastCaller
  WaiterCountExact
PROPERTIES
  EveryRequestEnds
  ChainsAreQueues
CHECK_DEADLOCK FALSE
