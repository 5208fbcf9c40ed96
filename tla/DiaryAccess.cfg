SPECIFICATION OrderedSpec
CONSTANTS
  s1 = s1
  s2 = s2
  r1 = r1
  r2 = r2
  r3 = r3
  b1 = b1
  c1 = c1
  Session = {s1, s2}
  Req = {r1, r2, r3}
  Body = {b1}
  Closer = {c1}
  Logouts = {c1}
  SessionOf <- TwoSessions
  Earlier = Earlier
  None = None
  Concurrency = 1
  MaxQueue = 1
CHECK_DEADLOCK FALSE
INVARIANTS
  LeaseStaysCurrent
  LockFencesEarlierCalls
  LockReturnsDrained
  OneLiveCapability
  KeyIsStored
  NoStrayKey
  GuardHoldsWaiters
PROPERTIES
  ImplementsGate
  LocksReturn
  UnlocksAnswered
  ExpiredKeysWiped
