SPECIFICATION Spec
CONSTANTS
  d1 = d1
  d2 = d2
  d3 = d3
  c1 = c1
  c2 = c2
  c3 = c3
  NoDaemon = NoDaemon
  NoCall = NoCall
  Daemon <- ThreeLives
  Call <- ThreeCalls
  Scenarios <- Deferred
  Gate <- DefersDispatch
  Faults = {}
  Straddles = TRUE
INVARIANTS OneDaemon
CHECK_DEADLOCK FALSE
