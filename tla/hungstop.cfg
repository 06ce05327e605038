SPECIFICATION LiveSpec
CONSTANTS
  d1 = d1
  d2 = d2
  d3 = d3
  c1 = c1
  c2 = c2
  c3 = c3
  NoDaemon = NoDaemon
  NoCall = NoCall
  Daemon <- OneLife
  Call <- TwoCalls
  Scenarios <- StopDeferred
  Gate <- DefersStop
  Faults = {}
  Straddles = FALSE
PROPERTIES StopEnds
CHECK_DEADLOCK FALSE
