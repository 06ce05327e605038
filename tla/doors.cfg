SPECIFICATION LiveSpec
CONSTANTS
  d1 = d1
  d2 = d2
  d3 = d3
  c1 = c1
  c2 = c2
  c3 = c3
  NoDaemon = NoDaemon
  NoCall = NoCall
  Daemon <- TwoLives
  Call <- ThreeCalls
  Scenarios <- Mixed
  Gate <- AnyDispatch
  Faults = {"signal", "kill", "adopt", "verb"}
  Straddles = FALSE
INVARIANTS TypeOK OneDaemon SocketLeads StopIsAnswered
PROPERTIES Decides StopEnds
CHECK_DEADLOCK FALSE
