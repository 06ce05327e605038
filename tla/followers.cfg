\* A consumer that reads its connection beside one that may stop reading.
SPECIFICATION FairSpec
CONSTANTS
  f1 = f1
  f2 = f2
  Followers <- TwoFollowers
  Stalled <- SecondStalls
  Queries <- WholeFeed
  MaxEvents = 2
  MaxWritten = 3
  MaxMS = 1
  MaxRestarts = 0
INVARIANTS
  NoLostWakeUp
PROPERTIES
  EventsReachFollowers
CHECK_DEADLOCK FALSE
