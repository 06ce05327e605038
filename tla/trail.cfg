\* One consumer that asks for everything, for two events, or from a
\* millisecond on; failed saves, one restart, a trail of two events.
SPECIFICATION Spec
CONSTANTS
  f1 = f1
  f2 = f2
  Followers <- OneFollower
  Stalled <- NobodyStalls
  Queries <- EveryQuery
  MaxEvents = 2
  MaxWritten = 4
  MaxMS = 2
  MaxRestarts = 1
INVARIANTS
  TypeOK
  TrailIsNewest
PROPERTIES
  Promise
  LimitBoundsTheStream
CHECK_DEADLOCK FALSE
