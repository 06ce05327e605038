SPECIFICATION Spec
CONSTANTS
  t1 = t1
  t2 = t2
  p1 = p1
  p2 = p2
  p3 = p3
  Task <- TwoTasks
  Pane <- TwoPanes
  Order <- BoardOrder
  NoTask = NoTask
  NoPane = NoPane
  Foreign = Foreign
  MaxWorkers = 1
  MaxPrompts = 1
  MaxSpawnAttempts = 1
  DeadWorkerStreak = 1
  MaxWorkerDeaths = 1
  Faults = {"board"}
  Acts = {"dispatch", "foreign", "human"}
  MaxRestarts = 1
  Verify = FALSE
  Stuck = {}
  Codex = {t2}
INVARIANTS SpawnIsReserved 
PROPERTIES SpawnWithinCap ReservationKept
SYMMETRY PaneSymmetry
