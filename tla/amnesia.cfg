SPECIFICATION Spec
CONSTANTS
  t1 = t1
  t2 = t2
  p1 = p1
  p2 = p2
  p3 = p3
  Task <- OneTask
  Pane <- TwoPanes
  Order <- BoardOrder
  NoTask = NoTask
  NoPane = NoPane
  Foreign = Foreign
  MaxWorkers = 1
  MaxPrompts = 2
  MaxSpawnAttempts = 2
  DeadWorkerStreak = 2
  MaxWorkerDeaths = 2
  Faults = {"adopt"}
  Acts = {"die", "release"}
  MaxRestarts = 2
  Verify = FALSE
  Stuck = {}
  Codex = {}
PROPERTY DeathsKept
