SPECIFICATION Spec
CONSTANTS
  t1 = t1
  t2 = t2
  p1 = p1
  p2 = p2
  p3 = p3
  Task <- OneTask
  Pane <- ThreePanes
  Order <- BoardOrder
  NoTask = NoTask
  NoPane = NoPane
  Foreign = Foreign
  MaxWorkers = 1
  MaxPrompts = 2
  MaxSpawnAttempts = 2
  DeadWorkerStreak = 2
  MaxWorkerDeaths = 2
  Faults = {"spawn", "board", "herdr", "remove", "sweep", "flaky", "adopt"}
  Acts = {"reject", "cancel", "foreign", "human", "release", "amend", "die", "close", "rebase"}
  MaxRestarts = 2
  Verify = TRUE
  Stuck = {}
  Codex = {}
INVARIANTS TypeOK OnePanePerTask CheckoutOutlivesPane NoWorkerAfterDeaths StreakEndsWithBinding
PROPERTY KeepsTheFleet
SYMMETRY PaneSymmetry
