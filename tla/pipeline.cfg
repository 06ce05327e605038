\* Two tasks that share a number, an operator who opens and closes
\* panes, and moves his own.
SPECIFICATION Spec
CONSTANTS
  t1 = t1
  t2 = t2
  Tasks <- TwoTasks
  Seq <- SameNumber
  MaxPanesPerTab = 2
  Drags = FALSE
  MaxPanes = 4
  MaxMoves = 1
  MaxRestarts = 1
SYMMETRY Alike
INVARIANTS
  TypeOK
  WorkerInOwnTab
  NoWorkerUnaccounted
  SettingsOwned
  BaseIsNoWorker
PROPERTIES
  TabCloseSpares
  LiveBaseStays
CHECK_DEADLOCK FALSE
