-------------------------- MODULE DispatcherProofs --------------------------
(* What holds of Dispatcher for every value of its constants.              *)
EXTENDS Dispatcher, TLAPS

USE DEF world, memory, tick, life

-----------------------------------------------------------------------------
(* Type correctness.  TypeOK is not inductive alone: that a count of       *)
(* refusals never passes DeadWorkerStreak, and that the tick writes only   *)
(* about real panes and tasks, rests on where the tick is; and a worker    *)
(* claims a task only because its pane was opened for one.                 *)

Spawning == {"prepare", "open", "start", "confirm", "undo", "bind", "unreserve"}
Ending == {"drop", "count", "sweep"}
Watching == {"sample", "restored"}
USE DEF Watching

Midway ==
  /\ ~up => pc = "idle"
  /\ pc \in Spawning \cup Watching => cur.task \in Task
  /\ pc \in Ending \cup Watching \cup (Spawning \ {"prepare", "open"}) => cur.pane \in Pane
  /\ \A p \in Pane : \/ missing[p] < DeadWorkerStreak
                     \/ pc = "drop" /\ cur.pane = p
  /\ \A p \in Pane : agent[p] \in Listed => work[p] \in Task

TypeInv == TypeOK /\ Midway

(* No edit the tick or the clock makes to a binding changes its task or    *)
(* leaves the type (rearm, notify, skipShot, prompt).                      *)
LEMMA BindingEdits ==
  ASSUME NEW b \in Binding, NEW kind
  PROVE  /\ Rearmed(b) \in Binding /\ Rearmed(b).task = b.task
         /\ Announced(b) \in Binding /\ Announced(b).task = b.task
         /\ Skipped(b) \in Binding /\ Skipped(b).task = b.task
         /\ Prompted(b, kind) \in Binding /\ Prompted(b, kind).task = b.task
         /\ Late(b) \in Binding /\ Late(b).task = b.task
  <1>1. Rearmed(b) \in Binding /\ Rearmed(b).task = b.task
    BY DEF Rearmed, Binding
  <1>2. Announced(b) \in Binding /\ Announced(b).task = b.task
    BY DEF Announced, Binding
  <1>3. Skipped(b) \in Binding /\ Skipped(b).task = b.task
    BY DEF Skipped, Binding
  <1>4. Prompted(b, kind) \in Binding /\ Prompted(b, kind).task = b.task
    <2>1. Bump(b.prompts) \in 0..MaxPrompts
      BY ConstantsOK DEF Bump, Binding, ConstantsOK
    <2>2. (b.verified \/ kind = "selfreview") \in BOOLEAN
      OBVIOUS
    <2> QED BY <2>1, <2>2 DEF Prompted, Binding
  <1>5. Late(b) \in Binding /\ Late(b).task = b.task
    BY DEF Late, Binding
  <1> QED BY <1>1, <1>2, <1>3, <1>4, <1>5

(* The bindings a spawn and a restart make, and the empty one.             *)
LEMMA BindingsMade ==
  /\ NoBinding \in Binding /\ NoBinding.task = NoTask
  /\ \A t \in Task \cup {NoTask} :
       NewBinding(t) \in Binding /\ NewBinding(t).task = t
  <1>1. NoBinding \in Binding /\ NoBinding.task = NoTask
    BY ConstantsOK DEF NoBinding, Binding, ConstantsOK
  <1>2. 1 \in 0..MaxPrompts
    BY ConstantsOK DEF ConstantsOK
  <1>3. ASSUME NEW t \in Task \cup {NoTask}
        PROVE  NewBinding(t) \in Binding /\ NewBinding(t).task = t
    BY <1>1, <1>2 DEF NewBinding, Binding
  <1> QED BY <1>1, <1>3

(* A pane's streak starts again (drop, promptLanded).                      *)
LEMMA StreakReset ==
  ASSUME missing \in [Pane -> 0..DeadWorkerStreak], NEW p \in Pane
  PROVE  /\ [missing EXCEPT ![p] = 0] \in [Pane -> 0..DeadWorkerStreak]
         /\ [missing EXCEPT ![p] = 0][p] < DeadWorkerStreak
         /\ \A q \in Pane \ {p} : [missing EXCEPT ![p] = 0][q] = missing[q]
  BY ConstantsOK DEF ConstantsOK

(* A pane closed, or one herdr would not close, is the only pane changed.   *)
LEMMA PaneClosed ==
  ASSUME agent \in [Pane -> AgentState], NEW p, ClosePane(p)
  PROVE  /\ agent' \in [Pane -> AgentState]
         /\ \A q \in Pane : agent'[q] \in Listed => agent[q] = agent'[q]
  BY DEF ClosePane, AgentState, Listed, Agents

(* Where the tick is, written down, is well formed.                        *)
LEMMA FocusMade ==
  /\ \A p \in Pane \cup {NoPane}, t \in Task \cup {NoTask}, d \in BOOLEAN :
       At(p, t, d) \in Focus /\ At(p, t, d).pane = p /\ At(p, t, d).task = t
  /\ None \in Focus
  BY DEF Focus, None, At

(* A reservation counted, spent or dropped, and a death counted.           *)
LEMMA TriesSet ==
  ASSUME NEW f \in [Task -> Tries], NEW t, NEW v \in Tries
  PROVE  [f EXCEPT ![t] = v] \in [Task -> Tries]
  OBVIOUS

(* The counts a reservation goes through stay in range.                    *)
LEMMA TriesRange ==
  /\ Unreserved \in Tries /\ 0 \in Tries /\ 1 \in Tries
  /\ \A n \in Tries : n < MaxSpawnAttempts => n + 1 \in Tries
  BY ConstantsOK DEF Tries, Unreserved, ConstantsOK

(* One more death is a number still.                                       *)
LEMMA DeathCounted ==
  ASSUME NEW f \in [Task -> Nat], NEW t
  PROVE  [f EXCEPT ![t] = f[t] + 1] \in [Task -> Nat]
  <1>1. CASE t \in Task
    BY <1>1
  <1>2. CASE t \notin Task
    BY <1>2
  <1> QED BY <1>1, <1>2

(* saveLocked writes a well-formed document, or none.                      *)
LEMMA SaveType ==
  ASSUME disk \in Document, bindings' \in [Pane -> Binding],
         attempts' \in [Task -> Tries], deaths' \in [Task -> Nat], Save
  PROVE  disk' \in Document
  BY DEF Save, Document

(* A tick with nothing read and nothing decided is well formed.            *)
LEMMA RowsType == NoRows \in [Task -> Row \cup {Unread}] /\ NoPlan \in [Pane -> SUBSET Kind]
  BY DEF NoRows, NoPlan

(* Clearing deaths and reading the bound rows (Tick, snapshot).            *)
LEMMA StartType ==
  ASSUME TypeInv, TickStart PROVE TypeInv'
  <1>1. deaths' \in [Task -> Nat]
    BY DEF TypeInv, TypeOK, TickStart
  <1>2. disk' \in Document
    BY <1>1, SaveType DEF TypeInv, TypeOK, TickStart
  <1>3. rows' \in [Task -> Row \cup {Unread}]
    BY DEF TypeInv, TypeOK, TickStart
  <1> QED BY <1>1, <1>2, <1>3
          DEF TypeInv, TypeOK, Midway, TickStart, Steps, Reserved, Spawning, Ending

(* Reading the ready list and dropping dead reservations (snapshot).       *)
LEMMA ReadType ==
  ASSUME TypeInv, ReadReady PROVE TypeInv'
  <1>1. attempts' \in [Task -> Tries]
    BY ConstantsOK DEF TypeInv, TypeOK, ReadReady, Tries, Unreserved, ConstantsOK
  <1>2. disk' \in Document
    BY <1>1, SaveType DEF TypeInv, TypeOK, ReadReady
  <1> QED BY <1>1, <1>2
          DEF TypeInv, TypeOK, Midway, ReadReady, Steps, Offered, Spawning, Ending

(* A snapshot that fails leaves an idle tick.                              *)
LEMMA FailType ==
  ASSUME TypeInv, TickFails PROVE TypeInv'
  BY FocusMade, RowsType
     DEF TypeInv, TypeOK, Midway, TickFails, Idle, Steps, Spawning, Ending

(* Only actions of the known kinds are decided (Decide).                   *)
LEMMA DecideType ==
  ASSUME TypeInv, Decide PROVE TypeInv'
  <1>1. plan' \in [Pane -> SUBSET Kind]
    BY DEF Decide, Verdict
  <1> QED BY <1>1, RowsType
          DEF TypeInv, TypeOK, Midway, Decide, Steps, Spawning, Ending

(* An edit of the bindings that leaves every other part of the type be.    *)
LEMMA RearmType ==
  ASSUME TypeInv, NEW p \in Pane, ApplyRearm(p) PROVE TypeInv'
  <1>1. bindings' \in [Pane -> Binding]
    BY BindingEdits DEF TypeInv, TypeOK, ApplyRearm
  <1>2. disk' \in Document
    BY <1>1, SaveType DEF TypeInv, TypeOK, ApplyRearm
  <1> QED BY <1>1, <1>2 DEF TypeInv, TypeOK, Midway, ApplyRearm, Due, Applied, Steps

(* An announcement (notify).                                               *)
LEMMA NotifyType ==
  ASSUME TypeInv, NEW p \in Pane, ApplyNotify(p) PROVE TypeInv'
  <1>1. bindings' \in [Pane -> Binding]
    <2>1. CASE UNCHANGED bindings
      BY <2>1 DEF TypeInv, TypeOK
    <2>2. CASE bindings' = [q \in Pane |-> IF SameTask(p, q) THEN Announced(bindings[q])
                                           ELSE bindings[q]]
      BY <2>2, BindingEdits DEF TypeInv, TypeOK
    <2> QED BY <2>1, <2>2 DEF ApplyNotify
  <1>2. disk' \in Document
    BY <1>1, SaveType DEF TypeInv, TypeOK, ApplyNotify
  <1> QED BY <1>1, <1>2 DEF TypeInv, TypeOK, Midway, ApplyNotify, Due, Applied, Steps

(* A shot skipped (skipShot).                                              *)
LEMMA SkipType ==
  ASSUME TypeInv, NEW p \in Pane, SkipShot(p) PROVE TypeInv'
  <1>1. bindings' \in [Pane -> Binding]
    BY BindingEdits DEF TypeInv, TypeOK, SkipShot
  <1>2. disk' \in Document
    BY <1>1, SaveType DEF TypeInv, TypeOK, SkipShot
  <1> QED BY <1>1, <1>2 DEF TypeInv, TypeOK, Midway, SkipShot, Due, Applied, Steps

(* A prompt that lands ends the pane's streak (prompt, promptLanded).      *)
LEMMA PromptType ==
  ASSUME TypeInv, NEW p \in Pane, NEW kind, PromptLands(p, kind) PROVE TypeInv'
  <1>1. bindings' \in [Pane -> Binding]
    BY BindingEdits DEF TypeInv, TypeOK, PromptLands
  <1>2. disk' \in Document
    BY <1>1, SaveType DEF TypeInv, TypeOK, PromptLands
  <1>3. missing' \in [Pane -> 0..DeadWorkerStreak] /\ 0 < DeadWorkerStreak
    BY ConstantsOK DEF TypeInv, TypeOK, PromptLands, ConstantsOK
  <1> QED BY <1>1, <1>2, <1>3
          DEF TypeInv, TypeOK, Midway, PromptLands, Prompts, Due, Applied, Steps

(* A refused prompt: the streak grows to DeadWorkerStreak, no further.     *)
LEMMA MissingType ==
  ASSUME TypeInv, NEW p \in Pane, NEW kind, AgentMissing(p, kind) PROVE TypeInv'
  <1>1. missing[p] < DeadWorkerStreak
    BY DEF TypeInv, Midway, AgentMissing, Prompts, Due
  <1>2. missing' \in [Pane -> 0..DeadWorkerStreak]
    BY <1>1, ConstantsOK DEF TypeInv, TypeOK, AgentMissing, ConstantsOK
  <1>3. bindings[p].task \in Task \cup {NoTask}
    BY DEF TypeInv, TypeOK, Binding
  <1>4. cur' \in Focus
    <2>1. cur \in Focus
      BY DEF TypeInv, TypeOK
    <2>2. UNCHANGED cur \/ cur' = At(p, bindings[p].task, TRUE)
      BY DEF AgentMissing
    <2> QED BY <1>3, <2>1, <2>2, FocusMade
  <1>5. /\ agent' \in [Pane -> AgentState]
        /\ \A q \in Pane : agent'[q] \in Listed => agent[q] = agent'[q]
    <2>1. UNCHANGED agent \/ ClosePane(p)
      BY DEF AgentMissing
    <2>2. agent \in [Pane -> AgentState]
      BY DEF TypeInv, TypeOK
    <2> QED BY <2>1, <2>2, PaneClosed
  <1>6. TypeOK'
    BY <1>2, <1>4, <1>5 DEF TypeInv, TypeOK, AgentMissing, Prompts, Due, Applied, Steps
  <1>7. CASE missing'[p] < DeadWorkerStreak
    BY <1>7, <1>5, <1>6 DEF TypeInv, TypeOK, Midway, AgentMissing, Prompts, Due
  <1>8. CASE ~(missing'[p] < DeadWorkerStreak)
    <2>1. pc' = "drop" /\ cur'.pane = p
      BY <1>8 DEF AgentMissing, At
    <2>2. \A q \in Pane \ {p} : missing'[q] = missing[q] /\ missing[q] < DeadWorkerStreak
      BY DEF TypeInv, TypeOK, Midway, AgentMissing, Prompts, Due
    <2>3. UNCHANGED <<up, work>> /\ pc = "act"
      BY DEF AgentMissing, Prompts, Due
    <2> QED BY <2>1, <2>2, <2>3, <1>5, <1>6 DEF TypeInv, Midway, Spawning, Ending
  <1> QED BY <1>7, <1>8

(* A prompt that fails otherwise changes nothing.                          *)
LEMMA PromptFailsType ==
  ASSUME TypeInv, NEW p \in Pane, NEW kind, PromptFails(p, kind) PROVE TypeInv'
  BY DEF TypeInv, TypeOK, Midway, PromptFails, Prompts, Due, Applied

(* A retire closes a real pane (retire).                                   *)
LEMMA RetireType ==
  ASSUME TypeInv, NEW p \in Pane, ApplyRetire(p) PROVE TypeInv'
  <1>1. bindings[p].task \in Task \cup {NoTask}
    BY DEF TypeInv, TypeOK, Binding
  <1>2. cur' \in Focus /\ cur'.pane = p
    BY <1>1, FocusMade DEF ApplyRetire
  <1>3. /\ agent' \in [Pane -> AgentState]
        /\ \A q \in Pane : agent'[q] \in Listed => agent[q] = agent'[q]
    BY PaneClosed DEF TypeInv, TypeOK, ApplyRetire
  <1>4. TypeOK'
    BY <1>2, <1>3 DEF TypeInv, TypeOK, ApplyRetire, Due, Applied, Steps
  <1>5. pc' = "drop" /\ pc = "act" /\ UNCHANGED <<up, work, missing>>
    BY DEF ApplyRetire, Due
  <1> QED BY <1>2, <1>3, <1>4, <1>5 DEF TypeInv, Midway, Spawning, Ending

(* The binding dropped after it (drop).                                    *)
LEMMA FinishRetireType ==
  ASSUME TypeInv, FinishRetire PROVE TypeInv'
  <1>1. cur.pane \in Pane
    BY DEF TypeInv, Midway, FinishRetire, Ending
  <1>2. bindings' \in [Pane -> Binding]
    BY BindingsMade DEF TypeInv, TypeOK, FinishRetire, Drop
  <1>3. disk' \in Document
    BY <1>2, SaveType DEF TypeInv, TypeOK, FinishRetire
  <1>4. missing' \in [Pane -> 0..DeadWorkerStreak]
    BY <1>1, StreakReset DEF TypeInv, TypeOK, FinishRetire, Drop
  <1>5. \A p \in Pane : missing'[p] < DeadWorkerStreak
    BY <1>1, StreakReset DEF TypeInv, TypeOK, Midway, FinishRetire, Drop
  <1> QED BY <1>1, <1>2, <1>3, <1>4, <1>5, FocusMade
          DEF TypeInv, TypeOK, Midway, FinishRetire, Drop, RemoveTree, Steps, Spawning, Ending

(* A worker's death counted (countDeathLocked).                            *)
LEMMA CountType ==
  ASSUME TypeInv, CountDeath PROVE TypeInv'
  <1>1. deaths' \in [Task -> Nat]
    BY DeathCounted DEF TypeInv, TypeOK, CountDeath
  <1>2. disk' \in Document
    BY <1>1, SaveType DEF TypeInv, TypeOK, CountDeath
  <1> QED BY <1>1, <1>2, FocusMade
          DEF TypeInv, TypeOK, Midway, CountDeath, Steps, Spawning, Ending

(* An unbind (apply, drop).                                                *)
LEMMA UnbindType ==
  ASSUME TypeInv, NEW p \in Pane, ApplyUnbind(p) PROVE TypeInv'
  <1>1. bindings[p].task \in Task \cup {NoTask}
    BY DEF TypeInv, TypeOK, Binding
  <1>2. cur' \in Focus /\ cur'.pane = p
    BY <1>1, FocusMade DEF ApplyUnbind
  <1>3. bindings' \in [Pane -> Binding]
    BY BindingsMade DEF TypeInv, TypeOK, ApplyUnbind, Drop
  <1>4. disk' \in Document
    BY <1>3, SaveType DEF TypeInv, TypeOK, ApplyUnbind
  <1>5. missing' \in [Pane -> 0..DeadWorkerStreak]
    BY StreakReset DEF TypeInv, TypeOK, ApplyUnbind, Drop
  <1>6. \A q \in Pane : missing'[q] < DeadWorkerStreak
    BY StreakReset DEF TypeInv, TypeOK, Midway, ApplyUnbind, Drop, Due
  <1> QED BY <1>2, <1>3, <1>4, <1>5, <1>6
          DEF TypeInv, TypeOK, Midway, ApplyUnbind, Drop, RemoveTree, Due, Applied,
              Steps, Spawning, Ending

(* Claims handed back leave a board.                                       *)
LEMMA HandedBackType ==
  ASSUME board \in [Task -> Row], NEW panes
  PROVE  HandedBack(panes) \in [Task -> Row]
  BY DEF HandedBack, Row, Todo

(* A claim swept (sweep).                                                  *)
LEMMA SweepType ==
  ASSUME TypeInv, SweepClaim PROVE TypeInv'
  BY HandedBackType, FocusMade
     DEF TypeInv, TypeOK, Midway, SweepClaim, SweepAsked, Steps, Spawning, Ending

(* The owed sweeps asked again (sweepOwed).                                *)
LEMMA OwedType ==
  ASSUME TypeInv, SweepOwed PROVE TypeInv'
  BY HandedBackType, FocusMade, RowsType
     DEF TypeInv, TypeOK, Midway, SweepOwed, Idle, Steps, Spawning, Ending

(* A try counted, or a spent reservation dropped (attempt).                *)
LEMMA TakeSlotType ==
  ASSUME TypeInv, NEW t \in Task, TakeSlot(t) PROVE TypeInv'
  <1>1. CASE Spent(t)
    <2>1. attempts' \in [Task -> Tries]
      BY <1>1, TriesSet, TriesRange DEF TypeInv, TypeOK, TakeSlot
    <2>2. disk' \in Document
      BY <2>1, SaveType DEF TypeInv, TypeOK, TakeSlot
    <2>3. UNCHANGED <<world, life, bindings, deaths, missing, owed, rows, ready, held,
                      plan, door, unannounced, pc, cur>>
      BY <1>1 DEF TakeSlot
    <2>4. spawns' \subseteq Task
      BY DEF TypeInv, TypeOK, TakeSlot
    <2> QED BY <2>1, <2>2, <2>3, <2>4 DEF TypeInv, TypeOK, Midway
  <1>2. CASE ~Spent(t)
    <2> DEFINE n == IF attempts[t] = Unreserved THEN 1 ELSE attempts[t] + 1
    <2>1. n \in Tries
      BY <1>2, ConstantsOK DEF TypeInv, TypeOK, Spent, Tries, Unreserved, ConstantsOK
    <2>2. attempts' = [attempts EXCEPT ![t] = n]
      BY <1>2 DEF TypeInv, TypeOK, TakeSlot
    <2> HIDE DEF n
    <2>3. attempts' \in [Task -> Tries]
      BY <2>1, <2>2, TriesSet DEF TypeInv, TypeOK
    <2>4. disk' \in Document
      BY <2>3, SaveType DEF TypeInv, TypeOK, TakeSlot
    <2>5. UNCHANGED <<world, life, bindings, deaths, missing, owed, rows, ready, held,
                      plan, door, unannounced>>
      BY DEF TakeSlot
    <2>6. spawns' \subseteq Task
      BY DEF TypeInv, TypeOK, TakeSlot
    <2>7. pc = "act" /\ pc' = "prepare" /\ cur' = At(NoPane, t, FALSE)
      BY <1>2 DEF TakeSlot
    <2>8. cur' \in Focus /\ cur'.task = t
      BY <2>7, FocusMade
    <2> QED BY <2>3, <2>4, <2>5, <2>6, <2>7, <2>8
            DEF TypeInv, TypeOK, Midway, Steps, Spawning, Ending
  <1> QED BY <1>1, <1>2

(* The checkout cut (spawn).                                               *)
LEMMA CutType ==
  ASSUME TypeInv, CutCheckout PROVE TypeInv'
  BY DEF TypeInv, TypeOK, Midway, CutCheckout, Steps, Spawning, Ending

(* A spawn refused before a pane is opened.                                *)
LEMMA RefusedType ==
  ASSUME TypeInv, SpawnRefused PROVE TypeInv'
  BY FocusMade
     DEF TypeInv, TypeOK, Midway, SpawnRefused, BackToAct, Steps, Spawning, Ending

(* A pane opened for a task (place).                                       *)
LEMMA OpenType ==
  ASSUME TypeInv, NEW p \in Pane, OpenPane(p) PROVE TypeInv'
  <1>1. cur.task \in Task
    BY DEF TypeInv, Midway, OpenPane, Spawning
  <1>2. cur' \in Focus /\ cur'.pane = p /\ cur'.task = cur.task
    BY <1>1, FocusMade DEF OpenPane
  <1> QED BY <1>1, <1>2
          DEF TypeInv, TypeOK, Midway, OpenPane, Steps, AgentState, Spawning, Ending

(* No pane came up.                                                        *)
LEMMA OpenFailsType ==
  ASSUME TypeInv, OpenFails PROVE TypeInv'
  BY FocusMade
     DEF TypeInv, TypeOK, Midway, OpenFails, RemoveTree, BackToAct, Steps, Spawning, Ending

(* The agent started (startWhenShellIsFree).                               *)
LEMMA StartAgentType ==
  ASSUME TypeInv, StartAgent PROVE TypeInv'
  BY DEF TypeInv, TypeOK, Midway, StartAgent, Steps, Listed, Agents, AgentState,
         Spawning, Ending

(* The goal confirmed (confirmGoal).                                       *)
LEMMA ConfirmType ==
  ASSUME TypeInv, ConfirmGoal PROVE TypeInv'
  BY DEF TypeInv, TypeOK, Midway, ConfirmGoal, Steps, Spawning, Ending

(* A failed spawn's pane closed (Discard).                                 *)
LEMMA UndoType ==
  ASSUME TypeInv, UndoSpawn PROVE TypeInv'
  <1>1. /\ agent' \in [Pane -> AgentState]
        /\ \A q \in Pane : agent'[q] \in Listed => agent[q] = agent'[q]
    BY PaneClosed DEF TypeInv, TypeOK, UndoSpawn
  <1> QED BY <1>1 DEF TypeInv, TypeOK, Midway, UndoSpawn, Steps, Spawning, Ending

(* And its checkout removed.                                               *)
LEMMA DropCheckoutType ==
  ASSUME TypeInv, DropCheckout PROVE TypeInv'
  BY FocusMade
     DEF TypeInv, TypeOK, Midway, DropCheckout, RemoveTree, BackToAct, Steps, Spawning, Ending

(* The binding made (spawn).                                               *)
LEMMA BindType ==
  ASSUME TypeInv, Bind PROVE TypeInv'
  <1>1. bindings' \in [Pane -> Binding]
    BY BindingsMade DEF TypeInv, TypeOK, Midway, Bind, Spawning
  <1>2. disk' \in Document
    BY <1>1, SaveType DEF TypeInv, TypeOK, Bind
  <1> QED BY <1>1, <1>2 DEF TypeInv, TypeOK, Midway, Bind, Steps, Spawning, Ending

(* The reservation spent (unreserve).                                      *)
LEMMA UnreserveType ==
  ASSUME TypeInv, Unreserve PROVE TypeInv'
  <1>1. attempts' \in [Task -> Tries]
    BY TriesSet, TriesRange DEF TypeInv, TypeOK, Unreserve
  <1>2. disk' \in Document
    BY <1>1, SaveType DEF TypeInv, TypeOK, Unreserve
  <1> QED BY <1>1, <1>2, FocusMade
          DEF TypeInv, TypeOK, Midway, Unreserve, BackToAct, Steps, Spawning, Ending

(* A door reads the board (Dispatch).                                      *)
LEMMA DoorReadsType ==
  ASSUME TypeInv, NEW t \in Task, DoorReads(t) PROVE TypeInv'
  BY DEF TypeInv, TypeOK, Midway, DoorReads

(* A door reserves (Dispatch).                                             *)
LEMMA DoorReservesType ==
  ASSUME TypeInv, DoorReserves PROVE TypeInv'
  <1>1. attempts' \in [Task -> Tries]
    BY TriesSet, TriesRange DEF TypeInv, TypeOK, DoorReserves
  <1>2. disk' \in Document
    BY <1>1, SaveType DEF TypeInv, TypeOK, DoorReserves
  <1> QED BY <1>1, <1>2 DEF TypeInv, TypeOK, Midway, DoorReserves

(* Nothing read, nothing kept, nothing remembered.                         *)
LEMMA NothingType == Nothing \in Document /\ NoStart \in Survey
  <1>1. Nothing \in Document
    BY BindingsMade, TriesRange DEF Nothing, Document
  <1>2. Nothing.bindings \in [Pane -> Binding]
    BY BindingsMade DEF Nothing
  <1> QED BY <1>1, <1>2 DEF NoStart, Survey

(* A crash forgets everything but the document.                            *)
LEMMA CrashType ==
  ASSUME TypeInv, Crash PROVE TypeInv'
  <1>1. /\ bindings' \in [Pane -> Binding] /\ attempts' \in [Task -> Tries]
        /\ deaths' \in [Task -> Nat] /\ start' \in Survey
    BY NothingType DEF Crash, Forget, Document
  <1>2. missing' \in [Pane -> 0..DeadWorkerStreak] /\ \A p \in Pane : missing'[p] < DeadWorkerStreak
    BY ConstantsOK DEF Crash, Forget, ConstantsOK
  <1>3. restarts' \in Nat /\ owed' \subseteq Pane
    BY DEF TypeInv, TypeOK, Crash, Forget
  <1> QED BY <1>1, <1>2, <1>3, FocusMade, RowsType
          DEF TypeInv, TypeOK, Midway, Crash, Idle, Steps, Spawning, Ending

-----------------------------------------------------------------------------
(* The reconciliation.                                                     *)

(* What an answer for one pane does to the survey.                         *)
LEMMA SettledType ==
  ASSUME start \in Survey, NEW p, Settled(p)
  PROVE  /\ start' \in Survey
         /\ start'.doc = start.doc /\ start'.found = start.found \ {p}
         /\ start'.lived = start.lived /\ start'.kept = start.kept
  BY DEF Settled, Survey

(* And one that keeps a binding for it.                                    *)
LEMMA KeptType ==
  ASSUME start \in Survey, NEW p \in Pane, NEW b \in Binding, Kept(p, b)
  PROVE  /\ start' \in Survey
         /\ start'.doc = start.doc /\ start'.found = start.found \ {p}
         /\ start'.lived = start.lived
         /\ start'.kept = [start.kept EXCEPT ![p] = b]
  BY DEF Kept, Survey

(* The document read is well formed.                                       *)
LEMMA DocType ==
  ASSUME TypeInv, NEW p \in Pane
  PROVE  /\ start \in Survey /\ start.doc \in Document
         /\ start.doc.bindings[p] \in Binding /\ start.kept[p] \in Binding
         /\ Named(p) => TaskOf(p) \in Task
  <1>1. start \in Survey
    BY DEF TypeInv, TypeOK
  <1>2. start.doc \in Document /\ start.kept \in [Pane -> Binding]
    BY <1>1 DEF Survey
  <1>3. start.doc.bindings[p] \in Binding
    BY <1>2 DEF Document
  <1> QED BY <1>1, <1>2, <1>3 DEF Named, TaskOf, Binding

(* A start, or the tick of a daemon that has not reconciled: the reads.    *)
LEMMA UpType ==
  ASSUME TypeInv, Start \/ TickAdopts PROVE TypeInv'
  <1>1. CASE Surveys
    <2>1. start' \in Survey
      <3>1. disk \in Document /\ NoStart \in Survey
        BY NothingType DEF TypeInv, TypeOK
      <3>2. {t \in tree : Inhabited(t)} \subseteq Task
        BY DEF TypeInv, TypeOK
      <3> QED BY <1>1, <3>1, <3>2 DEF Surveys, Survey
    <2>2. /\ pc' = "adopt" /\ up' = TRUE /\ unadopted' \in BOOLEAN
          /\ UNCHANGED <<world, disk, restarts, memory, door, unannounced, cur, rows,
                         ready, held, plan, spawns>>
      BY <1>1 DEF Surveys, Start, TickAdopts, TypeInv, TypeOK
    <2>3. pc = "idle"
      BY DEF TypeInv, Midway, Start, TickAdopts
    <2> QED BY <2>1, <2>2, <2>3 DEF TypeInv, TypeOK, Midway, Steps, Spawning, Ending
  <1>2. CASE unadopted' = TRUE /\ UNCHANGED <<tick, start>> /\ Start
    BY <1>2 DEF TypeInv, TypeOK, Midway, Start
  <1> QED BY <1>1, <1>2 DEF Start, TickAdopts

(* A pane let go, closed, held or taken back (reconcile).                  *)
LEMMA AnswerType ==
  ASSUME TypeInv, NEW p \in Pane,
         LetGo(p) \/ RetiresFinished(p) \/ Holds(p) \/ TakesBack(p)
  PROVE  TypeInv'
  <1>1. start \in Survey
    BY DEF TypeInv, TypeOK
  <1>2. CASE LetGo(p)
    BY <1>1, <1>2, SettledType DEF LetGo, TypeInv, TypeOK, Midway
  <1>3. CASE RetiresFinished(p)
    <2>1. /\ agent' \in [Pane -> AgentState]
          /\ \A q \in Pane : agent'[q] \in Listed => agent[q] = agent'[q]
      BY <1>3, PaneClosed DEF TypeInv, TypeOK, RetiresFinished
    <2> QED BY <1>1, <1>3, <2>1, SettledType DEF RetiresFinished, TypeInv, TypeOK, Midway
  <1>4. CASE Holds(p)
    BY <1>4, DocType, KeptType DEF Holds, TypeInv, TypeOK, Midway
  <1>5. CASE TakesBack(p)
    <2>1. NewBinding(work[p]) \in Binding
      BY BindingsMade DEF TypeInv, TypeOK
    <2>2. disk' \in Document
      BY <1>5, SaveType DEF TakesBack, TypeInv, TypeOK
    <2> QED BY <1>1, <1>5, <2>1, <2>2, KeptType DEF TakesBack, TypeInv, TypeOK, Midway
  <1> QED BY <1>2, <1>3, <1>4, <1>5

(* A restored pane watched, and kept or ended (restoredWorkerIsLive,       *)
(* retireRestored).                                                        *)
LEMMA WatchType ==
  ASSUME TypeInv,
         SampleLive \/ SampleIdle \/ RetiresRestored \/ \E p \in Pane : Samples(p)
  PROVE  TypeInv'
  <1>1. start \in Survey
    BY DEF TypeInv, TypeOK
  <1>2. ASSUME NEW p \in Pane, Samples(p) PROVE TypeInv'
    <2>1. cur' = At(p, TaskOf(p), FALSE) /\ TaskOf(p) \in Task
      BY <1>2, DocType DEF Samples
    <2>2. cur' \in Focus /\ cur'.pane = p /\ cur'.task \in Task
      BY <2>1, FocusMade
    <2> QED BY <1>2, <2>2
            DEF Samples, Reconciles, TypeInv, TypeOK, Midway, Steps, Spawning, Ending
  <1>3. CASE SampleLive
    <2>1. cur.pane \in Pane
      BY <1>3 DEF SampleLive, TypeInv, Midway
    <2>2. start' \in Survey
      BY <1>1, <1>3, <2>1, DocType, KeptType DEF SampleLive
    <2> QED BY <1>3, <2>2, FocusMade
            DEF SampleLive, BackToAdopt, TypeInv, TypeOK, Midway, Steps, Spawning, Ending
  <1>4. CASE SampleIdle
    <2>1. /\ agent' \in [Pane -> AgentState]
          /\ \A q \in Pane : agent'[q] \in Listed => agent[q] = agent'[q]
      BY <1>4, PaneClosed DEF TypeInv, TypeOK, SampleIdle
    <2> QED BY <1>4, <2>1 DEF SampleIdle, TypeInv, TypeOK, Midway, Steps, Spawning, Ending
  <1>5. CASE RetiresRestored
    <2>1. start' \in Survey
      BY <1>1, <1>5, SettledType DEF RetiresRestored
    <2>2. cur.pane \in Pane
      BY <1>5 DEF RetiresRestored, TypeInv, Midway
    <2>3. board' \in [Task -> Row] /\ owed' \subseteq Pane
      BY <1>5, <2>2, HandedBackType DEF RetiresRestored, SweepAsked, TypeInv, TypeOK
    <2>4. disk' \in Document
      BY <1>5, SaveType DEF RetiresRestored, TypeInv, TypeOK
    <2> QED BY <1>5, <2>1, <2>3, <2>4, FocusMade
            DEF RetiresRestored, RemoveTree, BackToAdopt, TypeInv, TypeOK, Midway, Steps,
                Spawning, Ending
  <1> QED BY <1>2, <1>3, <1>4, <1>5

(* What the reconciliation ends with (Adopt, reap).                        *)
LEMMA CommitType ==
  ASSUME TypeInv, AdoptCommits \/ Reap PROVE TypeInv'
  <1>1. /\ start \in Survey /\ start.doc \in Document
        /\ start.kept \in [Pane -> Binding] /\ start.lived \subseteq Task
    BY DEF TypeInv, TypeOK, Survey
  <1>2. CASE AdoptCommits
    <2>1. /\ bindings' \in [Pane -> Binding] /\ attempts' \in [Task -> Tries]
          /\ deaths' \in [Task -> Nat]
      BY <1>1, <1>2, NothingType DEF AdoptCommits, CarriedDeaths, Document
    <2>2. disk' \in Document
      BY <1>2, <2>1 DEF AdoptCommits, Document
    <2>3. start' \in Survey
      BY <1>1, <1>2, NothingType DEF AdoptCommits, Survey
    <2> QED BY <1>2, <2>1, <2>2, <2>3
            DEF AdoptCommits, TypeInv, TypeOK, Midway, Steps, Spawning, Ending
  <1>3. CASE Reap
    BY <1>3, NothingType DEF Reap, TypeInv, TypeOK, Midway, Steps, Spawning, Ending
  <1> QED BY <1>2, <1>3

(* Every step of the reconciliation.                                       *)
LEMMA AdoptType ==
  ASSUME TypeInv, Adopt PROVE TypeInv'
  BY AnswerType, WatchType, CommitType DEF Adopt

(* The clock ages bindings, and leaves them on their tasks.                *)
LEMMA AgedType ==
  ASSUME NEW f \in [Pane -> Binding], NEW p \in Pane
  PROVE  /\ Aged(f, p) \in [Pane -> Binding]
         /\ \A q \in Pane : Aged(f, p)[q].task = f[q].task
  BY BindingEdits DEF Aged

(* Those a reconciliation has in hand included.                            *)
LEMMA SurveyAged ==
  ASSUME start \in Survey, NEW p \in Pane, TimePasses(p)
  PROVE  /\ start' \in Survey
         /\ start'.found = start.found /\ start'.lived = start.lived
         /\ \A q \in Pane :
              /\ start'.doc.bindings[q].task = start.doc.bindings[q].task
              /\ start'.kept[q].task = start.kept[q].task
  <1>1. start.doc \in Document /\ start.kept \in [Pane -> Binding]
    BY DEF Survey
  <1>2. start.doc.bindings \in [Pane -> Binding]
    BY <1>1 DEF Document
  <1> DEFINE doc  == [start.doc EXCEPT !.bindings = Aged(start.doc.bindings, p)]
             kept == Aged(start.kept, p)
  <1>3. start' = [start EXCEPT !.doc = doc, !.kept = kept]
    BY DEF TimePasses
  <1>4. doc \in Document /\ doc.bindings = Aged(start.doc.bindings, p)
    BY <1>1, <1>2, AgedType DEF Document
  <1>5. /\ start' \in Survey /\ start'.doc = doc /\ start'.kept = kept
        /\ start'.found = start.found /\ start'.lived = start.lived
    <2>1. kept \in [Pane -> Binding]
      BY <1>1, AgedType
    <2> HIDE DEF doc, kept
    <2> QED BY <1>3, <1>4, <2>1 DEF Survey
  <1>6. \A q \in Pane : /\ doc.bindings[q].task = start.doc.bindings[q].task
                       /\ kept[q].task = start.kept[q].task
    <2>1. \A q \in Pane : Aged(start.doc.bindings, p)[q].task = start.doc.bindings[q].task
      BY <1>2, AgedType
    <2>2. \A q \in Pane : kept[q].task = start.kept[q].task
      BY <1>1, AgedType
    <2> HIDE DEF doc, kept
    <2> QED BY <1>4, <2>1, <2>2
  <1> HIDE DEF doc, kept
  <1> QED BY <1>5, <1>6

(* A change to the board alone.                                            *)
LEMMA BoardType ==
  ASSUME TypeInv, board' \in [Task -> Row], acted' \subseteq Task,
         unannounced' \subseteq Task, UNCHANGED <<agent, work, tree, Loop>>
  PROVE  TypeInv'
  BY DEF TypeInv, TypeOK, Midway, Loop

(* The workers, the people at the board and at herdr, the clock.           *)
LEMMA EnvironmentType ==
  ASSUME TypeInv, Environment PROVE TypeInv'
  <1> USE DEF Loop, SetRow, SetAgent, LeavesReview, Noted
  <1>1. ASSUME NEW p \in Pane, Claims(p) PROVE TypeInv'
    BY <1>1 DEF TypeInv, TypeOK, Midway, Claims, Row
  <1>2. ASSUME NEW p \in Pane, Submits(p) PROVE TypeInv'
    BY <1>2 DEF TypeInv, TypeOK, Midway, Submits, Row, Listed, Agents
  <1>3. ASSUME NEW p \in Pane, AgentTurns(p) \/ AgentDies(p) \/ PaneCloses(p) PROVE TypeInv'
    BY <1>3 DEF TypeInv, TypeOK, Midway, AgentTurns, AgentDies, PaneCloses, AgentState,
              Listed, Agents
  <1>4. ASSUME NEW p \in Pane, TimePasses(p) PROVE TypeInv'
    <2>1. disk.bindings \in [Pane -> Binding]
      BY DEF TypeInv, TypeOK, Document
    <2>2. bindings' \in [Pane -> Binding]
      BY <1>4, AgedType DEF TypeInv, TypeOK, TimePasses
    <2>3. disk' \in Document
      BY <1>4, <2>1, AgedType DEF TypeInv, TypeOK, TimePasses, Document
    <2>4. start' \in Survey
      BY <1>4, SurveyAged DEF TypeInv, TypeOK
    <2> QED BY <1>4, <2>2, <2>3, <2>4 DEF TypeInv, TypeOK, Midway, TimePasses
  <1>5. ASSUME NEW t \in Task, Reviewed(t) \/ Cancelled(t) \/ Released(t) PROVE TypeInv'
    <2>1. board' \in [Task -> Row] /\ unannounced' \subseteq Task /\ acted' \subseteq Task
      <3>1. CASE Reviewed(t)
        BY <3>1 DEF TypeInv, TypeOK, Reviewed, Row
      <3>2. CASE Cancelled(t)
        BY <3>2 DEF TypeInv, TypeOK, Cancelled, Row
      <3>3. CASE Released(t)
        BY <3>3 DEF TypeInv, TypeOK, Released, Row, Todo
      <3> QED BY <1>5, <3>1, <3>2, <3>3
    <2> QED BY <1>5, <2>1, BoardType DEF Reviewed, Cancelled, Released
  <1>6. ASSUME NEW t \in Task, Amended(t) \/ TakenByOthers(t) \/ LeaseExpires(t)
        PROVE  TypeInv'
    <2>1. board' \in [Task -> Row] /\ unannounced' \subseteq Task /\ acted' \subseteq Task
      <3>1. CASE Amended(t)
        BY <3>1 DEF TypeInv, TypeOK, Amended
      <3>2. CASE TakenByOthers(t)
        BY <3>2 DEF TypeInv, TypeOK, TakenByOthers, SetRow, Row
      <3>3. CASE LeaseExpires(t)
        BY <3>3 DEF TypeInv, TypeOK, LeaseExpires, SetRow, Row, Todo
      <3> QED BY <1>6, <3>1, <3>2, <3>3
    <2> QED BY <1>6, <2>1, BoardType DEF Amended, TakenByOthers, LeaseExpires
  <1> QED BY <1>1, <1>2, <1>3, <1>4, <1>5, <1>6 DEF Environment

(* The daemon comes up with nothing in hand.                               *)
LEMMA InitType == Init => TypeInv
  <1> SUFFICES ASSUME Init PROVE TypeInv
    OBVIOUS
  <1>1. bindings \in [Pane -> Binding] /\ attempts \in [Task -> Tries]
        /\ deaths \in [Task -> Nat]
    BY NothingType DEF Init, Document
  <1>2. disk \in Document /\ start \in Survey
    BY NothingType DEF Init
  <1>3. board \in [Task -> Row]
    BY DEF Init, Row, Todo
  <1>4. missing \in [Pane -> 0..DeadWorkerStreak] /\ restarts \in Nat
        /\ \A p \in Pane : missing[p] < DeadWorkerStreak
    BY ConstantsOK DEF Init, ConstantsOK
  <1> QED BY <1>1, <1>2, <1>3, <1>4, FocusMade, RowsType
          DEF Init, TypeInv, TypeOK, Midway, Steps, AgentState, Listed, Agents,
              Spawning, Ending

(* Nothing the tick does while it applies one binding's actions leaves the *)
(* type.                                                                   *)
LEMMA ApplyType ==
  ASSUME TypeInv, NEW p \in Pane, Apply(p) PROVE TypeInv'
  BY RearmType, NotifyType, SkipType, RetireType, UnbindType, PromptType, MissingType,
     PromptFailsType DEF Apply

(* Every step of the tick.                                                 *)
LEMMA TickType ==
  ASSUME TypeInv, Tick PROVE TypeInv'
  BY StartType, ReadType, FailType, DecideType, ApplyType, FinishRetireType, CountType,
     SweepType, OwedType, TakeSlotType, CutType, RefusedType, OpenType, OpenFailsType,
     StartAgentType, ConfirmType, UndoType, DropCheckoutType, BindType, UnreserveType,
     UpType, AdoptType DEF Tick

(* TypeInv is inductive: the daemon, a door, the workers, a crash and a    *)
(* restart all preserve it.                                                *)
LEMMA TypeStep == TypeInv /\ [Next]_vars => TypeInv'
  <1> SUFFICES ASSUME TypeInv, [Next]_vars PROVE TypeInv'
    OBVIOUS
  <1>1. CASE Tick
    BY <1>1, TickType
  <1>2. CASE Door
    BY <1>2, DoorReadsType, DoorReservesType DEF Door
  <1>3. CASE Environment
    BY <1>3, EnvironmentType
  <1>4. CASE Crash
    BY <1>4, CrashType
  <1>5. CASE Start
    BY <1>5, UpType
  <1>6. CASE UNCHANGED vars
    BY <1>6 DEF vars, TypeInv, TypeOK, Midway
  <1> QED BY <1>1, <1>2, <1>3, <1>4, <1>5, <1>6 DEF Next

(* The inductive invariant holds in every reachable state.                 *)
LEMMA TypeAlways == Spec => []TypeInv
  <1>1. Init => TypeInv
    BY InitType
  <1>2. TypeInv /\ [Next]_vars => TypeInv'
    BY TypeStep
  <1> QED BY <1>1, <1>2, PTL DEF Spec

(* Every variable keeps its type: no reservation is tried more than        *)
(* MaxSpawnAttempts times, no pane is refused more than DeadWorkerStreak   *)
(* times in a row, and the document never holds what memory could not.     *)
THEOREM TypeCorrect == Spec => []TypeOK
  <1>1. TypeInv => TypeOK
    BY DEF TypeInv
  <1> QED BY <1>1, TypeAlways, PTL
=============================================================================
