---------------------------- MODULE SafetyProofs ----------------------------
(* What the dispatcher keeps in order for every value of its constants:    *)
(* the document on disk, the slot a spawn holds, the fleet's cap, streaks  *)
(* and deaths, the reservations doors were promised, and the tasks held    *)
(* back.                                                                   *)
EXTENDS DispatcherProofs, FiniteSetTheorems

USE DEF world, memory, tick, life, Watching

-----------------------------------------------------------------------------
(* What the steps do to the bindings' tasks.                               *)

(* Every binding stays on its task.                                        *)
SameTasks == \A p \in Pane : bindings'[p].task = bindings[p].task

(* No binding is made: one that is there keeps its task or goes.           *)
BindingsShrink ==
  \A p \in Pane : bindings'[p].task \in {bindings[p].task, NoTask}

(* An announcement, a rearm, a skipped shot, a prompt or the clock leaves  *)
(* every binding on its task.                                              *)
LEMMA EditsKeepTasks ==
  ASSUME TypeInv, NEW p \in Pane, NEW kind,
         \/ ApplyRearm(p) \/ ApplyNotify(p) \/ SkipShot(p) \/ PromptLands(p, kind)
         \/ TimePasses(p)
  PROVE  SameTasks /\ BindingsShrink
  <1> SUFFICES SameTasks
    BY DEF SameTasks, BindingsShrink
  <1> USE DEF SameTasks
  <1>0. bindings \in [Pane -> Binding]
    BY DEF TypeInv, TypeOK
  <1>1. CASE ApplyRearm(p)
    BY <1>0, <1>1, BindingEdits DEF ApplyRearm
  <1>2. CASE ApplyNotify(p)
    <2>1. CASE UNCHANGED bindings
      BY <2>1
    <2>2. CASE bindings' = [q \in Pane |-> IF SameTask(p, q) THEN Announced(bindings[q])
                                           ELSE bindings[q]]
      BY <1>0, <2>2, BindingEdits
    <2> QED BY <1>2, <2>1, <2>2 DEF ApplyNotify
  <1>3. CASE SkipShot(p)
    BY <1>0, <1>3, BindingEdits DEF SkipShot
  <1>4. CASE PromptLands(p, kind)
    BY <1>0, <1>4, BindingEdits DEF PromptLands
  <1>5. CASE TimePasses(p)
    BY <1>0, <1>5, AgedType DEF TimePasses
  <1> QED BY <1>1, <1>2, <1>3, <1>4, <1>5

(* A drop empties one binding.                                             *)
LEMMA DropShrinks ==
  ASSUME TypeInv, NEW p \in Pane, Drop(p)
  PROVE  BindingsShrink /\ bindings'[p].task = NoTask
  BY BindingsMade DEF TypeInv, TypeOK, Drop, BindingsShrink

(* Bindings that only shrink bind no task anew.                            *)
LEMMA ShrinkBinds ==
  ASSUME BindingsShrink, NEW t \in Task
  PROVE  BoundTo(t)' \subseteq BoundTo(t)
  BY ConstantsOK DEF BindingsShrink, BoundTo, ConstantsOK

-----------------------------------------------------------------------------
(* The document is what the daemon believes.                               *)

(* saveLocked ends every change: what is written is what is in memory.     *)
LEMMA SaveIsMemory ==
  ASSUME Save, UNCHANGED life PROVE DiskIsMemory'
  BY DEF Save, DiskIsMemory

(* An action that changes neither leaves them the same.                    *)
LEMMA UntouchedDisk ==
  ASSUME DiskIsMemory, UNCHANGED <<disk, up, unadopted, bindings, attempts, deaths>>,
         pc \in Reconciling => pc' \in Reconciling
  PROVE  DiskIsMemory'
  BY DEF DiskIsMemory

(* Every action applied to a binding ends in a save, or changes neither.   *)
LEMMA DiskApply ==
  ASSUME DiskIsMemory, NEW p \in Pane, Apply(p) PROVE DiskIsMemory'
  <1>1. CASE ApplyRearm(p) \/ ApplyNotify(p) \/ SkipShot(p) \/ ApplyUnbind(p)
    BY <1>1, SaveIsMemory DEF ApplyRearm, ApplyNotify, SkipShot, ApplyUnbind
  <1>2. CASE ApplyRetire(p)
    BY <1>2, UntouchedDisk DEF ApplyRetire, Due, Reconciling
  <1>3. ASSUME NEW kind, PromptLands(p, kind) PROVE DiskIsMemory'
    BY <1>3, SaveIsMemory DEF PromptLands
  <1>4. ASSUME NEW kind, AgentMissing(p, kind) \/ PromptFails(p, kind) PROVE DiskIsMemory'
    BY <1>4, UntouchedDisk DEF AgentMissing, PromptFails, Prompts, Due, Reconciling
  <1> QED BY <1>1, <1>2, <1>3, <1>4 DEF Apply

(* A reconciliation ends by writing it: until then only the document read  *)
(* at its beginning is to be relied on.                                    *)
LEMMA DiskAdopt ==
  ASSUME DiskIsMemory, Start \/ TickAdopts \/ Adopt PROVE DiskIsMemory'
  <1> USE DEF DiskIsMemory, Reconciling
  <1>1. CASE Start \/ TickAdopts
    BY <1>1 DEF Start, TickAdopts, Surveys
  <1>2. ASSUME NEW p \in Pane,
               LetGo(p) \/ RetiresFinished(p) \/ Holds(p) \/ TakesBack(p) \/ Samples(p)
        PROVE  DiskIsMemory'
    BY <1>2 DEF LetGo, RetiresFinished, Holds, TakesBack, Samples, Reconciles
  <1>3. CASE SampleLive \/ SampleIdle \/ RetiresRestored
    BY <1>3 DEF SampleLive, SampleIdle, RetiresRestored, BackToAdopt
  <1>4. CASE AdoptCommits
    BY <1>4 DEF AdoptCommits
  <1>5. CASE Reap
    BY <1>5 DEF Reap
  <1> QED BY <1>1, <1>2, <1>3, <1>4, <1>5 DEF Adopt

(* So does every other step of the tick.                                   *)
LEMMA DiskTick ==
  ASSUME DiskIsMemory, Tick PROVE DiskIsMemory'
  <1>1. CASE TickStart \/ ReadReady \/ FinishRetire \/ CountDeath \/ Bind \/ Unreserve
    BY <1>1, SaveIsMemory
       DEF TickStart, ReadReady, FinishRetire, CountDeath, Bind, Unreserve
  <1>2. CASE TickFails \/ Decide \/ SweepClaim \/ SweepOwed
    BY <1>2, UntouchedDisk DEF TickFails, Decide, SweepClaim, SweepOwed, Reconciling
  <1>3. CASE \/ CutCheckout \/ SpawnRefused \/ OpenFails \/ StartAgent \/ ConfirmGoal
             \/ UndoSpawn \/ DropCheckout
    BY <1>3, UntouchedDisk
       DEF CutCheckout, SpawnRefused, OpenFails, StartAgent, ConfirmGoal, UndoSpawn,
           DropCheckout, Reconciling
  <1>4. ASSUME NEW p \in Pane, OpenPane(p) PROVE DiskIsMemory'
    BY <1>4, UntouchedDisk DEF OpenPane, Reconciling
  <1>5. ASSUME NEW t \in Task, TakeSlot(t) PROVE DiskIsMemory'
    BY <1>5, SaveIsMemory DEF TakeSlot
  <1>6. CASE TickAdopts \/ Adopt
    BY <1>6, DiskAdopt
  <1> QED BY <1>1, <1>2, <1>3, <1>4, <1>5, <1>6, DiskApply DEF Tick

(* Nothing outside the daemon writes either; the clock ages both alike.    *)
LEMMA DiskEnvironment ==
  ASSUME DiskIsMemory, Environment PROVE DiskIsMemory'
  <1> USE DEF Loop
  <1>1. ASSUME NEW p \in Pane,
               Claims(p) \/ Submits(p) \/ AgentTurns(p) \/ AgentDies(p) \/ PaneCloses(p)
        PROVE  DiskIsMemory'
    BY <1>1, UntouchedDisk DEF Claims, Submits, AgentTurns, AgentDies, PaneCloses
  <1>2. ASSUME NEW t \in Task,
               \/ Reviewed(t) \/ Cancelled(t) \/ Released(t) \/ Amended(t)
               \/ TakenByOthers(t) \/ LeaseExpires(t)
        PROVE  DiskIsMemory'
    BY <1>2, UntouchedDisk
       DEF Reviewed, Cancelled, Released, Amended, TakenByOthers, LeaseExpires
  <1>3. ASSUME NEW p \in Pane, TimePasses(p) PROVE DiskIsMemory'
    BY <1>3 DEF TimePasses, DiskIsMemory, Reconciling
  <1> QED BY <1>1, <1>2, <1>3 DEF Environment

(* At every step of a daemon that has reconciled, a crash would find the   *)
(* bindings, the reservations and the death counts the daemon believes in  *)
(* (saveLocked after every change under the lock).                         *)
THEOREM DocumentIsMemory == Spec => []DiskIsMemory
  <1>1. Init => DiskIsMemory
    BY DEF Init, DiskIsMemory
  <1>2. DiskIsMemory /\ [Next]_vars => DiskIsMemory'
    <2> SUFFICES ASSUME DiskIsMemory, [Next]_vars PROVE DiskIsMemory'
      OBVIOUS
    <2>1. CASE Tick
      BY <2>1, DiskTick
    <2>2. CASE Door
      BY <2>2, UntouchedDisk, SaveIsMemory DEF Door, DoorReads, DoorReserves
    <2>3. CASE Environment
      BY <2>3, DiskEnvironment
    <2>4. CASE Crash
      BY <2>4 DEF Crash, DiskIsMemory
    <2>5. CASE Start
      BY <2>5, DiskAdopt
    <2>6. CASE UNCHANGED vars
      BY <2>6, UntouchedDisk DEF vars
    <2> QED BY <2>1, <2>2, <2>3, <2>4, <2>5, <2>6 DEF Next
  <1> QED BY <1>1, <1>2, PTL DEF Spec

-----------------------------------------------------------------------------
(* The slot a spawn holds.  SpawnIsReserved is not inductive alone: that   *)
(* the task a slot is taken for is still unbound rests on what the tick    *)
(* has decided (ReadReady leaves bound tasks out, a tick binds a task      *)
(* once), and the tick's decisions rest on its having none before it reads. *)

Resting == {"idle", "reap"} \cup Reconciling
Slotted == {"prepare", "open", "start", "confirm", "undo", "bind"}

SlotInv ==
  /\ pc # "panes" => ready = {}
  /\ pc \in Resting => spawns = {}
  /\ \A t \in ready \cup spawns : BoundTo(t) = {}
  /\ pc \in Spawning => cur.task \notin spawns
  /\ pc \in Slotted => cur.task \in Reserved /\ BoundTo(cur.task) = {}

USE DEF Slotted, Spawning, Resting, Reconciling

(* Steps that bind nothing, unreserve nothing and take no slot.            *)
LEMMA SlotsKept ==
  ASSUME TypeInv, SlotInv, UNCHANGED <<spawns, ready>>,
         BindingsShrink, Reserved \subseteq Reserved',
         \/ UNCHANGED <<pc, cur>>
         \/ pc # "panes" /\ pc' \notin Spawning \cup Resting
         \/ pc \in Slotted /\ pc' \in Slotted /\ cur'.task = cur.task
  PROVE  SlotInv'
  <1>1. \A t \in Task : BoundTo(t)' \subseteq BoundTo(t)
    BY ShrinkBinds
  <1>2. ready \subseteq Task /\ spawns \subseteq Task
    BY DEF TypeInv, TypeOK
  <1>3. pc \in Spawning => cur.task \in Task
    BY DEF TypeInv, Midway
  <1>4. \A t \in ready' \cup spawns' : BoundTo(t)' = {}
    BY <1>1, <1>2 DEF SlotInv
  <1>5. (pc # "panes" => ready = {})' /\ (pc \in Resting => spawns = {})'
    BY DEF SlotInv
  <1>6. CASE UNCHANGED <<pc, cur>>
    BY <1>1, <1>3, <1>4, <1>5, <1>6 DEF SlotInv
  <1>7. CASE pc' \notin Spawning
    BY <1>4, <1>5, <1>7 DEF SlotInv
  <1>8. CASE pc \in Slotted /\ pc' \in Slotted /\ cur'.task = cur.task
    BY <1>1, <1>3, <1>4, <1>5, <1>8 DEF SlotInv
  <1> QED BY <1>6, <1>7, <1>8

(* A tick that ends, or is cut short, has decided nothing for the next.    *)
LEMMA SlotsIdle ==
  ASSUME Idle PROVE SlotInv'
  BY DEF Idle, SlotInv

(* The bindings untouched shrink, trivially.                               *)
LEMMA UntouchedShrink ==
  ASSUME UNCHANGED bindings PROVE BindingsShrink
  BY DEF BindingsShrink

(* No action applied to a binding binds a task or frees a slot.            *)
LEMMA SlotsApply ==
  ASSUME TypeInv, SlotInv, NEW p \in Pane, Apply(p) PROVE SlotInv'
  <1> USE DEF Due, Prompts, Reserved
  <1>1. CASE ApplyRearm(p) \/ ApplyNotify(p) \/ SkipShot(p)
    BY <1>1, EditsKeepTasks, SlotsKept DEF ApplyRearm, ApplyNotify, SkipShot
  <1>2. CASE ApplyUnbind(p)
    BY <1>2, DropShrinks, SlotsKept DEF ApplyUnbind
  <1>3. CASE ApplyRetire(p)
    BY <1>3, UntouchedShrink, SlotsKept DEF ApplyRetire
  <1>4. ASSUME NEW kind, PromptLands(p, kind) PROVE SlotInv'
    BY <1>4, EditsKeepTasks, SlotsKept DEF PromptLands
  <1>5. ASSUME NEW kind, PromptFails(p, kind) PROVE SlotInv'
    BY <1>5, UntouchedShrink, SlotsKept DEF PromptFails
  <1>6. ASSUME NEW kind, AgentMissing(p, kind) PROVE SlotInv'
    <2>1. UNCHANGED <<pc, cur>> \/ pc' = "drop"
      BY <1>6 DEF AgentMissing
    <2> QED BY <1>6, <2>1, UntouchedShrink, SlotsKept DEF AgentMissing
  <1> QED BY <1>1, <1>2, <1>3, <1>4, <1>5, <1>6 DEF Apply

(* The tick's reads: a bound task is not among what it may spawn for.      *)
LEMMA SlotsReads ==
  ASSUME TypeInv, SlotInv, TickStart \/ ReadReady \/ TickFails \/ Decide
  PROVE  SlotInv'
  <1>1. CASE TickStart
    BY <1>1, UntouchedShrink, SlotsKept DEF TickStart, Reserved
  <1>2. CASE ReadReady
    <2>1. \A t \in ready' \cup spawns' : BoundTo(t)' = {}
      BY <1>2 DEF ReadReady, SlotInv, BoundTo, Offered
    <2> QED BY <1>2, <2>1 DEF ReadReady, SlotInv
  <1>3. CASE TickFails
    BY <1>3, SlotsIdle DEF TickFails
  <1>4. CASE Decide
    <2>1. spawns' \subseteq ready /\ ready' = {} /\ UNCHANGED bindings
      BY <1>4 DEF Decide
    <2> QED BY <1>4, <2>1 DEF Decide, SlotInv, BoundTo
  <1> QED BY <1>1, <1>2, <1>3, <1>4

(* Taking a slot reserves the task and takes it off the tick's list.       *)
LEMMA SlotsTaken ==
  ASSUME TypeInv, SlotInv, NEW t \in Task, TakeSlot(t) PROVE SlotInv'
  <1>1. t \in spawns /\ BoundTo(t) = {} /\ pc = "act"
    BY DEF TakeSlot, Next1, SlotInv
  <1>2. spawns' = spawns \ {t} /\ UNCHANGED <<bindings, ready>>
    BY DEF TakeSlot
  <1>3. CASE Spent(t)
    BY <1>1, <1>2, <1>3 DEF TakeSlot, SlotInv, BoundTo
  <1>4. CASE ~Spent(t)
    <2>1. pc' = "prepare" /\ cur'.task = t
      BY <1>4 DEF TakeSlot, At
    <2>2. attempts[t] \in Int /\ attempts[t] >= -1
      BY ConstantsOK DEF TypeInv, TypeOK, Tries, Unreserved, ConstantsOK
    <2>3. attempts'[t] = IF attempts[t] = Unreserved THEN 1 ELSE attempts[t] + 1
      BY <1>4 DEF TypeInv, TypeOK, TakeSlot
    <2>4. t \in Reserved'
      BY <2>2, <2>3 DEF Reserved, Unreserved
    <2>5. ready' = {} /\ t \notin spawns'
      BY <1>2 DEF TakeSlot, SlotInv
    <2>6. \A u \in spawns' : BoundTo(u)' = {}
      BY <1>2 DEF SlotInv, BoundTo
    <2> QED BY <1>1, <1>2, <2>1, <2>4, <2>5, <2>6
            DEF SlotInv, BoundTo
  <1> QED BY <1>3, <1>4

(* The spawn: the slot is held from the checkout to the binding.           *)
LEMMA SlotsSpawn ==
  ASSUME TypeInv, SlotInv,
         \/ CutCheckout \/ SpawnRefused \/ OpenFails \/ StartAgent \/ ConfirmGoal
         \/ UndoSpawn \/ DropCheckout \/ Bind \/ Unreserve
         \/ \E p \in Pane : OpenPane(p)
  PROVE  SlotInv'
  <1>1. CASE SpawnRefused \/ OpenFails \/ DropCheckout
    BY <1>1, UntouchedShrink, SlotsKept
       DEF SpawnRefused, OpenFails, DropCheckout, BackToAct, Reserved
  <1>2. CASE CutCheckout \/ StartAgent \/ ConfirmGoal \/ UndoSpawn
    BY <1>2, UntouchedShrink, SlotsKept
       DEF CutCheckout, StartAgent, ConfirmGoal, UndoSpawn, Reserved
  <1>3. ASSUME NEW p \in Pane, OpenPane(p) PROVE SlotInv'
    <2>1. cur'.task = cur.task
      BY <1>3 DEF OpenPane, At
    <2>2. pc \in Slotted /\ pc' \in Slotted
      BY <1>3 DEF OpenPane
    <2>3. UNCHANGED <<spawns, ready, bindings, attempts>>
      BY <1>3 DEF OpenPane
    <2> QED BY <2>1, <2>2, <2>3, UntouchedShrink, SlotsKept DEF Reserved
  <1>4. CASE Bind
    <2>1. cur.task \in Task /\ cur.pane \in Pane /\ cur.task \notin spawns
      BY <1>4 DEF Bind, TypeInv, Midway, SlotInv
    <2>2. \A t \in ready \cup spawns : t # cur.task => BoundTo(t)' = {}
      BY <1>4, <2>1, BindingsMade DEF Bind, SlotInv, BoundTo, TypeInv, TypeOK
    <2>3. ready = {}
      BY <1>4 DEF Bind, SlotInv
    <2> QED BY <1>4, <2>1, <2>2, <2>3 DEF Bind, SlotInv
  <1>5. CASE Unreserve
    BY <1>5 DEF Unreserve, BackToAct, SlotInv, BoundTo
  <1> QED BY <1>1, <1>2, <1>3, <1>4, <1>5

(* A reconciliation finds the tick idle and leaves it so: whatever it      *)
(* binds, nothing is decided yet.                                          *)
LEMMA SlotsAdopt ==
  ASSUME TypeInv, SlotInv, Start \/ TickAdopts \/ Adopt PROVE SlotInv'
  <1>1. pc \in Resting /\ pc' \in Resting /\ UNCHANGED <<spawns, ready>>
    <2>1. CASE Start \/ TickAdopts
      BY <2>1 DEF TypeInv, Midway, Start, TickAdopts, Surveys
    <2>2. ASSUME NEW p \in Pane,
                 \/ LetGo(p) \/ RetiresFinished(p) \/ Holds(p) \/ TakesBack(p)
                 \/ Samples(p)
          PROVE  pc \in Resting /\ pc' \in Resting /\ UNCHANGED <<spawns, ready>>
      BY <2>2 DEF LetGo, RetiresFinished, Holds, TakesBack, Samples, Reconciles
    <2>3. CASE SampleLive \/ SampleIdle \/ RetiresRestored \/ AdoptCommits \/ Reap
      BY <2>3 DEF SampleLive, SampleIdle, RetiresRestored, BackToAdopt, AdoptCommits, Reap
    <2> QED BY <2>1, <2>2, <2>3 DEF Adopt
  <1>2. ready' = {} /\ spawns' = {}
    BY <1>1 DEF SlotInv
  <1> QED BY <1>1, <1>2 DEF SlotInv

(* Every step of the tick keeps the slots.                                 *)
LEMMA SlotsTick ==
  ASSUME TypeInv, SlotInv, Tick PROVE SlotInv'
  <1>1. CASE FinishRetire
    <2>1. cur.pane \in Pane
      BY <1>1 DEF FinishRetire, TypeInv, Midway, Ending
    <2>2. BindingsShrink
      BY <1>1, <2>1, DropShrinks DEF FinishRetire
    <2>3. pc # "panes" /\ pc' \notin Spawning \cup Resting
      BY <1>1 DEF FinishRetire
    <2>4. UNCHANGED <<spawns, ready, attempts>>
      BY <1>1 DEF FinishRetire
    <2> QED BY <2>2, <2>3, <2>4, SlotsKept DEF Reserved
  <1>2. CASE CountDeath \/ SweepClaim
    BY <1>2, UntouchedShrink, SlotsKept
       DEF CountDeath, SweepClaim, SlotInv, Reserved
  <1>3. CASE SweepOwed
    BY <1>3, SlotsIdle DEF SweepOwed
  <1> QED BY <1>1, <1>2, <1>3, SlotsApply, SlotsReads, SlotsTaken, SlotsSpawn, SlotsAdopt
          DEF Tick

(* The doors, the workers and the clock bind nothing; a door only reserves.*)
LEMMA SlotsOutside ==
  ASSUME TypeInv, SlotInv, Door \/ Environment PROVE SlotInv'
  <1> USE DEF Loop, Reserved
  <1>1. ASSUME NEW t \in Task,
               \/ DoorReads(t) \/ Reviewed(t) \/ Cancelled(t) \/ Released(t)
               \/ Amended(t) \/ TakenByOthers(t) \/ LeaseExpires(t)
        PROVE  SlotInv'
    BY <1>1, UntouchedShrink, SlotsKept
       DEF DoorReads, Reviewed, Cancelled, Released, Amended, TakenByOthers, LeaseExpires
  <1>2. CASE DoorReserves
    <2>1. Reserved \subseteq Reserved'
      BY <1>2, TriesRange DEF DoorReserves, Unreserved, TypeInv, TypeOK
    <2> QED BY <1>2, <2>1, UntouchedShrink, SlotsKept DEF DoorReserves
  <1>3. ASSUME NEW p \in Pane,
               Claims(p) \/ Submits(p) \/ AgentTurns(p) \/ AgentDies(p) \/ PaneCloses(p)
        PROVE  SlotInv'
    BY <1>3, UntouchedShrink, SlotsKept
       DEF Claims, Submits, AgentTurns, AgentDies, PaneCloses
  <1>4. ASSUME NEW p \in Pane, TimePasses(p) PROVE SlotInv'
    BY <1>4, EditsKeepTasks, SlotsKept DEF TimePasses
  <1> QED BY <1>1, <1>2, <1>3, <1>4 DEF Door, Environment

(* SlotInv is inductive, given the types.                                  *)
LEMMA SlotStep == TypeInv /\ SlotInv /\ [Next]_vars => SlotInv'
  <1> SUFFICES ASSUME TypeInv, SlotInv, [Next]_vars PROVE SlotInv'
    OBVIOUS
  <1>1. CASE Crash
    BY <1>1, SlotsIdle DEF Crash
  <1>2. CASE UNCHANGED vars
    BY <1>2, UntouchedShrink, SlotsKept DEF vars, Reserved
  <1> QED BY <1>1, <1>2, SlotsTick, SlotsOutside, SlotsAdopt DEF Next

(* And so it holds in every reachable state.                               *)
LEMMA SlotAlways == Spec => []SlotInv
  <1>1. Init => SlotInv
    BY DEF Init, SlotInv
  <1>2. TypeInv /\ SlotInv /\ [Next]_vars => SlotInv'
    BY SlotStep
  <1> QED BY <1>1, <1>2, TypeAlways, PTL DEF Spec

(* While a spawn runs with the lock released, however long the pipeline    *)
(* takes and whatever the doors, the board and the workers do meanwhile,   *)
(* its task stays reserved and unbound: no dispatch accepts it (attempt,   *)
(* Dispatch, bind).                                                        *)
THEOREM SpawnHoldsItsSlot == Spec => []SpawnIsReserved
  <1>1. SlotInv => SpawnIsReserved
    BY DEF SlotInv, SpawnIsReserved
  <1> QED BY <1>1, SlotAlways, PTL

-----------------------------------------------------------------------------
(* What each part of the daemon leaves alone.                              *)

(* The doors, the workers, the people and the clock: the tick, the counts  *)
(* and the bindings' tasks.                                                *)
LEMMA OutsideFrame ==
  ASSUME TypeInv, Door \/ Environment
  PROVE  /\ UNCHANGED <<tick, up, unadopted, deaths, missing>> /\ SameTasks
         /\ start'.doc.deaths = start.doc.deaths
         /\ start'.doc.attempts = start.doc.attempts
  <1> USE DEF Loop, SameTasks
  <1>1. CASE Door
    BY <1>1 DEF Door, DoorReads, DoorReserves
  <1>2. ASSUME NEW p \in Pane,
               Claims(p) \/ Submits(p) \/ AgentTurns(p) \/ AgentDies(p) \/ PaneCloses(p)
        PROVE  UNCHANGED Loop
    BY <1>2 DEF Claims, Submits, AgentTurns, AgentDies, PaneCloses
  <1>3. ASSUME NEW t \in Task,
               \/ Reviewed(t) \/ Cancelled(t) \/ Released(t) \/ Amended(t)
               \/ TakenByOthers(t) \/ LeaseExpires(t)
        PROVE  UNCHANGED Loop
    BY <1>3 DEF Reviewed, Cancelled, Released, Amended, TakenByOthers, LeaseExpires
  <1>4. ASSUME NEW p \in Pane, TimePasses(p)
        PROVE  /\ UNCHANGED <<tick, up, unadopted, deaths, missing>> /\ SameTasks
               /\ start'.doc.deaths = start.doc.deaths
               /\ start'.doc.attempts = start.doc.attempts
    <2>1. start \in Survey /\ start.doc \in Document
      BY DEF TypeInv, TypeOK, Survey
    <2>2. start' = [start EXCEPT !.doc.bindings = Aged(start.doc.bindings, p),
                                 !.kept = Aged(start.kept, p)]
      BY <1>4 DEF TimePasses
    <2>3. start'.doc.deaths = start.doc.deaths /\ start'.doc.attempts = start.doc.attempts
      BY <2>1, <2>2 DEF Survey, Document
    <2> QED BY <1>4, <2>3, EditsKeepTasks DEF TimePasses
  <1> QED BY <1>1, <1>2, <1>3, <1>4 DEF Environment

(* A reconciliation answering for the panes it found: the memory, the      *)
(* tick's reads and decisions, and the document it read.                   *)
Answers == \/ \E p \in Pane : \/ LetGo(p) \/ RetiresFinished(p) \/ Holds(p)
                               \/ TakesBack(p) \/ Samples(p)
           \/ SampleLive \/ SampleIdle \/ RetiresRestored

LEMMA AnswersFrame ==
  ASSUME TypeInv, Answers
  PROVE  /\ UNCHANGED <<up, unadopted, bindings, attempts, deaths, missing, rows, ready,
                        held, plan, spawns, door>>
         /\ pc \in Reconciling /\ pc' \in Reconciling /\ start'.doc = start.doc
         /\ UNCHANGED disk \/ Save
  <1>1. start \in Survey
    BY DEF TypeInv, TypeOK
  <1>2. ASSUME NEW p, Settled(p) PROVE start'.doc = start.doc
    BY <1>1, <1>2 DEF Settled, Survey
  <1>3. ASSUME NEW p, NEW b, Kept(p, b) PROVE start'.doc = start.doc
    BY <1>1, <1>3 DEF Kept, Survey
  <1>4. ASSUME NEW p \in Pane,
               LetGo(p) \/ RetiresFinished(p) \/ Holds(p) \/ TakesBack(p) \/ Samples(p)
        PROVE  /\ UNCHANGED <<up, unadopted, bindings, attempts, deaths, missing, rows,
                              ready, held, plan, spawns, door>>
               /\ pc \in Reconciling /\ pc' \in Reconciling /\ start'.doc = start.doc
               /\ UNCHANGED disk \/ Save
    BY <1>2, <1>3, <1>4
       DEF LetGo, RetiresFinished, Holds, TakesBack, Samples, Reconciles
  <1>5. CASE SampleLive \/ SampleIdle \/ RetiresRestored
    BY <1>2, <1>3, <1>5 DEF SampleLive, SampleIdle, RetiresRestored, BackToAdopt
  <1> QED BY <1>4, <1>5 DEF Answers

(* A spawn between its slot and its binding: all the daemon remembers and  *)
(* has decided.                                                            *)
Spawns == \/ CutCheckout \/ SpawnRefused \/ OpenFails \/ StartAgent \/ ConfirmGoal
          \/ UndoSpawn \/ DropCheckout \/ \E p \in Pane : OpenPane(p)

LEMMA SpawnsFrame ==
  ASSUME Spawns
  PROVE  /\ UNCHANGED <<disk, life, memory, rows, ready, held, plan, spawns, door>>
         /\ pc \in Slotted /\ pc' \in Slotted \cup {"act"}
         /\ pc' \in Slotted => cur'.task = cur.task
  <1>1. CASE CutCheckout \/ StartAgent \/ ConfirmGoal \/ UndoSpawn
    BY <1>1 DEF CutCheckout, StartAgent, ConfirmGoal, UndoSpawn
  <1>2. CASE SpawnRefused \/ OpenFails \/ DropCheckout
    BY <1>2 DEF SpawnRefused, OpenFails, DropCheckout, BackToAct
  <1>3. ASSUME NEW p \in Pane, OpenPane(p)
        PROVE  /\ UNCHANGED <<disk, life, memory, rows, ready, held, plan, spawns, door>>
               /\ pc \in Slotted /\ pc' \in Slotted \cup {"act"}
               /\ pc' \in Slotted => cur'.task = cur.task
    BY <1>3 DEF OpenPane, At
  <1> QED BY <1>1, <1>2, <1>3 DEF Spawns

(* An action applied to the binding of pane p: the other panes' decisions  *)
(* and streaks, the counts, the slots.                                     *)
LEMMA ApplyFrame ==
  ASSUME TypeInv, NEW p \in Pane, Apply(p)
  PROVE  /\ UNCHANGED <<life, attempts, deaths, ready, held, spawns, door>>
         /\ pc = "act" /\ pc' \in {"act", "drop", "sweep"}
         /\ plan[p] # {} /\ plan'[p] \subseteq plan[p]
         /\ \A q \in Pane \ {p} : plan'[q] = plan[q] /\ missing'[q] = missing[q]
         /\ UNCHANGED disk \/ Save
  <1>0. plan \in [Pane -> SUBSET Kind] /\ missing \in [Pane -> 0..DeadWorkerStreak]
    BY DEF TypeInv, TypeOK
  <1>1. ASSUME NEW kind, Due(p, kind), Applied(p, kind)
        PROVE  /\ pc = "act" /\ plan[p] # {} /\ plan'[p] \subseteq plan[p]
               /\ \A q \in Pane \ {p} : plan'[q] = plan[q]
    BY <1>0, <1>1 DEF Due, Applied
  <1>2. CASE ApplyRearm(p) \/ ApplyNotify(p) \/ SkipShot(p)
    BY <1>1, <1>2 DEF ApplyRearm, ApplyNotify, SkipShot, Due
  <1>3. CASE ApplyUnbind(p)
    BY <1>0, <1>1, <1>3 DEF ApplyUnbind, Drop
  <1>4. CASE ApplyRetire(p)
    <2>1. PICK kind \in {"retire", "giveup"} : Due(p, kind) /\ Applied(p, kind)
      BY <1>4 DEF ApplyRetire
    <2> QED BY <1>1, <1>4, <2>1 DEF ApplyRetire
  <1>5. ASSUME NEW kind, PromptLands(p, kind) \/ PromptFails(p, kind)
        PROVE  /\ UNCHANGED <<life, attempts, deaths, ready, held, spawns, door>>
               /\ pc = "act" /\ pc' \in {"act", "drop", "sweep"}
               /\ plan[p] # {} /\ plan'[p] \subseteq plan[p]
               /\ \A q \in Pane \ {p} : plan'[q] = plan[q] /\ missing'[q] = missing[q]
               /\ UNCHANGED disk \/ Save
    BY <1>0, <1>1, <1>5 DEF PromptLands, PromptFails, Prompts
  <1>6. ASSUME NEW kind, AgentMissing(p, kind)
        PROVE  /\ UNCHANGED <<life, attempts, deaths, ready, held, spawns, door>>
               /\ pc = "act" /\ pc' \in {"act", "drop", "sweep"}
               /\ plan[p] # {} /\ plan'[p] \subseteq plan[p]
               /\ \A q \in Pane \ {p} : plan'[q] = plan[q] /\ missing'[q] = missing[q]
               /\ UNCHANGED disk \/ Save
    BY <1>0, <1>1, <1>6 DEF AgentMissing, Prompts
  <1> QED BY <1>2, <1>3, <1>4, <1>5, <1>6 DEF Apply

-----------------------------------------------------------------------------
(* A daemon that has not reconciled remembers nothing, and one that is not *)
(* reconciling has no document in hand.                                    *)

Fresh == ~up \/ unadopted \/ pc \in Reconciling

FreshInv ==
  /\ Fresh => /\ \A p \in Pane : bindings[p].task = NoTask /\ missing[p] = 0
              /\ \A t \in Task : deaths[t] = 0
  /\ ~up => door = NoTask /\ \A t \in Task : attempts[t] = Unreserved
  /\ unadopted => pc \in {"idle"} \cup Reconciling
  /\ pc \notin Reconciling =>
       \A t \in Task : start.doc.deaths[t] = 0 /\ start.doc.attempts[t] = Unreserved

(* A tick runs only in a daemon that is up and has reconciled.             *)
LEMMA FreshRunning ==
  ASSUME TypeInv, FreshInv, UNCHANGED life, pc \notin Resting,
         pc' \notin Reconciling
  PROVE  FreshInv' /\ ~Fresh /\ ~Fresh'
  BY DEF TypeInv, Midway, FreshInv, Fresh

(* Nothing is surveyed by a start-up without a document.                   *)
LEMMA NoDocument ==
  /\ \A t \in Task : NoStart.doc.deaths[t] = 0 /\ NoStart.doc.attempts[t] = Unreserved
  /\ NoStart.doc = Nothing
  BY DEF NoStart, Nothing

(* Outside the daemon nothing reserves, and a door needs a daemon.         *)
LEMMA OutsideQuiet ==
  ASSUME Door \/ Environment
  PROVE  /\ ~DoorReserves => UNCHANGED attempts
         /\ door = NoTask => ~DoorReserves
         /\ door = NoTask => door' = NoTask \/ (up /\ "dispatch" \in Acts /\ Serving)
         /\ DoorReserves => door' = NoTask
  <1> USE DEF Loop
  <1>1. CASE Door
    BY <1>1 DEF Door, DoorReads, DoorReserves
  <1>2. ASSUME NEW p \in Pane,
               \/ Claims(p) \/ Submits(p) \/ AgentTurns(p) \/ AgentDies(p) \/ PaneCloses(p)
               \/ TimePasses(p)
        PROVE  UNCHANGED <<attempts, door>>
    BY <1>2 DEF Claims, Submits, AgentTurns, AgentDies, PaneCloses, TimePasses
  <1>3. ASSUME NEW t \in Task,
               \/ Reviewed(t) \/ Cancelled(t) \/ Released(t) \/ Amended(t)
               \/ TakenByOthers(t) \/ LeaseExpires(t)
        PROVE  UNCHANGED <<attempts, door>>
    BY <1>3 DEF Reviewed, Cancelled, Released, Amended, TakenByOthers, LeaseExpires
  <1> QED BY <1>1, <1>2, <1>3 DEF Environment, DoorReserves

(* Every step of the tick that is not part of a reconciliation.            *)
LEMMA FreshTick ==
  ASSUME TypeInv, FreshInv, Tick, ~TickAdopts, ~Adopt
  PROVE  FreshInv' /\ ~Fresh /\ ~Fresh' /\ UNCHANGED life
  <1>1. CASE TickStart
    BY <1>1 DEF TickStart, TypeInv, Midway, FreshInv, Fresh
  <1>2. CASE ReadReady \/ TickFails \/ Decide
    BY <1>2, FreshRunning DEF ReadReady, TickFails, Idle, Decide
  <1>3. CASE FinishRetire \/ CountDeath \/ SweepClaim \/ SweepOwed
    BY <1>3, FreshRunning DEF FinishRetire, CountDeath, SweepClaim, SweepOwed, Idle
  <1>4. CASE Bind \/ Unreserve \/ \E t \in Task : TakeSlot(t)
    BY <1>4, FreshRunning DEF Bind, Unreserve, TakeSlot, BackToAct
  <1>5. CASE Spawns
    BY <1>5, FreshRunning, SpawnsFrame
  <1>6. CASE \E p \in Pane : Apply(p)
    BY <1>6, FreshRunning, ApplyFrame
  <1> QED BY <1>1, <1>2, <1>3, <1>4, <1>5, <1>6 DEF Tick, Spawns

(* A start, a reconciliation and its end.                                  *)
LEMMA FreshAdopts ==
  ASSUME TypeInv, FreshInv, Start \/ TickAdopts \/ Adopt PROVE FreshInv'
  <1>1. CASE Start \/ TickAdopts
    BY <1>1 DEF Start, TickAdopts, Surveys, TypeInv, Midway, FreshInv, Fresh
  <1>2. CASE Answers
    BY <1>2, AnswersFrame DEF FreshInv, Fresh
  <1>3. CASE AdoptCommits
    BY <1>3, NoDocument DEF AdoptCommits, TypeInv, Midway, FreshInv, Fresh, NoStart
  <1>4. CASE Reap
    BY <1>4, NoDocument DEF Reap, FreshInv, Fresh
  <1> QED BY <1>1, <1>2, <1>3, <1>4 DEF Adopt, Answers

(* FreshInv is inductive, given the types.                                 *)
LEMMA FreshStep == TypeInv /\ FreshInv /\ [Next]_vars => FreshInv'
  <1> SUFFICES ASSUME TypeInv, FreshInv, [Next]_vars PROVE FreshInv'
    OBVIOUS
  <1>1. CASE Tick
    BY <1>1, FreshTick, FreshAdopts
  <1>2. CASE Door \/ Environment
    <2>1. ~up => /\ door' = NoTask
                 /\ \A t \in Task : attempts[t] = Unreserved => attempts'[t] = Unreserved
      BY <1>2, OutsideQuiet DEF FreshInv
    <2> QED BY <1>2, <2>1, OutsideFrame DEF FreshInv, Fresh, SameTasks
  <1>3. CASE Crash
    BY <1>3, NoDocument, BindingsMade DEF Crash, Forget, Idle, Nothing, FreshInv, Fresh
  <1>4. CASE Start
    BY <1>4, FreshAdopts
  <1>5. CASE UNCHANGED vars
    BY <1>5 DEF vars, FreshInv, Fresh
  <1> QED BY <1>1, <1>2, <1>3, <1>4, <1>5 DEF Next

(* So it holds in every reachable state.                                   *)
LEMMA FreshAlways == Spec => []FreshInv
  <1>1. Init => FreshInv
    BY NoDocument, BindingsMade DEF Init, Nothing, FreshInv, Fresh
  <1>2. TypeInv /\ FreshInv /\ [Next]_vars => FreshInv'
    BY FreshStep
  <1> QED BY <1>1, <1>2, TypeAlways, PTL DEF Spec

-----------------------------------------------------------------------------
(* What a tick has decided and not yet applied: of each bound pane, one    *)
(* thing, or two that follow each other; of a pane it is done with, none.  *)

Wholes == {{"unbind"}, {"retire"}, {"rearm", "giveup"}, {"rearm", "prompt"},
           {"notify", "selfreview"}}

PlanInv ==
  /\ pc \notin {"act"} \cup Ending => plan = NoPlan
  /\ \A p \in Pane : plan[p] # {} =>
       bindings[p].task # NoTask /\ \E W \in Wholes : plan[p] \subseteq W
  /\ pc = "drop" => plan[cur.pane] = {}

USE DEF Ending

(* Decide gives a binding one of these.                                    *)
LEMMA VerdictIsWhole ==
  ASSUME TypeInv, NEW p \in Pane
  PROVE  \E W \in Wholes : {k \in Kind : Asked(p, k)} \subseteq W
  <1> USE DEF Kind, Asked, StatusIs, Known, Wholes
  <1>1. CASE StatusIs(p, "done") \/ (Alive(p) /\ TakenOver(p))
    <2>1. \A k \in Kind : Asked(p, k) => k = "retire"
      BY <1>1
    <2> QED BY <2>1
  <1>2. CASE ~StatusIs(p, "done") /\ ~Alive(p)
    <2>1. \A k \in Kind : Asked(p, k) => k = "unbind"
      BY <1>2
    <2> QED BY <2>1
  <1>3. CASE ~StatusIs(p, "done") /\ Alive(p) /\ ~TakenOver(p) /\ StatusIs(p, "review")
    <2>1. \A k \in Kind : Asked(p, k) => k \in {"notify", "selfreview"}
      BY <1>3
    <2> QED BY <2>1
  <1>4. CASE ~StatusIs(p, "done") /\ Alive(p) /\ ~TakenOver(p) /\ ~StatusIs(p, "review")
    <2>1. CASE Asked(p, "giveup")
      <3>1. \A k \in Kind : Asked(p, k) => k \in {"rearm", "giveup", "prompt"}
        BY <1>4
      <3>2. bindings[p].prompts \in Nat /\ MaxPrompts \in Nat
        BY ConstantsOK DEF ConstantsOK, TypeInv, TypeOK, Binding
      <3>3. ~(bindings[p].prompts < MaxPrompts) /\ StatusIs(p, "todo")
        BY <2>1, <3>2
      <3>4. ~Asked(p, "prompt")
        BY <3>3
      <3>5. \A k \in Kind : Asked(p, k) => k \in {"rearm", "giveup"}
        BY <3>1, <3>4
      <3> QED BY <3>5
    <2>2. CASE ~Asked(p, "giveup")
      <3>1. \A k \in Kind : Asked(p, k) => k \in {"rearm", "giveup", "prompt"}
        BY <1>4
      <3>2. \A k \in Kind : Asked(p, k) => k \in {"rearm", "prompt"}
        BY <2>2, <3>1
      <3> QED BY <3>2
    <2> QED BY <2>1, <2>2
  <1> QED BY <1>1, <1>2, <1>3, <1>4

(* A tick with nothing decided.                                            *)
LEMMA PlanBlank ==
  ASSUME plan' = NoPlan, pc' # "drop" PROVE PlanInv'
  BY DEF PlanInv, NoPlan

(* Decisions and the bindings' tasks alone, with no closing begun.         *)
LEMMA PlanKept ==
  ASSUME TypeInv, PlanInv, UNCHANGED plan, SameTasks,
         UNCHANGED <<pc, cur>> \/ (pc' \notin {"drop"} /\
                                  (pc' \notin {"act"} \cup Ending => plan = NoPlan))
  PROVE  PlanInv'
  BY DEF PlanInv, SameTasks, TypeInv, Midway

(* An action applied leaves the rest of what was decided for the pane.     *)
LEMMA PlanApply ==
  ASSUME TypeInv, PlanInv, NEW p \in Pane, Apply(p) PROVE PlanInv'
  <1> DEFINE Rest == \A q \in Pane : plan'[q] # {} =>
                       bindings'[q].task # NoTask /\ \E W \in Wholes : plan'[q] \subseteq W
  <1>0. /\ pc = "act" /\ pc' \in {"act", "drop", "sweep"} /\ plan[p] # {}
        /\ plan'[p] \subseteq plan[p] /\ \A q \in Pane \ {p} : plan'[q] = plan[q]
    BY ApplyFrame
  <1>1. ASSUME SameTasks PROVE Rest
    BY <1>0, <1>1 DEF PlanInv, SameTasks
  <1>2. ASSUME Rest, pc' # "drop" PROVE PlanInv'
    BY <1>0, <1>2 DEF PlanInv
  <1>3. CASE ApplyRearm(p) \/ ApplyNotify(p) \/ SkipShot(p)
    <2>1. UNCHANGED pc
      BY <1>3 DEF ApplyRearm, ApplyNotify, SkipShot
    <2> QED BY <1>0, <1>1, <1>2, <1>3, <2>1, EditsKeepTasks
  <1>4. CASE ApplyUnbind(p)
    <2>1. plan'[p] = {} /\ pc' = "sweep"
      <3>1. "unbind" \in plan[p] /\ plan'[p] = plan[p] \ {"unbind"} /\ pc' = "sweep"
        BY <1>4 DEF ApplyUnbind, Due, Applied, TypeInv, TypeOK
      <3>2. \E W \in Wholes : plan[p] \subseteq W
        BY <1>0 DEF PlanInv
      <3> QED BY <3>1, <3>2 DEF Wholes
    <2>2. \A q \in Pane \ {p} : bindings'[q] = bindings[q]
      BY <1>4 DEF ApplyUnbind, Drop, TypeInv, TypeOK
    <2>3. Rest
      BY <1>0, <2>1, <2>2 DEF PlanInv
    <2> QED BY <1>2, <2>1, <2>3
  <1>5. CASE ApplyRetire(p)
    <2>1. PICK kind \in {"retire", "giveup"} :
            kind \in plan[p] /\ "rearm" \notin plan[p] /\ Applied(p, kind)
      BY <1>5 DEF ApplyRetire, Due
    <2>2. plan'[p] = plan[p] \ {kind}
      BY <2>1 DEF Applied, TypeInv, TypeOK
    <2>3. \E W \in Wholes : plan[p] \subseteq W
      BY <1>0 DEF PlanInv
    <2>4. plan'[p] = {}
      BY <2>1, <2>2, <2>3 DEF Wholes
    <2>5. cur'.pane = p /\ pc' = "drop" /\ UNCHANGED bindings
      BY <1>5 DEF ApplyRetire, At
    <2>6. Rest
      BY <1>1, <2>5 DEF SameTasks
    <2> QED BY <2>4, <2>5, <2>6 DEF PlanInv
  <1>6. ASSUME NEW kind, PromptLands(p, kind) \/ PromptFails(p, kind) PROVE PlanInv'
    <2>1. UNCHANGED pc /\ SameTasks
      BY <1>6, EditsKeepTasks DEF PromptLands, PromptFails, SameTasks
    <2> QED BY <1>0, <1>1, <1>2, <2>1
  <1>7. ASSUME NEW kind, AgentMissing(p, kind) PROVE PlanInv'
    <2>1. UNCHANGED bindings /\ (UNCHANGED pc \/ (pc' = "drop" /\ cur'.pane = p))
      BY <1>7 DEF AgentMissing, At
    <2>2. kind \in plan[p] /\ kind \in {"prompt", "selfreview"} /\ Applied(p, kind)
          /\ plan[p] \cap {"notify", "rearm"} = {}
      BY <1>7 DEF AgentMissing, Prompts, Due
    <2>3. plan'[p] = plan[p] \ {kind} /\ \E W \in Wholes : plan[p] \subseteq W
      BY <1>0, <2>2 DEF Applied, TypeInv, TypeOK, PlanInv
    <2>4. plan'[p] = {}
      BY <2>2, <2>3 DEF Wholes
    <2>5. Rest
      BY <1>1, <2>1 DEF SameTasks
    <2> QED BY <1>0, <2>1, <2>4, <2>5 DEF PlanInv
  <1> QED BY <1>3, <1>4, <1>5, <1>6, <1>7 DEF Apply

(* Every step of the tick keeps PlanInv.                                   *)
LEMMA PlanTick ==
  ASSUME TypeInv, PlanInv, Tick PROVE PlanInv'
  <1>1. CASE TickStart \/ ReadReady
    BY <1>1, PlanKept DEF TickStart, ReadReady, SameTasks, PlanInv
  <1>2. CASE TickFails \/ SweepOwed
    BY <1>2, PlanBlank DEF TickFails, SweepOwed, Idle
  <1>3. CASE Decide
    <2>1. \A p \in Pane : plan'[p] = Verdict(p)
      BY <1>3 DEF Decide
    <2>2. ASSUME NEW p \in Pane, plan'[p] # {}
          PROVE  bindings[p].task # NoTask /\ \E W \in Wholes : plan'[p] \subseteq W
      BY <2>1, <2>2, VerdictIsWhole DEF Verdict, Bound
    <2> QED BY <1>3, <2>2 DEF Decide, PlanInv
  <1>4. CASE FinishRetire
    <2>1. \A q \in Pane \ {cur.pane} : bindings'[q] = bindings[q]
      BY <1>4 DEF FinishRetire, Drop, TypeInv, TypeOK
    <2>2. UNCHANGED plan /\ pc = "drop" /\ pc' \in {"act", "count"}
      BY <1>4 DEF FinishRetire
    <2> QED BY <2>1, <2>2 DEF PlanInv
  <1>5. CASE CountDeath \/ SweepClaim
    BY <1>5, PlanKept DEF CountDeath, SweepClaim, SameTasks
  <1>6. ASSUME NEW t \in Task, TakeSlot(t) PROVE PlanInv'
    BY <1>6, PlanKept DEF TakeSlot, SameTasks
  <1>7. CASE Bind
    BY <1>7, PlanBlank DEF Bind, PlanInv
  <1>8. CASE Unreserve
    BY <1>8, PlanKept DEF Unreserve, BackToAct, SameTasks, PlanInv
  <1>9. CASE Spawns
    BY <1>9, SpawnsFrame, PlanKept DEF SameTasks, PlanInv
  <1>10. CASE TickAdopts
    BY <1>10, PlanBlank DEF TickAdopts, Surveys, PlanInv
  <1>11. CASE Answers
    BY <1>11, AnswersFrame, PlanBlank DEF PlanInv
  <1>12. CASE AdoptCommits \/ Reap
    BY <1>12, PlanBlank DEF AdoptCommits, Reap, PlanInv
  <1> QED BY <1>1, <1>2, <1>3, <1>4, <1>5, <1>6, <1>7, <1>8, <1>9, <1>10, <1>11, <1>12,
             PlanApply DEF Tick, Spawns, Adopt, Answers

(* PlanInv is inductive, given the types.                                  *)
LEMMA PlanStep == TypeInv /\ PlanInv /\ [Next]_vars => PlanInv'
  <1> SUFFICES ASSUME TypeInv, PlanInv, [Next]_vars PROVE PlanInv'
    OBVIOUS
  <1>1. CASE Door \/ Environment
    BY <1>1, OutsideFrame, PlanKept
  <1>2. CASE Crash
    BY <1>2, PlanBlank DEF Crash, Idle
  <1>3. CASE Start
    <2>1. UNCHANGED plan /\ pc = "idle" /\ pc' # "drop"
      BY <1>3 DEF Start, Surveys, TypeInv, Midway
    <2> QED BY <2>1, PlanBlank DEF PlanInv
  <1>4. CASE UNCHANGED vars
    BY <1>4, PlanKept DEF vars, SameTasks
  <1> QED BY <1>1, <1>2, <1>3, <1>4, PlanTick DEF Next

(* So it holds in every reachable state.                                   *)
LEMMA PlanAlways == Spec => []PlanInv
  <1>1. Init => PlanInv
    BY DEF Init, PlanInv, NoPlan
  <1>2. TypeInv /\ PlanInv /\ [Next]_vars => PlanInv'
    BY PlanStep
  <1> QED BY <1>1, <1>2, TypeAlways, PTL DEF Spec

-----------------------------------------------------------------------------
(* A streak of refusals ends with its binding.                             *)

(* Steps that leave the streaks and the bindings' tasks alone.             *)
LEMMA StreakKept ==
  ASSUME StreakEndsWithBinding, UNCHANGED missing, SameTasks
  PROVE  StreakEndsWithBinding'
  BY DEF StreakEndsWithBinding, SameTasks, Bound

(* A drop of the binding of pane p takes its streak along.                 *)
LEMMA StreakDrops ==
  ASSUME TypeInv, StreakEndsWithBinding, NEW p \in Pane, Drop(p)
  PROVE  StreakEndsWithBinding'
  <1>1. \A q \in Pane \ {p} : missing'[q] = missing[q] /\ bindings'[q] = bindings[q]
    BY DEF Drop, TypeInv, TypeOK
  <1>2. missing'[p] = 0
    BY DEF Drop, TypeInv, TypeOK
  <1> QED BY <1>1, <1>2 DEF StreakEndsWithBinding, Bound

(* An action is applied to a bound pane, whose streak alone it changes.    *)
LEMMA StreakApply ==
  ASSUME TypeInv, PlanInv, StreakEndsWithBinding, NEW p \in Pane, Apply(p)
  PROVE  StreakEndsWithBinding'
  <1>1. CASE ApplyUnbind(p)
    BY <1>1, StreakDrops DEF ApplyUnbind
  <1>2. CASE ~ApplyUnbind(p)
    <2>1. SameTasks
      BY <1>2, EditsKeepTasks
         DEF Apply, ApplyRetire, AgentMissing, PromptFails, SameTasks
    <2>2. bindings'[p].task # NoTask
      BY <2>1, ApplyFrame DEF PlanInv, SameTasks
    <2> QED BY <2>1, <2>2, ApplyFrame DEF StreakEndsWithBinding, Bound, SameTasks
  <1> QED BY <1>1, <1>2

(* Every other step of the tick: a binding made starts with no streak, and *)
(* the bindings a reconciliation makes replace none.                       *)
LEMMA StreakTick ==
  ASSUME TypeInv, PlanInv, FreshInv, StreakEndsWithBinding, Tick
  PROVE  StreakEndsWithBinding'
  <1>1. CASE TickStart \/ ReadReady \/ TickFails \/ Decide
    BY <1>1, StreakKept DEF TickStart, ReadReady, TickFails, Decide, SameTasks
  <1>2. CASE CountDeath \/ SweepClaim \/ SweepOwed \/ Unreserve
    BY <1>2, StreakKept DEF CountDeath, SweepClaim, SweepOwed, Unreserve, SameTasks
  <1>3. CASE FinishRetire
    BY <1>3, StreakDrops DEF FinishRetire, TypeInv, Midway
  <1>4. ASSUME NEW t \in Task, TakeSlot(t) PROVE StreakEndsWithBinding'
    BY <1>4, StreakKept DEF TakeSlot, SameTasks
  <1>5. CASE Spawns
    BY <1>5, SpawnsFrame, StreakKept DEF SameTasks
  <1>6. CASE Bind
    <2>1. cur.task \in Task /\ UNCHANGED missing
      BY <1>6 DEF Bind, TypeInv, Midway
    <2>2. \A q \in Pane : bindings[q].task # NoTask => bindings'[q].task # NoTask
      BY <1>6, <2>1, BindingsMade, ConstantsOK DEF Bind, TypeInv, TypeOK, ConstantsOK
    <2> QED BY <2>1, <2>2 DEF StreakEndsWithBinding, Bound
  <1>7. CASE TickAdopts \/ Answers
    BY <1>7, AnswersFrame, StreakKept DEF TickAdopts, SameTasks
  <1>8. CASE AdoptCommits
    BY <1>8 DEF AdoptCommits, FreshInv, Fresh, StreakEndsWithBinding
  <1>9. CASE Reap
    BY <1>9, StreakKept DEF Reap, SameTasks
  <1> QED BY <1>1, <1>2, <1>3, <1>4, <1>5, <1>6, <1>7, <1>8, <1>9, StreakApply
          DEF Tick, Spawns, Adopt, Answers

(* No pane starts its life with another's refusals: a streak of prompts    *)
(* refused for a missing agent goes with the binding it is about, however  *)
(* that goes (drop, promptLanded, Adopt's fresh memory).                   *)
THEOREM StreaksEnd == Spec => []StreakEndsWithBinding
  <1>1. Init => StreakEndsWithBinding
    BY DEF Init, StreakEndsWithBinding
  <1>2. /\ TypeInv /\ PlanInv /\ FreshInv /\ StreakEndsWithBinding /\ [Next]_vars
        => StreakEndsWithBinding'
    <2> SUFFICES ASSUME TypeInv, PlanInv, FreshInv, StreakEndsWithBinding, [Next]_vars
                 PROVE  StreakEndsWithBinding'
      OBVIOUS
    <2>1. CASE Door \/ Environment
      BY <2>1, OutsideFrame, StreakKept
    <2>2. CASE Crash
      BY <2>2 DEF Crash, Forget, StreakEndsWithBinding
    <2>3. CASE Start
      BY <2>3, StreakKept DEF Start, SameTasks
    <2>4. CASE UNCHANGED vars
      BY <2>4, StreakKept DEF vars, SameTasks
    <2> QED BY <2>1, <2>2, <2>3, <2>4, StreakTick DEF Next
  <1> QED BY <1>1, <1>2, TypeAlways, PlanAlways, FreshAlways, PTL DEF Spec

-----------------------------------------------------------------------------
(* The cap on the fleet.  What a tick counted when it decided is what it   *)
(* will be left with: the workers it decided no ending for, of which it    *)
(* binds no more before its spawns, and the tasks it still spawns for.     *)

Staying == {p \in Bound : plan[p] \cap Endings = {} /\ ~(pc = "drop" /\ cur.pane = p)}
Claimed == spawns \cup (IF pc \in Slotted THEN {cur.task} ELSE {})

CapInv ==
  Claimed # {} => Cardinality(Staying) + Cardinality(Claimed) <= MaxWorkers

(* Both are finite.                                                        *)
LEMMA FleetFinite ==
  ASSUME TypeInv
  PROVE  /\ \A S \in SUBSET Pane : IsFiniteSet(S) /\ Cardinality(S) \in Nat
         /\ \A S \in SUBSET Task : IsFiniteSet(S) /\ Cardinality(S) \in Nat
         /\ Staying \subseteq Pane /\ Claimed \subseteq Task /\ MaxWorkers \in Nat
  <1>1. IsFiniteSet(Pane) /\ IsFiniteSet(Task) /\ MaxWorkers \in Nat
    BY ConstantsOK DEF ConstantsOK
  <1>2. \A S \in SUBSET Pane : IsFiniteSet(S)
    BY <1>1, FS_Subset
  <1>3. \A S \in SUBSET Task : IsFiniteSet(S)
    BY <1>1, FS_Subset
  <1>4. Staying \subseteq Pane /\ Claimed \subseteq Task
    BY DEF Staying, Bound, Claimed, TypeInv, TypeOK, Midway
  <1> QED BY <1>1, <1>2, <1>3, <1>4, FS_CardinalityType

(* A step after which no more workers stay and no more tasks are claimed.  *)
LEMMA CapKept ==
  ASSUME TypeInv, CapInv, Staying' \subseteq Staying, Claimed' \subseteq Claimed
  PROVE  CapInv'
  <1>1. /\ IsFiniteSet(Staying) /\ IsFiniteSet(Claimed) /\ MaxWorkers \in Nat
        /\ Cardinality(Staying) \in Nat /\ Cardinality(Claimed) \in Nat
    BY FleetFinite
  <1>2. /\ Cardinality(Staying') <= Cardinality(Staying)
        /\ IsFiniteSet(Staying') /\ Cardinality(Staying') \in Nat
    BY <1>1, FS_Subset, FS_CardinalityType
  <1>3. /\ Cardinality(Claimed') <= Cardinality(Claimed)
        /\ IsFiniteSet(Claimed') /\ Cardinality(Claimed') \in Nat
    BY <1>1, FS_Subset, FS_CardinalityType
  <1>4. CASE Claimed' = {}
    BY <1>4 DEF CapInv
  <1>5. CASE Claimed' # {}
    <2>1. Cardinality(Staying) + Cardinality(Claimed) <= MaxWorkers
      BY <1>5 DEF CapInv
    <2>2. Cardinality(Staying') + Cardinality(Claimed') <= MaxWorkers
      BY <1>1, <1>2, <1>3, <2>1
    <2> QED BY <2>2 DEF CapInv
  <1> QED BY <1>4, <1>5

(* With nothing claimed nothing is owed to the cap.                        *)
LEMMA CapFree ==
  ASSUME spawns' = {}, pc' \notin Slotted PROVE CapInv'
  BY DEF CapInv, Claimed

(* The decision: as many spawns as the staying workers leave room for.     *)
LEMMA CapDecides ==
  ASSUME TypeInv, Decide PROVE CapInv'
  <1>1. PICK gated \in SUBSET Codex : Fills(spawns', gated)
    BY DEF Decide
  <1>2. Cardinality(spawns') <= Room /\ spawns' \subseteq ready
    BY <1>1 DEF Fills
  <1>3. \A p \in Pane : plan'[p] = Verdict(p)
    BY DEF Decide
  <1>4. Staying' = Live /\ Claimed' = spawns'
    BY <1>3 DEF Decide, Staying, Claimed, Live, Bound
  <1>5. Live \in SUBSET Pane /\ spawns' \in SUBSET Task
    BY <1>2 DEF Live, Bound, TypeInv, TypeOK
  <1>6. Cardinality(Live) \in Nat /\ Cardinality(spawns') \in Nat /\ MaxWorkers \in Nat
        /\ IsFiniteSet(spawns')
    BY <1>5, FleetFinite
  <1>7. CASE Cardinality(Live) >= MaxWorkers
    <2>1. Cardinality(spawns') = 0
      BY <1>2, <1>6, <1>7 DEF Room
    <2>2. spawns' = {}
      BY <1>6, <2>1, FS_EmptySet
    <2> QED BY <1>4, <2>2 DEF CapInv
  <1>8. CASE ~(Cardinality(Live) >= MaxWorkers)
    <2>1. Cardinality(Live) + Cardinality(spawns') <= MaxWorkers
      BY <1>2, <1>6, <1>8 DEF Room
    <2> QED BY <1>4, <2>1 DEF CapInv
  <1> QED BY <1>7, <1>8

(* A worker bound: one more of them, for one claim the less.               *)
LEMMA CapBinds ==
  ASSUME TypeInv, SlotInv, PlanInv, CapInv, Bind
  PROVE  CapInv' /\ Cardinality(Bound') <= MaxWorkers
  <1>1. /\ pc = "bind" /\ pc' = "unreserve" /\ UNCHANGED <<plan, spawns, cur>>
        /\ plan = NoPlan /\ cur.pane \in Pane /\ cur.task \in Task
        /\ cur.task \notin spawns
    BY DEF Bind, PlanInv, SlotInv, TypeInv, Midway
  <1>2. Staying = Bound /\ Staying' = Bound'
    BY <1>1 DEF Staying, NoPlan, Bound
  <1>3. Bound' = Bound \cup {cur.pane}
    <2>1. \A q \in Pane \ {cur.pane} : bindings'[q] = bindings[q]
      BY DEF Bind, TypeInv, TypeOK
    <2>2. bindings'[cur.pane].task # NoTask
      BY <1>1, BindingsMade, ConstantsOK DEF Bind, TypeInv, TypeOK, ConstantsOK
    <2> QED BY <1>1, <2>1, <2>2 DEF Bound
  <1>4. Claimed = spawns \cup {cur.task} /\ Claimed' = spawns
    BY <1>1 DEF Claimed
  <1>5. /\ IsFiniteSet(Bound) /\ IsFiniteSet(spawns) /\ MaxWorkers \in Nat
        /\ Cardinality(Bound) \in Nat /\ Cardinality(spawns) \in Nat
    BY <1>2, FleetFinite DEF TypeInv, TypeOK
  <1>6. Cardinality(Claimed) = Cardinality(spawns) + 1
    BY <1>1, <1>4, <1>5, FS_AddElement
  <1>7. Cardinality(Bound) + Cardinality(spawns) + 1 <= MaxWorkers
    <2>1. Cardinality(Staying) + Cardinality(Claimed) <= MaxWorkers
      BY <1>4 DEF CapInv
    <2> QED BY <1>2, <1>5, <1>6, <2>1
  <1>8. Cardinality(Bound') \in Nat /\ Cardinality(Bound') <= Cardinality(Bound) + 1
    <2>1. Cardinality(Bound') = IF cur.pane \in Bound THEN Cardinality(Bound)
                                ELSE Cardinality(Bound) + 1
      BY <1>3, <1>5, FS_AddElement
    <2> QED BY <1>5, <2>1
  <1>9. Cardinality(Bound') + Cardinality(spawns) <= MaxWorkers /\ Cardinality(Bound') <= MaxWorkers
    BY <1>5, <1>7, <1>8
  <1> QED BY <1>2, <1>4, <1>9 DEF CapInv

(* A step that binds nothing and decides nothing.                          *)
LEMMA StayingShrinks ==
  ASSUME BindingsShrink, UNCHANGED plan,
         pc = "drop" /\ cur.pane \in Pane => bindings'[cur.pane].task = NoTask
  PROVE  Staying' \subseteq Staying
  <1> SUFFICES ASSUME NEW p \in Pane, p \in Staying' PROVE p \in Staying
    BY DEF Staying, Bound
  <1>1. bindings'[p].task # NoTask /\ bindings[p].task # NoTask
    BY DEF Staying, Bound, BindingsShrink
  <1>2. plan[p] \cap Endings = {}
    BY DEF Staying
  <1> QED BY <1>1, <1>2 DEF Staying, Bound

(* An action applied to a binding decides nothing anew: one that ends its  *)
(* worker is followed by the drop.                                         *)
LEMMA CapApply ==
  ASSUME TypeInv, PlanInv, CapInv, NEW p \in Pane, Apply(p) PROVE CapInv'
  <1>0. /\ UNCHANGED spawns /\ pc = "act" /\ pc' \in {"act", "drop", "sweep"}
        /\ \A q \in Pane \ {p} : plan'[q] = plan[q]
    BY ApplyFrame
  <1>1. Claimed' \subseteq Claimed
    BY <1>0 DEF Claimed
  <1>2. BindingsShrink
    <2>1. CASE ApplyUnbind(p)
      BY <2>1, DropShrinks DEF ApplyUnbind
    <2>2. CASE ~ApplyUnbind(p)
      BY <2>2, EditsKeepTasks, UntouchedShrink DEF Apply, ApplyRetire, AgentMissing, PromptFails
    <2> QED BY <2>1, <2>2
  <1>3. ASSUME plan'[p] \cap Endings = {} => plan[p] \cap Endings = {}
        PROVE  Staying' \subseteq Staying
    BY <1>0, <1>2, <1>3 DEF Staying, Bound, BindingsShrink
  <1>4. ASSUME p \notin Staying' PROVE Staying' \subseteq Staying
    BY <1>0, <1>2, <1>4 DEF Staying, Bound, BindingsShrink
  <1>5. CASE ApplyUnbind(p)
    <2>1. p \notin Staying'
      BY <1>5, DropShrinks DEF ApplyUnbind, Staying, Bound
    <2> QED BY <1>1, <1>4, <2>1, CapKept
  <1>6. CASE ApplyRetire(p)
    <2>1. p \notin Staying'
      BY <1>6 DEF ApplyRetire, At, Staying
    <2> QED BY <1>1, <1>4, <2>1, CapKept
  <1>7. CASE ~ApplyUnbind(p) /\ ~ApplyRetire(p)
    <2>1. PICK kind \in Kind \ Endings : Applied(p, kind)
      BY <1>7 DEF Apply, ApplyRearm, ApplyNotify, SkipShot, PromptLands, PromptFails,
                  AgentMissing, Prompts, Kind, Endings
    <2>2. plan'[p] = plan[p] \ {kind}
      BY <2>1 DEF Applied, TypeInv, TypeOK
    <2> QED BY <1>1, <1>3, <2>1, <2>2, CapKept
  <1> QED BY <1>5, <1>6, <1>7

(* Every step of the tick keeps the cap.                                   *)
LEMMA CapTick ==
  ASSUME TypeInv, SlotInv, PlanInv, CapInv, Tick PROVE CapInv'
  <1>0. ASSUME BindingsShrink, UNCHANGED plan, Claimed' \subseteq Claimed,
               pc = "drop" /\ cur.pane \in Pane => bindings'[cur.pane].task = NoTask
        PROVE  CapInv'
    BY <1>0, StayingShrinks, CapKept
  <1> USE DEF Claimed
  <1>1. CASE TickStart \/ ReadReady
    BY <1>0, <1>1, UntouchedShrink DEF TickStart, ReadReady
  <1>2. CASE TickFails \/ SweepOwed
    BY <1>2, CapFree DEF TickFails, SweepOwed, Idle
  <1>3. CASE FinishRetire
    <2>1. cur.pane \in Pane /\ Drop(cur.pane) /\ UNCHANGED <<plan, spawns>>
          /\ pc = "drop" /\ pc' \in {"act", "count"}
      BY <1>3 DEF FinishRetire, TypeInv, Midway
    <2>2. BindingsShrink /\ bindings'[cur.pane].task = NoTask
      BY <2>1, DropShrinks
    <2> QED BY <1>0, <2>1, <2>2
  <1>4. CASE CountDeath \/ SweepClaim
    BY <1>0, <1>4, UntouchedShrink DEF CountDeath, SweepClaim
  <1>5. ASSUME NEW t \in Task, TakeSlot(t) PROVE CapInv'
    <2>1. /\ t \in spawns /\ spawns' = spawns \ {t} /\ UNCHANGED <<plan, bindings>>
          /\ pc = "act" /\ (pc' = "act" \/ (pc' = "prepare" /\ cur'.task = t))
      BY <1>5 DEF TakeSlot, Next1, At
    <2> QED BY <1>0, <2>1, UntouchedShrink
  <1>6. CASE Spawns
    BY <1>0, <1>6, SpawnsFrame, UntouchedShrink
  <1>7. CASE Unreserve
    BY <1>0, <1>7, UntouchedShrink DEF Unreserve, BackToAct
  <1>8. CASE TickAdopts \/ Adopt
    <2>1. pc' \notin Slotted /\ UNCHANGED spawns /\ pc \in Resting
      BY <1>8, AnswersFrame
         DEF TickAdopts, Surveys, Adopt, Answers, AdoptCommits, Reap
    <2> QED BY <2>1, CapFree DEF SlotInv
  <1> QED BY <1>1, <1>2, <1>3, <1>4, <1>5, <1>6, <1>7, <1>8, CapApply, CapDecides, CapBinds
          DEF Tick, Spawns

(* CapInv is inductive, given the others.                                  *)
LEMMA CapStep == TypeInv /\ SlotInv /\ PlanInv /\ CapInv /\ [Next]_vars => CapInv'
  <1> SUFFICES ASSUME TypeInv, SlotInv, PlanInv, CapInv, [Next]_vars PROVE CapInv'
    OBVIOUS
  <1>1. CASE Door \/ Environment
    BY <1>1, OutsideFrame, CapKept DEF Staying, Bound, Claimed, SameTasks
  <1>2. CASE Crash
    BY <1>2, CapFree DEF Crash, Idle
  <1>3. CASE Start
    BY <1>3, CapFree DEF Start, Surveys, TypeInv, Midway, SlotInv
  <1>4. CASE UNCHANGED vars
    BY <1>4, CapKept DEF vars, Staying, Bound, Claimed
  <1> QED BY <1>1, <1>2, <1>3, <1>4, CapTick DEF Next

(* However many doors reserve and however many workers end while a tick    *)
(* runs, the worker it binds never makes more than MaxWorkers: what it     *)
(* counted when it decided still bounds what it is left with (Decide,      *)
(* apply, attempt, bind).                                                  *)
THEOREM FleetWithinCap == Spec => SpawnWithinCap
  <1>1. Init => CapInv
    BY DEF Init, CapInv, Claimed
  <1>2. TypeInv /\ SlotInv /\ PlanInv /\ CapInv /\ [Next]_vars => CapInv'
    BY CapStep
  <1>3. TypeInv /\ SlotInv /\ PlanInv /\ CapInv /\ [Next]_vars
        => [Bind => Cardinality(Bound') <= MaxWorkers]_vars
    BY CapBinds
  <1> QED BY <1>1, <1>2, <1>3, TypeAlways, SlotAlways, PlanAlways, PTL DEF Spec, SpawnWithinCap

-----------------------------------------------------------------------------
(* The deaths counted.  A reconciliation is not cut short by a crash here: *)
(* one that is loses the counts, see amnesia.cfg.                          *)

(* Until it ends, the document on disk counts no more than the one read.   *)
DeathInv ==
  pc \in Reconciling => \A t \in Task : disk.deaths[t] <= start.doc.deaths[t]

(* Wherever the counts are, they are numbers.                              *)
LEMMA CountsType ==
  ASSUME TypeInv, NEW t \in Task
  PROVE  deaths[t] \in Nat /\ disk.deaths[t] \in Nat /\ start.doc.deaths[t] \in Nat
  BY DEF TypeInv, TypeOK, Survey, Document

(* A save while reconciling writes an empty memory.                        *)
LEMMA DeathsWritten ==
  ASSUME TypeInv, FreshInv, pc \in Reconciling, DeathInv, UNCHANGED deaths,
         start'.doc.deaths = start.doc.deaths,
         Save \/ disk'.deaths = disk.deaths
  PROVE  \A t \in Task : disk'.deaths[t] <= start'.doc.deaths[t]
  <1>1. \A t \in Task : deaths[t] = 0 /\ start.doc.deaths[t] \in Nat
    BY DEF FreshInv, Fresh, TypeInv, TypeOK, Survey, Document
  <1> QED BY <1>1 DEF Save, DeathInv

(* What a step outside the daemon does to the document's counts.           *)
LEMMA OutsideSaves ==
  ASSUME TypeInv, Door \/ Environment
  PROVE  /\ (DoorReserves /\ Save) \/ disk'.deaths = disk.deaths
         /\ ~DoorReserves => disk'.attempts = disk.attempts
  <1> USE DEF Loop
  <1>1. CASE Door
    BY <1>1 DEF Door, DoorReads, DoorReserves
  <1>2. ASSUME NEW p \in Pane,
               Claims(p) \/ Submits(p) \/ AgentTurns(p) \/ AgentDies(p) \/ PaneCloses(p)
        PROVE  UNCHANGED disk
    BY <1>2 DEF Claims, Submits, AgentTurns, AgentDies, PaneCloses
  <1>3. ASSUME NEW t \in Task,
               \/ Reviewed(t) \/ Cancelled(t) \/ Released(t) \/ Amended(t)
               \/ TakenByOthers(t) \/ LeaseExpires(t)
        PROVE  UNCHANGED disk
    BY <1>3 DEF Reviewed, Cancelled, Released, Amended, TakenByOthers, LeaseExpires
  <1>4. ASSUME NEW p \in Pane, TimePasses(p)
        PROVE  disk'.deaths = disk.deaths /\ disk'.attempts = disk.attempts
    BY <1>4 DEF TimePasses, TypeInv, TypeOK, Document
  <1> QED BY <1>1, <1>2, <1>3, <1>4 DEF Environment

(* DeathInv is inductive, given the others.                                *)
LEMMA DeathStep ==
  TypeInv /\ FreshInv /\ DeathInv /\ [Next]_vars => DeathInv'
  <1> SUFFICES ASSUME TypeInv, FreshInv, DeathInv, [Next]_vars PROVE DeathInv'
    OBVIOUS
  <1>1. CASE Tick /\ ~TickAdopts /\ ~Adopt
    BY <1>1, FreshTick DEF DeathInv, Fresh
  <1>2. CASE Start \/ TickAdopts
    <2>1. pc = "idle"
      BY <1>2 DEF Start, TickAdopts, TypeInv, Midway
    <2>2. UNCHANGED pc \/ (UNCHANGED disk /\ start'.doc = disk)
      BY <1>2 DEF Start, TickAdopts, Surveys, NoStart
    <2>3. \A t \in Task : disk.deaths[t] \in Nat
      BY CountsType
    <2> QED BY <2>1, <2>2, <2>3 DEF DeathInv
  <1>3. CASE Answers
    BY <1>3, AnswersFrame, DeathsWritten DEF DeathInv
  <1>4. CASE AdoptCommits \/ Reap
    BY <1>4 DEF AdoptCommits, Reap, DeathInv
  <1>5. CASE Door \/ Environment
    BY <1>5, OutsideFrame, OutsideSaves, DeathsWritten DEF DeathInv
  <1>6. CASE Crash
    BY <1>6 DEF Crash, Idle, DeathInv
  <1>7. CASE UNCHANGED vars
    BY <1>7 DEF vars, DeathInv
  <1> QED BY <1>1, <1>2, <1>3, <1>4, <1>5, <1>6, <1>7 DEF Next, Adopt, Answers

(* A count of n deaths of t is held somewhere after the step.              *)
Carried(t, n) == n <= deaths'[t] \/ n <= disk'.deaths[t] \/ n <= start'.doc.deaths[t]
CarriedAll(t) == /\ Carried(t, deaths[t]) /\ Carried(t, disk.deaths[t])
                 /\ Carried(t, start.doc.deaths[t])

(* With the counts in memory and in the document in hand alone, what is    *)
(* written loses none.                                                     *)
LEMMA CountsKept ==
  ASSUME TypeInv, FreshInv, DiskIsMemory, DeathInv, UNCHANGED deaths,
         start'.doc.deaths = start.doc.deaths,
         (up /\ Save) \/ disk'.deaths = disk.deaths, NEW t \in Task
  PROVE  CarriedAll(t)
  <1>1. CASE disk'.deaths = disk.deaths
    BY <1>1, CountsType DEF CarriedAll, Carried
  <1>2. CASE up /\ Save /\ ~unadopted /\ pc \notin Reconciling
    BY <1>2, CountsType DEF Save, DiskIsMemory, CarriedAll, Carried
  <1>3. CASE up /\ Save /\ ~unadopted /\ pc \in Reconciling
    BY <1>3, CountsType DEF DeathInv, CarriedAll, Carried
  <1>4. CASE unadopted /\ Save
    BY <1>4, CountsType DEF Save, CarriedAll, Carried
  <1> QED BY <1>1, <1>2, <1>3, <1>4

(* The tick's own steps: only the board's trail clears a count, and a      *)
(* death raises one.                                                       *)
LEMMA CountsTick ==
  ASSUME TypeInv, FreshInv, DiskIsMemory, DeathInv, Tick, ~TickAdopts, ~Adopt,
         NEW t \in Task, t \notin acted
  PROVE  CarriedAll(t)
  <1>0. ~Fresh /\ up /\ ~unadopted /\ pc \notin Reconciling /\ UNCHANGED life
    BY FreshTick DEF Fresh
  <1>1. disk.deaths = deaths /\ start.doc.deaths[t] = 0 /\ UNCHANGED start
    BY <1>0 DEF DiskIsMemory, FreshInv
  <1>2. CASE TickStart \/ CountDeath
    <2>1. deaths[t] <= deaths'[t]
      BY <1>2, CountsType DEF TickStart, CountDeath, TypeInv, TypeOK
    <2> QED BY <1>1, <2>1, CountsType DEF CarriedAll, Carried
  <1>3. CASE ~TickStart /\ ~CountDeath
    <2>1. UNCHANGED deaths /\ (Save \/ UNCHANGED disk)
      <3>1. CASE ReadReady \/ TickFails \/ Decide
        BY <3>1 DEF ReadReady, TickFails, Decide
      <3>2. CASE FinishRetire \/ SweepClaim \/ SweepOwed
        BY <3>2 DEF FinishRetire, SweepClaim, SweepOwed
      <3>3. CASE Bind \/ Unreserve \/ \E u \in Task : TakeSlot(u)
        BY <3>3 DEF Bind, Unreserve, TakeSlot
      <3>4. CASE Spawns \/ \E p \in Pane : Apply(p)
        BY <3>4, SpawnsFrame, ApplyFrame
      <3> QED BY <1>3, <3>1, <3>2, <3>3, <3>4 DEF Tick, Spawns
    <2> QED BY <1>0, <1>1, <2>1, CountsKept
  <1> QED BY <1>2, <1>3

(* Every step keeps every count the board has not forgotten.               *)
LEMMA CountsStep ==
  ASSUME "adopt" \notin Faults, TypeInv, FreshInv, DiskIsMemory, DeathInv, Next,
         NEW t \in Task, t \notin acted
  PROVE  CarriedAll(t)
  <1>1. CASE Tick /\ ~TickAdopts /\ ~Adopt
    BY <1>1, CountsTick
  <1>2. CASE Start \/ TickAdopts
    <2>1. CASE UNCHANGED start
      BY <1>2, <2>1, CountsKept DEF Start, TickAdopts
    <2>2. CASE Surveys
      <3>1. /\ UNCHANGED <<disk, deaths>> /\ start'.doc = disk
            /\ pc \notin Reconciling
        BY <1>2, <2>2 DEF Start, TickAdopts, Surveys, NoStart, TypeInv, Midway
      <3>2. start.doc.deaths[t] = 0
        BY <3>1 DEF FreshInv
      <3> QED BY <3>1, <3>2, CountsType DEF CarriedAll, Carried
    <2> QED BY <1>2, <2>1, <2>2 DEF Start, TickAdopts
  <1>3. CASE Answers
    <2>1. up
      BY <1>3, AnswersFrame DEF TypeInv, Midway
    <2> QED BY <1>3, <2>1, AnswersFrame, CountsKept
  <1>4. CASE AdoptCommits
    <2>1. /\ pc \in Reconciling /\ deaths' = start.doc.deaths /\ disk'.deaths = deaths'
      BY <1>4 DEF AdoptCommits, CarriedDeaths
    <2>2. deaths[t] = 0 /\ disk.deaths[t] <= start.doc.deaths[t]
      BY <2>1 DEF FreshInv, Fresh, DeathInv
    <2> QED BY <2>1, <2>2, CountsType DEF CarriedAll, Carried
  <1>5. CASE Reap
    <2>1. UNCHANGED <<disk, deaths>> /\ start.doc.deaths[t] = 0
      BY <1>5 DEF Reap, FreshInv
    <2> QED BY <2>1, CountsType DEF CarriedAll, Carried
  <1>6. CASE Door \/ Environment
    <2>1. DoorReserves => up
      BY DEF DoorReserves, FreshInv
    <2> QED BY <1>6, <2>1, OutsideFrame, OutsideSaves, CountsKept
  <1>7. CASE Crash
    <2>1. UNCHANGED disk /\ start.doc.deaths[t] = 0 /\ pc \notin Reconciling
      BY <1>7 DEF Crash, FreshInv
    <2>2. deaths[t] <= disk.deaths[t]
      BY <1>7, <2>1, CountsType DEF Crash, FreshInv, Fresh, DiskIsMemory
    <2> QED BY <2>1, <2>2, CountsType DEF CarriedAll, Carried
  <1> QED BY <1>1, <1>2, <1>3, <1>4, <1>5, <1>6, <1>7 DEF Next, Adopt, Answers

(* A death once counted is forgotten by nothing but an act on the task's   *)
(* trail, wherever the count is held: ticks, doors, crashes and restarts   *)
(* keep it, so long as no crash falls inside a reconciliation              *)
(* (countDeathLocked, clearDeaths, saveLocked, Adopt).                     *)
THEOREM DeathsRemembered ==
  ASSUME "adopt" \notin Faults PROVE Spec => DeathsKept
  <1> DEFINE Forgets == \A t \in Task, n \in 1..MaxWorkerDeaths :
                          Recorded(t, n) /\ ~Recorded(t, n)' => t \in acted
  <1>1. Init => DeathInv
    BY DEF Init, DeathInv
  <1>2. TypeInv /\ FreshInv /\ DeathInv /\ [Next]_vars => DeathInv'
    BY DeathStep
  <1>3. /\ TypeInv /\ TypeInv' /\ FreshInv /\ DiskIsMemory /\ DeathInv /\ [Next]_vars
        => [Forgets]_vars
    <2> SUFFICES ASSUME TypeInv, TypeInv', FreshInv, DiskIsMemory, DeathInv, Next,
                        NEW t \in Task, NEW n \in 1..MaxWorkerDeaths, t \notin acted,
                        Recorded(t, n)
                 PROVE  Recorded(t, n)'
      OBVIOUS
    <2>1. CarriedAll(t)
      BY CountsStep
    <2>2. deaths[t] \in Nat /\ disk.deaths[t] \in Nat /\ start.doc.deaths[t] \in Nat
      BY CountsType
    <2>3. deaths'[t] \in Nat /\ disk'.deaths[t] \in Nat /\ start'.doc.deaths[t] \in Nat
      BY DEF TypeInv, TypeOK, Survey, Document
    <2> QED BY <2>1, <2>2, <2>3 DEF Recorded, CarriedAll, Carried
  <1> QED BY <1>1, <1>2, <1>3, TypeAlways, FreshAlways, DocumentIsMemory, PTL
          DEF Spec, DeathsKept

-----------------------------------------------------------------------------
(* The reservations made.  Here herdr answers every start-up, no crash     *)
(* falls inside a reconciliation and no other principal drops a            *)
(* reservation: by each of the three a reservation is lost (README).       *)

Tidy == "herdr" \notin Faults /\ "adopt" \notin Faults /\ "rebase" \notin Acts

(* No door is served before the first reconciliation ends, and a           *)
(* reservation is spent for a worker already bound.                        *)
PromiseInv ==
  /\ ~unadopted
  /\ pc \in Reconciling \cup {"reap"} => door = NoTask
  /\ pc \in Reconciling => \A t \in Task : attempts[t] = Unreserved
  /\ pc = "unreserve" => \E p \in Pane : bindings[p].task = cur.task

(* The tick's own steps.                                                   *)
LEMMA PromiseTick ==
  ASSUME TypeInv, FreshInv, PromiseInv, Tick, ~TickAdopts, ~Adopt
  PROVE  PromiseInv'
  <1>0. ~unadopted' /\ pc \notin Reconciling
    BY FreshTick DEF Fresh
  <1>1. CASE Bind
    <2>1. cur.pane \in Pane /\ cur.task \in Task
      BY <1>1 DEF Bind, TypeInv, Midway
    <2>2. bindings'[cur.pane].task = cur'.task
      BY <1>1, <2>1, BindingsMade DEF Bind, TypeInv, TypeOK
    <2> QED BY <1>0, <1>1, <2>1, <2>2 DEF Bind, PromiseInv
  <1>2. CASE ~Bind
    <2>1. pc' \notin Reconciling \cup {"reap", "unreserve"}
      <3>1. CASE TickStart \/ ReadReady \/ TickFails \/ Decide
        BY <3>1 DEF TickStart, ReadReady, TickFails, Decide, Idle
      <3>2. CASE FinishRetire \/ CountDeath \/ SweepClaim \/ SweepOwed \/ Unreserve
        BY <3>2 DEF FinishRetire, CountDeath, SweepClaim, SweepOwed, Unreserve, Idle,
                    BackToAct
      <3>3. CASE Spawns \/ (\E p \in Pane : Apply(p)) \/ \E t \in Task : TakeSlot(t)
        BY <3>3, SpawnsFrame, ApplyFrame DEF TakeSlot
      <3> QED BY <1>2, <3>1, <3>2, <3>3 DEF Tick, Spawns
    <2> QED BY <1>0, <2>1 DEF PromiseInv
  <1> QED BY <1>1, <1>2

(* PromiseInv is inductive, given the others.                              *)
LEMMA PromiseStep ==
  ASSUME Tidy PROVE TypeInv /\ FreshInv /\ PromiseInv /\ [Next]_vars => PromiseInv'
  <1> SUFFICES ASSUME TypeInv, FreshInv, PromiseInv, [Next]_vars PROVE PromiseInv'
    OBVIOUS
  <1>1. CASE Tick /\ ~TickAdopts /\ ~Adopt
    BY <1>1, PromiseTick
  <1>2. CASE Start
    BY <1>2 DEF Start, Surveys, FreshInv, PromiseInv, Tidy
  <1>3. CASE TickAdopts
    BY <1>3 DEF TickAdopts, PromiseInv
  <1>4. CASE Answers
    BY <1>4, AnswersFrame DEF PromiseInv
  <1>5. CASE AdoptCommits \/ Reap
    BY <1>5 DEF AdoptCommits, Reap, PromiseInv
  <1>6. CASE Door \/ Environment
    <2>1. /\ pc' \in Reconciling \cup {"reap"} => door' = NoTask
          /\ pc' \in Reconciling => UNCHANGED attempts
      BY <1>6, OutsideQuiet, OutsideFrame DEF PromiseInv, Serving
    <2> QED BY <1>6, <2>1, OutsideFrame DEF PromiseInv, SameTasks
  <1>7. CASE Crash
    BY <1>7 DEF Crash, Idle, PromiseInv
  <1>8. CASE UNCHANGED vars
    BY <1>8 DEF vars, PromiseInv
  <1> QED BY <1>1, <1>2, <1>3, <1>4, <1>5, <1>6, <1>7, <1>8 DEF Next, Adopt, Answers

(* With the reservations in memory and in the document in hand alone.      *)
LEMMA PromisesKept ==
  ASSUME PromiseInv, UNCHANGED <<attempts, up>>, start'.doc.attempts = start.doc.attempts,
         up \/ disk'.attempts = disk.attempts, NEW t \in Task, Promised(t)
  PROVE  Promised(t)'
  BY DEF Promised, PromiseInv

(* A reservation goes only for a worker, a board that no longer offers the *)
(* task, or the last of its tries.                                         *)
LEMMA PromisesTick ==
  ASSUME TypeInv, FreshInv, PromiseInv, Tick, ~TickAdopts, ~Adopt, NEW t \in Task,
         Promised(t), BoundTo(t) = {}, board[t] = Todo, ~(attempts[t] >= MaxSpawnAttempts)
  PROVE  Promised(t)'
  <1>0. ~Fresh /\ UNCHANGED life /\ up
    BY FreshTick DEF Fresh
  <1>1. CASE ReadReady
    <2>1. UNCHANGED start
      BY <1>1 DEF ReadReady
    <2>2. attempts'[t] = attempts[t]
      BY <1>1 DEF ReadReady, Offered
    <2> QED BY <1>0, <2>1, <2>2 DEF Promised, PromiseInv
  <1>2. ASSUME NEW u \in Task, TakeSlot(u) PROVE Promised(t)'
    <2>1. attempts \in [Task -> Tries] /\ UNCHANGED start
      BY <1>2 DEF TypeInv, TypeOK, TakeSlot
    <2>2. attempts[t] # Unreserved => attempts'[t] # Unreserved
      <3>1. CASE t = u
        <4>1. attempts'[t] = IF attempts[t] = Unreserved THEN 1 ELSE attempts[t] + 1
          BY <1>2, <2>1, <3>1 DEF TakeSlot, Spent
        <4>2. attempts[t] \in Int /\ attempts[t] >= -1
          BY <2>1, ConstantsOK DEF Tries, Unreserved, ConstantsOK
        <4> QED BY <4>1, <4>2 DEF Unreserved
      <3>2. CASE t # u
        BY <1>2, <2>1, <3>2 DEF TakeSlot
      <3> QED BY <3>1, <3>2
    <2> QED BY <1>0, <2>1, <2>2 DEF Promised, PromiseInv
  <1>3. CASE Unreserve
    <2>1. t # cur.task
      BY <1>3 DEF Unreserve, PromiseInv, BoundTo
    <2>2. attempts'[t] = attempts[t] /\ UNCHANGED start
      BY <1>3, <2>1 DEF Unreserve, TypeInv, TypeOK
    <2> QED BY <1>0, <2>2 DEF Promised, PromiseInv
  <1>4. CASE TickStart \/ TickFails \/ Decide
    BY <1>0, <1>4, PromisesKept DEF TickStart, TickFails, Decide
  <1>5. CASE FinishRetire \/ CountDeath \/ SweepClaim \/ SweepOwed \/ Bind
    BY <1>0, <1>5, PromisesKept DEF FinishRetire, CountDeath, SweepClaim, SweepOwed, Bind
  <1>6. CASE Spawns \/ \E p \in Pane : Apply(p)
    BY <1>0, <1>6, SpawnsFrame, ApplyFrame, PromisesKept
  <1> QED BY <1>1, <1>2, <1>3, <1>4, <1>5, <1>6 DEF Tick, Spawns

(* The same of every step of the system.                                   *)
LEMMA PromisesStep ==
  ASSUME Tidy, TypeInv, FreshInv, DiskIsMemory, PromiseInv, Next, NEW t \in Task,
         Promised(t), BoundTo(t) = {}, board[t] = Todo, ~(attempts[t] >= MaxSpawnAttempts)
  PROVE  Promised(t)'
  <1>1. CASE Tick /\ ~TickAdopts /\ ~Adopt
    BY <1>1, PromisesTick
  <1>2. CASE Start
    <2>1. /\ UNCHANGED attempts /\ start'.doc = disk /\ ~up
          /\ start.doc.attempts[t] = Unreserved
      BY <1>2 DEF Start, Surveys, NoStart, Tidy, FreshInv, TypeInv, Midway
    <2> QED BY <2>1 DEF Promised, FreshInv
  <1>3. CASE Answers
    <2>1. up
      BY <1>3, AnswersFrame DEF TypeInv, Midway
    <2> QED BY <1>3, <2>1, AnswersFrame, PromisesKept
  <1>4. CASE AdoptCommits
    <2>1. /\ attempts' = start.doc.attempts /\ pc \in Reconciling /\ up
      BY <1>4 DEF AdoptCommits, Tidy, TypeInv, Midway
    <2>2. attempts[t] = Unreserved
      BY <2>1 DEF PromiseInv
    <2> QED BY <2>1, <2>2 DEF Promised, PromiseInv
  <1>5. CASE Reap
    <2>1. UNCHANGED <<attempts, disk, up, unadopted>> /\ start.doc.attempts[t] = Unreserved
      BY <1>5 DEF Reap, FreshInv
    <2> QED BY <2>1 DEF Promised
  <1>6. CASE DoorReserves
    <2>1. up /\ attempts \in [Task -> Tries] /\ UNCHANGED <<up, start>>
      BY <1>6 DEF DoorReserves, FreshInv, TypeInv, TypeOK
    <2>2. attempts[t] # Unreserved => attempts'[t] # Unreserved
      BY <1>6, <2>1 DEF DoorReserves, Unreserved
    <2> QED BY <2>1, <2>2 DEF Promised, PromiseInv
  <1>7. CASE (Door \/ Environment) /\ ~DoorReserves
    <2>1. UNCHANGED attempts /\ disk'.attempts = disk.attempts
      BY <1>7, OutsideQuiet, OutsideSaves
    <2> QED BY <1>7, <2>1, OutsideFrame, PromisesKept
  <1>8. CASE Crash
    <2>1. /\ up /\ ~up' /\ UNCHANGED disk /\ pc \notin Reconciling
      BY <1>8 DEF Crash, Tidy
    <2>2. attempts = disk.attempts /\ start.doc.attempts[t] = Unreserved
      BY <2>1 DEF DiskIsMemory, PromiseInv, FreshInv
    <2> QED BY <2>1, <2>2 DEF Promised, PromiseInv
  <1> QED BY <1>1, <1>2, <1>3, <1>4, <1>5, <1>6, <1>7, <1>8
          DEF Next, Adopt, Answers, TickAdopts, PromiseInv

(* An accepted dispatch is dropped for nothing but a worker bound to the   *)
(* task, a board that no longer offers it or the last of its tries, across *)
(* crashes and restarts (Dispatch, attempt, unreserve, snapshot, Adopt).   *)
THEOREM DispatchIsKept ==
  ASSUME Tidy PROVE Spec => ReservationKept
  <1> DEFINE Breaks == \A t \in Task : Promised(t) /\ ~Promised(t)' =>
                         \/ BoundTo(t) # {} \/ board[t] # Todo
                         \/ attempts[t] >= MaxSpawnAttempts
  <1>1. Init => PromiseInv
    BY DEF Init, PromiseInv
  <1>2. TypeInv /\ FreshInv /\ PromiseInv /\ [Next]_vars => PromiseInv'
    BY PromiseStep
  <1>3. TypeInv /\ FreshInv /\ DiskIsMemory /\ PromiseInv /\ [Next]_vars => [Breaks]_vars
    BY PromisesStep
  <1> QED BY <1>1, <1>2, <1>3, TypeAlways, FreshAlways, DocumentIsMemory, PTL
          DEF Spec, ReservationKept

-----------------------------------------------------------------------------
(* Tasks held back.  With no door to reserve for a task whose count it     *)
(* read too early, no reservation is held for a task that has killed       *)
(* MaxWorkerDeaths workers, in memory or in a document, and so no slot; a  *)
(* death is counted for a task whose worker was bound, and what is bound   *)
(* is not reserved until the next tick has read the board.                 *)

Spared(tries, count) ==
  \A t \in Task : tries[t] # Unreserved => count[t] < MaxWorkerDeaths
Idling == {"act", "drop", "count", "sweep"}

HeldInv ==
  /\ door = NoTask
  /\ Spared(attempts, deaths) /\ Spared(disk.attempts, disk.deaths)
  /\ Spared(start.doc.attempts, start.doc.deaths)
  /\ \A t \in ready \cup spawns : deaths[t] < MaxWorkerDeaths
  /\ pc = "ready" => held = Reserved
  /\ pc \in {"panes"} \cup Idling \cup Slotted =>
       \A p \in Pane : bindings[p].task \notin Reserved
  /\ pc = "unreserve" => \A p \in Pane : bindings[p].task \in Reserved
                                          => bindings[p].task = cur.task
  /\ pc \in {"drop", "count"} => cur.task \in Task \ (Reserved \cup spawns)
  /\ pc \in Slotted => deaths[cur.task] < MaxWorkerDeaths

USE DEF Idling

(* What is saved is spared if what is remembered is.                       *)
LEMMA SparedSaved ==
  ASSUME HeldInv, Spared(attempts', deaths'), Save \/ UNCHANGED disk
  PROVE  Spared(disk'.attempts, disk'.deaths)
  BY DEF HeldInv, Save

(* Steps that leave the counts, the reservations and what was decided      *)
(* alone, end bindings and stay within the tick's bookkeeping.             *)
LEMMA HeldKept ==
  ASSUME TypeInv, SlotInv, HeldInv, UNCHANGED <<attempts, deaths, ready, held, spawns, door>>,
         BindingsShrink, start'.doc.deaths = start.doc.deaths,
         start'.doc.attempts = start.doc.attempts,
         Spared(disk'.attempts, disk'.deaths),
         \/ UNCHANGED <<pc, cur>>
         \/ pc \in Slotted \cup Idling /\ pc' \in {"act", "sweep"}
         \/ pc = "drop" /\ pc' = "count" /\ cur'.task = cur.task
         \/ pc = "act" /\ pc' = "drop" /\ cur'.task \in Task /\ BoundTo(cur'.task) # {}
         \/ pc \in Slotted /\ pc' \in Slotted /\ cur'.task = cur.task
         \/ pc' \in Resting
  PROVE  HeldInv'
  <1>1. \A p \in Pane : bindings'[p].task \in Reserved => bindings[p].task \in Reserved
    BY ConstantsOK DEF BindingsShrink, Reserved, ConstantsOK
  <1>2. Reserved' = Reserved
    BY DEF Reserved
  <1>3. \A p \in Pane : bindings'[p].task \in Reserved => bindings'[p].task = bindings[p].task
    BY ConstantsOK DEF BindingsShrink, Reserved, ConstantsOK
  <1>4. ASSUME pc = "act", BoundTo(cur'.task) # {}
        PROVE  cur'.task \notin Reserved /\ cur'.task \notin spawns
    BY <1>4 DEF HeldInv, SlotInv, BoundTo
  <1>5. /\ door' = NoTask /\ Spared(attempts, deaths)'
        /\ Spared(start.doc.attempts, start.doc.deaths)'
        /\ \A t \in ready' \cup spawns' : deaths'[t] < MaxWorkerDeaths
    BY DEF HeldInv, Spared
  <1>6. /\ (pc = "ready" => held = Reserved)'
        /\ (pc \in {"drop", "count"} => cur.task \in Task \ (Reserved \cup spawns))'
        /\ (pc \in Slotted => deaths[cur.task] < MaxWorkerDeaths)'
    BY <1>2, <1>4 DEF HeldInv
  <1>7. (pc \in {"panes"} \cup Idling \cup Slotted =>
           \A p \in Pane : bindings[p].task \notin Reserved)'
    BY <1>1, <1>2 DEF HeldInv
  <1>8. (pc = "unreserve" => \A p \in Pane : bindings[p].task \in Reserved
                                             => bindings[p].task = cur.task)'
    BY <1>1, <1>2, <1>3 DEF HeldInv
  <1> QED BY <1>5, <1>6, <1>7, <1>8 DEF HeldInv

(* The tick's reads: counts only fall, and what is left reserved is        *)
(* offered, unbound and spared.                                            *)
LEMMA HeldReads ==
  ASSUME TypeInv, SlotInv, HeldInv, TickStart \/ ReadReady \/ TickFails \/ Decide
  PROVE  HeldInv'
  <1>0. attempts \in [Task -> Tries] /\ deaths \in [Task -> Nat]
        /\ MaxWorkerDeaths \in Nat /\ ready \subseteq Task /\ spawns \subseteq Task
        /\ 0 < MaxWorkerDeaths
    BY ConstantsOK DEF TypeInv, TypeOK, ConstantsOK
  <1>1. CASE TickStart
    <2>1. \A t \in Task : deaths'[t] = 0 \/ deaths'[t] = deaths[t]
      BY <1>1 DEF TickStart
    <2>2. Spared(attempts', deaths') /\ UNCHANGED <<attempts, ready, spawns, start, door>>
      BY <1>0, <1>1, <2>1 DEF TickStart, HeldInv, Spared
    <2>3. \A t \in ready' \cup spawns' : deaths'[t] < MaxWorkerDeaths
      BY <1>0, <2>1, <2>2 DEF HeldInv
    <2>4. Spared(disk'.attempts, disk'.deaths)
      BY <1>1, <2>2, SparedSaved DEF TickStart
    <2>5. pc' = "ready" /\ held' = Reserved'
      BY <1>1 DEF TickStart, Reserved
    <2> QED BY <2>2, <2>3, <2>4, <2>5 DEF HeldInv
  <1>2. CASE ReadReady
    <2>1. /\ UNCHANGED <<bindings, deaths, spawns, start, door>> /\ pc' = "panes"
          /\ held = Reserved /\ Save
      BY <1>2 DEF ReadReady, HeldInv
    <2>2. /\ held' \subseteq held /\ \A t \in held' : BoundTo(t) = {}
          /\ \A t \in Task : attempts'[t] = IF t \in held \ held' THEN Unreserved
                                           ELSE attempts[t]
          /\ ready' \subseteq held' \cup {t \in Task : ~HeldBack(t)}
      BY <1>2 DEF ReadReady, Offered
    <2>3. Reserved' = held'
      BY <2>1, <2>2 DEF Reserved
    <2>4. Spared(attempts', deaths')
      BY <2>1, <2>2 DEF HeldInv, Spared
    <2>5. \A t \in ready' : deaths'[t] < MaxWorkerDeaths
      BY <1>0, <2>1, <2>2 DEF HeldInv, HeldBack, Spared, Reserved
    <2>6. \A p \in Pane : bindings'[p].task \notin Reserved'
      BY <2>1, <2>2, <2>3 DEF BoundTo
    <2>7. Spared(disk'.attempts, disk'.deaths)
      BY <2>1, <2>4, SparedSaved
    <2> QED BY <2>1, <2>4, <2>5, <2>6, <2>7 DEF HeldInv, Spared
  <1>3. CASE TickFails
    BY <1>3 DEF TickFails, Idle, HeldInv
  <1>4. CASE Decide
    BY <1>4 DEF Decide, Fills, HeldInv, Reserved
  <1> QED BY <1>1, <1>2, <1>3, <1>4

(* An action applied to a binding: a pane closed is one that was bound.    *)
LEMMA HeldApply ==
  ASSUME TypeInv, SlotInv, PlanInv, HeldInv, NEW p \in Pane, Apply(p) PROVE HeldInv'
  <1>0. /\ UNCHANGED <<life, attempts, deaths, ready, held, spawns, door>> /\ pc = "act"
        /\ plan[p] # {} /\ (UNCHANGED disk \/ Save)
    BY ApplyFrame
  <1>1. Spared(disk'.attempts, disk'.deaths)
    BY <1>0, SparedSaved DEF HeldInv
  <1>2. BindingsShrink
    <2>1. CASE ApplyUnbind(p)
      BY <2>1, DropShrinks DEF ApplyUnbind
    <2>2. CASE ~ApplyUnbind(p)
      BY <2>2, EditsKeepTasks, UntouchedShrink DEF Apply, ApplyRetire, AgentMissing, PromptFails
    <2> QED BY <2>1, <2>2
  <1>3. bindings[p].task \in Task /\ BoundTo(bindings[p].task) # {}
    BY <1>0 DEF PlanInv, TypeInv, TypeOK, Binding, BoundTo
  <1>4. \/ UNCHANGED <<pc, cur>> \/ pc' = "sweep"
        \/ pc' = "drop" /\ cur'.task = bindings[p].task
    BY DEF Apply, ApplyRearm, ApplyNotify, SkipShot, ApplyRetire, ApplyUnbind, PromptLands,
           PromptFails, AgentMissing, At
  <1> QED BY <1>0, <1>1, <1>2, <1>3, <1>4, HeldKept

(* The endings: the death counted is of a task nothing is reserved for.    *)
LEMMA HeldEndings ==
  ASSUME TypeInv, SlotInv, HeldInv, FinishRetire \/ CountDeath \/ SweepClaim \/ SweepOwed
  PROVE  HeldInv'
  <1>1. CASE FinishRetire
    <2>1. BindingsShrink
      BY <1>1, DropShrinks DEF FinishRetire, TypeInv, Midway
    <2>2. Spared(disk'.attempts, disk'.deaths)
      BY <1>1, SparedSaved DEF FinishRetire, HeldInv
    <2>3. /\ pc = "drop" /\ UNCHANGED <<attempts, deaths, ready, held, spawns, door, start>>
          /\ pc' = "act" \/ (pc' = "count" /\ cur' = cur)
      BY <1>1 DEF FinishRetire
    <2> QED BY <2>1, <2>2, <2>3, HeldKept
  <1>2. CASE CountDeath
    <2>1. /\ pc = "count" /\ pc' = "act" /\ Save
          /\ UNCHANGED <<attempts, bindings, ready, held, spawns, door, start>>
          /\ \A t \in Task \ {cur.task} : deaths'[t] = deaths[t]
      BY <1>2 DEF CountDeath, TypeInv, TypeOK
    <2>2. cur.task \notin Reserved /\ cur.task \notin spawns /\ ready = {}
      BY <2>1 DEF HeldInv, SlotInv
    <2>3. Spared(attempts', deaths')
      BY <2>1, <2>2 DEF HeldInv, Spared, Reserved
    <2>4. Spared(disk'.attempts, disk'.deaths)
      BY <2>1, <2>3, SparedSaved
    <2>5. \A t \in ready' \cup spawns' : deaths'[t] < MaxWorkerDeaths
      BY <2>1, <2>2 DEF HeldInv, TypeInv, TypeOK
    <2>6. \A p \in Pane : bindings'[p].task \notin Reserved'
      BY <2>1 DEF HeldInv, Reserved
    <2> QED BY <2>1, <2>3, <2>4, <2>5, <2>6 DEF HeldInv
  <1>3. CASE SweepClaim
    BY <1>3, UntouchedShrink, HeldKept DEF SweepClaim, HeldInv
  <1>4. CASE SweepOwed
    BY <1>4 DEF SweepOwed, Idle, HeldInv
  <1> QED BY <1>1, <1>2, <1>3, <1>4

(* A slot is taken for a task spared and unbound.                          *)
LEMMA HeldTakes ==
  ASSUME TypeInv, SlotInv, HeldInv, NEW t \in Task, TakeSlot(t) PROVE HeldInv'
  <1>1. /\ t \in spawns /\ spawns' \subseteq spawns /\ t \notin spawns' /\ Save /\ pc = "act"
        /\ UNCHANGED <<bindings, deaths, ready, held, door, start>>
        /\ pc' = "act" \/ (pc' = "prepare" /\ cur'.task = t)
    BY DEF TakeSlot, Next1, At
  <1>2. deaths[t] < MaxWorkerDeaths /\ BoundTo(t) = {}
    BY <1>1 DEF HeldInv, SlotInv
  <1>3. \A u \in Task \ {t} : attempts'[u] = attempts[u]
    BY DEF TakeSlot, TypeInv, TypeOK
  <1>4. Spared(attempts', deaths')
    BY <1>1, <1>2, <1>3 DEF HeldInv, Spared
  <1>5. Spared(disk'.attempts, disk'.deaths)
    BY <1>1, <1>4, SparedSaved
  <1>6. \A p \in Pane : bindings'[p].task \notin Reserved'
    BY <1>1, <1>2, <1>3 DEF HeldInv, Reserved, BoundTo
  <1>7. \A u \in ready' \cup spawns' : deaths'[u] < MaxWorkerDeaths
    BY <1>1 DEF HeldInv
  <1> QED BY <1>1, <1>2, <1>4, <1>5, <1>6, <1>7 DEF HeldInv

(* The binding made is of the slot's task, whose reservation is spent next.*)
LEMMA HeldBinds ==
  ASSUME TypeInv, SlotInv, HeldInv, Bind \/ Unreserve PROVE HeldInv'
  <1>0. Save /\ ready = {} /\ pc \in {"bind", "unreserve"}
        /\ UNCHANGED <<deaths, ready, held, spawns, door, start>>
    BY DEF Bind, Unreserve, SlotInv
  <1>1. CASE Bind
    <2>1. pc' = "unreserve" /\ UNCHANGED <<attempts, cur>> /\ pc = "bind"
          /\ cur.task \in Task
      BY <1>1 DEF Bind, TypeInv, Midway
    <2>2. \A p \in Pane : bindings'[p].task \in {bindings[p].task, cur.task}
      BY <1>1, <2>1, BindingsMade DEF Bind, TypeInv, TypeOK
    <2>3. \A p \in Pane : bindings'[p].task \in Reserved' => bindings'[p].task = cur'.task
      BY <2>1, <2>2 DEF HeldInv, Reserved
    <2>4. Spared(disk'.attempts, disk'.deaths) /\ Spared(attempts', deaths')
      BY <1>0, <2>1, SparedSaved DEF HeldInv
    <2> QED BY <1>0, <2>1, <2>3, <2>4 DEF HeldInv
  <1>2. CASE Unreserve
    <2>1. pc' = "act" /\ UNCHANGED bindings /\ pc = "unreserve"
      BY <1>2 DEF Unreserve, BackToAct
    <2>2. /\ \A t \in Task \ {cur.task} : attempts'[t] = attempts[t]
          /\ cur.task \in Task => attempts'[cur.task] = Unreserved
      BY <1>2 DEF Unreserve, TypeInv, TypeOK
    <2>3. \A p \in Pane : bindings'[p].task \notin Reserved'
      BY <2>1, <2>2 DEF HeldInv, Reserved
    <2>4. Spared(attempts', deaths')
      BY <1>0, <2>2 DEF HeldInv, Spared
    <2>5. Spared(disk'.attempts, disk'.deaths)
      BY <1>0, <2>4, SparedSaved
    <2> QED BY <1>0, <2>1, <2>3, <2>4, <2>5 DEF HeldInv
  <1> QED BY <1>1, <1>2

(* A reconciliation restores the counts and the reservations together.     *)
LEMMA HeldAdopts ==
  ASSUME TypeInv, SlotInv, HeldInv, Start \/ TickAdopts \/ Adopt PROVE HeldInv'
  <1>1. CASE Start \/ TickAdopts
    <2>1. /\ UNCHANGED <<memory, disk, ready, held, spawns, door>> /\ pc = "idle"
          /\ pc' \in {"idle", "adopt"} /\ (UNCHANGED start \/ start'.doc = disk)
      BY <1>1 DEF Start, TickAdopts, Surveys, NoStart, TypeInv, Midway
    <2> QED BY <2>1 DEF HeldInv
  <1>2. CASE Answers
    <2>1. Spared(disk'.attempts, disk'.deaths)
      BY <1>2, AnswersFrame, SparedSaved DEF HeldInv
    <2> QED BY <1>2, <2>1, AnswersFrame, UntouchedShrink, HeldKept
  <1>3. CASE AdoptCommits
    <2>1. /\ attempts' = start.doc.attempts \/ attempts' = Nothing.attempts
          /\ deaths' = start.doc.deaths /\ disk'.attempts = attempts'
          /\ disk'.deaths = deaths' /\ pc' = "reap" /\ start'.doc = Nothing
          /\ UNCHANGED <<ready, held, spawns, door>> /\ pc = "adopt"
      BY <1>3, NoDocument DEF AdoptCommits, CarriedDeaths, NoStart
    <2>2. Spared(attempts', deaths') /\ Spared(start'.doc.attempts, start'.doc.deaths)
      BY <2>1 DEF HeldInv, Spared, Nothing
    <2>3. ready' = {} /\ spawns' = {}
      BY <2>1 DEF SlotInv
    <2> QED BY <2>1, <2>2, <2>3 DEF HeldInv
  <1>4. CASE Reap
    <2>1. /\ UNCHANGED <<memory, disk, ready, held, spawns, door>> /\ pc' = "idle"
          /\ start'.doc = Nothing
      BY <1>4, NoDocument DEF Reap
    <2>2. Spared(start'.doc.attempts, start'.doc.deaths)
      BY <2>1 DEF Spared, Nothing
    <2> QED BY <2>1, <2>2 DEF HeldInv
  <1> QED BY <1>1, <1>2, <1>3, <1>4 DEF Adopt, Answers

(* HeldInv is inductive, given the others.                                 *)
LEMMA HeldStep ==
  ASSUME "dispatch" \notin Acts
  PROVE  TypeInv /\ SlotInv /\ PlanInv /\ HeldInv /\ [Next]_vars => HeldInv'
  <1> SUFFICES ASSUME TypeInv, SlotInv, PlanInv, HeldInv, [Next]_vars PROVE HeldInv'
    OBVIOUS
  <1>1. CASE Spawns
    <2>1. Spared(disk'.attempts, disk'.deaths)
      BY <1>1, SpawnsFrame, SparedSaved DEF HeldInv
    <2> QED BY <1>1, <2>1, SpawnsFrame, UntouchedShrink, HeldKept
  <1>2. CASE Tick /\ ~Spawns
    BY <1>2, HeldReads, HeldApply, HeldEndings, HeldTakes, HeldBinds, HeldAdopts
       DEF Tick, Spawns
  <1>3. CASE Door \/ Environment
    <2>1. /\ UNCHANGED attempts /\ door' = NoTask /\ UNCHANGED <<tick, deaths>>
          /\ start'.doc.deaths = start.doc.deaths /\ disk'.attempts = disk.attempts
          /\ start'.doc.attempts = start.doc.attempts /\ disk'.deaths = disk.deaths
      BY <1>3, OutsideQuiet, OutsideFrame, OutsideSaves DEF HeldInv
    <2>2. BindingsShrink /\ door = NoTask /\ Spared(disk'.attempts, disk'.deaths)
      BY <1>3, <2>1, OutsideFrame DEF SameTasks, BindingsShrink, HeldInv
    <2> QED BY <2>1, <2>2, HeldKept
  <1>4. CASE Crash
    <2>1. start'.doc = Nothing /\ UNCHANGED disk /\ attempts' = Nothing.attempts
          /\ ready' = {} /\ spawns' = {} /\ pc' = "idle" /\ door' = NoTask
      BY <1>4, NoDocument DEF Crash, Forget, Idle
    <2>2. Spared(attempts', deaths') /\ Spared(start'.doc.attempts, start'.doc.deaths)
      BY <2>1 DEF Spared, Nothing
    <2> QED BY <2>1, <2>2 DEF HeldInv
  <1>5. CASE Start
    BY <1>5, HeldAdopts
  <1>6. CASE UNCHANGED vars
    BY <1>6, HeldKept, UntouchedShrink DEF vars, HeldInv
  <1> QED BY <1>1, <1>2, <1>3, <1>4, <1>5, <1>6 DEF Next

(* No worker is started for a task that has killed MaxWorkerDeaths of      *)
(* them, by a tick's own choice, a reservation kept from an earlier one or *)
(* one restored by a start, so long as no door reserves from a count it    *)
(* read before the last of those deaths (snapshot, attempt, spawn).        *)
THEOREM NoMoreWorkers ==
  ASSUME "dispatch" \notin Acts PROVE Spec => []NoWorkerAfterDeaths
  <1>1. Init => HeldInv
    <2> SUFFICES ASSUME Init PROVE HeldInv
      OBVIOUS
    <2>1. disk = Nothing /\ start.doc = Nothing /\ attempts = Nothing.attempts
      BY NoDocument DEF Init
    <2> QED BY <2>1 DEF Init, HeldInv, Spared, Nothing
  <1>2. TypeInv /\ SlotInv /\ PlanInv /\ HeldInv /\ [Next]_vars => HeldInv'
    BY HeldStep
  <1>3. HeldInv => NoWorkerAfterDeaths
    BY DEF HeldInv, NoWorkerAfterDeaths
  <1> QED BY <1>1, <1>2, <1>3, TypeAlways, SlotAlways, PlanAlways, PTL DEF Spec
=============================================================================
