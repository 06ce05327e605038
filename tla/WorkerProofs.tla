---------------------------- MODULE WorkerProofs ----------------------------
(* One live worker per task, in a checkout nobody takes away and driven by *)
(* the dispatcher, and the refinement of Fleet, for every value of the     *)
(* constants, so long as herdr does close the panes it is asked to close.  *)
(* Without that the first two are false: README, section 6.                *)
EXTENDS SafetyProofs

USE DEF world, memory, tick, life, Watching

-----------------------------------------------------------------------------
(* The inductive invariant.  Neither property is inductive: that a drop    *)
(* removes a checkout nobody is in rests on a binding's pane being the     *)
(* only one that can be in it, and on a pane being closed before its       *)
(* binding goes; that a spawn opens the first pane in a checkout rests on  *)
(* the branch having been free when it was cut and on the slot it holds.   *)

(* No live pane but p, if p is one, works where p does.                    *)
Alone(p) == \A q \in Pane : agent[q] \in Listed /\ work[q] = work[p] => q = p

(* A binding names the task its pane was opened for.                       *)
Seated(p, b) == b.task = work[p] /\ agent[p] # "free"

Opened == {"start", "confirm", "undo", "bind"}
Adopting == Reconciling \cup {"reap"}
USE DEF Adopting, Reconciling

Bindings(doc) == \A p \in Pane : doc[p].task # NoTask => Seated(p, doc[p])

(* Nothing surveyed and nothing kept.                                      *)
Blank(s) == s.found = {} /\ \A p \in Pane : s.doc.bindings[p].task = NoTask
                                          /\ s.kept[p].task = NoTask

(* A reconciliation in progress: what it found and keeps are panes opened  *)
(* for the task they are kept for and alone on it, every checkout somebody *)
(* is in will be spared by its reap, and the pane it is giving up on is    *)
(* closed before its checkout goes.                                        *)
StartInv ==
  /\ Bindings(start.doc.bindings) /\ Bindings(start.kept)
  /\ \A p \in Pane : start.kept[p].task # NoTask => Alone(p)
  /\ \A p \in start.found : agent[p] # "free" /\ Alone(p)
  /\ IF pc \in Adopting
     THEN \A p \in Pane : agent[p] \in Listed => work[p] \in start.lived
     ELSE Blank(start)
  /\ pc \in Watching => cur.pane \in start.found /\ cur.task = work[cur.pane]
  /\ pc = "restored" => agent[cur.pane] = "gone"

SoleInv ==
  /\ OnePanePerTask /\ CheckoutOutlivesPane
  /\ Bindings(bindings) /\ Bindings(disk.bindings)
  /\ \A p \in Pane : bindings[p].task # NoTask => Alone(p)
  /\ \A p \in Pane : plan[p] # {} => agent[p] # "free"
  /\ \A p \in Pane : "unbind" \in plan[p] => agent[p] = "gone"
  /\ pc \in {"drop", "undo"} => agent[cur.pane] = "gone"
  /\ pc = "open" => /\ cur.task \in tree
                    /\ \A q \in Pane : agent[q] \in Listed => work[q] # cur.task
  /\ pc \in Opened => /\ work[cur.pane] = cur.task /\ agent[cur.pane] # "free"
                      /\ Alone(cur.pane)
  /\ StartInv

-----------------------------------------------------------------------------
(* Steps that open no pane, make no binding and remove no checkout.        *)

(* Panes live on or close; none is opened.                                 *)
PanesFade ==
  \A p \in Pane : /\ agent'[p] \in Listed => agent[p] \in Listed
                  /\ agent[p] # "free" => agent'[p] # "free"
                  /\ agent[p] = "gone" => agent'[p] = "gone"

(* The document keeps its binding of a pane or takes the one in memory.    *)
DiskFollows ==
  \A p \in Pane : disk'.bindings[p].task \in {disk.bindings[p].task, bindings'[p].task}

(* The tick stays where it is in its spawn or its ending, or leaves it; it *)
(* enters the closing of a pane only with the pane closed.                 *)
TickMoves ==
  /\ pc' \in {"drop", "undo"} =>
       cur'.pane \in Pane /\ (agent'[cur'.pane] = "gone" \/ UNCHANGED <<pc, cur>>)
  /\ pc' = "open" => UNCHANGED <<pc, cur>> /\ tree \subseteq tree'
  /\ pc' \in Opened => pc \in Opened /\ UNCHANGED cur
  /\ pc' \in Watching => cur'.pane \in start'.found /\ cur'.task = work[cur'.pane]
  /\ pc' = "restored" => agent'[cur'.pane] = "gone"

(* A reconciliation answers for panes it found, keeps one for the task it  *)
(* was opened for, and forgets nothing its reap must spare.                *)
StartFollows ==
  /\ \A p \in Pane : start'.doc.bindings[p].task \in {start.doc.bindings[p].task, NoTask}
  /\ \A p \in Pane : \/ start'.kept[p].task \in {start.kept[p].task, NoTask}
                     \/ p \in start.found /\ start'.kept[p].task = work[p]
  /\ start'.found \subseteq start.found
  /\ IF pc' \in Adopting THEN pc \in Adopting /\ start.lived \subseteq start'.lived
                          ELSE Blank(start')

PlanShrinks == \A p \in Pane : plan'[p] \subseteq plan[p]

(* Such a step keeps what the reconciliation relies on.                    *)
LEMMA StartKept ==
  ASSUME TypeInv, SoleInv, UNCHANGED work, PanesFade, StartFollows, TickMoves
  PROVE  StartInv'
  <1>0. start.found \subseteq Pane
    BY DEF TypeInv, TypeOK, Survey
  <1>1. Bindings(start.doc.bindings)'
    BY DEF SoleInv, StartInv, Bindings, Seated, PanesFade, StartFollows
  <1>2. Bindings(start.kept)'
    BY DEF SoleInv, StartInv, Bindings, Seated, PanesFade, StartFollows
  <1>3. \A p \in Pane : Alone(p) => Alone(p)'
    BY DEF Alone, PanesFade
  <1>4. \A p \in Pane : (start.kept[p].task # NoTask => Alone(p))'
    BY <1>3 DEF SoleInv, StartInv, StartFollows
  <1>5. \A p \in start'.found : (agent[p] # "free" /\ Alone(p))'
    BY <1>0, <1>3 DEF SoleInv, StartInv, StartFollows, PanesFade
  <1>6. (IF pc \in Adopting
         THEN \A p \in Pane : agent[p] \in Listed => work[p] \in start.lived
         ELSE Blank(start))'
    BY DEF SoleInv, StartInv, StartFollows, PanesFade, Blank
  <1>7. (/\ pc \in Watching => cur.pane \in start.found /\ cur.task = work[cur.pane]
         /\ pc = "restored" => agent[cur.pane] = "gone")'
    BY DEF TickMoves
  <1> QED BY <1>1, <1>2, <1>4, <1>5, <1>6, <1>7 DEF StartInv

(* With nothing surveyed there is nothing to rely on.                      *)
LEMMA StartBlank ==
  ASSUME Blank(start'), pc' \notin Adopting PROVE StartInv'
  BY DEF Blank, StartInv, Bindings

(* With no reconciliation in progress nothing is surveyed and nothing kept. *)
LEMMA BlankNoStart == Blank(NoStart)
  BY BindingsMade DEF Blank, NoStart, Nothing

(* A step of another part of the tick, or outside it, follows.             *)
LEMMA StartSteady ==
  ASSUME SoleInv, UNCHANGED start, UNCHANGED pc \/ (pc \notin Adopting /\ pc' \notin Adopting)
  PROVE  StartFollows
  BY DEF SoleInv, StartInv, StartFollows, Blank

(* Outside a reconciliation, a step that starts none has nothing to carry. *)
LEMMA StartStill ==
  ASSUME SoleInv, UNCHANGED start, pc \notin Adopting, pc' \notin Adopting
  PROVE  StartFollows /\ StartInv'
  <1>1. Blank(start')
    BY DEF SoleInv, StartInv
  <1> QED BY <1>1, StartBlank, StartSteady

(* Such a step keeps the invariant if it leaves live panes their checkouts. *)
LEMMA SoleKept ==
  ASSUME TypeInv, SoleInv, UNCHANGED work, PanesFade, BindingsShrink, DiskFollows,
         TickMoves, PlanShrinks, StartFollows, CheckoutOutlivesPane'
  PROVE  SoleInv'
  <1>1. OnePanePerTask'
    BY DEF SoleInv, OnePanePerTask, PanesFade
  <1>2. Bindings(bindings)' /\ Bindings(disk.bindings)'
    BY DEF SoleInv, Bindings, Seated, PanesFade, BindingsShrink, DiskFollows
  <1>3. \A p \in Pane : Alone(p) => Alone(p)'
    BY DEF Alone, PanesFade
  <1>4. \A p \in Pane : (bindings[p].task # NoTask => Alone(p))'
    BY <1>3 DEF SoleInv, BindingsShrink
  <1>5. \A p \in Pane : (plan[p] # {} => agent[p] # "free")'
    BY DEF SoleInv, PanesFade, PlanShrinks
  <1>6. \A p \in Pane : ("unbind" \in plan[p] => agent[p] = "gone")'
    BY DEF SoleInv, PanesFade, PlanShrinks
  <1>7. (pc \in {"drop", "undo"} => agent[cur.pane] = "gone")'
    BY DEF SoleInv, PanesFade, TickMoves
  <1>8. (pc = "open" => /\ cur.task \in tree
                        /\ \A q \in Pane : agent[q] \in Listed => work[q] # cur.task)'
    BY DEF SoleInv, PanesFade, TickMoves
  <1>9. ASSUME pc' \in Opened
        PROVE  (/\ work[cur.pane] = cur.task /\ agent[cur.pane] # "free"
                /\ Alone(cur.pane))'
    <2>1. pc \in Opened /\ cur' = cur /\ cur.pane \in Pane
      BY <1>9 DEF TickMoves, TypeInv, Midway, Opened, Spawning
    <2>2. Alone(cur.pane)'
      BY <2>1 DEF SoleInv, Alone, PanesFade
    <2> QED BY <2>1, <2>2 DEF SoleInv, PanesFade
  <1> QED BY <1>1, <1>2, <1>4, <1>5, <1>6, <1>7, <1>8, <1>9, StartKept DEF SoleInv

(* A step outside the tick leaves it where it is.                          *)
LEMMA StaysPut ==
  ASSUME TypeInv, SoleInv, UNCHANGED <<work, tree, pc, cur>>, PanesFade,
         start'.found = start.found
  PROVE  TickMoves
  BY DEF TickMoves, PanesFade, SoleInv, StartInv, TypeInv, Midway, Ending, Spawning, Opened

(* saveLocked writes what is in memory, or nothing.                        *)
LEMMA SaveFollows == ASSUME Save PROVE DiskFollows
  BY DEF Save, DiskFollows

(* The tick stays, leaves its spawn or its ending, or goes on in its spawn.*)
QuietMove ==
  \/ UNCHANGED <<pc, cur>>
  \/ pc \notin Adopting /\ pc' \notin Opened \cup {"drop", "open"} \cup Adopting
  \/ pc \in Opened /\ pc' \in Opened \ {"undo"} /\ UNCHANGED cur

(* With the panes, the checkouts and the bindings' tasks alone.            *)
LEMMA SoleQuiet ==
  ASSUME TypeInv, SoleInv, UNCHANGED <<start, agent, work, tree>>, BindingsShrink, DiskFollows,
         PlanShrinks, QuietMove
  PROVE  SoleInv'
  <1>1. PanesFade
    BY DEF PanesFade
  <1>2. CheckoutOutlivesPane'
    BY DEF SoleInv, CheckoutOutlivesPane
  <1>3. StartFollows
    BY StartSteady DEF QuietMove, Opened
  <1>4. TickMoves
    BY DEF QuietMove, TickMoves, TypeInv, Midway, Opened, Spawning, Ending, SoleInv, StartInv
  <1> QED BY <1>1, <1>2, <1>3, <1>4, SoleKept

(* The same with the bindings and the document untouched too.              *)
LEMMA SoleIdle ==
  ASSUME TypeInv, SoleInv, UNCHANGED <<start, agent, work, tree, bindings, disk>>, PlanShrinks,
         QuietMove
  PROVE  SoleInv'
  <1>1. DiskFollows /\ BindingsShrink
    BY DEF DiskFollows, BindingsShrink
  <1> QED BY <1>1, SoleQuiet

-----------------------------------------------------------------------------
(* The tick's reads and what it decides.  An unbind is decided for a bound *)
(* pane herdr does not list, and a bound pane has been opened: it is gone. *)

(* The reads keep the invariant, and the decision establishes its plan part. *)
LEMMA SoleReads ==
  ASSUME TypeInv, SoleInv, TickStart \/ ReadReady \/ TickFails \/ Decide
  PROVE  SoleInv'
  <1>1. CASE TickStart \/ ReadReady
    <2>1. UNCHANGED <<start, agent, work, tree, bindings, plan>> /\ Save
      BY <1>1 DEF TickStart, ReadReady
    <2>2. QuietMove
      BY <1>1 DEF QuietMove, TickStart, ReadReady, Opened
    <2>3. PlanShrinks
      BY <2>1 DEF PlanShrinks
    <2> QED BY <2>1, <2>2, <2>3, UntouchedShrink, SaveFollows, SoleQuiet
  <1>2. CASE TickFails
    <2>1. UNCHANGED <<start, agent, work, tree, bindings, disk>> /\ plan' = NoPlan
      BY <1>2 DEF TickFails, Idle
    <2>2. QuietMove
      BY <1>2 DEF QuietMove, TickFails, Idle, Opened
    <2>3. PlanShrinks
      BY <2>1 DEF PlanShrinks, NoPlan
    <2> QED BY <2>1, <2>2, <2>3, SoleIdle
  <1>3. CASE Decide
    <2>1. ASSUME NEW p \in Pane, "unbind" \in plan'[p] PROVE agent[p] = "gone"
      <3>1. p \in Bound /\ Asked(p, "unbind")
        BY <1>3, <2>1 DEF Decide, Verdict
      <3>2. ~Alive(p)
        BY <3>1 DEF Asked
      <3>3. agent[p] # "free"
        BY <3>1 DEF Bound, SoleInv, Bindings, Seated
      <3> QED BY <3>2, <3>3 DEF Alive, Listed, Agents, TypeInv, TypeOK, AgentState
    <2>2. ASSUME NEW p \in Pane, plan'[p] # {} PROVE agent[p] # "free"
      BY <1>3, <2>2 DEF Decide, Verdict, Bound, SoleInv, Bindings, Seated
    <2>3. /\ UNCHANGED <<start, agent, work, tree, bindings, disk>>
          /\ pc = "panes" /\ pc' = "act"
      BY <1>3 DEF Decide
    <2> QED BY <2>1, <2>2, <2>3, StartStill
            DEF Opened, SoleInv, OnePanePerTask, CheckoutOutlivesPane, Bindings, Seated, Alone
  <1> QED BY <1>1, <1>2, <1>3

-----------------------------------------------------------------------------
(* Applying what was decided.                                              *)

(* A pane nobody can be told apart from is closed, and only then dropped.  *)
LEMMA Closes ==
  ASSUME TypeInv, "retire" \notin Faults, NEW p \in Pane, ClosePane(p), agent[p] # "free",
         SoleInv, UNCHANGED <<work, tree>>
  PROVE  PanesFade /\ agent'[p] = "gone" /\ CheckoutOutlivesPane'
  <1>1. agent' = [agent EXCEPT ![p] = "gone"]
    BY DEF ClosePane
  <1>2. PanesFade /\ agent'[p] = "gone"
    BY <1>1 DEF PanesFade, TypeInv, TypeOK, Listed, Agents
  <1> QED BY <1>2 DEF PanesFade, SoleInv, CheckoutOutlivesPane

(* A closing the tick starts, of a worker or of a half-built pane.         *)
LEMMA SoleCloses ==
  ASSUME TypeInv, SoleInv, "retire" \notin Faults, NEW p \in Pane, ClosePane(p),
         agent[p] # "free", UNCHANGED <<start, work, tree, bindings, disk>>, PlanShrinks,
         pc \notin Adopting, pc' \in {"drop", "undo"}, cur'.pane = p,
         pc' = "undo" => pc \in Opened /\ UNCHANGED cur
  PROVE  SoleInv'
  <1>1. PanesFade /\ agent'[p] = "gone" /\ CheckoutOutlivesPane'
    BY Closes
  <1>2. TickMoves
    BY <1>1 DEF TickMoves, Opened
  <1>3. DiskFollows /\ BindingsShrink /\ StartFollows
    BY StartStill DEF DiskFollows, BindingsShrink
  <1> QED BY <1>1, <1>2, <1>3, SoleKept

(* A drop of a closed pane takes a checkout no live pane is in.            *)
LEMMA Drops ==
  ASSUME TypeInv, SoleInv, NEW p \in Pane, Drop(p), agent[p] = "gone",
         UNCHANGED <<agent, work>>
  PROVE  BindingsShrink /\ CheckoutOutlivesPane'
  <1>1. BindingsShrink
    BY DropShrinks
  <1>2. tree' \in {tree \ {bindings[p].task}, tree}
    BY DEF Drop, RemoveTree
  <1>3. ASSUME NEW q \in Pane, agent[q] \in Listed PROVE work[q] # bindings[p].task
    <2>1. CASE bindings[p].task = NoTask
      BY <1>3, <2>1, ConstantsOK DEF TypeInv, Midway, ConstantsOK
    <2>2. CASE bindings[p].task # NoTask
      <3>1. bindings[p].task = work[p] /\ Alone(p)
        BY <2>2 DEF SoleInv, Bindings, Seated
      <3>2. p # q
        BY <1>3 DEF Listed, Agents
      <3> QED BY <1>3, <3>1, <3>2 DEF Alone
    <2> QED BY <2>1, <2>2
  <1>4. CheckoutOutlivesPane'
    BY <1>2, <1>3 DEF SoleInv, CheckoutOutlivesPane
  <1> QED BY <1>1, <1>4

(* Every action applied to a binding keeps the invariant.                  *)
LEMMA SoleApply ==
  ASSUME TypeInv, SoleInv, "retire" \notin Faults, NEW p \in Pane, Apply(p)
  PROVE  SoleInv'
  <1>0. plan \in [Pane -> SUBSET Kind] /\ pc = "act"
    BY DEF TypeInv, TypeOK, Apply, ApplyRearm, ApplyNotify, SkipShot, ApplyRetire,
           ApplyUnbind, PromptLands, AgentMissing, PromptFails, Prompts, Due
  <1>1. ASSUME NEW kind, Applied(p, kind) PROVE PlanShrinks
    BY <1>0, <1>1 DEF Applied, PlanShrinks
  <1>2. CASE ApplyRearm(p) \/ ApplyNotify(p) \/ SkipShot(p)
    <2>1. UNCHANGED <<start, agent, work, tree, pc, cur>> /\ Save
      BY <1>2 DEF ApplyRearm, ApplyNotify, SkipShot
    <2>2. PlanShrinks
      BY <1>1, <1>2 DEF ApplyRearm, ApplyNotify, SkipShot
    <2>3. BindingsShrink
      BY <1>2, EditsKeepTasks
    <2> QED BY <2>1, <2>2, <2>3, SaveFollows, SoleQuiet DEF QuietMove
  <1>3. ASSUME NEW kind, PromptLands(p, kind) PROVE SoleInv'
    <2>1. UNCHANGED <<start, agent, work, tree, pc, cur>> /\ Save /\ PlanShrinks
      BY <1>1, <1>3 DEF PromptLands, Prompts
    <2>2. BindingsShrink
      BY <1>3, EditsKeepTasks
    <2> QED BY <2>1, <2>2, SaveFollows, SoleQuiet DEF QuietMove
  <1>4. ASSUME NEW kind, PromptFails(p, kind) PROVE SoleInv'
    <2>1. UNCHANGED <<start, agent, work, tree, bindings, disk, pc, cur>> /\ PlanShrinks
      BY <1>1, <1>4 DEF PromptFails, Prompts
    <2> QED BY <2>1, SoleIdle DEF QuietMove
  <1>5. ASSUME NEW kind, AgentMissing(p, kind) PROVE SoleInv'
    <2>1. PlanShrinks
      BY <1>1, <1>5 DEF AgentMissing, Prompts
    <2>2. CASE missing'[p] < DeadWorkerStreak
      <3>1. UNCHANGED <<start, agent, work, tree, bindings, disk, pc, cur>>
        BY <1>5, <2>2 DEF AgentMissing
      <3> QED BY <2>1, <3>1, SoleIdle DEF QuietMove
    <2>3. CASE ~(missing'[p] < DeadWorkerStreak)
      <3>1. ClosePane(p) /\ pc' = "drop" /\ cur'.pane = p
        BY <1>5, <2>3 DEF AgentMissing, At
      <3>2. UNCHANGED <<start, work, tree, bindings, disk>> /\ agent[p] # "free"
        BY <1>5 DEF AgentMissing, Prompts, Due, SoleInv
      <3> QED BY <1>0, <2>1, <3>1, <3>2, SoleCloses
    <2> QED BY <2>2, <2>3
  <1>6. CASE ApplyUnbind(p)
    <2>1. agent[p] = "gone" /\ Drop(p) /\ UNCHANGED <<agent, work>>
      BY <1>6 DEF ApplyUnbind, Due, SoleInv
    <2>2. PlanShrinks /\ DiskFollows /\ pc' = "sweep"
      BY <1>1, <1>6, SaveFollows DEF ApplyUnbind
    <2>3. TickMoves
      BY <2>2 DEF TickMoves, Opened
    <2>4. PanesFade /\ StartFollows
      BY <1>0, <1>6, <2>1, <2>2, StartStill DEF PanesFade, ApplyUnbind
    <2> QED BY <2>1, <2>2, <2>3, <2>4, Drops, SoleKept
  <1>7. CASE ApplyRetire(p)
    <2>1. ClosePane(p) /\ pc' = "drop" /\ cur'.pane = p
      BY <1>7 DEF ApplyRetire, At
    <2>2. UNCHANGED <<start, work, tree, bindings, disk>> /\ agent[p] # "free"
      BY <1>7 DEF ApplyRetire, Due, SoleInv
    <2>3. PlanShrinks
      BY <1>1, <1>7 DEF ApplyRetire
    <2> QED BY <1>0, <2>1, <2>2, <2>3, SoleCloses
  <1> QED BY <1>2, <1>3, <1>4, <1>5, <1>6, <1>7 DEF Apply

(* What follows a closing: the binding dropped, the death counted, the     *)
(* claim swept.                                                            *)
LEMMA SoleEndings ==
  ASSUME TypeInv, SoleInv, FinishRetire \/ CountDeath \/ SweepClaim \/ SweepOwed
  PROVE  SoleInv'
  <1>1. CASE FinishRetire
    <2>1. cur.pane \in Pane /\ agent[cur.pane] = "gone" /\ Drop(cur.pane)
      BY <1>1 DEF FinishRetire, TypeInv, Midway, Ending, SoleInv
    <2>2. UNCHANGED <<start, agent, work, plan>> /\ Save /\ pc' \in {"act", "count"}
          /\ pc = "drop"
      BY <1>1 DEF FinishRetire
    <2>3. TickMoves
      BY <2>2 DEF TickMoves, Opened
    <2>4. PanesFade /\ PlanShrinks /\ StartFollows
      BY <2>2, StartStill DEF PanesFade, PlanShrinks
    <2> QED BY <2>1, <2>2, <2>3, <2>4, Drops, SaveFollows, SoleKept
  <1>2. CASE CountDeath
    <2>1. UNCHANGED <<start, agent, work, tree, bindings, plan>> /\ Save
          /\ pc = "count" /\ pc' = "act"
      BY <1>2 DEF CountDeath
    <2>2. QuietMove /\ PlanShrinks
      BY <2>1 DEF QuietMove, PlanShrinks, Opened
    <2> QED BY <2>1, <2>2, UntouchedShrink, SaveFollows, SoleQuiet
  <1>3. CASE SweepClaim
    <2>1. UNCHANGED <<start, agent, work, tree, bindings, disk, plan>>
          /\ pc = "sweep" /\ pc' = "act"
      BY <1>3 DEF SweepClaim
    <2> QED BY <2>1, SoleIdle DEF QuietMove, PlanShrinks, Opened
  <1>4. CASE SweepOwed
    <2>1. UNCHANGED <<start, agent, work, tree, bindings, disk>> /\ plan' = NoPlan
          /\ pc = "act" /\ pc' = "idle"
      BY <1>4 DEF SweepOwed, Idle
    <2> QED BY <2>1, SoleIdle DEF QuietMove, PlanShrinks, NoPlan, Opened
  <1> QED BY <1>1, <1>2, <1>3, <1>4

-----------------------------------------------------------------------------
(* The spawn.                                                              *)

(* A branch is cut only where no live pane works.                          *)
LEMMA SoleCut ==
  ASSUME TypeInv, SoleInv, CutCheckout PROVE SoleInv'
  <1>1. \A q \in Pane : agent[q] \in Listed => work[q] # cur.task
    BY DEF CutCheckout, BranchFree, Inhabited, SoleInv, CheckoutOutlivesPane
  <1>2. cur.task \in tree' /\ tree \subseteq tree' /\ pc' = "open"
        /\ UNCHANGED <<start, agent, work, bindings, disk, plan, cur>> /\ pc = "prepare"
    BY DEF CutCheckout
  <1> QED BY <1>1, <1>2, StartStill
          DEF SoleInv, OnePanePerTask, CheckoutOutlivesPane, Bindings, Seated, Alone, Opened

(* The pane opened in it is the first.                                     *)
LEMMA SoleOpen ==
  ASSUME TypeInv, SlotInv, SoleInv, NEW p \in Pane, OpenPane(p) PROVE SoleInv'
  <1> DEFINE t == cur.task
  <1>1. t \in Task /\ BoundTo(t) = {} /\ t \in tree
        /\ \A q \in Pane : agent[q] \in Listed => work[q] # t
    BY DEF OpenPane, SlotInv, Slotted, SoleInv, TypeInv, Midway, Spawning
  <1>2. /\ agent[p] = "free" /\ agent' = [agent EXCEPT ![p] = "bare"]
        /\ work' = [work EXCEPT ![p] = t]
        /\ pc' = "start" /\ cur'.pane = p /\ cur'.task = t
        /\ UNCHANGED <<start, tree, bindings, disk, plan>> /\ pc = "open"
    BY DEF OpenPane, At
  <1>3. /\ agent'[p] = "bare" /\ work'[p] = t
        /\ \A q \in Pane \ {p} : agent'[q] = agent[q] /\ work'[q] = work[q]
    BY <1>2 DEF TypeInv, TypeOK
  <1> HIDE DEF t
  <1>4. "bare" \in Listed /\ "free" \notin Listed
    BY DEF Listed, Agents
  <1>5. OnePanePerTask' /\ CheckoutOutlivesPane'
    BY <1>1, <1>2, <1>3 DEF SoleInv, OnePanePerTask, CheckoutOutlivesPane
  <1>6. ASSUME NEW q \in Pane, bindings[q].task # NoTask
        PROVE  q # p /\ work[q] # t /\ Seated(q, bindings[q]) /\ Alone(q)
    BY <1>1, <1>2, <1>6 DEF SoleInv, Bindings, Seated, BoundTo
  <1>7. ASSUME NEW q \in Pane, disk.bindings[q].task # NoTask
        PROVE  q # p /\ Seated(q, disk.bindings[q])
    BY <1>2, <1>7 DEF SoleInv, Bindings, Seated
  <1>8. Bindings(bindings)' /\ Bindings(disk.bindings)'
    BY <1>2, <1>3, <1>6, <1>7 DEF Bindings, Seated
  <1>9. \A q \in Pane : (bindings[q].task # NoTask => Alone(q))'
    BY <1>2, <1>3, <1>6 DEF Alone
  <1>10. \A q \in Pane :
       (/\ plan[q] # {} => agent[q] # "free"
        /\ "unbind" \in plan[q] => agent[q] = "gone")'
    BY <1>2, <1>3 DEF SoleInv
  <1>11. Alone(p)'
    BY <1>1, <1>3 DEF Alone
  <1>12. (pc \in Opened =>
            /\ work[cur.pane] = cur.task /\ agent[cur.pane] # "free" /\ Alone(cur.pane))'
    BY <1>2, <1>3, <1>11 DEF Alone
  <1>13. StartInv'
    BY <1>2, StartStill
  <1> QED BY <1>2, <1>5, <1>8, <1>9, <1>10, <1>12, <1>13 DEF SoleInv

(* A checkout cut for a pane that never came up, or for one closed again,  *)
(* is nobody's.                                                            *)
LEMMA SoleUndone ==
  ASSUME TypeInv, SoleInv, OpenFails \/ DropCheckout PROVE SoleInv'
  <1>1. UNCHANGED <<start, agent, work, bindings, disk, plan>> /\ pc' = "act"
        /\ pc \notin Adopting /\ tree' \in {tree \ {cur.task}, tree}
    BY DEF OpenFails, DropCheckout, RemoveTree, BackToAct
  <1>2. \A q \in Pane : agent[q] \in Listed => work[q] # cur.task
    <2>1. CASE OpenFails
      BY <2>1 DEF OpenFails, SoleInv
    <2>2. CASE DropCheckout
      BY <2>2 DEF DropCheckout, SoleInv, Alone, Opened, Listed, Agents
    <2> QED BY <2>1, <2>2
  <1>3. CheckoutOutlivesPane'
    BY <1>1, <1>2 DEF SoleInv, CheckoutOutlivesPane
  <1>4. PanesFade /\ PlanShrinks /\ TickMoves /\ DiskFollows /\ BindingsShrink
        /\ StartFollows
    BY <1>1, StartStill DEF PanesFade, PlanShrinks, TickMoves, DiskFollows, BindingsShrink, Opened
  <1> QED BY <1>1, <1>3, <1>4, SoleKept

(* The agent starts in the pane opened for it.                             *)
LEMMA SoleAgent ==
  ASSUME TypeInv, SoleInv, StartAgent PROVE SoleInv'
  <1>1. agent[cur.pane] = "bare" /\ cur.pane \in Pane
    BY DEF StartAgent, TypeInv, Midway, Spawning
  <1>2. PanesFade
    BY <1>1 DEF StartAgent, PanesFade, Listed, Agents, TypeInv, TypeOK
  <1>3. UNCHANGED <<start, work, tree, bindings, disk, plan, cur>>
        /\ pc = "start" /\ pc' = "confirm"
    BY DEF StartAgent
  <1>4. CheckoutOutlivesPane'
    BY <1>2, <1>3 DEF PanesFade, SoleInv, CheckoutOutlivesPane
  <1>5. PlanShrinks /\ TickMoves /\ DiskFollows /\ BindingsShrink /\ StartFollows
    BY <1>3, StartStill DEF PlanShrinks, TickMoves, DiskFollows, BindingsShrink, Opened
  <1> QED BY <1>2, <1>3, <1>4, <1>5, SoleKept

(* The binding names the pane the spawn opened, and there is no other.     *)
LEMMA SoleBind ==
  ASSUME TypeInv, SoleInv, Bind PROVE SoleInv'
  <1> DEFINE p == cur.pane
  <1>1. /\ p \in Pane /\ cur.task \in Task /\ work[p] = cur.task
        /\ agent[p] # "free" /\ Alone(p)
    BY DEF Bind, TypeInv, Midway, Spawning, SoleInv, Opened
  <1>2. bindings' = [bindings EXCEPT ![p] = NewBinding(cur.task)] /\ DiskFollows
        /\ UNCHANGED <<start, agent, work, tree, plan>> /\ pc = "bind" /\ pc' = "unreserve"
    BY SaveFollows DEF Bind
  <1>3. /\ bindings'[p].task = work[p]
        /\ \A q \in Pane \ {p} : bindings'[q] = bindings[q]
    BY <1>1, <1>2, BindingsMade DEF TypeInv, TypeOK
  <1> HIDE DEF p
  <1>4. Bindings(bindings)' /\ Bindings(disk.bindings)'
    BY <1>1, <1>2, <1>3 DEF SoleInv, Bindings, Seated, DiskFollows
  <1>5. \A q \in Pane : (bindings[q].task # NoTask => Alone(q))'
    BY <1>1, <1>2, <1>3 DEF SoleInv, Alone
  <1>6. \A q \in Pane :
       (/\ plan[q] # {} => agent[q] # "free"
        /\ "unbind" \in plan[q] => agent[q] = "gone")'
    BY <1>2 DEF SoleInv
  <1> QED BY <1>2, <1>4, <1>5, <1>6, StartStill
          DEF SoleInv, OnePanePerTask, CheckoutOutlivesPane, Opened

(* The steps of a spawn that touch neither panes nor bindings, and its     *)
(* undoing.                                                                *)
LEMMA SoleSteps ==
  ASSUME TypeInv, SoleInv, "retire" \notin Faults,
         \/ SpawnRefused \/ ConfirmGoal \/ Unreserve \/ UndoSpawn
         \/ \E t \in Task : TakeSlot(t)
  PROVE  SoleInv'
  <1>1. CASE SpawnRefused \/ ConfirmGoal
    <2>1. UNCHANGED <<start, agent, work, tree, bindings, disk, plan>> /\ QuietMove
      BY <1>1 DEF SpawnRefused, ConfirmGoal, BackToAct, QuietMove, Opened
    <2> QED BY <2>1, SoleIdle DEF PlanShrinks
  <1>2. CASE Unreserve
    <2>1. UNCHANGED <<start, agent, work, tree, bindings, plan>> /\ Save /\ QuietMove
      BY <1>2 DEF Unreserve, BackToAct, QuietMove, Opened
    <2> QED BY <2>1, UntouchedShrink, SaveFollows, SoleQuiet DEF PlanShrinks
  <1>3. CASE UndoSpawn
    <2>1. /\ ClosePane(cur.pane) /\ pc' = "undo" /\ pc \in Opened
          /\ UNCHANGED <<start, work, tree, bindings, disk, plan, cur>>
      BY <1>3 DEF UndoSpawn, Opened
    <2>2. cur.pane \in Pane /\ agent[cur.pane] # "free"
      BY <2>1 DEF TypeInv, Midway, Spawning, SoleInv, Opened
    <2>3. PlanShrinks
      BY <2>1 DEF PlanShrinks
    <2> QED BY <2>1, <2>2, <2>3, SoleCloses DEF Opened
  <1>4. ASSUME NEW t \in Task, TakeSlot(t) PROVE SoleInv'
    <2>1. UNCHANGED <<start, agent, work, tree, bindings, plan>> /\ Save
      BY <1>4 DEF TakeSlot
    <2>2. QuietMove
      BY <1>4 DEF TakeSlot, QuietMove, Opened
    <2> QED BY <2>1, <2>2, UntouchedShrink, SaveFollows, SoleQuiet DEF PlanShrinks
  <1> QED BY <1>1, <1>2, <1>3, <1>4

-----------------------------------------------------------------------------
(* A crash and a start.                                                    *)

(* A crash empties memory; the panes and the document stay as they were.   *)
LEMMA SoleCrash ==
  ASSUME TypeInv, SoleInv, Crash PROVE SoleInv'
  <1>1. /\ UNCHANGED <<agent, work, tree, disk>> /\ pc' = "idle" /\ plan' = NoPlan
        /\ start' = NoStart
    BY DEF Crash, Idle
  <1>2. BindingsShrink
    BY BindingsMade DEF Crash, Forget, Nothing, BindingsShrink
  <1>3. DiskFollows /\ PlanShrinks /\ PanesFade /\ TickMoves /\ CheckoutOutlivesPane'
    BY <1>1 DEF DiskFollows, PlanShrinks, NoPlan, PanesFade, TickMoves, Opened, SoleInv,
                CheckoutOutlivesPane
  <1>4. StartFollows
    BY <1>1, BlankNoStart DEF StartFollows, Blank
  <1> QED BY <1>1, <1>2, <1>3, <1>4, SoleKept

(* The survey: every pane it finds is live, so alone on its task, and      *)
(* every checkout somebody is in is noted for the reap.                    *)
LEMMA SoleSurveys ==
  ASSUME TypeInv, SoleInv, Start \/ TickAdopts PROVE SoleInv'
  <1>1. CASE UNCHANGED <<tick, start>>
    BY <1>1, SoleIdle DEF Start, TickAdopts, QuietMove, PlanShrinks
  <1>2. CASE Surveys
    <2>1. pc' = "adopt" /\ UNCHANGED <<agent, work, tree, disk, bindings, plan>>
      BY <1>2 DEF Surveys, Start, TickAdopts
    <2>2. /\ start'.doc = disk /\ start'.found = {p \in Pane : Ours(p)}
          /\ start'.kept = NoStart.kept /\ start'.lived = {t \in tree : Inhabited(t)}
      BY <1>2 DEF Surveys, NoStart
    <2>3. \A p \in Pane : NoStart.kept[p].task = NoTask
      BY BlankNoStart DEF Blank
    <2>4. \A p \in start'.found : p \in Pane /\ agent[p] # "free" /\ Alone(p)
      BY <2>2 DEF Ours, Alone, SoleInv, OnePanePerTask, Listed, Agents
    <2>5. \A p \in Pane : agent[p] \in Listed => work[p] \in start'.lived
      BY <2>2 DEF Inhabited, SoleInv, CheckoutOutlivesPane
    <2>6. Bindings(start.doc.bindings)' /\ Bindings(start.kept)'
      BY <2>1, <2>2, <2>3 DEF SoleInv, Bindings, Seated
    <2>7. StartInv'
      BY <2>1, <2>2, <2>3, <2>4, <2>5, <2>6 DEF StartInv, Alone
    <2> QED BY <2>1, <2>7
            DEF SoleInv, OnePanePerTask, CheckoutOutlivesPane, Bindings, Seated, Alone, Opened
  <1> QED BY <1>1, <1>2 DEF Start, TickAdopts

(* An answer for a pane found: it is let go, closed, or kept for the task  *)
(* it was opened for.                                                      *)
LEMMA SoleAnswers ==
  ASSUME TypeInv, SoleInv, "retire" \notin Faults, NEW p \in Pane,
         LetGo(p) \/ RetiresFinished(p) \/ Holds(p) \/ TakesBack(p) \/ Samples(p)
  PROVE  SoleInv'
  <1>0. /\ p \in start.found /\ pc = "adopt" /\ agent[p] # "free" /\ start \in Survey
        /\ Named(p) => start.doc.bindings[p].task = work[p] /\ TaskOf(p) = work[p]
    BY DEF LetGo, RetiresFinished, Holds, TakesBack, Samples, Reconciles, SoleInv, StartInv,
           TypeInv, TypeOK, Named, TaskOf, Bindings, Seated
  <1>1. UNCHANGED <<work, tree, bindings, plan>> /\ BindingsShrink /\ PlanShrinks
    BY DEF LetGo, RetiresFinished, Holds, TakesBack, Samples, BindingsShrink, PlanShrinks
  <1>2. ASSUME Settled(p) PROVE pc' = "adopt" => StartFollows
    BY <1>0, <1>2, SettledType DEF StartFollows
  <1>3. ASSUME NEW b \in Binding, Kept(p, b), b.task = work[p]
        PROVE  pc' = "adopt" => StartFollows
    <2>1. start.kept \in [Pane -> Binding]
      BY <1>0 DEF Survey
    <2> QED BY <1>0, <1>3, <2>1, KeptType DEF StartFollows
  <1>4. pc' = "adopt" => TickMoves
    BY DEF TickMoves, Opened
  <1>5. ASSUME UNCHANGED agent PROVE PanesFade /\ CheckoutOutlivesPane'
    BY <1>1, <1>5 DEF PanesFade, SoleInv, CheckoutOutlivesPane
  <1>6. CASE LetGo(p)
    <2>1. UNCHANGED <<agent, disk>> /\ pc' = "adopt" /\ Settled(p)
      BY <1>0, <1>6 DEF LetGo
    <2> QED BY <1>1, <1>2, <1>4, <1>5, <2>1, SoleKept DEF DiskFollows
  <1>7. CASE RetiresFinished(p)
    <2>1. UNCHANGED disk /\ pc' = "adopt" /\ Settled(p) /\ ClosePane(p)
      BY <1>0, <1>7 DEF RetiresFinished
    <2> QED BY <1>0, <1>1, <1>2, <1>4, <2>1, Closes, SoleKept DEF DiskFollows
  <1>8. CASE Holds(p)
    <2>1. UNCHANGED <<agent, disk>> /\ pc' = "adopt" /\ Kept(p, start.doc.bindings[p])
          /\ Named(p)
      BY <1>0, <1>8 DEF Holds
    <2>2. start.doc.bindings[p] \in Binding
      BY DocType
    <2> QED BY <1>0, <1>1, <1>3, <1>4, <1>5, <2>1, <2>2, SoleKept DEF DiskFollows
  <1>9. CASE TakesBack(p)
    <2>1. UNCHANGED agent /\ Save /\ pc' = "adopt" /\ Kept(p, NewBinding(work[p]))
      BY <1>0, <1>9 DEF TakesBack
    <2>2. NewBinding(work[p]) \in Binding /\ NewBinding(work[p]).task = work[p]
      BY BindingsMade DEF TypeInv, TypeOK
    <2> QED BY <1>1, <1>3, <1>4, <1>5, <2>1, <2>2, SaveFollows, SoleKept
  <1>10. CASE Samples(p)
    <2>1. /\ UNCHANGED <<start, agent, disk>> /\ pc' = "sample"
          /\ cur'.pane = p /\ cur'.task = work[p]
      BY <1>0, <1>10 DEF Samples, At
    <2>2. TickMoves
      BY <1>0, <2>1 DEF TickMoves, Opened
    <2>3. StartFollows
      BY <1>0, <2>1 DEF StartFollows
    <2> QED BY <1>1, <1>5, <2>1, <2>2, <2>3, SoleKept DEF DiskFollows
  <1> QED BY <1>6, <1>7, <1>8, <1>9, <1>10

(* A restored pane watched: kept, or closed and then its checkout removed, *)
(* in which nobody else was.                                               *)
LEMMA SoleWatches ==
  ASSUME TypeInv, SoleInv, "retire" \notin Faults, SampleLive \/ SampleIdle \/ RetiresRestored
  PROVE  SoleInv'
  <1> DEFINE p == cur.pane
  <1>0. /\ p \in Pane /\ p \in start.found /\ pc \in Watching /\ cur.task = work[p]
        /\ start \in Survey /\ Alone(p)
    BY DEF SampleLive, SampleIdle, RetiresRestored, SoleInv, StartInv, TypeInv, TypeOK,
           Midway
  <1>1. UNCHANGED <<work, bindings, plan>> /\ BindingsShrink /\ PlanShrinks
    BY DEF SampleLive, SampleIdle, RetiresRestored, BackToAdopt, BindingsShrink, PlanShrinks
  <1>2. CASE SampleLive
    <2>1. /\ UNCHANGED <<agent, tree, disk>> /\ pc' = "adopt"
          /\ Kept(p, start.doc.bindings[p])
      BY <1>2 DEF SampleLive, BackToAdopt
    <2>2. /\ start.doc.bindings[p] \in Binding /\ start.kept \in [Pane -> Binding]
          /\ start.doc.bindings[p].task \in {work[p], NoTask}
      BY <1>0, DocType DEF Survey, SoleInv, StartInv, Bindings, Seated
    <2>3. /\ start'.doc = start.doc /\ start'.found = start.found \ {p}
          /\ start'.lived = start.lived
          /\ start'.kept = [start.kept EXCEPT ![p] = start.doc.bindings[p]]
      BY <1>0, <2>1, <2>2, KeptType
    <2>4. StartFollows
      BY <1>0, <2>1, <2>2, <2>3 DEF StartFollows
    <2>5. TickMoves /\ PanesFade /\ DiskFollows /\ CheckoutOutlivesPane'
      BY <1>1, <2>1 DEF TickMoves, Opened, PanesFade, DiskFollows, SoleInv,
                        CheckoutOutlivesPane
    <2> QED BY <1>1, <2>4, <2>5, SoleKept
  <1>3. CASE SampleIdle
    <2>1. /\ UNCHANGED <<start, tree, disk, cur>> /\ pc' = "restored" /\ ClosePane(p)
          /\ agent[p] # "free"
      BY <1>3 DEF SampleIdle
    <2>2. PanesFade /\ agent'[p] = "gone" /\ CheckoutOutlivesPane'
      BY <1>0, <1>1, <2>1, Closes
    <2>3. TickMoves
      BY <1>0, <2>1, <2>2 DEF TickMoves, Opened
    <2>4. StartFollows /\ DiskFollows
      BY <1>0, <2>1 DEF StartFollows, DiskFollows
    <2> QED BY <1>1, <2>2, <2>3, <2>4, SoleKept
  <1>4. CASE RetiresRestored
    <2>1. /\ UNCHANGED agent /\ Save /\ pc' = "adopt" /\ Settled(p)
          /\ tree' \in {tree \ {cur.task}, tree} /\ agent[p] = "gone"
      BY <1>4 DEF RetiresRestored, BackToAdopt, RemoveTree, SoleInv, StartInv
    <2>2. \A q \in Pane : agent[q] \in Listed => work[q] # cur.task
      BY <1>0, <2>1 DEF Alone, Listed, Agents
    <2>3. CheckoutOutlivesPane'
      BY <1>1, <2>1, <2>2 DEF SoleInv, CheckoutOutlivesPane
    <2>4. StartFollows
      BY <1>0, <2>1, SettledType DEF StartFollows
    <2>5. TickMoves /\ PanesFade
      BY <2>1 DEF TickMoves, Opened, PanesFade
    <2> QED BY <1>1, <2>1, <2>3, <2>4, <2>5, SaveFollows, SoleKept
  <1> QED BY <1>2, <1>3, <1>4

(* The bindings kept become the daemon's, and the reap spares every        *)
(* checkout somebody is in.                                                *)
LEMMA SoleCommits ==
  ASSUME TypeInv, SoleInv, AdoptCommits \/ Reap PROVE SoleInv'
  <1>0. Blank(NoStart)
    BY BlankNoStart
  <1>1. CASE AdoptCommits
    <2>1. /\ UNCHANGED <<agent, work, tree, plan>> /\ bindings' = start.kept
          /\ disk'.bindings = bindings' /\ pc = "adopt" /\ pc' = "reap"
          /\ start' = [NoStart EXCEPT !.lived = start.lived]
      BY <1>1 DEF AdoptCommits
    <2>2. Blank(start') /\ start'.lived = start.lived
      BY <1>0, <2>1 DEF Blank, NoStart
    <2>3. StartInv'
      BY <2>1, <2>2 DEF SoleInv, StartInv, Blank, Bindings
    <2>4. Bindings(bindings)' /\ Bindings(disk.bindings)'
      BY <2>1 DEF SoleInv, StartInv, Bindings, Seated
    <2>5. \A p \in Pane : (bindings[p].task # NoTask => Alone(p))'
      BY <2>1 DEF SoleInv, StartInv, Alone
    <2> QED BY <2>1, <2>3, <2>4, <2>5
            DEF SoleInv, OnePanePerTask, CheckoutOutlivesPane, Opened
  <1>2. CASE Reap
    <2>1. /\ UNCHANGED <<agent, work, disk, bindings, plan>> /\ pc = "reap"
          /\ pc' = "idle" /\ start' = NoStart
          /\ \A t \in tree \ tree' : t \notin start.lived
      BY <1>2 DEF Reap
    <2>2. CheckoutOutlivesPane'
      BY <2>1 DEF SoleInv, StartInv, CheckoutOutlivesPane
    <2>3. StartFollows
      BY <1>0, <2>1 DEF StartFollows, Blank
    <2>4. TickMoves /\ PanesFade /\ DiskFollows /\ BindingsShrink /\ PlanShrinks
      BY <2>1 DEF TickMoves, Opened, PanesFade, DiskFollows, BindingsShrink, PlanShrinks
    <2> QED BY <2>1, <2>2, <2>3, <2>4, SoleKept
  <1> QED BY <1>1, <1>2

(* Every step of a reconciliation.                                         *)
LEMMA SoleAdopts ==
  ASSUME TypeInv, SoleInv, "retire" \notin Faults, Start \/ TickAdopts \/ Adopt
  PROVE  SoleInv'
  BY SoleSurveys, SoleAnswers, SoleWatches, SoleCommits DEF Adopt

-----------------------------------------------------------------------------
(* The environment, the theorems.                                          *)

(* Workers and herdr's users turn agents and close panes; nothing outside  *)
(* the daemon opens a pane in a task's checkout or removes one.            *)
LEMMA SoleOutside ==
  ASSUME TypeInv, SoleInv, Door \/ Environment PROVE SoleInv'
  <1> USE DEF Loop, PlanShrinks, QuietMove
  <1>1. ASSUME NEW t \in Task,
               \/ DoorReads(t) \/ Reviewed(t) \/ Cancelled(t) \/ Released(t)
               \/ Amended(t) \/ TakenByOthers(t) \/ LeaseExpires(t)
        PROVE  SoleInv'
    <2>1. UNCHANGED <<start, agent, work, tree, bindings, disk, plan, pc, cur>>
      BY <1>1 DEF DoorReads, Reviewed, Cancelled, Released, Amended, TakenByOthers,
                  LeaseExpires
    <2> QED BY <2>1, SoleIdle
  <1>2. CASE DoorReserves
    <2>1. UNCHANGED <<start, agent, work, tree, bindings, plan, pc, cur>> /\ Save
      BY <1>2 DEF DoorReserves
    <2> QED BY <2>1, UntouchedShrink, SaveFollows, SoleQuiet
  <1>3. ASSUME NEW p \in Pane, Claims(p) \/ Submits(p) PROVE SoleInv'
    <2>1. UNCHANGED <<start, agent, work, tree, bindings, disk, plan, pc, cur>>
      BY <1>3 DEF Claims, Submits
    <2> QED BY <2>1, SoleIdle
  <1>4. ASSUME NEW p \in Pane, AgentTurns(p) \/ AgentDies(p) \/ PaneCloses(p)
        PROVE  SoleInv'
    <2>1. UNCHANGED <<start, work, tree, bindings, disk, plan, pc, cur>>
      BY <1>4 DEF AgentTurns, AgentDies, PaneCloses
    <2>2. PanesFade
      BY <1>4 DEF AgentTurns, AgentDies, PaneCloses, SetAgent, PanesFade, Listed, Agents,
                  TypeInv, TypeOK
    <2>3. CheckoutOutlivesPane'
      BY <2>1, <2>2 DEF PanesFade, SoleInv, CheckoutOutlivesPane
    <2>4. TickMoves
      BY <2>1, <2>2, StaysPut
    <2>5. DiskFollows /\ BindingsShrink /\ StartFollows
      BY <2>1, StartSteady DEF DiskFollows, BindingsShrink
    <2> QED BY <2>1, <2>2, <2>3, <2>4, <2>5, SoleKept
  <1>5. ASSUME NEW p \in Pane, TimePasses(p) PROVE SoleInv'
    <2>1. UNCHANGED <<agent, work, tree, plan, pc, cur>>
      BY <1>5 DEF TimePasses
    <2>2. BindingsShrink
      BY <1>5, EditsKeepTasks
    <2>3. DiskFollows
      <3>1. disk.bindings \in [Pane -> Binding]
            /\ disk'.bindings = Aged(disk.bindings, p)
        BY <1>5 DEF TimePasses, TypeInv, TypeOK, Document
      <3> QED BY <3>1, AgedType DEF DiskFollows
    <2>4. PanesFade /\ CheckoutOutlivesPane'
      BY <2>1 DEF PanesFade, SoleInv, CheckoutOutlivesPane
    <2>5. /\ start'.found = start.found /\ start'.lived = start.lived
          /\ \A q \in Pane :
               /\ start'.doc.bindings[q].task = start.doc.bindings[q].task
               /\ start'.kept[q].task = start.kept[q].task
      BY <1>5, SurveyAged DEF TypeInv, TypeOK
    <2>6. StartFollows
      BY <2>1, <2>5 DEF StartFollows, SoleInv, StartInv, Blank
    <2>7. TickMoves
      BY <2>1, <2>4, <2>5, StaysPut
    <2> QED BY <2>1, <2>2, <2>3, <2>4, <2>6, <2>7, SoleKept DEF PlanShrinks
  <1> QED BY <1>1, <1>2, <1>3, <1>4, <1>5 DEF Door, Environment

(* SoleInv is inductive.                                                   *)
LEMMA SoleStep ==
  ASSUME "retire" \notin Faults
  PROVE  TypeInv /\ SlotInv /\ SoleInv /\ [Next]_vars => SoleInv'
  <1> SUFFICES ASSUME TypeInv, SlotInv, SoleInv, [Next]_vars PROVE SoleInv'
    OBVIOUS
  <1>1. CASE Tick
    BY <1>1, SoleReads, SoleApply, SoleEndings, SoleCut, SoleOpen, SoleUndone, SoleAgent,
       SoleBind, SoleSteps, SoleAdopts DEF Tick
  <1>2. CASE Door \/ Environment
    BY <1>2, SoleOutside
  <1>3. CASE Crash
    BY <1>3, SoleCrash
  <1>4. CASE Start
    BY <1>4, SoleAdopts
  <1>5. CASE UNCHANGED vars
    BY <1>5, SoleIdle DEF vars, QuietMove, PlanShrinks
  <1> QED BY <1>1, <1>2, <1>3, <1>4, <1>5 DEF Next

(* So the invariant holds in every reachable state.                        *)
LEMMA SoleAlways ==
  ASSUME "retire" \notin Faults PROVE Spec => []SoleInv
  <1>1. Init => SoleInv
    <2> SUFFICES ASSUME Init PROVE SoleInv
      OBVIOUS
    <2>1. Blank(start) /\ disk = Nothing
      BY BlankNoStart DEF Init
    <2>2. StartInv
      BY <2>1 DEF Init, StartInv, Blank, Bindings
    <2>3. \A p \in Pane : Nothing.bindings[p].task = NoTask
      BY BindingsMade DEF Nothing
    <2> QED BY <2>1, <2>2, <2>3
            DEF Init, SoleInv, OnePanePerTask, CheckoutOutlivesPane, Bindings, NoPlan,
                Opened, Listed, Agents
  <1>2. TypeInv /\ SlotInv /\ SoleInv /\ [Next]_vars => SoleInv'
    BY SoleStep
  <1> QED BY <1>1, <1>2, TypeAlways, SlotAlways, PTL DEF Spec

(* Whatever crashes, restarts, half-built spawns, doors and deaths come in *)
(* between, no task ever has two live panes opened for it                  *)
(* (clearBranchHolder, spawn, reconcile, drop).                            *)
THEOREM OneWorker ==
  ASSUME "retire" \notin Faults PROVE Spec => []OnePanePerTask
  <1>1. SoleInv => OnePanePerTask
    BY DEF SoleInv
  <1> QED BY <1>1, SoleAlways, PTL

(* The daemon never removes the checkout a live pane works in (drop,       *)
(* undo of a failed spawn, clearBranchHolder, reap).                       *)
THEOREM CheckoutIsSafe ==
  ASSUME "retire" \notin Faults PROVE Spec => []CheckoutOutlivesPane
  <1>1. SoleInv => CheckoutOutlivesPane
    BY DEF SoleInv
  <1> QED BY <1>1, SoleAlways, PTL

-----------------------------------------------------------------------------
(* No worker is left undriven.  A pane opened for a task is bound, or is   *)
(* the one a spawn is opening, or is a reconciliation's to answer for; the *)
(* row of its task names nobody else, because the task was unclaimed and   *)
(* nobody was in its checkout when the tick chose it, and stayed so until  *)
(* the pane was opened.  Here herdr closes what it is asked to, the board  *)
(* answers a reconciliation and no stranger's agent claims a task.         *)

Steadfast == "retire" \notin Faults /\ "board" \notin Faults /\ "foreign" \notin Acts

(* The tasks a tick may yet open a pane for.                               *)
Awaiting == ready \cup spawns \cup (IF pc \in {"prepare", "open"} THEN {cur.task} ELSE {})

DrivenInv ==
  /\ \A p \in Pane : agent[p] \in Listed => board[work[p]].by \in {NoPane, p}
  /\ up /\ ~unadopted /\ pc \notin Reconciling =>
       \A p \in Pane : agent[p] \in Listed =>
         bindings[p].task # NoTask \/ (pc \in Opened /\ cur.pane = p)
  /\ pc \in Reconciling =>
       \A p \in Pane : agent[p] \in Listed =>
         p \in start.found \/ start.kept[p].task # NoTask
  /\ pc \in Watching => start.doc.bindings[cur.pane].task # NoTask
  /\ \A t \in Awaiting : board[t].by = NoPane /\ ~Inhabited(t)

(* A row keeps its claimant or loses it.                                   *)
RowsFollow == \A t \in Task : board'[t].by \in {board[t].by, NoPane}

(* What awaits a pane is a task.                                           *)
LEMMA AwaitingTasks ==
  ASSUME TypeInv PROVE Awaiting \subseteq Task
  BY DEF Awaiting, TypeInv, TypeOK, Midway, Spawning

(* The rows of live panes and of the tasks awaiting one, over a step that  *)
(* opens no pane, enters no claim and awaits nothing more.                 *)
LEMMA RowsKept ==
  ASSUME TypeInv, DrivenInv, UNCHANGED work, PanesFade, RowsFollow, Awaiting' \subseteq Awaiting
  PROVE  /\ \A p \in Pane : agent'[p] \in Listed => board'[work'[p]].by \in {NoPane, p}
         /\ \A t \in Awaiting' : board'[t].by = NoPane /\ ~Inhabited(t)'
  <1>1. ASSUME NEW p \in Pane, agent'[p] \in Listed
        PROVE  board'[work'[p]].by \in {NoPane, p}
    <2>1. agent[p] \in Listed /\ work[p] \in Task
      BY <1>1 DEF PanesFade, TypeInv, Midway
    <2> QED BY <2>1 DEF DrivenInv, RowsFollow
  <1>2. ASSUME NEW t \in Awaiting' PROVE board'[t].by = NoPane /\ ~Inhabited(t)'
    <2>1. t \in Task /\ board[t].by = NoPane /\ ~Inhabited(t)
      BY <1>2, AwaitingTasks DEF DrivenInv
    <2> QED BY <2>1 DEF RowsFollow, Inhabited, PanesFade
  <1> QED BY <1>1, <1>2

(* Outside a reconciliation, such a step that drops no live pane's binding *)
(* and leaves a spawn only with its pane closed or bound.                  *)
LEMMA DrivenKept ==
  ASSUME TypeInv, DrivenInv, UNCHANGED <<work, up, unadopted>>, PanesFade, RowsFollow,
         Awaiting' \subseteq Awaiting, pc \notin Reconciling, pc' \notin Reconciling,
         \A p \in Pane : agent'[p] \in Listed /\ bindings[p].task # NoTask
                         => bindings'[p].task # NoTask,
         \A p \in Pane : agent'[p] \in Listed /\ pc \in Opened /\ cur.pane = p
                         => bindings'[p].task # NoTask \/ (pc' \in Opened /\ cur'.pane = p)
  PROVE  DrivenInv'
  <1>1. \A p \in Pane : agent'[p] \in Listed => agent[p] \in Listed
    BY DEF PanesFade
  <1>2. (up /\ ~unadopted /\ pc \notin Reconciling =>
           \A p \in Pane : agent[p] \in Listed =>
             bindings[p].task # NoTask \/ (pc \in Opened /\ cur.pane = p))'
    BY <1>1 DEF DrivenInv
  <1>3. pc' \notin Watching
    OBVIOUS
  <1> QED BY <1>2, <1>3, RowsKept DEF DrivenInv

(* With the panes, the rows and the bindings' tasks alone.                 *)
LEMMA DrivenQuiet ==
  ASSUME TypeInv, DrivenInv, UNCHANGED <<work, agent, board, up, unadopted>>, SameTasks,
         Awaiting' \subseteq Awaiting, pc \notin Reconciling, pc' \notin Reconciling,
         pc \in Opened => pc' \in Opened /\ cur'.pane = cur.pane
  PROVE  DrivenInv'
  <1>1. PanesFade /\ RowsFollow
    BY DEF PanesFade, RowsFollow
  <1> QED BY <1>1, DrivenKept DEF SameTasks

(* The tick's reads: a task read as unclaimed and unbound has no live pane,*)
(* or that pane would be bound to it.                                      *)
LEMMA DrivenReads ==
  ASSUME TypeInv, SlotInv, SoleInv, FreshInv, DrivenInv,
         TickStart \/ ReadReady \/ TickFails \/ Decide
  PROVE  DrivenInv'
  <1>0. ~Fresh /\ UNCHANGED life
    BY FreshTick DEF Tick, TickStart, ReadReady, TickFails, Decide, TickAdopts, Adopt, LetGo,
       RetiresFinished, Holds, TakesBack, Samples, Reconciles, SampleLive, SampleIdle,
       RetiresRestored, AdoptCommits, Reap
  <1>1. CASE TickStart
    <2>1. UNCHANGED <<work, agent, board, bindings, ready, spawns>> /\ pc' = "ready"
          /\ pc = "idle"
      BY <1>1 DEF TickStart
    <2> QED BY <1>0, <2>1, DrivenQuiet DEF SameTasks, Awaiting, Opened
  <1>2. CASE ReadReady
    <2>1. /\ UNCHANGED <<work, agent, board, bindings, spawns, up, unadopted>>
          /\ pc = "ready" /\ pc' = "panes" /\ spawns \subseteq Task
          /\ \A t \in ready' : t \in Task /\ board[t] = Todo /\ BoundTo(t) = {}
      BY <1>2 DEF ReadReady, Offered, TypeInv, TypeOK
    <2>2. ASSUME NEW t \in ready' PROVE board[t].by = NoPane /\ ~Inhabited(t)
      <3>1. ASSUME NEW p \in Pane, agent[p] \in Listed, work[p] = t PROVE FALSE
        <4>1. bindings[p].task # NoTask
          BY <1>0, <2>1, <3>1 DEF DrivenInv, Fresh, Opened
        <4>2. bindings[p].task = t
          BY <3>1, <4>1 DEF SoleInv, Bindings, Seated
        <4> QED BY <2>1, <4>2 DEF BoundTo
      <3> QED BY <2>1, <3>1 DEF Inhabited, Todo
    <2>3. PanesFade /\ RowsFollow
      BY <2>1 DEF PanesFade, RowsFollow
    <2>4. \A p \in Pane : agent[p] \in Listed => board[work[p]].by \in {NoPane, p}
      BY DEF DrivenInv
    <2>5. \A t \in Awaiting' : board'[t].by = NoPane /\ ~Inhabited(t)'
      BY <2>1, <2>2 DEF Awaiting, DrivenInv, Inhabited
    <2> QED BY <1>0, <2>1, <2>4, <2>5 DEF DrivenInv, Opened, Fresh
  <1>3. CASE TickFails
    <2>1. UNCHANGED <<work, agent, board, bindings>> /\ pc' = "idle" /\ ready' = {}
          /\ spawns' = {} /\ pc \in {"ready", "panes"}
      BY <1>3 DEF TickFails, Idle
    <2> QED BY <1>0, <2>1, DrivenQuiet DEF SameTasks, Awaiting, Opened
  <1>4. CASE Decide
    <2>1. /\ UNCHANGED <<work, agent, board, bindings>> /\ pc' = "act" /\ ready' = {}
          /\ spawns' \subseteq ready /\ pc = "panes"
      BY <1>4 DEF Decide, Fills
    <2> QED BY <1>0, <2>1, DrivenQuiet DEF SameTasks, Awaiting, Opened
  <1> QED BY <1>1, <1>2, <1>3, <1>4

(* An action applied to a binding: a binding goes with its pane gone.      *)
LEMMA DrivenApply ==
  ASSUME TypeInv, SoleInv, DrivenInv, PlanInv, "retire" \notin Faults, NEW p \in Pane, Apply(p)
  PROVE  DrivenInv'
  <1>0. /\ UNCHANGED <<life, spawns, ready>> /\ pc = "act" /\ pc' \in {"act", "drop", "sweep"}
        /\ plan[p] # {}
    BY ApplyFrame
  <1>1. Awaiting' \subseteq Awaiting
    BY <1>0 DEF Awaiting
  <1>2. UNCHANGED <<work, board, tree>> \/ ApplyUnbind(p)
    BY DEF Apply, ApplyRearm, ApplyNotify, SkipShot, ApplyRetire, PromptLands, PromptFails,
           AgentMissing
  <1>3. CASE ApplyUnbind(p)
    <2>1. /\ UNCHANGED <<work, board, agent>> /\ agent[p] = "gone"
          /\ \A q \in Pane \ {p} : bindings'[q] = bindings[q]
      BY <1>3 DEF ApplyUnbind, Due, SoleInv, Drop, TypeInv, TypeOK
    <2>2. PanesFade /\ RowsFollow
      BY <2>1 DEF PanesFade, RowsFollow
    <2> QED BY <1>0, <1>1, <2>1, <2>2, DrivenKept DEF Opened, Listed, Agents
  <1>4. CASE ~ApplyUnbind(p)
    <2>1. SameTasks
      BY <1>4, EditsKeepTasks DEF Apply, ApplyRetire, AgentMissing, PromptFails, SameTasks
    <2>2. UNCHANGED agent \/ ClosePane(p)
      BY <1>4 DEF Apply, ApplyRearm, ApplyNotify, SkipShot, ApplyRetire, PromptLands,
                  PromptFails, AgentMissing
    <2>3. PanesFade
      <3>1. CASE UNCHANGED agent
        BY <3>1 DEF PanesFade
      <3>2. CASE ClosePane(p)
        <4>1. agent[p] # "free"
          BY <1>0 DEF SoleInv
        <4> QED BY <1>2, <1>4, <3>2, <4>1, Closes
      <3> QED BY <2>2, <3>1, <3>2
    <2>4. RowsFollow
      BY <1>2, <1>4 DEF RowsFollow
    <2> QED BY <1>0, <1>1, <1>2, <1>4, <2>1, <2>3, <2>4, DrivenKept DEF SameTasks, Opened
  <1> QED BY <1>3, <1>4

(* The endings: the binding dropped is of a pane closed before.            *)
LEMMA DrivenEndings ==
  ASSUME TypeInv, SoleInv, DrivenInv, FreshInv,
         FinishRetire \/ CountDeath \/ SweepClaim \/ SweepOwed
  PROVE  DrivenInv'
  <1>0. UNCHANGED life /\ pc \in Ending \cup {"act"} /\ UNCHANGED <<work, agent>>
    BY DEF FinishRetire, CountDeath, SweepClaim, SweepOwed, Ending
  <1>1. CASE FinishRetire
    <2>1. /\ cur.pane \in Pane /\ agent[cur.pane] = "gone" /\ Drop(cur.pane)
          /\ UNCHANGED <<board, spawns, ready>> /\ pc' \in {"act", "count"}
      BY <1>1 DEF FinishRetire, TypeInv, Midway, Ending, SoleInv
    <2>2. \A q \in Pane \ {cur.pane} : bindings'[q] = bindings[q]
      BY <2>1 DEF Drop, TypeInv, TypeOK
    <2>3. PanesFade /\ RowsFollow /\ Awaiting' \subseteq Awaiting
      BY <1>0, <2>1 DEF PanesFade, RowsFollow, Awaiting
    <2>4. pc \notin Opened /\ pc \notin Reconciling /\ pc' \notin Reconciling
      BY <1>0, <2>1 DEF Opened, Ending
    <2>5. \A p \in Pane : agent'[p] \in Listed /\ bindings[p].task # NoTask
                        => bindings'[p].task # NoTask
      BY <1>0, <2>1, <2>2 DEF Listed, Agents
    <2> QED BY <1>0, <2>3, <2>4, <2>5, DrivenKept
  <1>2. CASE CountDeath
    <2>1. UNCHANGED <<board, bindings, spawns, ready>> /\ pc' = "act" /\ pc = "count"
      BY <1>2 DEF CountDeath
    <2> QED BY <1>0, <2>1, DrivenQuiet DEF SameTasks, Awaiting, Opened
  <1>3. CASE SweepClaim \/ SweepOwed
    <2>1. /\ UNCHANGED bindings /\ pc' \in {"act", "idle"} /\ pc \in {"sweep", "act"}
          /\ ready' \cup spawns' \subseteq ready \cup spawns
      BY <1>3 DEF SweepClaim, SweepOwed, Idle
    <2>2. UNCHANGED board \/ \E panes : board' = HandedBack(panes)
      BY <1>3 DEF SweepClaim, SweepOwed, SweepAsked
    <2>3. RowsFollow
      BY <2>2 DEF RowsFollow, HandedBack, Todo
    <2>4. PanesFade /\ Awaiting' \subseteq Awaiting
      BY <1>0, <2>1 DEF PanesFade, Awaiting
    <2> QED BY <1>0, <2>1, <2>3, <2>4, DrivenKept DEF Opened
  <1> QED BY <1>1, <1>2, <1>3

(* The spawn: the pane it opens is for a task whose row names nobody and   *)
(* in whose checkout there is nobody; it is bound, or closed.              *)
LEMMA DrivenSpawns ==
  ASSUME TypeInv, SlotInv, SoleInv, DrivenInv, "retire" \notin Faults, Spawns \/ Bind \/ Unreserve
  PROVE  DrivenInv'
  <1>0. UNCHANGED <<life, board, spawns, ready>>
    BY SpawnsFrame DEF Bind, Unreserve, Spawns, CutCheckout, SpawnRefused, OpenFails,
       StartAgent, ConfirmGoal, UndoSpawn, DropCheckout, OpenPane
  <1>1. RowsFollow
    BY <1>0 DEF RowsFollow
  <1>2. CASE SpawnRefused \/ OpenFails \/ CutCheckout
    <2>1. /\ UNCHANGED <<work, agent, bindings>> /\ pc \in {"prepare", "open"}
          /\ pc' = "act" \/ (pc' = "open" /\ cur' = cur)
      BY <1>2 DEF SpawnRefused, OpenFails, CutCheckout, BackToAct
    <2> QED BY <1>0, <2>1, DrivenQuiet DEF SameTasks, Awaiting, Opened
  <1>3. CASE ConfirmGoal
    <2>1. UNCHANGED <<work, agent, bindings, cur>> /\ pc = "confirm" /\ pc' = "bind"
      BY <1>3 DEF ConfirmGoal
    <2> QED BY <1>0, <2>1, DrivenQuiet DEF SameTasks, Awaiting, Opened
  <1>4. CASE Unreserve
    <2>1. UNCHANGED <<work, agent, bindings>> /\ pc = "unreserve" /\ pc' = "act"
      BY <1>4 DEF Unreserve, BackToAct
    <2> QED BY <1>0, <2>1, DrivenQuiet DEF SameTasks, Awaiting, Opened
  <1>5. CASE DropCheckout
    <2>1. /\ UNCHANGED <<work, agent, bindings>> /\ pc = "undo" /\ pc' = "act"
          /\ agent[cur.pane] = "gone"
      BY <1>5 DEF DropCheckout, BackToAct, SoleInv
    <2>2. PanesFade /\ Awaiting' \subseteq Awaiting
      BY <1>0, <2>1 DEF PanesFade, Awaiting
    <2> QED BY <1>0, <1>1, <2>1, <2>2, DrivenKept DEF Listed, Agents
  <1>6. CASE StartAgent
    <2>1. UNCHANGED <<work, bindings, cur>> /\ pc = "start" /\ pc' = "confirm"
      BY <1>6 DEF StartAgent
    <2>2. PanesFade
      BY <1>6 DEF StartAgent, PanesFade, TypeInv, TypeOK, Listed, Agents
    <2> QED BY <1>0, <1>1, <2>1, <2>2, DrivenKept DEF Awaiting, Opened
  <1>7. CASE UndoSpawn
    <2>1. /\ UNCHANGED <<work, bindings, cur, tree>> /\ pc \in {"start", "confirm"}
          /\ pc' = "undo" /\ ClosePane(cur.pane)
      BY <1>7 DEF UndoSpawn
    <2>2. cur.pane \in Pane /\ agent[cur.pane] # "free"
      BY <2>1 DEF TypeInv, Midway, Spawning, SoleInv, Opened
    <2>3. PanesFade
      BY <2>1, <2>2, Closes
    <2> QED BY <1>0, <1>1, <2>1, <2>3, DrivenKept DEF Awaiting, Opened
  <1>8. CASE Bind
    <2>1. /\ UNCHANGED <<work, agent, cur>> /\ pc = "bind" /\ pc' = "unreserve"
          /\ cur.pane \in Pane /\ cur.task \in Task
      BY <1>8 DEF Bind, TypeInv, Midway, Spawning
    <2>2. /\ bindings'[cur.pane].task # NoTask
          /\ \A q \in Pane \ {cur.pane} : bindings'[q] = bindings[q]
      BY <1>8, <2>1, BindingsMade, ConstantsOK DEF Bind, TypeInv, TypeOK, ConstantsOK
    <2>3. PanesFade
      BY <2>1 DEF PanesFade
    <2> QED BY <1>0, <1>1, <2>1, <2>2, <2>3, DrivenKept DEF Awaiting
  <1>9. ASSUME NEW p \in Pane, OpenPane(p) PROVE DrivenInv'
    <2>1. /\ UNCHANGED <<bindings, start>> /\ pc = "open" /\ pc' = "start"
          /\ cur'.pane = p /\ cur.task \in Task /\ cur.task \notin spawns /\ ready = {}
          /\ spawns \subseteq Task
      BY <1>9 DEF OpenPane, At, TypeInv, TypeOK, Midway, Spawning, SlotInv
    <2>2. /\ \A q \in Pane \ {p} : agent'[q] = agent[q] /\ work'[q] = work[q]
          /\ agent'[p] = "bare" /\ work'[p] = cur.task
      BY <1>9 DEF OpenPane, TypeInv, TypeOK
    <2>3. board[cur.task].by = NoPane
      BY <2>1 DEF DrivenInv, Awaiting
    <2>4. \A q \in Pane : agent'[q] \in Listed => board'[work'[q]].by \in {NoPane, q}
      BY <1>0, <2>2, <2>3 DEF DrivenInv
    <2>5. \A q \in Pane : agent'[q] \in Listed =>
            bindings'[q].task # NoTask \/ (pc' \in Opened /\ cur'.pane = q)
          \/ ~up \/ unadopted
      BY <2>1, <2>2 DEF DrivenInv, Opened
    <2>6. ASSUME NEW t \in Awaiting' PROVE board'[t].by = NoPane /\ ~Inhabited(t)'
      <3>1. t \in spawns /\ t # cur.task
        BY <1>0, <2>1, <2>6 DEF Awaiting
      <3>2. board[t].by = NoPane /\ ~Inhabited(t)
        BY <3>1 DEF DrivenInv, Awaiting
      <3> QED BY <1>0, <2>2, <3>1, <3>2 DEF Inhabited
    <2> QED BY <1>0, <2>1, <2>4, <2>5, <2>6 DEF DrivenInv
  <1> QED BY <1>2, <1>3, <1>4, <1>5, <1>6, <1>7, <1>8, <1>9 DEF Spawns

(* Taking a slot awaits nothing the tick had not decided.                  *)
LEMMA DrivenTakes ==
  ASSUME TypeInv, DrivenInv, NEW t \in Task, TakeSlot(t) PROVE DrivenInv'
  <1>1. /\ UNCHANGED <<work, agent, board, bindings, up, unadopted, ready>> /\ t \in spawns
        /\ spawns' \subseteq spawns /\ pc = "act"
        /\ pc' = "act" \/ (pc' = "prepare" /\ cur'.task = t)
    BY DEF TakeSlot, Next1, At
  <1> QED BY <1>1, DrivenQuiet DEF SameTasks, Awaiting, Opened

(* Within a reconciliation: every live pane is still to be answered for or *)
(* has been kept.                                                          *)
LEMMA DrivenAdopting ==
  ASSUME TypeInv, DrivenInv, UNCHANGED work, PanesFade, RowsFollow,
         Awaiting' \subseteq Awaiting, pc' \in Reconciling,
         \A p \in Pane : agent'[p] \in Listed
                         => p \in start'.found \/ start'.kept[p].task # NoTask,
         pc' \in Watching => start'.doc.bindings[cur'.pane].task # NoTask
  PROVE  DrivenInv'
  BY RowsKept DEF DrivenInv

(* The survey: every live pane is in a checkout of this daemon's, so found.*)
LEMMA DrivenSurveys ==
  ASSUME TypeInv, SoleInv, FreshInv, DrivenInv, Start \/ TickAdopts PROVE DrivenInv'
  <1>0. /\ UNCHANGED <<work, agent, board, bindings, ready, spawns, cur>> /\ pc = "idle"
        /\ PanesFade /\ RowsFollow
    BY DEF Start, TickAdopts, Surveys, PanesFade, RowsFollow, TypeInv, Midway
  <1>1. CASE UNCHANGED <<tick, start>> /\ unadopted'
    <2>1. Awaiting' \subseteq Awaiting
      BY <1>0, <1>1 DEF Awaiting
    <2> QED BY <1>0, <1>1, <2>1, RowsKept DEF DrivenInv
  <1>2. CASE Surveys
    <2>1. pc' = "adopt" /\ start'.found = {p \in Pane : Ours(p)}
      BY <1>2 DEF Surveys, NoStart
    <2>2. \A p \in Pane : agent'[p] \in Listed => p \in start'.found
      BY <1>0, <2>1 DEF Ours, SoleInv, CheckoutOutlivesPane
    <2>3. Awaiting' \subseteq Awaiting
      BY <1>0, <2>1 DEF Awaiting
    <2> QED BY <1>0, <2>1, <2>2, <2>3, DrivenAdopting
  <1> QED BY <1>1, <1>2 DEF Start, TickAdopts

(* An answer for a pane: a live one's row names nobody else, so it is kept *)
(* with a binding, watched, or closed with its finished task.              *)
LEMMA DrivenAnswers ==
  ASSUME TypeInv, SoleInv, DrivenInv, Steadfast, NEW p \in Pane,
         LetGo(p) \/ RetiresFinished(p) \/ Holds(p) \/ TakesBack(p) \/ Samples(p)
  PROVE  DrivenInv'
  <1>0. /\ p \in start.found /\ pc = "adopt" /\ agent[p] # "free" /\ start \in Survey
        /\ start.kept \in [Pane -> Binding]
        /\ TaskOf(p) = work[p]
    BY DEF LetGo, RetiresFinished, Holds, TakesBack, Samples, Reconciles, SoleInv, StartInv,
           TypeInv, TypeOK, Survey, Named, TaskOf, Bindings, Seated
  <1>1. /\ UNCHANGED <<work, board, tree, ready, spawns>> /\ pc' \in {"adopt", "sample"}
        /\ RowsFollow
    BY <1>0 DEF LetGo, RetiresFinished, Holds, TakesBack, Samples, RowsFollow
  <1>2. Awaiting' \subseteq Awaiting
    BY <1>0, <1>1 DEF Awaiting
  <1>3. \A q \in Pane : agent[q] \in Listed => q \in start.found \/ start.kept[q].task # NoTask
    BY <1>0 DEF DrivenInv
  <1>4. ASSUME Settled(p)
        PROVE  start'.found = start.found \ {p} /\ start'.kept = start.kept
    BY <1>0, <1>4, SettledType
  <1>5. ASSUME UNCHANGED agent PROVE PanesFade
    BY <1>5 DEF PanesFade
  <1>6. ASSUME NEW b \in Binding, Kept(p, b), b.task # NoTask, UNCHANGED agent, pc' = "adopt"
        PROVE  DrivenInv'
    <2>1. start'.found = start.found \ {p} /\ start'.kept = [start.kept EXCEPT ![p] = b]
      BY <1>0, <1>6, KeptType
    <2>2. \A q \in Pane : agent'[q] \in Listed
                          => q \in start'.found \/ start'.kept[q].task # NoTask
      BY <1>0, <1>3, <1>6, <2>1
    <2> QED BY <1>1, <1>2, <1>5, <1>6, <2>2, DrivenAdopting
  <1>7. CASE LetGo(p)
    <2>1. UNCHANGED agent /\ pc' = "adopt" /\ Settled(p) /\ Elsewhere(p)
      BY <1>0, <1>7 DEF LetGo, Steadfast
    <2>2. agent[p] \notin Listed
      BY <1>0, <2>1 DEF DrivenInv, Elsewhere
    <2>3. \A q \in Pane : agent'[q] \in Listed
                          => q \in start'.found \/ start'.kept[q].task # NoTask
      BY <1>3, <1>4, <2>1, <2>2
    <2> QED BY <1>1, <1>2, <1>5, <2>1, <2>3, DrivenAdopting
  <1>8. CASE RetiresFinished(p)
    <2>1. pc' = "adopt" /\ Settled(p) /\ ClosePane(p)
      BY <1>0, <1>8 DEF RetiresFinished
    <2>2. PanesFade /\ agent'[p] = "gone"
      BY <1>0, <1>1, <2>1, Closes DEF Steadfast
    <2>3. \A q \in Pane : agent'[q] \in Listed
                          => q \in start'.found \/ start'.kept[q].task # NoTask
      BY <1>3, <1>4, <2>1, <2>2 DEF PanesFade, Listed, Agents
    <2> QED BY <1>1, <1>2, <2>1, <2>2, <2>3, DrivenAdopting
  <1>9. CASE Holds(p)
    <2>1. start.doc.bindings[p] \in Binding
      BY DocType
    <2>2. /\ Kept(p, start.doc.bindings[p]) /\ UNCHANGED agent /\ pc' = "adopt"
          /\ start.doc.bindings[p].task # NoTask
      BY <1>0, <1>9 DEF Holds, Named
    <2> QED BY <1>6, <2>1, <2>2
  <1>10. CASE TakesBack(p)
    <2>1. Kept(p, NewBinding(work[p])) /\ UNCHANGED agent /\ pc' = "adopt"
      BY <1>0, <1>10 DEF TakesBack
    <2>2. work[p] \in Task \cup {NoTask}
      BY DEF TypeInv, TypeOK
    <2>3. NewBinding(work[p]) \in Binding /\ NewBinding(work[p]).task = work[p]
      BY <2>2, BindingsMade
    <2>4. CASE agent[p] \in Listed
      <3>1. work[p] # NoTask
        BY <2>4, ConstantsOK DEF TypeInv, Midway, ConstantsOK
      <3> QED BY <1>6, <2>1, <2>3, <3>1
    <2>5. CASE agent[p] \notin Listed
      <3>1. /\ start'.found = start.found \ {p}
            /\ start'.kept = [start.kept EXCEPT ![p] = NewBinding(work[p])]
        BY <1>0, <2>1, <2>3, KeptType
      <3>2. \A q \in Pane : agent'[q] \in Listed
                            => q \in start'.found \/ start'.kept[q].task # NoTask
        BY <1>0, <1>3, <2>1, <2>5, <3>1
      <3> QED BY <1>1, <1>2, <1>5, <2>1, <3>2, DrivenAdopting
    <2> QED BY <2>4, <2>5
  <1>11. CASE Samples(p)
    <2>1. /\ UNCHANGED <<agent, start>> /\ pc' = "sample" /\ cur'.pane = p
          /\ start.doc.bindings[p].task # NoTask
      BY <1>11 DEF Samples, At, Named
    <2> QED BY <1>1, <1>2, <1>3, <1>5, <2>1, DrivenAdopting
  <1> QED BY <1>7, <1>8, <1>9, <1>10, <1>11

(* A watched pane: kept with the binding the document has of it, or closed.*)
LEMMA DrivenWatches ==
  ASSUME TypeInv, SoleInv, DrivenInv, Steadfast, SampleLive \/ SampleIdle \/ RetiresRestored
  PROVE  DrivenInv'
  <1> DEFINE p == cur.pane
  <1>0. /\ p \in Pane /\ pc \in Watching /\ start \in Survey
        /\ start.kept \in [Pane -> Binding]
        /\ start.doc.bindings[p].task # NoTask
    BY DEF SampleLive, SampleIdle, RetiresRestored, TypeInv, TypeOK, Midway, Survey, DrivenInv
  <1>1. /\ UNCHANGED <<work, ready, spawns>> /\ pc' \in {"adopt", "restored"}
        /\ Awaiting' \subseteq Awaiting
    BY <1>0 DEF SampleLive, SampleIdle, RetiresRestored, BackToAdopt, Awaiting
  <1>2. \A q \in Pane : agent[q] \in Listed => q \in start.found \/ start.kept[q].task # NoTask
    BY <1>0 DEF DrivenInv
  <1>3. CASE SampleLive
    <2>1. UNCHANGED <<agent, board>> /\ pc' = "adopt" /\ Kept(p, start.doc.bindings[p])
      BY <1>3 DEF SampleLive, BackToAdopt
    <2>2. start.doc.bindings[p] \in Binding
      BY <1>0, DocType
    <2>3. /\ start'.found = start.found \ {p}
          /\ start'.kept = [start.kept EXCEPT ![p] = start.doc.bindings[p]]
      BY <1>0, <2>1, <2>2, KeptType
    <2>4. \A q \in Pane : agent'[q] \in Listed
                          => q \in start'.found \/ start'.kept[q].task # NoTask
      BY <1>0, <1>2, <2>1, <2>3
    <2>5. PanesFade /\ RowsFollow
      BY <2>1 DEF PanesFade, RowsFollow
    <2> QED BY <1>1, <2>1, <2>4, <2>5, DrivenAdopting
  <1>4. CASE SampleIdle
    <2>1. UNCHANGED <<start, tree, cur, board>> /\ pc' = "restored" /\ ClosePane(p)
          /\ agent[p] # "free"
      BY <1>4 DEF SampleIdle
    <2>2. PanesFade /\ RowsFollow
      BY <1>0, <1>1, <2>1, Closes DEF RowsFollow, Steadfast
    <2>3. \A q \in Pane : agent'[q] \in Listed
                          => q \in start'.found \/ start'.kept[q].task # NoTask
      BY <1>2, <2>1, <2>2 DEF PanesFade
    <2> QED BY <1>0, <1>1, <2>1, <2>2, <2>3, DrivenAdopting
  <1>5. CASE RetiresRestored
    <2>1. /\ UNCHANGED agent /\ pc' = "adopt" /\ Settled(p) /\ agent[p] = "gone"
          /\ SweepAsked(p)
      BY <1>5 DEF RetiresRestored, BackToAdopt, SoleInv, StartInv
    <2>2. start'.found = start.found \ {p} /\ start'.kept = start.kept
      BY <1>0, <2>1, SettledType
    <2>3. PanesFade /\ RowsFollow
      BY <2>1 DEF PanesFade, RowsFollow, SweepAsked, HandedBack, Todo
    <2>4. \A q \in Pane : agent'[q] \in Listed
                          => q \in start'.found \/ start'.kept[q].task # NoTask
      BY <1>2, <2>1, <2>2 DEF Listed, Agents
    <2> QED BY <1>1, <2>1, <2>3, <2>4, DrivenAdopting
  <1> QED BY <1>3, <1>4, <1>5

(* The commit binds every live pane; a crash and the reap leave each where *)
(* it was.                                                                 *)
LEMMA DrivenCommits ==
  ASSUME TypeInv, DrivenInv, AdoptCommits \/ Reap \/ Crash PROVE DrivenInv'
  <1>0. UNCHANGED <<work, agent, board>> /\ PanesFade /\ RowsFollow
    BY DEF AdoptCommits, Reap, Crash, PanesFade, RowsFollow
  <1>1. CASE AdoptCommits
    <2>1. /\ UNCHANGED <<ready, spawns>> /\ pc = "adopt" /\ pc' = "reap"
          /\ start.found = {} /\ bindings' = start.kept
      BY <1>1 DEF AdoptCommits
    <2>2. Awaiting' \subseteq Awaiting
      BY <2>1 DEF Awaiting
    <2>3. \A p \in Pane : agent'[p] \in Listed => bindings'[p].task # NoTask
      BY <1>0, <2>1 DEF DrivenInv
    <2> QED BY <1>0, <2>1, <2>2, <2>3, RowsKept DEF DrivenInv
  <1>2. CASE Reap
    <2>1. /\ UNCHANGED <<bindings, ready, spawns, up, unadopted>> /\ pc = "reap"
          /\ pc' = "idle"
      BY <1>2 DEF Reap
    <2> QED BY <1>0, <2>1, DrivenQuiet DEF SameTasks, Awaiting, Opened
  <1>3. CASE Crash
    <2>1. ~up' /\ pc' = "idle" /\ ready' = {} /\ spawns' = {}
      BY <1>3 DEF Crash, Idle
    <2>2. Awaiting' \subseteq Awaiting
      BY <2>1 DEF Awaiting
    <2> QED BY <1>0, <2>1, <2>2, RowsKept DEF DrivenInv
  <1> QED BY <1>1, <1>2, <1>3

(* A step outside the tick that opens no pane and enters no new claim.     *)
LEMMA DrivenOutside ==
  ASSUME TypeInv, DrivenInv, UNCHANGED <<work, tick, up, unadopted>>, SameTasks,
         PanesFade, RowsFollow, start'.found = start.found,
         \A p \in Pane : /\ start'.doc.bindings[p].task = start.doc.bindings[p].task
                         /\ start'.kept[p].task = start.kept[p].task
  PROVE  DrivenInv'
  <1>1. Awaiting' \subseteq Awaiting
    BY DEF Awaiting
  <1>2. CASE pc \in Reconciling
    <2>1. pc \in Watching => cur.pane \in Pane
      BY DEF TypeInv, Midway
    <2>2. \A p \in Pane : agent'[p] \in Listed
                          => p \in start'.found \/ start'.kept[p].task # NoTask
      BY <1>2 DEF DrivenInv, PanesFade
    <2>3. pc' \in Watching => start'.doc.bindings[cur'.pane].task # NoTask
      BY <2>1 DEF DrivenInv
    <2> QED BY <1>1, <1>2, <2>2, <2>3, DrivenAdopting
  <1>3. CASE pc \notin Reconciling
    BY <1>1, <1>3, DrivenKept DEF SameTasks
  <1> QED BY <1>2, <1>3

(* A claim is made by the worker in the task's checkout: the only live     *)
(* pane there, and a task somebody works on awaits no other.               *)
LEMMA DrivenClaims ==
  ASSUME TypeInv, SoleInv, DrivenInv, NEW p \in Pane, Claims(p) PROVE DrivenInv'
  <1>1. /\ UNCHANGED <<agent, work, tick, start, bindings, up, unadopted>>
        /\ agent[p] \in Listed /\ work[p] \in Task /\ board \in [Task -> Row]
        /\ board' = [board EXCEPT ![work[p]] = [st |-> "doing", by |-> p]]
    BY DEF Claims, SetRow, Loop, Listed, Agents, TypeInv, TypeOK, Midway
  <1>2. /\ board'[work[p]].by = p
        /\ \A t \in Task \ {work[p]} : board'[t] = board[t]
    BY <1>1
  <1>3. ASSUME NEW q \in Pane, agent[q] \in Listed PROVE board'[work[q]].by \in {NoPane, q}
    <2>1. work[q] \in Task
      BY <1>3 DEF TypeInv, Midway
    <2>2. CASE work[q] = work[p]
      BY <1>1, <1>2, <1>3, <2>2 DEF SoleInv, OnePanePerTask
    <2>3. CASE work[q] # work[p]
      BY <1>2, <1>3, <2>1, <2>3 DEF DrivenInv
    <2> QED BY <2>2, <2>3
  <1>4. ASSUME NEW t \in Awaiting' PROVE board'[t].by = NoPane /\ ~Inhabited(t)'
    <2>1. t \in Awaiting /\ t \in Task
      BY <1>1, <1>4, AwaitingTasks DEF Awaiting
    <2>2. t # work[p]
      BY <1>1, <2>1 DEF DrivenInv, Inhabited
    <2> QED BY <1>1, <1>2, <2>1, <2>2 DEF DrivenInv, Inhabited
  <1> QED BY <1>1, <1>3, <1>4 DEF DrivenInv

(* The doors, the workers, the people and the clock.                       *)
LEMMA DrivenEnvironment ==
  ASSUME TypeInv, SoleInv, DrivenInv, Steadfast, Door \/ Environment PROVE DrivenInv'
  <1>0. /\ UNCHANGED <<tick, up, unadopted>> /\ SameTasks
    BY OutsideFrame
  <1>1. CASE Door
    <2>1. UNCHANGED <<work, agent, board, start>>
      BY <1>1 DEF Door, DoorReads, DoorReserves
    <2> QED BY <1>0, <2>1, DrivenOutside DEF PanesFade, RowsFollow
  <1>2. ASSUME NEW p \in Pane, Claims(p) PROVE DrivenInv'
    BY <1>2, DrivenClaims
  <1>3. ASSUME NEW p \in Pane,
               Submits(p) \/ AgentTurns(p) \/ AgentDies(p) \/ PaneCloses(p)
        PROVE  DrivenInv'
    <2>1. UNCHANGED <<work, start>>
      BY <1>3 DEF Submits, AgentTurns, AgentDies, PaneCloses, Loop
    <2>2. PanesFade
      BY <1>3 DEF Submits, AgentTurns, AgentDies, PaneCloses, SetAgent, PanesFade, Listed,
                  Agents, TypeInv, TypeOK
    <2>3. RowsFollow
      BY <1>3 DEF Submits, AgentTurns, AgentDies, PaneCloses, SetRow, RowsFollow, TypeInv,
                  TypeOK
    <2> QED BY <1>0, <2>1, <2>2, <2>3, DrivenOutside
  <1>4. ASSUME NEW p \in Pane, TimePasses(p) PROVE DrivenInv'
    <2>1. /\ UNCHANGED <<work, agent, board>> /\ start'.found = start.found
          /\ \A q \in Pane : /\ start'.doc.bindings[q].task = start.doc.bindings[q].task
                             /\ start'.kept[q].task = start.kept[q].task
      BY <1>4, SurveyAged DEF TimePasses, TypeInv, TypeOK
    <2> QED BY <1>0, <2>1, DrivenOutside DEF PanesFade, RowsFollow
  <1>5. ASSUME NEW t \in Task,
               \/ Reviewed(t) \/ Cancelled(t) \/ Released(t) \/ Amended(t)
               \/ TakenByOthers(t) \/ LeaseExpires(t)
        PROVE  DrivenInv'
    <2>1. UNCHANGED <<work, agent, start>>
      BY <1>5 DEF Reviewed, Cancelled, Released, Amended, TakenByOthers, LeaseExpires, Loop
    <2>2. \/ UNCHANGED board
          \/ \E row \in {Todo, [st |-> "done", by |-> NoPane],
                         [st |-> "doing", by |-> NoPane], [board[t] EXCEPT !.st = "doing"]} :
               board' = [board EXCEPT ![t] = row]
      BY <1>5 DEF Reviewed, Cancelled, Released, Amended, TakenByOthers, LeaseExpires, SetRow,
                  Steadfast
    <2>3. RowsFollow
      BY <2>2 DEF RowsFollow, Todo, TypeInv, TypeOK, Row
    <2> QED BY <1>0, <2>1, <2>3, DrivenOutside DEF PanesFade
  <1> QED BY <1>1, <1>2, <1>3, <1>4, <1>5 DEF Environment

(* DrivenInv is inductive, given the others.                               *)
LEMMA DrivenStep ==
  ASSUME Steadfast
  PROVE  TypeInv /\ SlotInv /\ SoleInv /\ FreshInv /\ PlanInv /\ DrivenInv /\ [Next]_vars
         => DrivenInv'
  <1> SUFFICES ASSUME TypeInv, SlotInv, SoleInv, FreshInv, PlanInv, DrivenInv, [Next]_vars
               PROVE  DrivenInv'
    OBVIOUS
  <1>0. "retire" \notin Faults
    BY DEF Steadfast
  <1>1. CASE Tick
    BY <1>0, <1>1, DrivenReads, DrivenApply, DrivenEndings, DrivenTakes, DrivenSpawns,
       DrivenSurveys, DrivenAnswers, DrivenWatches, DrivenCommits DEF Tick, Adopt, Spawns
  <1>2. CASE Door \/ Environment
    BY <1>2, DrivenEnvironment
  <1>3. CASE Crash
    BY <1>3, DrivenCommits
  <1>4. CASE Start
    BY <1>4, DrivenSurveys
  <1>5. CASE UNCHANGED vars
    BY <1>5, DrivenOutside DEF vars, SameTasks, PanesFade, RowsFollow
  <1> QED BY <1>1, <1>2, <1>3, <1>4, <1>5 DEF Next

(* A worker that has claimed its task is always one the dispatcher is      *)
(* driving, through a spawn, a retirement, a crash, a restart and the      *)
(* reconciliations that follow it (spawn, drop, reconcile), so long as     *)
(* herdr closes what it is asked to, the board answers a reconciliation    *)
(* and no stranger's agent claims a task.                                  *)
THEOREM WorkersAreDriven ==
  ASSUME Steadfast PROVE Spec => []EveryWorkerIsDriven
  <1>1. Init => DrivenInv
    BY DEF Init, DrivenInv, Awaiting, Listed, Agents
  <1>2. TypeInv /\ SlotInv /\ SoleInv /\ FreshInv /\ PlanInv /\ DrivenInv /\ [Next]_vars
        => DrivenInv'
    BY DrivenStep
  <1>3. DrivenInv => EveryWorkerIsDriven
    BY DEF DrivenInv, EveryWorkerIsDriven, Opened, Bound, Listed
  <1>4. "retire" \notin Faults
    BY DEF Steadfast
  <1> QED BY <1>1, <1>2, <1>3, <1>4, TypeAlways, SlotAlways, SoleAlways, FreshAlways,
             PlanAlways, PTL DEF Spec

-----------------------------------------------------------------------------
(* The daemon implements Fleet.  What a step is in Fleet is seen from the  *)
(* panes, the checkouts and the bindings' tasks; two facts are needed      *)
(* beyond SoleInv.                                                         *)

(* A pane not opened yet works for no task; and no two panes a             *)
(* reconciliation has in hand work for the same one, ended or not, so that *)
(* it takes back one for a task.                                           *)
InHand(p) == p \in start.found \/ start.kept[p].task # NoTask

SurveyInv ==
  /\ \A p \in Pane : agent[p] = "free" => work[p] = NoTask
  /\ \A p, q \in Pane : InHand(p) /\ InHand(q) /\ work[p] = work[q] => p = q

FleetInv == TypeInv /\ SlotInv /\ SoleInv /\ FreshInv /\ SurveyInv

Keeping == [Fl!Next]_(Fl!fleetVars)

(* Nothing of the fleet changes.                                           *)
LEMMA FleetRests ==
  ASSUME UNCHANGED <<agent, work, tree>>, SameTasks PROVE Keeping
  BY DEF Keeping, Fl!fleetVars, SameTasks

(* A pane ends, or what is in it changes.                                  *)
LEMMA FleetEnds ==
  ASSUME UNCHANGED <<work, tree>>, SameTasks, NEW p \in Pane,
         \A q \in Pane \ {p} : agent'[q] = agent[q],
         agent'[p] \in Listed => agent[p] \in Listed
  PROVE  Keeping
  <1> DEFINE live == {q \in Pane : agent[q] \in Listed}
             drives == [q \in Pane |-> bindings[q].task]
  <1>1. live' = live \/ live' = live \ {p}
    OBVIOUS
  <1>2. drives' = drives
    BY DEF SameTasks
  <1>3. CASE live' = live
    BY <1>2, <1>3 DEF Keeping, Fl!fleetVars
  <1>4. CASE live' = live \ {p}
    <2>1. Fl!End(p)
      BY <1>2, <1>4 DEF Fl!End
    <2> QED BY <2>1 DEF Keeping, Fl!Next
  <1> QED BY <1>1, <1>3, <1>4

(* A pane the daemon closes.                                               *)
LEMMA FleetCloses ==
  ASSUME TypeInv, UNCHANGED <<work, tree>>, SameTasks, NEW p \in Pane, ClosePane(p)
  PROVE  Keeping
  <1>1. /\ \A q \in Pane \ {p} : agent'[q] = agent[q]
        /\ agent'[p] \in {agent[p], "gone"}
    BY DEF ClosePane, TypeInv, TypeOK
  <1>2. agent'[p] \in Listed => agent[p] \in Listed
    BY <1>1 DEF Listed, Agents
  <1> QED BY <1>1, <1>2, FleetEnds

(* A binding dropped, with the checkout of a worker that has ended.        *)
LEMMA FleetDrops ==
  ASSUME TypeInv, SoleInv, NEW p \in Pane, Drop(p), agent[p] = "gone",
         UNCHANGED <<agent, work>>
  PROVE  Keeping
  <1> DEFINE drives == [q \in Pane |-> bindings[q].task]  t == bindings[p].task
  <1>1. /\ bindings' = [bindings EXCEPT ![p] = NoBinding] /\ tree' \in {tree \ {t}, tree}
        /\ bindings \in [Pane -> Binding] /\ tree \subseteq Task
    BY DEF Drop, RemoveTree, TypeInv, TypeOK
  <1>2. drives' = [drives EXCEPT ![p] = NoTask]
    BY <1>1, BindingsMade
  <1>3. CASE t = NoTask
    <2>1. tree' = tree
      BY <1>1, <1>3, ConstantsOK DEF ConstantsOK
    <2>2. drives' = drives
      BY <1>2, <1>3
    <2> QED BY <2>1, <2>2 DEF Keeping, Fl!fleetVars
  <1>4. CASE t # NoTask
    <2>1. t = work[p] /\ Alone(p)
      BY <1>4 DEF SoleInv, Bindings, Seated
    <2>2. \A q \in Pane : agent[q] \in Listed => work[q] # t
      BY <2>1 DEF Alone, Listed, Agents
    <2>3. Fl!Drop(p)
      BY <1>1, <1>2, <1>4, <2>2 DEF Fl!Drop, Fl!Inside
    <2> QED BY <2>3 DEF Keeping, Fl!Next
  <1> QED BY <1>3, <1>4

(* Checkouts nobody is in and nothing is bound in removed.                 *)
LEMMA FleetClears ==
  ASSUME UNCHANGED <<agent, work>>, SameTasks, NEW S \in SUBSET Task, tree' = tree \ S,
         \A t \in S : BoundTo(t) = {} /\ \A q \in Pane : agent[q] \in Listed => work[q] # t
  PROVE  Keeping
  <1>1. \A t \in S : Fl!Inside(t) = {} /\ Fl!Through(t) = {}
    BY DEF Fl!Inside, Fl!Through, BoundTo
  <1>2. Fl!Clear(S)
    BY <1>1 DEF Fl!Clear, SameTasks
  <1> QED BY <1>2 DEF Keeping, Fl!Next

(* The one checkout of a spawn that failed or of a pane given up on.       *)
LEMMA FleetUndoes ==
  ASSUME TypeInv, UNCHANGED <<agent, work>>, SameTasks, NEW t \in Task, RemoveTree(t),
         BoundTo(t) = {}, \A q \in Pane : agent[q] \in Listed => work[q] # t
  PROVE  Keeping
  <1>1. CASE tree' = tree
    BY <1>1, FleetRests
  <1>2. CASE tree' = tree \ {t}
    BY <1>2, FleetClears
  <1> QED BY <1>1, <1>2 DEF RemoveTree

-----------------------------------------------------------------------------
(* SurveyInv is inductive, given the others.                               *)

(* Nothing but a spawn opens a pane.                                       *)
NoneOpened == UNCHANGED work /\ \A p \in Pane : agent'[p] = "free" => agent[p] = "free"

LEMMA ClosingOpensNone ==
  ASSUME TypeInv, NEW p \in Pane, ClosePane(p), UNCHANGED work PROVE NoneOpened
  BY DEF ClosePane, NoneOpened, TypeInv, TypeOK

LEMMA ApplyOpensNone ==
  ASSUME TypeInv, NEW p \in Pane, Apply(p) PROVE NoneOpened
  <1>1. UNCHANGED work /\ (UNCHANGED agent \/ ClosePane(p))
    BY DEF Apply, ApplyRearm, ApplyNotify, SkipShot, ApplyRetire, ApplyUnbind, PromptLands,
           AgentMissing, PromptFails
  <1> QED BY <1>1, ClosingOpensNone DEF NoneOpened

LEMMA SpawnsOpenOne ==
  ASSUME TypeInv, Spawns, \A p \in Pane : ~OpenPane(p) PROVE NoneOpened
  <1>1. CASE StartAgent
    BY <1>1 DEF StartAgent, NoneOpened, TypeInv, TypeOK, Agents
  <1>2. CASE UndoSpawn
    <2>1. pc \in {"start", "confirm"} /\ ClosePane(cur.pane) /\ UNCHANGED work
      BY <1>2 DEF UndoSpawn
    <2>2. cur.pane \in Pane
      BY <2>1 DEF TypeInv, Midway, Spawning
    <2> QED BY <2>1, <2>2, ClosingOpensNone
  <1> QED BY <1>1, <1>2
          DEF Spawns, CutCheckout, SpawnRefused, OpenFails, ConfirmGoal, DropCheckout, NoneOpened

LEMMA AnswersOpenNone ==
  ASSUME TypeInv, Answers PROVE NoneOpened
  <1>1. ASSUME NEW p \in Pane,
               LetGo(p) \/ RetiresFinished(p) \/ Holds(p) \/ TakesBack(p) \/ Samples(p)
        PROVE  NoneOpened
    <2>1. UNCHANGED work /\ (UNCHANGED agent \/ ClosePane(p))
      BY <1>1 DEF LetGo, RetiresFinished, Holds, TakesBack, Samples
    <2> QED BY <2>1, ClosingOpensNone DEF NoneOpened
  <1>2. CASE SampleIdle
    <2>1. pc = "sample" /\ ClosePane(cur.pane) /\ UNCHANGED work
      BY <1>2 DEF SampleIdle
    <2>2. cur.pane \in Pane
      BY <2>1 DEF TypeInv, Midway
    <2> QED BY <2>1, <2>2, ClosingOpensNone
  <1>3. CASE SampleLive \/ RetiresRestored
    BY <1>3 DEF SampleLive, RetiresRestored, NoneOpened
  <1> QED BY <1>1, <1>2, <1>3 DEF Answers

LEMMA OutsideOpensNone ==
  ASSUME TypeInv, Door \/ Environment PROVE NoneOpened
  BY DEF Door, Environment, DoorReads, DoorReserves, Claims, Submits, AgentTurns, AgentDies,
         PaneCloses, TimePasses, Reviewed, Cancelled, Released, Amended, TakenByOthers,
         LeaseExpires, SetAgent, NoneOpened, TypeInv, TypeOK

(* So panes, and what a reconciliation has in hand, only become fewer.     *)
LEMMA SurveyKept ==
  ASSUME SurveyInv, NoneOpened, \A p \in Pane : InHand(p)' => InHand(p)
  PROVE  SurveyInv'
  BY DEF SurveyInv, NoneOpened

(* A pane opened while nothing is in hand; a survey, of live panes only.   *)
LEMMA SurveyOpens ==
  ASSUME TypeInv, SoleInv, SurveyInv, NEW p \in Pane, OpenPane(p) PROVE SurveyInv'
  <1>1. UNCHANGED start /\ pc = "open" /\ \A q \in Pane : ~InHand(q)
    BY DEF OpenPane, SoleInv, StartInv, Blank, InHand
  <1>2. agent'[p] = "bare" /\ \A q \in Pane \ {p} : agent'[q] = agent[q] /\ work'[q] = work[q]
    BY DEF OpenPane, TypeInv, TypeOK
  <1> QED BY <1>1, <1>2 DEF SurveyInv, InHand

LEMMA SurveySurveys ==
  ASSUME TypeInv, SoleInv, SurveyInv, Start \/ TickAdopts PROVE SurveyInv'
  <1>1. NoneOpened /\ UNCHANGED agent
    BY DEF Start, TickAdopts, NoneOpened
  <1>2. CASE UNCHANGED start
    BY <1>1, <1>2, SurveyKept DEF InHand
  <1>3. CASE Surveys
    <2>1. start'.found = {p \in Pane : Ours(p)} /\ start'.kept = NoStart.kept
      BY <1>3 DEF Surveys, NoStart
    <2>2. \A p \in Pane : InHand(p)' => agent[p] \in Listed
      BY <2>1, BlankNoStart DEF Blank, InHand, Ours
    <2> QED BY <1>1, <2>2 DEF SurveyInv, NoneOpened, SoleInv, OnePanePerTask
  <1> QED BY <1>2, <1>3 DEF Start, TickAdopts

(* What is kept of a pane was found.                                       *)
LEMMA SurveyAnswers ==
  ASSUME TypeInv, SoleInv, SurveyInv, Answers PROVE SurveyInv'
  <1>1. start \in Survey /\ start.kept \in [Pane -> Binding]
    BY DEF TypeInv, TypeOK, Survey
  <1>2. ASSUME NEW p, Settled(p) PROVE \A q \in Pane : InHand(q)' => InHand(q)
    BY <1>1, <1>2, SettledType DEF InHand
  <1>3. ASSUME NEW p \in Pane, p \in start.found, NEW b \in Binding, Kept(p, b)
        PROVE  \A q \in Pane : InHand(q)' => InHand(q)
    <2>1. start'.found = start.found \ {p} /\ start'.kept = [start.kept EXCEPT ![p] = b]
      BY <1>1, <1>3, KeptType
    <2> QED BY <1>1, <1>3, <2>1 DEF InHand
  <1>4. ASSUME NEW p \in Pane,
               LetGo(p) \/ RetiresFinished(p) \/ Holds(p) \/ TakesBack(p) \/ Samples(p)
        PROVE  \A q \in Pane : InHand(q)' => InHand(q)
    <2>1. p \in start.found
      BY <1>4 DEF LetGo, RetiresFinished, Holds, TakesBack, Samples, Reconciles
    <2>2. CASE LetGo(p) \/ RetiresFinished(p)
      BY <1>2, <2>2 DEF LetGo, RetiresFinished
    <2>3. CASE Holds(p)
      BY <1>3, <2>1, <2>3, DocType DEF Holds
    <2>4. CASE TakesBack(p)
      <3>1. NewBinding(work[p]) \in Binding
        BY BindingsMade DEF TypeInv, TypeOK
      <3> QED BY <1>3, <2>1, <2>4, <3>1 DEF TakesBack
    <2>5. CASE Samples(p)
      BY <2>5 DEF Samples, InHand
    <2> QED BY <1>4, <2>2, <2>3, <2>4, <2>5
  <1>5. CASE SampleLive
    <2>1. cur.pane \in Pane /\ cur.pane \in start.found
      BY <1>5 DEF SampleLive, SoleInv, StartInv, TypeInv, Midway
    <2> QED BY <1>3, <1>5, <2>1, DocType, SurveyKept, AnswersOpenNone DEF SampleLive
  <1>6. CASE SampleIdle
    BY <1>6, SurveyKept, AnswersOpenNone DEF SampleIdle, InHand
  <1>7. CASE RetiresRestored
    BY <1>2, <1>7, SurveyKept, AnswersOpenNone DEF RetiresRestored
  <1> QED BY <1>4, <1>5, <1>6, <1>7, SurveyKept, AnswersOpenNone DEF Answers

(* Every other step leaves the reconciliation alone or ends it.            *)
LEMMA SurveyStep ==
  TypeInv /\ SoleInv /\ FreshInv /\ SurveyInv /\ [Next]_vars => SurveyInv'
  <1> SUFFICES ASSUME TypeInv, SoleInv, FreshInv, SurveyInv, [Next]_vars PROVE SurveyInv'
    OBVIOUS
  <1>1. ASSUME UNCHANGED start, NoneOpened PROVE SurveyInv'
    BY <1>1, SurveyKept DEF InHand
  <1>2. CASE Tick /\ ~TickAdopts /\ ~Adopt
    <2>1. UNCHANGED start
      BY <1>2, FreshTick
    <2>2. CASE \E p \in Pane : OpenPane(p)
      BY <2>2, SurveyOpens
    <2>3. CASE Spawns /\ \A p \in Pane : ~OpenPane(p)
      BY <1>1, <2>1, <2>3, SpawnsOpenOne
    <2>4. CASE \E p \in Pane : Apply(p)
      BY <1>1, <2>1, <2>4, ApplyOpensNone
    <2>5. CASE \/ TickStart \/ ReadReady \/ TickFails \/ Decide
               \/ FinishRetire \/ CountDeath \/ SweepClaim \/ SweepOwed
      BY <1>1, <2>1, <2>5 DEF TickStart, ReadReady, TickFails, Decide, FinishRetire,
         CountDeath, SweepClaim, SweepOwed, NoneOpened
    <2>6. CASE Bind \/ Unreserve \/ \E t \in Task : TakeSlot(t)
      BY <1>1, <2>1, <2>6 DEF Bind, Unreserve, TakeSlot, NoneOpened
    <2> QED BY <1>2, <2>2, <2>3, <2>4, <2>5, <2>6 DEF Tick, Spawns
  <1>3. CASE Start \/ TickAdopts
    BY <1>3, SurveySurveys
  <1>4. CASE Answers
    BY <1>4, SurveyAnswers
  <1>5. CASE AdoptCommits \/ Reap \/ Crash
    <2>1. NoneOpened
      BY <1>5 DEF AdoptCommits, Reap, Crash, NoneOpened
    <2>2. start'.found = {} /\ start'.kept = NoStart.kept
      BY <1>5 DEF AdoptCommits, Reap, Crash, NoStart
    <2> QED BY <2>1, <2>2, BlankNoStart, SurveyKept DEF InHand, Blank
  <1>6. CASE Door \/ Environment
    <2>1. start'.found = start.found
          /\ \A p \in Pane : start'.kept[p].task = start.kept[p].task
      <3>1. CASE \E p \in Pane : TimePasses(p)
        BY <3>1, SurveyAged DEF TypeInv, TypeOK
      <3>2. CASE UNCHANGED start
        BY <3>2
      <3> QED BY <1>6, <3>1, <3>2
              DEF Door, Environment, Loop, DoorReads, DoorReserves, Claims, Submits, AgentTurns,
                  AgentDies, PaneCloses, Reviewed, Cancelled, Released, Amended,
                  TakenByOthers, LeaseExpires
    <2> QED BY <1>6, <2>1, SurveyKept, OutsideOpensNone DEF InHand
  <1>7. CASE UNCHANGED vars
    BY <1>1, <1>7 DEF vars, NoneOpened
  <1> QED BY <1>2, <1>3, <1>4, <1>5, <1>6, <1>7 DEF Next, Adopt, Answers

-----------------------------------------------------------------------------
(* Each step of the daemon is one of Fleet's or none.                      *)

(* What is decided for a pane and applied: it ends, or is let go of ended. *)
LEMMA FleetApply ==
  ASSUME FleetInv, NEW p \in Pane, Apply(p) PROVE Keeping
  <1>0. TypeInv /\ SoleInv
    BY DEF FleetInv
  <1>1. CASE ApplyRearm(p) \/ ApplyNotify(p) \/ SkipShot(p)
    BY <1>0, <1>1, EditsKeepTasks, FleetRests DEF ApplyRearm, ApplyNotify, SkipShot
  <1>2. ASSUME NEW kind, PromptLands(p, kind) PROVE Keeping
    BY <1>0, <1>2, EditsKeepTasks, FleetRests DEF PromptLands
  <1>3. ASSUME NEW kind, PromptFails(p, kind) PROVE Keeping
    BY <1>3, FleetRests DEF PromptFails, SameTasks
  <1>4. ASSUME NEW kind, AgentMissing(p, kind) \/ ApplyRetire(p) PROVE Keeping
    <2>1. UNCHANGED <<work, tree, bindings>> /\ (UNCHANGED agent \/ ClosePane(p))
      BY <1>4 DEF AgentMissing, ApplyRetire
    <2> QED BY <1>0, <2>1, FleetRests, FleetCloses DEF SameTasks
  <1>5. CASE ApplyUnbind(p)
    <2>1. agent[p] = "gone" /\ Drop(p) /\ UNCHANGED <<agent, work>>
      BY <1>0, <1>5 DEF ApplyUnbind, Due, SoleInv
    <2> QED BY <1>0, <2>1, FleetDrops
  <1> QED BY <1>1, <1>2, <1>3, <1>4, <1>5 DEF Apply

(* A checkout is cut where nobody is, and a pane opened in it.             *)
LEMMA FleetCuts ==
  ASSUME FleetInv, CutCheckout PROVE Keeping
  <1> DEFINE t == cur.task
  <1>1. t \in Task /\ BoundTo(t) = {} /\ \A q \in Pane : agent[q] \in Listed => work[q] # t
    BY DEF CutCheckout, BranchFree, Inhabited, FleetInv, SlotInv, Slotted, SoleInv,
           CheckoutOutlivesPane, TypeInv, Midway, Spawning
  <1>2. tree' = tree \cup {t} /\ UNCHANGED <<agent, work, bindings>>
    BY DEF CutCheckout
  <1> HIDE DEF t
  <1>3. Fl!Inside(t) = {} /\ Fl!Through(t) = {}
    BY <1>1 DEF Fl!Inside, Fl!Through, BoundTo
  <1>4. Fl!Cut(t)
    BY <1>2, <1>3 DEF Fl!Cut
  <1> QED BY <1>1, <1>4 DEF Keeping, Fl!Next

LEMMA FleetOpens ==
  ASSUME FleetInv, NEW p \in Pane, OpenPane(p) PROVE Keeping
  <1> DEFINE live == {q \in Pane : agent[q] \in Listed}
  <1>0. PICK t \in Task : t = cur.task
    BY DEF OpenPane, FleetInv, TypeInv, Midway, Spawning
  <1>1. /\ BoundTo(t) = {} /\ t \in tree
        /\ \A q \in Pane : agent[q] \in Listed => work[q] # t
    BY <1>0 DEF OpenPane, FleetInv, SlotInv, Slotted, SoleInv
  <1>2. /\ work[p] = NoTask /\ work' = [work EXCEPT ![p] = t]
        /\ agent' = [agent EXCEPT ![p] = "bare"] /\ UNCHANGED <<tree, bindings>>
        /\ agent \in [Pane -> AgentState]
    BY <1>0 DEF OpenPane, FleetInv, SurveyInv, TypeInv, TypeOK
  <1>3. live' = live \cup {p}
    BY <1>2 DEF Listed
  <1>4. Fl!Inside(t) = {} /\ Fl!Through(t) = {}
    BY <1>1 DEF Fl!Inside, Fl!Through, BoundTo
  <1>5. Fl!Open(p, t)
    BY <1>1, <1>2, <1>3, <1>4 DEF Fl!Open
  <1> QED BY <1>5 DEF Keeping, Fl!Next

(* The rest of a spawn: an agent started in a bare pane, a pane closed, a  *)
(* checkout nobody came to.                                                *)
LEMMA FleetSpawns ==
  ASSUME FleetInv, Spawns PROVE Keeping
  <1>0. TypeInv /\ SoleInv /\ SlotInv /\ SameTasks
    BY SpawnsFrame DEF FleetInv, SameTasks
  <1>1. CASE SpawnRefused \/ ConfirmGoal
    BY <1>0, <1>1, FleetRests DEF SpawnRefused, ConfirmGoal
  <1>2. CASE StartAgent
    <2>1. /\ pc = "start" /\ agent[cur.pane] = "bare" /\ UNCHANGED <<work, tree>>
          /\ \E state \in Agents : agent' = [agent EXCEPT ![cur.pane] = state]
      BY <1>2 DEF StartAgent
    <2>2. cur.pane \in Pane
      BY <1>0, <2>1 DEF TypeInv, Midway, Spawning
    <2>3. \A q \in Pane \ {cur.pane} : agent'[q] = agent[q]
      BY <1>0, <2>1 DEF TypeInv, TypeOK
    <2> QED BY <1>0, <2>1, <2>2, <2>3, FleetEnds DEF Listed
  <1>3. CASE UndoSpawn
    <2>1. pc \in {"start", "confirm"} /\ ClosePane(cur.pane) /\ UNCHANGED <<work, tree>>
      BY <1>3 DEF UndoSpawn
    <2>2. cur.pane \in Pane
      BY <1>0, <2>1 DEF TypeInv, Midway, Spawning
    <2> QED BY <1>0, <2>1, <2>2, FleetCloses
  <1>4. CASE OpenFails \/ DropCheckout
    <2>1. pc \in {"open", "undo"} /\ RemoveTree(cur.task) /\ UNCHANGED <<agent, work>>
      BY <1>4 DEF OpenFails, DropCheckout
    <2>2. cur.task \in Task /\ BoundTo(cur.task) = {}
      BY <1>0, <2>1 DEF TypeInv, Midway, Spawning, SlotInv, Slotted
    <2>3. \A q \in Pane : agent[q] \in Listed => work[q] # cur.task
      BY <1>0, <2>1 DEF SoleInv, Alone, Opened, Listed, Agents
    <2> QED BY <1>0, <2>1, <2>2, <2>3, FleetUndoes
  <1> QED BY <1>1, <1>2, <1>3, <1>4, FleetCuts, FleetOpens DEF Spawns

(* The binding of the pane opened last.                                    *)
LEMMA FleetBinds ==
  ASSUME FleetInv, Bind PROVE Keeping
  <1> DEFINE drives == [q \in Pane |-> bindings[q].task]
  <1>0. PICK p \in Pane : p = cur.pane
    BY DEF Bind, FleetInv, TypeInv, Midway, Spawning
  <1>1. cur.task \in Task /\ work[p] = cur.task /\ Alone(p) /\ BoundTo(cur.task) = {}
    BY <1>0 DEF Bind, FleetInv, TypeInv, Midway, Spawning, SoleInv, Opened, SlotInv, Slotted
  <1>2. /\ bindings' = [bindings EXCEPT ![p] = NewBinding(cur.task)]
        /\ bindings \in [Pane -> Binding] /\ UNCHANGED <<agent, work, tree>>
    BY <1>0 DEF Bind, FleetInv, TypeInv, TypeOK
  <1>3. drives' = [drives EXCEPT ![p] = work[p]]
    BY <1>1, <1>2, BindingsMade
  <1>4. Fl!Inside(work[p]) \subseteq {p} /\ Fl!Through(work[p]) = {} /\ work[p] # NoTask
    BY <1>1, ConstantsOK DEF Fl!Inside, Fl!Through, BoundTo, Alone, ConstantsOK
  <1>5. Fl!Bind(p)
    BY <1>2, <1>3, <1>4 DEF Fl!Bind
  <1> QED BY <1>5 DEF Keeping, Fl!Next

(* A crash forgets every worker.                                           *)
LEMMA FleetCrashes ==
  ASSUME Crash PROVE Keeping
  <1>1. \A p \in Pane : bindings'[p].task = NoTask
    BY BindingsMade DEF Crash, Forget, Nothing
  <1>2. Fl!Crash
    BY <1>1 DEF Crash, Fl!Crash, Fl!Undriven
  <1> QED BY <1>2 DEF Keeping, Fl!Next

(* A reconciliation answering for a pane.                                  *)
LEMMA FleetAnswers ==
  ASSUME FleetInv, Answers PROVE Keeping
  <1>0. TypeInv /\ SoleInv /\ FreshInv /\ SameTasks /\ pc \in Reconciling
    BY AnswersFrame DEF FleetInv, SameTasks
  <1>1. ASSUME NEW p \in Pane,
               LetGo(p) \/ RetiresFinished(p) \/ Holds(p) \/ TakesBack(p) \/ Samples(p)
        PROVE  Keeping
    <2>1. UNCHANGED <<work, tree>> /\ (UNCHANGED agent \/ ClosePane(p))
      BY <1>1 DEF LetGo, RetiresFinished, Holds, TakesBack, Samples
    <2> QED BY <1>0, <2>1, FleetRests, FleetCloses
  <1>2. CASE SampleLive
    BY <1>0, <1>2, FleetRests DEF SampleLive
  <1>3. CASE SampleIdle
    <2>1. pc = "sample" /\ ClosePane(cur.pane) /\ UNCHANGED <<work, tree>>
      BY <1>3 DEF SampleIdle
    <2>2. cur.pane \in Pane
      BY <1>0, <2>1 DEF TypeInv, Midway
    <2> QED BY <1>0, <2>1, <2>2, FleetCloses
  <1>4. CASE RetiresRestored
    <2>1. pc = "restored" /\ RemoveTree(cur.task) /\ UNCHANGED <<agent, work>>
      BY <1>4 DEF RetiresRestored
    <2>2. /\ cur.task \in Task /\ cur.pane \in start.found /\ cur.task = work[cur.pane]
          /\ agent[cur.pane] = "gone"
      BY <1>0, <2>1 DEF TypeInv, Midway, SoleInv, StartInv
    <2>3. BoundTo(cur.task) = {}
      BY <1>0, <2>2, ConstantsOK DEF FreshInv, Fresh, BoundTo, ConstantsOK
    <2>4. \A q \in Pane : agent[q] \in Listed => work[q] # cur.task
      BY <1>0, <2>2 DEF SoleInv, StartInv, Alone, Listed, Agents
    <2> QED BY <1>0, <2>1, <2>2, <2>3, <2>4, FleetUndoes
  <1> QED BY <1>1, <1>2, <1>3, <1>4 DEF Answers

(* What it kept is taken back, one worker for a task, and the checkouts    *)
(* nobody was in are cleared.                                              *)
LEMMA FleetCommits ==
  ASSUME FleetInv, AdoptCommits \/ Reap PROVE Keeping
  <1> DEFINE drives == [q \in Pane |-> bindings[q].task]
  <1>1. CASE AdoptCommits
    <2>1. /\ UNCHANGED <<agent, work, tree>> /\ bindings' = start.kept /\ pc = "adopt"
          /\ start.kept \in [Pane -> Binding]
      BY <1>1 DEF AdoptCommits, FleetInv, TypeInv, TypeOK, Survey
    <2>2. drives = Fl!Undriven
      BY <2>1 DEF FleetInv, FreshInv, Fresh, Fl!Undriven
    <2>3. drives' \in [Pane -> Task \cup {NoTask}]
      BY <2>1 DEF Binding
    <2>4. ASSUME NEW p \in Pane, start.kept[p].task # NoTask
          PROVE  start.kept[p].task = work[p] /\ Fl!Inside(work[p]) \subseteq {p}
      BY <2>4 DEF FleetInv, SoleInv, StartInv, Bindings, Seated, Alone, Fl!Inside
    <2>5. ASSUME NEW p \in Pane, NEW q \in Pane, start.kept[p].task # NoTask,
                 start.kept[p].task = start.kept[q].task
          PROVE  p = q
      BY <2>4, <2>5 DEF FleetInv, SurveyInv, InHand
    <2>6. Fl!TakeBack
      BY <2>1, <2>2, <2>3, <2>4, <2>5 DEF Fl!TakeBack
    <2> QED BY <2>6 DEF Keeping, Fl!Next
  <1>2. CASE Reap
    <2>1. /\ UNCHANGED <<agent, work>> /\ SameTasks /\ pc = "reap" /\ tree \subseteq Task
          /\ \E S \in SUBSET {t \in tree : t \notin start.lived /\ BoundTo(t) = {}} :
               tree' = tree \ S
      BY <1>2 DEF Reap, SameTasks, FleetInv, TypeInv, TypeOK
    <2>2. \A q \in Pane : agent[q] \in Listed => work[q] \in start.lived
      BY <2>1 DEF FleetInv, SoleInv, StartInv
    <2> QED BY <2>1, <2>2, FleetClears
  <1> QED BY <1>1, <1>2

(* The board is nothing to the fleet; agents turn and panes close.         *)
LEMMA FleetOutside ==
  ASSUME FleetInv, Door \/ Environment PROVE Keeping
  <1>0. TypeInv /\ SameTasks
    BY OutsideFrame DEF FleetInv
  <1>1. ASSUME NEW p \in Pane, AgentTurns(p) \/ AgentDies(p) \/ PaneCloses(p)
        PROVE  Keeping
    <2>1. /\ UNCHANGED <<work, tree>> /\ agent[p] \in Listed
          /\ \A q \in Pane \ {p} : agent'[q] = agent[q]
      BY <1>0, <1>1 DEF AgentTurns, AgentDies, PaneCloses, SetAgent, Listed, TypeInv, TypeOK
    <2> QED BY <1>0, <2>1, FleetEnds
  <1>2. CASE UNCHANGED <<agent, work, tree>>
    BY <1>0, <1>2, FleetRests
  <1> QED BY <1>1, <1>2
          DEF Door, Environment, DoorReads, DoorReserves, Claims, Submits, TimePasses,
              Reviewed, Cancelled, Released, Amended, TakenByOthers, LeaseExpires

(* Every step keeps the fleet.                                             *)
LEMMA FleetStep == FleetInv /\ [Next]_vars => Keeping
  <1> SUFFICES ASSUME FleetInv, [Next]_vars PROVE Keeping
    OBVIOUS
  <1>0. TypeInv /\ SoleInv
    BY DEF FleetInv
  <1>1. CASE \/ TickStart \/ ReadReady \/ TickFails \/ Decide \/ CountDeath
             \/ SweepClaim \/ SweepOwed
    BY <1>1, FleetRests DEF TickStart, ReadReady, TickFails, Decide, CountDeath, SweepClaim,
       SweepOwed, SameTasks
  <1>2. CASE Unreserve \/ Start \/ TickAdopts \/ \E t \in Task : TakeSlot(t)
    BY <1>2, FleetRests DEF Unreserve, TakeSlot, Start, TickAdopts, SameTasks
  <1>3. CASE FinishRetire
    <2>1. cur.pane \in Pane /\ agent[cur.pane] = "gone" /\ Drop(cur.pane)
          /\ UNCHANGED <<agent, work>>
      BY <1>0, <1>3 DEF FinishRetire, TypeInv, Midway, Ending, SoleInv
    <2> QED BY <1>0, <2>1, FleetDrops
  <1>4. CASE \E p \in Pane : Apply(p)
    BY <1>4, FleetApply
  <1>5. CASE Spawns \/ Bind
    BY <1>5, FleetSpawns, FleetBinds
  <1>6. CASE Answers \/ AdoptCommits \/ Reap
    BY <1>6, FleetAnswers, FleetCommits
  <1>7. CASE Crash \/ Door \/ Environment
    BY <1>7, FleetCrashes, FleetOutside
  <1>8. CASE UNCHANGED vars
    BY <1>8, FleetRests DEF vars, SameTasks
  <1> QED BY <1>1, <1>2, <1>3, <1>4, <1>5, <1>6, <1>7, <1>8
          DEF Next, Tick, Adopt, Answers, Spawns

(* The daemon implements Fleet: through failed spawns, deaths, crashes,    *)
(* restarts and the reconciliations after them, a worker is opened alone   *)
(* in a checkout of its task, driven by one pane, let go of only once its  *)
(* pane or its daemon has ended, and its checkout goes only after it       *)
(* (spawn, bind, drop, clearBranchHolder, Adopt, reap), so long as herdr   *)
(* closes the panes it is asked to.                                        *)
THEOREM FleetIsKept ==
  ASSUME "retire" \notin Faults PROVE Spec => KeepsTheFleet
  <1>1. Init => Fl!Init
    BY BindingsMade DEF Init, Nothing, Fl!Init, Fl!Undriven, Listed, Agents
  <1>2. FleetInv /\ [Next]_vars => [Fl!Next]_(Fl!fleetVars)
    BY FleetStep DEF Keeping
  <1>3. Init => SurveyInv
    BY BlankNoStart DEF Init, SurveyInv, InHand, Blank
  <1>4. Spec => []SurveyInv
    <2>1. TypeInv /\ SoleInv /\ FreshInv /\ SurveyInv /\ [Next]_vars => SurveyInv'
      BY SurveyStep
    <2> QED BY <1>3, <2>1, TypeAlways, SoleAlways, FreshAlways, PTL DEF Spec
  <1>5. Spec => []FleetInv
    BY <1>4, TypeAlways, SlotAlways, SoleAlways, FreshAlways, PTL DEF FleetInv
  <1> QED BY <1>1, <1>2, <1>5, PTL DEF Spec, KeepsTheFleet, Fl!Spec

=============================================================================
