----------------------------- MODULE Dispatcher -----------------------------
(***************************************************************************)
(* The dispatcher's tick loop (internal/loop), its pure core               *)
(* (internal/decide) and the document it persists (internal/store), with   *)
(* the board, herdr and the workers as the environment.                    *)
(*                                                                         *)
(* The tick is one goroutine and is modelled step by step, so that the     *)
(* board, the workers, a door's Dispatch and a crash come between its      *)
(* reads and its writes.  What the loop writes under one hold of its lock  *)
(* is one action.                                                          *)
(*                                                                         *)
(* Data the properties do not tell apart is abstracted: a prompt count     *)
(* stops at MaxPrompts (nothing compares it above that), a delivery time   *)
(* is the flag "overdue" (ClaimTimeout has passed since it), the trail,    *)
(* the wording and the order of several reservations are left out, and a   *)
(* checkout is the fact that its task's branch is held by one.             *)
(***************************************************************************)
EXTENDS Integers, FiniteSets

CONSTANTS
  Task,              \* board tasks
  Order,             \* the order the board offers them in: [Task -> Nat]
  Pane,              \* pane ids; herdr never hands out one twice
  NoTask, NoPane, Foreign, \* no task, no claimant, somebody else's agent
  MaxWorkers, MaxPrompts, Verify, \* decide.Policy
  MaxSpawnAttempts, DeadWorkerStreak, MaxWorkerDeaths,
  Codex,             \* tasks a quota can hold back for a tick
  Stuck,             \* tasks whose spawn never works (profile, branch)
  Faults,            \* which calls may fail, see FaultKinds
  Acts,              \* which outside interventions happen, see ActKinds
  MaxRestarts        \* bound on crashes

FaultKinds == {"retire", "remove", "board", "herdr", "spawn", "flaky", "sweep",
               "adopt"}  \* the last: a crash may fall inside a reconciliation
ActKinds == {"dispatch", "reject", "cancel", "foreign", "human", "release",
             "amend", "die", "close", "rebase"}

ASSUME ConstantsOK ==
  /\ IsFiniteSet(Task) /\ IsFiniteSet(Pane)
  /\ Order \in [Task -> Nat]
  /\ NoTask \notin Task /\ NoPane \notin Pane /\ Foreign \notin Pane \cup {NoPane}
  /\ MaxWorkers \in Nat \ {0} /\ MaxPrompts \in Nat \ {0}
  /\ MaxSpawnAttempts \in Nat \ {0} /\ DeadWorkerStreak \in Nat \ {0}
  /\ MaxWorkerDeaths \in Nat \ {0} /\ MaxRestarts \in Nat
  /\ Verify \in BOOLEAN
  /\ Codex \subseteq Task /\ Stuck \subseteq Task
  /\ Faults \subseteq FaultKinds /\ Acts \subseteq ActKinds

VARIABLES
  board,      \* [Task -> row]: the board's rows
  acted,      \* tasks the board's trail shows somebody acted on since a death
  agent,      \* [Pane -> AgentState]: what is in each pane
  work,       \* [Pane -> Task \cup {NoTask}]: whose checkout a pane works in
  tree,       \* tasks whose branch is held by a checkout of this daemon
  disk,       \* the persisted document
  up,         \* a daemon is running
  restarts,   \* crashes so far
  unadopted,  \* a start-up reconciliation failed and none has succeeded since
  start,      \* what the reconciliation under way read, and keeps so far
  bindings,   \* [Pane -> binding]
  attempts,   \* [Task -> spawn attempts of its reservation, or Unreserved]
  deaths,     \* [Task -> Nat]
  missing,    \* [Pane -> consecutive prompts refused agent_not_found]
  owed,       \* panes whose claim could not be handed back yet
  pc,         \* where the tick is
  cur,        \* the pane and task the tick is in the middle of
  rows,       \* the tick's board rows of the bound tasks
  ready,      \* the tick's ready list
  held,       \* those of it that were reserved
  plan,       \* [Pane -> actions decided and not yet applied]
  spawns,     \* tasks to spawn for, decided and not yet tried
  door,       \* the task a door's Dispatch has read and not yet reserved
  unannounced \* history: tasks in review whose submission nobody was told of

world  == <<board, acted, agent, work, tree>>
memory == <<bindings, attempts, deaths, missing, owed>>
tick   == <<pc, cur, rows, ready, held, plan, spawns>>
life   == <<up, restarts, unadopted, start>>
vars   == <<world, disk, life, memory, tick, door, unannounced>>

-----------------------------------------------------------------------------
(* Values.                                                                 *)

Unreserved == -1
AgentState == {"free", "bare", "working", "idle", "gone"}
Agents == {"working", "idle"}           \* herdr has an agent in the pane
Listed == {"bare"} \cup Agents          \* herdr lists the pane

Row == [st: {"todo", "doing", "review", "done"}, by: Pane \cup {NoPane, Foreign}]
Unread == [st |-> "unread", by |-> NoPane]
Todo == [st |-> "todo", by |-> NoPane]

Binding == [task: Task \cup {NoTask}, prompts: 0..MaxPrompts, overdue: BOOLEAN,
            notified: BOOLEAN, verified: BOOLEAN, skipped: BOOLEAN]
NoBinding == [task |-> NoTask, prompts |-> 0, overdue |-> FALSE,
              notified |-> FALSE, verified |-> FALSE, skipped |-> FALSE]
NewBindingAnnounced(t) ==  \* seeded fault: born as announced already
  [NoBinding EXCEPT !.task = t, !.prompts = 1, !.notified = TRUE]
NewBinding(t) == [NoBinding EXCEPT !.task = t, !.prompts = 1]

Kind == {"retire", "unbind", "giveup", "notify", "rearm", "prompt", "selfreview"}
Endings == {"retire", "unbind", "giveup"}
Steps == {"idle", "ready", "panes", "act", "drop", "count", "sweep",
          "prepare", "open", "start", "confirm", "undo", "bind", "unreserve",
          "adopt", "sample", "restored", "reap"}
Reconciling == {"adopt", "sample", "restored"}
Focus == [pane : Pane \cup {NoPane}, task : Task \cup {NoTask}, dead : BOOLEAN]
At(p, t, d) == [pane |-> p, task |-> t, dead |-> d]
None == At(NoPane, NoTask, FALSE)
Tries == Unreserved..MaxSpawnAttempts
Document == [bindings : [Pane -> Binding], attempts : [Task -> Tries],
             deaths : [Task -> Nat]]
Survey == [doc : Document, found : SUBSET Pane, kept : [Pane -> Binding],
           lived : SUBSET Task]
Nothing == [bindings |-> [p \in Pane |-> NoBinding],
            attempts |-> [t \in Task |-> Unreserved],
            deaths |-> [t \in Task |-> 0]]
NoStart == [doc |-> Nothing, found |-> {}, kept |-> Nothing.bindings, lived |-> {}]

Bound == {p \in Pane : bindings[p].task # NoTask}
BoundTo(t) == {p \in Pane : bindings[p].task = t}
Reserved == {t \in Task : attempts[t] # Unreserved}
HeldBackEarly(t) == deaths[t] + 1 >= MaxWorkerDeaths  \* seeded fault: one early
HeldBackLate(t) == deaths[t] > MaxWorkerDeaths        \* seeded fault: one late
HeldBack(t) == deaths[t] >= MaxWorkerDeaths
Offered == {t \in Task : board[t] = Todo}
InhabitedByAgent(t) ==  \* seeded fault: panes without an agent are overlooked
  \E p \in Pane : agent[p] \in Agents /\ work[p] = t
Inhabited(t) == \E p \in Pane : agent[p] \in Listed /\ work[p] = t
Bump(n) == IF n < MaxPrompts THEN n + 1 ELSE n

(* Seeded fault: a worker's binding is not written when it is made.        *)
SaveSkipsBind == disk' = IF unadopted \/ pc = "bind" THEN disk
                         ELSE [bindings |-> bindings', attempts |-> attempts',
                               deaths |-> deaths']

(* saveLocked: the whole document, and nothing while unadopted.            *)
Save == disk' = IF unadopted THEN disk
                ELSE [bindings |-> bindings', attempts |-> attempts',
                      deaths |-> deaths']

(* A checkout removed: git may refuse, which is logged and nothing more.   *)
RemoveTree(t) == tree' \in {tree \ {t}} \cup
                           (IF "remove" \in Faults THEN {tree} ELSE {})

(* Spawn.Retire: the pane is closed, or herdr refuses.                     *)
ClosePane(p) ==
  agent' \in {[agent EXCEPT ![p] = "gone"]} \cup
             (IF "retire" \in Faults THEN {agent} ELSE {})

-----------------------------------------------------------------------------
(* The pure core: what one binding gets, and which ready tasks get a slot. *)

Known(p) == rows[bindings[p].task].st # "unread"
StatusIs(p, st) == rows[bindings[p].task].st = st
TakenOver(p) == Known(p) /\ rows[bindings[p].task].by \notin {NoPane, p}
AliveByAgent(p) == agent[p] \in Agents  \* seeded fault: by the agent list
Alive(p) == agent[p] \in Listed

SelfReviewDue(p) ==
  LET b == bindings[p] IN
  /\ ~b.skipped
  /\ \/ ~b.verified
     \/ agent[p] = "idle" /\ b.prompts < MaxPrompts /\ b.overdue

(* Whether Decide gives the binding of pane p an action of this kind.      *)
Asked(p, kind) ==
  LET b     == bindings[p]
      ended == StatusIs(p, "done") \/ ~Alive(p) \/ TakenOver(p)
      lives == ~ended /\ ~StatusIs(p, "review")
  IN CASE kind = "retire" -> StatusIs(p, "done") \/ (Alive(p) /\ TakenOver(p))
       [] kind = "unbind" -> ~StatusIs(p, "done") /\ ~Alive(p)
       [] kind = "notify" -> ~ended /\ StatusIs(p, "review") /\ ~b.notified
       [] kind = "selfreview" -> /\ ~ended /\ StatusIs(p, "review")
                                 /\ Verify /\ SelfReviewDue(p)
       [] kind = "rearm"  -> /\ lives /\ Known(p)
                             /\ b.notified \/ b.verified \/ b.skipped
       [] kind = "giveup" -> /\ lives /\ StatusIs(p, "todo")
                             /\ b.overdue /\ b.prompts >= MaxPrompts
       [] kind = "prompt" -> /\ lives /\ b.overdue
                             /\ \/ StatusIs(p, "todo") /\ b.prompts < MaxPrompts
                                \/ StatusIs(p, "doing") /\ agent[p] = "idle"

(* Seeded faults in Verdict: a worker already announced is left alone; a   *)
(* pane herdr has no agent in is not prompted.                             *)
VerdictSparesAnnounced(p) ==
  IF p \in Bound /\ ~bindings[p].notified THEN {k \in Kind : Asked(p, k)} ELSE {}
VerdictSparesBare(p) ==
  IF p \in Bound THEN {k \in Kind : Asked(p, k)}
                      \ (IF agent[p] = "bare" THEN {"prompt"} ELSE {}) ELSE {}

Verdict(p) == IF p \in Bound THEN {k \in Kind : Asked(p, k)} ELSE {}

(* Seeded fault: a worker waiting on a review does not hold its slot.      *)
LiveOutsideReview ==
  {p \in Bound : Verdict(p) \cap Endings = {} /\ ~StatusIs(p, "review")}

Live == {p \in Bound : Verdict(p) \cap Endings = {}}
Room == IF Cardinality(Live) >= MaxWorkers THEN 0 ELSE MaxWorkers - Cardinality(Live)

(* A reserved task comes before one only offered; those in board order.    *)
Earlier(t, u) == \/ t \in held /\ u \notin held
                 \/ t \notin held /\ u \notin held /\ Order[t] < Order[u]

(* The slots Decide hands out: the longest run, from the front, of the     *)
(* ready tasks no quota gates that the free slots hold.                    *)
Fills(S, gated) ==
  LET eligible == ready \ gated IN
  /\ S \subseteq eligible
  /\ Cardinality(S) <= Room
  /\ \A u \in S : \A t \in eligible : Earlier(t, u) => t \in S
  /\ Cardinality(S) = Room \/ S = eligible

-----------------------------------------------------------------------------
(* The tick: clear deaths and copy the bindings, read the board, read      *)
(* herdr and decide.                                                       *)

NoRows == [t \in Task |-> Unread]
NoPlan == [p \in Pane |-> {}]

Idle == /\ pc' = "idle" /\ cur' = None /\ rows' = NoRows /\ ready' = {}
        /\ held' = {} /\ plan' = NoPlan /\ spawns' = {}

TickStart ==
  /\ up /\ pc = "idle" /\ ~unadopted
  /\ \E trail \in {acted} \cup (IF "board" \in Faults THEN {{}} ELSE {}) :
       deaths' = [t \in Task |-> IF t \in trail THEN 0 ELSE deaths[t]]
  /\ acted' = {t \in acted : deaths'[t] > 0}
  /\ \E unread \in IF "board" \in Faults THEN SUBSET Task ELSE {{}} :
       rows' = [t \in Task |-> IF BoundTo(t) = {} \/ t \in unread
                               THEN Unread ELSE board[t]]
  /\ held' = Reserved
  /\ pc' = "ready"
  /\ UNCHANGED <<bindings, attempts, missing, owed, cur, ready, plan, spawns>>
  /\ Save
  /\ UNCHANGED <<board, agent, work, tree, life, door, unannounced>>

ReadReady ==
  /\ pc = "ready"
  /\ LET bound == {t \in Task : BoundTo(t) # {}}
         kept  == (held \cap Offered) \ bound
     IN /\ held' = kept
        /\ ready' = kept \cup {t \in Offered \ bound : ~HeldBack(t)}
        /\ attempts' = [t \in Task |-> IF t \in held \ kept THEN Unreserved
                                       ELSE attempts[t]]
  /\ pc' = "panes"
  /\ UNCHANGED <<bindings, deaths, missing, owed, cur, rows, plan, spawns>>
  /\ Save
  /\ UNCHANGED <<world, life, door, unannounced>>

(* Board.Ready or Herdr.Panes fails: the tick fails and nothing is done.   *)
TickFails ==
  /\ \/ pc = "ready" /\ "board" \in Faults
     \/ pc = "panes" /\ "herdr" \in Faults
  /\ Idle
  /\ UNCHANGED <<world, disk, life, memory, door, unannounced>>

Decide ==
  /\ pc = "panes"
  /\ plan' = [p \in Pane |-> Verdict(p)]
  /\ \E gated \in SUBSET Codex, S \in SUBSET ready :
       Fills(S, gated) /\ spawns' = S
  /\ pc' = "act" /\ rows' = NoRows /\ ready' = {}
  /\ UNCHANGED <<world, disk, life, memory, cur, held, door, unannounced>>

-----------------------------------------------------------------------------
(* Applying what was decided, binding by binding and in Decide's order     *)
(* within one: an announcement or a rearm before the prompt.               *)

Due(p, kind) == pc = "act" /\ kind \in plan[p]
Applied(p, kind) == plan' = [plan EXCEPT ![p] = @ \ {kind}]
SameTask(p, q) == bindings[q].task # NoTask /\ bindings[q].task = bindings[p].task

(* What an action leaves in a binding.                                     *)
Rearmed(b) == [b EXCEPT !.notified = FALSE, !.verified = FALSE, !.skipped = FALSE]
Announced(b) == [b EXCEPT !.notified = TRUE]
Skipped(b) == [b EXCEPT !.skipped = TRUE]
Prompted(b, kind) == [b EXCEPT !.prompts = Bump(b.prompts), !.overdue = FALSE,
                               !.verified = b.verified \/ kind = "selfreview"]
Late(b) == IF b.task = NoTask THEN b ELSE [b EXCEPT !.overdue = TRUE]

ApplyRearm(p) ==
  /\ Due(p, "rearm") /\ Applied(p, "rearm")
  /\ bindings' = [q \in Pane |->
       IF SameTask(p, q) THEN Rearmed(bindings[q]) ELSE bindings[q]]
  /\ UNCHANGED <<attempts, deaths, missing, owed>>
  /\ Save
  /\ UNCHANGED <<world, life, pc, cur, rows, ready, held, spawns, door,
                 unannounced>>

ApplyNotify(p) ==
  /\ Due(p, "notify") /\ Applied(p, "notify")
  /\ \/ /\ bindings' = [q \in Pane |->
             IF SameTask(p, q) THEN Announced(bindings[q]) ELSE bindings[q]]
        /\ unannounced' = unannounced \ {bindings[p].task}
     \/ "herdr" \in Faults /\ UNCHANGED <<bindings, unannounced>>
  /\ UNCHANGED <<attempts, deaths, missing, owed>>
  /\ Save
  /\ UNCHANGED <<world, life, pc, cur, rows, ready, held, spawns, door>>

(* The shot is not sent: the diff gave the mutation pass nothing.          *)
SkipShot(p) ==
  /\ Due(p, "selfreview") /\ "notify" \notin plan[p] /\ Applied(p, "selfreview")
  /\ bindings' = [q \in Pane |->
       IF SameTask(p, q) THEN Skipped(bindings[q]) ELSE bindings[q]]
  /\ UNCHANGED <<attempts, deaths, missing, owed>>
  /\ Save
  /\ UNCHANGED <<world, life, pc, cur, rows, ready, held, spawns, door,
                 unannounced>>

Prompts(p, kind) ==
  /\ kind \in {"prompt", "selfreview"}
  /\ Due(p, kind) /\ plan[p] \cap {"notify", "rearm"} = {} /\ Applied(p, kind)

PromptLands(p, kind) ==
  /\ Prompts(p, kind) /\ agent[p] \in Agents
  /\ missing' = [missing EXCEPT ![p] = 0]
  /\ bindings' = [q \in Pane |->
       IF SameTask(p, q) THEN Prompted(bindings[q], kind) ELSE bindings[q]]
  /\ UNCHANGED <<attempts, deaths, owed>>
  /\ Save
  /\ UNCHANGED <<world, life, pc, cur, rows, ready, held, spawns, door,
                 unannounced>>

(* AgentPrompt refused agent_not_found; the DeadWorkerStreak'th in a row   *)
(* is a dead worker, whose pane is closed here and dropped next.           *)
AgentMissing(p, kind) ==
  /\ Prompts(p, kind) /\ (agent[p] \notin Agents \/ "flaky" \in Faults)
  /\ missing' = [missing EXCEPT ![p] = @ + 1]
  /\ IF missing'[p] < DeadWorkerStreak
     THEN UNCHANGED <<agent, pc, cur>>
     ELSE /\ ClosePane(p)
          /\ pc' = "drop"
          /\ cur' = At(p, bindings[p].task, TRUE)
  /\ UNCHANGED <<board, acted, work, tree, disk, life, bindings, attempts, deaths,
                 owed, rows, ready, held, spawns, door, unannounced>>

(* Any other failure of a prompt counts for nothing.                       *)
PromptFails(p, kind) ==
  /\ Prompts(p, kind) /\ (agent[p] = "gone" \/ "herdr" \in Faults)
  /\ UNCHANGED <<world, disk, life, memory, pc, cur, rows, ready, held, spawns,
                 door, unannounced>>

ApplyRetire(p) ==
  /\ \E kind \in {"retire", "giveup"} : Due(p, kind) /\ plan[p] \cap {"rearm"} = {}
                                        /\ Applied(p, kind)
  /\ ClosePane(p)
  /\ pc' = "drop"
  /\ cur' = At(p, bindings[p].task, FALSE)
  /\ UNCHANGED <<board, acted, work, tree, disk, life, memory, rows, ready, held,
                 spawns, door, unannounced>>

(* Seeded fault: the streak of refusals outlives the binding.              *)
DropKeepsStreak(p) == /\ bindings' = [bindings EXCEPT ![p] = NoBinding]
                      /\ UNCHANGED missing
                      /\ RemoveTree(bindings[p].task)

(* drop: the binding goes whether or not the pane closed, and its checkout *)
(* with it.                                                                *)
Drop(p) == /\ bindings' = [bindings EXCEPT ![p] = NoBinding]
           /\ missing' = [missing EXCEPT ![p] = 0]
           /\ RemoveTree(bindings[p].task)

FinishRetire ==
  /\ pc = "drop"
  /\ Drop(cur.pane)
  /\ IF cur.dead THEN pc' = "count" /\ UNCHANGED cur
                 ELSE pc' = "act" /\ cur' = None
  /\ UNCHANGED <<attempts, deaths, owed>>
  /\ Save
  /\ UNCHANGED <<board, acted, agent, work, life, rows, ready, held, plan,
                 spawns, door, unannounced>>

CountDeath ==
  /\ pc = "count"
  /\ deaths' = [deaths EXCEPT ![cur.task] = @ + 1]
  /\ acted' = acted \ {cur.task}
  /\ pc' = "act" /\ cur' = None
  /\ UNCHANGED <<bindings, attempts, missing, owed>>
  /\ Save
  /\ UNCHANGED <<board, agent, work, tree, life, rows, ready, held, plan,
                 spawns, door, unannounced>>

ApplyUnbind(p) ==
  /\ Due(p, "unbind") /\ Applied(p, "unbind")
  /\ Drop(p)
  /\ pc' = "sweep"
  /\ cur' = At(p, bindings[p].task, FALSE)
  /\ UNCHANGED <<attempts, deaths, owed>>
  /\ Save
  /\ UNCHANGED <<board, acted, agent, work, life, rows, ready, held, spawns,
                 door, unannounced>>

HandedBack(panes) ==
  [t \in Task |-> IF board[t].st = "doing" /\ board[t].by \in panes
                  THEN Todo ELSE board[t]]

(* The board asks herdr about the pane itself, and releases what a pane it *)
(* no longer lists was working.  A board or a herdr that cannot be asked   *)
(* leaves the claim owed.                                                  *)
SweepAsked(p) ==
  \/ ~Alive(p) /\ board' = HandedBack({p}) /\ UNCHANGED owed
  \/ (Alive(p) \/ "sweep" \in Faults) /\ UNCHANGED <<board, owed>>
  \/ "sweep" \in Faults /\ owed' = owed \cup {p} /\ UNCHANGED board

SweepClaim ==
  /\ pc = "sweep"
  /\ SweepAsked(cur.pane)
  /\ pc' = "act" /\ cur' = None
  /\ UNCHANGED <<acted, agent, work, tree, disk, life, bindings, attempts, deaths,
                 missing, rows, ready, held, plan, spawns, door, unannounced>>

(* The end of the tick: every owed sweep is asked again.                   *)
SweepOwed ==
  /\ pc = "act" /\ plan = NoPlan /\ spawns = {}
  /\ \E answered \in IF "sweep" \in Faults THEN SUBSET owed ELSE {owed} :
       /\ board' = HandedBack({p \in answered : ~Alive(p)})
       /\ owed' = owed \ answered
  /\ Idle
  /\ UNCHANGED <<acted, agent, work, tree, disk, life, bindings, attempts, deaths,
                 missing, door, unannounced>>

-----------------------------------------------------------------------------
(* A spawn: the slot is taken, the checkout cut, the pane opened, the      *)
(* agent started, the binding written, and only then the reservation spent.*)

Next1(t) == t \in spawns /\ \A u \in spawns : ~Earlier(u, t)

(* Seeded faults: a reservation is given up one try late, one try early.   *)
SpentLate(t) == attempts[t] > MaxSpawnAttempts
SpentEarly(t) == attempts[t] + 1 >= MaxSpawnAttempts

Spent(t) == attempts[t] >= MaxSpawnAttempts

(* attempt: count the try, or give a spent reservation up.                 *)
TakeSlot(t) ==
  /\ pc = "act" /\ plan = NoPlan /\ Next1(t)
  /\ spawns' = spawns \ {t}
  /\ IF Spent(t)
     THEN /\ attempts' = [attempts EXCEPT ![t] = Unreserved]
          /\ UNCHANGED <<pc, cur>>
     ELSE /\ attempts' = [attempts EXCEPT ![t] = IF @ = Unreserved THEN 1 ELSE @ + 1]
          /\ pc' = "prepare" /\ cur' = At(NoPane, t, FALSE)
  /\ UNCHANGED <<bindings, deaths, missing, owed>>
  /\ Save
  /\ UNCHANGED <<world, life, rows, ready, held, plan, door, unannounced>>

BackToAct == pc' = "act" /\ cur' = None

(* Seeded fault: only a binding keeps a checkout from being replaced.      *)
BranchUnbound(t) == t \in tree => BoundTo(t) = {}

(* clearBranchHolder: a checkout nothing is bound to and no pane works in  *)
(* is replaced; any other keeps the spawn from running.                    *)
BranchFree(t) == t \in tree => BoundTo(t) = {} /\ ~Inhabited(t)

CutCheckout ==
  /\ pc = "prepare" /\ cur.task \notin Stuck /\ BranchFree(cur.task)
  /\ tree' = tree \cup {cur.task}
  /\ pc' = "open"
  /\ UNCHANGED <<board, acted, agent, work, disk, life, memory, cur, rows, ready,
                 held, plan, spawns, door, unannounced>>

SpawnRefused ==
  /\ pc = "prepare"
  /\ cur.task \in Stuck \/ ~BranchFree(cur.task) \/ "spawn" \in Faults
  /\ BackToAct
  /\ UNCHANGED <<world, disk, life, memory, rows, ready, held, plan, spawns,
                 door, unannounced>>

OpenPane(p) ==
  /\ pc = "open" /\ agent[p] = "free"
  /\ agent' = [agent EXCEPT ![p] = "bare"]
  /\ work' = [work EXCEPT ![p] = cur.task]
  /\ pc' = "start" /\ cur' = At(p, cur.task, FALSE)
  /\ UNCHANGED <<board, acted, tree, disk, life, memory, rows, ready, held, plan,
                 spawns, door, unannounced>>

(* No pane came up: the checkout cut for it goes.                          *)
OpenFails ==
  /\ pc = "open" /\ ("spawn" \in Faults \/ \A p \in Pane : agent[p] # "free")
  /\ RemoveTree(cur.task)
  /\ BackToAct
  /\ UNCHANGED <<board, acted, agent, work, disk, life, memory, rows, ready, held,
                 plan, spawns, door, unannounced>>

(* herdr keeps an agent name unique among the agents it has.               *)
NameTaken(t) == \E q \in Pane : agent[q] \in Agents /\ work[q] = t

StartAgent ==
  /\ pc = "start" /\ agent[cur.pane] = "bare" /\ ~NameTaken(cur.task)
  /\ \E state \in Agents : agent' = [agent EXCEPT ![cur.pane] = state]
  /\ pc' = "confirm"
  /\ UNCHANGED <<board, acted, work, tree, disk, life, memory, cur, rows, ready,
                 held, plan, spawns, door, unannounced>>

(* Seeded fault: the reservation is spent before the binding is made.      *)
ConfirmSpendsSlot ==
  /\ pc = "confirm" /\ pc' = "bind"
  /\ attempts' = [attempts EXCEPT ![cur.task] = Unreserved]
  /\ UNCHANGED <<bindings, deaths, missing, owed>>
  /\ Save
  /\ UNCHANGED <<world, life, cur, rows, ready, held, plan, spawns, door, unannounced>>

(* A marker on the screen, a working agent or the board's row confirms the *)
(* goal; a pane that cannot be read, or that herdr does not call idle, is  *)
(* kept and bound the same.                                                *)
ConfirmGoal ==
  /\ pc = "confirm"
  /\ pc' = "bind"
  /\ UNCHANGED <<world, disk, life, memory, cur, rows, ready, held, plan,
                 spawns, door, unannounced>>

(* The board's row says this pane's goal registered.                       *)
Registered(t, p) ==
  \/ board[t].by = p
  \/ board[t].by = NoPane /\ board[t].st \in {"review", "done"}

(* A failure the pipeline could read: no agent started, or herdr (its last *)
(* answer, for an agent since gone from its shell) calls it idle and the   *)
(* board knows no better.  The half-built pane is closed.                  *)
UndoSpawn ==
  /\ \/ /\ pc = "start"
        /\ "spawn" \in Faults \/ agent[cur.pane] # "bare" \/ NameTaken(cur.task)
     \/ /\ pc = "confirm" /\ agent[cur.pane] \in {"idle", "bare"}
        /\ "board" \in Faults \/ ~Registered(cur.task, cur.pane)
  /\ ClosePane(cur.pane)
  /\ pc' = "undo"
  /\ UNCHANGED <<board, acted, work, tree, disk, life, memory, cur, rows, ready,
                 held, plan, spawns, door, unannounced>>

DropCheckout ==
  /\ pc = "undo"
  /\ RemoveTree(cur.task)
  /\ BackToAct
  /\ UNCHANGED <<board, acted, agent, work, disk, life, memory, rows, ready, held,
                 plan, spawns, door, unannounced>>

Bind ==
  /\ pc = "bind"
  /\ bindings' = [bindings EXCEPT ![cur.pane] = NewBinding(cur.task)]
  /\ pc' = "unreserve"
  /\ UNCHANGED <<attempts, deaths, missing, owed>>
  /\ Save
  /\ UNCHANGED <<world, life, cur, rows, ready, held, plan, spawns, door,
                 unannounced>>

Unreserve ==
  /\ pc = "unreserve"
  /\ attempts' = [attempts EXCEPT ![cur.task] = Unreserved]
  /\ BackToAct
  /\ UNCHANGED <<bindings, deaths, missing, owed>>
  /\ Save
  /\ UNCHANGED <<world, life, rows, ready, held, plan, spawns, door, unannounced>>

-----------------------------------------------------------------------------
(* The dispatch verb, on a door's goroutine: the board and the death count *)
(* are read before the lock is taken, the reservation is made under it.    *)

(* The start-up reconciliation ends before the doors open; a later one,    *)
(* made by a tick, is raced by them.                                       *)
Serving == pc \in Reconciling \cup {"reap"} => unadopted

DoorReads(t) ==
  /\ "dispatch" \in Acts /\ up /\ door = NoTask /\ Serving
  /\ t \in Offered /\ ~HeldBack(t)
  /\ door' = t
  /\ UNCHANGED <<world, disk, life, memory, tick, unannounced>>

DoorAccepts(t) == BoundTo(t) = {} /\ t \notin Reserved
                  /\ Cardinality(Bound) + Cardinality(Reserved) < MaxWorkers

DoorReserves ==
  /\ door # NoTask
  /\ attempts' = IF DoorAccepts(door) THEN [attempts EXCEPT ![door] = 0] ELSE attempts
  /\ door' = NoTask
  /\ UNCHANGED <<bindings, deaths, missing, owed>>
  /\ Save
  /\ UNCHANGED <<world, life, tick, unannounced>>

-----------------------------------------------------------------------------
(* A crash loses the memory and keeps the document, the panes and the      *)
(* board.  A start reconciles with what it finds.                          *)

Forget == /\ bindings' = Nothing.bindings /\ attempts' = Nothing.attempts
          /\ deaths' = Nothing.deaths
          /\ missing' = [p \in Pane |-> 0] /\ owed' = {}

Crash ==
  /\ up /\ restarts < MaxRestarts
  /\ pc \in Reconciling => "adopt" \in Faults
  /\ up' = FALSE /\ restarts' = restarts + 1 /\ unadopted' = FALSE
  /\ start' = NoStart
  /\ Forget /\ Idle /\ door' = NoTask
  /\ UNCHANGED <<world, disk, unannounced>>

(* Seeded fault: a pane is this daemon's only by a binding.                *)
OursByBinding(p) == agent[p] \in Listed /\ disk.bindings[p].task # NoTask

(* ourPanes: a live pane is this daemon's by the checkout it works in or   *)
(* by a binding.                                                           *)
Ours(p) == agent[p] \in Listed
           /\ (work[p] \in tree \/ disk.bindings[p].task # NoTask)

(* Adopt's reads: the document, the panes and, for the reap at its end,    *)
(* the checkouts somebody is alive in.                                     *)
Surveys ==
  /\ start' = [NoStart EXCEPT !.doc = disk, !.found = {p \in Pane : Ours(p)},
                              !.lived = {t \in tree : Inhabited(t)}]
  /\ pc' = "adopt"
  /\ UNCHANGED <<cur, rows, ready, held, plan, spawns>>

(* A fresh process holds an empty memory and has not failed to reconcile:  *)
(* until the first Adopt ends, what it saves is that empty memory.         *)
Start ==
  /\ ~up /\ up' = TRUE
  /\ \/ Surveys /\ UNCHANGED unadopted
     \/ "herdr" \in Faults /\ unadopted' = TRUE /\ UNCHANGED <<tick, start>>
  /\ UNCHANGED <<world, disk, restarts, memory, door, unannounced>>

(* The tick of a daemon that has not reconciled tries again.               *)
TickAdopts ==
  /\ up /\ unadopted /\ pc = "idle"
  /\ Surveys
  /\ UNCHANGED <<world, disk, up, restarts, unadopted, memory, door, unannounced>>

Named(p) == start.doc.bindings[p].task # NoTask
TaskOf(p) == IF Named(p) THEN start.doc.bindings[p].task ELSE work[p]
Elsewhere(p) == board[TaskOf(p)].by \notin {NoPane, p}
RowIs(p, st) == board[TaskOf(p)].st = st

(* reconcile, one pane at a time: the row is read now.                     *)
Reconciles(p) == pc = "adopt" /\ p \in start.found
Settled(p) == start' = [start EXCEPT !.found = @ \ {p}]
Kept(p, b) == start' = [start EXCEPT !.found = @ \ {p}, !.kept[p] = b]

LetGo(p) ==
  /\ Reconciles(p)
  /\ \/ "board" \in Faults /\ ~Named(p)
     \/ ~RowIs(p, "done") /\ Elsewhere(p)
  /\ Settled(p)
  /\ UNCHANGED <<world, disk, up, restarts, unadopted, memory, tick, door,
                 unannounced>>

RetiresFinished(p) ==
  /\ Reconciles(p) /\ RowIs(p, "done")
  /\ ClosePane(p)
  /\ Settled(p)
  /\ UNCHANGED <<board, acted, work, tree, disk, up, restarts, unadopted, memory,
                 tick, door, unannounced>>

Holds(p) ==
  /\ Reconciles(p) /\ Named(p)
  /\ \/ "board" \in Faults
     \/ ~RowIs(p, "done") /\ ~RowIs(p, "doing") /\ ~Elsewhere(p)
  /\ Kept(p, start.doc.bindings[p])
  /\ UNCHANGED <<world, disk, up, restarts, unadopted, memory, tick, door,
                 unannounced>>

(* A live pane on a live row that no binding names: its event saves.       *)
TakesBack(p) ==
  /\ Reconciles(p) /\ ~Named(p) /\ ~RowIs(p, "done") /\ ~Elsewhere(p)
  /\ Kept(p, NewBinding(work[p]))
  /\ UNCHANGED memory
  /\ Save
  /\ UNCHANGED <<world, up, restarts, unadopted, tick, door, unannounced>>

(* restoredWorkerIsLive watches a pane on a claimed row for up to          *)
(* RestoredWorkerConfirm; an idle answer to the last question ends it.     *)
Samples(p) ==
  /\ Reconciles(p) /\ Named(p) /\ RowIs(p, "doing") /\ ~Elsewhere(p)
  /\ pc' = "sample" /\ cur' = At(p, TaskOf(p), FALSE)
  /\ UNCHANGED <<world, disk, life, memory, rows, ready, held, plan, spawns, door,
                 unannounced>>

BackToAdopt == /\ pc' = "adopt" /\ cur' = None
               /\ UNCHANGED <<rows, ready, held, plan, spawns>>

SampleLive ==
  /\ pc = "sample" /\ (agent[cur.pane] # "idle" \/ "herdr" \in Faults)
  /\ Kept(cur.pane, start.doc.bindings[cur.pane])
  /\ BackToAdopt
  /\ UNCHANGED <<world, disk, up, restarts, unadopted, memory, door, unannounced>>

SampleIdle ==
  /\ pc = "sample" /\ agent[cur.pane] = "idle"
  /\ ClosePane(cur.pane)
  /\ pc' = "restored"
  /\ UNCHANGED <<board, acted, work, tree, disk, life, memory, cur, rows, ready,
                 held, plan, spawns, door, unannounced>>

(* retireRestored: the checkout, the claim, the event and its save.        *)
RetiresRestored ==
  /\ pc = "restored"
  /\ RemoveTree(cur.task)
  /\ SweepAsked(cur.pane)
  /\ Settled(cur.pane)
  /\ BackToAdopt
  /\ UNCHANGED <<bindings, attempts, deaths, missing>>
  /\ Save
  /\ UNCHANGED <<acted, agent, work, up, restarts, unadopted, door, unannounced>>

(* Seeded fault: the death counts are not carried forward.                 *)
CarriedNoDeaths == deaths
CarriedDeaths == start.doc.deaths

(* Every pane answered for: the memory is what was kept and what the       *)
(* document said, less the reservations another principal made.            *)
AdoptCommits ==
  /\ pc = "adopt" /\ start.found = {}
  /\ bindings' = start.kept
  /\ attempts' \in {start.doc.attempts} \cup
                   (IF "rebase" \in Acts THEN {Nothing.attempts} ELSE {})
  /\ deaths' = CarriedDeaths
  /\ disk' = [bindings |-> bindings', attempts |-> attempts', deaths |-> deaths']
  /\ unadopted' = FALSE
  /\ start' = [NoStart EXCEPT !.lived = start.lived]
  /\ pc' = "reap"
  /\ UNCHANGED <<world, up, restarts, missing, owed, cur, rows, ready, held, plan,
                 spawns, door, unannounced>>

(* reap: a checkout nothing is bound in and nobody was alive in goes.      *)
Reap ==
  /\ pc = "reap"
  /\ LET stale == {t \in tree : t \notin start.lived /\ BoundTo(t) = {}}
     IN \E gone \in {stale} \cup (IF "remove" \in Faults THEN SUBSET stale ELSE {}) :
          tree' = tree \ gone
  /\ pc' = "idle" /\ start' = NoStart
  /\ UNCHANGED <<board, acted, agent, work, disk, up, restarts, unadopted, memory,
                 cur, rows, ready, held, plan, spawns, door, unannounced>>

Adopt == \/ \E p \in Pane : LetGo(p) \/ RetiresFinished(p) \/ Holds(p)
                            \/ TakesBack(p) \/ Samples(p)
         \/ SampleLive \/ SampleIdle \/ RetiresRestored \/ AdoptCommits \/ Reap

-----------------------------------------------------------------------------
(* The environment: workers, the people at the board and at herdr, time.   *)

Loop == <<disk, life, memory, tick, door>>
SetRow(t, row) == board' = [board EXCEPT ![t] = row]
SetAgent(p, state) == agent' = [agent EXCEPT ![p] = state]

(* A release or an amendment is on the board's trail, after the death the  *)
(* count was written for.                                                  *)
Noted(t) == acted' = IF disk.deaths[t] > 0 THEN acted \cup {t} ELSE acted

Claims(p) ==
  /\ agent[p] = "working" /\ board[work[p]] = Todo
  /\ SetRow(work[p], [st |-> "doing", by |-> p])
  /\ UNCHANGED <<acted, agent, work, tree, Loop, unannounced>>

Submits(p) ==
  /\ agent[p] = "working" /\ board[work[p]] = [st |-> "doing", by |-> p]
  /\ SetRow(work[p], [st |-> "review", by |-> p])
  /\ unannounced' = unannounced \cup {work[p]}
  /\ UNCHANGED <<acted, agent, work, tree, Loop>>

LeavesReview(t) == unannounced' = unannounced \ {t}

Reviewed(t) ==
  /\ board[t].st = "review"
  /\ \/ SetRow(t, [st |-> "done", by |-> NoPane])
     \/ "reject" \in Acts /\ SetRow(t, [board[t] EXCEPT !.st = "doing"])
  /\ LeavesReview(t)
  /\ UNCHANGED <<acted, agent, work, tree, Loop>>

Cancelled(t) ==
  /\ "cancel" \in Acts /\ board[t].st # "done"
  /\ SetRow(t, [st |-> "done", by |-> NoPane])
  /\ LeavesReview(t)
  /\ UNCHANGED <<acted, agent, work, tree, Loop>>

(* Released by whoever holds it, or by the operator.                       *)
Released(t) ==
  /\ board[t].st = "doing"
  /\ "release" \in Acts \/ board[t].by \notin Pane
  /\ SetRow(t, Todo) /\ Noted(t)
  /\ UNCHANGED <<agent, work, tree, Loop, unannounced>>

Amended(t) ==
  /\ "amend" \in Acts /\ disk.deaths[t] > 0 /\ t \notin acted
  /\ acted' = acted \cup {t}
  /\ UNCHANGED <<board, agent, work, tree, Loop, unannounced>>

(* Another agent's pane, or a person, whose claim names no pane.           *)
TakenByOthers(t) ==
  /\ board[t] = Todo
  /\ \E by \in {Foreign : x \in Acts \cap {"foreign"}}
              \cup {NoPane : x \in Acts \cap {"human"}} :
       SetRow(t, [st |-> "doing", by |-> by])
  /\ UNCHANGED <<acted, agent, work, tree, Loop, unannounced>>

(* The board takes a claim back from a pane no worker renews it from.      *)
LeaseExpires(t) ==
  /\ board[t].st = "doing" /\ board[t].by \in Pane
  /\ agent[board[t].by] # "working"
  /\ SetRow(t, Todo)
  /\ UNCHANGED <<acted, agent, work, tree, Loop, unannounced>>

AgentTurns(p) ==
  /\ agent[p] \in Agents
  /\ SetAgent(p, IF agent[p] = "idle" THEN "working" ELSE "idle")
  /\ UNCHANGED <<board, acted, work, tree, Loop, unannounced>>

AgentDies(p) ==
  /\ "die" \in Acts /\ agent[p] \in Agents /\ SetAgent(p, "bare")
  /\ UNCHANGED <<board, acted, work, tree, Loop, unannounced>>

PaneCloses(p) ==
  /\ "close" \in Acts /\ agent[p] \in Listed /\ SetAgent(p, "gone")
  /\ UNCHANGED <<board, acted, work, tree, Loop, unannounced>>

(* ClaimTimeout has passed since the goal was last delivered.              *)
Aged(bound, p) == [bound EXCEPT ![p] = Late(bound[p])]

TimePasses(p) ==
  /\ bindings' = Aged(bindings, p)
  /\ disk' = [disk EXCEPT !.bindings = Aged(disk.bindings, p)]
  /\ start' = [start EXCEPT !.doc.bindings = Aged(start.doc.bindings, p),
                            !.kept = Aged(start.kept, p)]
  /\ <<bindings, disk, start>>' # <<bindings, disk, start>>
  /\ UNCHANGED <<world, up, restarts, unadopted, attempts, deaths, missing, owed, tick, door,
                 unannounced>>

Environment ==
  \/ \E p \in Pane : Claims(p) \/ Submits(p) \/ AgentTurns(p) \/ AgentDies(p)
                     \/ PaneCloses(p) \/ TimePasses(p)
  \/ \E t \in Task : Reviewed(t) \/ Cancelled(t) \/ Released(t) \/ Amended(t)
                     \/ TakenByOthers(t) \/ LeaseExpires(t)

-----------------------------------------------------------------------------
Apply(p) == \/ ApplyRearm(p) \/ ApplyNotify(p) \/ SkipShot(p)
            \/ ApplyRetire(p) \/ ApplyUnbind(p)
            \/ \E kind \in {"prompt", "selfreview"} :
                 PromptLands(p, kind) \/ AgentMissing(p, kind) \/ PromptFails(p, kind)

Tick == \/ TickStart \/ ReadReady \/ TickFails \/ Decide
        \/ \E p \in Pane : Apply(p)
        \/ FinishRetire \/ CountDeath \/ SweepClaim \/ SweepOwed
        \/ \E t \in Task : TakeSlot(t)
        \/ CutCheckout \/ SpawnRefused
        \/ \E p \in Pane : OpenPane(p)
        \/ OpenFails \/ StartAgent \/ ConfirmGoal \/ UndoSpawn \/ DropCheckout
        \/ Bind \/ Unreserve \/ TickAdopts \/ Adopt

Door == \/ \E t \in Task : DoorReads(t)
        \/ DoorReserves

Init ==
  /\ board = [t \in Task |-> Todo] /\ acted = {}
  /\ agent = [p \in Pane |-> "free"] /\ work = [p \in Pane |-> NoTask]
  /\ tree = {}
  /\ up = FALSE /\ restarts = 0 /\ unadopted = FALSE /\ start = NoStart
  /\ bindings = Nothing.bindings /\ attempts = Nothing.attempts
  /\ deaths = Nothing.deaths /\ missing = [p \in Pane |-> 0] /\ owed = {}
  /\ disk = Nothing
  /\ pc = "idle" /\ cur = None /\ rows = NoRows /\ ready = {} /\ held = {}
  /\ plan = NoPlan /\ spawns = {} /\ door = NoTask
  /\ unannounced = {}

Next == Tick \/ Door \/ Environment \/ Crash \/ Start

Spec == Init /\ [][Next]_vars

(* The daemon's own goroutines run on: the tick is never abandoned, a      *)
(* door's call ends, a daemon that went down is started again, the clock   *)
(* and the board's lease sweep do not stop.                                *)
Fairness ==
  /\ WF_vars(Tick) /\ WF_vars(DoorReserves) /\ WF_vars(Start)
  /\ \A p \in Pane : WF_vars(TimePasses(p))
  /\ \A t \in Task : WF_vars(LeaseExpires(t))

LiveSpec == Spec /\ Fairness

-----------------------------------------------------------------------------
TypeOK ==
  /\ board \in [Task -> Row] /\ acted \subseteq Task
  /\ agent \in [Pane -> AgentState] /\ work \in [Pane -> Task \cup {NoTask}]
  /\ tree \subseteq Task
  /\ disk \in Document
  /\ up \in BOOLEAN /\ restarts \in Nat /\ unadopted \in BOOLEAN
  /\ start \in Survey
  /\ bindings \in [Pane -> Binding]
  /\ attempts \in [Task -> Tries]
  /\ deaths \in [Task -> Nat] /\ missing \in [Pane -> 0..DeadWorkerStreak]
  /\ owed \subseteq Pane
  /\ pc \in Steps
  /\ cur \in Focus
  /\ rows \in [Task -> Row \cup {Unread}]
  /\ ready \subseteq Task /\ held \subseteq Task
  /\ plan \in [Pane -> SUBSET Kind] /\ spawns \subseteq Task
  /\ door \in Task \cup {NoTask}
  /\ unannounced \subseteq Task

(* One live worker per task: no task ever has two live panes opened for    *)
(* it, across spawns that fail half way, crashes and restarts.             *)
OnePanePerTask ==
  \A p, q \in Pane : agent[p] \in Listed /\ agent[q] \in Listed /\ work[p] = work[q]
                      => p = q

(* The tree a live pane works in is never removed under it, by a drop, a   *)
(* failed spawn, a branch cleared for the next one, or a start's reap.     *)
CheckoutOutlivesPane ==
  \A p \in Pane : agent[p] \in Listed => work[p] \in tree

(* Refinement: the tick, the doors, crashes and starts keep the fleet of   *)
(* workers as Fleet promises: opened alone in their own task's checkout,   *)
(* driven one to a task, let go of only once ended (spawn, bind, drop,     *)
(* clearBranchHolder, Adopt, reap).                                        *)
Fl == INSTANCE Fleet WITH
        Tasks <- Task, Panes <- Pane, NoTask <- NoTask,
        opened <- work, live <- {p \in Pane : agent[p] \in Listed},
        checkouts <- tree, drives <- [p \in Pane |-> bindings[p].task]
KeepsTheFleet == Fl!Spec

(* What a crash would find is what the daemon believes, at every step.     *)
DiskIsMemory ==
  up /\ ~unadopted /\ pc \notin Reconciling =>
    disk = [bindings |-> bindings, attempts |-> attempts, deaths |-> deaths]

(* While a spawn runs with the lock released its task is reserved, so no   *)
(* door takes it, and nothing has bound it.                                *)
SpawnIsReserved ==
  pc \in {"prepare", "open", "start", "confirm", "undo", "bind"} =>
    cur.task \in Reserved /\ BoundTo(cur.task) = {}

(* A worker on a claimed task is always one the dispatcher is driving.     *)
EveryWorkerIsDriven ==
  up /\ ~unadopted /\ pc = "idle" =>
    \A p \in Pane : agent[p] \in Agents /\ board[work[p]] = [st |-> "doing", by |-> p]
                    => p \in Bound

(* A task that has killed MaxWorkerDeaths workers is not handed another by *)
(* the tick (heldBack in snapshot); a reservation made before the last of  *)
(* those deaths is what gets past it, see the README.                      *)
NoWorkerAfterDeaths ==
  pc \in {"open", "start", "confirm", "bind"} => deaths[cur.task] < MaxWorkerDeaths

(* A streak of refused prompts ends with the binding it is about, so no    *)
(* pane starts its life with another's refusals (loop.drop).               *)
StreakEndsWithBinding == \A p \in Pane : missing[p] > 0 => p \in Bound

(* A tick never spawns the fleet over MaxWorkers, whatever doors reserve   *)
(* and workers do between its snapshot and its spawns (apply, attempt).    *)
SpawnWithinCap == [][Bind => Cardinality(Bound') <= MaxWorkers]_vars

(* An accepted dispatch is dropped only for a worker bound to the task, a  *)
(* board that no longer offers it, or MaxSpawnAttempts failed spawns; a    *)
(* crash and a restart keep it (Dispatch, attempt, unreserve, Adopt).      *)
Promised(t) == \/ attempts[t] # Unreserved \/ start.doc.attempts[t] # Unreserved
               \/ (~up \/ unadopted) /\ disk.attempts[t] # Unreserved
ReservationKept ==
  [][\A t \in Task : Promised(t) /\ ~Promised(t)' =>
       \/ BoundTo(t) # {} \/ board[t] # Todo
       \/ attempts[t] >= MaxSpawnAttempts]_vars

(* Only the board forgets a death: a count, wherever it is held, falls for *)
(* nothing but an act on the task's trail; a crash and a restart keep it   *)
(* (countDeathLocked, clearDeaths, Adopt).                                 *)
Recorded(t, n) == \/ deaths[t] >= n \/ disk.deaths[t] >= n
                  \/ start.doc.deaths[t] >= n
DeathsKept ==
  [][\A t \in Task, n \in 1..MaxWorkerDeaths :
       Recorded(t, n) /\ ~Recorded(t, n)' => t \in acted]_vars

(* The worker of a task that ended is closed in the end: retired by a tick *)
(* or by a start, bound or not, half-built or not (Decide, Adopt).         *)
FinishedWorkerEnds ==
  \A p \in Pane :
    agent[p] \in Listed /\ work[p] # NoTask /\ board[work[p]].st = "done"
      ~> agent[p] = "gone"

(* A submission that stays in review with its worker's pane alive is       *)
(* announced to the operator (Decide's notify, loop.notify).               *)
SubmissionAnnounced ==
  \A t \in Task : t \in unannounced ~> t \notin unannounced \/ ~Inhabited(t)

(* A pane whose agent died is retired in the end, unless its task sits in  *)
(* review, where nothing prompts it (agentMissing, workerDied).            *)
DeadWorkerEnds ==
  \A p \in Pane : agent[p] = "bare"
    ~> agent[p] # "bare" \/ (work[p] # NoTask /\ board[work[p]].st = "review")

(* With a slot for every task, a task the board keeps offering gets a      *)
(* worker, unless it has killed too many or herdr has no pane left: the    *)
(* model's bound on panes.                                                 *)
OfferedIsServed ==
  \A t \in Task : board[t] = Todo
    ~> \/ board[t] # Todo \/ BoundTo(t) # {}
       \/ deaths[t] >= MaxWorkerDeaths \/ \A p \in Pane : agent[p] # "free"
=============================================================================
