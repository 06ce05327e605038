------------------------------ MODULE Pipeline ------------------------------
(***************************************************************************)
(* Workers on Herdr's screen (spawn/spawn.go, loop/base.go and what the    *)
(* loop does around them).                                                 *)
(*                                                                         *)
(* The tick's goroutine brings up a worker, call by call: it reads the     *)
(* pane list, looks for the task's own tab, splits a pane of it or opens a *)
(* tab, writes the settings file and starts the agent.  It takes a worker  *)
(* down the same way: it finds the tab, removes the file, and closes the   *)
(* tab or the pane.  Every call may fail, and between any two of them the  *)
(* operator opens, splits, moves and closes panes, a door looks for a base *)
(* pane, and the process may die: a restart finds the bindings on disk,    *)
(* and the maps of the pipeline empty.                                     *)
(*                                                                         *)
(* Panes and tabs are numbered as Herdr opens them and never come back; a  *)
(* tab is gone with its last pane.  A label is the number of a task, or    *)
(* Theirs for any other.  Left out: workspaces and the desk, what is typed *)
(* into a pane and read off it (the outcome of all that is the choice in   *)
(* Built), and the worker's checkout.                                      *)
(***************************************************************************)
EXTENDS Grid, FiniteSetsExt

CONSTANTS
  Tasks,
  Seq,           \* the number of each task, unique only inside a project
  MaxPanesPerTab,
  Drags,         \* whether the operator moves panes out of this dispatcher's tabs
  MaxPanes,      \* bound: panes ever opened
  MaxMoves,      \* bound: what the operator does
  MaxRestarts    \* bound

ASSUME PipelineAssumption ==
  /\ Seq \in [Tasks -> Nat \ {0}]
  /\ MaxPanesPerTab \in Nat \ {0}
  /\ Drags \in BOOLEAN
  /\ MaxPanes \in Nat \ {0, 1}
  /\ MaxMoves \in Nat /\ MaxRestarts \in Nat

Panes == 1..MaxPanes
Tabs == 1..MaxPanes
None == 0
Theirs == 0

VARIABLES
  \* Herdr's screen
  tabOf,     \* the tab of each pane, None where the pane is gone
  label,     \* the label of each tab
  opened,    \* how many panes were ever opened
  tabsOpened,
  \* the pipeline's memory, and its files
  tabs,      \* Pipeline.tabs: the tab a pane was placed in, or None
  settings,  \* Pipeline.settings: the panes whose file it knows
  files,     \* the panes whose settings file is on disk
  \* the loop
  worker,    \* the pane of each task's binding, None without one
  kept,      \* the tab that binding records
  job,       \* what the tick's goroutine is in the middle of
  base,      \* Loop.BasePane
  asking,    \* each goroutine in the middle of EnsureBase
  \* ghosts and bounds
  forTask,   \* the task a pane was opened for, None for the operator's
  stray,     \* workers let go: not closed when asked, or lost in a crash
  moves, restarts

screenVars == <<tabOf, label, opened, tabsOpened, forTask>>
memoryVars == <<tabs, settings, files>>
bindingVars == <<worker, kept>>
baseVars == <<base, asking>>
boundVars == <<moves, restarts>>
vars == <<screenVars, memoryVars, bindingVars, job, baseVars, stray, boundVars>>

----------------------------------------------------------------------------
(* The screen. *)

Live(p) == p # None /\ tabOf[p] # None

\* the panes of a tab, in a list of panes
Held(list, u) == {p \in Panes : list[p] = u}

TabLive(u) == u # None /\ Held(tabOf, u) # {}

\* the label says this dispatcher opened the tab
OwnTab(u) == label[u] # Theirs

\* Herdr opens a pane in a tab
Opens(p, u, t) ==
  /\ p = opened + 1 /\ p \in Panes
  /\ opened' = p
  /\ tabOf' = [tabOf EXCEPT ![p] = u]
  /\ forTask' = [forTask EXCEPT ![p] = t]

\* ... and a tab with it
OpensTab(p, l, t) ==
  /\ Opens(p, tabsOpened + 1, t)
  /\ tabsOpened' = tabsOpened + 1
  /\ label' = [label EXCEPT ![tabsOpened + 1] = l]

Closes(S) == tabOf' = [p \in Panes |-> IF p \in S THEN None ELSE tabOf[p]]

\* a pane list that was not read
Blank == [p \in Panes |-> None]

Idle == [step |-> "idle", task |-> None, pane |-> None, tab |-> None,
         seen |-> Blank, back |-> "idle"]

NotAsking == [step |-> "off", held |-> None, free |-> {}, seen |-> Blank]

Askers == {"tick", "door"}

----------------------------------------------------------------------------
\* one or two panes of the operator's, each in its tab, and a daemon just
\* started with nothing to adopt
Init ==
  /\ opened \in 1..2 /\ tabsOpened = opened
  /\ tabOf = [p \in Panes |-> IF p <= opened THEN p ELSE None]
  /\ label = [u \in Tabs |-> Theirs]
  /\ forTask = [p \in Panes |-> None]
  /\ tabs = Blank /\ settings = {} /\ files = {}
  /\ worker = [t \in Tasks |-> None]
  /\ kept = [t \in Tasks |-> None]
  /\ job = Idle
  /\ base \in {None, 1}
  /\ asking = [a \in Askers |-> NotAsking]
  /\ stray = {} /\ moves = 0 /\ restarts = 0

(* Bringing a worker up: Run. *)

\* the tick spawns for a task that has no worker
Ready == job = Idle /\ asking["tick"] = NotAsking /\ base # None

Spawn(t) ==
  /\ Ready
  /\ worker[t] = None
  /\ job' = [Idle EXCEPT !.step = "list", !.task = t]
  /\ UNCHANGED <<screenVars, memoryVars, bindingVars, baseVars, stray, boundVars>>

\* place: a pane list that could not be read is an empty one
List(ok) ==
  /\ job.step = "list"
  /\ job' = [job EXCEPT !.step = "tabs", !.seen = IF ok THEN tabOf ELSE Blank]
  /\ UNCHANGED <<screenVars, memoryVars, bindingVars, baseVars, stray, boundVars>>

\* mutant: any tab that has room will do
RoomAnywhere(t, list) ==
  {u \in Tabs : /\ TabLive(u)
                /\ Cardinality(Held(list, u)) \in 1..(MaxPanesPerTab - 1)}

\* roomInOwnTab: the tabs with the task's own label that are under the cap,
\* counted on the pane list read before
Room(t, list) ==
  {u \in Tabs : /\ TabLive(u) /\ label[u] = Seq[t]
                /\ Cardinality(Held(list, u)) \in 1..(MaxPanesPerTab - 1)}

\* the one to split, in the order the panes were opened
Target(p, S) ==
  p \in S /\ Cardinality({q \in S : q <= p}) = GridSplit(Cardinality(S)).target

LookForRoom(ok) ==
  /\ job.step = "tabs"
  /\ \/ /\ ok
        /\ \E u \in Room(job.task, job.seen), p \in Panes :
             /\ Target(p, Held(job.seen, u))
             /\ job' = [job EXCEPT !.step = "split", !.tab = u, !.pane = p,
                                   !.seen = Blank]
     \/ /\ ~ok \/ Room(job.task, job.seen) = {}
        /\ job' = [job EXCEPT !.step = "create", !.seen = Blank]
  /\ UNCHANGED <<screenVars, memoryVars, bindingVars, baseVars, stray, boundVars>>

\* mutant: the tab is the key of the map
PlacedByTab(p, u) ==
  /\ tabs' = [tabs EXCEPT ![u] = p]
  /\ job' = [job EXCEPT !.step = "settings", !.pane = p, !.tab = None]

\* remember, and go on to build
Placed(p, u) ==
  /\ tabs' = [tabs EXCEPT ![p] = u]
  /\ job' = [job EXCEPT !.step = "settings", !.pane = p, !.tab = None]

\* the new pane opens beside the one that is split, wherever that is now,
\* and is remembered in the tab that was looked up
Split ==
  /\ job.step = "split" /\ Live(job.pane)
  /\ \E p \in Panes : /\ Opens(p, tabOf[job.pane], job.task)
                      /\ Placed(p, job.tab)
  /\ UNCHANGED <<label, tabsOpened, settings, files, bindingVars, baseVars,
                 stray, boundVars>>

\* a tab that would not take another pane: open one instead
SplitFails ==
  /\ job.step = "split"
  /\ job' = [job EXCEPT !.step = "create", !.pane = None, !.tab = None]
  /\ UNCHANGED <<screenVars, memoryVars, bindingVars, baseVars, stray, boundVars>>

Create ==
  /\ job.step = "create"
  /\ \E p \in Panes : /\ OpensTab(p, Seq[job.task], job.task)
                      /\ Placed(p, tabsOpened + 1)
  /\ UNCHANGED <<settings, files, bindingVars, baseVars, stray, boundVars>>

CreateFails ==
  /\ job.step = "create"
  /\ job' = Idle
  /\ UNCHANGED <<screenVars, memoryVars, bindingVars, baseVars, stray, boundVars>>

\* a failure after the pane is open takes the pane down again
TakeDown == job' = [job EXCEPT !.step = "retire"]

\* writeSettings
WriteSettings(ok) ==
  /\ job.step = "settings"
  /\ IF ok
     THEN /\ files' = files \union {job.pane}
          /\ settings' = settings \union {job.pane}
          /\ job' = [job EXCEPT !.step = "build"]
     ELSE TakeDown /\ UNCHANGED <<files, settings>>
  /\ UNCHANGED <<screenVars, tabs, bindingVars, baseVars, stray, boundVars>>

\* mutant: a spawn that ends with an error has brought nothing up
BoundWithoutError(outcome) == outcome = "up"

\* a pane that came back is bound, also beside an error that keeps it
Bound(outcome) == outcome \in {"up", "keep"}

\* build: the agent started and its goal was confirmed, could not be read,
\* or failed; what the binding records is TabOf of that moment
Built(outcome) ==
  /\ job.step = "build"
  /\ \/ /\ Bound(outcome)
        /\ worker' = [worker EXCEPT ![job.task] = job.pane]
        /\ kept' = [kept EXCEPT ![job.task] = tabs[job.pane]]
        /\ job' = Idle
     \/ /\ ~Bound(outcome)
        /\ IF outcome = "failed" THEN TakeDown ELSE job' = Idle
        /\ UNCHANGED bindingVars
  /\ UNCHANGED <<screenVars, memoryVars, baseVars, stray, boundVars>>

(* Taking a worker down: Retire. *)

\* the tick decided to, on a pane list from before
Retire(t) ==
  /\ Ready
  /\ worker[t] # None
  /\ job' = [Idle EXCEPT !.step = "retire", !.task = t, !.pane = worker[t]]
  /\ UNCHANGED <<screenVars, memoryVars, bindingVars, baseVars, stray, boundVars>>

\* Discard: the settings file of a pane, if this process wrote it
Discard(p) ==
  /\ files' = IF p \in settings THEN files \ {p} ELSE files
  /\ settings' = settings \ {p}

\* mutant: a tab this process opened is closed whoever else is in it
AloneIfKnown(p, list, u) == tabs[p] # None \/ Cardinality(Held(list, u)) <= 1

\* nothing else is in the tab
Alone(p, list, u) == Cardinality(Held(list, u)) <= 1

\* tabFor: the tab this process remembers, which it forgets, or the one the
\* pane is listed in; without a pane list, the pane
Trace(ok) ==
  LET p == job.pane
      u == IF tabs[p] # None THEN tabs[p] ELSE tabOf[p]
  IN
  /\ job.step = "retire"
  /\ tabs' = [tabs EXCEPT ![p] = None]
  /\ \/ /\ ~ok
        /\ job' = [job EXCEPT !.step = "closePane"]
        /\ Discard(p)
     \/ /\ ok /\ (tabs[p] # None \/ u = None)
        /\ job' = [job EXCEPT
             !.step = IF u # None /\ Alone(p, tabOf, u) THEN "closeTab" ELSE "closePane",
             !.tab = u, !.seen = tabOf]
        /\ Discard(p)
     \/ /\ ok /\ tabs[p] = None /\ u # None
        /\ job' = [job EXCEPT !.step = "label", !.tab = u, !.seen = tabOf]
        /\ UNCHANGED <<files, settings>>
  /\ UNCHANGED <<screenVars, bindingVars, baseVars, stray, boundVars>>

\* a tab that is only listed has to prove itself by its label
ReadLabel(ok) ==
  /\ job.step = "label"
  /\ job' = [job EXCEPT
       !.step = IF /\ ok /\ TabLive(job.tab) /\ OwnTab(job.tab)
                   /\ Alone(job.pane, job.seen, job.tab)
                THEN "closeTab" ELSE "closePane"]
  /\ Discard(job.pane)
  /\ UNCHANGED <<screenVars, tabs, bindingVars, baseVars, stray, boundVars>>

\* the loop's drop, whatever the close came to
Dropped ==
  LET mine == worker[job.task] = job.pane IN
  /\ worker' = IF mine THEN [worker EXCEPT ![job.task] = None] ELSE worker
  /\ kept' = IF mine THEN [kept EXCEPT ![job.task] = None] ELSE kept
  /\ job' = [Idle EXCEPT !.step = job.back, !.back = job.back]
  /\ UNCHANGED <<memoryVars, label, opened, tabsOpened, forTask, baseVars, boundVars>>

ClosePane ==
  /\ job.step = "closePane"
  /\ Closes({job.pane})
  /\ UNCHANGED stray
  /\ Dropped

CloseTab ==
  /\ job.step = "closeTab" /\ TabLive(job.tab)
  /\ Closes(Held(tabOf, job.tab))
  /\ UNCHANGED stray
  /\ Dropped

\* Herdr refuses, also where there is no such pane or tab any more
CloseFails ==
  /\ job.step \in {"closePane", "closeTab"}
  /\ stray' = IF Live(job.pane) THEN stray \union {job.pane} ELSE stray
  /\ UNCHANGED tabOf
  /\ Dropped

\* mutant: a pane that is gone has nothing to discard
UnbindOnly(t) ==
  /\ Ready
  /\ worker[t] # None /\ ~Live(worker[t])
  /\ worker' = [worker EXCEPT ![t] = None]
  /\ kept' = [kept EXCEPT ![t] = None]
  /\ UNCHANGED <<screenVars, memoryVars, job, baseVars, stray, boundVars>>

\* apply's Unbind: the pane is gone, its file and its binding go
Unbind(t) ==
  /\ Ready
  /\ worker[t] # None /\ ~Live(worker[t])
  /\ Discard(worker[t])
  /\ worker' = [worker EXCEPT ![t] = None]
  /\ kept' = [kept EXCEPT ![t] = None]
  /\ UNCHANGED <<screenVars, tabs, job, baseVars, stray, boundVars>>

(* The process dies, at any point, and the next one adopts. *)

Restart ==
  /\ restarts < MaxRestarts
  /\ restarts' = restarts + 1
  /\ tabs' = Blank /\ settings' = {}
  /\ job' = [Idle EXCEPT !.step = "adopt", !.back = "adopt"]
  /\ base' \in {None} \union {p \in Panes : Live(p) /\ ~OwnTab(tabOf[p])}
  /\ asking' = [a \in Askers |-> NotAsking]
  /\ stray' = stray \union
       ({job.pane} \ ({None} \union {worker[t] : t \in Tasks}))
  /\ UNCHANGED <<screenVars, files, bindingVars, moves>>

\* reconcile: the pane is gone, or the board says somebody else's pane
\* holds the task, and then this one is left alone
LetGo(t) ==
  /\ job.step = "adopt" /\ worker[t] # None
  /\ stray' = IF Live(worker[t]) THEN stray \union {worker[t]} ELSE stray
  /\ worker' = [worker EXCEPT ![t] = None]
  /\ kept' = [kept EXCEPT ![t] = None]
  /\ UNCHANGED <<screenVars, memoryVars, job, baseVars, boundVars>>

\* reconcile: the task is over, or the worker in the pane is not live
RetireRestored(t) ==
  /\ job.step = "adopt" /\ worker[t] # None /\ Live(worker[t])
  /\ job' = [job EXCEPT !.step = "retire", !.task = t, !.pane = worker[t]]
  /\ UNCHANGED <<screenVars, memoryVars, bindingVars, baseVars, stray, boundVars>>

\* reconcile: a worker at its task that no binding names; the binding built
\* here names its tab only if the label is this dispatcher's
AdoptLost(t, p) ==
  /\ job.step = "adopt" /\ worker[t] = None
  /\ Live(p) /\ forTask[p] = t /\ p \in files
  /\ worker' = [worker EXCEPT ![t] = p]
  /\ kept' = [kept EXCEPT ![t] = IF OwnTab(tabOf[p]) THEN tabOf[p] ELSE None]
  /\ stray' = stray \ {p}
  /\ UNCHANGED <<screenVars, memoryVars, job, baseVars, boundVars>>

\* the tabs of the bindings that stay go back to the pipeline
Adopt ==
  /\ job.step = "adopt"
  /\ \A t \in Tasks : worker[t] # None => Live(worker[t])
  /\ tabs' = [p \in Panes |->
       IF \E t \in Tasks : worker[t] = p
       THEN kept[CHOOSE t \in Tasks : worker[t] = p] ELSE None]
  /\ job' = Idle
  /\ UNCHANGED <<screenVars, settings, files, bindingVars, baseVars, stray, boundVars>>

(* The base pane: EnsureBase, on the tick and on the doors. *)

May(a) == IF a = "tick" THEN job = Idle ELSE job.back # "adopt"

Ask(a) ==
  /\ asking[a] = NotAsking /\ May(a)
  /\ asking' = [asking EXCEPT ![a] = [NotAsking EXCEPT !.step = "list", !.held = base]]
  /\ UNCHANGED <<screenVars, memoryVars, bindingVars, job, base, stray, boundVars>>

\* mutant: whatever base there is by now is taken away
ForgetAny(held) == base' = None

\* forgetBase: only the pane found gone is forgotten
Forget(held) == base' = IF base = held THEN None ELSE base

Answered(a) == asking' = [asking EXCEPT ![a] = NotAsking]

\* the pane list: one that was not read changes nothing
ListBase(a, ok) ==
  /\ asking[a].step = "list"
  /\ LET held == asking[a].held IN
     IF ~ok \/ Live(held)
     THEN Answered(a) /\ UNCHANGED base
     ELSE /\ asking' = [asking EXCEPT ![a] =
               [NotAsking EXCEPT !.step = "tabs", !.seen = tabOf]]
          /\ IF held = None THEN UNCHANGED base ELSE Forget(held)
  /\ UNCHANGED <<screenVars, memoryVars, bindingVars, job, stray, boundVars>>

\* mutant: without a tab list no tab is this dispatcher's
TabsBaseAnyway(a, ok) ==
  /\ asking[a].step = "tabs"
  /\ LET seen == asking[a].seen
         own == {u \in Tabs : ok /\ TabLive(u) /\ OwnTab(u)}
     IN asking' = [asking EXCEPT ![a] = [NotAsking EXCEPT
               !.step = "pick",
               !.free = {p \in Panes : seen[p] # None /\ seen[p] \notin own}]]
  /\ UNCHANGED <<screenVars, memoryVars, bindingVars, job, base, stray, boundVars>>

\* the tab list: the panes that sit in no tab of this dispatcher's
TabsBase(a, ok) ==
  /\ asking[a].step = "tabs"
  /\ LET seen == asking[a].seen
         own == {u \in Tabs : TabLive(u) /\ OwnTab(u)}
     IN IF ~ok
        THEN Answered(a)
        ELSE asking' = [asking EXCEPT ![a] = [NotAsking EXCEPT
               !.step = "pick",
               !.free = {p \in Panes : seen[p] # None /\ seen[p] \notin own}]]
  /\ UNCHANGED <<screenVars, memoryVars, bindingVars, job, base, stray, boundVars>>

\* pickBase: the lowest of them that no binding names
Pick(free) ==
  LET S == free \ {worker[t] : t \in Tasks} IN IF S = {} THEN None ELSE Min(S)

\* the first pane adopted wins
AdoptBase(a) ==
  /\ asking[a].step = "pick"
  /\ base' = IF base = None THEN Pick(asking[a].free) ELSE base
  /\ Answered(a)
  /\ UNCHANGED <<screenVars, memoryVars, bindingVars, job, stray, boundVars>>

(* The operator. *)

OpensPane ==
  /\ \E p \in Panes :
       \/ OpensTab(p, Theirs, None)
       \/ /\ \E u \in Tabs : TabLive(u) /\ Opens(p, u, None)
          /\ UNCHANGED <<label, tabsOpened>>
  /\ UNCHANGED stray

ClosesPane ==
  /\ \E p \in Panes : Live(p) /\ Closes({p})
  /\ UNCHANGED <<label, opened, tabsOpened, forTask, stray>>

\* a pane moves to another tab of the operator's; the one it leaves is gone
\* if it was alone
DragsPane ==
  /\ \E p \in Panes, u \in Tabs :
       /\ Live(p) /\ (Drags \/ ~OwnTab(tabOf[p]))
       /\ TabLive(u) /\ u # tabOf[p] /\ ~OwnTab(u)
       /\ tabOf' = [tabOf EXCEPT ![p] = u]
  /\ UNCHANGED <<label, opened, tabsOpened, forTask, stray>>

Operator ==
  /\ moves < MaxMoves
  /\ moves' = moves + 1
  /\ OpensPane \/ ClosesPane \/ DragsPane
  /\ UNCHANGED <<memoryVars, bindingVars, job, baseVars, restarts>>

SpawnStep ==
  \/ \E t \in Tasks : Spawn(t)
  \/ \E ok \in BOOLEAN : List(ok) \/ LookForRoom(ok) \/ WriteSettings(ok)
  \/ Split \/ SplitFails \/ Create \/ CreateFails
  \/ \E outcome \in {"up", "keep", "failed"} : Built(outcome)

RetireStep ==
  \/ \E t \in Tasks : Retire(t) \/ Unbind(t)
  \/ \E ok \in BOOLEAN : Trace(ok) \/ ReadLabel(ok)
  \/ ClosePane \/ CloseTab \/ CloseFails

RestartStep ==
  \/ Restart
  \/ \E t \in Tasks : LetGo(t) \/ RetireRestored(t)
  \/ \E t \in Tasks, p \in Panes : AdoptLost(t, p)
  \/ Adopt

BaseStep ==
  \E a \in Askers :
    \/ Ask(a) \/ AdoptBase(a)
    \/ \E ok \in BOOLEAN : ListBase(a, ok) \/ TabsBase(a, ok)

Next == SpawnStep \/ RetireStep \/ RestartStep \/ BaseStep \/ Operator

Spec == Init /\ [][Next]_vars

----------------------------------------------------------------------------
\* Everything has its type, and what the pipeline and the bindings remember
\* are tabs that were opened.
TypeOK ==
  /\ tabOf \in [Panes -> {None} \union Tabs]
  /\ label \in [Tabs -> {Theirs} \union {Seq[t] : t \in Tasks}]
  /\ opened \in Panes /\ tabsOpened \in Tabs
  /\ forTask \in [Panes -> {None} \union Tasks]
  /\ tabs \in [Panes -> 0..tabsOpened]
  /\ settings \subseteq Panes /\ files \subseteq Panes
  /\ worker \in [Tasks -> {None} \union Panes]
  /\ kept \in [Tasks -> 0..tabsOpened]
  /\ job.step \in {"idle", "list", "tabs", "split", "create", "settings", "build",
                   "retire", "label", "closePane", "closeTab", "adopt"}
  /\ job.task \in {None} \union Tasks /\ job.pane \in {None} \union Panes
  /\ base \in {None} \union Panes
  /\ \A a \in Askers : /\ asking[a].step \in {"off", "list", "tabs", "pick"}
                       /\ asking[a].free \subseteq Panes
  /\ stray \subseteq Panes
  /\ moves \in 0..MaxMoves /\ restarts \in 0..MaxRestarts

\* A worker sits in a tab with its own task's label (place): no spawn ever
\* puts one into a tab of the operator's or of another number, however old
\* the lists it was placed from.  The operator drags nothing out of it.
WorkerInOwnTab ==
  \A p \in Panes : Live(p) /\ forTask[p] # None => label[tabOf[p]] = Seq[forTask[p]]

\* A worker that was brought up is accounted for (Run, KeepPaneError): its
\* pane is bound, or in the hands of the spawn or the retire under way,
\* unless Herdr refused to close it or the process died on it.
NoWorkerUnaccounted ==
  \A p \in Panes : Live(p) /\ forTask[p] # None =>
    p \in stray \/ p = job.pane \/ \E t \in Tasks : worker[t] = p

\* Every settings file this process wrote, which holds a token, belongs to
\* a pane it still has to do with (Retire, Discard): none is left behind by
\* a spawn that failed, a pane that would not close or one already gone.
SettingsOwned ==
  settings \subseteq files \intersect ({job.pane} \union {worker[t] : t \in Tasks})

\* A tab is never closed over somebody else's pane (Retire, tabFor): where
\* the pane that is retired was still listed, what the close takes with it
\* is that pane and what was opened after the list was read.
TabCloseSpares ==
  [][CloseTab /\ job.seen[job.pane] # None =>
       \A p \in Panes : Live(p) /\ tabOf'[p] = None /\ p # job.pane
         => job.seen[p] = None]_vars

\* The base is never a worker's pane (EnsureBase, pickBase), though the
\* panes, the tabs and the bindings are read one after the other while
\* spawns and retires go on: a base that is live is nobody's worker.
BaseIsNoWorker == Live(base) => forTask[base] = None

\* A base that is live is never exchanged or forgotten by the daemon, on
\* whichever goroutine asks (EnsureBase, forgetBase): the first adoption
\* wins.
LiveBaseStays ==
  [][Live(base) /\ restarts' = restarts => base' = base]_vars

\* README: "A worker the operator has dragged into a tab of their own is
\* retired as a pane, and their tab stays": a worker that its retire lists
\* in a tab of the operator's is closed, and nothing else is.
RetiredAsPane ==
  [][(ClosePane \/ CloseTab) /\ Live(job.pane)
        /\ job.seen[job.pane] # None /\ ~OwnTab(job.seen[job.pane])
       => Closes({job.pane})]_vars
=============================================================================
