--------------------------- MODULE PipelineProofs ---------------------------
(* Workers on the screen for every value of the constants: types, the      *)
(* settings files and the base a live daemon keeps; and, where the         *)
(* operator moves no pane out of this dispatcher's tabs, where workers     *)
(* sit, that none is lost sight of, what a closed tab takes with it, and   *)
(* whose pane the base is.                                                 *)
EXTENDS Pipeline, Numbers

-----------------------------------------------------------------------------
(* The inductive invariant.                                                *)

Lists == [Panes -> 0..tabsOpened]

Steps == {"idle", "list", "tabs", "split", "create", "settings", "build",
          "retire", "label", "closePane", "closeTab", "adopt"}

SpawnSteps == {"list", "tabs", "split", "create", "settings", "build"}

Jobs == [step : Steps, task : {None} \union Tasks, pane : {None} \union Panes,
         tab : 0..tabsOpened, seen : Lists, back : {"idle", "adopt"}]

Questions == [step : {"off", "list", "tabs", "pick"}, held : {None} \union Panes,
              free : SUBSET Panes, seen : Lists]

(* Types: panes sit in tabs that were opened, and what was not opened yet  *)
(* is nobody's.                                                            *)
Typed ==
  /\ TypeOK
  /\ tabOf \in Lists /\ tabsOpened <= opened
  /\ job \in Jobs /\ asking \in [Askers -> Questions]
  /\ \A p \in Panes : p > opened => tabOf[p] = None /\ forTask[p] = None
  /\ job.step \in SpawnSteps => job.task \in Tasks
  /\ job.step \in {"split", "settings", "build", "retire", "label"} => job.pane \in Panes
  /\ job.step \in {"retire", "label", "closePane", "closeTab"} =>
       job.task \in Tasks /\ job.pane \in Panes

(* A spawn is for a task without a worker, and the files the process knows *)
(* are of its workers and of the pane at hand; while it adopts it knows    *)
(* none.                                                                   *)
AtHand == job.step \in {"build", "retire", "label"}

Owned ==
  /\ settings \subseteq files
  /\ \A p \in settings : (\E t \in Tasks : worker[t] = p) \/ (AtHand /\ p = job.pane)
  /\ job.step \in {"closePane", "closeTab"} => job.pane \notin settings
  /\ job.step \in SpawnSteps => worker[job.task] = None /\ job.back = "idle"
  /\ job.step = "adopt" => job.back = "adopt"
  /\ job.step = "idle" => job.back = "idle"
  /\ job.back = "adopt" => settings = {}

TInv == Typed /\ Owned

-----------------------------------------------------------------------------
LEMMA BlankTyped == ASSUME tabsOpened \in Nat PROVE Blank \in Lists
  BY DEF Blank, Lists, None

LEMMA InitTyped == Init => TInv
  <1> SUFFICES ASSUME Init PROVE TInv
    OBVIOUS
  <1>0. MaxPanes \in Nat /\ MaxPanes >= 2 /\ MaxMoves \in Nat /\ MaxRestarts \in Nat
    BY PipelineAssumption
  <1>1. opened \in Panes /\ tabsOpened = opened /\ tabsOpened \in Tabs
    BY <1>0 DEF Init, Panes, Tabs
  <1>2. Blank \in Lists
    BY <1>1, BlankTyped DEF Panes
  <1>3. tabOf \in Lists /\ tabOf \in [Panes -> {None} \union Tabs]
    BY <1>0, <1>1 DEF Init, Lists, Panes, Tabs, None
  <1>4. job \in Jobs /\ job.step = "idle" /\ job.back = "idle" /\ job.task = None /\ job.pane = None
    BY <1>1, <1>2 DEF Init, Idle, Jobs, Steps, None, Panes
  <1>5. asking \in [Askers -> Questions]
    BY <1>1, <1>2 DEF Init, NotAsking, Questions, None, Panes
  <1>6. TypeOK
    <2>1. base \in {None} \union Panes
      BY <1>0 DEF Init, Panes, None
    <2>2. tabs \in [Panes -> 0..tabsOpened]
      BY <1>2 DEF Init, Lists
    <2>3. label \in [Tabs -> {Theirs} \union {Seq[t] : t \in Tasks}]
      BY DEF Init
    <2>4. \A a \in Askers : /\ asking[a].step \in {"off", "list", "tabs", "pick"}
                            /\ asking[a].free \subseteq Panes
      BY <1>5 DEF Questions
    <2>5. /\ worker \in [Tasks -> {None} \union Panes]
          /\ kept \in [Tasks -> 0..tabsOpened]
          /\ forTask \in [Panes -> {None} \union Tasks]
      BY <1>1 DEF Init, None, Panes
    <2>6. /\ job.step \in {"idle", "list", "tabs", "split", "create", "settings", "build",
                   "retire", "label", "closePane", "closeTab", "adopt"}
          /\ job.task \in {None} \union Tasks /\ job.pane \in {None} \union Panes
      BY <1>4
    <2>7. stray \subseteq Panes /\ moves \in 0..MaxMoves /\ restarts \in 0..MaxRestarts
          /\ settings \subseteq Panes /\ files \subseteq Panes
      BY <1>0 DEF Init
    <2> QED BY <1>1, <1>3, <2>1, <2>2, <2>3, <2>4, <2>5, <2>6, <2>7 DEF TypeOK
  <1>7. \A p \in Panes : p > opened => tabOf[p] = None /\ forTask[p] = None
    BY <1>1 DEF Init, Panes
  <1>8. Typed
    BY <1>1, <1>3, <1>4, <1>5, <1>6, <1>7 DEF Typed, Panes, SpawnSteps
  <1>9. Owned
    BY <1>4 DEF Init, Owned, SpawnSteps
  <1> QED BY <1>8, <1>9 DEF TInv

-----------------------------------------------------------------------------
(* A step that moves only the work at hand.                                *)
OnlyJob ==
  /\ UNCHANGED <<tabOf, label, opened, tabsOpened, forTask, tabs, settings, files>>
  /\ UNCHANGED <<worker, kept, base, asking, stray, moves, restarts>>

LEMMA OnlyJobTyped ==
  ASSUME TInv, OnlyJob, job' \in Jobs,
         job'.step \in SpawnSteps =>
           job'.task \in Tasks /\ worker[job'.task] = None /\ job'.back = "idle",
         job'.step \in {"split", "settings", "build", "retire", "label",
                        "closePane", "closeTab"} => job'.pane \in Panes,
         job'.step \in {"retire", "label", "closePane", "closeTab"} =>
           job'.task \in Tasks,
         job'.step \in {"closePane", "closeTab"} => job'.pane \notin settings,
         job'.step = "adopt" => job'.back = "adopt",
         job'.step = "idle" => job'.back = "idle",
         job'.back = "adopt" => job.back = "adopt",
         AtHand => job.pane \notin settings \/ (AtHand' /\ job'.pane = job.pane)
  PROVE  TInv'
  <1>1. TypeOK'
    BY DEF OnlyJob, TInv, Typed, TypeOK, Jobs, Steps
  <1>2. Jobs' = Jobs /\ Lists' = Lists /\ Questions' = Questions
    BY DEF OnlyJob, Jobs, Lists, Questions
  <1>3. Typed'
    BY <1>1, <1>2 DEF OnlyJob, TInv, Typed
  <1>4. Owned'
    <2>1. \A p \in settings : (\E t \in Tasks : worker[t] = p) \/ (AtHand' /\ p = job'.pane)
      BY DEF TInv, Owned
    <2> QED BY <2>1 DEF OnlyJob, TInv, Owned
  <1> QED BY <1>3, <1>4 DEF TInv

(* Where panes sit.                                                        *)
ScreenTyped ==
  /\ tabOf \in Lists /\ tabOf \in [Panes -> {None} \union Tabs]
  /\ label \in [Tabs -> {Theirs} \union {Seq[t] : t \in Tasks}]
  /\ opened \in Panes /\ tabsOpened \in Tabs /\ tabsOpened <= opened
  /\ forTask \in [Panes -> {None} \union Tasks]
  /\ \A p \in Panes : p > opened => tabOf[p] = None /\ forTask[p] = None

LEMMA OpensTyped ==
  ASSUME ScreenTyped, NEW p \in Panes, NEW u, NEW t \in {None} \union Tasks,
         Opens(p, u, t),
         \/ u \in 1..tabsOpened /\ UNCHANGED <<tabsOpened, label>>
         \/ /\ u = tabsOpened + 1 /\ tabsOpened' = tabsOpened + 1
            /\ \E l \in {Theirs} \union {Seq[k] : k \in Tasks} :
                 label' = [label EXCEPT ![tabsOpened + 1] = l]
  PROVE  ScreenTyped' /\ tabsOpened' >= tabsOpened
  <1>0. MaxPanes \in Nat /\ p = opened + 1 /\ opened \in Nat /\ tabsOpened \in Nat
    BY PipelineAssumption DEF ScreenTyped, Opens, Panes, Tabs
  <1>1. /\ u \in 1..tabsOpened' /\ tabsOpened' \in Tabs /\ opened' \in Panes
        /\ tabsOpened' <= opened' /\ tabsOpened' >= tabsOpened
    BY <1>0 DEF ScreenTyped, Opens, Panes, Tabs
  <1>2. u \in Tabs
    BY <1>0, <1>1 DEF Tabs
  <1>3. label' \in [Tabs -> {Theirs} \union {Seq[k] : k \in Tasks}]
    BY <1>1 DEF ScreenTyped
  <1>4. /\ tabOf' \in Lists' /\ tabOf' \in [Panes -> {None} \union Tabs]
        /\ forTask' \in [Panes -> {None} \union Tasks]
    BY <1>0, <1>1, <1>2 DEF ScreenTyped, Opens, Lists
  <1>5. \A q \in Panes : q > opened' => tabOf'[q] = None /\ forTask'[q] = None
    BY <1>0 DEF ScreenTyped, Opens, Panes
  <1> QED BY <1>1, <1>3, <1>4, <1>5 DEF ScreenTyped

LEMMA ClosesTyped ==
  ASSUME ScreenTyped, NEW S, Closes(S), UNCHANGED <<label, opened, tabsOpened, forTask>>
  PROVE  ScreenTyped'
  <1>1. tabOf' \in Lists' /\ tabOf' \in [Panes -> {None} \union Tabs]
    BY DEF ScreenTyped, Closes, Lists, None, Tabs
  <1> QED BY <1>1 DEF ScreenTyped, Closes

(* A later screen has the tabs of an earlier one.                          *)
LEMMA Wider ==
  ASSUME tabsOpened \in Nat, tabsOpened' \in Nat, tabsOpened' >= tabsOpened
  PROVE  Lists \subseteq Lists' /\ Jobs \subseteq Jobs' /\ Questions \subseteq Questions'
  <1>1. 0..tabsOpened \subseteq 0..tabsOpened'
    OBVIOUS
  <1>2. Lists \subseteq Lists'
    BY <1>1 DEF Lists
  <1> QED BY <1>1, <1>2 DEF Jobs, Questions

(* What the steps of the work at hand ask for.                             *)
JobFits ==
  /\ job.step \in SpawnSteps => job.task \in Tasks
  /\ job.step \in {"split", "settings", "build", "retire", "label"} => job.pane \in Panes
  /\ job.step \in {"retire", "label", "closePane", "closeTab"} =>
       job.task \in Tasks /\ job.pane \in Panes

LEMMA Assembled ==
  ASSUME ScreenTyped', tabs' \in Lists', settings' \subseteq Panes, files' \subseteq Panes,
         worker' \in [Tasks -> {None} \union Panes],
         kept' \in [Tasks -> 0..tabsOpened'], job' \in Jobs', JobFits',
         base' \in {None} \union Panes, asking' \in [Askers -> Questions'],
         stray' \subseteq Panes, moves' \in 0..MaxMoves, restarts' \in 0..MaxRestarts
  PROVE  Typed'
  <1>1. TypeOK'
    <2>1. \A a \in Askers : /\ asking'[a].step \in {"off", "list", "tabs", "pick"}
                            /\ asking'[a].free \subseteq Panes
      BY DEF Questions
    <2>2. job'.step \in Steps /\ job'.task \in {None} \union Tasks
          /\ job'.pane \in {None} \union Panes
      BY DEF Jobs
    <2> QED BY <2>1, <2>2 DEF TypeOK, ScreenTyped, Lists, Steps
  <1> QED BY <1>1 DEF Typed, ScreenTyped, JobFits

LEMMA Parts ==
  ASSUME TInv
  PROVE  /\ ScreenTyped /\ tabs \in Lists /\ settings \subseteq Panes
         /\ files \subseteq Panes /\ worker \in [Tasks -> {None} \union Panes]
         /\ kept \in [Tasks -> 0..tabsOpened] /\ job \in Jobs /\ JobFits
         /\ base \in {None} \union Panes /\ asking \in [Askers -> Questions]
         /\ stray \subseteq Panes /\ moves \in 0..MaxMoves
         /\ restarts \in 0..MaxRestarts
         /\ tabsOpened \in Nat /\ opened \in Nat /\ Blank \in Lists
         /\ Owned
  <1>1. Typed /\ TypeOK /\ Owned
    BY DEF TInv, Typed
  <1>2. tabsOpened \in Nat /\ opened \in Nat
    BY <1>1, PipelineAssumption DEF TypeOK, Tabs, Panes
  <1> QED BY <1>1, <1>2, BlankTyped DEF Typed, TypeOK, ScreenTyped, JobFits, Lists

(* Bringing a worker up.                                                   *)
LEMMA SpawnTyped ==
  ASSUME TInv, SpawnStep
  PROVE  TInv'
  <1> USE DEF screenVars, memoryVars, bindingVars, baseVars, boundVars
  <1>0. /\ Typed /\ Owned /\ TypeOK
        /\ tabsOpened \in Nat /\ opened \in Nat /\ Blank \in Lists /\ tabOf \in Lists
        /\ job \in Jobs
    BY Parts DEF TInv, Typed
  <1>1. ASSUME NEW t \in Tasks, Spawn(t) PROVE TInv'
    <2>1. job' = [step |-> "list", task |-> t, pane |-> 0, tab |-> 0,
                  seen |-> Blank, back |-> "idle"]
      BY <1>1 DEF Spawn, Idle, None
    <2>2. job' \in Jobs
      BY <1>0, <2>1 DEF Jobs, Steps, None
    <2>3. OnlyJob /\ worker[t] = None /\ job.step = "idle"
      BY <1>1 DEF Spawn, Ready, Idle, OnlyJob
    <2> QED BY <2>1, <2>2, <2>3, OnlyJobTyped DEF SpawnSteps, AtHand
  <1>2. ASSUME NEW ok \in BOOLEAN, List(ok) PROVE TInv'
    <2>1. /\ job.step = "list"
          /\ job' = [job EXCEPT !.step = "tabs", !.seen = IF ok THEN tabOf ELSE Blank]
          /\ OnlyJob
      BY <1>2 DEF List, OnlyJob
    <2>2. job' \in Jobs
      BY <1>0, <2>1 DEF Jobs, Steps
    <2>3. job'.step = "tabs" /\ job'.task = job.task /\ job'.back = job.back
      BY <1>0, <2>1 DEF Jobs
    <2> QED BY <1>0, <2>1, <2>2, <2>3, OnlyJobTyped DEF Typed, Owned, SpawnSteps, AtHand
  <1>3. ASSUME NEW ok \in BOOLEAN, LookForRoom(ok) PROVE TInv'
    <2>1. job.step = "tabs" /\ OnlyJob
      BY <1>3 DEF LookForRoom, OnlyJob
    <2>2. CASE job' = [job EXCEPT !.step = "create", !.seen = Blank]
      <3>1. /\ job' \in Jobs /\ job'.step = "create"
            /\ job'.task = job.task /\ job'.back = job.back
        BY <1>0, <2>2 DEF Jobs, Steps
      <3> QED BY <1>0, <2>1, <3>1, OnlyJobTyped DEF Typed, Owned, SpawnSteps, AtHand
    <2>3. CASE \E u \in Room(job.task, job.seen), p \in Panes :
                 job' = [job EXCEPT !.step = "split", !.tab = u, !.pane = p, !.seen = Blank]
      <3>1. PICK u \in Room(job.task, job.seen), p \in Panes :
                 job' = [job EXCEPT !.step = "split", !.tab = u, !.pane = p, !.seen = Blank]
        BY <2>3
      <3>2. u \in 0..tabsOpened
        BY <1>0 DEF Room, TabLive, Held, Tabs, Lists
      <3>3. /\ job' \in Jobs /\ job'.step = "split" /\ job'.pane = p
            /\ job'.task = job.task /\ job'.back = job.back
        BY <1>0, <3>1, <3>2 DEF Jobs, Steps
      <3> QED BY <1>0, <2>1, <3>3, OnlyJobTyped DEF Typed, Owned, SpawnSteps, AtHand
    <2> QED BY <1>3, <2>2, <2>3 DEF LookForRoom
  <1>4. CASE SplitFails
    <2>1. /\ job.step = "split" /\ OnlyJob
          /\ job' = [job EXCEPT !.step = "create", !.pane = 0, !.tab = 0]
      BY <1>4 DEF SplitFails, OnlyJob, None
    <2>2. job' = [step |-> "create", task |-> job.task, pane |-> 0, tab |-> 0,
                  seen |-> job.seen, back |-> job.back]
      BY <1>0, <2>1 DEF Jobs
    <2>3. job' \in Jobs
      BY <1>0, <2>2 DEF Jobs, Steps, None
    <2> QED BY <1>0, <2>1, <2>2, <2>3, OnlyJobTyped DEF Typed, Owned, SpawnSteps, AtHand
  <1>5. CASE CreateFails
    <2>1. job.step = "create" /\ OnlyJob
      BY <1>5 DEF CreateFails, OnlyJob
    <2>2. job' = [step |-> "idle", task |-> 0, pane |-> 0, tab |-> 0,
                  seen |-> Blank, back |-> "idle"]
      BY <1>5 DEF CreateFails, Idle, None
    <2>3. job' \in Jobs
      BY <1>0, <2>2 DEF Jobs, Steps, None
    <2> QED BY <2>1, <2>2, <2>3, OnlyJobTyped DEF SpawnSteps, AtHand
  <1>6. CASE Split
    <2>1. PICK p \in Panes : Opens(p, tabOf[job.pane], job.task) /\ Placed(p, job.tab)
      BY <1>6 DEF Split
    <2>2. /\ job.step = "split" /\ tabOf[job.pane] # None
          /\ UNCHANGED <<label, tabsOpened, settings, files, worker, kept, base, asking>>
          /\ UNCHANGED <<stray, moves, restarts>>
      BY <1>6 DEF Split, Live
    <2>3. job.task \in Tasks /\ job.pane \in Panes /\ job.tab \in 0..tabsOpened
      BY <1>0, <2>2 DEF Typed, Jobs, SpawnSteps
    <2>4. ScreenTyped'
      <3>1. tabOf[job.pane] \in 1..tabsOpened
        BY <1>0, <2>2, <2>3 DEF Lists, None
      <3>2. ScreenTyped
        BY <1>0 DEF Typed, TypeOK, ScreenTyped
      <3> QED BY <2>1, <2>2, <2>3, <3>1, <3>2, OpensTyped
    <2>5. /\ job' = [job EXCEPT !.step = "settings", !.pane = p, !.tab = None]
          /\ tabs' = [tabs EXCEPT ![p] = job.tab]
      BY <2>1 DEF Placed
    <2>6. job' = [step |-> "settings", task |-> job.task, pane |-> p, tab |-> 0,
                  seen |-> job.seen, back |-> job.back]
      BY <1>0, <2>5 DEF Jobs, None
    <2>7. Jobs \subseteq Jobs' /\ Lists' = Lists /\ Questions' = Questions /\ job' \in Jobs
      BY <1>0, <2>2, <2>3, <2>6 DEF Jobs, Steps, None, Lists, Questions
    <2>8. tabs' \in Lists
      BY <2>3, <2>5, Parts DEF Lists
    <2>9. JobFits'
      BY <2>3, <2>6 DEF JobFits
    <2>10. Typed'
      BY <2>2, <2>4, <2>7, <2>8, <2>9, Parts, Assembled
    <2>11. Owned'
      BY <1>0, <2>2, <2>6 DEF Owned, SpawnSteps, AtHand
    <2> QED BY <2>10, <2>11 DEF TInv
  <1>7. CASE Create
    <2>1. PICK p \in Panes : OpensTab(p, Seq[job.task], job.task) /\ Placed(p, tabsOpened + 1)
      BY <1>7 DEF Create
    <2>2. /\ job.step = "create"
          /\ UNCHANGED <<settings, files, worker, kept, base, asking>>
          /\ UNCHANGED <<stray, moves, restarts>>
      BY <1>7 DEF Create
    <2>3. job.task \in Tasks
      BY <1>0, <2>2 DEF Typed, SpawnSteps
    <2>4. ScreenTyped' /\ tabsOpened' = tabsOpened + 1
      BY <2>1, <2>3, Parts, OpensTyped DEF OpensTab
    <2>5. /\ job' = [job EXCEPT !.step = "settings", !.pane = p, !.tab = None]
          /\ tabs' = [tabs EXCEPT ![p] = tabsOpened + 1]
      BY <2>1 DEF Placed
    <2>6. job' = [step |-> "settings", task |-> job.task, pane |-> p, tab |-> 0,
                  seen |-> job.seen, back |-> job.back]
      BY <1>0, <2>5 DEF Jobs, None
    <2>7. Lists \subseteq Lists' /\ Jobs \subseteq Jobs' /\ Questions \subseteq Questions'
      BY <1>0, <2>4, Wider
    <2>8. job' \in Jobs
      BY <1>0, <2>3, <2>6 DEF Jobs, Steps, None
    <2>9. tabs' \in Lists' /\ kept' \in [Tasks -> 0..tabsOpened']
      BY <2>2, <2>4, <2>5, Parts DEF Lists
    <2>10. JobFits'
      BY <2>3, <2>6 DEF JobFits
    <2>11. asking' \in [Askers -> Questions']
      BY <2>2, <2>7, Parts
    <2>12. Typed'
      BY <2>2, <2>4, <2>7, <2>8, <2>9, <2>10, <2>11, Parts, Assembled
    <2>13. Owned'
      BY <1>0, <2>2, <2>6 DEF Owned, SpawnSteps, AtHand
    <2> QED BY <2>12, <2>13 DEF TInv
  <1>8. ASSUME NEW ok \in BOOLEAN, WriteSettings(ok) PROVE TInv'
    <2>1. /\ job.step = "settings"
          /\ UNCHANGED <<tabOf, label, opened, tabsOpened, forTask, tabs>>
          /\ UNCHANGED <<worker, kept, base, asking, stray, moves, restarts>>
      BY <1>8 DEF WriteSettings
    <2>2. job.task \in Tasks /\ job.pane \in Panes
      BY <1>0, <2>1 DEF Typed, SpawnSteps
    <2>3. CASE ok
      <3>1. /\ files' = files \union {job.pane} /\ settings' = settings \union {job.pane}
            /\ job' = [job EXCEPT !.step = "build"]
        BY <1>8, <2>3 DEF WriteSettings
      <3>2. /\ job' \in Jobs /\ job'.step = "build" /\ job'.task = job.task
            /\ job'.pane = job.pane /\ job'.back = job.back
        BY <1>0, <3>1 DEF Jobs, Steps
      <3>3. UNCHANGED <<ScreenTyped, Lists, Jobs, Questions>>
        BY <2>1 DEF ScreenTyped, Lists, Jobs, Questions
      <3>4. JobFits'
        BY <2>2, <3>2 DEF JobFits
      <3>5. Typed'
        BY <2>1, <2>2, <3>1, <3>2, <3>3, <3>4, Parts, Assembled
      <3>6. Owned'
        BY <1>0, <2>1, <3>1, <3>2 DEF Owned, SpawnSteps, AtHand
      <3> QED BY <3>5, <3>6 DEF TInv
    <2>4. CASE ~ok
      <3>1. OnlyJob /\ job' = [job EXCEPT !.step = "retire"]
        BY <1>8, <2>1, <2>4 DEF WriteSettings, TakeDown, OnlyJob
      <3>2. /\ job' \in Jobs /\ job'.step = "retire" /\ job'.task = job.task
            /\ job'.pane = job.pane /\ job'.back = job.back
        BY <1>0, <3>1 DEF Jobs, Steps
      <3> QED BY <2>1, <2>2, <3>1, <3>2, OnlyJobTyped DEF SpawnSteps, AtHand
    <2> QED BY <2>3, <2>4
  <1>9. ASSUME NEW outcome \in {"up", "keep", "failed"}, Built(outcome) PROVE TInv'
    <2>1. /\ job.step = "build"
          /\ UNCHANGED <<tabOf, label, opened, tabsOpened, forTask, tabs, settings, files>>
          /\ UNCHANGED <<base, asking, stray, moves, restarts>>
      BY <1>9 DEF Built
    <2>2. job.task \in Tasks /\ job.pane \in Panes
      BY <1>0, <2>1 DEF Typed, SpawnSteps
    <2>3. CASE Bound(outcome)
      <3>1. /\ worker' = [worker EXCEPT ![job.task] = job.pane]
            /\ kept' = [kept EXCEPT ![job.task] = tabs[job.pane]]
            /\ job' = [step |-> "idle", task |-> 0, pane |-> 0, tab |-> 0,
                       seen |-> Blank, back |-> "idle"]
        BY <1>9, <2>3 DEF Built, Idle, None
      <3>2. job' \in Jobs
        BY <1>0, <3>1 DEF Jobs, Steps, None
      <3>3. UNCHANGED <<ScreenTyped, Lists, Jobs, Questions>>
        BY <2>1 DEF ScreenTyped, Lists, Jobs, Questions
      <3>4. JobFits'
        BY <3>1 DEF JobFits, SpawnSteps
      <3>5. worker' \in [Tasks -> {None} \union Panes] /\ kept' \in [Tasks -> 0..tabsOpened]
        BY <2>2, <3>1, Parts DEF Lists
      <3>6. Typed'
        BY <2>1, <3>2, <3>3, <3>4, <3>5, Parts, Assembled
      <3>7. Owned'
        <4>1. worker[job.task] = None /\ None \notin Panes
          BY <1>0, <2>1 DEF Owned, SpawnSteps, None, Panes
        <4>2. \A p \in settings : \E t \in Tasks : worker'[t] = p
          <5> TAKE p \in settings
          <5>1. CASE p = job.pane
            BY <2>2, <3>1, <5>1, Parts
          <5>2. CASE p # job.pane
            <6>1. PICK t \in Tasks : worker[t] = p
              BY <1>0, <5>2 DEF Owned
            <6>2. t # job.task
              BY <4>1, <6>1, Parts
            <6> QED BY <3>1, <6>1, <6>2, Parts
          <5> QED BY <5>1, <5>2
        <4> QED BY <1>0, <2>1, <3>1, <4>2 DEF Owned, SpawnSteps, AtHand
      <3> QED BY <3>6, <3>7 DEF TInv
    <2>4. CASE ~Bound(outcome)
      <3>1. OnlyJob /\ job' = [job EXCEPT !.step = "retire"]
        BY <1>9, <2>1, <2>4 DEF Built, Bound, TakeDown, OnlyJob
      <3>2. /\ job' \in Jobs /\ job'.step = "retire" /\ job'.task = job.task
            /\ job'.pane = job.pane /\ job'.back = job.back
        BY <1>0, <3>1 DEF Jobs, Steps
      <3> QED BY <1>0, <2>1, <2>2, <3>1, <3>2, OnlyJobTyped DEF Owned, SpawnSteps, AtHand
    <2> QED BY <2>3, <2>4
  <1> QED BY <1>1, <1>2, <1>3, <1>4, <1>5, <1>6, <1>7, <1>8, <1>9 DEF SpawnStep

(* Taking a worker down: the file is discarded before anything is closed.  *)
LEMMA DiscardTyped ==
  ASSUME TInv, job.step \in {"retire", "label"}, Discard(job.pane),
         tabs' \in Lists, job' \in Jobs, job'.step \in {"closePane", "closeTab"},
         job'.task = job.task, job'.pane = job.pane, job'.back = job.back,
         UNCHANGED <<tabOf, label, opened, tabsOpened, forTask>>,
         UNCHANGED <<worker, kept, base, asking, stray, moves, restarts>>
  PROVE  TInv'
  <1>1. UNCHANGED <<ScreenTyped, Lists, Jobs, Questions>>
    BY DEF ScreenTyped, Lists, Jobs, Questions
  <1>2. job.task \in Tasks /\ job.pane \in Panes
    BY Parts DEF JobFits
  <1>3. JobFits'
    BY <1>2 DEF JobFits, SpawnSteps
  <1>4. settings' = settings \ {job.pane} /\ settings' \subseteq files' /\ files' \subseteq files
    BY Parts DEF Discard, Owned
  <1>5. Typed'
    BY <1>1, <1>3, <1>4, Parts, Assembled
  <1>6. Owned'
    BY <1>4, Parts DEF Owned, SpawnSteps, AtHand
  <1> QED BY <1>5, <1>6 DEF TInv

(* The loop's drop.                                                        *)
LEMMA DroppedTyped ==
  ASSUME TInv, job.step \in {"closePane", "closeTab"}, ScreenTyped', Dropped,
         stray' \subseteq Panes
  PROVE  TInv'
  <1> USE DEF screenVars, memoryVars, bindingVars, baseVars, boundVars
  <1>1. /\ UNCHANGED <<tabs, settings, files, label, opened, tabsOpened, forTask>>
        /\ UNCHANGED <<base, asking, moves, restarts>>
    BY DEF Dropped
  <1>2. job' = [Idle EXCEPT !.step = job.back, !.back = job.back]
    BY DEF Dropped
  <1>3. job' = [step |-> job.back, task |-> 0, pane |-> 0, tab |-> 0,
                seen |-> Blank, back |-> job.back]
    BY <1>2 DEF Idle, None
  <1>4. job.back \in {"idle", "adopt"}
    BY Parts DEF Jobs
  <1>5. job' \in Jobs /\ JobFits'
    BY <1>3, <1>4, Parts DEF Jobs, Steps, None, JobFits, SpawnSteps
  <1>6. UNCHANGED <<Lists, Jobs, Questions>>
    BY <1>1 DEF Lists, Jobs, Questions
  <1>7. /\ worker' = IF worker[job.task] = job.pane
                     THEN [worker EXCEPT ![job.task] = None] ELSE worker
        /\ kept' = IF worker[job.task] = job.pane
                   THEN [kept EXCEPT ![job.task] = None] ELSE kept
    BY DEF Dropped
  <1>8. worker' \in [Tasks -> {None} \union Panes] /\ kept' \in [Tasks -> 0..tabsOpened]
    <2>1. None \in 0..tabsOpened
      BY Parts DEF None
    <2> QED BY <1>7, <2>1, Parts
  <1>9. Typed'
    BY <1>1, <1>5, <1>6, <1>8, Parts, Assembled
  <1>10. Owned'
    <2>1. \A p \in settings : p # job.pane /\ \E t \in Tasks : worker[t] = p
      BY Parts DEF Owned, AtHand
    <2>2. \A p \in settings : \E t \in Tasks : worker'[t] = p
      BY <1>7, <2>1, Parts
    <2> QED BY <1>1, <1>3, <1>4, <2>2, Parts DEF Owned, SpawnSteps, AtHand
  <1> QED BY <1>9, <1>10 DEF TInv

LEMMA RetireTyped ==
  ASSUME TInv, RetireStep
  PROVE  TInv'
  <1> USE DEF screenVars, memoryVars, bindingVars, baseVars, boundVars
  <1>0. job \in Jobs /\ Owned /\ ScreenTyped /\ JobFits
    BY Parts
  <1>1. ASSUME NEW t \in Tasks, Retire(t) PROVE TInv'
    <2>1. OnlyJob /\ worker[t] # None /\ job.step = "idle"
          /\ job' = [Idle EXCEPT !.step = "retire", !.task = t, !.pane = worker[t]]
      BY <1>1 DEF Retire, Ready, Idle, OnlyJob
    <2>2. job' = [step |-> "retire", task |-> t, pane |-> worker[t], tab |-> 0,
                  seen |-> Blank, back |-> "idle"]
      BY <2>1 DEF Idle, None
    <2>3. job' \in Jobs /\ worker[t] \in Panes
      BY <2>1, <2>2, Parts DEF Jobs, Steps, None
    <2>4. /\ job'.step = "retire" /\ job'.task = t /\ job'.pane = worker[t]
          /\ job'.back = "idle"
      BY <2>2
    <2> QED BY <2>1, <2>3, <2>4, OnlyJobTyped DEF SpawnSteps, AtHand
  <1>2. ASSUME NEW t \in Tasks, Unbind(t) PROVE TInv'
    <2>1. /\ UNCHANGED <<tabOf, label, opened, tabsOpened, forTask, tabs, job>>
          /\ UNCHANGED <<base, asking, stray, moves, restarts>>
          /\ job.step = "idle"
      BY <1>2 DEF Unbind, Ready, Idle
    <2>2. /\ worker' = [worker EXCEPT ![t] = None] /\ kept' = [kept EXCEPT ![t] = 0]
          /\ settings' = settings \ {worker[t]}
          /\ settings' \subseteq files' /\ files' \subseteq files
      BY <1>2, Parts DEF Unbind, Discard, Owned, None
    <2>3. UNCHANGED <<ScreenTyped, Lists, Jobs, Questions, JobFits>>
      BY <2>1 DEF ScreenTyped, Lists, Jobs, Questions, JobFits
    <2>4. worker' \in [Tasks -> {None} \union Panes] /\ kept' \in [Tasks -> 0..tabsOpened]
      BY <2>2, Parts
    <2>5. Typed'
      BY <2>1, <2>2, <2>3, <2>4, Parts, Assembled
    <2>6. Owned'
      <3>1. \A p \in settings' : \E k \in Tasks : worker'[k] = p
        <4> TAKE p \in settings'
        <4>1. PICK k \in Tasks : worker[k] = p /\ p # worker[t]
          BY <1>0, <2>1, <2>2 DEF Owned, AtHand
        <4> QED BY <2>2, <4>1, Parts
      <3> QED BY <1>0, <2>1, <2>2, <3>1 DEF Owned, SpawnSteps, AtHand
    <2> QED BY <2>5, <2>6 DEF TInv
  <1>3. ASSUME NEW ok \in BOOLEAN, Trace(ok) PROVE TInv'
    <2> DEFINE p == job.pane
               u == IF tabs[p] # None THEN tabs[p] ELSE tabOf[p]
    <2>1. /\ job.step = "retire"
          /\ tabs' = [tabs EXCEPT ![p] = None]
          /\ UNCHANGED <<tabOf, label, opened, tabsOpened, forTask>>
          /\ UNCHANGED <<worker, kept, base, asking, stray, moves, restarts>>
      BY <1>3 DEF Trace
    <2>2. p \in Panes /\ job.task \in Tasks /\ u \in 0..tabsOpened
      BY <1>0, <2>1, Parts DEF JobFits, Lists, ScreenTyped
    <2>3. tabs' \in Lists /\ tabOf \in Lists
      <3>1. 0 \in 0..tabsOpened /\ tabs \in Lists
        BY Parts
      <3>2. tabs' \in Lists
        BY <2>1, <3>1 DEF Lists, None
      <3> QED BY <1>0, <3>2 DEF ScreenTyped
    <2>4. CASE job' = [job EXCEPT !.step = "closePane"] /\ Discard(p)
      <3>1. /\ job' \in Jobs /\ job'.step = "closePane" /\ job'.task = job.task
            /\ job'.pane = p /\ job'.back = job.back
        BY <1>0, <2>4 DEF Jobs, Steps
      <3> QED BY <2>1, <2>3, <2>4, <3>1, DiscardTyped
    <2>5. CASE /\ job' = [job EXCEPT
                    !.step = IF u # None /\ Alone(p, tabOf, u) THEN "closeTab" ELSE "closePane",
                    !.tab = u, !.seen = tabOf]
               /\ Discard(p)
      <3> HIDE DEF u
      <3>1. /\ job' \in Jobs /\ job'.step \in {"closePane", "closeTab"}
            /\ job'.task = job.task /\ job'.pane = p /\ job'.back = job.back
        BY <1>0, <2>2, <2>3, <2>5 DEF Jobs, Steps
      <3> QED BY <2>1, <2>3, <2>5, <3>1, DiscardTyped
    <2>6. CASE /\ job' = [job EXCEPT !.step = "label", !.tab = u, !.seen = tabOf]
               /\ UNCHANGED <<files, settings>>
      <3> HIDE DEF u
      <3>1. /\ job' \in Jobs /\ job'.step = "label"
            /\ job'.task = job.task /\ job'.pane = p /\ job'.back = job.back
        BY <1>0, <2>2, <2>3, <2>6 DEF Jobs, Steps
      <3>2. UNCHANGED <<ScreenTyped, Lists, Jobs, Questions>>
        BY <2>1 DEF ScreenTyped, Lists, Jobs, Questions
      <3>3. JobFits'
        BY <2>2, <3>1 DEF JobFits, SpawnSteps
      <3>4. Typed'
        BY <2>1, <2>3, <2>6, <3>1, <3>2, <3>3, Parts, Assembled
      <3>5. Owned'
        BY <1>0, <2>1, <2>6, <3>1 DEF Owned, SpawnSteps, AtHand
      <3> QED BY <3>4, <3>5 DEF TInv
    <2> QED BY <1>3, <2>4, <2>5, <2>6 DEF Trace
  <1>4. ASSUME NEW ok \in BOOLEAN, ReadLabel(ok) PROVE TInv'
    <2>1. /\ job.step = "label" /\ Discard(job.pane)
          /\ \E s \in {"closePane", "closeTab"} : job' = [job EXCEPT !.step = s]
          /\ UNCHANGED <<tabOf, label, opened, tabsOpened, forTask, tabs>>
          /\ UNCHANGED <<worker, kept, base, asking, stray, moves, restarts>>
      BY <1>4 DEF ReadLabel
    <2>2. /\ job' \in Jobs /\ job'.step \in {"closePane", "closeTab"}
          /\ job'.task = job.task /\ job'.pane = job.pane /\ job'.back = job.back
      BY <1>0, <2>1 DEF Jobs, Steps
    <2> QED BY <2>1, <2>2, Parts, DiscardTyped
  <1>5. CASE ClosePane \/ CloseTab
    <2>1. /\ job.step \in {"closePane", "closeTab"} /\ Dropped /\ UNCHANGED stray
          /\ \E S : Closes(S)
      BY <1>5 DEF ClosePane, CloseTab
    <2>2. ScreenTyped'
      BY <1>0, <2>1, ClosesTyped DEF Dropped
    <2> QED BY <2>1, <2>2, Parts, DroppedTyped
  <1>6. CASE CloseFails
    <2>1. /\ job.step \in {"closePane", "closeTab"} /\ Dropped /\ UNCHANGED tabOf
          /\ stray' = IF Live(job.pane) THEN stray \union {job.pane} ELSE stray
      BY <1>6 DEF CloseFails
    <2>2. job.pane \in Panes
      BY <1>0, <2>1 DEF JobFits
    <2>3. ScreenTyped'
      BY <1>0, <2>1 DEF ScreenTyped, Dropped, Lists
    <2> QED BY <2>1, <2>2, <2>3, Parts, DroppedTyped
  <1> QED BY <1>1, <1>2, <1>3, <1>4, <1>5, <1>6 DEF RetireStep

(* A restart knows nothing, and what it adopts it finds on disk.           *)
LEMMA RestartTyped ==
  ASSUME TInv, RestartStep
  PROVE  TInv'
  <1> USE DEF screenVars, memoryVars, bindingVars, baseVars, boundVars
  <1>0. job \in Jobs /\ Owned /\ ScreenTyped /\ JobFits
    BY Parts
  <1>1. CASE Restart
    <2>1. /\ UNCHANGED <<tabOf, label, opened, tabsOpened, forTask, files, worker, kept>>
          /\ moves' = moves /\ tabs' = Blank /\ settings' = {}
          /\ restarts < MaxRestarts /\ restarts' = restarts + 1
          /\ job' = [Idle EXCEPT !.step = "adopt", !.back = "adopt"]
          /\ base' \in {None} \union {p \in Panes : Live(p) /\ ~OwnTab(tabOf[p])}
          /\ asking' = [a \in Askers |-> NotAsking]
          /\ stray' = stray \union ({job.pane} \ ({None} \union {worker[t] : t \in Tasks}))
      BY <1>1 DEF Restart
    <2>2. job' = [step |-> "adopt", task |-> 0, pane |-> 0, tab |-> 0,
                  seen |-> Blank, back |-> "adopt"]
      BY <2>1 DEF Idle, None
    <2>3. job' \in Jobs
      BY <2>2, Parts DEF Jobs, Steps, None
    <2>4. UNCHANGED <<ScreenTyped, Lists, Jobs, Questions>>
      BY <2>1 DEF ScreenTyped, Lists, Jobs, Questions
    <2>5. JobFits'
      BY <2>2 DEF JobFits, SpawnSteps
    <2>6. NotAsking \in Questions
      BY Parts DEF NotAsking, Questions, None
    <2>7. stray' \subseteq Panes
      BY <1>0, <2>1, Parts DEF Jobs
    <2>8. restarts' \in 0..MaxRestarts
      BY <2>1, PipelineAssumption, Parts
    <2>9. Typed'
      BY <2>1, <2>3, <2>4, <2>5, <2>6, <2>7, <2>8, Parts, Assembled
    <2>10. Owned'
      BY <2>1, <2>2 DEF Owned, SpawnSteps
    <2> QED BY <2>9, <2>10 DEF TInv
  <1>2. ASSUME NEW t \in Tasks, LetGo(t) PROVE TInv'
    <2>1. /\ UNCHANGED <<tabOf, label, opened, tabsOpened, forTask, tabs, settings, files>>
          /\ UNCHANGED <<job, base, asking, moves, restarts>>
          /\ job.step = "adopt" /\ worker[t] # None
      BY <1>2 DEF LetGo
    <2>2. /\ worker' = [worker EXCEPT ![t] = None] /\ kept' = [kept EXCEPT ![t] = 0]
          /\ stray' = IF Live(worker[t]) THEN stray \union {worker[t]} ELSE stray
      BY <1>2 DEF LetGo, None
    <2>3. UNCHANGED <<ScreenTyped, Lists, Jobs, Questions, JobFits>>
      BY <2>1 DEF ScreenTyped, Lists, Jobs, Questions, JobFits
    <2>4. worker' \in [Tasks -> {None} \union Panes] /\ kept' \in [Tasks -> 0..tabsOpened]
      BY <2>2, Parts
    <2>5. stray' \subseteq Panes
      BY <2>1, <2>2, Parts
    <2>6. Typed'
      BY <2>1, <2>3, <2>4, <2>5, Parts, Assembled
    <2>7. Owned'
      BY <1>0, <2>1 DEF Owned, SpawnSteps
    <2> QED BY <2>6, <2>7 DEF TInv
  <1>3. ASSUME NEW t \in Tasks, RetireRestored(t) PROVE TInv'
    <2>1. OnlyJob /\ worker[t] # None /\ job.step = "adopt"
          /\ job' = [job EXCEPT !.step = "retire", !.task = t, !.pane = worker[t]]
      BY <1>3 DEF RetireRestored, OnlyJob
    <2>2. worker[t] \in Panes
      BY <2>1, Parts
    <2>3. /\ job' \in Jobs /\ job'.step = "retire" /\ job'.task = t
          /\ job'.pane = worker[t] /\ job'.back = job.back
      BY <1>0, <2>1, <2>2 DEF Jobs, Steps
    <2> QED BY <2>1, <2>2, <2>3, OnlyJobTyped DEF SpawnSteps, AtHand
  <1>4. ASSUME NEW t \in Tasks, NEW p \in Panes, AdoptLost(t, p) PROVE TInv'
    <2>1. /\ UNCHANGED <<tabOf, label, opened, tabsOpened, forTask, tabs, settings, files>>
          /\ UNCHANGED <<job, base, asking, moves, restarts>>
          /\ job.step = "adopt" /\ stray' = stray \ {p}
      BY <1>4 DEF AdoptLost
    <2>2. /\ worker' = [worker EXCEPT ![t] = p]
          /\ kept' = [kept EXCEPT ![t] = IF OwnTab(tabOf[p]) THEN tabOf[p] ELSE 0]
      BY <1>4 DEF AdoptLost, None
    <2>3. UNCHANGED <<ScreenTyped, Lists, Jobs, Questions, JobFits>>
      BY <2>1 DEF ScreenTyped, Lists, Jobs, Questions, JobFits
    <2>4. tabOf[p] \in 0..tabsOpened
      BY <1>0 DEF ScreenTyped, Lists
    <2>5. worker' \in [Tasks -> {None} \union Panes] /\ kept' \in [Tasks -> 0..tabsOpened]
      BY <2>2, <2>4, Parts
    <2>6. Typed'
      BY <2>1, <2>3, <2>5, Parts, Assembled
    <2>7. Owned'
      BY <1>0, <2>1 DEF Owned, SpawnSteps
    <2> QED BY <2>6, <2>7 DEF TInv
  <1>5. CASE Adopt
    <2>1. /\ UNCHANGED <<tabOf, label, opened, tabsOpened, forTask, settings, files>>
          /\ UNCHANGED <<worker, kept, base, asking, stray, moves, restarts>>
          /\ job.step = "adopt"
      BY <1>5 DEF Adopt
    <2>2. job' = [step |-> "idle", task |-> 0, pane |-> 0, tab |-> 0,
                  seen |-> Blank, back |-> "idle"]
      BY <1>5 DEF Adopt, Idle, None
    <2>3. job' \in Jobs /\ JobFits'
      BY <2>2, Parts DEF Jobs, Steps, None, JobFits, SpawnSteps
    <2>4. UNCHANGED <<ScreenTyped, Lists, Jobs, Questions>>
      BY <2>1 DEF ScreenTyped, Lists, Jobs, Questions
    <2>5. tabs' \in Lists
      <3>1. tabs' = [p \in Panes |-> IF \E t \in Tasks : worker[t] = p
                                     THEN kept[CHOOSE t \in Tasks : worker[t] = p] ELSE None]
        BY <1>5 DEF Adopt
      <3>2. ASSUME NEW p \in Panes, \E t \in Tasks : worker[t] = p
            PROVE  kept[CHOOSE t \in Tasks : worker[t] = p] \in 0..tabsOpened
        <4>1. (CHOOSE t \in Tasks : worker[t] = p) \in Tasks
          BY <3>2
        <4> QED BY <4>1, Parts
      <3>3. None \in 0..tabsOpened
        BY Parts DEF None
      <3> QED BY <3>1, <3>2, <3>3 DEF Lists
    <2>6. Typed'
      BY <2>1, <2>3, <2>4, <2>5, Parts, Assembled
    <2>7. Owned'
      BY <1>0, <2>1, <2>2 DEF Owned, SpawnSteps, AtHand
    <2> QED BY <2>6, <2>7 DEF TInv
  <1> QED BY <1>1, <1>2, <1>3, <1>4, <1>5 DEF RestartStep

(* The base and the questions about it.                                    *)
LEMMA BaseTyped ==
  ASSUME TInv, BaseStep
  PROVE  TInv'
  <1> USE DEF screenVars, memoryVars, bindingVars, baseVars, boundVars
  <1>1. /\ UNCHANGED <<tabOf, label, opened, tabsOpened, forTask, tabs, settings, files>>
        /\ UNCHANGED <<worker, kept, job, stray, moves, restarts>>
    BY DEF BaseStep, Ask, AdoptBase, ListBase, TabsBase
  <1>2. UNCHANGED <<ScreenTyped, Lists, Jobs, Questions, JobFits>>
    BY <1>1 DEF ScreenTyped, Lists, Jobs, Questions, JobFits
  <1>3. base' \in {None} \union Panes /\ asking' \in [Askers -> Questions]
    <2>0. /\ tabOf \in Lists /\ Blank \in Lists /\ base \in {None} \union Panes
          /\ asking \in [Askers -> Questions]
      BY Parts DEF ScreenTyped
    <2>1. PICK a \in Askers : \/ Ask(a) \/ AdoptBase(a)
                              \/ \E ok \in BOOLEAN : ListBase(a, ok) \/ TabsBase(a, ok)
      BY DEF BaseStep
    <2>4. NotAsking \in Questions
      BY <2>0 DEF NotAsking, Questions, None
    <2>5. CASE Ask(a)
      <3>1. [NotAsking EXCEPT !.step = "list", !.held = base] \in Questions
        BY <2>0, <2>4 DEF Questions
      <3> QED BY <2>0, <2>5, <3>1 DEF Ask
    <2>6. CASE AdoptBase(a)
      <3>1. asking' = [asking EXCEPT ![a] = NotAsking]
            /\ base' = IF base = None THEN Pick(asking[a].free) ELSE base
        BY <2>6 DEF AdoptBase, Answered
      <3>2. Pick(asking[a].free) \in {None} \union Panes
        <4>1. asking[a].free \subseteq Panes
          BY <2>0 DEF Questions
        <4> DEFINE S == asking[a].free \ {worker[t] : t \in Tasks}
        <4>2. S # {} => Min(S) \in S
          <5> SUFFICES ASSUME S # {} PROVE Min(S) \in S
            OBVIOUS
          <5>1. S \in SUBSET Nat
            BY <4>1, PipelineAssumption DEF Panes
          <5>2. \E m \in S : \A x \in S : m <= x
            <6> HIDE DEF S
            <6> QED BY <5>1, Least
          <5> HIDE DEF S
          <5> QED BY <5>2 DEF Min
        <4> QED BY <4>1, <4>2 DEF Pick
      <3> QED BY <2>0, <2>4, <3>1, <3>2
    <2>7. ASSUME NEW ok \in BOOLEAN, ListBase(a, ok) 
          PROVE  base' \in {None} \union Panes /\ asking' \in [Askers -> Questions]
      <3>1. [NotAsking EXCEPT !.step = "tabs", !.seen = tabOf] \in Questions
        BY <2>0, <2>4 DEF Questions
      <3> QED BY <2>0, <2>4, <2>7, <3>1 DEF ListBase, Answered, Forget
    <2>8. ASSUME NEW ok \in BOOLEAN, TabsBase(a, ok) 
          PROVE  base' \in {None} \union Panes /\ asking' \in [Askers -> Questions]
      <3> DEFINE own == {u \in Tabs : TabLive(u) /\ OwnTab(u)}
                 f == {p \in Panes : asking[a].seen[p] # None /\ asking[a].seen[p] \notin own}
      <3>1. /\ UNCHANGED base
            /\ \/ asking' = [asking EXCEPT ![a] = NotAsking]
               \/ asking' = [asking EXCEPT ![a] = [NotAsking EXCEPT !.step = "pick", !.free = f]]
        BY <2>8 DEF TabsBase, Answered
      <3>2. f \in SUBSET Panes
        OBVIOUS
      <3> HIDE DEF f
      <3>3. [NotAsking EXCEPT !.step = "pick", !.free = f] \in Questions
        BY <2>4, <3>2 DEF Questions
      <3> QED BY <2>0, <2>4, <3>1, <3>3
    <2> QED BY <2>1, <2>5, <2>6, <2>7, <2>8
  <1>4. Typed'
    BY <1>1, <1>2, <1>3, Parts, Assembled
  <1>5. Owned'
    BY <1>1, Parts DEF Owned, AtHand
  <1> QED BY <1>4, <1>5 DEF TInv

(* What the operator does changes the screen.                              *)
LEMMA OperatorTyped ==
  ASSUME TInv, Operator
  PROVE  TInv'
  <1> USE DEF screenVars, memoryVars, bindingVars, baseVars, boundVars
  <1>1. /\ UNCHANGED <<tabs, settings, files, worker, kept, job, base, asking, restarts>>
        /\ moves < MaxMoves /\ moves' = moves + 1 /\ UNCHANGED stray
    BY DEF Operator, OpensPane, ClosesPane, DragsPane
  <1>2. ScreenTyped' /\ tabsOpened' >= tabsOpened
    <2>0. ScreenTyped /\ tabsOpened \in Nat
      BY Parts
    <2>1. CASE OpensPane
      <3>1. PICK p \in Panes :
              \/ OpensTab(p, Theirs, None)
              \/ /\ \E u \in Tabs : TabLive(u) /\ Opens(p, u, None)
                 /\ UNCHANGED <<label, tabsOpened>>
        BY <2>1 DEF OpensPane
      <3>2. CASE OpensTab(p, Theirs, None)
        BY <2>0, <3>2, OpensTyped DEF OpensTab
      <3>3. ASSUME NEW u \in Tabs, TabLive(u), Opens(p, u, None),
                   UNCHANGED <<label, tabsOpened>>
            PROVE  ScreenTyped' /\ tabsOpened' >= tabsOpened
        <4>1. u \in 1..tabsOpened
          BY <2>0, <3>3 DEF TabLive, Held, ScreenTyped, Lists, None, Tabs
        <4> QED BY <2>0, <3>3, <4>1, OpensTyped
      <3> QED BY <3>1, <3>2, <3>3
    <2>2. CASE ClosesPane
      BY <2>0, <2>2, ClosesTyped DEF ClosesPane
    <2>3. CASE DragsPane
      <3>1. PICK p \in Panes, u \in Tabs :
              Live(p) /\ TabLive(u) /\ tabOf' = [tabOf EXCEPT ![p] = u]
        BY <2>3 DEF DragsPane
      <3>2. UNCHANGED <<label, opened, tabsOpened, forTask>>
        BY <2>3 DEF DragsPane
      <3>3. u \in 0..tabsOpened
        BY <2>0, <3>1 DEF TabLive, Held, ScreenTyped, Lists, Tabs
      <3>4. tabOf' \in Lists' /\ tabOf' \in [Panes -> {None} \union Tabs]
        BY <2>0, <3>1, <3>2, <3>3 DEF ScreenTyped, Lists
      <3>5. \A q \in Panes : q > opened => tabOf'[q] = None
        BY <2>0, <3>1 DEF ScreenTyped, Live
      <3> QED BY <2>0, <3>2, <3>4, <3>5 DEF ScreenTyped
    <2> QED BY <2>1, <2>2, <2>3 DEF Operator
  <1>3. Lists \subseteq Lists' /\ Jobs \subseteq Jobs' /\ Questions \subseteq Questions'
        /\ tabsOpened' \in Nat
    <2>1. tabsOpened' \in Nat /\ tabsOpened \in Nat
      BY <1>2, Parts, PipelineAssumption DEF ScreenTyped, Tabs
    <2> QED BY <1>2, <2>1, Wider
  <1>4. moves' \in 0..MaxMoves /\ kept \in [Tasks -> 0..tabsOpened']
    BY <1>1, <1>2, <1>3, Parts, PipelineAssumption
  <1>5. JobFits'
    BY <1>1, Parts DEF JobFits
  <1>6. asking \in [Askers -> Questions'] /\ tabs \in Lists' /\ job \in Jobs'
    BY <1>3, Parts
  <1>7. Typed'
    BY <1>1, <1>2, <1>4, <1>5, <1>6, Parts, Assembled
  <1>8. Owned'
    BY <1>1, Parts DEF Owned, AtHand
  <1> QED BY <1>7, <1>8 DEF TInv

LEMMA TypedHolds ==
  ASSUME TInv, [Next]_vars
  PROVE  TInv'
  <1>1. CASE UNCHANGED vars
    BY <1>1 DEF vars, screenVars, memoryVars, bindingVars, baseVars, boundVars,
       TInv, Typed, TypeOK, Owned, AtHand, Lists, Jobs, Questions
  <1> QED BY <1>1, SpawnTyped, RetireTyped, RestartTyped, BaseTyped, OperatorTyped DEF Next

THEOREM TypesAndFiles == Spec => []TInv
  BY InitTyped, TypedHolds, PTL DEF Spec

(* Everything has its type, and what is remembered are tabs that were      *)
(* opened.                                                                 *)
THEOREM PipelineTypeCorrect == Spec => []TypeOK
  <1>1. TInv => TypeOK
    BY DEF TInv, Typed
  <1> QED BY <1>1, TypesAndFiles, PTL

(* Every settings file this process wrote is of a worker of its own, or of *)
(* the pane at hand, whatever fails and whatever the operator does, and    *)
(* also where he moves panes.                                              *)
THEOREM SettingsAreOwned == Spec => []SettingsOwned
  <1>1. TInv => SettingsOwned
    BY DEF TInv, Owned, SettingsOwned
  <1> QED BY <1>1, TypesAndFiles, PTL

(* A base that is live is kept.                                            *)
THEOREM LiveBaseIsKept == Spec => LiveBaseStays
  <1>1. ASSUME [Next]_vars, Live(base), restarts' = restarts, TInv PROVE base' = base
    <2> USE DEF screenVars, memoryVars, bindingVars, baseVars, boundVars
    <2>1. CASE UNCHANGED vars
      BY <2>1 DEF vars
    <2>2. CASE SpawnStep
      BY <2>2 DEF SpawnStep, Spawn, List, LookForRoom, WriteSettings, Split, SplitFails,
         Create, CreateFails, Built
    <2>3. CASE RetireStep
      BY <2>3 DEF RetireStep, Retire, Unbind, Trace, ReadLabel, ClosePane, CloseTab,
         CloseFails, Dropped
    <2>4. CASE RestartStep
      <3>1. ~Restart
        BY <1>1, Parts DEF Restart
      <3> QED BY <2>4, <3>1 DEF RestartStep, LetGo, RetireRestored, AdoptLost, Adopt
    <2>5. CASE BaseStep
      BY <1>1, <2>5 DEF BaseStep, Ask, AdoptBase, ListBase, TabsBase, Forget, Live
    <2>6. CASE Operator
      BY <2>6 DEF Operator
    <2> QED BY <1>1, <2>1, <2>2, <2>3, <2>4, <2>5, <2>6 DEF Next
  <1> QED BY <1>1, TypesAndFiles, PTL DEF Spec, LiveBaseStays

-----------------------------------------------------------------------------
(* Where panes stay in the tabs of this dispatcher.  What was listed or    *)
(* remembered of a pane in such a tab stays true of it until it is gone,   *)
(* so that old lists are good enough: this is the argument for the rest of *)
(* the invariant.                                                          *)

(* The same tab, or both of them the operator's.                           *)
Same(u, v) ==
  u = v \/ (u \in 1..tabsOpened /\ v \in 1..tabsOpened /\ ~OwnTab(u) /\ ~OwnTab(v))

(* A list of where panes sat that were open then.                          *)
Remembers(list) ==
  \A p \in Panes : list[p] # None =>
    p <= opened /\ (tabOf[p] = None \/ Same(list[p], tabOf[p]))

(* A tab of this dispatcher's is still the tab of the pane.                *)
Keeps(p, u) ==
  u # None => p <= opened /\ tabOf[p] \in {u, None} /\ u \in 1..tabsOpened /\ OwnTab(u)

Remembered ==
  /\ \A p \in Panes : Keeps(p, tabs[p])
  /\ \A t \in Tasks : worker[t] <= opened
  /\ \A t \in Tasks : worker[t] # None => Keeps(worker[t], kept[t])
  /\ \A a \in Askers : asking[a].step = "tabs" => Remembers(asking[a].seen)
  /\ job.step \in {"tabs", "label", "closeTab"} => Remembers(job.seen)

(* What the work at hand takes for granted.                                *)
AtTab ==
  /\ job.step \in {"split", "settings", "build", "retire", "label",
                   "closePane", "closeTab"} => job.pane <= opened
  /\ job.step = "split" =>
       /\ job.tab # None /\ label[job.tab] = Seq[job.task]
       /\ tabOf[job.pane] \in {job.tab, None}
  /\ job.step = "label" => job.tab # None /\ job.seen[job.pane] = job.tab
  /\ job.step = "closeTab" =>
       /\ job.tab # None /\ job.seen[job.pane] \in {job.tab, None}
       /\ tabOf[job.pane] \in {job.tab, None} /\ OwnTab(job.tab)
       /\ Alone(job.pane, job.seen, job.tab)

InHand == job.step \in {"settings", "build", "retire", "label", "closePane", "closeTab"}

Accounted ==
  \A p \in Panes : Live(p) /\ forTask[p] # None =>
    p \in stray \/ (InHand /\ p = job.pane) \/ \E t \in Tasks : worker[t] = p

BaseFree ==
  /\ BaseIsNoWorker /\ base <= opened
  /\ \A a \in Askers : asking[a].step = "pick" =>
       \A p \in asking[a].free : p <= opened /\ (Live(p) => forTask[p] = None)

SInv == WorkerInOwnTab /\ Remembered /\ AtTab /\ Accounted /\ BaseFree

(* What no step does: move a pane out of a tab of this dispatcher's or     *)
(* into one, give it another task, or a tab another label.                 *)
Ages ==
  /\ opened \in Nat /\ opened' \in Nat /\ opened <= opened'
  /\ tabsOpened \in Nat /\ tabsOpened' \in Nat /\ tabsOpened <= tabsOpened'
  /\ \A p \in Panes : p <= opened =>
       (tabOf'[p] = None \/ Same(tabOf[p], tabOf'[p])) /\ forTask'[p] = forTask[p]
  /\ \A u \in 1..tabsOpened : label'[u] = label[u]
  /\ \A p \in Panes : p > opened /\ tabOf'[p] # None /\ forTask'[p] # None =>
       label'[tabOf'[p]] = Seq[forTask'[p]]

LEMMA OpensOneAges ==
  ASSUME opened \in Nat, tabOf \in [Panes -> 0..tabsOpened],
         forTask \in [Panes -> {None} \union Tasks],
         \A p \in Panes : p > opened => tabOf[p] = None,
         NEW p \in Panes, NEW u, NEW t, p = opened + 1, opened' = opened + 1,
         tabOf' = [tabOf EXCEPT ![p] = u], forTask' = [forTask EXCEPT ![p] = t],
         tabsOpened \in Nat, tabsOpened' \in {tabsOpened, tabsOpened + 1},
         \A v \in 1..tabsOpened : label'[v] = label[v],
         t # None => label'[u] = Seq[t]
  PROVE  Ages
  <1>0. \A q \in Panes : q \in Nat
    BY PipelineAssumption DEF Panes
  <1>1. \A q \in Panes : q # p => tabOf'[q] = tabOf[q] /\ forTask'[q] = forTask[q]
    OBVIOUS
  <1>2. tabOf'[p] = u /\ forTask'[p] = t
    OBVIOUS
  <1>3. \A q \in Panes : q <= opened => q # p
    BY <1>0
  <1>4. \A q \in Panes : q > opened /\ tabOf'[q] # None => q = p
    BY <1>1
  <1>5. tabsOpened' \in Nat /\ tabsOpened <= tabsOpened'
    OBVIOUS
  <1> QED BY <1>1, <1>2, <1>3, <1>4, <1>5 DEF Ages, Same

LEMMA StepAges ==
  ASSUME TInv, AtTab, [Next]_vars, ~Drags
  PROVE  Ages
  <1> USE DEF screenVars, memoryVars, bindingVars, baseVars, boundVars
  <1>0. /\ ScreenTyped /\ opened \in Nat /\ tabsOpened \in Nat /\ tabsOpened <= opened
        /\ tabOf \in [Panes -> 0..tabsOpened] /\ label \in [Tabs -> {Theirs} \union {Seq[t] : t \in Tasks}]
        /\ forTask \in [Panes -> {None} \union Tasks]
        /\ \A p \in Panes : p > opened => tabOf[p] = None
        /\ MaxPanes \in Nat
    BY Parts, PipelineAssumption DEF ScreenTyped, Lists
  <1>1. ASSUME UNCHANGED <<tabOf, label, opened, tabsOpened, forTask>> PROVE Ages
    BY <1>0, <1>1 DEF Ages, Same
  <1>2. ASSUME NEW S, Closes(S), UNCHANGED <<label, opened, tabsOpened, forTask>> PROVE Ages
    BY <1>0, <1>2 DEF Ages, Closes, Same
  <1>3. ASSUME NEW p \in Panes, NEW u \in 1..tabsOpened, NEW t \in {None} \union Tasks,
               Opens(p, u, t), UNCHANGED <<label, tabsOpened>>,
               t # None => label[u] = Seq[t]
        PROVE  Ages
    <2>1. /\ p = opened + 1 /\ opened' = opened + 1
          /\ tabOf' = [tabOf EXCEPT ![p] = u] /\ forTask' = [forTask EXCEPT ![p] = t]
      BY <1>3 DEF Opens
    <2> QED BY <1>0, <1>3, <2>1, OpensOneAges
  <1>4. ASSUME NEW p \in Panes, NEW l, NEW t \in {None} \union Tasks,
               OpensTab(p, l, t), t # None => l = Seq[t]
        PROVE  Ages
    <2>1. tabsOpened + 1 \in Tabs
      BY <1>0, <1>4 DEF OpensTab, Opens, Panes, Tabs
    <2>2. /\ p = opened + 1 /\ opened' = opened + 1
          /\ tabOf' = [tabOf EXCEPT ![p] = tabsOpened + 1]
          /\ forTask' = [forTask EXCEPT ![p] = t]
          /\ label' = [label EXCEPT ![tabsOpened + 1] = l]
          /\ tabsOpened' = tabsOpened + 1
      BY <1>4 DEF OpensTab, Opens
    <2>3. \A u \in 1..tabsOpened : label'[u] = label[u]
      BY <1>0, <2>1, <2>2
    <2>4. t # None => label'[tabsOpened + 1] = Seq[t]
      BY <1>0, <1>4, <2>1, <2>2
    <2> QED BY <1>0, <2>2, <2>3, <2>4, OpensOneAges
  <1>5. CASE Split
    <2>1. PICK p \in Panes : Opens(p, tabOf[job.pane], job.task)
      BY <1>5 DEF Split
    <2>2. job.step = "split" /\ tabOf[job.pane] # None /\ UNCHANGED <<label, tabsOpened>>
      BY <1>5 DEF Split, Live
    <2>3. job.task \in Tasks /\ job.pane \in Panes
      BY <2>2, Parts DEF JobFits, SpawnSteps
    <2>4. tabOf[job.pane] \in 1..tabsOpened /\ label[tabOf[job.pane]] = Seq[job.task]
      BY <1>0, <2>2, <2>3 DEF AtTab, None
    <2> QED BY <1>3, <2>1, <2>2, <2>3, <2>4
  <1>6. CASE Create
    <2>1. PICK p \in Panes : OpensTab(p, Seq[job.task], job.task)
      BY <1>6 DEF Create
    <2>2. job.task \in Tasks
      BY <1>6, Parts DEF Create, JobFits, SpawnSteps
    <2> QED BY <1>4, <2>1, <2>2
  <1>7. CASE OpensPane
    <2>1. PICK p \in Panes :
            \/ OpensTab(p, Theirs, None)
            \/ /\ \E u \in Tabs : TabLive(u) /\ Opens(p, u, None)
               /\ UNCHANGED <<label, tabsOpened>>
      BY <1>7 DEF OpensPane
    <2>2. CASE OpensTab(p, Theirs, None)
      BY <1>4, <2>2
    <2>3. ASSUME NEW u \in Tabs, TabLive(u), Opens(p, u, None), UNCHANGED <<label, tabsOpened>>
          PROVE  Ages
      <3>1. u \in 1..tabsOpened
        BY <1>0, <2>3 DEF TabLive, Held, None, Tabs
      <3> QED BY <1>3, <2>3, <3>1
    <2> QED BY <2>1, <2>2, <2>3
  <1>8. CASE ClosesPane
    BY <1>2, <1>8 DEF ClosesPane
  <1>9. CASE ClosePane \/ CloseTab
    BY <1>2, <1>9 DEF ClosePane, CloseTab, Dropped
  <1>10. CASE UNCHANGED vars
    BY <1>1, <1>10 DEF vars
  <1>11. CASE SpawnStep /\ ~Split /\ ~Create
    BY <1>1, <1>11 DEF SpawnStep, Spawn, List, LookForRoom, WriteSettings, SplitFails,
       CreateFails, Built
  <1>12. CASE RetireStep /\ ~ClosePane /\ ~CloseTab
    BY <1>1, <1>12 DEF RetireStep, Retire, Unbind, Trace, ReadLabel, CloseFails, Dropped
  <1>13. CASE RestartStep
    BY <1>1, <1>13 DEF RestartStep, Restart, LetGo, RetireRestored, AdoptLost, Adopt
  <1>14. CASE BaseStep
    BY <1>1, <1>14 DEF BaseStep, Ask, AdoptBase, ListBase, TabsBase
  <1>15. CASE DragsPane
    <2>1. PICK p \in Panes, u \in Tabs :
            /\ tabOf[p] # None /\ ~OwnTab(tabOf[p]) /\ TabLive(u) /\ ~OwnTab(u)
            /\ tabOf' = [tabOf EXCEPT ![p] = u]
      BY <1>15 DEF DragsPane, Live
    <2>2. UNCHANGED <<label, opened, tabsOpened, forTask>>
      BY <1>15 DEF DragsPane
    <2>3. u \in 1..tabsOpened
      BY <1>0, <2>1 DEF TabLive, Held, None, Tabs
    <2>4. tabOf[p] \in 1..tabsOpened
      BY <1>0, <2>1 DEF None
    <2>5. Same(tabOf[p], u) /\ \A v : Same(v, v)
      BY <2>1, <2>3, <2>4 DEF Same
    <2>6. \A q \in Panes : q # p => tabOf'[q] = tabOf[q]
      BY <1>0, <2>1
    <2>7. tabOf'[p] = u
      BY <1>0, <2>1
    <2> HIDE DEF Same
    <2>8. \A q \in Panes : Same(tabOf[q], tabOf'[q])
      <3> TAKE q \in Panes
      <3>1. CASE q = p
        BY <2>5, <2>7, <3>1
      <3>2. CASE q # p
        BY <2>5, <2>6, <3>2
      <3> QED BY <3>1, <3>2
    <2>9. \A q \in Panes : q > opened => tabOf'[q] = None
      <3> SUFFICES ASSUME NEW q \in Panes, q > opened PROVE tabOf'[q] = None
        OBVIOUS
      <3>1. tabOf[q] = None
        BY <1>0
      <3>2. q # p
        BY <2>1, <3>1
      <3> QED BY <2>6, <3>1, <3>2
    <2>10. opened' = opened /\ tabsOpened' = tabsOpened /\ label' = label /\ forTask' = forTask
      BY <2>2
    <2> QED BY <1>0, <2>8, <2>9, <2>10 DEF Ages
  <1>16. CASE Operator
    BY <1>7, <1>8, <1>15, <1>16 DEF Operator
  <1> QED BY <1>5, <1>6, <1>9, <1>10, <1>11, <1>12, <1>13, <1>14, <1>16 DEF Next

(* A tab keeps its label.                                                  *)
LEMMA LabelStays ==
  ASSUME Ages, NEW u \in 1..tabsOpened
  PROVE  u \in 1..tabsOpened' /\ label'[u] = label[u] /\ u # None
  BY DEF Ages, None

(* Same, a step later.                                                     *)
SameLater(u, v) ==
  u = v \/ /\ u \in 1..tabsOpened' /\ v \in 1..tabsOpened'
           /\ label'[u] = Theirs /\ label'[v] = Theirs

LEMMA SameStays ==
  ASSUME Ages, NEW u, NEW v, Same(u, v)
  PROVE  SameLater(u, v)
  BY LabelStays DEF Same, SameLater, OwnTab

(* A tab that is this dispatcher's is the same as no other.                *)
LEMMA OwnIsSame ==
  ASSUME NEW u, NEW v, Same(u, v), OwnTab(u) \/ OwnTab(v)
  PROVE  u = v
  BY DEF Same

LEMMA KeepsLater ==
  ASSUME Ages, NEW p \in Panes, NEW u, Keeps(p, u), u # None
  PROVE  /\ p <= opened' /\ tabOf'[p] \in {u, None}
         /\ u \in 1..tabsOpened' /\ label'[u] # Theirs
  <1>1. /\ p <= opened /\ tabOf[p] \in {u, None} /\ u \in 1..tabsOpened /\ OwnTab(u)
        /\ p \in Nat
    BY PipelineAssumption DEF Keeps, Panes
  <1>2. p <= opened' /\ (tabOf'[p] = None \/ Same(tabOf[p], tabOf'[p]))
    BY <1>1 DEF Ages
  <1>3. CASE tabOf[p] = u
    <2>1. tabOf'[p] \in {u, None}
      BY <1>1, <1>2, <1>3, OwnIsSame
    <2> QED BY <1>1, <1>2, <2>1, LabelStays DEF OwnTab
  <1>4. CASE tabOf[p] = None
    <2>1. tabOf'[p] = None
      BY <1>2, <1>4 DEF Same, None
    <2> QED BY <1>1, <1>2, <2>1, LabelStays DEF OwnTab
  <1> QED BY <1>1, <1>3, <1>4

(* A worker keeps its tab.                                                 *)
LEMMA HousedHolds ==
  ASSUME TInv, Ages, WorkerInOwnTab
  PROVE  WorkerInOwnTab'
  <1> SUFFICES ASSUME NEW p \in Panes, Live(p)', forTask'[p] # None
               PROVE  label'[tabOf'[p]] = Seq[forTask'[p]]
    BY DEF WorkerInOwnTab
  <1>1. tabOf'[p] # None /\ p \in Nat /\ p # None
    BY PipelineAssumption DEF Live, Panes, None
  <1>2. CASE p > opened
    BY <1>1, <1>2 DEF Ages
  <1>3. CASE p <= opened
    <2>1. Same(tabOf[p], tabOf'[p]) /\ forTask'[p] = forTask[p]
      BY <1>1, <1>3 DEF Ages
    <2>2. tabOf[p] \in 1..tabsOpened /\ forTask[p] \in Tasks
      BY <1>1, <1>3, <2>1, Parts DEF ScreenTyped, Lists, Same, None
    <2>3. label[tabOf[p]] = Seq[forTask[p]]
      BY <1>1, <2>1, <2>2, LabelStays DEF WorkerInOwnTab, Live, Ages, None
    <2>4. OwnTab(tabOf[p])
      BY <2>2, <2>3, PipelineAssumption DEF OwnTab, Theirs
    <2>5. tabOf'[p] = tabOf[p]
      BY <2>1, <2>4, OwnIsSame
    <2>6. label'[tabOf[p]] = label[tabOf[p]]
      BY <2>2, LabelStays
    <2> QED BY <2>1, <2>3, <2>5, <2>6
  <1> QED BY <1>1, <1>2, <1>3 DEF Ages

(* A list that was right stays right.                                      *)
LEMMA SeenLater ==
  ASSUME Ages, NEW list, Remembers(list)
  PROVE  \A p \in Panes : list[p] # None =>
           p <= opened' /\ (tabOf'[p] = None \/ SameLater(list[p], tabOf'[p]))
  <1> TAKE p \in Panes
  <1> HAVE list[p] # None
  <1>1. p <= opened /\ (tabOf[p] = None \/ Same(list[p], tabOf[p])) /\ p \in Nat
    BY PipelineAssumption DEF Remembers, Panes
  <1>2. p <= opened' /\ (tabOf'[p] = None \/ Same(tabOf[p], tabOf'[p]))
    BY <1>1 DEF Ages
  <1>3. CASE tabOf[p] = None
    BY <1>2, <1>3 DEF Same, None
  <1>4. CASE Same(list[p], tabOf[p]) /\ Same(tabOf[p], tabOf'[p])
    <2>1. Same(list[p], tabOf'[p])
      BY <1>4 DEF Same
    <2> QED BY <1>2, <2>1, SameStays
  <1> QED BY <1>1, <1>2, <1>3, <1>4

(* The list of now is right, and so is an empty one.                       *)
LEMMA SeenNow == ASSUME TInv PROVE Remembers(tabOf)
  <1> SUFFICES ASSUME NEW p \in Panes, tabOf[p] # None PROVE p <= opened
    BY DEF Remembers, Same
  <1> QED BY Parts, PipelineAssumption DEF ScreenTyped, Panes

LEMMA SeenNothing == Remembers(Blank)
  BY DEF Remembers, Blank

LEMMA TabsRemembered ==
  ASSUME TInv, Ages, Remembered, AtTab, [Next]_vars
  PROVE  \A p \in Panes : Keeps(p, tabs[p])'
  <1> USE DEF screenVars, memoryVars, bindingVars, baseVars, boundVars
  <1> DEFINE Fine(p, u) == u # None => /\ p <= opened' /\ tabOf'[p] \in {u, None}
                                      /\ u \in 1..tabsOpened' /\ label'[u] # Theirs
             Goal == \A p \in Panes : Fine(p, tabs'[p])
  <1>0. /\ \A p \in Panes : Fine(p, tabs[p])
        /\ tabs \in Lists /\ tabOf \in Lists
    BY KeepsLater, Parts DEF Remembered, ScreenTyped
  <1>b. /\ ScreenTyped /\ opened \in Nat /\ tabsOpened \in Nat /\ tabsOpened <= opened
        /\ label \in [Tabs -> {Theirs} \union {Seq[t] : t \in Tasks}]
        /\ MaxPanes \in Nat
    BY Parts, PipelineAssumption DEF Ages, ScreenTyped
  <1>d. \A p, u : u = None => Fine(p, u)
    OBVIOUS
  <1>e. \A t \in Tasks : Seq[t] # Theirs
    BY PipelineAssumption DEF Theirs
  <1>a. ASSUME NEW p \in Panes, NEW u \in 1..tabsOpened', p = opened',
               tabs' = [tabs EXCEPT ![p] = u], tabOf' = [tabOf EXCEPT ![p] = u],
               label'[u] # Theirs
        PROVE  Goal
    <2>1. tabs'[p] = u /\ tabOf'[p] = u /\ \A q \in Panes : q # p => tabs'[q] = tabs[q]
      BY <1>0, <1>a DEF Lists
    <2>2. Fine(p, u)
      BY <1>a, <2>1, PipelineAssumption DEF Panes
    <2> HIDE DEF Fine
    <2> QED BY <1>0, <2>1, <2>2
  <1> HIDE DEF Fine
  <1>1. ASSUME UNCHANGED tabs PROVE Goal
    BY <1>0, <1>1
  <1>2. ASSUME Split PROVE Goal
    <2>1. PICK p \in Panes : Opens(p, tabOf[job.pane], job.task) /\ Placed(p, job.tab)
      BY <1>2 DEF Split
    <2>2. job.step = "split" /\ tabOf[job.pane] # None /\ UNCHANGED <<label, tabsOpened>>
      BY <1>2 DEF Split, Live
    <2>3. tabs' = [tabs EXCEPT ![p] = job.tab] /\ p = opened' /\ tabOf' = [tabOf EXCEPT ![p] = job.tab]
      BY <2>1, <2>2 DEF Opens, Placed, AtTab
    <2>4. job.task \in Tasks /\ job.tab \in 1..tabsOpened /\ label[job.tab] = Seq[job.task]
      BY <1>b, <2>2, Parts DEF AtTab, JobFits, SpawnSteps, Jobs, None
    <2>5. job.tab \in 1..tabsOpened' /\ label'[job.tab] # Theirs
      BY <1>e, <2>2, <2>4
    <2> QED BY <1>a, <2>3, <2>5
  <1>3. ASSUME Create PROVE Goal
    <2>1. PICK p \in Panes : OpensTab(p, Seq[job.task], job.task) /\ Placed(p, tabsOpened + 1)
      BY <1>3 DEF Create
    <2>2. /\ tabs' = [tabs EXCEPT ![p] = tabsOpened + 1] /\ p = opened'
          /\ tabOf' = [tabOf EXCEPT ![p] = tabsOpened + 1]
          /\ label' = [label EXCEPT ![tabsOpened + 1] = Seq[job.task]]
          /\ tabsOpened' = tabsOpened + 1 /\ p = opened + 1
      BY <2>1 DEF OpensTab, Opens, Placed
    <2>3. job.task \in Tasks
      BY <1>3, Parts DEF Create, JobFits, SpawnSteps
    <2>4. tabsOpened + 1 \in Tabs
      BY <1>b, <2>1, <2>2 DEF Panes, Tabs
    <2>5. label'[tabsOpened + 1] # Theirs
      BY <1>b, <1>e, <2>2, <2>3, <2>4
    <2>6. tabsOpened + 1 \in 1..tabsOpened'
      BY <1>b, <2>2
    <2> QED BY <1>a, <2>2, <2>5, <2>6
  <1>4. ASSUME NEW ok \in BOOLEAN, Trace(ok) PROVE Goal
    <2>1. tabs' = [tabs EXCEPT ![job.pane] = None]
      BY <1>4 DEF Trace
    <2>2. \A q \in Panes : tabs'[q] = None \/ tabs'[q] = tabs[q]
      BY <1>0, <2>1 DEF Lists
    <2> QED BY <1>0, <1>d, <2>2
  <1>5. ASSUME Restart PROVE Goal
    BY <1>5, <1>d DEF Restart, Blank
  <1>6. ASSUME Adopt PROVE Goal
    <2>1. UNCHANGED <<tabOf, opened, tabsOpened, label>>
      BY <1>6 DEF Adopt
    <2>2. tabs' = [p \in Panes |-> IF \E t \in Tasks : worker[t] = p
                                   THEN kept[CHOOSE t \in Tasks : worker[t] = p] ELSE None]
      BY <1>6 DEF Adopt
    <2>3. ASSUME NEW p \in Panes, tabs'[p] # None
          PROVE  Keeps(p, tabs'[p])
      <3>1. /\ \E t \in Tasks : worker[t] = p
            /\ tabs'[p] = kept[CHOOSE t \in Tasks : worker[t] = p]
        BY <2>2, <2>3
      <3>2. PICK t \in Tasks : worker[t] = p /\ tabs'[p] = kept[t]
        BY <3>1
      <3>3. p # None
        BY PipelineAssumption DEF Panes, None
      <3> QED BY <2>3, <3>2, <3>3 DEF Remembered
    <2>4. ASSUME NEW p \in Panes, tabs'[p] # None PROVE Fine(p, tabs'[p])
      BY <2>3, <2>4, KeepsLater DEF Fine
    <2> QED BY <1>d, <2>4
  <1>7. \/ UNCHANGED tabs \/ Split \/ Create \/ Restart \/ Adopt
        \/ \E ok \in BOOLEAN : Trace(ok)
    <2>1. CASE UNCHANGED vars
      BY <2>1 DEF vars
    <2>2. CASE SpawnStep
      BY <2>2 DEF SpawnStep, Spawn, List, LookForRoom, WriteSettings, SplitFails,
         CreateFails, Built
    <2>3. CASE RetireStep
      BY <2>3 DEF RetireStep, Retire, Unbind, ReadLabel, ClosePane, CloseTab, CloseFails, Dropped
    <2>4. CASE RestartStep
      BY <2>4 DEF RestartStep, LetGo, RetireRestored, AdoptLost
    <2>5. CASE BaseStep
      BY <2>5 DEF BaseStep, Ask, AdoptBase, ListBase, TabsBase
    <2>6. CASE Operator
      BY <2>6 DEF Operator
    <2> QED BY <2>1, <2>2, <2>3, <2>4, <2>5, <2>6 DEF Next
  <1> QED
    <2>1. Goal
      BY <1>1, <1>2, <1>3, <1>4, <1>5, <1>6, <1>7
    <2> SUFFICES ASSUME NEW p \in Panes PROVE Keeps(p, tabs[p])'
      OBVIOUS
    <2>2. Fine(p, tabs'[p])
      BY <2>1
    <2> QED BY <2>2 DEF Fine, Keeps, OwnTab

LEMMA KeptRemembered ==
  ASSUME TInv, Ages, Remembered, AtTab, [Next]_vars
  PROVE  /\ \A t \in Tasks : worker'[t] <= opened'
         /\ \A t \in Tasks : worker'[t] # None => Keeps(worker[t], kept[t])'
  <1> USE DEF screenVars, memoryVars, bindingVars, baseVars, boundVars
  <1> DEFINE Fine(p, u) ==
        p <= opened' /\ (p # None /\ u # None =>
          tabOf'[p] \in {u, None} /\ u \in 1..tabsOpened' /\ label'[u] # Theirs)
  <1>0. /\ worker \in [Tasks -> {None} \union Panes] /\ kept \in [Tasks -> 0..tabsOpened]
        /\ opened \in Nat /\ opened' \in Nat /\ opened <= opened' /\ None = 0
        /\ \A p \in Panes : p \in Nat
    BY Parts, PipelineAssumption DEF Ages, None, Panes
  <1>1. \A t \in Tasks : Fine(worker[t], kept[t])
    <2> TAKE t \in Tasks
    <2>1. CASE worker[t] = None
      BY <1>0, <2>1
    <2>2. CASE worker[t] # None
      <3>1. /\ worker[t] \in Panes /\ worker[t] <= opened
            /\ Keeps(worker[t], kept[t])
        BY <1>0, <2>2 DEF Remembered
      <3>2. worker[t] <= opened'
        BY <1>0, <3>1
      <3> QED BY <3>1, <3>2, KeepsLater
    <2> QED BY <2>1, <2>2
  <1>2. \A u : Fine(None, u)
    BY <1>0
  <1> HIDE DEF Fine
  <1>3. ASSUME UNCHANGED <<worker, kept>>
        PROVE  \A k \in Tasks : Fine(worker'[k], kept'[k])
    BY <1>1, <1>3
  <1>4. ASSUME NEW t \in Tasks, worker' = [worker EXCEPT ![t] = None],
               kept' = [kept EXCEPT ![t] = None]
        PROVE  \A k \in Tasks : Fine(worker'[k], kept'[k])
    BY <1>0, <1>1, <1>2, <1>4
  <1>5. ASSUME NEW outcome \in {"up", "keep", "failed"}, Built(outcome)
        PROVE  \A k \in Tasks : Fine(worker'[k], kept'[k])
    <2>1. CASE UNCHANGED <<worker, kept>>
      BY <1>3, <2>1, <1>1
    <2>2. CASE /\ worker' = [worker EXCEPT ![job.task] = job.pane]
               /\ kept' = [kept EXCEPT ![job.task] = tabs[job.pane]]
      <3>1. job.pane \in Panes /\ job.step = "build"
        BY <1>5, Parts DEF Built, JobFits
      <3>2. Keeps(job.pane, tabs[job.pane]) /\ job.pane <= opened'
        BY <1>0, <3>1 DEF Remembered, AtTab
      <3>3. Fine(job.pane, tabs[job.pane])
        BY <3>1, <3>2, KeepsLater DEF Fine
      <3> QED BY <1>0, <1>1, <2>2, <3>3
    <2> QED BY <1>5, <2>1, <2>2 DEF Built
  <1>6. ASSUME NEW t \in Tasks, NEW p \in Panes, AdoptLost(t, p)
        PROVE  \A k \in Tasks : Fine(worker'[k], kept'[k])
    <2>1. /\ worker' = [worker EXCEPT ![t] = p]
          /\ kept' = [kept EXCEPT ![t] = IF OwnTab(tabOf[p]) THEN tabOf[p] ELSE None]
          /\ UNCHANGED <<tabOf, opened, label, tabsOpened>> /\ Live(p)
      BY <1>6 DEF AdoptLost
    <2>2. p <= opened /\ tabOf[p] \in 1..tabsOpened
      BY <2>1, SeenNow, Parts DEF Remembers, Live, ScreenTyped, Lists, None
    <2>3. (OwnTab(tabOf[p]) => Fine(p, tabOf[p])) /\ Fine(p, None)
      BY <1>0, <2>1, <2>2 DEF Fine, OwnTab
    <2> QED BY <1>0, <1>1, <2>1, <2>3
  <1>7. \/ UNCHANGED <<worker, kept>>
        \/ \E t \in Tasks : /\ worker' = [worker EXCEPT ![t] = None]
                            /\ kept' = [kept EXCEPT ![t] = None]
        \/ \E outcome \in {"up", "keep", "failed"} : Built(outcome)
        \/ \E t \in Tasks, p \in Panes : AdoptLost(t, p)
    <2>1. CASE UNCHANGED vars
      BY <2>1 DEF vars
    <2>2. CASE SpawnStep
      BY <2>2 DEF SpawnStep, Spawn, List, LookForRoom, WriteSettings, Split, SplitFails,
         Create, CreateFails
    <2>3. ASSUME Dropped, job.step \in {"closePane", "closeTab"}
          PROVE  \/ UNCHANGED <<worker, kept>>
                 \/ \E t \in Tasks : /\ worker' = [worker EXCEPT ![t] = None]
                                     /\ kept' = [kept EXCEPT ![t] = None]
      <3>1. job.task \in Tasks
        BY <2>3, Parts DEF JobFits
      <3> QED BY <2>3, <3>1 DEF Dropped
    <2>4. CASE RetireStep
      <3>1. CASE ClosePane \/ CloseTab \/ CloseFails
        BY <2>3, <3>1 DEF ClosePane, CloseTab, CloseFails
      <3>2. CASE \E t \in Tasks : Unbind(t)
        BY <3>2 DEF Unbind
      <3> QED BY <2>4, <3>1, <3>2 DEF RetireStep, Retire, Trace, ReadLabel
    <2>5. CASE RestartStep
      BY <2>5 DEF RestartStep, Restart, LetGo, RetireRestored, Adopt
    <2>6. CASE BaseStep
      BY <2>6 DEF BaseStep, Ask, AdoptBase, ListBase, TabsBase
    <2>7. CASE Operator
      BY <2>7 DEF Operator
    <2> QED BY <2>1, <2>2, <2>4, <2>5, <2>6, <2>7 DEF Next
  <1>8. \A k \in Tasks : Fine(worker'[k], kept'[k])
    BY <1>1, <1>3, <1>4, <1>5, <1>6, <1>7
  <1> QED BY <1>8 DEF Fine, Keeps, OwnTab

LEMMA AskedRemembered ==
  ASSUME TInv, Ages, Remembered, [Next]_vars
  PROVE  \A a \in Askers : asking'[a].step = "tabs" => Remembers(asking[a].seen)'
  <1> USE DEF screenVars, memoryVars, bindingVars, baseVars, boundVars
  <1> DEFINE Fine(q) == q.step = "tabs" =>
        \A p \in Panes : q.seen[p] # None =>
          p <= opened' /\ (tabOf'[p] = None \/ SameLater(q.seen[p], tabOf'[p]))
  <1>0. asking \in [Askers -> Questions]
    BY Parts
  <1>1. \A a \in Askers : Fine(asking[a])
    <2> TAKE a \in Askers
    <2> SUFFICES ASSUME asking[a].step = "tabs"
                 PROVE  \A p \in Panes : asking[a].seen[p] # None =>
                   p <= opened' /\ (tabOf'[p] = None \/ SameLater(asking[a].seen[p], tabOf'[p]))
      OBVIOUS
    <2>1. Remembers(asking[a].seen)
      BY DEF Remembered
    <2> QED BY <2>1, SeenLater
  <1>2. \A q : q.step # "tabs" => Fine(q)
    OBVIOUS
  <1>3. UNCHANGED <<tabOf, opened>> => Fine([NotAsking EXCEPT !.step = "tabs", !.seen = tabOf])
    BY SeenNow DEF Remembers, NotAsking, SameLater
  <1> HIDE DEF Fine
  <1>4. ASSUME NEW a \in Askers, NEW q, asking' = [asking EXCEPT ![a] = q], Fine(q)
        PROVE  \A b \in Askers : Fine(asking'[b])
    BY <1>0, <1>1, <1>4
  <1>5. Fine(NotAsking)
    BY <1>2 DEF NotAsking
  <1>6. ASSUME UNCHANGED asking PROVE \A b \in Askers : Fine(asking'[b])
    BY <1>1, <1>6
  <1>7. ASSUME Restart PROVE \A b \in Askers : Fine(asking'[b])
    BY <1>5, <1>7 DEF Restart
  <1>8. ASSUME BaseStep PROVE \A b \in Askers : Fine(asking'[b])
    <2>1. PICK a \in Askers : \/ Ask(a) \/ AdoptBase(a)
                              \/ \E ok \in BOOLEAN : ListBase(a, ok) \/ TabsBase(a, ok)
      BY <1>8 DEF BaseStep
    <2>2. CASE Ask(a)
      <3>1. Fine([NotAsking EXCEPT !.step = "list", !.held = base])
        BY <1>2 DEF NotAsking
      <3> QED BY <1>4, <2>2, <3>1 DEF Ask
    <2>3. CASE AdoptBase(a)
      BY <1>4, <1>5, <2>3 DEF AdoptBase, Answered
    <2>4. ASSUME NEW ok \in BOOLEAN, ListBase(a, ok)
          PROVE  \A b \in Askers : Fine(asking'[b])
      BY <1>3, <1>4, <1>5, <2>4 DEF ListBase, Answered
    <2>5. ASSUME NEW ok \in BOOLEAN, TabsBase(a, ok)
          PROVE  \A b \in Askers : Fine(asking'[b])
      <3>1. \/ asking' = [asking EXCEPT ![a] = NotAsking]
            \/ \E f : asking' = [asking EXCEPT ![a] = [NotAsking EXCEPT !.step = "pick", !.free = f]]
        BY <2>5 DEF TabsBase, Answered
      <3>2. \A f : Fine([NotAsking EXCEPT !.step = "pick", !.free = f])
        BY <1>2 DEF NotAsking
      <3> QED BY <1>4, <1>5, <3>1, <3>2
    <2> QED BY <2>1, <2>2, <2>3, <2>4, <2>5
  <1>9. UNCHANGED asking \/ Restart \/ BaseStep
    <2>1. CASE UNCHANGED vars
      BY <2>1 DEF vars
    <2>2. CASE SpawnStep
      BY <2>2 DEF SpawnStep, Spawn, List, LookForRoom, WriteSettings, Split, SplitFails,
         Create, CreateFails, Built
    <2>3. CASE RetireStep
      BY <2>3 DEF RetireStep, Retire, Unbind, Trace, ReadLabel, ClosePane, CloseTab,
         CloseFails, Dropped
    <2>4. CASE RestartStep
      BY <2>4 DEF RestartStep, LetGo, RetireRestored, AdoptLost, Adopt
    <2>5. CASE Operator
      BY <2>5 DEF Operator
    <2> QED BY <2>1, <2>2, <2>3, <2>4, <2>5 DEF Next
  <1>10. \A b \in Askers : Fine(asking'[b])
    BY <1>6, <1>7, <1>8, <1>9
  <1> QED BY <1>10 DEF Fine, Remembers, Same, SameLater, OwnTab

JobHolds == AtTab /\ (job.step \in {"tabs", "label", "closeTab"} => Remembers(job.seen))

(* The tab a pane is split in, or a tab that is closed, is the pane's.     *)
LEMMA TabAtHand ==
  ASSUME TInv, AtTab, job.step \in {"split", "closeTab"}
  PROVE  /\ job.pane \in Panes /\ job.tab \in 1..tabsOpened /\ job.tab # None
         /\ job.pane <= opened /\ Keeps(job.pane, job.tab)
  <1>1. job.pane \in Panes /\ job.tab \in 1..tabsOpened /\ job.tab # None
    BY Parts DEF AtTab, JobFits, Jobs, None
  <1>2. OwnTab(job.tab)
    <2>1. CASE job.step = "split"
      <3>1. job.task \in Tasks /\ label[job.tab] = Seq[job.task]
        BY <2>1, Parts DEF AtTab, JobFits, SpawnSteps
      <3> QED BY <3>1, PipelineAssumption DEF OwnTab, Theirs
    <2>2. CASE job.step = "closeTab"
      BY <2>2 DEF AtTab
    <2> QED BY <2>1, <2>2
  <1>3. job.pane <= opened /\ tabOf[job.pane] \in {job.tab, None}
    BY DEF AtTab
  <1> QED BY <1>1, <1>2, <1>3 DEF Keeps

(* What the work at hand takes for granted stays true while it waits.      *)
LEMMA JobWaits ==
  ASSUME TInv, Ages, JobHolds, UNCHANGED job
  PROVE  JobHolds'
  <1>1. job.step \in {"tabs", "label", "closeTab"} => Remembers(job.seen)'
    <2> SUFFICES ASSUME job.step \in {"tabs", "label", "closeTab"} PROVE Remembers(job.seen)'
      OBVIOUS
    <2>1. Remembers(job.seen)
      BY DEF JobHolds
    <2> QED BY <2>1, SeenLater DEF Remembers, Same, SameLater, OwnTab
  <1>2. job.pane \in Panes /\ job.pane <= opened => job.pane <= opened'
    BY PipelineAssumption DEF Ages, Panes
  <1>3. job.step \in {"split", "closeTab"} =>
          /\ tabOf'[job.pane] \in {job.tab, None}
          /\ label'[job.tab] = label[job.tab] /\ label'[job.tab] # Theirs
    <2> SUFFICES ASSUME job.step \in {"split", "closeTab"}
                 PROVE  /\ tabOf'[job.pane] \in {job.tab, None}
                        /\ label'[job.tab] = label[job.tab] /\ label'[job.tab] # Theirs
      OBVIOUS
    <2>1. /\ job.pane \in Panes /\ job.tab \in 1..tabsOpened /\ job.tab # None
          /\ Keeps(job.pane, job.tab)
      BY TabAtHand DEF JobHolds
    <2> QED BY <2>1, KeepsLater, LabelStays
  <1>4. AtTab'
    BY <1>2, <1>3, Parts DEF JobHolds, AtTab, JobFits, Alone, OwnTab
  <1> QED BY <1>1, <1>4 DEF JobHolds

LEMMA SpawnHolds ==
  ASSUME TInv, SInv, Ages, SpawnStep
  PROVE  JobHolds'
  <1> USE DEF screenVars, memoryVars, bindingVars, baseVars, boundVars
  <1>0. job \in Jobs /\ JobFits /\ JobHolds
    BY Parts DEF SInv, Remembered, JobHolds
  <1>1. ASSUME NEW t \in Tasks, Spawn(t) PROVE JobHolds'
    <2>1. job'.step = "list"
      BY <1>1 DEF Spawn, Idle
    <2> QED BY <2>1 DEF JobHolds, AtTab
  <1>2. ASSUME NEW ok \in BOOLEAN, List(ok) PROVE JobHolds'
    <2>1. /\ job'.step = "tabs" /\ job'.seen \in {tabOf, Blank}
          /\ UNCHANGED <<tabOf, opened, label, tabsOpened>>
      BY <1>0, <1>2 DEF List, Jobs
    <2>2. Remembers(job.seen)'
      BY <2>1, SeenNow, SeenNothing DEF Remembers, Blank, Same, OwnTab
    <2> QED BY <2>1, <2>2 DEF JobHolds, AtTab
  <1>3. ASSUME NEW ok \in BOOLEAN, LookForRoom(ok) PROVE JobHolds'
    <2>1. job.step = "tabs" /\ UNCHANGED <<tabOf, opened, label>>
      BY <1>3 DEF LookForRoom
    <2>2. CASE job' = [job EXCEPT !.step = "create", !.seen = Blank]
      <3>1. job'.step = "create"
        BY <1>0, <2>2 DEF Jobs
      <3> QED BY <3>1 DEF JobHolds, AtTab
    <2>3. CASE \E u \in Room(job.task, job.seen), p \in Panes :
                 /\ Target(p, Held(job.seen, u))
                 /\ job' = [job EXCEPT !.step = "split", !.tab = u, !.pane = p, !.seen = Blank]
      <3>1. PICK u \in Room(job.task, job.seen), p \in Panes :
                 /\ p \in Held(job.seen, u)
                 /\ job' = [job EXCEPT !.step = "split", !.tab = u, !.pane = p, !.seen = Blank]
        BY <2>3 DEF Target
      <3>2. /\ job'.step = "split" /\ job'.tab = u /\ job'.pane = p /\ job'.task = job.task
        BY <1>0, <3>1 DEF Jobs
      <3>3. u # None /\ label[u] = Seq[job.task] /\ job.seen[p] = u
        BY <3>1 DEF Room, TabLive, Held
      <3>4. p <= opened /\ tabOf[p] \in {u, None}
        <4>1. p <= opened /\ (tabOf[p] = None \/ Same(u, tabOf[p]))
          BY <1>0, <2>1, <3>1, <3>3 DEF JobHolds, Remembers
        <4>2. job.task \in Tasks
          BY <1>0, <2>1 DEF JobFits, SpawnSteps
        <4>3. OwnTab(u)
          BY <3>3, <4>2, PipelineAssumption DEF OwnTab, Theirs
        <4> QED BY <4>1, <4>3, OwnIsSame
      <3> QED BY <2>1, <3>2, <3>3, <3>4 DEF JobHolds, AtTab
    <2> QED BY <1>3, <2>2, <2>3 DEF LookForRoom
  <1>4. CASE SplitFails
    <2>1. job'.step = "create"
      BY <1>0, <1>4 DEF SplitFails, Jobs
    <2> QED BY <2>1 DEF JobHolds, AtTab
  <1>5. CASE CreateFails
    <2>1. job'.step = "idle"
      BY <1>5 DEF CreateFails, Idle
    <2> QED BY <2>1 DEF JobHolds, AtTab
  <1>6. CASE Split \/ Create
    <2>1. PICK p \in Panes : p = opened' /\ \E u : Placed(p, u)
      BY <1>6 DEF Split, Create, OpensTab, Opens
    <2>2. job'.step = "settings" /\ job'.pane = opened'
      BY <1>0, <2>1 DEF Placed, Jobs
    <2> QED BY <2>2 DEF JobHolds, AtTab, Ages
  <1>7. ASSUME job.step \in {"settings", "build"}, UNCHANGED <<opened, tabOf>>,
               job' = Idle \/ \E s \in {"build", "retire"} : job' = [job EXCEPT !.step = s]
        PROVE  JobHolds'
    <2>1. CASE job' = Idle
      <3>1. job'.step = "idle"
        BY <2>1 DEF Idle
      <3> QED BY <3>1 DEF JobHolds, AtTab
    <2>2. CASE \E s \in {"build", "retire"} : job' = [job EXCEPT !.step = s]
      <3>1. job'.step \in {"build", "retire"} /\ job'.pane = job.pane
        BY <1>0, <2>2 DEF Jobs
      <3> QED BY <1>0, <1>7, <3>1 DEF JobHolds, AtTab
    <2> QED BY <1>7, <2>1, <2>2
  <1>8. ASSUME NEW ok \in BOOLEAN, WriteSettings(ok) PROVE JobHolds'
    BY <1>7, <1>8 DEF WriteSettings, TakeDown
  <1>9. ASSUME NEW outcome \in {"up", "keep", "failed"}, Built(outcome) PROVE JobHolds'
    BY <1>7, <1>9 DEF Built, TakeDown
  <1> QED BY <1>1, <1>2, <1>3, <1>4, <1>5, <1>6, <1>8, <1>9 DEF SpawnStep

LEMMA RetireHolds ==
  ASSUME TInv, SInv, Ages, RetireStep
  PROVE  JobHolds'
  <1> USE DEF screenVars, memoryVars, bindingVars, baseVars, boundVars
  <1>0. job \in Jobs /\ JobFits /\ JobHolds /\ Remembered
    BY Parts DEF SInv, Remembered, JobHolds
  <1>1. ASSUME NEW t \in Tasks, Retire(t) PROVE JobHolds'
    <2>1. job'.step = "retire" /\ job'.pane = worker[t] /\ UNCHANGED opened
      BY <1>1 DEF Retire, Idle
    <2> QED BY <1>0, <2>1 DEF JobHolds, AtTab, Remembered
  <1>2. ASSUME NEW t \in Tasks, Unbind(t) PROVE JobHolds'
    BY <1>0, <1>2, JobWaits DEF Unbind
  <1>3. ASSUME NEW ok \in BOOLEAN, Trace(ok) PROVE JobHolds'
    <2> DEFINE p == job.pane
               u == IF tabs[p] # None THEN tabs[p] ELSE tabOf[p]
    <2>1. /\ job.step = "retire" /\ UNCHANGED <<tabOf, opened, label, tabsOpened>>
          /\ p \in Panes /\ p <= opened
      BY <1>0, <1>3 DEF Trace, JobFits, JobHolds, AtTab
    <2>2. tabOf[p] \in {u, None} /\ (tabs[p] # None => OwnTab(u))
      BY <1>0, <2>1 DEF Remembered, Keeps
    <2>3. CASE job' = [job EXCEPT !.step = "closePane"]
      <3>1. job'.step = "closePane" /\ job'.pane = p
        BY <1>0, <2>3 DEF Jobs
      <3> QED BY <2>1, <3>1 DEF JobHolds, AtTab
    <2>4. CASE /\ job' = [job EXCEPT
                 !.step = IF u # None /\ Alone(p, tabOf, u) THEN "closeTab" ELSE "closePane",
                 !.tab = u, !.seen = tabOf]
               /\ tabs[p] # None \/ u = None
      <3> HIDE DEF u
      <3>1. /\ job'.step \in {"closePane", "closeTab"} /\ job'.pane = p
            /\ job'.tab = u /\ job'.seen = tabOf
            /\ job'.step = "closeTab" => u # None /\ Alone(p, tabOf, u)
        BY <1>0, <2>4 DEF Jobs
      <3>2. Remembers(job.seen)'
        BY <2>1, <3>1, SeenNow DEF Remembers, Same, OwnTab
      <3>3. job'.step = "closeTab" => OwnTab(u)
        BY <2>2, <2>4, <3>1
      <3> QED BY <2>1, <2>2, <3>1, <3>2, <3>3 DEF JobHolds, AtTab, Alone, Held, OwnTab
    <2>5. CASE /\ job' = [job EXCEPT !.step = "label", !.tab = u, !.seen = tabOf]
               /\ tabs[p] = None /\ u # None
      <3>0. u = tabOf[p]
        BY <2>5
      <3> HIDE DEF u
      <3>1. job'.step = "label" /\ job'.pane = p /\ job'.tab = u /\ job'.seen = tabOf
        BY <1>0, <2>5 DEF Jobs
      <3>2. Remembers(job.seen)'
        BY <2>1, <3>1, SeenNow DEF Remembers, Same, OwnTab
      <3> QED BY <2>1, <2>5, <3>0, <3>1, <3>2 DEF JobHolds, AtTab
    <2> QED BY <1>3, <2>3, <2>4, <2>5 DEF Trace
  <1>4. ASSUME NEW ok \in BOOLEAN, ReadLabel(ok) PROVE JobHolds'
    <2>1. /\ job.step = "label" /\ UNCHANGED <<tabOf, opened, label, tabsOpened>>
          /\ \E s \in {"closePane", "closeTab"} :
               /\ job' = [job EXCEPT !.step = s]
               /\ s = "closeTab" => Alone(job.pane, job.seen, job.tab) /\ OwnTab(job.tab)
      BY <1>4 DEF ReadLabel
    <2>2. /\ job'.step \in {"closePane", "closeTab"} /\ job'.pane = job.pane
          /\ job'.tab = job.tab /\ job'.seen = job.seen
          /\ job'.step = "closeTab" => Alone(job.pane, job.seen, job.tab) /\ OwnTab(job.tab)
      BY <1>0, <2>1 DEF Jobs
    <2>3. Remembers(job.seen) /\ job.pane \in Panes /\ job.pane <= opened
          /\ job.tab # None /\ job.seen[job.pane] = job.tab
      BY <1>0, <2>1 DEF JobHolds, AtTab, JobFits
    <2>4. OwnTab(job.tab) => tabOf[job.pane] \in {job.tab, None}
      BY <2>3, OwnIsSame DEF Remembers
    <2>5. Remembers(job.seen)'
      BY <2>1, <2>2, <2>3 DEF Remembers, Same, OwnTab
    <2> QED BY <2>1, <2>2, <2>3, <2>4, <2>5 DEF JobHolds, AtTab, Alone, Held, OwnTab
  <1>5. CASE ClosePane \/ CloseTab \/ CloseFails
    <2>1. job' = [Idle EXCEPT !.step = job.back, !.back = job.back]
      BY <1>5 DEF ClosePane, CloseTab, CloseFails, Dropped
    <2>2. job'.step \in {"idle", "adopt"}
      BY <1>0, <2>1 DEF Idle, Jobs
    <2> QED BY <2>2 DEF JobHolds, AtTab
  <1> QED BY <1>1, <1>2, <1>3, <1>4, <1>5 DEF RetireStep

LEMMA RestartHolds ==
  ASSUME TInv, SInv, Ages, RestartStep
  PROVE  JobHolds'
  <1> USE DEF screenVars, memoryVars, bindingVars, baseVars, boundVars
  <1>0. job \in Jobs /\ JobHolds /\ Remembered
    BY Parts DEF SInv, Remembered, JobHolds
  <1>1. CASE Restart \/ Adopt
    <2>1. job'.step \in {"idle", "adopt"}
      <3>1. Restart => job'.step = "adopt"
        BY DEF Restart, Idle
      <3>2. Adopt => job'.step = "idle"
        BY DEF Adopt, Idle
      <3> QED BY <1>1, <3>1, <3>2
    <2> QED BY <2>1 DEF JobHolds, AtTab
  <1>2. ASSUME NEW t \in Tasks, RetireRestored(t) PROVE JobHolds'
    <2>1. job'.step = "retire" /\ job'.pane = worker[t] /\ UNCHANGED opened
      BY <1>0, <1>2 DEF RetireRestored, Jobs
    <2> QED BY <1>0, <2>1 DEF JobHolds, AtTab, Remembered
  <1>3. CASE UNCHANGED job
    BY <1>0, <1>3, JobWaits
  <1> QED BY <1>1, <1>2, <1>3 DEF RestartStep, LetGo, AdoptLost

(* No worker is lost sight of.                                             *)
LEMMA AccountedHolds ==
  ASSUME TInv, SInv, Ages, [Next]_vars
  PROVE  Accounted'
  <1> USE DEF screenVars, memoryVars, bindingVars, baseVars, boundVars
  <1> DEFINE Known(p) == \/ p \in stray' \/ (InHand' /\ p = job'.pane)
                         \/ \E t \in Tasks : worker'[t] = p
  <1> SUFFICES ASSUME NEW p \in Panes, Live(p)', forTask'[p] # None PROVE Known(p)
    BY DEF Accounted
  <1>0. /\ job \in Jobs /\ JobFits /\ worker \in [Tasks -> {None} \union Panes]
        /\ Owned /\ AtTab /\ p # None /\ p \in Nat /\ opened \in Nat
    BY Parts, PipelineAssumption DEF SInv, Panes, None
  <1>1. p <= opened => p \in stray \/ (InHand /\ p = job.pane) \/ \E t \in Tasks : worker[t] = p
    <2> SUFFICES ASSUME p <= opened
                 PROVE  p \in stray \/ (InHand /\ p = job.pane) \/ \E t \in Tasks : worker[t] = p
      OBVIOUS
    <2>1. tabOf'[p] # None
      BY DEF Live
    <2>2. tabOf[p] # None /\ forTask'[p] = forTask[p]
      BY <2>1 DEF Ages, Same, None
    <2> QED BY <1>0, <2>2 DEF SInv, Accounted, Live
  <1>2. opened' = opened => p <= opened
    <2>1. Live(p)' => tabOf'[p] # None
      BY DEF Live
    <2>2. ASSUME opened' = opened, p > opened PROVE FALSE
      <3>1. [Next]_vars => TInv'
        BY TypedHolds
      <3>2. p > opened' => tabOf'[p] = None
        BY <3>1 DEF TInv, Typed
      <3> QED BY <2>1, <2>2, <3>2
    <2> QED BY <1>0, <2>2
  <1>3. ASSUME opened' = opened, stray \subseteq stray',
               InHand => \/ InHand' /\ job'.pane = job.pane
                         \/ job.pane \in stray' \/ \E t \in Tasks : worker'[t] = job.pane
                         \/ tabOf'[job.pane] = None,
               \A t \in Tasks : \/ worker'[t] = worker[t] \/ worker[t] = None
                                \/ worker[t] \in stray' \/ tabOf'[worker[t]] = None
                                \/ InHand' /\ job'.pane = worker[t]
        PROVE  Known(p)
    BY <1>0, <1>1, <1>2, <1>3 DEF Live
  <1>4. CASE UNCHANGED vars
    BY <1>3, <1>4 DEF vars, InHand
  <1>5. CASE SpawnStep
    <2>1. CASE Split \/ Create
      <3>1. PICK q \in Panes : q = opened + 1 /\ opened' = q /\ \E u : Placed(q, u)
        BY <2>1 DEF Split, Create, OpensTab, Opens
      <3>2. job'.step = "settings" /\ job'.pane = q
        BY <1>0, <3>1 DEF Placed, Jobs
      <3>3. ~InHand /\ UNCHANGED <<stray, worker>>
        BY <2>1 DEF Split, Create, InHand
      <3>4. p <= opened'
        <4>1. TInv'
          BY TypedHolds
        <4> QED BY <1>0, <3>1, <4>1 DEF TInv, Typed, Live
      <3>5. CASE p <= opened
        BY <1>1, <3>3, <3>5
      <3>6. CASE p = q
        BY <3>2, <3>6 DEF InHand
      <3> QED BY <1>0, <3>1, <3>4, <3>5, <3>6
    <2>2. CASE \E outcome \in {"up", "keep", "failed"} : Built(outcome)
      <3>1. PICK outcome \in {"up", "keep", "failed"} : Built(outcome)
        BY <2>2
      <3>2. job.step = "build" /\ UNCHANGED <<stray, opened>> /\ job.task \in Tasks
        BY <1>0, <3>1 DEF Built, JobFits, SpawnSteps
      <3>3. CASE Bound(outcome)
        <4>1. worker' = [worker EXCEPT ![job.task] = job.pane] /\ worker[job.task] = None
          BY <1>0, <3>1, <3>2, <3>3 DEF Built, Owned, SpawnSteps
        <4>2. worker'[job.task] = job.pane
          BY <1>0, <3>2, <4>1
        <4>3. \A t \in Tasks : worker'[t] = worker[t] \/ worker[t] = None
          BY <1>0, <3>2, <4>1
        <4> QED BY <1>3, <3>2, <4>2, <4>3
      <3>4. CASE ~Bound(outcome)
        <4>1. job' = [job EXCEPT !.step = "retire"] /\ UNCHANGED worker
          BY <3>1, <3>4 DEF Built, Bound, TakeDown
        <4>2. job'.step = "retire" /\ job'.pane = job.pane
          BY <1>0, <4>1 DEF Jobs
        <4> QED BY <1>3, <3>2, <4>1, <4>2 DEF InHand
      <3> QED BY <3>3, <3>4
    <2>3. CASE \E ok \in BOOLEAN : WriteSettings(ok)
      <3>1. /\ UNCHANGED <<stray, worker, opened>>
            /\ \E s \in {"build", "retire"} : job' = [job EXCEPT !.step = s]
        BY <2>3 DEF WriteSettings, TakeDown
      <3>2. job'.step \in {"build", "retire"} /\ job'.pane = job.pane
        BY <1>0, <3>1 DEF Jobs
      <3> QED BY <1>3, <3>1, <3>2 DEF InHand
    <2>4. CASE \/ \E t \in Tasks : Spawn(t)
               \/ \E ok \in BOOLEAN : List(ok) \/ LookForRoom(ok)
               \/ SplitFails \/ CreateFails
      <3>1. UNCHANGED <<stray, worker, opened>>
        BY <2>4 DEF Spawn, List, LookForRoom, SplitFails, CreateFails
      <3>2. ~InHand
        <4>1. CASE \E t \in Tasks : Spawn(t)
          BY <4>1 DEF Spawn, Ready, Idle, InHand
        <4>2. CASE ~\E t \in Tasks : Spawn(t)
          BY <2>4, <4>2 DEF List, LookForRoom, SplitFails, CreateFails, InHand
        <4> QED BY <4>1, <4>2
      <3> QED BY <1>3, <3>1, <3>2
    <2> QED BY <1>5, <2>1, <2>2, <2>3, <2>4 DEF SpawnStep
  <1>6. CASE RetireStep
    <2>1. ASSUME NEW t \in Tasks, Retire(t) PROVE Known(p)
      <3>1. UNCHANGED <<stray, worker, opened>> /\ ~InHand
        BY <2>1 DEF Retire, Ready, Idle, InHand
      <3> QED BY <1>3, <3>1
    <2>2. ASSUME NEW t \in Tasks, Unbind(t) PROVE Known(p)
      <3>1. /\ UNCHANGED <<stray, opened, tabOf>> /\ ~InHand
            /\ worker' = [worker EXCEPT ![t] = None] /\ tabOf[worker[t]] = None
        BY <2>2 DEF Unbind, Ready, Idle, InHand, Live
      <3>2. \A k \in Tasks : worker'[k] = worker[k] \/ tabOf'[worker[k]] = None
        BY <1>0, <3>1
      <3> QED BY <1>3, <3>1, <3>2
    <2>3. ASSUME NEW ok \in BOOLEAN, Trace(ok) \/ ReadLabel(ok) PROVE Known(p)
      <3>1. UNCHANGED <<stray, worker, opened>>
        BY <2>3 DEF Trace, ReadLabel
      <3>2. ASSUME NEW s \in {"closePane", "closeTab", "label"}, NEW u,
                   \/ job' = [job EXCEPT !.step = s]
                   \/ job' = [job EXCEPT !.step = s, !.tab = u, !.seen = tabOf]
            PROVE  job'.step \in {"closePane", "closeTab", "label"} /\ job'.pane = job.pane
        BY <1>0, <3>2 DEF Jobs
      <3>3. job'.step \in {"closePane", "closeTab", "label"} /\ job'.pane = job.pane
        <4>1. CASE Trace(ok)
          BY <3>2, <4>1 DEF Trace
        <4>2. CASE ReadLabel(ok)
          BY <3>2, <4>2 DEF ReadLabel
        <4> QED BY <2>3, <4>1, <4>2
      <3> QED BY <1>3, <3>1, <3>3 DEF InHand
    <2>4. CASE ClosePane \/ CloseTab \/ CloseFails
      <3>1. /\ job.step \in {"closePane", "closeTab"} /\ UNCHANGED opened
            /\ \A t \in Tasks : worker'[t] = worker[t] \/ worker[t] = job.pane
            /\ stray \subseteq stray'
        <4>1. Dropped /\ job.step \in {"closePane", "closeTab"} /\ stray \subseteq stray'
          BY <2>4 DEF ClosePane, CloseTab, CloseFails
        <4>2. job.task \in Tasks
          BY <1>0, <4>1 DEF JobFits
        <4>3. UNCHANGED opened /\ \/ worker' = worker
                                  \/ /\ worker[job.task] = job.pane
                                     /\ worker' = [worker EXCEPT ![job.task] = None]
          BY <4>1 DEF Dropped
        <4> QED BY <1>0, <4>1, <4>2, <4>3
      <3>2. job.pane \in Panes
        BY <1>0, <3>1 DEF JobFits
      <3>3. tabOf'[job.pane] = None \/ job.pane \in stray'
        <4>1. CASE ClosePane
          BY <3>2, <4>1 DEF ClosePane, Closes
        <4>2. CASE CloseTab
          <5>1. tabOf[job.pane] \in {job.tab, None} /\ tabOf' = [q \in Panes |->
                  IF q \in Held(tabOf, job.tab) THEN None ELSE tabOf[q]]
            BY <1>0, <4>2 DEF CloseTab, AtTab, Closes
          <5> QED BY <3>2, <5>1 DEF Held
        <4>3. CASE CloseFails
          BY <1>0, <3>1, <3>2, <4>3, PipelineAssumption DEF CloseFails, Live, None, Panes
        <4> QED BY <2>4, <4>1, <4>2, <4>3
      <3> QED BY <1>3, <3>1, <3>3
    <2> QED BY <1>6, <2>1, <2>2, <2>3, <2>4 DEF RetireStep
  <1>7. CASE RestartStep
    <2>1. CASE Restart
      <3>1. /\ UNCHANGED <<opened, worker>>
            /\ stray' = stray \union ({job.pane} \ ({None} \union {worker[t] : t \in Tasks}))
        BY <2>1 DEF Restart
      <3>2. InHand => job.pane \in Panes /\ job.pane # None
        BY <1>0, PipelineAssumption DEF JobFits, InHand, Panes, None
      <3> QED BY <1>3, <3>1, <3>2
    <2>2. ASSUME NEW t \in Tasks, LetGo(t) PROVE Known(p)
      <3>1. /\ UNCHANGED <<opened, tabOf>> /\ ~InHand /\ worker[t] # None
            /\ worker' = [worker EXCEPT ![t] = None]
            /\ stray' = IF Live(worker[t]) THEN stray \union {worker[t]} ELSE stray
        BY <2>2 DEF LetGo, InHand
      <3>2. \A k \in Tasks : \/ worker'[k] = worker[k] \/ worker[k] \in stray'
                             \/ tabOf'[worker[k]] = None
        BY <1>0, <3>1 DEF Live
      <3> QED BY <1>3, <3>1, <3>2
    <2>3. ASSUME NEW t \in Tasks, RetireRestored(t) PROVE Known(p)
      <3>1. UNCHANGED <<stray, worker, opened>> /\ ~InHand
        BY <2>3 DEF RetireRestored, InHand
      <3> QED BY <1>3, <3>1
    <2>4. ASSUME NEW t \in Tasks, NEW q \in Panes, AdoptLost(t, q) PROVE Known(p)
      <3>1. /\ UNCHANGED opened /\ ~InHand /\ worker[t] = None
            /\ worker' = [worker EXCEPT ![t] = q] /\ stray' = stray \ {q}
        BY <2>4 DEF AdoptLost, InHand
      <3>2. worker'[t] = q /\ \A k \in Tasks : worker[k] # None => worker'[k] = worker[k]
        BY <1>0, <3>1
      <3> QED BY <1>0, <1>1, <1>2, <3>1, <3>2
    <2>5. CASE Adopt
      <3>1. UNCHANGED <<stray, worker, opened>> /\ ~InHand
        BY <2>5 DEF Adopt, InHand
      <3> QED BY <1>3, <3>1
    <2> QED BY <1>7, <2>1, <2>2, <2>3, <2>4, <2>5 DEF RestartStep
  <1>8. CASE BaseStep
    <2>1. UNCHANGED <<stray, worker, opened, job>>
      BY <1>8 DEF BaseStep, Ask, AdoptBase, ListBase, TabsBase
    <2> QED BY <1>3, <2>1 DEF InHand
  <1>9. CASE Operator
    <2>1. UNCHANGED <<stray, worker, job>>
      BY <1>9 DEF Operator, OpensPane, ClosesPane, DragsPane
    <2>2. CASE p <= opened
      BY <1>1, <2>1, <2>2 DEF InHand
    <2>3. CASE p > opened
      <3>1. CASE OpensPane
        <4>1. PICK q \in Panes : \E u : Opens(q, u, None)
          BY <3>1 DEF OpensPane, OpensTab
        <4>2. forTask'[q] = None /\ \A r \in Panes : r # q => forTask'[r] = forTask[r]
          BY <4>1, Parts DEF Opens, ScreenTyped
        <4>3. forTask[p] = None
          BY <1>0, <2>3, Parts DEF ScreenTyped
        <4> QED BY <4>2, <4>3
      <3>2. CASE ~OpensPane
        BY <1>0, <1>2, <1>9, <2>3, <3>2 DEF Operator, ClosesPane, DragsPane
      <3> QED BY <3>1, <3>2
    <2> QED BY <1>0, <2>2, <2>3
  <1> QED BY <1>4, <1>5, <1>6, <1>7, <1>8, <1>9 DEF Next

(* A base that is live is nobody's worker.                                 *)
LEMMA BaseFreeHolds ==
  ASSUME TInv, SInv, Ages, [Next]_vars
  PROVE  BaseFree'
  <1> USE DEF screenVars, memoryVars, bindingVars, baseVars, boundVars
  <1> DEFINE Nobodys(p) == p <= opened /\ (Live(p) => forTask[p] = None)
             Stays(p) == p <= opened' /\ (p # None /\ tabOf'[p] # None => forTask'[p] = None)
  <1>0. /\ base \in {None} \union Panes /\ asking \in [Askers -> Questions]
        /\ ScreenTyped /\ opened \in Nat /\ opened' \in Nat /\ opened <= opened'
        /\ None \in Nat /\ None = 0 /\ \A p \in Panes : p \in Nat /\ p # None
    BY Parts, PipelineAssumption DEF Ages, None, Panes
  <1>1. \A p \in {None} \union Panes : Nobodys(p) => Stays(p)
    <2>1. \A p \in Panes : p <= opened /\ tabOf'[p] # None =>
            tabOf[p] # None /\ forTask'[p] = forTask[p]
      BY DEF Ages, Same, None
    <2> QED BY <1>0, <2>1 DEF Live
  <1>2. Nobodys(base) /\ \A a \in Askers : asking[a].step = "pick" =>
                            \A p \in asking[a].free : Nobodys(p)
    BY DEF SInv, BaseFree, BaseIsNoWorker
  <1>3. \A a \in Askers : asking[a].free \subseteq Panes
    BY <1>0 DEF Questions
  <1>4. Nobodys(None)
    BY <1>0 DEF Live
  <1>5. ASSUME NEW p \in Panes, tabOf[p] # None, forTask[p] # None PROVE OwnTab(tabOf[p])
    <2>1. label[tabOf[p]] = Seq[forTask[p]] /\ forTask[p] \in Tasks
      BY <1>0, <1>5 DEF SInv, WorkerInOwnTab, Live, ScreenTyped
    <2> QED BY <2>1, PipelineAssumption DEF OwnTab, Theirs
  <1>6. \A p \in Panes : tabOf[p] # None => p <= opened
    BY <1>0 DEF ScreenTyped
  <1> DEFINE Asked(q) == q.step = "pick" => \A p \in q.free : Stays(p)
  <1>7. \A a \in Askers : Asked(asking[a])
    BY <1>1, <1>2, <1>3
  <1> HIDE DEF Nobodys
  <1>8. \/ /\ base' = base \/ base' = None
           /\ UNCHANGED asking
        \/ Restart \/ BaseStep
    <2>1. CASE UNCHANGED vars
      BY <2>1 DEF vars
    <2>2. CASE SpawnStep
      BY <2>2 DEF SpawnStep, Spawn, List, LookForRoom, WriteSettings, Split, SplitFails,
         Create, CreateFails, Built
    <2>3. CASE RetireStep
      BY <2>3 DEF RetireStep, Retire, Unbind, Trace, ReadLabel, ClosePane, CloseTab,
         CloseFails, Dropped
    <2>4. CASE RestartStep
      BY <2>4 DEF RestartStep, LetGo, RetireRestored, AdoptLost, Adopt
    <2>5. CASE Operator
      BY <2>5 DEF Operator
    <2> QED BY <2>1, <2>2, <2>3, <2>4, <2>5 DEF Next
  <1>9. CASE BaseStep
    <2>1. PICK a \in Askers : \/ Ask(a) \/ AdoptBase(a)
                              \/ \E ok \in BOOLEAN : ListBase(a, ok) \/ TabsBase(a, ok)
      BY <1>9 DEF BaseStep
    <2>2. \A q : q.step # "pick" => Asked(q)
      OBVIOUS
    <2>3. ASSUME NEW q, asking' = [asking EXCEPT ![a] = q], Asked(q)
          PROVE  \A b \in Askers : Asked(asking'[b])
      <3> HIDE DEF Asked
      <3> QED BY <1>0, <1>7, <2>3
    <2>4. Asked(NotAsking) /\ Asked([NotAsking EXCEPT !.step = "list", !.held = base])
          /\ Asked([NotAsking EXCEPT !.step = "tabs", !.seen = tabOf])
      BY <2>2 DEF NotAsking
    <2>5. CASE Ask(a)
      <3>1. UNCHANGED base /\ asking' = [asking EXCEPT ![a] =
              [NotAsking EXCEPT !.step = "list", !.held = base]]
        BY <2>5 DEF Ask
      <3>2. Nobodys(base') /\ \A b \in Askers : Asked(asking'[b])
        BY <1>2, <2>3, <2>4, <3>1
      <3> QED BY <1>0, <1>1, <3>1, <3>2 DEF BaseFree, BaseIsNoWorker, Live
    <2>6. CASE AdoptBase(a)
      <3> DEFINE S == asking[a].free \ {worker[t] : t \in Tasks}
      <3>1. /\ asking' = [asking EXCEPT ![a] = NotAsking]
            /\ base' = IF base = None THEN Pick(asking[a].free) ELSE base
            /\ asking[a].step = "pick"
        BY <2>6 DEF AdoptBase, Answered
      <3>2. S # {} => Min(S) \in S
        <4> SUFFICES ASSUME S # {} PROVE Min(S) \in S
          OBVIOUS
        <4>1. S \in SUBSET Nat
          BY <1>0, <1>3
        <4> HIDE DEF S
        <4>2. \E m \in S : \A x \in S : m <= x
          BY <4>1, Least
        <4> QED BY <4>2 DEF Min
      <3>3. Nobodys(base') /\ base' \in {None} \union Panes
        BY <1>0, <1>2, <1>3, <1>4, <3>1, <3>2 DEF Pick
      <3>4. \A b \in Askers : Asked(asking'[b])
        BY <2>3, <2>4, <3>1
      <3> QED BY <1>1, <3>3, <3>4 DEF BaseFree, BaseIsNoWorker, Live
    <2>7. ASSUME NEW ok \in BOOLEAN, ListBase(a, ok) PROVE BaseFree'
      <3>1. /\ base' = base \/ base' = None
            /\ \/ asking' = [asking EXCEPT ![a] = NotAsking]
               \/ asking' = [asking EXCEPT ![a] = [NotAsking EXCEPT !.step = "tabs", !.seen = tabOf]]
        BY <2>7 DEF ListBase, Answered, Forget
      <3>2. Nobodys(base') /\ base' \in {None} \union Panes
        BY <1>0, <1>2, <1>4, <3>1
      <3>3. \A b \in Askers : Asked(asking'[b])
        BY <2>3, <2>4, <3>1
      <3> QED BY <1>1, <3>2, <3>3 DEF BaseFree, BaseIsNoWorker, Live
    <2>8. ASSUME NEW ok \in BOOLEAN, TabsBase(a, ok) PROVE BaseFree'
      <3> DEFINE seen == asking[a].seen
                 own == {u \in Tabs : TabLive(u) /\ OwnTab(u)}
                 f == {p \in Panes : seen[p] # None /\ seen[p] \notin own}
      <3>1. /\ UNCHANGED base /\ asking[a].step = "tabs"
            /\ \/ asking' = [asking EXCEPT ![a] = NotAsking]
               \/ asking' = [asking EXCEPT ![a] = [NotAsking EXCEPT !.step = "pick", !.free = f]]
        BY <2>8 DEF TabsBase, Answered
      <3>2. ASSUME NEW p \in f PROVE Nobodys(p)
        <4>1. /\ p \in Panes /\ p <= opened /\ seen[p] \notin own
              /\ tabOf[p] = None \/ Same(seen[p], tabOf[p])
          BY <3>1 DEF SInv, Remembered, Remembers
        <4>2. ASSUME tabOf[p] # None, forTask[p] # None PROVE FALSE
          <5>1. tabOf[p] = seen[p] /\ OwnTab(seen[p]) /\ TabLive(seen[p]) /\ seen[p] \in Tabs
            <6>1. tabOf[p] = seen[p] /\ OwnTab(tabOf[p])
              BY <1>5, <4>1, <4>2, OwnIsSame
            <6> QED BY <1>0, <4>1, <4>2, <6>1 DEF TabLive, Held, ScreenTyped
          <5> QED BY <4>1, <5>1
        <4> QED BY <4>1, <4>2 DEF Nobodys, Live
      <3>3. f \subseteq Panes
        OBVIOUS
      <3> HIDE DEF f
      <3>4. Asked([NotAsking EXCEPT !.step = "pick", !.free = f])
        <4>1. [NotAsking EXCEPT !.step = "pick", !.free = f].free = f
          BY DEF NotAsking
        <4> QED BY <1>1, <3>2, <3>3, <4>1
      <3>5. \A b \in Askers : Asked(asking'[b])
        BY <2>3, <2>4, <3>1, <3>4
      <3>6. Nobodys(base')
        BY <1>2, <3>1
      <3> QED BY <1>0, <1>1, <3>1, <3>5, <3>6 DEF BaseFree, BaseIsNoWorker, Live
    <2> QED BY <2>1, <2>5, <2>6, <2>7, <2>8
  <1>10. CASE Restart
    <2>1. /\ UNCHANGED <<tabOf, forTask, opened>>
          /\ base' \in {None} \union {p \in Panes : Live(p) /\ ~OwnTab(tabOf[p])}
          /\ asking' = [a \in Askers |-> NotAsking]
      BY <1>10 DEF Restart
    <2>2. Nobodys(base') /\ base' \in {None} \union Panes
      BY <1>4, <1>5, <1>6, <2>1 DEF Nobodys, Live
    <2>3. \A a \in Askers : asking'[a].step = "off"
      BY <2>1 DEF NotAsking
    <2> QED BY <1>1, <2>2, <2>3 DEF BaseFree, BaseIsNoWorker, Live
  <1>11. CASE (base' = base \/ base' = None) /\ UNCHANGED asking
    <2>1. Nobodys(base') /\ base' \in {None} \union Panes
      BY <1>0, <1>2, <1>4, <1>11
    <2> QED BY <1>1, <1>7, <1>11, <2>1 DEF BaseFree, BaseIsNoWorker, Live
  <1> QED BY <1>8, <1>9, <1>10, <1>11

-----------------------------------------------------------------------------
LEMMA InitSafe == Init => SInv
  <1> SUFFICES ASSUME Init PROVE SInv
    OBVIOUS
  <1>0. MaxPanes \in Nat /\ MaxPanes >= 2 /\ opened \in 1..2
    BY PipelineAssumption DEF Init
  <1>1. job.step = "idle" /\ \A a \in Askers : asking[a].step = "off"
    BY DEF Init, Idle, NotAsking
  <1>2. WorkerInOwnTab /\ Accounted
    BY DEF Init, WorkerInOwnTab, Accounted, Live
  <1>3. Remembered
    BY <1>0, <1>1 DEF Init, Remembered, Keeps, Blank, None
  <1>4. AtTab /\ BaseFree
    BY <1>0, <1>1 DEF Init, AtTab, BaseFree, BaseIsNoWorker, Live, None, Panes
  <1> QED BY <1>2, <1>3, <1>4 DEF SInv

LEMMA SafeHolds ==
  ASSUME TInv, SInv, [Next]_vars, ~Drags
  PROVE  SInv'
  <1>1. Ages
    BY StepAges DEF SInv
  <1>2. JobHolds /\ Remembered /\ AtTab /\ WorkerInOwnTab
    BY DEF SInv, JobHolds, Remembered
  <1>3. JobHolds'
    <2>1. CASE UNCHANGED job
      BY <1>1, <1>2, <2>1, JobWaits
    <2>2. CASE ~UNCHANGED job
      <3>1. SpawnStep \/ RetireStep \/ RestartStep
        BY <2>2 DEF Next, vars, BaseStep, Ask, AdoptBase, ListBase, TabsBase, Operator,
           bindingVars
      <3> QED BY <1>1, <3>1, SpawnHolds, RetireHolds, RestartHolds
    <2> QED BY <2>1, <2>2
  <1>4. Remembered' /\ AtTab'
    BY <1>1, <1>2, <1>3, TabsRemembered, KeptRemembered, AskedRemembered
    DEF Remembered, JobHolds
  <1> QED BY <1>1, <1>2, <1>4, HousedHolds, AccountedHolds, BaseFreeHolds DEF SInv

(* Where the operator moves no pane out of a tab of this dispatcher's.     *)
THEOREM ScreenInvariant == ASSUME ~Drags PROVE Spec => [](TInv /\ SInv)
  <1>1. Init => TInv /\ SInv
    BY InitTyped, InitSafe
  <1>2. (TInv /\ SInv) /\ [Next]_vars => (TInv /\ SInv)'
    BY TypedHolds, SafeHolds
  <1> QED BY <1>1, <1>2, PTL DEF Spec

(* Every worker sits in a tab of its own task's number.                    *)
THEOREM WorkersInOwnTab == ASSUME ~Drags PROVE Spec => []WorkerInOwnTab
  <1>1. TInv /\ SInv => WorkerInOwnTab
    BY DEF SInv
  <1> QED BY <1>1, ScreenInvariant, PTL

(* No worker is lost sight of: it is bound, at hand, or was let go.        *)
THEOREM WorkersAccounted == ASSUME ~Drags PROVE Spec => []NoWorkerUnaccounted
  <1>1. TInv /\ SInv => NoWorkerUnaccounted
    BY DEF SInv, Accounted, NoWorkerUnaccounted
  <1> QED BY <1>1, ScreenInvariant, PTL

(* A base that is live is no worker's pane.                                *)
THEOREM BaseIsNobodys == ASSUME ~Drags PROVE Spec => []BaseIsNoWorker
  <1>1. TInv /\ SInv => BaseIsNoWorker
    BY DEF SInv, BaseFree
  <1> QED BY <1>1, ScreenInvariant, PTL

(* A tab is closed over the pane that is retired, and over no other that   *)
(* was listed.                                                             *)
THEOREM TabsCloseAlone == ASSUME ~Drags PROVE Spec => TabCloseSpares
  <1>1. ASSUME TInv, SInv, CloseTab, job.seen[job.pane] # None,
               NEW p \in Panes, Live(p), tabOf'[p] = None, p # job.pane
        PROVE  job.seen[p] = None
    <2> SUFFICES ASSUME job.seen[p] # None PROVE FALSE
      OBVIOUS
    <2>1. /\ job.step = "closeTab" /\ Closes(Held(tabOf, job.tab))
          /\ Remembers(job.seen) /\ job.pane \in Panes
          /\ job.seen[job.pane] = job.tab /\ OwnTab(job.tab)
          /\ Cardinality(Held(job.seen, job.tab)) <= 1
      BY <1>1, Parts DEF CloseTab, SInv, Remembered, AtTab, Alone, JobFits
    <2>2. tabOf[p] # None /\ tabOf[p] = job.tab
      BY <1>1, <2>1 DEF Closes, Held, Live
    <2>3. job.seen[p] = job.tab
      <3>1. Same(job.seen[p], tabOf[p])
        BY <2>1, <2>2 DEF Remembers
      <3> QED BY <2>1, <2>2, <3>1, OwnIsSame
    <2> DEFINE H == Held(job.seen, job.tab)
    <2>4. p \in H /\ job.pane \in H /\ H \subseteq Panes
      BY <2>1, <2>3 DEF Held
    <2>5. IsFiniteSet(H)
      <3>1. IsFiniteSet(Panes)
        BY FS_Interval, PipelineAssumption DEF Panes
      <3> QED BY <2>4, <3>1, FS_Subset
    <2> HIDE DEF H
    <2>6. {p, job.pane} \subseteq H /\ IsFiniteSet({p}) /\ Cardinality({p}) = 1
      BY <2>4, FS_Singleton
    <2>7. Cardinality({p} \union {job.pane}) = 2
      BY <1>1, <2>6, FS_AddElement
    <2>8. Cardinality({p} \union {job.pane}) <= Cardinality(H)
      BY <2>5, <2>6, FS_Subset
    <2>9. Cardinality(H) \in Nat /\ Cardinality(H) <= 1
      BY <2>1, <2>5, FS_CardinalityType DEF H
    <2> QED BY <2>7, <2>8, <2>9
  <1>2. TInv /\ SInv /\ [Next]_vars =>
          [CloseTab /\ job.seen[job.pane] # None =>
             \A p \in Panes : Live(p) /\ tabOf'[p] = None /\ p # job.pane
               => job.seen[p] = None]_vars
    BY <1>1
  <1> QED BY <1>2, ScreenInvariant, PTL DEF Spec, TabCloseSpares
=============================================================================
