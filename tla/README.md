# Formal models of herdr-dispatch

This directory holds TLA+ models of `hdis`, the dispatcher, written from its
Go source: the specification, the small instances TLC checks, and theorems
that TLAPS checks for every instance. `PROJECT.json` lists, for each
definition, the lines of code it stands for.

## 1. The system

`hdis` is one daemon per user. It watches a task board (`htask`), brings up a
worker agent in a Herdr pane for each ready task, delivers the goal, and
tracks the worker until the task is reviewed. The board owns the task rows and
Herdr owns the panes; the daemon decides, and keeps only what neither of them
can tell it.

| Component | State it keeps | Operations | What makes it correct |
|---|---|---|---|
| Tick loop (`loop/loop.go`, `dead.go`, `sweep.go`, `restored.go`) | bindings (pane ↔ task, prompts, flags), refusal streaks, death counts, owed sweeps, `unadopted` | `Tick` = retry of `Adopt`, `clearDeaths`, `snapshot`, `Decide`, `apply` (spawn, prompt, notify, rearm, retire, give up, unbind), `sweepOwed`; `Adopt` at start | one live worker per task; no checkout removed under a live pane; every worker ends; every submission is announced |
| Dispatch verb (`loop/dispatch.go`) | reservations with their attempts | `Dispatch` on a door's goroutine, `attempt`, `unreserve` on the tick's | no more workers than `MaxWorkers`; an accepted dispatch is not lost |
| Pure decisions (`decide`) | none | `Decide`, `shareOut`, `RouteProfile`, `ChooseProfile`, `QuotaRefusal` | each binding gets the action its row and pane call for; slots are shared; the nearest profile that may launch is taken, and doors and ticks agree on it |
| Persisted document (`store`) | bindings, reservations, deaths, parked actions, trail | `Load`, `Save` (written aside and renamed) | what a crash finds is what the daemon believed |
| Spawn pipeline (`spawn`) | settings files, tabs | `Run` (place, start, answer the dialog, confirm the goal, undo), `Retire`, `Discard` | a worker sits in its own task's tab; a failure it can read leaves nothing behind, one it cannot read keeps the worker; nobody else's pane is closed; no settings file is left |
| Worktrees (`worktree`) | checkouts and branches | `Worker`, `Holder`, `Remove`, `Unmoved`, `Changed` | one checkout per branch; nothing that holds work is lost |
| Board and Herdr clients (`htask`, `herdrclient`) | none | one process per call | each failure keeps its meaning (gone is not unreachable) |
| Daemon (`daemon`, `cmd/hdis/serve.go`) | socket, lock file, one goroutine per call, the tick goroutine | `Lock`, `Listen`, `Serve`, `answer`, `Cleanup` | one daemon per user; a stop leaves nothing behind |
| Trail and followers (`loop/events.go`, `store/events.go`, `daemon/events.go`, `client.Stream`) | the last 1000 events, one channel per follower | `emit`, `Select`, `Rotate`, `stream`, `watchers` | a follower sees every event once and in order, or is told it cannot; a wake-up dropped loses nothing |
| Policy gate and parked actions (`gate`, `store/parked.go`, `daemon.go`) | parked rows | `Park`, `ClaimParked`, the re-run, `FailParked` | one resolution per row, run at most once |
| Base pane (`loop/base.go`) | the pane workers are split off | `EnsureBase`, `forgetBase`, `pickBase` | never a worker's own pane; one base at a time |
| Client autostart (`client`) | none | `dialOrStart`, `start` | a door finds the daemon or says why not |
| Configuration (`config`) | the document, read once | `Parse`, `GridSplit`, `MaxPanesClearing` | what is accepted can be resolved later; a derived cap keeps panes readable |
| Command line, MCP door, verbs, protocol, proxy, codes, version | none of their own | rendering, parsing, tables | out of scope |

How they interact. The tick goroutine holds the loop's mutex only to read or
write memory, never across a call to git, the board or Herdr. A spawn takes
minutes, and a door's `Dispatch`, the workers, the people at the board and a
crash all come between its steps. `Dispatch` itself reads the board and the
death count before it takes the mutex. Every change of memory is saved whole
under the mutex (`saveLocked`), except while the start-up reconciliation has
failed. On a start, `Adopt` reads the document and Herdr's panes, answers for
each live pane from its board row, and only then replaces the memory.

What is hard here is listed line by line under `hazards` in `PROJECT.json`:
rows, pane lists and counts read early and used late; spawns and endings that
fail half way; a crash between any two steps, including the steps of the
reconciliation that is to repair a crash; two counts of the same slots;
wake-ups that are dropped; a screen the operator rearranges meanwhile;
limits compared in several places; and the things that must happen in the
end.

## 2. The modules

| Module | What it is |
|---|---|
| `Dispatcher` | the tick loop, the dispatch verb, the decisions, the document, `Adopt`; the board, Herdr, the workers and the clock as environment |
| `MCDispatcher` | the finite sets the `.cfg` files use |
| `DispatcherProofs` | type correctness (`TypeInv`, `TypeCorrect`) |
| `Fleet` | what the dispatcher promises of its workers; `Dispatcher` implements it |
| `SafetyProofs` | the document is the memory; a spawn's slot and the cap; streaks, deaths, reservations, tasks held back |
| `WorkerProofs` | one worker per task; no checkout removed under one; workers on claimed tasks are bound; the refinement of `Fleet` |
| `Doors` | lives of the daemon: lock file and socket, a start, stop, signals, crashes, teardown; the calls doors make; the policy gate and the parked actions |
| `MCDoors` | its instances |
| `Verdict` | what a parked action is promised; `Doors` implements it |
| `DoorsProofs` | one daemon; its socket; a parked call runs at most once and is kept; the refinement of `Verdict`; stops are answered |
| `Trail` | the event trail, its document, the streams that follow it, their consumers |
| `Feed` | what the trail promises a consumer; `Trail` implements it |
| `MCTrail`, `TrailProofs` | its instances; its theorems, the refinement among them |
| `Pipeline` | workers on Herdr's screen: placement, retirement, settings files, restarts, the base pane, and an operator |
| `MCPipeline`, `PipelineProofs` | its instances; its theorems |
| `Routing` | from the document to the profile a worker launches with, and who gets a slot |
| `Layout`, `Grid` | how small panes get as a tab fills up; the placement rule |
| `MCRouting`, `RoutingProofs` | documents, quotas and ready lists; the theorems on chains, doors, slots and caps |
| `Numbers` | sets of numbers and functions by recursion, as the proofs need them |

`Dispatcher` takes one daemon for granted and studies what it does, a crash
inside `Adopt` included. `Doors` studies what makes it one, and takes the tick
as a goroutine that runs and ends. `Trail`, `Pipeline` and `Routing` each open
up something `Dispatcher` has as one step or one choice: an event that is
saved with its change, a pane that opens or closes, a task that is gated.

### How `Dispatcher` corresponds to the code

The tick is one goroutine, so it has one program counter `pc`. Its steps end
where the code makes an external call or gives up the lock. What is written
under one hold of the lock is one action, with the save that ends it.

| `pc` | Next step of the code | Actions |
|---|---|---|
| `idle` | `clearDeaths`, the copy of the bindings, their rows | `TickStart`; `TickAdopts` while unadopted |
| `ready` | `Board.Ready`, reservations dropped or put first | `ReadReady`, `TickFails` |
| `panes` | `Herdr.Panes`, then `decide.Decide` | `Decide`, `TickFails` |
| `act` | `apply` | `ApplyRearm`, `ApplyNotify`, `SkipShot`, `PromptLands`, `AgentMissing`, `PromptFails`, `ApplyRetire`, `ApplyUnbind`, then `TakeSlot`, then `SweepOwed` |
| `drop`, `count`, `sweep` | the rest of `retire`, `workerDied`, unbind | `FinishRetire`, `CountDeath`, `SweepClaim` |
| `prepare`, `open`, `start`, `confirm`, `undo`, `bind`, `unreserve` | `spawn` and the pipeline's `Run` | `CutCheckout`, `SpawnRefused`, `OpenPane`, `OpenFails`, `StartAgent`, `ConfirmGoal`, `UndoSpawn`, `DropCheckout`, `Bind`, `Unreserve` |
| `adopt`, `sample`, `restored`, `reap` | `Adopt`: `reconcile` per pane, the wait of `restoredWorkerIsLive`, `retireRestored`, the commit, `reap` | `LetGo`, `RetiresFinished`, `Holds`, `TakesBack`, `Samples`, `SampleLive`, `SampleIdle`, `RetiresRestored`, `AdoptCommits`, `Reap` |

`door` is the one dispatch call in flight. A crash (`Crash`) can come at any
step and keeps `disk`, the panes, the checkouts and the board. It loses
`bindings`, `attempts`, `deaths`, `missing`, `owed` and the tick's locals. Only
with fault `adopt` may it also fall inside a reconciliation, where it does
damage (section 6).

Abstractions of `Dispatcher`, each because no property tells the difference:

- A prompt count stops at `MaxPrompts`. Nothing compares it above that.
- A delivery time is the flag `overdue`: `ClaimTimeout` has passed since.
  `TimePasses` sets it at any moment, so a run explores every timing.
- A checkout is the fact that its task's branch is held by one. Wording and
  the reason of an action are left out; tabs, profiles and the trail are the
  other modules'.
- Ready tasks come in one fixed order (`Order`); a quota may gate any subset of
  `Codex` in a tick.
- Reservations of several tasks are a set; which of two comes first is free.
- `done` stands for `done` and `cancelled`. Rows are never deleted, so the
  board's `NOT_FOUND` in `reconcile` does not occur.
- A worker that has a goal is `working` or `idle`. `bare` is a pane without
  an agent. `StartAgent` stands for the start, the dialog and the typed
  goal. A pane id is never used twice, as in Herdr.
- `Adopt` answers for its panes in any order; the code's order is Herdr's.
- `release` (`loop.go:745`), a backstop for holds the board no longer makes,
  is a no-op for the rows here and is not modelled. A store that cannot be
  read is not modelled either.
- There is a base pane. Without one the tick is not run at all, and nothing
  happens until one is adopted; `Pipeline` has how.

`Fleet` keeps of all this the task each pane was opened for (`work`), the panes
that live (those whose `agent` Herdr lists), the checkouts (`tree`) and the
task the daemon drives through each pane (the bindings' tasks). It says that a
worker is opened in a checkout of its own task with nobody else in it, is let
go of only once its pane or its daemon has ended, and that a checkout goes
only after everybody in it. Rows, prompts, reservations and the document are
the reasons, and not part of it.

Faults and interventions are constants, so that a run says which it allows.
`Faults`: a pane that will not close (`retire`), a checkout git will not
remove (`remove`), a board or Herdr call that fails (`board`, `herdr`), a
spawn step that fails (`spawn`), a prompt refused although the agent is there
(`flaky`), a sweep unanswered (`sweep`), a crash inside `Adopt` (`adopt`).
`Acts`: a door's dispatch, a rejection, a cancellation, a claim by another
pane or by a person, a release, an amendment, an agent's death, a pane closed
by hand, and `rebase`: the daemon comes back under another principal, so
`Adopt` drops the reservations of the old one.

### How `Doors` corresponds to the code

A member of `Daemon` is one life of the process, so a restart is another
member. Its record in `proc` has where `serve` and `Serve` are (`stage`), the
lock file it opened, whether the listener and the tick are up, the context,
the channels `halt` and `answered`, and the parked rows in the loop's memory.
`path` is what the two file names lead to; an inode is named after the daemon
that made it. `disk` has the persisted rows, one per call that may be parked.

| Code | Actions |
|---|---|
| `Lock`: open, then flock | `Opens`, `Locks`, `Refused` |
| `Adopt`, `Listen`, `Serve` up to its loop | `Adopts`, `AdoptFails`; `TickAdopts` for the retry |
| the goroutine that closes the listener | `Closes` |
| the tick's end | `TickEnds` |
| `Serve` after `Accept` fails | `AcceptFails`, `StopAnswered` |
| `Cleanup` and exit | `Drains`, `Leaves` |
| SIGTERM, SIGINT; the process killed | `Signal`, `Crash` |
| `client.dialOrStart` | `Dials`, `NotStarted`, `Autostarts`, `GivesUp` |
| `Serve`'s accept, then `answer`, `Handle`, `pass` | `Accepts`, `Denies`, `Park` |
| `serve` of the verbs | `Dispatches`, `DispatchFails`, `Stops` |
| `resolveParked`, `ClaimParked`, `FailParked` | `Rejects`, `Claims`, `ClaimFails`, `Reruns`, `RerunFails` |
| the answer written, `answered` closed | `Answers` |

A handler's goroutine stops at each point where another may come between: the
gate, the claim of a row, the verb, the answer. Abstractions:

- `Adopt` and `Listen` are one step: until the socket is there no door sees
  the daemon, and a crash between them differs from one before only inside
  `Adopt`, which is `Dispatcher`'s.
- `Cleanup`'s second unlink and the exit are one step. With `Straddles` FALSE
  no other start may have the lock file open and not yet locked at that step.
  With `Straddles` TRUE it may, and section 6 has what follows.
- Of `dispatch` only its save matters here, and that it may fail, which it
  does for sure once the context has ended if it needs the board.
- A caller that hangs up changes nothing: `answer` ignores a failed write.
- A store that cannot be read or written is not modelled.
- What a re-run carries (subject, scope, payload) is left out. The verbs that
  only read are left out, and `events` is `Trail`'s.

`Faults` again says what a run allows; `Scenarios` says what the calls ask for
and `Gate` what the gate may answer to each verb.

`Verdict` keeps the row of each action on disk, how often its verb was run
past the gate (`reruns`), and who holds the answer that it is parked (`told`).
There is one way from `none` over `parked` to `refused` or `resolved`, and from
there to one run; nothing takes a row back. Daemons, locks and connections are
not part of it.

### How `Trail` corresponds to the code

| Code | Actions |
|---|---|
| `emitLockedAs`: append, rotate, save, under the lock | `Emit` |
| `fire`, `Emitted`, `watchers.wake`, with the lock released | `Fire` |
| `stream` up to its loop, `watchers.add` | `Watch` |
| the read at the top of the loop, refused or not | `Read` |
| one event written, the limit counted down | `Write`; `Leave` when the connection is gone |
| the `select` | `Drained`, `Wake`, `Poll`, `Dismiss` |
| `events` without `--follow` | `ReadOnce` |
| the daemon's context ends; the process ends and the next one loads | `Stop`, `Restart` |

An event is its position in the order of appending. `Emit` and `Fire` are two
steps, because any other goroutine may come between the lock's release and the
hook, so wake-ups come late and in any order. The save in `Emit` may fail,
which the code logs and goes on from; a restart then finds an older trail, and
`log`, a ghost, loses what no document has. A consumer keeps the last event it
was handed and may resume from it, or ask anew; `got`, the other ghost, is what
it was handed since it last asked anew. Left out: what an event says, the hook's
process, an id that parses as a number (none does), a clock that runs
backwards, and a write to a connection that succeeds though nobody reads it.

`Feed` has `log` and `got` alone: events are published at the end, a crash takes
back the newest, a consumer begins anew or is handed more, never with a hole
and never after it was handed what the history has lost.

### How `Pipeline` corresponds to the code

| Code | Actions |
|---|---|
| `Run`, `place`: pane list, tab list, split or tab | `Spawn`, `List`, `LookForRoom`, `Split`, `SplitFails`, `Create`, `CreateFails` |
| `build`: the settings file, then the agent and its goal | `WriteSettings`, `Built` |
| `Retire`, `tabFor`, `Discard`, then the loop's `drop` | `Retire`, `Trace`, `ReadLabel`, `ClosePane`, `CloseTab`, `CloseFails` |
| `apply`'s unbind | `Unbind` |
| the process dies; `reconcile` and `Adopt` | `Restart`, `LetGo`, `RetireRestored`, `AdoptLost`, `Adopt` |
| `EnsureBase` on the tick or a door | `Ask`, `ListBase`, `TabsBase`, `AdoptBase` |
| the operator at the screen | `OpensPane`, `ClosesPane`, `DragsPane` |

One step is one call to Herdr, or what is done under a lock between two. `job`
is what the tick's goroutine holds from call to call: the lists it read
(`seen`), the tab and the pane it means. The ghosts `forTask` and `stray` say
what a pane was opened for, and which workers Herdr would not close or a crash
left behind.

- Panes and tabs are numbers in the order Herdr opens them. The code sorts
  pane ids as text, so its lowest is another one; nothing depends on which.
- Workspaces and the desk are left out: all is one workspace. What is typed
  into a pane and read off it is the three outcomes of `Built`.
- The refusals before a pane is opened change nothing and are not modelled.
- A restart comes back with any base: `--pane`, the environment or none.
- `AdoptBase` reads the bindings and takes the base in one step. No call comes
  between the two in the code.
- The model may look for a base more often than the tick does, and spawn and
  retire several workers between two looks.

### How `Routing` and `Layout` correspond to the code

A document is read (`Parse`), and a tick takes a ready list and what the proxy
reports (`Tick`); everything else is an operator named after its function:
`RouteProfile`, `ChainFollowable` for `checkFallbackChain`, `AtQuota` for
`QuotaRefusal`, `Walk` for `ChooseProfile`, `DoorRefuses` for the dispatch
verb's `quotaRefusal`, `ShareOut`, and `Spawns` for `Decide`'s last loop. Loops
are recursive functions. `ShareOut` alone is not a loop: the code takes a task
of each project in turn until all queues are empty, and `ShareOut` says which
place that gives a task. Its `Turn` is the round it is taken in, the number of
tasks of its project up to it; the round takes the projects in the order of
their `Foremost` task. The checks of `Parse` that only read text are the field
`sound`. The properties say what they should come to without
walking: sets of profiles reached, of bands, of tasks.

`Layout` has the two ladders of `config.go` as one function of the number of
panes, and next to them, in `Filled`, what Herdr makes of the splits, which the
code cannot see. `CapClearsFloors` compares the two.

## 3. The runs

Limits are 1 or 2 wherever a limit is compared, which is enough to have
"below", "at" and "one more". Deadlock is checked in every run of `Dispatcher`;
in the other modules everything may have stopped, or a bound is reached.

| Run | Instance | Shows |
|---|---|---|
| `fleet` | 2 tasks, 2 panes, `MaxWorkers` 1, doors, other claimers, failing board reads, one gated task, 1 crash | a spawn holds its reservation throughout (`SpawnIsReserved`); the document is the memory (`DiskIsMemory`); the fleet stays within its cap though doors and the tick count slots differently (`SpawnWithinCap`); an accepted dispatch is kept over a crash (`ReservationKept`) |
| `worker` | 1 task, 3 panes, limits 2, `Verify`, all faults but `retire`, all interventions but dispatch, 2 crashes anywhere | `OnePanePerTask`, `CheckoutOutlivesPane`, no worker after too many deaths (`NoWorkerAfterDeaths`), no streak without a binding (`StreakEndsWithBinding`); the dispatcher implements `Fleet` (`KeepsTheFleet`) |
| `live` | 1 task, 2 panes, limits 2, `Verify`, deaths, closed panes, cancellation, release, amendment, dispatch, 1 crash; fair | workers of ended tasks close (`FinishedWorkerEnds`), dead ones too (`DeadWorkerEnds`), submissions are announced (`SubmissionAnnounced`), an offered task is served (`OfferedIsServed`), a worker on a claimed task is always bound (`EveryWorkerIsDriven`), death counts outlive a restart (`DeathsKept`) |
| `doors` | 2 daemons, 3 calls: a dispatch and two resolves, or two dispatches and a stop; a gate that allows, denies or defers; failed starts, failed verbs, signals and crashes at any point; fair | one daemon at a time (`OneDaemon`) with the socket's path to it (`SocketLeads`); the daemons implement `Verdict` (`Decides`): a parked call runs at most once, after its decision is on disk, and is never forgotten; a stop has its answer (`StopIsAnswered`), and a stopped or signalled daemon is gone in the end (`StopEnds`) |
| `trail` | 1 consumer, 4 events in a trail of 2, 2 milliseconds, a limit of 2, failed saves, 1 restart | memory holds the newest of the history and the document a run of it (`TrailIsNewest`); the daemon implements `Feed` (`Promise`); a limit bounds the stream and not each read (`LimitBoundsTheStream`) |
| `followers` | 2 consumers, one of which may stop reading, 3 events in a trail of 2; fair | a dropped wake-up loses nothing (`NoLostWakeUp`), and every event in the trail reaches a follower that reads, without the ticker (`EventsReachFollowers`) |
| `pipeline` | 2 tasks of one number, 4 panes, 2 to a tab, 1 move of the operator's, 1 restart, every call failing | workers sit in their own task's tab (`WorkerInOwnTab`) and are accounted for (`NoWorkerUnaccounted`); settings files have an owner (`SettingsOwned`); the base is nobody's worker (`BaseIsNoWorker`) and stays while it lives (`LiveBaseStays`); a tab is not closed over anybody else (`TabCloseSpares`) |
| `routing` | every document of 4 profiles with a chain of any shape; 3 kinds of quota report on 2 accounts; every ready list of 4 tasks of 3 projects; floors, caps and percentages at their limits | `FirstEligible`, `DoorAgrees`, `FairShare`, `CapClearsFloors` |

Why these bounds: one task with three panes has a worker, its replacement, and
a third, which is what two deaths, two crashes and a half-built spawn need.
Two tasks with one slot is the least with competition for a slot. Every action
and every disjunct of `Next` occurs in some passing run. Panes are
symmetric, and symmetry is used in the runs without liveness. The number of
panes bounds the workers ever made; the model may run out of them
(`OpenFails`), and `OfferedIsServed` excuses that. In `doors` two lives are a
start that meets a live daemon, its teardown or what its crash left; two
resolves compete for one row; the theorems cover any number. In it the gate
does not defer a stop, because that is the run `hungstop`.

In `trail` one event more than the trail holds, twice over, is what it takes
for a consumer to fall behind the rotation while a read of it is still being
written; a restart after a failed save takes an event back that a consumer has.
One consumer is enough there, because consumers share nothing but the trail;
`followers` has two for what they could do to each other's wake-ups. In
`pipeline` two tasks of one number are the case in which one tab holds two
workers (numbers are unique to a board, not across boards), four panes are the
operator's, two workers and one more, and the theorems cover the rest; the
operator drags nothing out of the dispatcher's tabs there, because that is the
run `dragged`. In `routing` chains may have three profiles of four, so that
some are at the bound and some one over it; the search for a cap stops at 40
panes instead of 4096, past where both floors give out.

Every property of a passing run comes with a mutant: a definition with a
plausible slip (an operator next to it in the module, commented "seeded
fault") under which TLC finds the property violated.

### Fairness

`LiveSpec` assumes weak fairness of `Tick` (one goroutine on a ticker;
`Daemon.tick` runs the next tick after a failed one), of `DoorReserves` (a
call that has read the board goes on to take the lock), of `Start` (the
plugin, a service manager or a door's autostart brings the daemon back), of
the clock for each pane, and of the board's lease sweep for each task. Nothing
is assumed of workers, reviewers or operators: an agent may idle forever and a
review may never come. Which task or action the tick takes is not assumed
fair either, and section 6 has what follows.

`Doors!LiveSpec` assumes one weak fairness: a daemon that has something left
to do (a step of its start or teardown, a goroutine of a call) does not rest
for ever. The set as a whole is enough, because no such step can repeat for
ever, so none of them can keep another waiting.
Starts, clients, signals and crashes are not assumed to happen.

`Trail!FairSpec` assumes weak fairness of each goroutine past an append
(`Fire`), and of the steps of a stream whose consumer reads its connection
(`Read`, `Write`, `Drained`, `Wake`). A stalled consumer has none, because
`Encode` blocks; nor has the ticker, though the code runs one, so that
`EventsReachFollowers` shows wake-ups do without it.

## 4. The theorems

Each module's theorems rest on its named assumption about the constants and on
nothing else, unless a line below says so.

**`Dispatcher`**, from `ConstantsOK` (finite sets of tasks and panes, positive
limits), for every set of `Faults` and `Acts` but where a theorem assumes some
away. Each such assumption is needed: the property is false without it, by
the case named.

- `TypeCorrect`: `Spec => []TypeOK`. `TypeOK` is not inductive: an action
  applied at `drop` needs the pane in focus to be a pane. `TypeInv` adds
  `Midway`: where the focus `cur` points at each `pc`, that a streak reaches
  its limit only while its pane is being dropped, that a live pane was opened
  for a task, and that a daemon that is down is idle.
- `DocumentIsMemory`: `Spec => []DiskIsMemory`. It holds from the commit of
  an `Adopt` on, and every write to memory saves. The clock ages the two
  copies alike.
- `SpawnHoldsItsSlot`: `Spec => []SpawnIsReserved`, by `SlotInv`: every task
  on the tick's ready list or with a spawn not yet tried is unbound, none is
  tried twice, and the one being tried is reserved. Doors only add
  reservations; only the tick removes them and binds.
- `FleetWithinCap`: `Spec => SpawnWithinCap`. The cap is compared once, in
  `Decide`, on a copy of the bindings; the spawns it allows are made one by one
  long after. `CapInv` says what carries the count over: the bound workers for
  which no ending is planned, and the tasks still to be spawned for, are
  together at most `MaxWorkers`. That needs `PlanInv`: what is planned for one
  pane is one verdict of `Decide`, and only bound panes have one, so an ending
  that counted as a free slot is made before any spawn.
- `StreaksEnd`: `Spec => []StreakEndsWithBinding`, with `FreshInv`: a daemon
  that is down or has not reconciled holds nothing in memory.
- `DeathsRemembered`: `Spec => DeathsKept`, if `"adopt" \notin Faults` (else run
  `amnesia`). `DeathInv`: until a reconciliation ends, the document counts no
  more deaths than the survey that will replace it.
- `DispatchIsKept`: `Spec => ReservationKept`, under `Tidy`. A reservation is
  lost in three ways, and `Tidy` excludes each: one made while unadopted is
  replaced by the document's list (`"herdr"`, section 6), a crash inside
  `Adopt` loses the document (`"adopt"`), and another principal drops it
  (`"rebase"`, as the code means it to). `PromiseInv` then has that doors are
  served only after the start's `Adopt`, and that what is unreserved at the end
  of a spawn is bound.
- `NoMoreWorkers`: `Spec => []NoWorkerAfterDeaths`, if `"dispatch" \notin Acts`
  (else *a worker more than the deaths allow*, section 6). `HeldInv`: no
  reservation, in memory, on disk or in a survey, is for a task with too many
  deaths; what the tick holds back it holds back from; and a death is counted
  for a task that is neither reserved nor about to be spawned for.
- `OneWorker`, `CheckoutIsSafe`: if `"retire" \notin Faults` (else *a pane that
  would not close*, section 6), by `SoleInv`. A new pane is opened for a task
  only after `clearBranchHolder` found no live pane in its checkout, and
  nothing else opens panes; that is inductive only together with: each
  bound, planned or kept pane works for the task it is bound to; it is the
  only live pane that does; an unbind is planned only for a pane that is gone;
  between `prepare` and `open` nobody lives in the fresh checkout; and
  `StartInv`, which says the same of a reconciliation under way, and that its
  reap spares every checkout somebody is alive in. The proof has one lemma
  per action, over lemmas on what a step may change (`TickMoves`,
  `BindingsShrink`, `StartFollows`, ...).
- `WorkersAreDriven`: `Spec => []EveryWorkerIsDriven`, under `Steadfast`. A
  worker is left undriven by a pane that would not close (`"retire"`), by a
  reconciliation that could not read its row and lets it go (`"board"`), and by
  one that found a stranger's claim on its row, let it go, and saw the row given
  back to it (`"foreign"`); each of the three alone
  is enough. `DrivenInv`: every live pane is bound, in the hand of a spawn, or
  found or kept by a reconciliation; its row names nobody else; and a task a
  pane may yet be opened for is unclaimed and nobody is in its checkout.
- `FleetIsKept`: `Spec => KeepsTheFleet`, if `"retire" \notin Faults`: the
  refinement of `Fleet`. `CutCheckout` is its `Cut`, `OpenPane` its `Open`,
  `Bind` its `Bind`, what closes a pane an `End`, `FinishRetire` and
  `ApplyUnbind` a `Drop`, `DropCheckout` and `Reap` a `Clear`, `AdoptCommits`
  the `TakeBack`. Beside `SoleInv` it takes `SurveyInv`: no two panes a
  reconciliation has in hand work for one task, be they alive or not, so that
  it takes back one.

**`Doors`**, from `DoorsOK`, for any number of daemons, calls and scenarios and
with every fault; all but the last from `~Straddles` too (with `Straddles` the
first is false, run `twodaemons`), a deferred stop included:

- `OneAtATime`, `SocketAlwaysLeads`: by `LockInv`: whoever has the lock file
  open has the one its path leads to, one daemon at most holds it, and the one
  that listens is serving and has the socket's path. Every unlink falls while
  its daemon holds the lock, so no other daemon has anything to lose by it.
- `RunsOnce`, `ParkedAlwaysKept`: by `MemoryInv` (a daemon's rows are the
  document's once it has adopted, and none before) and `RowsInv`: a claimed row
  is one call's, decided and not run; one that has run can be claimed no more;
  a call that has not met the gate has no row. `MemoryInv` is where one daemon
  is needed: two of them would overwrite each other's rows.
  The two properties are not in a run of their own, because `Decides` has both.
- `VerdictIsKept`: `Spec => Decides`, the refinement of `Verdict`, from the same
  invariants (together `ParkedInv`). `Park` is the one step that writes a row
  and tells its caller at once; a resolver's claim is `Decide`, its verb's end
  `Run`; a connection that ends with its daemon is `Forget`.
- `DoorsTypeCorrect`: `TypeOK`, which needs `RunsOnce` for its bound on runs.
- `StopsAreAnswered`: `Spec => []StopIsAnswered`, straddling starts included, but
  `Undeferred`: the gate parks no stop. A parked stop is run by the call that
  resolves it; that run lets the process go on some other stop's answer, and
  the other then lacks its own (and run `hungstop`). `StopInv` follows the
  reason from step to step: a daemon stops listening for a signal or for a stop
  it let through, after a stop it does not leave before one of them has its
  answer, and a stop it drops is dropped for that. `UnparkedInv` keeps stops
  out of the parked rows.

**`Trail`**, from `TrailAssumption`, for any number of consumers, trail size,
limit, and bound on the events. All rest on one inductive invariant, `IInv`,
because what a consumer has read is right only relative to what the trail has
dropped since:

- `Recorded`: the trail is the newest end of the history, the document an
  end of what the history was at some save, the clock past both;
- `Handed`, for each consumer: what it holds has no hole, and the newest of it
  is where it will resume;
- `Streaming`: a stream reads on from what its consumer holds, and the batch
  it is writing has no hole either and begins there;
- `Counted`: events left to write and events written add up to the limit;
- `Alerted`: an event its consumer has not got is in the batch being written,
  or its hook has not fired yet, or a wake-up is waiting.

`TrailTypeCorrect`, `TrailStaysNewest`, `WakeUpsAreKept` and `LimitHolds`
follow from it. `FeedIsKept`: `Spec => Promise` is the refinement: an append
is `Feed`'s `Publish`, a restart that finds an older document its `Lose`, a
consumer that asks anew its `Begin`, a write its `Hand`, and every other step
changes neither history nor what anybody has. One lemma per action; the one on
`Write` is where `Streaming` is used.

**`Pipeline`**, from `PipelineAssumption`, for any number of tasks, panes,
panes to a tab, restarts and moves of the operator.

- `PipelineTypeCorrect`, `SettingsAreOwned`, `LiveBaseIsKept`: by `TInv`,
  `Typed` (what `job` holds at each of its steps) and `Owned` (a settings file
  is the pane's in hand or a binding's; a task being spawned is unbound; after
  a restart there is no file until the reconciliation is over).
- `WorkersInOwnTab`, `WorkersAccounted`, `BaseIsNobodys`, `TabsCloseAlone`:
  with `~Drags`, by `SInv`. The difficulty is that every decision is taken on
  lists that may be old. `Remembered` says in which sense they are good
  enough: what a list (of the job, of an asker, of the pipeline's own memory)
  says of a pane in one of the dispatcher's tabs is still true or the pane is
  gone. `Ages` is the reason: no step but the operator's drag moves a pane
  into or out of such a tab, and tasks and labels never change. `AtTab` carries
  the label from the list to the split; `Accounted` and `BaseFree` are the
  other two properties made inductive.

**`Routing`**, from `RoutingAssumption` and `DocumentAssumption`, for documents
of any number of profiles, any chains and bands, any quota and any priority. The
second says of a document what reading it ensures (numbers are numbers, no
profile has the empty name) and of a ready list that no task is on it twice,
which `snapshot` sees to for the reservations and the board for its rows.
`Parse` is the only step that changes the config, so `ConfigInv` (what `Parse`
lets through), `LayoutKept` (its cap and floor are those of the document) and
`TickInv` (the last tick was one of this config) are the invariants; the work
is in what the loops come to.

- `NearestEligible`: `Spec => []FirstEligible`. `RouteIsTop` has that a route
  is the top one of the bands that reach the priority, `ChainDown` that a
  document which was let through has chains that end within
  `MaxFallbackDepth`, and `WalkEnds` that the walk stops at the first profile
  that is not refused.
- `DoorsAgree`: `Spec => []DoorAgrees`. The dispatch verb looks only at tasks
  whose own profile is of the quota's kind; a walk that finds nothing has
  refused its first profile, so it is.
- `SharesAreKept`: `Spec => []FairShare`, for ready lists of any length. `Earlier`
  is a strict total order (`EarlierOrders`: two tasks of a project differ in
  their turns, two projects in their foremost task), so a task's place is a
  bijection (`PlacesDeal`). `SlotsFill` is the induction over `Decide`'s loop:
  every task that may launch got a slot or found none left, and where nothing is
  gated what was given is a prefix of the deal. Such a prefix is closed under
  `Earlier`, and that is all fairness needs: of a project with a task waiting,
  every turn before the waiting one's was given (`GivenAtLeast`), and of any
  other project no turn after it (`GivenAtMost`).
- `CapIsReadable`: `Spec => []CapClearsFloors`, for every window, floor, cost of
  a split and search ceiling. That every pane is at least the size the ladders
  say (`Covers`) is not inductive by itself: the second split of a generation
  halves a pane while the ladder stands still. `Covers` adds that the panes a
  generation has not come to yet have the size of its first rung, and
  `Generations` says where a generation begins and ends, from powers of two.
  `LadderBounds` then has that a smaller tab is never worse, so the cap's own
  rung bounds them all.
- `TypeCorrect`: `Spec => []TypeOK`. That a task's profile is defined is
  `AskedIsTop`; that what is given out are tasks is the range of the deal.

`Numbers` has the least and greatest elements the choice of a pane, a tab and
the newest event come down to, and two lemmas for walks: `Recursion`, that a
function defined by recursion up to a bound exists, and `Climb`, induction for
the members of a set. Both come from the least number that fails, so no
induction theorem with an operator for a parameter is needed. `Powers` are the
powers of two the grid's generations are told by.

So three abstract specifications are implemented, each checked by a run and
proved step by step: `Trail` has `Feed`, `Doors` has `Verdict`, `Dispatcher` has
`Fleet`.

All inductive invariants (`TypeInv`, `SlotInv`, `FreshInv`, `PlanInv`, `CapInv`,
`DeathInv`, `PromiseInv`, `HeldInv`, `SoleInv`, `DrivenInv`, `SurveyInv`,
`LockInv`, `MemoryInv`, `RowsInv`, `UnparkedInv`, `StopInv`, `IInv`, `TInv`,
`SInv`, `ConfigInv`, `LayoutKept`, `TickInv`) were run through TLC before they
were proved.

Only model-checked:

- all liveness (`FinishedWorkerEnds`, `DeadWorkerEnds`, `SubmissionAnnounced`,
  `OfferedIsServed`, `StopEnds`, `EventsReachFollowers`), which is out of the
  proof system's reach, as is anything with `ENABLED`. Every other property of
  a passing run is the statement of a theorem.

## 5. What to know of the design

Seen while modelling, and true of the model:

- `Adopt` may bind more than `MaxWorkers` workers; the cap is the tick's.
- A task claimed by a person (no pane) keeps a bound worker's slot.
- A refusal streak is not reset by seeing the agent at work, only by a prompt
  that lands or by the end of the binding.
- Owed sweeps are in memory only, and a claim whose pane went while the daemon
  was down is not swept; the board's lease ends it.
- A pane `Adopt` lets go is not driven again until the next start.
- A pane that closes while its task is in review is never announced.
- A `GiveUp` is decided on the row read at the start of the tick and applied
  seconds later: a worker that claims in between is retired as one that never
  claimed.
- A parked action is marked `resolved` before its verb runs, so that it never
  runs twice. A crash or a stop between the two leaves it `resolved`, never
  run, and in no list of what waits, though `store/parked.go:50` says of that
  state "and it ran".
- Of two stops at once, the second one's answer may be lost: the first
  answer written lets the process go.
- A door whose own child lost the lock reports a failure while the winner is
  still reconciling.
- The reap uses the pane list from before the reconciliation, so a finished
  task's checkout stays until the next start.
- The start-up `Adopt` ends before the doors listen; a retry, made by a tick,
  is raced by them.
- If closing a pane may fail, two live panes on one task are possible too, by
  the same cause as *a pane that would not close* in section 6.
- Settings files are known to the process that wrote them only. One whose
  worker outlives a restart is never removed (`spawn.go`, `Discard`).
- `Retire` removes the settings file before it closes the pane, so a crash
  between the two, or a close that fails, leaves a worker alive whose file is
  gone. What `Discard` forgets does not include the remembered tab.
- `tabFor` counts the panes of a tab and not whose they are. When the retired
  pane died by itself just before, the one pane left in its tab may be the
  other worker's, and closing the tab closes that. `TabCloseSpares` is about
  the case where the retired pane was listed.
- The pane a split is aimed at comes from a list; with drags allowed it may sit
  in an operator's tab by the time of the split, and the worker with it. Such
  a worker may be taken for the base once it is unbound.
- A new base may be taken from any tab that is not the dispatcher's; panes of
  workers are told by the bindings, so a worker no binding names is protected
  by its tab's label alone.
- Panes are split for the grid of a tab that only ever fills up; a worker that
  closed in the middle leaves another geometry, and the next split goes where
  the count says.
- A `max_panes_per_tab` given in the document is not compared with the floors;
  only a derived one is.
- With one slot free per tick, the first project with a ready task always gets
  it: `shareOut` begins at the first project every time. `FairShare` is about
  the slots of one tick.

## 6. Where the code and its comments disagree

Each of these has a run with `expect: violation` and a finding in
`PROJECT.json` with the lines on both sides.

| Run | What happens |
|---|---|
| `amnesia` | a crash inside a start's `Adopt`, after an event, leaves an empty document: deaths, reservations, parked actions and prompt counts are lost. One worker per task and the checkouts survive it, as `worker` and the theorems show |
| `hungstop` | a parked stop that is let through closes the listener and then waits for ever for the answer of a stop nobody waits for: the lock stays held, a signal no longer helps, and no daemon can start. A stop that is not parked ends, as `doors` shows |
| `twodaemons` | a start that opened the lock file just before a stopping daemon unlinked it holds a lock nobody else can see; the next start makes a new file and both drive the board. Without that overlap one daemon is proved (`OneAtATime`) |
| `dragged` | a worker the operator dragged into a tab of their own is not closed by its retire: the remembered tab is trusted over the listed one and closed with whatever is in it. What a restart puts back of that memory is as old |

Further departures, each of which the models have and a passing run leaves
out by its constants. Widening that run's constants as stated shows it.

- *A pane that would not close* (`loop.go:1648`; comments at `loop.go:1687`,
  `809`). `retire` drops the binding and removes the checkout although the
  pane lives. `CheckoutOutlivesPane` with `Faults` `{"retire"}`, one task, two
  panes.
- *A worker more than the deaths allow* (`dispatch.go:126`; comments at
  `store.go:58`, `dead.go:169`). A reservation made between the retire of a
  dead worker and the count of its death is served whatever the count.
  `NoWorkerAfterDeaths` with `Acts` `{"dispatch", "die"}`.
- *A dispatch accepted and forgotten* (`loop.go:300`; comment at
  `dispatch.go:15`). While unadopted a dispatch reserves in memory, and the
  `Adopt` that succeeds replaces the list by the document's.
  `ReservationKept` with `Faults` `{"herdr"}` and a restart.
- *A second submission in silence* (`decide.go:286`; comment at `decide.go:31`).
  Rejected and submitted again between two ticks, a task is not announced
  again. `SubmissionAnnounced` with `Acts` `{"reject"}`.
- *A task that starves the next* (`dispatch.go:378`; comment at
  `loop.go:1183`). A spawn that can never succeed loses its reservation, is
  ready again, comes first again, and keeps the last slot. A task in `Stuck`
  next to another that `OfferedIsServed` asks for.
- *A follower behind the rotation* (`store/events.go:76`; comment at `58`, "is
  handed every event as it is written, whatever the trail then does with it").
  A follower that writes slowly is refused at its next read and must begin
  anew. `Feed` promises no more than that.
- *One tab, one task* (`spawn.go:809`; comment at `763`). Tabs are told by
  task number, and tasks of two boards may share one. `Pipeline` has it so.

## 7. Not modelled, and the plan

To come, in order:

1. The spawn and retire steps of `Pipeline` shown to implement those of
   `Dispatcher`, by a small specification of a pane's life they both have.

Not modelled, and why: the command line, the MCP door and the protocol's
tables (`cli`, `mcpdoor`, `verbs`, `protocol`, `codes`), which keep no state
and render or parse; the reading of the document's text and the checks that
look at one field only (`config`), whose outcome is one Boolean of `Routing`;
the proxy's and git's process calls, whose outcomes are choices of the
modules; and the reading of a pane's text, likewise.
