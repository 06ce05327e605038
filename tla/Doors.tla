------------------------------- MODULE Doors -------------------------------
(***************************************************************************)
(* The daemon as its doors meet it: the lock and the socket that elect     *)
(* one daemon (internal/daemon, cmd/hdis/serve.go), the calls its clients  *)
(* make and the autostart (internal/client), stop and the teardown, the    *)
(* policy gate (internal/gate) and the actions it parks (internal/loop,    *)
(* internal/store).                                                        *)
(*                                                                         *)
(* A daemon here is one life of the process: a restart is another member   *)
(* of Daemon.  A daemon has several goroutines: Serve, the one that closes *)
(* the listener, the tick, and one per accepted call.  What the tick does  *)
(* is the module Dispatcher; here it is the fact that it still runs.  Of   *)
(* the document only the parked actions are kept.  A crash inside Adopt,   *)
(* which Dispatcher studies, is left out.                                  *)
(***************************************************************************)
EXTENDS Naturals, FiniteSets

CONSTANTS
  Daemon,     \* lives of the daemon process
  Call,       \* calls a door makes
  Scenarios,  \* sets of [Call -> Verb]: what the calls ask for
  Gate,       \* [Gated -> SUBSET Decision]: what the policy gate may answer
  Faults,     \* see FaultKinds
  Straddles,  \* a start may open the lock file before a stop unlinks it
              \* and flock it after
  NoDaemon, NoCall

Verb == {"dispatch", "stop", "resolve"}
Gated == {"dispatch", "stop"}
Decision == {"allow", "deny", "defer"}
FaultKinds == {"signal",  \* SIGTERM or SIGINT
               "kill",    \* the process dies
               "adopt",   \* the start-up reconciliation fails
               "verb"}    \* a dispatch is refused or fails

ASSUME DoorsOK ==
  /\ IsFiniteSet(Daemon) /\ IsFiniteSet(Call)
  /\ Scenarios \subseteq [Call -> Verb] /\ Gate \in [Gated -> SUBSET Decision]
  /\ Faults \subseteq FaultKinds /\ Straddles \in BOOLEAN
  /\ NoDaemon \notin Daemon /\ NoCall \notin Call

VARIABLES
  asks,    \* [Call -> Verb]: the scenario
  proc,    \* [Daemon -> Process]
  path,    \* what the lock file's and the socket's paths lead to
  disk,    \* [Call -> RowState]: the parked rows of the persisted document
  call,    \* [Call -> a door's call, and the goroutine that answers it]
  reruns   \* history: how often the verb of a parked call was run

vars == <<asks, proc, path, disk, call, reruns>>

-----------------------------------------------------------------------------
(* Values.                                                                 *)

RowState == {"none", "parked", "resolved", "refused", "failed"}
Rows == [Call -> RowState]
NoRows == [c \in Call |-> "none"]

Stage == {"off", "opened", "locked", "serving", "answering", "draining",
          "leaving", "gone"}
Holding == {"locked", "serving", "answering", "draining",
            "leaving"}  \* the flock is held

Process == [stage : Stage,
            lock : Daemon \cup {NoDaemon},  \* the lock file opened, by creator
            listening : BOOLEAN, ticking : BOOLEAN,
            cancelled : BOOLEAN,            \* the context of Serve has ended
            halted : BOOLEAN,               \* halt is closed
            answered : BOOLEAN,             \* answered is closed
            adopted : BOOLEAN, rows : Rows, \* the loop's memory
            cut : BOOLEAN]                  \* history: signalled or killed

Unborn == [stage |-> "off", lock |-> NoDaemon, listening |-> FALSE,
           ticking |-> FALSE, cancelled |-> FALSE, halted |-> FALSE,
           answered |-> FALSE, adopted |-> FALSE, rows |-> NoRows,
           cut |-> FALSE]
\* Its memory goes with the process.
Gone(cut) == [Unborn EXCEPT !.stage = "gone", !.cut = cut]

At == {"asking", "waiting", "connected", "accepted", "claimed", "answering",
       "ended"}
InFlight == {"connected", "accepted", "claimed", "answering"}
Answer == {"none", "ok", "error", "parked", "absent", "lost"}

Door == [at : At, to : Daemon \cup {NoDaemon}, row : Call \cup {NoCall},
         said : Answer]
Unasked == [at |-> "asking", to |-> NoDaemon, row |-> NoCall,
            said |-> "none"]

Paths == [lock : Daemon \cup {NoDaemon}, socket : Daemon \cup {NoDaemon}]

TypeOK ==
  /\ asks \in Scenarios
  /\ proc \in [Daemon -> Process] /\ path \in Paths /\ disk \in Rows
  /\ call \in [Call -> Door] /\ reruns \in [Call -> 0..Cardinality(Call)]

\* One daemon's next state, and one call's.
Becomes(d, p) == proc' = [proc EXCEPT ![d] = p]
Moves(c, x) == call' = [call EXCEPT ![c] = x]

Init ==
  /\ asks \in Scenarios
  /\ proc = [d \in Daemon |-> Unborn]
  /\ path = [lock |-> NoDaemon, socket |-> NoDaemon]
  /\ disk = NoRows
  /\ call = [c \in Call |-> Unasked]
  /\ reruns = [c \in Call |-> 0]

-----------------------------------------------------------------------------
(* Coming up: serve, Lock, Adopt, Listen.                                  *)

\* os.OpenFile(O_CREATE): the file at the path, or a new one.  An inode is
\* named after the daemon that made it.
OpenedAnew(d) == d  \* seeded fault: the lock file is made anew by each start
Opened(d) == IF path.lock = NoDaemon THEN d ELSE path.lock

Opens(d) ==
  /\ proc[d].stage = "off"
  /\ Becomes(d, [proc[d] EXCEPT !.stage = "opened", !.lock = Opened(d)])
  /\ path' = [path EXCEPT !.lock = Opened(d)]
  /\ UNCHANGED <<disk, call, reruns>>

Locked(f) == \E e \in Daemon : proc[e].stage \in Holding /\ proc[e].lock = f

\* flock(LOCK_EX|LOCK_NB)
Locks(d) ==
  /\ proc[d].stage = "opened" /\ ~Locked(proc[d].lock)
  /\ Becomes(d, [proc[d] EXCEPT !.stage = "locked"])
  /\ UNCHANGED <<path, disk, call, reruns>>

\* ALREADY_RUNNING
Refused(d) ==
  /\ proc[d].stage = "opened" /\ Locked(proc[d].lock)
  /\ Becomes(d, Gone(FALSE))
  /\ UNCHANGED <<path, disk, call, reruns>>

Load(d) == [proc[d] EXCEPT !.adopted = TRUE, !.rows = disk]
Serve(p) == [p EXCEPT !.stage = "serving", !.listening = TRUE,
                      !.ticking = TRUE]

\* Adopt carries the parked actions over.  Listen then replaces a socket file
\* left behind, and Serve starts the tick: nothing here sees the difference.
Adopts(d) ==
  /\ proc[d].stage = "locked" /\ ~proc[d].cancelled
  /\ Becomes(d, Serve(Load(d)))
  /\ path' = [path EXCEPT !.socket = d]
  /\ UNCHANGED <<disk, call, reruns>>

\* Herdr cannot be asked; the daemon serves all the same.
AdoptFails(d) ==
  /\ proc[d].stage = "locked"
  /\ "adopt" \in Faults \/ proc[d].cancelled
  /\ Becomes(d, Serve(proc[d]))
  /\ path' = [path EXCEPT !.socket = d]
  /\ UNCHANGED <<disk, call, reruns>>

\* The tick tries again what Adopt could not do at the start.
TickAdopts(d) ==
  /\ proc[d].ticking /\ ~proc[d].adopted /\ ~proc[d].cancelled
  /\ Becomes(d, Load(d))
  /\ UNCHANGED <<path, disk, call, reruns>>

-----------------------------------------------------------------------------
(* Going down: Serve's end and Cleanup, a signal, a crash.                 *)

Signal(d) ==
  /\ "signal" \in Faults /\ proc[d].stage \in {"locked", "serving"}
  /\ Becomes(d, [proc[d] EXCEPT !.cancelled = TRUE, !.cut = TRUE])
  /\ UNCHANGED <<path, disk, call, reruns>>

\* Calls whose connection goes with what the process loses.
Drop(d, lost) ==
  [c \in Call |-> IF call[c].to = d /\ call[c].at \in lost
                  THEN [call[c] EXCEPT !.at = "ended", !.said = "lost"]
                  ELSE call[c]]

\* The goroutine that waits for either end.  Closing a unix listener also
\* unlinks the path it was bound to, by name.
Closes(d) ==
  /\ proc[d].listening
  /\ proc[d].cancelled \/ proc[d].halted
  /\ Becomes(d, [proc[d] EXCEPT !.cancelled = TRUE, !.listening = FALSE])
  /\ path' = [path EXCEPT !.socket = NoDaemon]
  /\ call' = Drop(d, {"connected"})
  /\ UNCHANGED <<disk, reruns>>

TickEnds(d) ==
  /\ proc[d].ticking /\ proc[d].cancelled
  /\ Becomes(d, [proc[d] EXCEPT !.ticking = FALSE])
  /\ UNCHANGED <<path, disk, call, reruns>>

\* Where Serve goes when Accept fails.
AfterAcceptAtOnce(d) == "draining"  \* seeded fault: no wait for the answer
AfterAcceptWaits(d) == "answering"  \* seeded fault: a signal waits for one too
AfterAccept(d) == IF proc[d].halted THEN "answering" ELSE "draining"

AcceptFails(d) ==
  /\ proc[d].stage = "serving" /\ ~proc[d].listening
  /\ Becomes(d, [proc[d] EXCEPT !.stage = AfterAccept(d)])
  /\ UNCHANGED <<path, disk, call, reruns>>

StopAnswered(d) ==
  /\ proc[d].stage = "answering" /\ proc[d].answered
  /\ Becomes(d, [proc[d] EXCEPT !.stage = "draining"])
  /\ UNCHANGED <<path, disk, call, reruns>>

\* Cleanup removes by name, the socket first.
RemovedLockFirst == <<"lock", "socket">>  \* seeded fault: the order swapped
Removed == <<"socket", "lock">>

\* The tick has ended: the first removal.
Drains(d) ==
  /\ proc[d].stage = "draining" /\ ~proc[d].ticking
  /\ Becomes(d, [proc[d] EXCEPT !.stage = "leaving"])
  /\ path' = [path EXCEPT ![Removed[1]] = NoDaemon]
  /\ UNCHANGED <<disk, call, reruns>>

\* The second removal and the end of the process, which releases the flock.
Leaves(d) ==
  /\ proc[d].stage = "leaving"
  /\ Straddles \/ \A e \in Daemon : proc[e].stage # "opened"
  /\ Becomes(d, Gone(proc[d].cut))
  /\ path' = [path EXCEPT ![Removed[2]] = NoDaemon]
  /\ call' = Drop(d, InFlight)
  /\ UNCHANGED <<disk, reruns>>

\* Both files stay behind.
Crash(d) ==
  /\ "kill" \in Faults /\ proc[d].stage \notin {"off", "gone", "locked"}
  /\ Becomes(d, Gone(TRUE))
  /\ call' = Drop(d, InFlight)
  /\ UNCHANGED <<path, disk, reruns>>

-----------------------------------------------------------------------------
(* A client's call up to the daemon.                                       *)

Reaches(d) == path.socket = d /\ proc[d].listening

Dials(c) ==
  /\ call[c].at \in {"asking", "waiting"}
  /\ \E d \in Daemon :
       /\ Reaches(d)
       /\ Moves(c, [call[c] EXCEPT !.at = "connected", !.to = d])
  /\ UNCHANGED <<proc, path, disk, reruns>>

\* NOT_RUNNING: stop never starts a daemon, nor does any door where a service
\* manager does.
NotStarted(c) ==
  /\ call[c].at = "asking" /\ \A d \in Daemon : ~Reaches(d)
  /\ Moves(c, [call[c] EXCEPT !.at = "ended", !.said = "absent"])
  /\ UNCHANGED <<proc, path, disk, reruns>>

\* The daemon it starts is one of those that Opens lets begin.
Autostarts(c) ==
  /\ call[c].at = "asking" /\ \A d \in Daemon : ~Reaches(d)
  /\ asks[c] # "stop"
  /\ Moves(c, [call[c] EXCEPT !.at = "waiting"])
  /\ UNCHANGED <<proc, path, disk, reruns>>

\* UNAVAILABLE: its child has exited, or the wait is over.
GivesUp(c) ==
  /\ call[c].at = "waiting"
  /\ Moves(c, [call[c] EXCEPT !.at = "ended", !.said = "absent"])
  /\ UNCHANGED <<proc, path, disk, reruns>>

Accepts(c) ==
  /\ call[c].at = "connected"
  /\ proc[call[c].to].stage = "serving" /\ proc[call[c].to].listening
  /\ Moves(c, [call[c] EXCEPT !.at = "accepted"])
  /\ UNCHANGED <<proc, path, disk, reruns>>

-----------------------------------------------------------------------------
(* The goroutine of one call: Handle, the gate, the verb, the answer.      *)

\* saveLocked: a daemon that has not reconciled writes nothing.
Save(d, rows) == IF proc[d].adopted THEN rows ELSE disk

\* The rows change in memory and, before the lock is given up, on disk.
Keeps(d, rows) == /\ Becomes(d, [proc[d] EXCEPT !.rows = rows])
                  /\ disk' = Save(d, rows)

Say(c, said) ==
  Moves(c, [call[c] EXCEPT !.at = "answering", !.said = said, !.row = NoCall])

GateSays(c, decision) ==
  /\ call[c].at = "accepted" /\ asks[c] \in Gated
  /\ decision \in Gate[asks[c]]

\* DENIED, and what any failure of the gate command comes to
Denies(c) ==
  /\ GateSays(c, "deny")
  /\ Say(c, "error")
  /\ UNCHANGED <<proc, path, disk, reruns>>

Park(c) ==
  /\ GateSays(c, "defer")
  /\ LET d == call[c].to IN
     IF proc[d].adopted
     THEN /\ Keeps(d, [proc[d].rows EXCEPT ![c] = "parked"])
          /\ Say(c, "parked")
     ELSE /\ Say(c, "error")
          /\ UNCHANGED <<proc, disk>>
  /\ UNCHANGED <<path, reruns>>

\* A dispatch reserves, which saves the document.
Dispatches(c) ==
  /\ GateSays(c, "allow") /\ asks[c] = "dispatch"
  /\ LET d == call[c].to IN disk' = Save(d, proc[d].rows)
  /\ Say(c, "ok")
  /\ UNCHANGED <<proc, path, reruns>>

DispatchFails(c) ==
  /\ GateSays(c, "allow") /\ asks[c] = "dispatch"
  /\ "verb" \in Faults \/ proc[call[c].to].cancelled
  /\ Say(c, "error")
  /\ UNCHANGED <<proc, path, disk, reruns>>

Stops(c) ==
  /\ GateSays(c, "allow") /\ asks[c] = "stop"
  /\ LET d == call[c].to IN Becomes(d, [proc[d] EXCEPT !.halted = TRUE])
  /\ Say(c, "ok")
  /\ UNCHANGED <<path, disk, reruns>>

\* ClaimParked: the one-winner check, and the row it leaves.
WaitingOrFailed(d, r) ==  \* seeded fault: what parked.list calls waiting
  proc[d].rows[r] \in {"parked", "failed"}
Waiting(d, r) == proc[d].rows[r] = "parked"

ClaimedByVerb(d, r, to) ==  \* seeded fault: the verb's name for the state's
  [proc[d].rows EXCEPT ![r] = IF to = "resolved" THEN "resolve" ELSE to]
Claimed(d, r, to) == [proc[d].rows EXCEPT ![r] = to]

\* The operator rejects a parked action.
Rejects(c, r) ==
  /\ call[c].at = "accepted" /\ asks[c] = "resolve"
  /\ LET d == call[c].to IN
     /\ Waiting(d, r)
     /\ Keeps(d, Claimed(d, r, "refused"))
  /\ Say(c, "ok")
  /\ UNCHANGED <<path, reruns>>

\* The operator lets it through: decided first, run after.
Claims(c, r) ==
  /\ call[c].at = "accepted" /\ asks[c] = "resolve"
  /\ LET d == call[c].to IN
     /\ Waiting(d, r)
     /\ Keeps(d, Claimed(d, r, "resolved"))
  /\ Moves(c, [call[c] EXCEPT !.at = "claimed", !.row = r])
  /\ UNCHANGED <<path, reruns>>

\* CONFLICT or NOT_FOUND
ClaimFails(c, r) ==
  /\ call[c].at = "accepted" /\ asks[c] = "resolve"
  /\ ~Waiting(call[c].to, r)
  /\ Say(c, "error")
  /\ UNCHANGED <<proc, path, disk, reruns>>

\* serve again, past the gate, with the parked call's verb
Reruns(c) ==
  /\ call[c].at = "claimed"
  /\ reruns' = [reruns EXCEPT ![call[c].row] = @ + 1]
  /\ LET d == call[c].to IN
     IF asks[call[c].row] = "stop"
     THEN Becomes(d, [proc[d] EXCEPT !.halted = TRUE]) /\ UNCHANGED disk
     ELSE disk' = Save(d, proc[d].rows) /\ UNCHANGED proc
  /\ Say(c, "ok")
  /\ UNCHANGED path

\* The verb fails: FailParked.
RerunFails(c) ==
  /\ call[c].at = "claimed" /\ asks[call[c].row] = "dispatch"
  /\ "verb" \in Faults \/ proc[call[c].to].cancelled
  /\ reruns' = [reruns EXCEPT ![call[c].row] = @ + 1]
  /\ LET d == call[c].to IN
     Keeps(d, [proc[d].rows EXCEPT ![call[c].row] = "failed"])
  /\ Say(c, "error")
  /\ UNCHANGED path

\* Whether writing this answer lets Serve go: it was a stop that asked.
EndsStop(c) == asks[c] = "stop" /\ call[c].said = "ok"

Answers(c) ==
  /\ call[c].at = "answering"
  /\ Moves(c, [call[c] EXCEPT !.at = "ended"])
  /\ LET d == call[c].to IN
     IF EndsStop(c) THEN Becomes(d, [proc[d] EXCEPT !.answered = TRUE])
                    ELSE UNCHANGED proc
  /\ UNCHANGED <<path, disk, reruns>>

-----------------------------------------------------------------------------
Start(d) == (Opens(d) \/ TickAdopts(d)) /\ UNCHANGED asks
Up(d) ==
  /\ Locks(d) \/ Refused(d) \/ Adopts(d) \/ AdoptFails(d)
  /\ UNCHANGED asks
Down(d) ==
  /\ \/ Closes(d) \/ TickEnds(d) \/ AcceptFails(d) \/ StopAnswered(d)
     \/ Drains(d) \/ Leaves(d)
  /\ UNCHANGED asks
Ended(d) == (Signal(d) \/ Crash(d)) /\ UNCHANGED asks
Client(c) ==
  /\ Dials(c) \/ NotStarted(c) \/ Autostarts(c) \/ GivesUp(c) \/ Accepts(c)
  /\ UNCHANGED asks
Resolve(c) == \E r \in Call : Rejects(c, r) \/ Claims(c, r) \/ ClaimFails(c, r)
Handle(c) ==
  /\ \/ Denies(c) \/ Park(c) \/ Dispatches(c) \/ DispatchFails(c) \/ Stops(c)
     \/ Resolve(c) \/ Reruns(c) \/ RerunFails(c) \/ Answers(c)
  /\ UNCHANGED asks

Next == \/ \E d \in Daemon : Start(d) \/ Up(d) \/ Down(d) \/ Ended(d)
        \/ \E c \in Call : Client(c) \/ Handle(c)

Spec == Init /\ [][Next]_vars

\* Daemons that have started do not all stop while one of their goroutines has
\* something to do.  Nothing is assumed of starts, clients and signals.
LiveSpec ==
  Spec /\ WF_vars(\/ \E d \in Daemon : Up(d) \/ Down(d)
                  \/ \E c \in Call : Handle(c))

-----------------------------------------------------------------------------
(* What should hold.                                                       *)

\* From its lock to the end of its tick a daemon spawns and saves.
Drives(d) == proc[d].stage \in Holding \ {"leaving"}

\* "One daemon per user" (serve.go:52): two daemons never drive the board at
\* once, whatever starts, stops and crashes come together.  It rests on the
\* flock, on who made the file it is taken on, and on who unlinks that file.
OneDaemon == \A d, e \in Daemon : Drives(d) /\ Drives(e) => d = e

\* The socket's path leads to the daemon that listens: no teardown, stale
\* file or late unlink of one life takes the path away from the next.
SocketLeads == \A d \in Daemon : proc[d].listening => path.socket = d

\* Refinement: the daemons and doors decide a parked call as Verdict promises,
\* over racing resolvers, failed verbs, lost answers, crashes and restarts
\* (ClaimParked, FailParked, resolveParked): decided once, run at most once and
\* after the decision is on disk, and whoever was told has its row.
V == INSTANCE Verdict WITH
       Actions <- Call, row <- disk, runs <- reruns,
       told <- {c \in Call : call[c].said = "parked"}
Decides == V!Spec

\* A parked call is run at most once, and only after the decision to run it
\* is on disk, whoever resolves it, how often, over however many restarts.  A
\* rejected one is never run.
OneRun ==
  \A r \in Call : /\ reruns[r] <= 1
                  /\ reruns[r] = 1 => disk[r] \in {"resolved", "failed"}

\* Whoever was told that a call is parked can rely on it (loop.Park): the row
\* is in the document from then on, also when a daemon that could not
\* reconcile serves and saves.
ParkedIsKept == \A c \in Call : call[c].said = "parked" => disk[c] # "none"

\* "leave after it, not during it" (daemon.go:142): a stop that a daemon took
\* has its answer, unless the daemon was signalled or killed, or another stop
\* had its answer first.
StopIsAnswered ==
  \A c \in Call :
    asks[c] = "stop" /\ call[c].said = "lost" =>
      \/ proc[call[c].to].cut
      \/ \E b \in Call \ {c} : /\ call[b].to = call[c].to
                               /\ asks[b] = "stop" /\ call[b].said = "ok"

\* "The daemon stops ticking, closes its socket, drops its lock and exits"
\* (verbs.go:113), "either way" (daemon.go:116): a daemon that lets a stop
\* through, or is signalled, is gone in the end, and the next one may start.
StopEnds ==
  \A d \in Daemon :
    proc[d].halted \/ proc[d].cancelled ~> proc[d].stage = "gone"
=============================================================================
