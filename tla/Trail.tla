------------------------------- MODULE Trail -------------------------------
(***************************************************************************)
(* The event trail and its followers (store/events.go, loop/events.go,     *)
(* daemon/events.go, client.Stream).                                       *)
(*                                                                         *)
(* An event is appended, rotated and saved under the loop's lock (Emit);   *)
(* later, with the lock released, the goroutine that wrote it runs the     *)
(* hook and wakes every follower (Fire), so wake-ups come in any order.  A *)
(* follower registers its channel, reads a copy of the trail under the     *)
(* lock, writes the events of the copy one by one, and waits for a         *)
(* wake-up, its ticker or the daemon's end.  A consumer whose stream ended *)
(* may come back and resume from the last event it was handed, to the same *)
(* daemon or to the next, which loaded the trail of the last save that     *)
(* succeeded.                                                              *)
(*                                                                         *)
(* An event is its position in the order of appending; ids, names and      *)
(* details are left out.  Two ghosts serve the properties: log, every      *)
(* event of the history (a crash takes the unsaved ones out), and got, what*)
(* a consumer was handed since it last asked from anywhere but its last    *)
(* event.                                                                  *)
(***************************************************************************)
EXTENDS Naturals, FiniteSets

CONSTANTS
  Followers,   \* consumers, each with at most one stream at a time
  Stalled,     \* those that may stop reading their connection
  MaxEvents,   \* how many events the trail keeps (store.MaxEvents)
  Queries,     \* what each may ask for: <<milliseconds, limit>>, 0 is none
  MaxWritten,  \* bound: events written
  MaxMS,       \* bound: the clock, in milliseconds
  MaxRestarts  \* bound: crashes, each followed by a start

ASSUME TrailAssumption ==
  /\ MaxEvents \in Nat \ {0}
  /\ MaxWritten \in Nat
  /\ MaxMS \in Nat
  /\ MaxRestarts \in Nat
  /\ Queries \in [Followers -> SUBSET (Nat \X Nat)]
  /\ Stalled \subseteq Followers

VARIABLES
  written,   \* how many events were ever written
  at,        \* the millisecond of each event
  now,       \* the daemon's clock
  trail,     \* Loop.events, the events in memory
  saved,     \* the events of the document on disk
  unfired,   \* events appended whose goroutine did not reach OnEvent yet
  stopping,  \* the daemon's context is done
  restarts,
  pc,        \* where a stream is: off, reading, writing or waiting
  since,     \* EventFilter.SinceID of the stream's next read, 0 for none
  sinceMS,   \* EventFilter.SinceMS of the stream's next read, 0 for none
  batch,     \* the events of the last read that are still to be written
  left,      \* how many more a limited stream may write
  limit,     \* the limit the stream was asked with
  woken,     \* whether the stream's channel holds a wake-up
  sent,      \* ghost: how many events the stream wrote
  last,      \* the last event the consumer was handed, 0 for none
  log,       \* ghost: the history
  got        \* ghost: what the consumer was handed since it began

trailVars  == <<written, at, now, trail, saved, unfired, log>>
daemonVars == <<stopping, restarts>>
askVars    == <<since, sinceMS, batch, left, limit, sent>>
heldVars   == <<last, got>>
streamVars == <<pc, askVars, woken>>
vars == <<trailVars, daemonVars, streamVars, heldVars>>

Events == 1..MaxWritten

----------------------------------------------------------------------------
(* The trail (store/events.go). *)

\* mutant: the bound keeps what came first
RotateOldest(S) == {e \in S : Cardinality({x \in S : x <= e}) <= MaxEvents}

\* the newest MaxEvents of a trail
Rotate(S) == {e \in S : Cardinality({x \in S : x >= e}) <= MaxEvents}

\* mutant: an id the trail does not hold is no filter
CarriesAny(S, id) == TRUE

\* a resumption from an event the trail no longer carries is refused
Carries(S, id) == id = 0 \/ id \in S

\* strictly after an event, strictly after a millisecond
Select(S, id, ms) == {e \in S : e > id /\ (ms = 0 \/ at[e] > ms)}

\* the oldest n of a selection, all of it where n is 0
Oldest(S, n) == {e \in S : n = 0 \/ Cardinality({x \in S : x <= e}) <= n}

Live(f) == pc[f] # "off"

\* mutant: a channel is registered only for the wait
WatchedWaiting(f) == pc[f] = "waiting"

\* the streams whose channel the watchers hold: for the whole stream
Watched(f) == Live(f)

\* mutant: the limit is looked at before it is counted down
ExhaustedLate(f) == limit[f] # 0 /\ left[f] = 0

\* mutant: the limit is forgotten
ExhaustedNever(f) == FALSE

\* the next event is the last a limited stream may write
Exhausted(f) == limit[f] # 0 /\ left[f] = 1

----------------------------------------------------------------------------
Init ==
  /\ written = 0
  /\ at = [e \in Events |-> 0]
  /\ now = 1
  /\ trail = {} /\ saved = {} /\ unfired = {} /\ log = {}
  /\ stopping = FALSE /\ restarts = 0
  /\ pc = [f \in Followers |-> "off"]
  /\ since = [f \in Followers |-> 0]
  /\ sinceMS = [f \in Followers |-> 0]
  /\ batch = [f \in Followers |-> {}]
  /\ left = [f \in Followers |-> 0]
  /\ limit = [f \in Followers |-> 0]
  /\ woken = [f \in Followers |-> FALSE]
  /\ sent = [f \in Followers |-> 0]
  /\ last = [f \in Followers |-> 0]
  /\ got = [f \in Followers |-> {}]

(* Writing. *)

\* emitLockedAs: append, rotate and save under the lock; the save may fail
Emit(ms, ok) ==
  LET e == written + 1 IN
  /\ written < MaxWritten
  /\ written' = e
  /\ now' = ms
  /\ at' = [at EXCEPT ![e] = ms]
  /\ trail' = Rotate(trail \union {e})
  /\ saved' = IF ok THEN trail' ELSE saved
  /\ unfired' = unfired \union {e}
  /\ log' = log \union {e}
  /\ UNCHANGED <<daemonVars, streamVars, heldVars>>

\* mutant: a wake-up waits for room in every follower's channel
FireWhenRoom(e) ==
  /\ e \in unfired
  /\ \A f \in Followers : ~woken[f]
  /\ unfired' = unfired \ {e}
  /\ woken' = [f \in Followers |-> Live(f)]
  /\ UNCHANGED <<written, at, now, trail, saved, log, daemonVars, pc, askVars,
                 heldVars>>

\* Emitted: the hook, then a wake-up for every follower, dropped where one
\* is already pending
Fire(e) ==
  /\ e \in unfired
  /\ unfired' = unfired \ {e}
  /\ woken' = [f \in Followers |-> woken[f] \/ Watched(f)]
  /\ UNCHANGED <<written, at, now, trail, saved, log, daemonVars, pc, askVars,
                 heldVars>>

(* Following. *)

\* what a consumer asks from: everything, a millisecond, or strictly after
\* the last event it was handed
Asks(f, id, ms) == id = 0 \/ (id = last[f] /\ ms = 0)

\* a consumer that asks from anywhere else begins anew
Hold(f, id) ==
  IF id = 0
  THEN last' = [last EXCEPT ![f] = 0] /\ got' = [got EXCEPT ![f] = {}]
  ELSE UNCHANGED heldVars

\* stream up to its loop: the channel is registered before the first read
Watch(f, id, ms, n) ==
  /\ ~Live(f) /\ ~stopping
  /\ Asks(f, id, ms)
  /\ Hold(f, id)
  /\ pc' = [pc EXCEPT ![f] = "reading"]
  /\ since' = [since EXCEPT ![f] = id]
  /\ sinceMS' = [sinceMS EXCEPT ![f] = ms]
  /\ left' = [left EXCEPT ![f] = n]
  /\ limit' = [limit EXCEPT ![f] = n]
  /\ sent' = [sent EXCEPT ![f] = 0]
  /\ woken' = [woken EXCEPT ![f] = FALSE]
  /\ UNCHANGED <<trailVars, daemonVars, batch>>

\* the stream is over: its channel leaves the watchers, its variables go
End(f) ==
  /\ pc' = [pc EXCEPT ![f] = "off"]
  /\ since' = [since EXCEPT ![f] = 0]
  /\ sinceMS' = [sinceMS EXCEPT ![f] = 0]
  /\ batch' = [batch EXCEPT ![f] = {}]
  /\ left' = [left EXCEPT ![f] = 0]
  /\ limit' = [limit EXCEPT ![f] = 0]
  /\ sent' = [sent EXCEPT ![f] = 0]
  /\ woken' = [woken EXCEPT ![f] = FALSE]

\* Loop.Events: one read of a copy of the trail; a read that is refused is
\* answered INVALID and ends the stream
Read(f) ==
  /\ pc[f] = "reading"
  /\ IF Carries(trail, since[f])
     THEN /\ batch' = [batch EXCEPT ![f] = Select(trail, since[f], sinceMS[f])]
          /\ pc' = [pc EXCEPT ![f] = "writing"]
          /\ UNCHANGED <<since, sinceMS, left, limit, sent, woken>>
     ELSE End(f)
  /\ UNCHANGED <<trailVars, daemonVars, heldVars>>

\* one event goes out, the next read resumes after it, and the last one of
\* a limited stream is followed by Done and ends it
Write(f) ==
  \E e \in batch[f] :
    /\ pc[f] = "writing"
    /\ \A x \in batch[f] : e <= x
    /\ last' = [last EXCEPT ![f] = e]
    /\ got' = [got EXCEPT ![f] = @ \union {e}]
    /\ \/ Exhausted(f) /\ End(f)
       \/ /\ ~Exhausted(f)
          /\ since' = [since EXCEPT ![f] = e]
          /\ sinceMS' = [sinceMS EXCEPT ![f] = 0]
          /\ batch' = [batch EXCEPT ![f] = @ \ {e}]
          /\ left' = [left EXCEPT ![f] = IF limit[f] = 0 THEN 0 ELSE @ - 1]
          /\ sent' = [sent EXCEPT ![f] = @ + 1]
          /\ UNCHANGED <<pc, limit, woken>>
    /\ UNCHANGED <<trailVars, daemonVars>>

\* the event cannot be written: the consumer went away
Leave(f) ==
  /\ pc[f] = "writing" /\ batch[f] # {}
  /\ End(f)
  /\ UNCHANGED <<trailVars, daemonVars, heldVars>>

Drained(f) ==
  /\ pc[f] = "writing" /\ batch[f] = {}
  /\ pc' = [pc EXCEPT ![f] = "waiting"]
  /\ UNCHANGED <<trailVars, daemonVars, askVars, woken, heldVars>>

Wake(f) ==
  /\ pc[f] = "waiting" /\ woken[f]
  /\ pc' = [pc EXCEPT ![f] = "reading"]
  /\ woken' = [woken EXCEPT ![f] = FALSE]
  /\ UNCHANGED <<trailVars, daemonVars, askVars, heldVars>>

\* the ticker: a read nobody asked for
Poll(f) ==
  /\ pc[f] = "waiting"
  /\ pc' = [pc EXCEPT ![f] = "reading"]
  /\ UNCHANGED <<trailVars, daemonVars, askVars, woken, heldVars>>

\* ctx.Done: the stream is answered Done, whatever was still to come
Dismiss(f) ==
  /\ pc[f] = "waiting" /\ stopping
  /\ End(f)
  /\ UNCHANGED <<trailVars, daemonVars, heldVars>>

\* `events` without --follow: one bounded read
ReadOnce(f, id, ms, n) ==
  /\ ~Live(f) /\ ~stopping
  /\ Asks(f, id, ms)
  /\ IF Carries(trail, id)
     THEN LET S == Oldest(Select(trail, id, ms), n) IN
          /\ got' = [got EXCEPT ![f] = IF id = 0 THEN S ELSE @ \union S]
          /\ \/ S = {} /\ last' = [last EXCEPT ![f] = id]
             \/ \E e \in S : (\A x \in S : x <= e) /\ last' = [last EXCEPT ![f] = e]
     ELSE UNCHANGED heldVars
  /\ UNCHANGED <<trailVars, daemonVars, streamVars>>

(* The daemon. *)

Stop ==
  /\ ~stopping
  /\ stopping' = TRUE
  /\ UNCHANGED <<trailVars, restarts, streamVars, heldVars>>

\* the process ends, however it ends, and the next one loads the document:
\* streams are cut, and what no save had written is gone
Restart ==
  /\ restarts < MaxRestarts
  /\ restarts' = restarts + 1
  /\ stopping' = FALSE
  /\ trail' = saved
  /\ log' = {x \in log : \E y \in saved : x <= y}
  /\ unfired' = {}
  /\ pc' = [f \in Followers |-> "off"]
  /\ since' = [f \in Followers |-> 0]
  /\ sinceMS' = [f \in Followers |-> 0]
  /\ batch' = [f \in Followers |-> {}]
  /\ left' = [f \in Followers |-> 0]
  /\ woken' = [f \in Followers |-> FALSE]
  /\ limit' = [f \in Followers |-> 0]
  /\ sent' = [f \in Followers |-> 0]
  /\ UNCHANGED <<written, at, now, saved, heldVars>>

Streams(f) ==
  \/ Read(f) \/ Write(f) \/ Drained(f) \/ Wake(f) \/ Poll(f) \/ Dismiss(f)

Consumer(f) ==
  \/ Leave(f)
  \/ \E id \in {0, last[f]}, q \in Queries[f] :
       Watch(f, id, q[1], q[2]) \/ ReadOnce(f, id, q[1], q[2])

Next ==
  \/ \E ms \in now..MaxMS, ok \in BOOLEAN : Emit(ms, ok)
  \/ \E e \in Events : Fire(e)
  \/ \E f \in Followers : Streams(f) \/ Consumer(f)
  \/ Stop
  \/ Restart

(* Goroutines run, and a consumer that is not stalled reads its connection. *)
(* The ticker is given no fairness: wake-ups alone must do.                 *)
Fairness ==
  /\ \A e \in Events : WF_vars(Fire(e))
  /\ \A f \in Followers \ Stalled :
       /\ WF_vars(Read(f)) /\ WF_vars(Write(f)) /\ WF_vars(Drained(f))
       /\ WF_vars(Wake(f))

Spec == Init /\ [][Next]_vars

FairSpec == Spec /\ Fairness

----------------------------------------------------------------------------
\* Everything has its type, and no event has a number not yet given.
TypeOK ==
  /\ written \in 0..MaxWritten
  /\ at \in [Events -> 0..MaxMS]
  /\ now \in 0..(MaxMS + 1)
  /\ trail \subseteq 1..written /\ saved \subseteq 1..written
  /\ unfired \subseteq 1..written /\ log \subseteq 1..written
  /\ stopping \in BOOLEAN /\ restarts \in 0..MaxRestarts
  /\ pc \in [Followers -> {"off", "reading", "writing", "waiting"}]
  /\ since \in [Followers -> 0..written]
  /\ sinceMS \in [Followers -> Nat]
  /\ batch \in [Followers -> SUBSET (1..written)]
  /\ left \in [Followers -> Nat] /\ limit \in [Followers -> Nat]
  /\ woken \in [Followers -> BOOLEAN]
  /\ sent \in [Followers -> Nat]
  /\ last \in [Followers -> 0..written]
  /\ got \in [Followers -> SUBSET (1..written)]

(* What a consumer is promised. *)
F == INSTANCE Feed WITH
       Followers <- Followers, Events <- Events, log <- log, got <- got

\* Refinement: the daemon and its followers implement the feed, across
\* rotation, dropped wake-ups, failed saves, crashes and resumptions
\* (store.Select, daemon.stream): no event of a stream, or of a chain of
\* resumed streams, is skipped or handed twice.
Promise == F!Spec

\* The limit bounds the stream and not each read of it (daemon.stream): a
\* follower is handed no more than it asked for, over however many reads,
\* and a stream that ends with an event handed exactly that many.
LimitBoundsTheStream ==
  [][\A f \in Followers :
       last'[f] # last[f] /\ Live(f) =>
         /\ limit[f] # 0 => sent[f] < limit[f]
         /\ pc'[f] = "off" => limit[f] = sent[f] + 1]_vars

\* What is in memory is always the newest of the history, never more than
\* MaxEvents of it, and what is on disk is a run of it with no hole
\* (store.Rotate, emitLockedAs): a restart may shorten the history but can
\* never leave a hole in it.
TrailIsNewest ==
  /\ Cardinality(trail) <= MaxEvents
  /\ trail \subseteq log /\ saved \subseteq log
  /\ \A x \in trail, y \in log : x < y => y \in trail
  /\ F!Gapless(saved, log)

\* A wake-up is never lost: while an event a stream has not read is in the
\* trail and its writer is past waking, the stream is not waiting without
\* a wake-up of its own (watchers.wake, stream): what is dropped is only a
\* second wake-up.
NoLostWakeUp ==
  \A f \in Followers : \A e \in Select(trail, since[f], sinceMS[f]) :
    pc[f] = "waiting" /\ e \notin unfired => woken[f]

\* Every event in the trail that a stream is yet to hand over is handed
\* over, unless rotation takes it first or the stream ends, by wake-ups
\* alone and whatever other consumers do with theirs (daemon.stream).
EventsReachFollowers ==
  \A f \in Followers \ Stalled, e \in Events :
    (Live(f) /\ e \in Select(trail, since[f], sinceMS[f]))
      ~> (e \in got[f] \/ ~Live(f) \/ e \notin trail)
=============================================================================
