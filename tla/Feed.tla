------------------------------- MODULE Feed --------------------------------
(***************************************************************************)
(* What the event trail promises a consumer, whatever happens inside the   *)
(* daemon: events are numbered in the order they were written, a consumer  *)
(* is handed them in that order, each at most once, and from its first one *)
(* on without a hole.  A crash may take back the newest events, those that *)
(* no save had written yet; a consumer that was already handed one of them *)
(* is handed nothing more until it begins anew.                            *)
(*                                                                         *)
(* Nothing is said of when an event is handed over, nor that a consumer    *)
(* may not be turned away: module Trail shows the daemon implements this.  *)
(***************************************************************************)
EXTENDS Naturals

CONSTANTS
  Followers,  \* the consumers
  Events      \* the numbers an event may have, natural numbers

VARIABLES
  log,   \* the events of the history, a set of numbers
  got    \* what each consumer was handed since it last began anew

feedVars == <<log, got>>

\* every event of the log between two of G is in G
Gapless(G, L) ==
  \A x \in L : (\E y \in G : y < x) /\ (\E z \in G : x < z) => x \in G

\* the newest event a consumer holds is one the history still has
Resumable(f) ==
  \/ got[f] = {}
  \/ \E y \in got[f] : y \in log /\ \A x \in got[f] : x <= y

Init ==
  /\ log = {}
  /\ got = [f \in Followers |-> {}]

Publish(e) ==
  /\ \A x \in log : x < e
  /\ \A f \in Followers : \A x \in got[f] : x < e
  /\ log' = log \union {e}
  /\ UNCHANGED got

Lose(n) ==
  /\ log' = {x \in log : x < n}
  /\ UNCHANGED got

\* a consumer that asks anew holds nothing from before
Begin(f, S) ==
  /\ S \subseteq log
  /\ Gapless(S, log)
  /\ got' = [got EXCEPT ![f] = S]
  /\ UNCHANGED log

Hand(f, S) ==
  /\ S \subseteq log
  /\ Resumable(f)
  /\ \A x \in got[f] : \A e \in S : x < e
  /\ Gapless(got[f] \union S, log)
  /\ got' = [got EXCEPT ![f] = @ \union S]
  /\ UNCHANGED log

Next ==
  \/ \E e \in Events : Publish(e)
  \/ \E n \in Events : Lose(n)
  \/ \E f \in Followers, S \in SUBSET log : Begin(f, S) \/ Hand(f, S)

Spec == Init /\ [][Next]_feedVars
=============================================================================
