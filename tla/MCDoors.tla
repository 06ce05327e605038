------------------------------ MODULE MCDoors ------------------------------
(* Small instances of Doors for TLC.                                       *)
EXTENDS Doors, TLC

CONSTANTS d1, d2, d3, c1, c2, c3

OneLife == {d1}
TwoLives == {d1, d2}
ThreeLives == {d1, d2, d3}

TwoCalls == {c1, c2}
ThreeCalls == {c1, c2, c3}

\* A dispatch and two people who resolve it, or two dispatches and a stop.
Mixed == {c1 :> "dispatch" @@ c2 :> "resolve" @@ c3 :> "resolve",
          c1 :> "dispatch" @@ c2 :> "dispatch" @@ c3 :> "stop"}
Deferred == {c1 :> "dispatch" @@ c2 :> "resolve" @@ c3 :> "stop"}
StopDeferred == {c1 :> "stop" @@ c2 :> "resolve"}

AnyDispatch == [dispatch |-> {"allow", "defer"}, stop |-> {"allow", "deny"}]
DefersDispatch == [dispatch |-> {"defer"}, stop |-> {"allow"}]
DefersStop == [dispatch |-> {"allow"}, stop |-> {"defer"}]
=============================================================================
