------------------------------ MODULE MCTrail ------------------------------
(***************************************************************************)
(* Instances of Trail for TLC: one consumer that asks in every way, and    *)
(* two consumers, one of which may stop reading its connection.            *)
(***************************************************************************)
EXTENDS Trail, TLC

CONSTANTS f1, f2

OneFollower == {f1}
NobodyStalls == {}
EveryQuery == f1 :> {<<0, 0>>, <<0, 2>>, <<1, 0>>}

TwoFollowers == {f1, f2}
SecondStalls == {f2}
WholeFeed == [f \in TwoFollowers |-> {<<0, 0>>}]
=============================================================================
