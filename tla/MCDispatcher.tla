---------------------------- MODULE MCDispatcher ----------------------------
(* Small instances of Dispatcher for TLC.                                  *)
EXTENDS Dispatcher, TLC

CONSTANTS t1, t2, p1, p2, p3

OneTask  == {t1}
TwoTasks == {t1, t2}
TwoPanes == {p1, p2}
ThreePanes == {p1, p2, p3}
BoardOrder == [t \in Task |-> IF t = t1 THEN 1 ELSE 2]
PaneSymmetry == Permutations(Pane)
=============================================================================
