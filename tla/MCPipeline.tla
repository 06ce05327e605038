----------------------------- MODULE MCPipeline -----------------------------
(***************************************************************************)
(* Instances of Pipeline for TLC: two tasks, with numbers of their own or  *)
(* with the same number on two boards.                                     *)
(***************************************************************************)
EXTENDS Pipeline, TLC

CONSTANTS t1, t2

TwoTasks == {t1, t2}
SameNumber == [t \in TwoTasks |-> 7]
\* nothing tells two tasks of the same number apart
Alike == Permutations(TwoTasks)

OneTask == {t1}
OneNumber == [t \in OneTask |-> 7]
=============================================================================
