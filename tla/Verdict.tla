------------------------------ MODULE Verdict ------------------------------
(***************************************************************************)
(* What a parked action is promised, whatever becomes of the daemons and   *)
(* doors that handle it: who is told that it is parked can rely on its row *)
(* being kept; it is decided once, one way, by one resolver; it is run     *)
(* only after the decision to run it is on record, and never twice.        *)
(*                                                                         *)
(* Nothing is said of when it is decided, nor that a decision to run it is *)
(* followed by the run: module Doors shows the daemon implements this.     *)
(***************************************************************************)
EXTENDS Naturals

CONSTANT Actions  \* what the gate may park

VARIABLES
  row,   \* [Actions -> what the document says of it]
  runs,  \* [Actions -> how often its verb was run past the gate]
  told   \* those whose caller was told that they are parked

verdictVars == <<row, runs, told>>

Init ==
  /\ row = [a \in Actions |-> "none"]
  /\ runs = [a \in Actions |-> 0]
  /\ told = {}

\* the row is on record before the caller is told
Park(a) ==
  /\ row[a] = "none"
  /\ row' = [row EXCEPT ![a] = "parked"]
  /\ told' = told \union {a}
  /\ UNCHANGED runs

\* one resolver wins
Decide(a, way) ==
  /\ row[a] = "parked"
  /\ row' = [row EXCEPT ![a] = way]
  /\ UNCHANGED <<runs, told>>

\* a failed verb is not run again: it may have had its effect
Run(a, end) ==
  /\ row[a] = "resolved" /\ runs[a] = 0
  /\ row' = [row EXCEPT ![a] = end]
  /\ runs' = [runs EXCEPT ![a] = 1]
  /\ UNCHANGED told

\* connections go with the daemon that held them
Forget(S) ==
  /\ told' = told \ S
  /\ UNCHANGED <<row, runs>>

Next ==
  \/ \E a \in Actions : \/ Park(a)
                        \/ \E way \in {"refused", "resolved"} : Decide(a, way)
                        \/ \E end \in {"resolved", "failed"} : Run(a, end)
  \/ \E S \in SUBSET told : Forget(S)

Spec == Init /\ [][Next]_verdictVars
=============================================================================
