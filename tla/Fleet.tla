------------------------------- MODULE Fleet -------------------------------
(***************************************************************************)
(* What the dispatcher promises of its workers, whatever fails, crashes or *)
(* races on the way: a worker is opened in a checkout of its own task that *)
(* nobody else is in, a task is driven through one pane at a time, a       *)
(* worker is let go of only when its pane has ended or its daemon has, and *)
(* a checkout goes only after everybody in it.                             *)
(*                                                                         *)
(* Nothing is said of when a worker is opened or ended, nor why: module    *)
(* Dispatcher shows the daemon implements this.                            *)
(***************************************************************************)
EXTENDS Naturals

CONSTANTS Tasks, Panes, NoTask

VARIABLES
  opened,    \* [Panes -> the task a pane was opened for, or NoTask before that]
  live,      \* the panes that have not ended since
  checkouts, \* tasks whose branch is checked out
  drives     \* [Panes -> the task the daemon drives through a pane, or NoTask]

fleetVars == <<opened, live, checkouts, drives>>

Inside(t) == {p \in live : opened[p] = t}
Through(t) == {p \in Panes : drives[p] = t}
Undriven == [p \in Panes |-> NoTask]

Init ==
  /\ opened = [p \in Panes |-> NoTask] /\ live = {}
  /\ checkouts = {}
  /\ drives = Undriven

Cut(t) ==
  /\ Inside(t) = {} /\ Through(t) = {}
  /\ checkouts' = checkouts \union {t}
  /\ UNCHANGED <<opened, live, drives>>

\* a pane is opened once
Open(p, t) ==
  /\ opened[p] = NoTask
  /\ t \in checkouts /\ Inside(t) = {} /\ Through(t) = {}
  /\ opened' = [opened EXCEPT ![p] = t] /\ live' = live \union {p}
  /\ UNCHANGED <<checkouts, drives>>

\* its worker may have ended since it was opened, but none came after it
Bind(p) ==
  /\ opened[p] # NoTask
  /\ Inside(opened[p]) \subseteq {p} /\ Through(opened[p]) = {}
  /\ drives' = [drives EXCEPT ![p] = opened[p]]
  /\ UNCHANGED <<opened, live, checkouts>>

End(p) ==
  /\ live' = live \ {p}
  /\ UNCHANGED <<opened, checkouts, drives>>

\* no worker is let go of while it lives; its checkout may go with it
Drop(p) ==
  /\ drives[p] # NoTask /\ Inside(drives[p]) = {}
  /\ drives' = [drives EXCEPT ![p] = NoTask]
  /\ checkouts' \in {checkouts, checkouts \ {drives[p]}}
  /\ UNCHANGED <<opened, live>>

\* the checkouts of failed spawns, and those nothing is bound in any more
Clear(S) ==
  /\ \A t \in S : Inside(t) = {} /\ Through(t) = {}
  /\ checkouts' = checkouts \ S
  /\ UNCHANGED <<opened, live, drives>>

Crash ==
  /\ drives' = Undriven
  /\ UNCHANGED <<opened, live, checkouts>>

\* a start takes back some of the workers it finds, one for a task
TakeBack ==
  /\ drives = Undriven
  /\ drives' \in [Panes -> Tasks \union {NoTask}]
  /\ \A p \in Panes : drives'[p] # NoTask =>
       drives'[p] = opened[p] /\ Inside(opened[p]) \subseteq {p}
  /\ \A p, q \in Panes : drives'[p] # NoTask /\ drives'[p] = drives'[q] => p = q
  /\ UNCHANGED <<opened, live, checkouts>>

Next ==
  \/ \E t \in Tasks : Cut(t)
  \/ \E p \in Panes : \/ \E t \in Tasks : Open(p, t)
                      \/ Bind(p) \/ End(p) \/ Drop(p)
  \/ \E S \in SUBSET Tasks : Clear(S)
  \/ Crash \/ TakeBack

Spec == Init /\ [][Next]_fleetVars
=============================================================================
