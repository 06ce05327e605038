-------------------------------- MODULE Grid --------------------------------
(***************************************************************************)
(* The placement rule inside a tab (config.GridSplit): panes are added in  *)
(* generations, each twice the size of the one before, and every pane of a *)
(* generation splits the pane as far into the ones before it.              *)
(***************************************************************************)
EXTENDS Naturals

\* how many doublings deep the pane after n panes is, and what they come to
Doublings(n) ==
  LET doubled[k \in 0..n] ==
        IF k = 0 THEN [generation |-> 0, size |-> 1]
        ELSE LET g == doubled[k - 1] IN
             IF g.size * 2 > n THEN g
             ELSE [generation |-> g.generation + 1, size |-> g.size * 2]
  IN doubled[n]

\* which of n panes the next one is split off, and which way
GridSplit(n) ==
  LET last == Doublings(n) IN
  [target |-> n + 1 - last.size,
   direction |-> IF last.generation % 2 = 0 THEN "right" ELSE "down"]
=============================================================================
