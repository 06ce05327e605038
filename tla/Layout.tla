------------------------------- MODULE Layout -------------------------------
(***************************************************************************)
(* How small the panes of a tab get as it fills up (config.go: the two     *)
(* ladders and the cap derived from them).  A pane is a record of its      *)
(* columns and rows; a tab is the sequence of its panes in the order they  *)
(* were opened, from which none has been closed.                           *)
(***************************************************************************)
EXTENDS Grid, Sequences, FiniteSetsExt

CONSTANTS
  WindowColumns,  \* MeasuredWindowColumns
  WindowRows,     \* MeasuredWindowRows
  SplitRowCost,   \* rows a downward split spends on chrome
  SearchCeiling   \* how many panes the derivation of the cap looks at

ASSUME LayoutAssumption ==
  /\ WindowColumns \in Nat /\ WindowRows \in Nat
  /\ SplitRowCost \in Nat
  /\ SearchCeiling \in Nat \ {0}

\* the first split of a generation, and it goes that way
Narrows(n, direction) ==
  Doublings(n).size = n /\ GridSplit(n).direction = direction

Ladder[n \in 1..SearchCeiling] ==
  IF n = 1 THEN [columns |-> WindowColumns, rows |-> WindowRows]
  ELSE LET above == Ladder[n - 1] IN
       [columns |-> IF Narrows(n - 1, "right")
                    THEN above.columns \div 2 ELSE above.columns,
        rows |-> IF ~Narrows(n - 1, "down") THEN above.rows
                 ELSE IF above.rows < SplitRowCost THEN 0
                 ELSE (above.rows - SplitRowCost) \div 2]

NarrowestColumns(n) == Ladder[n].columns
ShortestRows(n) == Ladder[n].rows

\* the largest count whose smallest pane clears both floors, at least one
MaxPanesClearing(columns, rows) ==
  Max({1} \union {n \in 1..SearchCeiling :
                    NarrowestColumns(n) >= columns /\ ShortestRows(n) >= rows})

----------------------------------------------------------------------------
(* What Herdr makes of the splits: the pane split and the new one share    *)
(* what it had, the odd column or row going to one of them.                *)

Halves(pane, direction) ==
  IF direction = "right"
  THEN << [pane EXCEPT !.columns = @ - @ \div 2], [pane EXCEPT !.columns = @ \div 2] >>
  ELSE LET left == IF pane.rows < SplitRowCost THEN 0 ELSE pane.rows - SplitRowCost IN
       << [pane EXCEPT !.rows = left - left \div 2], [pane EXCEPT !.rows = left \div 2] >>

Filled[n \in 1..SearchCeiling] ==
  IF n = 1 THEN << [columns |-> WindowColumns, rows |-> WindowRows] >>
  ELSE LET tab == Filled[n - 1]
           split == GridSplit(n - 1)
           halves == Halves(tab[split.target], split.direction)
       IN Append([tab EXCEPT ![split.target] = halves[1]], halves[2])
=============================================================================
