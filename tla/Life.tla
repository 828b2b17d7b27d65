-------------------------------- MODULE Life --------------------------------
(***************************************************************************)
(* What lab08 promises the viewer: the screen shows Conway's game of life  *)
(* on a bounded board, one whole generation after another.  A cell is its  *)
(* place in the row-by-row array, as in grid.c.                            *)
(***************************************************************************)
EXTENDS Naturals, FiniteSets

CONSTANTS Width, Height       \* both positive

VARIABLE screen

Cells == 0 .. Width * Height - 1
Row(c) == c \div Width
Col(c) == c % Width

Near(m, n) == m <= n + 1 /\ n <= m + 1
Neighbours(c) == {d \in Cells \ {c} : Near(Row(c), Row(d)) /\ Near(Col(c), Col(d))}
Alive(grid, c) ==
  LET n == Cardinality({d \in Neighbours(c) : grid[d]}) IN n = 3 \/ (grid[c] /\ n = 2)

Init == screen \in [Cells -> BOOLEAN]
Next == screen' = [c \in Cells |-> Alive(screen, c)]
Spec == Init /\ [][Next]_screen
=============================================================================
