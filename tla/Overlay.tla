------------------------------ MODULE Overlay ------------------------------
(***************************************************************************)
(* Saved overwrites as the parser lays them over its cells: one cursor     *)
(* over the entries [row, col, val], which are sorted by row and column,   *)
(* that only moves forward as cells are asked for.                         *)
(***************************************************************************)
EXTENDS Process

\* zsv_have_overwrite: the cursor moves to the first entry that does not lie
\* before the cell (both zero-based).
Ahead(over, row, col) ==
    LET rest == {k \in DOMAIN over :
                   over[k].row > row \/ (over[k].row = row /\ over[k].col >= col)}
    IN  IF rest = {} THEN <<>> ELSE SubSeq(over, Min(rest), Len(over))

\* Whether the cursor stands at the cell.
StandsAt(over, row, col) ==
    over # <<>> /\ over[1].row = row /\ over[1].col = col
=============================================================================
