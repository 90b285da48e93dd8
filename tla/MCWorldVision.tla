----------------------------- MODULE MCWorldVision -----------------------------
(* A strip of six cells, of which four can be entered.  Two zones meet in the  *)
(* middle of the third cell; a sector begins where that cell begins.           *)
EXTENDS WorldVision

At(i) == [x |-> i, y |-> 3]
SmallZones == {[type |-> "Town", minX |-> 3, minY |-> 3, maxX |-> 7, maxY |-> 7],
               [type |-> "Pvp", minX |-> 7, minY |-> 0, maxX |-> 18, maxY |-> 9]}
SmallWorld == [minX |-> 0, minY |-> 0, maxX |-> 18, maxY |-> 9]
SmallWalkable == [x : 1 .. 4, y : {1}]

\* All players are spawned at 5, 5.  One position on the other side of all borders
\* and within sight of it, one out of sight of both, and one below the world but
\* cast to a cell.
SmallPoints == {At(7), At(12), At(-1)}
=============================================================================
