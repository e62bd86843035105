-------------------------- MODULE MCGridPartition --------------------------
(***************************************************************************)
(* A small instance of GridPartition: two root copies of two by two cells  *)
(* side by side; a region may be a cell, overlap others, or straddle the   *)
(* grid.                                                                   *)
(***************************************************************************)
EXTENDS GridPartition

Box(a, b, c, d) == <<<<a, b>>, <<c, d>>>>
MCRoots == <<Box(0, 4, 0, 4), Box(4, 8, 0, 4)>>
A == Box(0, 2, 0, 2)
Big == Box(0, 4, 0, 4)
Far == Box(6, 8, 2, 4)
Odd == Box(1, 3, 2, 4)
MCRegions == {Big, Odd}
MCSweeps == {<<Big, A, Big>>, <<Box(2, 4, 0, 4), A, Far>>, <<A, Odd, Box(4, 6, 0, 2)>>,
             <<A, Box(0, 2, 2, 4), Box(2, 4, 0, 4)>>}
=============================================================================
