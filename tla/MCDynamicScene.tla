--------------------------- MODULE MCDynamicScene ---------------------------
(***************************************************************************)
(* Small instances of DynamicScene: four cells, three obstacles.  "post"   *)
(* covers one cell; "wall" covers that cell and the one next to it;        *)
(* "shelf" covers the last cell, and check_box flags a second one for it.  *)
(***************************************************************************)
EXTENDS DynamicScene

MCCovers == [o \in Obstacle |-> CASE o = "post" -> {1} [] o = "wall" -> {0, 1} [] o = "shelf" -> {3}]
MCFlags == [MCCovers EXCEPT !["shelf"] = {2, 3}]
MCBlocks == [o \in Obstacle |-> IF o = "wall" THEN {"low"} ELSE {}]
MCScenes == {<<>>, <<"wall">>, <<"shelf", "post">>}
MCBatches == {<<"post", "shelf">>, <<"wall", "shelf">>}
=============================================================================
