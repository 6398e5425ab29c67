------------------------------- MODULE MCTile -------------------------------
(* Two signals of five samples and one of none, over blocks of two: three  *)
(* blocks, the last of them half full, and a halo that reaches into the    *)
(* block before.  Filters that fit, an empty one, one too long.            *)
EXTENDS Tile

TwoAndAnEmptyOne == <<<<1, -2, 4, 0, 3>>, <<2, 5, -1, 1, 7>>, <<>>>>
SomeFilters == {<<>>, <<3>>, <<2, -1>>, <<1, 1, 1>>}
=============================================================================
