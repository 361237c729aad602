------------------------------- MODULE MCAStar -------------------------------
(* A flat pool for TLC: three by two inner cells, a wall across them, with  *)
(* and without a gap, and single blocks.                                    *)
EXTENDS AStar

Pool == <<5, 4>>
Roots == <<1000, 1414>>
Wall == {<<2, 1>>, <<2, 2>>}
Ends == {<<1, 1>>, <<3, 2>>, <<0, 1>>}
MCMaps == {Wall, {<<2, 1>>}, {<<1, 2>>}, {<<1, 2>>, <<2, 1>>}}
=============================================================================
