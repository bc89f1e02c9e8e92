----------------------------- MODULE MCServices -----------------------------
(***************************************************************************)
(* TLC instance of Services: two nodes in one level of the cluster, one in *)
(* another, and a level in between with none.                              *)
(***************************************************************************)
EXTENDS Services, TLC

CONSTANTS game1, game2, global1

MCNodes == {game1, game2, global1}
MCLevel == (game1 :> 1) @@ (game2 :> 1) @@ (global1 :> 3)
=============================================================================
