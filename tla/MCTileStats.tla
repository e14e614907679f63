---------------------------- MODULE MCTileStats ----------------------------
(* Model-checking instance of TileStats.                                   *)
EXTENDS TileStats
=============================================================================
