--------------------------- MODULE MCTileMosaic ----------------------------
(* Model-checking instance of TileMosaic: two frames, so that a tile can   *)
(* hold a chunk of an older frame while its neighbours show the newer one. *)
EXTENDS TileMosaic

MCMaxFrames == 2
=============================================================================
