-------------------------------- MODULE MCWebUi --------------------------------
(* Model-checking instance of WebUi.                                       *)
EXTENDS WebUi
=============================================================================
