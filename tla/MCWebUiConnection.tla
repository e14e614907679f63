------------------------ MODULE MCWebUiConnection --------------------------
(* Model-checking instance of WebUiConnection.                             *)
EXTENDS WebUiConnection
=============================================================================
