---------------------------- MODULE MCEsMiddleware ----------------------------
(* Instantiates EsMiddleware for TLC with requests as model values.         *)
EXTENDS EsMiddleware, TLC

CONSTANTS q1, q2

MCReqs == {q1, q2}


=============================================================================
