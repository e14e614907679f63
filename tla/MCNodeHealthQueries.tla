------------------------ MODULE MCNodeHealthQueries ------------------------
(* Model-checking instance of NodeHealthQueries.                           *)
EXTENDS NodeHealthQueries
=============================================================================
