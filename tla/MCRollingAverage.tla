-------------------------- MODULE MCRollingAverage --------------------------
(* Instantiates RollingAverage for TLC; the constants are given in the      *)
(* RollingAverage_*.cfg files.                                              *)
EXTENDS RollingAverage, TLC

=============================================================================
