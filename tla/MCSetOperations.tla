--------------------------- MODULE MCSetOperations --------------------------
(* Instances of SetOperations for TLC: all its constants are sets and      *)
(* numbers, given in the configurations.                                   *)
EXTENDS SetOperations, TLC
=============================================================================
