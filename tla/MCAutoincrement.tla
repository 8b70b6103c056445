-------------------------- MODULE MCAutoincrement ---------------------------
(* Instances of AutoincrementIds for TLC.                                  *)
EXTENDS AutoincrementIds, TLC

DefaultNames == <<{"sp1"}, {"sp2"}>>

Interchangeable == Permutations(Things)
=============================================================================
