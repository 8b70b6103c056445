---------------------------- MODULE MCStatements -----------------------------
(* Instances of Statements for TLC. Objects, handles, cells, texts and      *)
(* iterators are only told apart.                                           *)
EXTENDS Statements, TLC

Interchangeable ==
    Permutations(Objects) \cup Permutations(Handles) \cup Permutations(Cells)
    \cup Permutations(Texts) \cup Permutations(Iterators)
=============================================================================
