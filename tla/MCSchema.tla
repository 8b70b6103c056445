------------------------------ MODULE MCSchema ------------------------------
(* Instances of Schema for TLC.                                            *)
EXTENDS Schema, TLC

CONSTANTS orders, items, byItem

OneIndex == byItem :> items

\* The index is registered after its table, and another table between them.
InOrder == <<items, orders, byItem>>

=============================================================================
