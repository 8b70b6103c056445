--------------------------- MODULE MCTransactions ---------------------------
(* Instances of Transactions for TLC. Savepoint names are strings; the     *)
(* default name of a level is the one tryRun builds for it.                *)
EXTENDS Transactions, TLC

\* tryRun is never given a name.
DefaultNames == <<{"sp1"}, {"sp2"}, {"sp3"}>>

\* The caller supplies names too, different ones at different levels.
CallerNames == <<{"sp1", "load"}, {"sp2", "step"}>>

=============================================================================
