----------------------------- MODULE AtomicRun -----------------------------
(***************************************************************************)
(* What Database::tryRun and Database::tryOutermost promise their caller   *)
(* (Database.h:75-139), with no word of savepoints: work is done inside    *)
(* nested runs, a run that returns keeps its changes, a run that throws    *)
(* leaves the contents exactly as it found them, and what the outermost    *)
(* run keeps is durable the moment it returns.                             *)
(***************************************************************************)
EXTENDS Integers, Sequences

CONSTANTS
    Rows            \* what the database can contain

VARIABLES
    contents,       \* the rows the connection reads
    stable,         \* the rows that survive the connection
    entered,        \* one element per open run: the contents it found
    failing         \* an exception is on its way out

avars == <<contents, stable, entered, failing>>

Depth == Len(entered)

Outer == SubSeq(entered, 1, Depth - 1)

AInit ==
    /\ contents = {}
    /\ stable = {}
    /\ entered = <<>>
    /\ failing = FALSE

\* A run begins and remembers what it found.
Enter ==
    /\ ~failing
    /\ entered' = Append(entered, contents)
    /\ UNCHANGED <<contents, stable, failing>>

\* Work inside a run is private to it; outside every run it is durable at once.
Work ==
    /\ ~failing
    /\ contents' \in SUBSET Rows
    /\ stable' = IF Depth = 0 THEN contents' ELSE stable
    /\ UNCHANGED <<entered, failing>>

\* An exception is thrown; somebody catches it. Neither changes anything.
Raise ==
    /\ ~failing
    /\ failing' = TRUE
    /\ UNCHANGED <<contents, stable, entered>>

Catch ==
    /\ failing
    /\ failing' = FALSE
    /\ UNCHANGED <<contents, stable, entered>>

\* The innermost run returns.
Keep ==
    /\ ~failing
    /\ Depth > 0
    /\ entered' = Outer
    /\ stable' = IF Depth = 1 THEN contents ELSE stable
    /\ UNCHANGED <<contents, failing>>

\* The innermost run throws, because its body did or its own commit failed;
\* or it is rolled back by hand and returns.
Undo ==
    /\ Depth > 0
    /\ entered' = Outer
    /\ contents' = entered[Depth]
    /\ failing' \in BOOLEAN
    /\ failing => failing'
    /\ UNCHANGED stable

ANext == Enter \/ Work \/ Raise \/ Catch \/ Keep \/ Undo

ASpec == AInit /\ [][ANext]_avars
=============================================================================
