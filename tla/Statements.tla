----------------------------- MODULE Statements ------------------------------
(***************************************************************************)
(* Statement objects used directly (Statement.h, Statement.cpp), with the  *)
(* iterators and scalar queries over them (Iterator.h,                     *)
(* HeterogeneousIterator.h, Scalar.h).                                     *)
(*                                                                         *)
(* A Statement owns a prepared statement of the engine and the converted   *)
(* values its parameters point to; texts and blobs are bound without a     *)
(* copy, so that the engine reads the caller's memory, or such a saved     *)
(* value, when it steps. Objects are moved, iterators hold a pointer to    *)
(* the object. At stake: who owns what, and what a step reads.             *)
(*                                                                         *)
(* What the code leaves to its user is here as rules, the guards named     *)
(* May... and Unwatched; the values that calls return are left out.        *)
(***************************************************************************)
EXTENDS Integers, Sequences

CONSTANTS
    Objects,        \* the Statement objects of a program
    Handles,        \* bound: the statements the engine has prepared at a time
    Columns,        \* the number of parameters of a query
    Texts,          \* the caller's own texts and blobs
    Cells,          \* bound: the heap cells (Any) for converted values
    Iterators,
    Null            \* a null pointer; a parameter that points to nothing

ASSUME StatementsAssumption ==
    /\ Columns \in Nat
    /\ Null \notin Objects \cup Handles \cup Texts \cup Cells
    /\ Texts \cap Cells = {}

VARIABLES
    object,         \* Statement: m_stmt, usedValues, freeValues
    prepared,       \* the engine: what it keeps for each prepared statement
    iterator,       \* Iterator: m_s of its HeterogeneousIterator, and m_v
    alive           \* FALSE once std::terminate has been called

vars == <<object, prepared, iterator, alive>>

Params == 1..Columns

\* fresh, spoiled and byHand are history: the parameters bound or cleared
\* since the last execution began; those whose text was overwritten or freed
\* since they were bound; and whether the statement was stepped with Next or
\* select and not reset since.
Prepared == [phase : {"ready", "row", "done", "failed"}, bound : [Params -> Texts \cup Cells \cup {Null}],
             fresh : SUBSET Params, spoiled : SUBSET Params, byHand : BOOLEAN]

Finalized == [phase |-> "finalized"]

TypeOK ==
    /\ object \in [Objects -> [m_stmt : Handles \cup {Null}, usedValues : Seq(Cells), freeValues : Seq(Cells)]]
    /\ prepared \in [Handles -> Prepared \cup {Finalized}]
    /\ iterator \in [Iterators -> [m_s : Objects \cup {Null}, m_v : BOOLEAN]]
    /\ alive \in BOOLEAN

Init ==
    /\ object = [o \in Objects |-> [m_stmt |-> Null, usedValues |-> <<>>, freeValues |-> <<>>]]
    /\ prepared = [h \in Handles |-> Finalized]
    /\ iterator = [i \in Iterators |-> [m_s |-> Null, m_v |-> FALSE]]
    /\ alive = TRUE

-----------------------------------------------------------------------------
(* Rules for the user.                                                     *)

Isopen(o) == object[o].m_stmt # Null

Handle(o) == prepared[object[o].m_stmt]

\* An object is neither moved, closed nor used by hand under its iterator,
\* which keeps a pointer to it and shares its statement.
Unwatched(o) == \A i \in Iterators : iterator[i].m_s # o

ByHand(o) == alive /\ Isopen(o) /\ Unwatched(o)

\* A step that begins an execution comes after all parameters were bound, or
\* cleared, anew.
MayStep(s) == s.phase = "row" \/ s.fresh = Params

\* Where a statement begins to deliver records it is not in the middle of others.
MayIterate(o) == ByHand(o) /\ Handle(o).phase = "ready" /\ MayStep(Handle(o))

\* "The caller must keep val alive until the statement is executed"
\* (Statement.h:117), and while it is on a row.
InUse(s, p) == p \in s.fresh \/ s.phase = "row"

Pointing(s, x) == IF s = Finalized THEN {} ELSE {p \in Params : s.bound[p] = x}

MayChange(t) == \A h \in Handles : \A p \in Pointing(prepared[h], t) : ~InUse(prepared[h], p)

-----------------------------------------------------------------------------
(* The life of a Statement.                                                *)

Fresh == [phase |-> "ready", bound |-> [p \in Params |-> Null], fresh |-> {},
          spoiled |-> {}, byHand |-> FALSE]

\* Opening an open object would lose its handle. When sqlite3_prepare fails
\* the object stays closed.
open(o) ==
    /\ alive /\ ~Isopen(o)
    /\ \E h \in Handles :
         /\ prepared[h] = Finalized
         /\ object' = [object EXCEPT ![o].m_stmt = h]
         /\ prepared' = [prepared EXCEPT ![h] = Fresh]
    /\ UNCHANGED <<iterator, alive>>

\* The saved values stay.
close(o) ==
    /\ ByHand(o)
    /\ object' = [object EXCEPT ![o].m_stmt = Null]
    /\ prepared' = [prepared EXCEPT ![object[o].m_stmt] = Finalized]
    /\ UNCHANGED <<iterator, alive>>

\* Cells go back to the heap. Values that were saved and not executed trip the
\* assertion in clearFreeValues, or, in a release build, are lost.
destroy(o) ==
    /\ alive /\ Unwatched(o)
    /\ object' = [object EXCEPT ![o] = [m_stmt |-> Null, usedValues |-> <<>>, freeValues |-> <<>>]]
    /\ prepared' = [h \in Handles |-> IF h = object[o].m_stmt THEN Finalized ELSE prepared[h]]
    /\ UNCHANGED <<iterator, alive>>

\* Mutants: the other object keeps its handle; it keeps its values.
MoveKeepsHandle(o, other) ==
    /\ alive /\ o # other /\ Unwatched(o) /\ Unwatched(other) /\ ~Isopen(o)
    /\ object' = [object EXCEPT ![o] = object[other], ![other].usedValues = <<>>, ![other].freeValues = <<>>]
    /\ UNCHANGED <<prepared, iterator, alive>>

MoveForgetsValues(o, other) ==
    /\ alive /\ o # other /\ Unwatched(o) /\ Unwatched(other) /\ ~Isopen(o)
    /\ object' = [object EXCEPT ![o].m_stmt = object[other].m_stmt, ![other].m_stmt = Null]
    /\ UNCHANGED <<prepared, iterator, alive>>

\* The move constructor, and the move assignment, which does not close what it
\* overwrites: o is new or closed, and not the other.
Move(o, other) ==
    /\ alive /\ o # other /\ Unwatched(o) /\ Unwatched(other) /\ ~Isopen(o)
    /\ object' = [object EXCEPT ![o] = object[other],
                                ![other] = [m_stmt |-> Null, usedValues |-> <<>>, freeValues |-> <<>>]]
    /\ UNCHANGED <<prepared, iterator, alive>>

-----------------------------------------------------------------------------
(* Binding.                                                                *)

\* Mutant: the parameter has the number of the column.
from0To1Same(col) == col

from0To1(col) == col + 1

\* Whoever points to x now points to something else.
Spoil(x) == [h \in Handles |->
    IF prepared[h] = Finalized THEN Finalized
    ELSE [prepared[h] EXCEPT !.spoiled = @ \cup Pointing(prepared[h], x)]]

\* A statement can be bound only when it is ready; otherwise Checkbind throws.
Bind(o, col, x, before) ==
    LET h == object[o].m_stmt
        p == from0To1(col) IN
    prepared' = IF prepared[h].phase # "ready" THEN before
                ELSE [before EXCEPT ![h].bound[p] = x, ![h].fresh = @ \cup {p}, ![h].spoiled = @ \ {p}]

\* bindNull, bindInt, bindInt64, bindDouble: the engine keeps the value itself.
bindCopied(o, col) ==
    /\ ByHand(o)
    /\ Bind(o, col, Null, prepared)
    /\ UNCHANGED <<object, iterator, alive>>

\* bindText, bindBlob.
bindText(o, col, t) ==
    /\ ByHand(o)
    /\ Bind(o, col, t, prepared)
    /\ UNCHANGED <<object, iterator, alive>>

\* The cells of an object; those that are new to the heap.
Held(o) == object[o].usedValues \o object[o].freeValues

Unallocated == {c \in Cells : \A o \in Objects : \A n \in DOMAIN Held(o) : Held(o)[n] # c}

\* Mutant: the cell goes back to the free ones before the execution.
saveOnFreeList(o, c) ==
    IF object[o].freeValues = <<>>
    THEN /\ c \in Unallocated
         /\ object' = [object EXCEPT ![o].freeValues = <<c>>]
    ELSE /\ c = object[o].freeValues[Len(object[o].freeValues)]
         /\ UNCHANGED object

\* Statement::saveConvertedValue: a free cell is written again.
saveConvertedValue(o, c) ==
    IF object[o].freeValues = <<>>
    THEN /\ c \in Unallocated
         /\ object' = [object EXCEPT ![o].usedValues = Append(@, c)]
    ELSE /\ c = object[o].freeValues[Len(object[o].freeValues)]
         /\ object' = [object EXCEPT ![o].usedValues = Append(@, c),
                                     ![o].freeValues = SubSeq(@, 1, Len(@) - 1)]

\* A bind that saves its converted value. While the statement is on a row the
\* values it was executed with are free already (clearUsedValues): saving would
\* overwrite one before the bind is refused.
bindConverted(o, col) ==
    /\ ByHand(o)
    /\ Handle(o).phase # "row"
    /\ \E c \in Cells :
         /\ saveConvertedValue(o, c)
         /\ Bind(o, col, c, Spoil(c))
    /\ UNCHANGED <<iterator, alive>>

\* The caller changes or frees a text of its own.
Overwrite(t) ==
    /\ alive
    /\ MayChange(t)
    /\ prepared' = Spoil(t)
    /\ UNCHANGED <<object, iterator, alive>>

-----------------------------------------------------------------------------
(* Executing.                                                              *)

\* Every step sets the saved values free.
clearUsedValues(o) ==
    object' = [object EXCEPT ![o].freeValues = @ \o object[o].usedValues, ![o].usedValues = <<>>]

\* sqlite3_step goes on from a row and starts anew from anywhere else.
Stepped(s, to) == [s EXCEPT !.phase = to, !.fresh = IF s.phase = "row" THEN @ ELSE {}]

Outcomes == {"row", "done", "failed"}

\* sqlite3_reset, also of a failed statement, whose error it returns once more.
Reset(s) == [s EXCEPT !.phase = "ready", !.byHand = FALSE]

Cleared(s) == [s EXCEPT !.bound = [p \in Params |-> Null], !.fresh = Params, !.spoiled = {}]

Becomes(o, s) == prepared' = [prepared EXCEPT ![object[o].m_stmt] = s]

\* Next throws when the step failed; so does select unless it is done.
Next(o) ==
    /\ ByHand(o) /\ MayStep(Handle(o))
    /\ \E to \in Outcomes : Becomes(o, [Stepped(Handle(o), to) EXCEPT !.byHand = TRUE])
    /\ clearUsedValues(o)
    /\ UNCHANGED <<iterator, alive>>

select(o) == Next(o)

\* Mutant: only a successful execution is reset.
execResetsOnSuccess(o) ==
    /\ ByHand(o) /\ MayStep(Handle(o))
    /\ \E to \in Outcomes : Becomes(o, IF to = "done" THEN Reset(Stepped(Handle(o), to))
                                                     ELSE Stepped(Handle(o), to))
    /\ clearUsedValues(o)
    /\ UNCHANGED <<iterator, alive>>

\* exec resets the statement whatever the step said.
exec(o) ==
    /\ ByHand(o) /\ MayStep(Handle(o))
    /\ \E to \in Outcomes : Becomes(o, Reset(Stepped(Handle(o), to)))
    /\ clearUsedValues(o)
    /\ UNCHANGED <<iterator, alive>>

\* tryexec does the same, and answers where exec throws.
tryexec(o) == exec(o)

reset(o) ==
    /\ ByHand(o)
    /\ Becomes(o, Reset(Handle(o)))
    /\ UNCHANGED <<object, iterator, alive>>

clearBindings(o) ==
    /\ ByHand(o)
    /\ Becomes(o, Cleared(Handle(o)))
    /\ UNCHANGED <<object, iterator, alive>>

-----------------------------------------------------------------------------
(* Iterators and scalars.                                                  *)

\* HeterogeneousIterator::close, on statement s. After a failed step the reset
\* throws, in a destructor or another noexcept function.
Terminates(s) == s.phase = "failed"

Closed(s) == Reset(Cleared(s))

Terminate == alive' = FALSE /\ UNCHANGED <<object, prepared, iterator>>

\* The constructor takes the first step; when it fails the unwinding destroys
\* the HeterogeneousIterator.
begin(i, o) ==
    /\ MayIterate(o)
    /\ iterator[i].m_s = Null
    /\ \/ \E to \in {"row", "done"} :
            /\ Becomes(o, Stepped(Handle(o), to))
            /\ iterator' = [iterator EXCEPT ![i] = [m_s |-> o, m_v |-> to = "row"]]
            /\ clearUsedValues(o)
            /\ UNCHANGED alive
       \/ Terminate

\* When the step fails the iterator keeps its record.
increment(i) ==
    LET o == iterator[i].m_s IN
    /\ alive /\ o # Null /\ iterator[i].m_v
    /\ MayStep(Handle(o))
    /\ \E to \in Outcomes :
         /\ Becomes(o, Stepped(Handle(o), to))
         /\ iterator' = [iterator EXCEPT ![i].m_v = to # "done"]
    /\ clearUsedValues(o)
    /\ UNCHANGED alive

destroyIterator(i) ==
    LET o == iterator[i].m_s IN
    /\ alive /\ o # Null
    /\ IF Terminates(Handle(o)) THEN Terminate
       ELSE /\ Becomes(o, Closed(Handle(o)))
            /\ iterator' = [iterator EXCEPT ![i] = [m_s |-> Null, m_v |-> FALSE]]
            /\ UNCHANGED <<object, alive>>

\* Mutant: the moved-from iterator keeps its pointer.
moveIteratorKeeps(i, other) ==
    /\ alive /\ i # other /\ iterator[other].m_s # Null /\ iterator[i].m_s = Null
    /\ iterator' = [iterator EXCEPT ![i] = iterator[other]]
    /\ UNCHANGED <<object, prepared, alive>>

\* Move construction and assignment; the assignment closes what it overwrites.
\* The record of the other iterator is moved out of but still there.
moveIterator(i, other) ==
    LET o == iterator[i].m_s IN
    /\ alive /\ i # other /\ iterator[other].m_s # Null
    /\ IF o # Null /\ Terminates(Handle(o)) THEN Terminate
       ELSE /\ IF o = Null THEN UNCHANGED prepared ELSE Becomes(o, Closed(Handle(o)))
            /\ iterator' = [iterator EXCEPT ![i] = iterator[other], ![other].m_s = Null]
            /\ UNCHANGED <<object, alive>>

\* nextScalar, selectScalar, selectOptionalScalar and selectOptionalRecord: one
\* or two steps through an iterator on the stack, which closes the statement
\* whether the record set is the expected one or raiseError is called.
selectScalar(o) ==
    /\ MayIterate(o)
    /\ \/ /\ \E to \in {"row", "done"} : Becomes(o, Closed(Stepped(Handle(o), to)))
          /\ clearUsedValues(o)
          /\ UNCHANGED <<iterator, alive>>
       \/ Terminate

-----------------------------------------------------------------------------
Life == \E o \in Objects : open(o) \/ close(o) \/ destroy(o) \/ \E other \in Objects : Move(o, other)

Binding ==
    \/ \E o \in Objects, col \in 0..(Columns - 1) :
         bindCopied(o, col) \/ bindConverted(o, col) \/ \E t \in Texts : bindText(o, col, t)
    \/ \E t \in Texts : Overwrite(t)

Executing ==
    \E o \in Objects :
        Next(o) \/ select(o) \/ exec(o) \/ tryexec(o) \/ reset(o) \/ clearBindings(o) \/ selectScalar(o)

Iterating == \E i \in Iterators : \/ \E o \in Objects : begin(i, o)
                                  \/ increment(i) \/ destroyIterator(i)
                                  \/ \E other \in Iterators : moveIterator(i, other)

SNext == Life \/ Binding \/ Executing \/ Iterating

Spec == Init /\ [][SNext]_vars

-----------------------------------------------------------------------------
(* Properties.                                                             *)

\* However objects are moved, closed and destroyed, every prepared statement
\* has exactly one owner, no owner a finalized one, and no iterator outlives
\* its statement (Statement.h:38-95): nothing is finalized twice or leaked.
HandlesOwned ==
    /\ \A h \in Handles : prepared[h] # Finalized => \E o \in Objects : object[o].m_stmt = h
    /\ \A o \in Objects : Isopen(o) =>
         /\ Handle(o) # Finalized
         /\ \A other \in Objects : object[other].m_stmt = object[o].m_stmt => other = o
    /\ \A i \in Iterators : iterator[i].m_s # Null => Isopen(iterator[i].m_s)

\* A cell is in one list of one object, and the values a statement points to
\* are among those of its own object (Statement.h:259-320): no cell is deleted
\* twice, or deleted or handed to another object under a bound parameter.
SavedValuesKept ==
    /\ \A o, other \in Objects : \A m \in DOMAIN Held(o), n \in DOMAIN Held(other) :
         Held(o)[m] = Held(other)[n] => o = other /\ m = n
    /\ \A o \in Objects : Isopen(o) => \A p \in Params :
         Handle(o).bound[p] \in Cells => \E n \in DOMAIN Held(o) : Held(o)[n] = Handle(o).bound[p]

\* No text that a step is still to read has been overwritten: neither one of
\* the caller's, who keeps to the comment at Statement.h:117, nor a converted
\* value, whose cell is set free at the first step (Statement.h:129-180).
ParametersIntact ==
    \A h \in Handles : prepared[h] # Finalized =>
        \A p \in prepared[h].spoiled : ~InUse(prepared[h], p)

\* Only who steps a statement by hand, or holds an iterator over it, keeps it
\* from being bound: exec, tryexec, scalars and iterators leave it ready, also
\* when they fail (Statement.h:141-180, HeterogeneousIterator.h:66-76).
IdleIsReady ==
    \A o \in Objects : Isopen(o) /\ Unwatched(o) /\ ~Handle(o).byHand => Handle(o).phase = "ready"

\* An iterator with a record has its statement on that record, whatever moves
\* it went through, so that ++ goes on and never starts over; one without has
\* seen the end (Iterator.h:60-79, HeterogeneousIterator.h:24-38).
IteratorKeepsPlace ==
    \A i \in Iterators : iterator[i].m_s # Null =>
        Handle(iterator[i].m_s).phase \in (IF iterator[i].m_v THEN {"row", "failed"} ELSE {"done"})

=============================================================================
