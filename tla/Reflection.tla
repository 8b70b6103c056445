----------------------------- MODULE Reflection -----------------------------
(***************************************************************************)
(* How the fields of nested structures are numbered (Helpers.h:108-359).   *)
(* The query builder walks types, bind and get walk values, and a member   *)
(* pointer is looked up by counting; all three must agree on the number of *)
(* a field, because it is the number of its column and of its parameter.   *)
(*                                                                         *)
(* A structure is the sequence of its members, a member a field or a       *)
(* structure; a field is known by its path, the position at each level.    *)
(***************************************************************************)
EXTENDS Integers, Sequences, FiniteSets

CONSTANTS
    Structs,    \* the structures, with all those nested in them
    Nesting     \* how many levels there are in each

Field == [nested |-> FALSE, members |-> <<>>]
Struct(s) == [nested |-> TRUE, members |-> s]

\* A class has no member of its own type, at any level.
ASSUME ReflectionAssumption ==
    /\ \A s \in Structs : s \in Seq({Field} \cup {Struct(t) : t \in Structs})
    /\ Nesting \in [Structs -> Nat]
    /\ \A s \in Structs : \A i \in DOMAIN s : s[i].nested => Nesting[s[i].members] < Nesting[s]

fieldCount[s \in Structs] ==
    LET count[i \in 0..Len(s)] ==
          IF i = 0 THEN 0
          ELSE count[i - 1] + IF s[i].nested THEN fieldCount[s[i].members] ELSE 1
    IN count[Len(s)]

\* What a walk has done: how many fields there were, and for each call of func
\* the path of a field and its number.
Walked(count, calls) == [count |-> count, calls |-> calls]

\* What was called in the i-th member, seen from the structure around it.
Prefixed(i, calls) == {<< <<i>> \o call[1], call[2] >> : call \in calls}

\* The start index is that of the first field in the whole structure.
forEachFieldType[s \in Structs] == [startIndex \in Nat |->
    LET after[i \in 0..Len(s)] ==
          IF i = 0 THEN Walked(0, {})
          ELSE LET done   == after[i - 1]
                   number == startIndex + done.count
                   sub    == IF s[i].nested THEN forEachFieldType[s[i].members][number]
                                            ELSE Walked(1, {<< <<>>, number >>})
               IN Walked(done.count + sub.count, done.calls \cup Prefixed(i, sub.calls))
    IN after[Len(s)]]

\* The same walk over the value itself.
forEachFieldValue[s \in Structs] == [start_index \in Nat |->
    LET after[i \in 0..Len(s)] ==
          IF i = 0 THEN Walked(0, {})
          ELSE LET done   == after[i - 1]
                   number == start_index + done.count
                   sub    == IF s[i].nested THEN forEachFieldValue[s[i].members][number]
                                            ELSE Walked(1, {<< <<>>, number >>})
               IN Walked(done.count + sub.count, done.calls \cup Prefixed(i, sub.calls))
    IN after[Len(s)]]

\* Mutant: a nested structure counts as one field.
findTopLevelIndex(s, i) == i - 1

\* The number of a member given by a pointer; only fields of the structure
\* itself are found.
findTransparentFieldIndex(s, i) ==
    LET count[j \in 0..Len(s)] ==
          IF j = 0 THEN 0
          ELSE count[j - 1] + IF s[j].nested THEN fieldCount[s[j].members] ELSE 1
    IN count[i - 1]

-----------------------------------------------------------------------------
(* Properties.                                                             *)

\* The fields of a structure, and the order they are declared in.
Leaves[s \in Structs] ==
    UNION {{<<i>> \o p : p \in IF s[i].nested THEN Leaves[s[i].members] ELSE {<<>>}} : i \in DOMAIN s}

Before(p, q) == \E i \in DOMAIN p \cap DOMAIN q :
                   p[i] < q[i] /\ \A j \in 1..(i - 1) : p[j] = q[j]

Declared(s, p) == Cardinality({q \in Leaves[s] : Before(q, p)})

\* However structures nest, a field has one number: the walk over types that
\* numbers columns, the walk over values that numbers parameters and the
\* lookup of a member pointer all give the count of the fields declared before
\* it, and both walks call func once for each field (Helpers.h:126-167,
\* 206-266, 311-339).
FieldsNumbered ==
    \A s \in Structs :
        LET all == Walked(Cardinality(Leaves[s]), {<<p, Declared(s, p)>> : p \in Leaves[s]}) IN
        /\ forEachFieldType[s][0] = all
        /\ forEachFieldValue[s][0] = all
        /\ fieldCount[s] = all.count
        /\ \A i \in DOMAIN s : ~s[i].nested => <<i>> \in Leaves[s] /\ findTransparentFieldIndex(s, i) = Declared(s, <<i>>)
=============================================================================
