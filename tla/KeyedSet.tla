------------------------------ MODULE KeyedSet ------------------------------
(***************************************************************************)
(* What the README promises of a sqlite::Set: "working with a database     *)
(* table as with std::set". A finite map from keys to values; every call   *)
(* answers from it, or throws and changes nothing.                         *)
(***************************************************************************)

CONSTANTS
    Keys,
    Records,        \* what is kept for a key
    Merged(_, _),   \* what an Updater makes of a record and a given one
    NoKey,          \* the key of no call
    Fallible        \* a call may fail for reasons of its own

VARIABLES
    contents,       \* the rows, by key
    answer,         \* what the last call did, and the record it was given or found
    spent           \* no key is left for an insert that is to choose one

kvars == <<contents, answer, spent>>

Answer(op, k, out, got) == answer' = [op |-> op, key |-> k, out |-> out, got |-> got]

KInit ==
    /\ DOMAIN contents \in SUBSET Keys
    /\ contents \in [DOMAIN contents -> Records]
    /\ answer = [op |-> "none", key |-> NoKey, out |-> "done", got |-> {}]
    /\ spent = FALSE

Put(k, r) ==
    LET old == contents IN
    contents' = [x \in DOMAIN old \cup {k} |-> IF x = k THEN r ELSE old[x]]

Remove(k) ==
    LET old == contents IN
    contents' = [x \in DOMAIN old \ {k} |-> old[x]]

Throws(op, k) ==
    /\ \E out \in {"throws", "refused"} : Answer(op, k, out, {})
    /\ UNCHANGED <<contents, spent>>
    /\ \/ Fallible
       \/ op = "insert" /\ k \in DOMAIN contents
       \/ op = "autoinsert" /\ spent
       \/ op \in {"update", "updater", "delete"} /\ k \notin DOMAIN contents

\* Spent once is spent for good.
Uses == spent => spent'

Insert(k, r) ==
    /\ Answer("insert", k, "done", {r})
    /\ k \notin DOMAIN contents
    /\ Put(k, r)
    /\ Uses

\* The key is chosen for the caller, who learns it with the record.
AutoInsert(k, r) ==
    /\ Answer("autoinsert", k, "done", {r})
    /\ ~spent
    /\ k \notin DOMAIN contents
    /\ Put(k, r)
    /\ Uses

TryInsert(k, r) ==
    \/ /\ Answer("tryinsert", k, "true", {r})
       /\ k \notin DOMAIN contents
       /\ Put(k, r)
       /\ Uses
    \/ /\ Answer("tryinsert", k, "false", {})
       /\ k \in DOMAIN contents
       /\ UNCHANGED <<contents, spent>>

Find(k) ==
    /\ IF k \in DOMAIN contents THEN Answer("find", k, "true", {contents[k]})
                               ELSE Answer("find", k, "false", {})
    /\ UNCHANGED <<contents, spent>>

Update(k, r) ==
    /\ Answer("update", k, "done", {r})
    /\ k \in DOMAIN contents
    /\ Put(k, r)
    /\ UNCHANGED spent

UpdatePart(k, r) ==
    /\ Answer("updater", k, "done", {r})
    /\ k \in DOMAIN contents
    /\ Put(k, Merged(contents[k], r))
    /\ UNCHANGED spent

Delete(k) ==
    /\ Answer("delete", k, "done", {})
    /\ k \in DOMAIN contents
    /\ Remove(k)
    /\ UNCHANGED spent

TryDelete(k) ==
    /\ Answer("trydelete", k, "done", {})
    /\ Remove(k)
    /\ UNCHANGED spent

KNext == \E k \in Keys :
    \/ Find(k) \/ Delete(k) \/ TryDelete(k)
    \/ \E op \in {"insert", "autoinsert", "tryinsert", "find", "update", "updater",
                 "delete", "trydelete"} : Throws(op, k)
    \/ \E r \in Records : \/ Insert(k, r) \/ AutoInsert(k, r) \/ TryInsert(k, r)
                          \/ Update(k, r) \/ UpdatePart(k, r)

KSpec == KInit /\ [][KNext]_kvars
=============================================================================
