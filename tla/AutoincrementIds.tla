-------------------------- MODULE AutoincrementIds ---------------------------
(***************************************************************************)
(* An AutoincrementSet (AutoincrementSet.h) used inside transactions: the  *)
(* ids that insert puts into C++ objects, while runs nest, fail and are    *)
(* rolled back (Transactions). A rollback takes rows and the sequence of   *)
(* ids back; the objects and the engine's last row id stay as they are.    *)
(***************************************************************************)
EXTENDS Transactions, FiniteSets

CONSTANTS
    Things,         \* the C++ objects, each with an id field
    MaxId           \* the largest row id there is

\* What the database contains: rows, and for every id up to the sequence of
\* the table (AUTOINCREMENT keeps it in a table of its own) that it was used.
Ids == 1..MaxId
Rec(id, v) == [kind |-> "row", id |-> id, val |-> v]
Used(id) == [kind |-> "used", id |-> id]
Facts == {Rec(id, v) : id \in Ids, v \in Things} \cup {Used(id) : id \in Ids}

ASSUME AutoincrementIdsAssumption ==
    /\ MaxId \in Nat
    /\ Rows = Facts
    /\ "std" \in Thrown

VARIABLES
    ids,            \* the id field of each object; 0: the program never set it
    lastRowId,      \* Database::lastRowId
    ever            \* history: the rows there have been in the durable contents

ivars == <<vars, ids, lastRowId, ever>>

RowsOf(contents) == {f \in contents : f.kind = "row"}

HasId(contents, id) == \E f \in RowsOf(contents) : f.id = id

\* A sequence has no gaps in what it has used, and no row is beyond it.
WellFormed(contents) ==
    \A f \in contents : \A id \in 1..f.id : Used(id) \in contents

\* What there is, and what a rollback may bring back.
Contents == {data, durable} \cup {savepoints[i].saved : i \in 1..Len(savepoints)}

ITypeOK ==
    /\ TypeOK
    /\ \A contents \in Contents : WellFormed(contents)
    /\ ids \in [Things -> 0..MaxId]
    /\ lastRowId \in 0..MaxId
    /\ ever \subseteq RowsOf(Rows)

IInit ==
    /\ Init
    /\ ids = [v \in Things |-> 0]
    /\ lastRowId = 0
    /\ ever = {}

-----------------------------------------------------------------------------
\* Mutant: without AUTOINCREMENT the engine takes one more than the largest id
\* there is.
NewIdsPlain == {id \in Ids : id = 1 \/ HasId(data, id - 1)} \ {id \in Ids : \E later \in id..MaxId : HasId(data, later)}

\* One more than the largest that ever was; none when that is the last there is.
NewIds == {id \in Ids : Used(id) \notin data /\ \A before \in 1..(id - 1) : Used(before) \in data}

\* Mutant: the sequence does not follow.
StoredOnly(id, v) == data \cup {Rec(id, v)}

Stored(id, v) == data \cup {Rec(id, v)} \cup {Used(before) : before \in 1..id}

\* The statement fails, undoes itself and throws.
StatementThrows ==
    /\ Running
    /\ exc' = "std"
    /\ UNCHANGED <<level, frames, engine, lastRowId>>

\* Mutant: the id is assigned whether or not the statement succeeded.
insertAssignsAnyway(v) ==
    \/ \E id \in NewIds :
         /\ WriteTo(Stored(id, v))
         /\ lastRowId' = id
         /\ ids' = [ids EXCEPT ![v] = lastRowId']
    \/ /\ StatementThrows
       /\ ids' = [ids EXCEPT ![v] = lastRowId]

\* AutoincrementSet::insert: exec, then assignLastRowId.
insert(v) ==
    \/ \E id \in NewIds :
         /\ WriteTo(Stored(id, v))
         /\ lastRowId' = id
         /\ ids' = [ids EXCEPT ![v] = lastRowId']
    \/ /\ StatementThrows
       /\ UNCHANGED ids

\* A rule for the program: an object whose insert was rolled back keeps an id
\* that may since have been given to another.
MayPutBack(v) == \A f \in ever : f.id = ids[v] => f.val = v

\* AutoincrementSet::insertWithId, of an object that has got an id.
insertWithId(v) ==
    /\ ids[v] # 0 /\ MayPutBack(v)
    /\ \/ /\ ~HasId(data, ids[v])
          /\ WriteTo(Stored(ids[v], v))
          /\ lastRowId' = ids[v]
       \/ StatementThrows
    /\ UNCHANGED ids

\* deleteElement and tryDeleteRecord, by id; deleteElement throws when there is
\* no such row.
delete(id) ==
    \/ /\ WriteTo({f \in data : f.kind = "used" \/ f.id # id})
       /\ UNCHANGED <<ids, lastRowId>>
    \/ StatementThrows /\ UNCHANGED ids

SetCall ==
    \/ \E v \in Things : insert(v) \/ insertWithId(v)
    \/ \E id \in Ids : delete(id)

Around == Failure \/ RunStep \/ OutermostStep

INext ==
    /\ SetCall \/ (Around /\ UNCHANGED <<ids, lastRowId>>)
    /\ ever' = ever \cup RowsOf(durable')

ISpec == IInit /\ [][INext]_ivars

-----------------------------------------------------------------------------
(* Properties.                                                             *)

\* "at least one larger than the largest ROWID that has ever before existed"
\* (AutoincrementTableInstantiator.h:53): across rollbacks, aborts and deletes,
\* an id that a committed row has had never belongs to another object's row,
\* so that an object whose insert was committed finds itself or nothing.
IdentityKept ==
    \A f \in ever : \A g \in RowsOf(data \cup durable) : g.id = f.id => g = f

\* An object only ever gets the id of a row that was stored for it, and never
\* one that another committed row has had (AutoincrementSet.h:44-51, 120-126).
AssignedIdIsOwn ==
    [][ \A v \in Things : ids'[v] # ids[v] =>
          /\ Rec(ids'[v], v) \in data'
          /\ \A f \in ever : f.id # ids'[v] ]_ivars

-----------------------------------------------------------------------------
(* Why it works: whatever a rollback may bring back agrees with every row  *)
(* that was ever committed, and has its id among the used ones.            *)
Agrees(contents) ==
    /\ WellFormed(contents)
    /\ \A f, g \in RowsOf(contents) : f.id = g.id => f = g
    /\ \A f \in ever : /\ Used(f.id) \in contents
                        /\ \A g \in RowsOf(contents) : g.id = f.id => g = f

IdsInv ==
    /\ ids \in [Things -> 0..MaxId]
    /\ lastRowId \in 0..MaxId
    /\ ever \subseteq RowsOf(Rows)
    /\ RowsOf(durable) \subseteq ever
    /\ \A contents \in Contents : Agrees(contents)
=============================================================================
