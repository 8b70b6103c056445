----------------------------- MODULE SetColumns -----------------------------
(***************************************************************************)
(* What a Set and an AutoincrementSet write and read, column by column:    *)
(* the numbers of parameters that the queries are built with               *)
(* (QueryBuilder.h, FieldListBuilder.h, IndexFilter.h), the numbers that   *)
(* bind and get use (Set.h:182-228, Updater.h:29-80), and the conversions. *)
(* Preparing, stepping and failing are the business of SetOperations; here *)
(* a call runs to its end.                                                 *)
(*                                                                         *)
(* A parameter keeps what an earlier call bound to it until it is bound    *)
(* again. That leftover is the value Left: a query that uses it is wrong   *)
(* whatever it happens to be.                                              *)
(***************************************************************************)
EXTENDS Conversions, Reflection

CONSTANTS
    Record,         \* the structure that is stored
    TypeOf,         \* the type of each of its fields
    KeyTuples,      \* the tuples of member pointers a Set may be made with
    UpdaterPtrs,    \* the tuple given to createUpdater
    IndexPtrs,      \* the tuple given to an IndexInstantiator
    Given,          \* the values (structures) that calls are made with
    MaxRows,        \* bound on the rows of the table
    Left            \* what an earlier call left in a parameter

\* The fields of the structure, nested ones too.
Fields == Leaves[Record]

\* The number of each for the query builder, for bind and get, and, if a member
\* pointer can name it, when it is looked up.
NumberIn(calls) == [f \in Fields |-> CHOOSE n \in {call[2] : call \in calls} : <<f, n>> \in calls]

TypeIndex == NumberIn(forEachFieldType[Record][0].calls)

ValueIndex == NumberIn(forEachFieldValue[Record][0].calls)

PointerIndex == [f \in {<<i>> : i \in {j \in DOMAIN Record : ~Record[j].nested}} |->
                    findTransparentFieldIndex(Record, f[1])]

N == fieldCount[Record]

Injective(s) == \A i, j \in DOMAIN s : s[i] = s[j] => i = j

\* A tuple that names a field twice is refused (IndexFilter.h:27-35). Keys
\* are never NULL: the engine takes any number of rows with a NULL key; nor are
\* they texts, which a Set does not tell apart by case.
ASSUME SetColumnsAssumption ==
    /\ Record \in Structs
    /\ TypeOf \in [Fields -> Types]
    /\ \A s \in KeyTuples \cup {UpdaterPtrs, IndexPtrs} :
          s \in Seq(DOMAIN PointerIndex) /\ Injective(s)
    /\ \A s \in KeyTuples : \A i \in DOMAIN s :
          /\ ~AllowsNull(TypeOf[s[i]]) /\ TypeOf[s[i]] # "text"
          /\ \A j \in DOMAIN UpdaterPtrs : UpdaterPtrs[j] # s[i]
    /\ \A v \in Given : v = [f \in Fields |-> v[f]] /\ \A f \in Fields : v[f] \in Values(TypeOf[f])
    /\ MaxRows \in Nat
    /\ Left \notin Int \cup {Null}

VARIABLES
    idPtrs,         \* Set::idPtrs
    table,          \* the rows: what is stored in the column of each field
    sequence,       \* AUTOINCREMENT: the largest row id there has been
    answer          \* what the last call did

vars == <<idPtrs, table, sequence, answer>>

Numbers == 0..(N - 1)

NoAnswer == [op |-> "none", key |-> <<>>, out |-> "done", got |-> {}]

Init ==
    /\ idPtrs \in KeyTuples
    /\ table = {}
    /\ sequence = 0
    /\ answer = NoAnswer

KeyOf(v) == [i \in DOMAIN idPtrs |-> v[idPtrs[i]]]

TuplesOf(ptrs) == {[i \in DOMAIN ptrs |-> v[ptrs[i]]] : v \in Given}

\* The key is an id that may be assigned: the column is INTEGER PRIMARY KEY
\* AUTOINCREMENT, whatever the type of the field.
HasId(ptrs) == Len(ptrs) = 1 /\ TypeOf[ptrs[1]] \in Integral

\* The engine's row ids.
Ids == 1..(Half - 1)

IdsOf(ptrs) == IF HasId(ptrs) THEN Ids \cap Values(TypeOf[ptrs[1]]) ELSE {}

\* The keys that calls may ask for; an id that was assigned, too.
Asked(ptrs) == TuplesOf(ptrs) \cup {<<id>> : id \in IdsOf(ptrs)}

-----------------------------------------------------------------------------
(* Filters, and the parameters of the queries.                             *)

\* An IndexFilter keeps the order its numbers were inserted in.
IndicesOf(ptrs) == [i \in DOMAIN ptrs |-> PointerIndex[ptrs[i]]]

contains(filter, n) == \E i \in DOMAIN filter : filter[i] = n

index_of(filter, n) == CHOOSE i \in DOMAIN filter : filter[i] = n

\* All numbers but those in a filter, inserted one after the other.
Remaining(filter) ==
    LET upTo[n \in 0..N] ==
          IF n = 0 THEN <<>>
          ELSE IF contains(filter, n - 1) THEN upTo[n - 1] ELSE Append(upTo[n - 1], n - 1)
    IN upTo[N]

\* What a Set made with a tuple works out once: the numbers of the keys, and
\* those that are not keys.
idIndicesOf == [ptrs \in KeyTuples |-> IndicesOf(ptrs)]

valueFilterOf == [ptrs \in KeyTuples |-> Remaining(idIndicesOf[ptrs])]

idIndices == idIndicesOf[idPtrs]

valueFilter == valueFilterOf[idPtrs]

Columns(filter) == {f \in Fields : contains(filter, TypeIndex[f])}

\* "name=?n": the parameter is the number of the field, or, for an index, its
\* place in the filter.
Parametized(filter) == [f \in Columns(filter) |-> TypeIndex[f] + 1]

\* Mutant: the place of the column in the query.
SequentialInQuery(filter) ==
    [f \in Columns(filter) |-> 1 + Cardinality({g \in Columns(filter) : TypeIndex[g] < TypeIndex[f]})]

Sequential(filter) == [f \in Columns(filter) |-> index_of(filter, TypeIndex[f])]

\* INSERT with a filter names the columns in the order of the fields and the
\* parameters in the order of the filter.
Inserted(filter) ==
    [f \in Columns(filter) |->
       filter[1 + Cardinality({g \in Columns(filter) : TypeIndex[g] < TypeIndex[f]})] + 1]

\* The parameters in the queries of a Set, prepared with it.
Queries == [ptrs \in KeyTuples |->
    [where  |-> Parametized(idIndicesOf[ptrs]),
     set    |-> Parametized(valueFilterOf[ptrs]),
     insert |-> Inserted(valueFilterOf[ptrs])]]

query == Queries[idPtrs]

\* Without one, all of both.
InsertedAll == [f \in Fields |-> TypeIndex[f] + 1]

-----------------------------------------------------------------------------
(* Binding and reading.                                                    *)

\* Mutant: the numbers of the filter are taken in ascending order.
bindKeySorted(k) ==
    [p \in 1..N |->
       IF contains(idIndices, p - 1)
       THEN LET i == 1 + Cardinality({m \in Numbers : contains(idIndices, m) /\ m < p - 1})
            IN bind(TypeOf[idPtrs[i]], k[i])
       ELSE Left]

\* Set::bindKey: by position.
bindKey(k) ==
    [p \in 1..N |->
       IF contains(idIndices, p - 1)
       THEN LET i == index_of(idIndices, p - 1) IN bind(TypeOf[idPtrs[i]], k[i])
       ELSE Left]

\* The fields by number, and by the number of their column.
FieldNumbered == [n \in Numbers |-> CHOOSE f \in Fields : ValueIndex[f] = n]
ColumnNumbered == [n \in Numbers |-> CHOOSE f \in Fields : TypeIndex[f] = n]

\* Mutant: the filter is asked for the number of the parameter.
bindValueByParameter(v, chosen) ==
    [p \in 1..N |-> IF p \in chosen
                    THEN bind(TypeOf[FieldNumbered[p - 1]], v[FieldNumbered[p - 1]]) ELSE Left]

\* Set::bindValue, with the numbers that are chosen.
bindValue(v, chosen) ==
    [p \in 1..N |-> IF p - 1 \in chosen
                    THEN bind(TypeOf[FieldNumbered[p - 1]], v[FieldNumbered[p - 1]]) ELSE Left]

Chosen(filter) == {n \in Numbers : contains(filter, n)}

bindAll(v) == bindValue(v, Numbers)

bindKeyFromValue(v) == bindValue(v, Chosen(idIndices))

\* sqlite::get of a structure, from a select of all columns.
Read(row) == [f \in Fields |-> get(TypeOf[f], row[ColumnNumbered[ValueIndex[f]]])]

Matching(b, at) == {row \in table : \A f \in DOMAIN at : Equal(TypeOf[f], row[f], b[at[f]])}

Where(b) == Matching(b, query.where)

-----------------------------------------------------------------------------
(* The methods.                                                            *)

Answer(op, k, out, got) == answer' = [op |-> op, key |-> k, out |-> out, got |-> got]

\* The key columns are the primary key.
Clash(row) == \E other \in table : \A i \in DOMAIN idPtrs :
                 Equal(TypeOf[idPtrs[i]], other[idPtrs[i]], row[idPtrs[i]])

\* NOT NULL.
Missing(row) == \E f \in Fields : row[f] = Null /\ ~AllowsNull(TypeOf[f])

Greater(x, y) == IF x > y THEN x ELSE y

Stored(row) ==
    /\ Cardinality(table) < MaxRows
    /\ table' = table \cup {row}
    /\ sequence' = IF HasId(idPtrs) THEN Greater(sequence, row[idPtrs[1]]) ELSE sequence
    /\ UNCHANGED idPtrs

Unchanged == UNCHANGED <<idPtrs, table, sequence>>

Inserts(op, v, done, clash) ==
    LET b == bindAll(v)
        row == [f \in Fields |-> b[InsertedAll[f]]] IN
    IF Clash(row) \/ Missing(row) THEN Unchanged /\ Answer(op, KeyOf(v), clash, {})
                                  ELSE Stored(row) /\ Answer(op, KeyOf(v), done, {v})

insert(v) == Inserts("insert", v, "done", "throws")

tryinsert(v) == Inserts("tryinsert", v, "true", "false")

\* Set::selectValue reads the first row, if there is one.
selectValue(k, b) ==
    LET found == Where(b) IN
    /\ Unchanged
    /\ \/ found = {} /\ Answer("find", k, "false", {})
       \/ \E row \in found : Answer("find", k, "true", {Read(row)})

find(v) == selectValue(KeyOf(v), bindKeyFromValue(v))

findKey(k) == selectValue(k, bindKey(k))

\* UPDATE ... SET of the filter, then ensureAffected(1).
Update(op, k, v, at, b) ==
    LET found == Where(b)
        Changed(row) == [f \in Fields |-> IF f \in DOMAIN at THEN b[at[f]] ELSE row[f]] IN
    \/ /\ found # {} /\ \A row \in found : ~Missing(Changed(row))
       /\ table' = (table \ found) \cup {Changed(row) : row \in found}
       /\ UNCHANGED <<idPtrs, sequence>>
       /\ Answer(op, k, "done", {v})
    \/ /\ found = {} \/ \E row \in found : Missing(Changed(row))
       /\ Unchanged
       /\ Answer(op, k, "throws", {})

update(v) == Update("update", KeyOf(v), v, query.set, bindAll(v))

\* Updater::valueIndices, and the parameters of its query.
valueIndices == IndicesOf(UpdaterPtrs)

UpdaterQuery == Parametized(valueIndices)

\* Updater::update with a value, and with a tuple of keys and one of values.
updateValue(v) ==
    Update("updater", KeyOf(v), v, UpdaterQuery, bindValue(v, Chosen(idIndices) \cup Chosen(valueIndices)))

\* The tuple of values is taken from v; it is bound after the keys.
updateTuple(k, v) ==
    LET b == [p \in 1..N |->
                IF contains(valueIndices, p - 1)
                THEN LET i == index_of(valueIndices, p - 1) IN bind(TypeOf[UpdaterPtrs[i]], v[UpdaterPtrs[i]])
                ELSE bindKey(k)[p]]
    IN Update("updater", k, v, UpdaterQuery, b)

Delete(op, k, b) ==
    LET found == Where(b) IN
    \/ /\ found # {} \/ op = "trydelete"
       /\ table' = table \ found
       /\ UNCHANGED <<idPtrs, sequence>>
       /\ Answer(op, k, "done", {})
    \/ /\ found = {} /\ op = "delete"
       /\ Unchanged
       /\ Answer(op, k, "throws", {})

deleteElement(v) == Delete("delete", KeyOf(v), bindKeyFromValue(v))

tryDeleteRecord(v) == Delete("trydelete", KeyOf(v), bindKeyFromValue(v))

deleteKey(k) == Delete("delete", k, bindKey(k))

tryDeleteKey(k) == Delete("trydelete", k, bindKey(k))

\* Mutant: the row id is asked for before the step.
IdCastEarly(t, id) == id - 1

\* The row id, cast to the type of the id.
IdCast(t, id) ==
    CASE t = "int"             -> ToSigned(id, Half)
      [] t = "uint"            -> ToUnsigned(id, Half)
      [] t = "short"           -> ToSigned(id, NarrowHalf)
      [] t \in {"word", "byte"} -> ToUnsigned(id, NarrowHalf)
      [] t = "bool"            -> IF id = 0 THEN 0 ELSE 1

\* No row id comes after the last.
Spent == sequence + 1 \notin Ids

\* AutoincrementSet::insert: all columns but the id, which the object gets then.
insertWithoutId(v) ==
    /\ HasId(idPtrs)
    /\ LET b == bindValue(v, Chosen(valueFilter))
           at == query.insert
           id == sequence + 1
           given == [v EXCEPT ![idPtrs[1]] = IdCast(TypeOf[idPtrs[1]], id)]
           row == [f \in Fields |-> IF f = idPtrs[1] THEN id ELSE b[at[f]]]
       IN IF Spent \/ Missing(row)
          THEN Unchanged /\ Answer("autoinsert", KeyOf(v), "throws", {})
          ELSE Stored(row) /\ Answer("autoinsert", KeyOf(given), "done", {given})

ByKey(k) == findKey(k) \/ deleteKey(k) \/ tryDeleteKey(k)

ByKeyFromValue(v) == find(v) \/ deleteElement(v) \/ tryDeleteRecord(v)

Next ==
    \/ \E v \in Given : insert(v) \/ tryinsert(v) \/ update(v) \/ updateValue(v)
                      \/ insertWithoutId(v) \/ ByKeyFromValue(v)
    \/ \E k \in Asked(idPtrs) :
          ByKey(k) \/ \E v \in Given : updateTuple(k, v)

Spec == Init /\ [][Next]_vars

IndexQuery == Sequential(IndicesOf(IndexPtrs))

\* IndexInstantiator::makeSelectStatement, bound to a tuple of field values
\* from the first parameter on.
selectByIndex(k) ==
    LET b == [p \in DOMAIN IndexPtrs |-> bind(TypeOf[IndexPtrs[p]], k[p])]
    IN {Read(row) : row \in Matching(b, IndexQuery)}

-----------------------------------------------------------------------------
(* Properties.                                                             *)

\* The row ids that have been given out are what values of the id's type are
\* stored as. Of a 64-bit type all are; of a narrower one they are until an id,
\* given or assigned, has come to the end of its range.
IdsFit ==
    HasId(idPtrs) => \E v \in Values(TypeOf[idPtrs[1]]) : bind(TypeOf[idPtrs[1]], v) = sequence

\* As long as they are, every column holds what binding a value of its field's
\* type gives; never what an earlier call left in a parameter.
TypeOK ==
    /\ idPtrs \in KeyTuples
    /\ sequence \in Nat
    /\ IdsFit => \A row \in table : \A f \in Fields :
          /\ row[f] # Left
          /\ get(TypeOf[f], row[f]) \in Values(TypeOf[f])
          /\ row[f] = bind(TypeOf[f], get(TypeOf[f], row[f]))

\* A field has one number however it is come by, and the filters of a Set, made
\* with whatever tuple, divide these numbers: its keys have the parameters of
\* their columns, in the order of the tuple, and every other column is a value
\* (Helpers.h:126-167, 230-281, Set.h:162-180).
NumbersAgree ==
    /\ FieldsNumbered
    /\ idIndices = [i \in DOMAIN idPtrs |-> Declared(Record, idPtrs[i])]
    /\ \A n \in Numbers : contains(valueFilter, n) <=> ~contains(idIndices, n)

\* A query that compares or orders columns sees the order of the values
\* (Helpers.h:30-34), in the column of an id while the ids fit.
OrderKept ==
    IdsFit => \A r1, r2 \in table, f \in Fields :
        TypeOf[f] \in Integral \cup {"time"} =>
            (r1[f] <= r2[f] <=> get(TypeOf[f], r1[f]) <= get(TypeOf[f], r2[f]))

\* A select by index returns the values whose fields are those that were asked
\* for, in whatever order the index names them (IndexInstantiator.h:102-112),
\* texts in any case, and an id of any that fits. NULL is never found, not even
\* by a nullopt.
IndexSelects ==
    IdsFit => \A k \in TuplesOf(IndexPtrs) :
        selectByIndex(k) =
            {v \in {Read(row) : row \in table} :
               \A i \in DOMAIN IndexPtrs :
                   LET t == TypeOf[IndexPtrs[i]]
                       x == v[IndexPtrs[i]] IN
                   /\ bind(t, k[i]) # Null
                   /\ x = k[i] \/ (t = "text" /\ x \div 2 = k[i] \div 2)}

\* A find by the id that an AutoincrementSet has assigned returns the object that
\* it was assigned to, as Tests/AutoincrementSetTest.cpp:143-150 expects, while
\* the ids fit; their type may be any integral one (AutoincrementSet.h:9). The
\* cast of line 125 keeps this for signed ids and unsigned ones of 8 and 16 bits.
AssignedIdFinds ==
    IdsFit /\ answer.op = "autoinsert" /\ answer.out = "done" =>
        {Read(row) : row \in Where(bindKey(answer.key))} = answer.got

-----------------------------------------------------------------------------
\* Through all the numbers and conversions a Set is still the map of whole
\* values: what was inserted under a key is what is found, value for value,
\* and a call fails only for its key, or when the row ids are used up
\* (Set.h:82-228, Updater.h:29-80, AutoincrementSet.h:43-50). It is the map up
\* to the step that gives out a row id that is no value of the id's type.
Contents ==
    LET values == {Read(row) : row \in table} IN
    [k \in {KeyOf(v) : v \in values} |-> CHOOSE v \in values : KeyOf(v) = k]

Merged(old, given) == [f \in Fields |-> IF \E i \in DOMAIN UpdaterPtrs : UpdaterPtrs[i] = f
                                         THEN given[f] ELSE old[f]]

AllKeys == UNION {Asked(ptrs) : ptrs \in KeyTuples}

AllValues ==
    Given \cup UNION {{[v EXCEPT ![ptrs[1]] = id] : v \in Given, id \in IdsOf(ptrs)} : ptrs \in KeyTuples}

Abstract == INSTANCE KeyedSet WITH Keys <- AllKeys, Records <- AllValues,
                                   NoKey <- <<>>, Fallible <- FALSE, contents <- Contents,
                                   spent <- Spent

RefinesKeyedSet ==
    /\ Abstract!KInit
    /\ [][IdsFit' => Abstract!KNext]_<<Contents, answer, Spent>>
=============================================================================
