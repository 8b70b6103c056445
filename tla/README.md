# SQLiteWrapper in TLA+

This directory is a verification development for SQLiteWrapper, a header-mostly
C++ wrapper around SQLite: transactions as nested function calls, tables as
sets, schema from C++ structures. It holds TLA+ modules translated from the
source under `src/SQLiteWrapper`, TLC configurations that check them on small
instances, and proofs of the main theorems for every instance.

Everything runs in one thread per `Database`: there is no lock and no callback
from another thread. What makes the code hard is not parallelism but *sequences
of legal calls with failures in between*: an exception that leaves the engine's
transaction stack, a prepared statement or a cached query in a state the next
call does not expect; loops that interleave with changes and with each other on
one statement; and other connections that change the database meanwhile.

## 1. Inventory

| Component | State | Operations | Talks to |
|---|---|---|---|
| Transactions (`Database.h:60-139`) | `m_transactionLevel`; the engine's BEGIN flag and savepoint stack | `beginTransaction`, `commit`, `rollback`, `savePoint`, `release`, `rollbackTo`, `tryOutermost`, `tryRun` | the engine through `exec`; the caller's function, which may call all of them again |
| Statement (`Statement.h`, `Statement.cpp`) | `sqlite3_stmt*` with its position; converted values kept for bound parameters | `open`, `bind*`, `Next`, `exec`, `tryexec`, `select`, `reset`, `clearBindings`, `close` | the engine |
| Set, Updater, iterators (`Set.h`, `Updater.h`, `Iterator.h`, `HeterogeneousIterator.h`) | five prepared statements per Set, one per Updater; the row an iterator holds | `insert`, `tryinsert`, `find`, `update`, `createUpdater`, `deleteElement`, `tryDeleteRecord`, `begin`/`++`, `close` | Statement; `Database::ensureAffected` |
| AutoincrementSet (`AutoincrementSet.h`) | a Set and one more insert statement | `insert` with an assigned id, the rest forwarded | Set; `Database::lastRowId` |
| Scalar queries (`Scalar.h`) | none | `selectScalar`, `selectOptionalScalar`, `selectOptionalRecord` | an iterator on the stack |
| Schema creation (`Scheme.h`, `Element.h`, `*Instantiator.h`) | lists of registered elements | `create`, `deleteElement` in registration order, `makeSet` | catalog queries; `exec` of DDL |
| Catalog queries (`Database.cpp:48-113`) | two cached statements | `tableExists`, `indexExists`, `dropTable`, `dropIndex`, `invalidateScheme` | Statement, Scalar |
| Connection life (`Database.cpp:10-31`, `Database.h:21-58`) | `m_db` | `open`, `close`, `clear`, moves | engine; the registered elements |
| Query and table building (`QueryBuilder.h`, `TableBuilder.h`, `FieldListBuilder.h`, `IndexFilter.h`) | none | text of the queries; numbers of columns and parameters | reflection helpers |
| Conversions (`Helpers.h`, `Bind.h`, `Get.h`) | none | field to column value and back; nested field numbering | Statement |

What each must guarantee:

* **Transactions.** A failed run restores exactly what it found; a successful
  outermost run is committed; an inner one never commits the outer one; every
  call finds its own savepoint whatever earlier calls left behind; the level
  counter follows the calls on every path.
* **Statement.** A prepared statement has one owner; what a parameter points to
  lives, unchanged, until it has been read; whoever does not step a statement
  by hand or iterate it finds it ready to be bound.
* **Set.** Each method answers like a map, or throws and changes
  nothing; every call, failed or not, leaves the statements usable; a loop over
  a Set delivers what stayed in the table, once, and ends unless its body goes on
  putting rows ahead of it.
* **AutoincrementSet.** The id stored in the object is the id of its row, and
  no other object's row ever gets it, whatever is rolled back; the object is
  found by it as long as the row ids are within the range of its type.
* **Schema and catalog.** After `open` every registered element exists; nothing
  that existed is replaced; a cached catalog statement is never used after the
  schema it was prepared for has changed.
* **Connection.** A handle is closed once and not used afterwards.
* **Building and conversions.** The parameter numbers in a query are those
  `bind` uses; what is stored is what is read back, within the field's width.

`PROJECT.json` lists the places where each of these could go wrong
("hazards"), and the properties that watch them.

## 2. Modules

| Module | Models | Code |
|---|---|---|
| `AtomicRun` | what nested runs promise: a stack of remembered contents; leaving a level keeps the contents or restores what was remembered | abstract |
| `Transactions` | the transaction half of `Database`, over the engine's savepoint stack | `Database.h:60-139` |
| `AutoincrementIds` | an AutoincrementSet inside those transactions: which object has which id, through rollbacks and aborts | `AutoincrementSet.h`, `AutoincrementTableInstantiator.h` |
| `KeyedSet` | what a Set promises: a finite map whose calls answer from it, or throw and change nothing | abstract |
| `Statements` | Statement objects used directly, iterators and scalar queries: ownership, saved values, what a step reads | `Statement.*`, `Iterator.h`, `HeterogeneousIterator.h`, `Scalar.h` |
| `SetOperations` | `Set`, `Updater`, the prepared statements and the iterators: order and failure of steps | `Set.h`, `Updater.h`, `Statement.*`, `Iterator.h` |
| `Schema` | opening and closing, creation and dropping of the registered elements, the cached catalog statements | `Database.*`, `Scheme.h`, `*Instantiator.h`, `Scalar.h` |
| `Conversions` | a field to a column value and back, by type and width; NOT NULL; equality in SQL | `Bind.h`, `Get.h`, `Helpers.h:30-68`, `TableBuilder.h` |
| `Reflection` | numbering of the fields of nested structures | `Helpers.h:108-359` |
| `SetColumns` | `Set`, `Updater`, `AutoincrementSet` and select by index, column by column: which parameter goes to which column | the builders, `Set.h`, `AutoincrementSet.h`, `IndexInstantiator.h` |
| `TransactionsProofs`, `TransactionsRefinement`, `AutoincrementIdsProofs`, `StatementsProofs`, `SetOperationsProofs`, `SchemaProofs`, `ReflectionProofs`, `SetColumnsProofs` | theorems | |
| `MCTransactions`, `MCAutoincrement`, `MCStatements`, `MCSetOperations`, `MCSchema`, `MCColumns` | instances for TLC | |

How they compose: `Transactions` implements `AtomicRun`. `AutoincrementIds`
extends `Transactions`: its rows and used ids are the contents that the
transactions save and restore, and its calls are what the body of a run does.
`Statements` is the machine that the other modules use in the disciplined
way of the library; it lets a program use it in every way the comments and
assertions of the code allow. A Set is modelled
twice, because its two kinds of mistake do not meet: `SetOperations` keeps every
bind, step, reset and failure and takes a record as a whole; `SetColumns` keeps
every column, parameter and conversion and lets a call run to its end. *Both*
implement the same `KeyedSet`: with failing calls (`Fallible`) in the first case,
without in the second. `SetColumns` extends `Reflection`, whose walks give it the
numbers of the fields, and `Conversions`.

### Transactions

The C++ call stack is the sequence `frames`: one frame for each active
`tryRun`, `tryOutermost` or written-out BEGIN..COMMIT; the exception in flight
is `exc`. A frame is left by exactly one of the actions named for the way out:
`RunReturns`, `RunReleaseThrows` (the RELEASE after the `try` block fails),
`RunRollsBack` (the handler), `RunRollbackThrows` (ROLLBACK TO in the handler
fails), `RunUnwinds` (an exception the handler does not catch), and the same for
`tryOutermost` (`RunHandles` and `OutermostHandles` group the exits through the
handler). Between calls the body writes, throws, catches what an inner call threw
(`BodyCatches`), or is hit by an abort of the engine (`EngineAbort`); when an
exception has left all calls the application catches it (`CallerCatches`).

The engine is modelled from how the code uses it: `savepoints` is a stack of
names and saved contents; RELEASE and ROLLBACK TO act on the most recent
savepoint of the given name, ROLLBACK TO keeps it, a savepoint outside BEGIN is
the transaction, BEGIN works on an empty stack only.

`level` is `m_transactionLevel`, and the default name of a run is a function of
it; `LevelNames` gives for each level the names a run may use, so that names
supplied by the caller are covered. `WriteTo` is a statement that changes the
contents, `StatementFails` one that throws or aborts. Two fields of a frame
(`entry`, `mark`) and `depth` are history: what the call found and where its
savepoint was put.

### AutoincrementIds

The contents of the database are a set of facts: `Rec(id, v)`, the row of object
`v`, and `Used(id)` for each id up to the sequence of the table, because
AUTOINCREMENT keeps the sequence in a table of its own, which a rollback takes
back as well. Outside the contents, and so untouched by a rollback, are `ids`,
the id field of each C++ object, and `lastRowId`. `insert` writes a row with the
next id and then assigns `lastRowId` to the object, or throws and assigns nothing;
`insertWithId` writes the id the object has; deletes are by id. `ever` is history:
the rows that have been committed.

One rule is the program's: it does not put an object back by `insertWithId`
whose id has meanwhile been committed for another (`MayPutBack`). The id of an
insert that was rolled back stays in its object and is given out again.

### Statements

An object is a Statement with its handle and its two lists of saved values
(`usedValues`, `freeValues`); `prepared` is what the engine keeps for a handle:
the phase, and what each parameter points to. Texts and blobs are bound without
a copy: a parameter points to a text of the caller's, to a cell that
`saveConvertedValue` took from the heap or from `freeValues`, or to nothing (the
engine keeps numbers itself). Each step empties `usedValues` into `freeValues`
(`clearUsedValues`), so that the next saved value overwrites a cell while a
select may still be on a row. `fresh`, `spoiled` and `byHand` are history: bound
since the last execution began, overwritten since it was bound, stepped by hand
and not reset. `iterator` are `Iterator` objects: the Statement they point to, and
whether they hold a record.

What the code leaves to its user are guards with names:

* `Unwatched`: an object is neither moved, closed nor used by hand under an
  iterator, which keeps a pointer to it;
* `MayStep`: a step that begins an execution comes after all parameters were
  bound or cleared anew;
* `MayIterate`: an iterator or scalar query starts on a ready statement;
* `MayChange`: "The caller must keep val alive until the statement is executed"
  (`Statement.h:117`), and while it is on a row;
* no value is saved while the statement is on a row, an open object is not
  opened, and a move goes to a new or closed object.

The properties say that these rules are enough. The values that calls return
are left out.

### SetOperations

A prepared statement is a machine with the states `ready`, `row`, `done`,
`failed` (and `closed` for a null statement): it can be bound only when ready,
a step moves it, a reset makes it ready. Each method of Set or Updater is one
action, because nothing runs between its bind, its step and its reset; what the
methods leave behind is the point. `answer` records what the call did:
`refused` is a failed bind ("Bining error."), `throws` an error of the step or
of `ensureAffected`.

`loops` are the iterators alive, innermost last. They all step the one iterate
statement of the Set (`passed` are the keys whose rows are behind its cursor), and
the destructor of each resets it. `seen`, `ordered` and `stayed` are history.

Two things may go wrong, by constant: `busy`, any step may be refused; and
`schema`, a table or index is created or dropped so that all statements, made
with the legacy `sqlite3_prepare`, fail until the Set is made anew.

The iterate statement has no ORDER BY, so that the engine scans the table by row
id, and `RowidKey` says whether that is the key. If the key is one INTEGER column it
is: a new row comes before or after the cursor as its key says, and the loop is in
key order. Any other table, with a composite key or a key of another type, has row
ids of the engine's own, because WITHOUT ROWID is commented out
(`TableBuilder.h:192-195`). A row deleted and inserted again is then a new row,
usually the last, and a loop comes to it again; the model puts a new row before or
after the cursor (`Put`) and takes the rows ahead in any order (`NextKeys`). What a
loop still promises is that no *row* comes twice and that those that stayed all come.

### Schema

`handle` is `m_db` (`null`, `open`, `broken` for a failed `sqlite3_open`,
`closed` for the pointer that `close` leaves behind, `misused` once a freed
handle is closed again). `catalog` is what the file holds; `cached` are
`tableExistsStatement` and `indexExistsStatement` with whether they still fit
the schema. Database::open, `create`, `clear` and `deleteElement` walk a list of
elements; `pass` is where the walk stands, because a failure, and another
connection, may come between the check for an element and its CREATE (`Check`,
`Make`), and between one element and the next. `tx` is a transaction of the
application, kept to one level here: a rollback takes DDL back. `Faults` says
what else happens: refused statements, rollbacks, DDL of the application's own
through `exec`, another connection, an explicit `close`. `foreign`, and `base` and
`clean` of a pass, are history.

An error in a catalog query is not an exception but the end of the program:
`selectScalar` throws with its iterator alive, the iterator's destructor resets
the failed statement and throws as well (`CheckTerminates`, `tableExists`).

### Conversions, Reflection, SetColumns

Integers keep their width: the columns and the 64-bit types (`int`, `uint`) hold
`2 * Half` values, the narrower ones `2 * NarrowHalf`; casts are modulo these. Of
the narrower types `short` is signed, of 8, 16 or 32 bits, `word` unsigned of 32,
`byte` unsigned of 8 or 16. Unsigned values of 32 and 64 bits are stored with the
sign bit flipped, others as they are. A bool is 0 or 1, an
enum the integer under it. A blob is a number that tells it from others, 0 the
empty one, which is bound with a null pointer and so stored as NULL. A text is a
number too; `2n` and `2n + 1` differ in case only, which the columns of texts do not
see (COLLATE NOCASE); no text has a zero byte. A decimal is its bits, cast to
the signed type. A time is counted in ticks of `Tick` nanoseconds, one or more, and
only times whose nanoseconds fit are values. `Missing` is NOT NULL, which every
column has but those of blobs and optionals.

A structure is the sequence of its members, a field or a structure; a field is
known by its path. `forEachFieldType` (the walk of the query builders),
`forEachFieldValue` (the walk of bind and get) and `findTransparentFieldIndex`
(the lookup of a member pointer) are three separate pieces of code that number
fields; each is translated on its own. `Structs` are the structures of a program,
with all those nested in them, and `Nesting` says how many levels each has, which
is what a class that cannot be its own member gives.

In `SetColumns` the structure stored is `Record`; `TypeIndex`, `ValueIndex` and
`PointerIndex` are the numbers that the two walks and the lookup give its fields,
and `valueFilterOf` runs the loop of `valueFilter` over them.

A query is a function from the fields it names to the numbers
of their parameters (`Parametized`, `Sequential`, `Inserted`), a bind is a function
from parameters to values, and `Left` fills each parameter the call does not
bind, as an earlier call's value would. `idPtrs` is chosen when the Set is made.
`insertWithoutId` is AutoincrementSet::insert: it stores all columns but the id
and puts the engine's row id, cast and not converted, into the object. The id may
be of any integral type (`HasId`), as `AutoincrementSet.h:9` has it, while a row id
always has 64 bits (`Ids`): after the largest the engine answers SQLITE_FULL and
`insert` throws (`Spent`), and an id of a narrower type is cut off by the cast
(`IdCast`) once the row ids exceed it. `IdsFit` says that this has not happened:
the sequence is what some value of the id's type is stored as. The properties
about the values of columns hold while it does, and say so.

Assumed of a Set: no field is named twice in a tuple (`IndexFilter.h:27-35`
refuses it), an Updater does not write key columns, and no key column is a text
(keys that differ in case only would be one row) or can be NULL: an empty blob
or an empty optional is NULL, and their columns are made without NOT NULL
(`TableBuilder.h:99-118`). SQLite takes any number of rows with a NULL in a
primary key that is not the row id, and `WHERE key=NULL` finds none of them, so
that such a Set is no map.

An INSERT with a filter (`QueryBuilder.h:101`) lists the columns in the order of
the structure and the parameters in the order of the filter. The library calls
it only with the ascending `valueFilter`; a caller of
`buildParameterizedInsertQuery` must keep to ascending filters.

## 3. Runs

| Run | Checks | Instance |
|---|---|---|
| `TransactionsLeaky` | `TypeOK`, `LevelFollowsCalls`, `RunOwnsSavepoint`, `CallsMatchStack`, `ExceptionRollsBack`, `NoEarlyCommit` | depth 3, at most 4 savepoints, both kinds of exception, a caller that never rolls back |
| `TransactionsRecovering` | `NothingLeftBehind`, `OutermostCommits`, `RefinesAtomicRun` | depth 2, two rows, names of the caller's own, std::exceptions, a caller that rolls back |
| `AutoincrementAborts` | `ITypeOK`, `IdentityKept`, `AssignedIdIsOwn`, `ReturnReleasesOwn` | two objects, one id, depth 2, both kinds of exception, the engine may abort the transaction |
| `Statements` | `TypeOK`, `HandlesOwned`, `SavedValuesKept`, `ParametersIntact`, `IdleIsReady`, `IteratorKeepsPlace` | two objects, two handles, two iterators, queries of two parameters, three cells, one text of the caller's |
| `SetCalls` | `TypeOK`, `StatementsReusable`, `LoopSeesTable`, `RefinesKeyedSet` | two keys of one INTEGER column, two columns of which an Updater writes one, one loop, busy steps |
| `SetLoop` | `LoopSeesTable`, `FailureChangesNothing`, `LoopEnds` | three keys that are not the row ids, one loop, busy steps, schema changes |
| `Schema` | `TypeOK`, `StaleOnlyByForeign`, `PassExact` | two tables, an index on one, registered with the other table between; every fault |
| `Columns` | `TypeOK`, `NumbersAgree`, `OrderKept`, `IndexSelects`, `AssignedIdFinds`, `RefinesKeyedSet` | a structure of eleven fields, two of them nested, every kind of field; keys of two fields, of a 64-bit id and of a narrow one; key, updater and index tuples out of order |
| `SetNestedLoops` | `LoopEnds` is violated | two nested loops |
| `SetFindWedged` | `FindAnswers` is violated | one busy find |
| `SchemaRollback` | `Survives` is violated | rollbacks only |
| `ColumnsUnsignedId` | `AssignedIdFinds` is violated | the same structure with an unsigned id |

**Bounds.** `MaxDepth` bounds the nesting of calls: depth 3 lets a failed run
stand between a caller and a callee, which is what the savepoint properties are
about. `MaxStack` bounds leaked savepoints: one more than the depth gives every
level a leaked one below it. The guards on them stop a call from being made;
they never stop one from being left. One row is enough to see contents restored
or not; two tell a partial restoration apart. Three keys give a loop a row
before, at and after its cursor; they are not what ends the loop, because a body
may delete and insert them for ever (see Fairness). `MaxLoops` bounds how deep
loops nest.

`Schema` has no bound but its three elements: a table with an index, so that a
drop takes two objects away, and a table with nothing, so that a pass has an
element before and after. One id is enough for `AutoincrementAborts`: it is given
out, rolled back, given to the other object, committed and deleted, and must not
come back; when it is used up every insert throws. In `Statements` two objects
give a move its two ends, two handles let each own one, two iterators share or
exchange a statement; with two parameters one can be bound and the other left;
of three cells two are in use and one free, and a cell is written again. A
`bindConverted` that finds neither a free cell nor one on the heap is stopped by the
bound. Objects, handles, cells, texts and iterators, and the objects of
`AutoincrementAborts`, are only told apart, so that permuting them is a symmetry;
neither run checks liveness.

`Half` is 4 and `NarrowHalf` 2: two widths, each with a sign bit and more than one
value on either side of it; `Tick`, 2, makes nanoseconds and ticks differ.
`Given` holds structures with fields at the ends of their ranges, an empty blob
and an empty optional, and a text in two cases; each field that some query can
mix up with another differs from it in one of them. `MaxRows`, 2, lets an update
or delete hit the wrong row. Row ids run to `Half - 1`, the maximum of the 64-bit
type: a key given as the maximum leaves none for `insert`, and the key of type
`short`, whose maximum is 1, has its second assigned id cut off. The structures on
which `NumbersAgree` compares the walks are up to three members wide and three
levels deep.

The theorems of section 5 hold for all values of these constants.

**Fairness.** Only `SetLoop` and `SetNestedLoops` use any: `FairSpec` asks that
a range-for whose body returns goes on to its next increment or to its end
(`LoopAdvances`). Nothing makes the body call anything, and nothing makes an
exception happen or not. What the body does is not the library's: `LoopEnds` has a
condition, that the body does not for ever put new rows ahead of the cursor
(`PutAhead`). Any finite number of such inserts is allowed, and any number of
updates, deletes and inserts behind it. Without the condition `SetLoop` finds the
loop that deletes and inserts rows for ever. In `SetNestedLoops` nothing needs to
be inserted, and still the outer loop does not end.

**Deadlock.** It is checked for the transactions, the ids and the columns. A
Set's process may end in `std::terminate` (`alive` is FALSE), after which nothing
happens, and so may one that uses Statements and iterators, or a Database's, or
it may have misused a freed handle; the `Set...`, `Statements` and `Schema...`
configurations switch the check off.

## 4. What the violated properties say

* **Nested loops never end** (`SetNestedLoops`). The iterators of a Set share
  one statement, and the end of the inner loop resets it (`Set.h:72-75`,
  `HeterogeneousIterator.h:66-76`).
* **One busy find breaks all later ones** (`SetFindWedged`). `selectValue` does
  not reset the statement when the step throws (`Set.h:218-225`).
* **A rollback of DDL ends the program at the next catalog query**
  (`SchemaRollback`). `invalidateScheme` is called after DDL, not after a rollback
  that takes DDL back; the cached statement fails, and the failure terminates.
  An application that rolls back DDL must call `invalidateScheme()`. Rollbacks are
  one of the four things that can do it: `SurvivesOwnChanges` proves that nothing
  the wrapper does by itself can.
* **An unsigned id does not find its object** (`ColumnsUnsignedId`).
  `AutoincrementSet::insert` casts the row id into the object; `find` converts it
  by flipping the sign bit (`AutoincrementSet.h:125`, `Bind.h:29-45`), which it does
  for unsigned types of 32 and 64 bits. Signed 64-bit ids are right up to the largest
  row id: `Columns` checks them, and `AssignedIdCorrect` with `WideIdsFit` proves it.
  Signed ids of fewer bits, and unsigned ones of 8 and 16, are right only until the
  row ids exceed their range, see below.

Some more follow from the code and need no run; an application should know
them:

* An id narrower than 64 bits is cut off by the cast once the row ids exceed its
  range, `find` with it finds nothing or another row, and no error tells
  (`AutoincrementSet.h:120-126`). One `insertWithId` with the largest value of the
  type is enough: the next `insert` gets a row id beyond it. After the largest
  64-bit row id every `insert` throws (SQLITE_FULL).

* A range-for whose body goes on putting rows ahead of the cursor does not end.
  With an integer key that is an insert of a greater key on every turn, as
  `AutoincrementSet::insert` does. With any other key a body that deletes its row
  and inserts it again is enough, because the row comes back with a new row id
  (`TableBuilder.h:192-195`): the loop delivers it again.

* An explicit `close` is followed by a second one: `close` leaves `m_db` as it is and
  the destructor calls it again (`Database.h:28-31`), on a freed handle.
  `HandleClosedOnce` of `Schema` names the state, and `ClosedOnce` proves that a
  program that never calls `close` does not come to it.

* A `tryRun` that fails and rolls back keeps its savepoint, and with it the
  transaction (`Database.h:131-136`). If the application only catches the
  exception, the next `tryRun` returns normally and its RELEASE is an inner
  one: nothing is committed. It must call `rollback()` when an exception reaches it;
  with that discipline everything is proved (section 5).
* One savepoint name at two levels makes the outer rollback stop at the
  savepoint that a failed inner call left behind (`Database.h:114`).
* An exception that is not a `std::exception` passes `tryRun` by, and nothing is
  rolled back, although the comment at `Database.h:112` says "A thrown exception
  causes rollback"; the model has this (`RunUnwinds`), and the properties promise
  nothing about it.
* `tryexec` takes any SQLITE_ERROR for a constraint violation
  (`Statement.h:151-158`): `tryinsert` answers false for a free key when its
  statement is out of date. The model has this, and `SetRefinement` excludes it by
  assuming that the schema stands.
* A failed step of a loop, or of a scalar query, terminates the program, as in a
  catalog query.
* `it = begin()` over the statement that `it` is on starts over: the right-hand
  side takes its first step, then the assignment resets the statement
  (`HeterogeneousIterator.h:29-38`). The rule `MayIterate` forbids it.
* A converted value is saved before its bind may be refused (`Statement.h:314`),
  and stays in `usedValues` until some step; destroying the object then trips an
  assertion, or leaks the cell in a release build (`destroy`).
* Move assignment of a Statement, and `open` on an open one, overwrite a handle
  without finalizing it (`Statement.h:49-60`).
* A NaN is bound as NULL (`Bind.h:49`): `insert` throws at NOT NULL, and `tryinsert`
  answers false as if the key were there.
* Texts compare without case unless a constraint says otherwise
  (`TableBuilder.h:129`): a primary key of texts takes "a" and "A" for one. A text
  is stored up to its first zero byte (`Bind.h:81`).
* Times are cast to nanoseconds: coarse ones beyond the range overflow, which is
  undefined, and ticks finer than a nanosecond are truncated (`Bind.h:97`).
* The bits of a decimal come back, but SQL does not compare them as the program
  compares decimals.
* The columns of a nested field `a.b` and of a field `a_b` have one name
  (`Helpers.h:341-355`); creating such a table fails.
* A Set of key columns only has no select statement, so that `find` on it always
  throws (`Set.h:44-50`; `Prepared` in the model).
* Move assignment of a Database overwrites its handle without closing it and
  leaves the level and the cached statements (`Database.h:44-49`); opening an open
  Database loses its handle. Nothing in the library does either.
* `AutoincrementSet::tryinsert` does not compile when it is used: it takes the
  result of `exec`, which is void (`AutoincrementSet.h:57`).

## 5. Theorems

All proofs are checked by tlapm; none is left out. The assumptions are in the
statements.

**Transactions.** `TypeCorrect` and `LevelCorrect` hold without any assumption:
whatever throws, the level counts the open `tryRun` calls. `SavepointsCorrect`,
`StackCorrect`, `RollbackCorrect` and `NoEarlyCommitCorrect` assume that no
name belongs to two levels (`NamesDisjoint`, true of the default names) and
that the engine does not abort the transaction by itself. The inductive
invariant is `CallsMatchStack`: each open run has its savepoint at its `mark`,
in call order, and *everything above it on the engine's stack was made at a
deeper level*. That last part is why leaked savepoints do no harm: a level that
is used again can only meet leaked savepoints of its own or deeper levels, and
RELEASE and ROLLBACK TO act on the most recent one of a name.
`ReturnCorrect` needs `NamesDisjoint` only, and so covers an engine that rolls
everything back inside a body. Savepoints then vanish from under open runs and
`CallsMatchStack` fails; what remains is `OwnOrLost`: an open run still has its
savepoint where it was put, *or everything on the stack was made at a deeper
level*. In the second case no savepoint bears its name, RELEASE fails, and the run
throws instead of reporting success.
`NothingLeftBehindCorrect`, `CommitCorrect` and `Refinement` assume in addition
(`Discipline`) that bodies throw std::exceptions and that the application rolls
back whatever reaches it. `Refinement` is the strongest: `Transactions`
implements `AtomicRun`, with the mapping `Promised`: while an exception is in
the hands of an application that will roll back, the contents count as the
durable ones.

**AutoincrementIds.** `IdsImplementTransactions` shows that its behaviours are
behaviours of `Transactions`, so that all of the above holds there too.
`IdentityCorrect` and `AssignedCorrect` hold for any number of objects and ids,
any exceptions and aborts. `IdentityKept` alone is not inductive: a rollback may
bring back any contents that were saved, so that the invariant `IdsInv` asks of *all*
of them, the durable ones, the current ones and each savepoint's, that they agree with every
row that was ever committed and have its id among the used ones (`Agrees`). It is
AUTOINCREMENT that keeps it: the same run finds ids that come back when the
sequence is left out. `"std" \in Thrown` is assumed: a statement can fail.

**Statements.** `OwnershipCorrect`, `SavedValuesCorrect`, `ParametersCorrect`,
`IdleCorrect` and `PlaceCorrect` hold for any number of objects, handles,
parameters, cells and iterators. The five properties lean on each other, so
that they are proved from one invariant: no two objects share a handle
(`HandlesApart`) or a cell (`CellsApart`), no two iterators are over one object
(`OneIterator`), and for each object what its statement's parameters point to, which of
them may have been overwritten and which phase it may be in (`StatementOK`,
`IteratorOK`). That saved values are freed at the first step and still read
correctly follows from `InUse`: after the step only a statement on a row reads them,
and on a row nothing is saved.

**Set.** `SetTypeCorrect`, `ReusableCorrect` and `FailureSafe` hold for every
choice of failures. They rest on one lemma, `Effects`: what any method does to
statements, answer and table. `SetRefinement` (a Set implements `KeyedSet`)
assumes that the schema does not change. `LoopCorrect` assumes `MaxLoops <= 1`,
which `SetNestedLoops` shows to be necessary, and covers both kinds of key; its invariant
`LoopInv` says that while the iterator holds a row the statement is on one, that
what was delivered is behind the cursor, and that of the rows that stayed those
behind the cursor were delivered.

**Schema.** `SchemaTypeCorrect`, `CacheCorrect` and `PassCorrect` assume nothing
beyond the types of the constants: any tables, indexes, registration order and
faults. `CacheCorrect` classifies each step by what it does to the cache;
`PassCorrect` needs that an index's table, and so the indexes a DROP takes
along, are a function of the element alone, and carries the list of elements
made so far from one step to the next (`DoneGrows`). `SurvivesOwnChanges` is the
other side of the violated run: as long as no statement is refused, no DDL is
rolled back or made through `exec`, and no other connection makes any, the
process is never ended by a catalog query, whatever is created, dropped and
reopened. Its invariant is that no cached statement is out of date between
calls. `ClosedOnce` assumes that the program does not call `close`.

**Reflection.** `NumbersCorrect`: for every set of structures, however they
nest, the walk over types, the walk over values, `fieldCount` and the lookup of
a member pointer give each field the count of the fields declared before it, and
each walk calls its function once for each field. The definitions are recursive
functions, in the depth of structures and, within one, in its members. The
library's theorems for recursive functions and induction take operators, so that
what is needed of them is stated over sets and functions and proved here. A
recursive function is a CHOOSE of a solution of `f = Phi[f]`; `Recursion` shows
that there is exactly one when `Phi` looks only at what has a smaller measure
(`Causal`; the measure is `Nesting`, or the index of a member). Induction is
over a set of those for which the claim holds (`UpTo` over the members of one
structure, `Structural` over structures), which has no least exception. The
invariant of all three loops is `First(s, i)`, the fields of the first `i`
members: a loop has then counted `Cardinality(First(s, i))` (`Counts`), and a
field's number is that of the members before its own plus its number in its own
(`Rank`). `Distinct` adds that the numbers are those below `fieldCount`, each
given once.

**Conversions** (in `SetColumnsProofs`). `RoundTrip`: for any widths and any tick, a
value of every type that is bound is read back as it was. `Ordered`: integers of every
kind, and times, are stored in their order.

**SetColumns.** `ColumnsTypeCorrect`, `FiltersCorrect`, `OrderCorrect` and
`IndexCorrect` hold for every structure, nested in any way, every tuple of keys,
of an Updater and of an index, and every set of values. What they say of the values
in columns they say while `IdsFit`; `WideIdsFit` proves that with ids of 64 bits it
always holds, and `BasicsStep` that once lost it does not come back. That the three
numberings are one (`OneNumbering`) follows from `NumbersCorrect` and
`Distinct`; that `valueFilter` has, in ascending order, the numbers that are not
keys (`FilterOrder`) is the invariant of its loop (`RemainingAscend`). Both make
up `FiltersCorrect`, the theorem of `NumbersAgree`. `ColumnsRefinement` and
`AssignedIdCorrect` assume `PlainIds`, ids of types whose values are stored as they
are, which `ColumnsUnsignedId` shows to be necessary: an id that is cast into an
object finds its row only if binding it gives the row id back. `RefinesKeyedSet` asks
of each step after which the ids fit that it is one of `KeyedSet`, so that it says
nothing from the step on that gives out a row id beyond the type. In `KeyedSet` an
insert that chooses its key (`AutoInsert`) may fail only when no key is left
(`spent`). `ColumnsInv` says that a column holds what some value of
its field's type is stored as; with `RoundTrip` that excludes leftovers. For the
refinement `MapInv` adds that no two rows have one key and that no id is beyond
the sequence. The steps are that each call's parameters hold its key
(`KeysHeld`), that WHERE then selects the rows with that key and no other
(`WhereFinds`), and what is stored is read back as the value given, merged with
the old one in an Updater (`ChangedWhole`, `ChangedPart`, `IdInsert`). That an
INSERT with the value filter has its parameters in the order of its columns, for
any keys, is `InsertedInOrder`.

Only model-checked: `LoopEnds`, with the condition that section 3 gives (Fairness),
because liveness is out of the prover's reach. Every
other property of a passing run is stated by a theorem.

## 6. What is left

In this order, next:

1. Closing a Set, or destroying it, under a live loop.
2. Moves of a Database, and a Database that is opened twice: what follows is said in
   section 4, nothing in the library does it.
3. Interleaved inserts of two AutoincrementSets of one connection whose calls
   are interrupted between `exec` and `assignLastRowId`: within one thread nothing runs
   there, so that this matters to triggers only.

Not modelled:

* the wording of queries, DDL and log messages, joins, views, limits and column
  constraints of the program's own: texts that the engine parses, not behaviour of
  the wrapper;
* floating point, and times whose nanoseconds do not fit: the first is the
  engine's, the second undefined;
* tuples as records (`Bind.h`, `Get.h`): the same walk as a structure without names;
* `AutoincrementSet::tryinsert` and the move assignments of Set and
  AutoincrementSet, which do not compile when they are used;
* the exception classes (a code and a message), the tests (read as statements
  of what is promised), and the Awl library except as its use shows.
