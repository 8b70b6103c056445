------------------------------- MODULE Schema -------------------------------
(***************************************************************************)
(* The life of a sqlite::Database and of its schema: opening and closing   *)
(* the connection (Database.cpp:10-31), creating and dropping the          *)
(* registered tables and indexes one by one (Scheme.h, *Instantiator.h),   *)
(* and the two cached statements with which the catalog is asked whether   *)
(* a table or an index exists (Database.cpp:48-113, Database.h:222-227).   *)
(*                                                                         *)
(* A cached statement is prepared for one schema; after any change it      *)
(* fails, and an error in a catalog query ends in std::terminate, because  *)
(* the iterator inside selectScalar throws from its destructor. So every   *)
(* change must close the cached statements.                                *)
(***************************************************************************)
EXTENDS Integers, Sequences

CONSTANTS
    Tables,
    Indexes,
    TableOf,        \* the table of each index
    Registered,     \* the elements subscribed to the Database, in order
    Faults          \* what may happen besides the calls of the wrapper:
                    \* "busy": the engine refuses a statement;
                    \* "rollback": a transaction is rolled back;
                    \* "raw": the application runs DDL with Database::exec;
                    \* "others": another connection changes the schema;
                    \* "close": the application calls Database::close

Objects == Tables \cup Indexes

ASSUME SchemaAssumption ==
    /\ Tables \cap Indexes = {}
    /\ TableOf \in [Indexes -> Tables]
    /\ Registered \in Seq(Objects)
    /\ Faults \subseteq {"busy", "rollback", "raw", "others", "close"}

VARIABLES
    handle,         \* Database::m_db; "closed": the pointer of a freed handle;
                    \* "misused": a freed handle was closed again
    catalog,        \* the tables and indexes in the file
    cached,         \* tableExistsStatement and indexExistsStatement
    foreign,        \* history: since each was prepared, the schema has been
                    \* changed other than by a call of the wrapper
    tx,             \* an open transaction, and what it would restore
    pass,           \* the notification of the elements that is under way
    held,           \* a Set has statements on the connection
    alive           \* FALSE once std::terminate has been called

vars == <<handle, catalog, cached, foreign, tx, pass, held, alive>>

Kinds == {"table", "index"}

Kind(e) == IF e \in Tables THEN "table" ELSE "index"

\* Lists that are created or deleted: all registered elements, or one by hand.
Lists == {Registered} \cup {<<e>> : e \in Objects}

\* "next" is the element whose turn it is, "checked" says that it was found
\* missing. History: the catalog at the start, and whether only this pass has
\* changed it since.
Pass == [op : {"create", "delete"}, list : Lists, next : Nat \ {0}, checked : BOOLEAN,
         base : SUBSET Objects, clean : BOOLEAN]

NoPass == [op |-> "none"]

Transaction == [open : BOOLEAN, catalog : SUBSET Objects, changed : BOOLEAN]

NoTransaction == [open |-> FALSE, catalog |-> {}, changed |-> FALSE]

TypeOK ==
    /\ handle \in {"null", "open", "broken", "closed", "misused"}
    /\ catalog \in SUBSET Objects
    /\ cached \in [Kinds -> {"none", "fresh", "stale"}]
    /\ foreign \in [Kinds -> BOOLEAN]
    /\ tx \in Transaction
    /\ pass = NoPass \/ (pass \in Pass /\ pass.next <= Len(pass.list) + 1)
    /\ held \in BOOLEAN
    /\ alive \in BOOLEAN

\* An index stands on a table.
Consistent(c) == \A i \in Indexes \cap c : TableOf[i] \in c

NoneCached == [k \in Kinds |-> "none"]

Init ==
    /\ handle = "null"
    /\ catalog \in {c \in SUBSET Objects : Consistent(c)}
    /\ cached = NoneCached
    /\ foreign = [k \in Kinds |-> FALSE]
    /\ tx = NoTransaction
    /\ pass = NoPass
    /\ held = FALSE
    /\ alive = TRUE

-----------------------------------------------------------------------------
(* The engine and the cache.                                               *)

\* A changed schema makes every statement prepared before fail.
Expired == [k \in Kinds |-> IF cached[k] = "none" THEN "none" ELSE "stale"]

\* Mutant: only one of the two statements is closed.
invalidateTables(c) == [c EXCEPT !["table"] = "none"]

invalidateScheme(c) == [k \in Kinds |-> "none"]

Added(c, e) == c \cup {e}

\* A table takes its indexes with it.
Removed(c, e) == c \ ({e} \cup {i \in Indexes : TableOf[i] = e})

CanMake(e) == e \notin catalog /\ (e \in Indexes => TableOf[e] \in catalog)

\* DDL through the wrapper: exec, then invalidateScheme.
Define(c) ==
    /\ catalog' = c
    /\ cached' = invalidateScheme(IF c = catalog THEN cached ELSE Expired)
    /\ tx' = [tx EXCEPT !.changed = @ \/ (tx.open /\ c # catalog)]
    /\ UNCHANGED foreign

\* DDL from elsewhere: nobody closes the cached statements.
ForeignChange(c) ==
    /\ catalog' = c
    /\ cached' = Expired
    /\ foreign' = [k \in Kinds |-> TRUE]

-----------------------------------------------------------------------------
(* Passes: Element::create and Element::deleteElement of each element.     *)

Idle == pass = NoPass

Ready == alive /\ handle = "open"

InPass(op) == pass.op = op /\ pass.next <= Len(pass.list)

Turn == pass.list[pass.next]

Start(op, list, c) ==
    pass' = [op |-> op, list |-> list, next |-> 1, checked |-> FALSE, base |-> c, clean |-> TRUE]

\* Mutant: the pass skips an element.
NextElementSkips == pass' = [pass EXCEPT !.next = @ + 2, !.checked = FALSE]

NextElement == pass' = [pass EXCEPT !.next = @ + 1, !.checked = FALSE]

\* An exception ends the pass; what it made stays.
Abandon == pass' = NoPass

create ==
    /\ Ready /\ Idle
    /\ \E list \in Lists : Start("create", list, catalog)
    /\ UNCHANGED <<handle, catalog, cached, foreign, tx, held, alive>>

\* Database::clear, Scheme::deleteElement, or one element by hand.
clear ==
    /\ Ready /\ Idle
    /\ \E list \in Lists : Start("delete", list, catalog)
    /\ UNCHANGED <<handle, catalog, cached, foreign, tx, held, alive>>

\* tableExists and indexExists: prepare if needed, then ask.
Asked(k) ==
    /\ cached[k] # "stale"
    /\ cached' = [cached EXCEPT ![k] = "fresh"]
    /\ foreign' = [foreign EXCEPT ![k] = @ /\ cached[k] = "fresh"]

Check ==
    /\ Ready
    /\ InPass("create")
    /\ ~pass.checked
    /\ Asked(Kind(Turn))
    /\ IF Turn \in catalog THEN NextElement ELSE pass' = [pass EXCEPT !.checked = TRUE]
    /\ UNCHANGED <<handle, catalog, tx, held, alive>>

\* The statement cannot be prepared; nothing is cached.
CheckThrows ==
    /\ Ready
    /\ "busy" \in Faults
    /\ InPass("create")
    /\ ~pass.checked
    /\ cached[Kind(Turn)] = "none"
    /\ Abandon
    /\ UNCHANGED <<handle, catalog, cached, foreign, tx, held, alive>>

\* Its step fails: the destructor of the iterator in selectScalar throws.
CheckTerminates ==
    /\ Ready
    /\ InPass("create")
    /\ ~pass.checked
    /\ cached[Kind(Turn)] = "stale" \/ "busy" \in Faults
    /\ alive' = FALSE
    /\ UNCHANGED <<handle, catalog, cached, foreign, tx, pass, held>>

\* Mutant: an error of CREATE is ignored.
MakeIgnored ==
    /\ Ready
    /\ InPass("create")
    /\ pass.checked
    /\ NextElement
    /\ UNCHANGED <<handle, catalog, cached, foreign, tx, held, alive>>

\* CREATE, without IF NOT EXISTS.
Make ==
    /\ Ready
    /\ InPass("create")
    /\ pass.checked
    /\ CanMake(Turn)
    /\ Define(Added(catalog, Turn))
    /\ NextElement
    /\ UNCHANGED <<handle, held, alive>>

\* CREATE fails: refused, no table to stand on, or made by somebody else
\* after the check.
MakeThrows ==
    /\ Ready
    /\ InPass("create")
    /\ pass.checked
    /\ ~CanMake(Turn) \/ "busy" \in Faults
    /\ Abandon
    /\ UNCHANGED <<handle, catalog, cached, foreign, tx, held, alive>>

\* DROP IF EXISTS.
Drop ==
    /\ Ready
    /\ InPass("delete")
    /\ Define(Removed(catalog, Turn))
    /\ NextElement
    /\ UNCHANGED <<handle, held, alive>>

DropThrows ==
    /\ Ready
    /\ "busy" \in Faults
    /\ InPass("delete")
    /\ Abandon
    /\ UNCHANGED <<handle, catalog, cached, foreign, tx, held, alive>>

\* The call that started the pass returns.
Finish ==
    /\ Ready
    /\ ~Idle
    /\ pass.next = Len(pass.list) + 1
    /\ Abandon
    /\ UNCHANGED <<handle, catalog, cached, foreign, tx, held, alive>>

PassStep == create \/ clear \/ Check \/ CheckThrows \/ CheckTerminates \/ Make \/ MakeThrows
            \/ Drop \/ DropThrows \/ Finish

-----------------------------------------------------------------------------
(* The application, between passes.                                        *)

tableExists(k) ==
    /\ Ready /\ Idle
    /\ \/ /\ Asked(k)
          /\ UNCHANGED alive
       \/ /\ cached[k] = "stale" \/ "busy" \in Faults
          /\ alive' = FALSE
          /\ UNCHANGED <<cached, foreign>>
    /\ UNCHANGED <<handle, catalog, tx, pass, held>>

begin ==
    /\ Ready /\ Idle
    /\ ~tx.open
    /\ tx' = [open |-> TRUE, catalog |-> catalog, changed |-> FALSE]
    /\ UNCHANGED <<handle, catalog, cached, foreign, pass, held, alive>>

commit ==
    /\ Ready /\ Idle
    /\ tx.open
    /\ tx' = NoTransaction
    /\ UNCHANGED <<handle, catalog, cached, foreign, pass, held, alive>>

\* A rollback that takes back DDL changes the schema once more.
rollback ==
    /\ "rollback" \in Faults
    /\ Ready /\ Idle
    /\ tx.open
    /\ IF tx.changed THEN ForeignChange(tx.catalog) ELSE UNCHANGED <<catalog, cached, foreign>>
    /\ tx' = NoTransaction
    /\ UNCHANGED <<handle, pass, held, alive>>

\* The application makes or drops an object with exec.
RawDDL ==
    /\ "raw" \in Faults
    /\ Ready /\ Idle
    /\ \E e \in Objects :
         \/ CanMake(e) /\ ForeignChange(Added(catalog, e))
         \/ e \in catalog /\ ForeignChange(Removed(catalog, e))
    /\ tx' = [tx EXCEPT !.changed = tx.open]
    /\ UNCHANGED <<handle, pass, held, alive>>

\* Another connection does, also in the middle of a pass; not while this
\* connection has a transaction open.
OtherConnection ==
    /\ "others" \in Faults
    /\ alive
    /\ ~tx.open
    /\ \E e \in Objects :
         \/ CanMake(e) /\ ForeignChange(Added(catalog, e))
         \/ e \in catalog /\ ForeignChange(Removed(catalog, e))
    /\ pass' = IF Idle THEN pass ELSE [pass EXCEPT !.clean = FALSE]
    /\ UNCHANGED <<handle, tx, held, alive>>

Sets ==
    /\ Ready /\ Idle
    /\ held' = ~held
    /\ UNCHANGED <<handle, catalog, cached, foreign, tx, pass, alive>>

-----------------------------------------------------------------------------
(* The connection.                                                         *)

\* open, or the constructor with a file name.
open ==
    /\ alive
    /\ Idle
    /\ handle \in {"null", "closed"}
    /\ \/ /\ handle' = "open"
          /\ Start("create", Registered, catalog)
       \/ /\ handle' = "broken"      \* sqlite3_open fails, with a handle
          /\ UNCHANGED pass
    /\ UNCHANGED <<catalog, cached, foreign, tx, held, alive>>

\* What close() leaves in m_db: sqlite3_close refuses while there are
\* statements, and the pointer is never cleared.
Closed == IF handle \in {"closed", "misused"} THEN "misused" ELSE IF held THEN handle ELSE "closed"

\* Closing the connection rolls an open transaction back.
Disconnect ==
    /\ cached' = invalidateScheme(cached)
    /\ catalog' = IF tx.open /\ ~held THEN tx.catalog ELSE catalog
    /\ tx' = IF held THEN tx ELSE NoTransaction

close ==
    /\ "close" \in Faults
    /\ alive
    /\ Idle
    /\ handle # "null"
    /\ handle' = Closed
    /\ Disconnect
    /\ UNCHANGED <<foreign, pass, held, alive>>

\* ~Database calls close; Sets share the Database, so none is left. Another
\* Database may be made afterwards.
destroy ==
    /\ alive
    /\ Idle
    /\ ~held
    /\ IF handle \in {"closed", "misused"} THEN handle' = "misused" ELSE handle' = "null"
    /\ Disconnect
    /\ UNCHANGED <<foreign, pass, held, alive>>

AppStep == (\E k \in Kinds : tableExists(k)) \/ begin \/ commit \/ rollback \/ RawDDL \/ Sets
           \/ open \/ close \/ destroy

Next == PassStep \/ AppStep \/ OtherConnection

Spec == Init /\ [][Next]_vars

-----------------------------------------------------------------------------
(* Properties.                                                             *)

\* "Creating a table invaidates prepared statements." (Database.cpp:52): no
\* call of the wrapper, whatever fails in it, leaves a cached catalog statement
\* that is prepared for an older schema; only a rollback, DDL through exec or
\* another connection can, and only until the statement is prepared again.
StaleOnlyByForeign == \A k \in Kinds : cached[k] = "stale" => foreign[k]

\* A pass that nobody interferes with has, at every point and so also where it
\* throws, made exactly its first elements on top of what was there, or
\* dropped exactly those (Database.cpp:19, Database.h:55-58, Scheme.h:24-32):
\* when it returns all of them exist, or none.
PassExact ==
    pass # NoPass /\ pass.clean =>
        LET done == {pass.list[j] : j \in 1..(pass.next - 1)} IN
        IF pass.op = "create"
        THEN catalog = pass.base \cup done
        ELSE catalog = pass.base \ (done \cup {i \in Indexes : TableOf[i] \in done})

\* Closing the cached statements after CREATE TABLE (Database.cpp:52,
\* Database.h:222) is enough for the catalog queries to go on working, and an
\* error in one is an exception (Statement.h:138): the program never ends in
\* std::terminate.
Survives == alive

\* A handle is closed once: the destructor may follow an explicit close, as in
\* Tests/DbContainer.h:39-43.
HandleClosedOnce == handle # "misused"
=============================================================================
