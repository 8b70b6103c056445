--------------------------- MODULE SetOperations ----------------------------
(***************************************************************************)
(* A sqlite::Set (Set.h), with the prepared statements it keeps            *)
(* (Statement.h), its Updater (Updater.h) and the iterators over it        *)
(* (Iterator.h, HeterogeneousIterator.h).                                  *)
(*                                                                         *)
(* A Set prepares one statement per operation when it is built and uses it *)
(* for every call. A prepared statement is a little machine: it can be     *)
(* bound only while it is ready, a step leaves it on a row, done or        *)
(* failed, and only a reset makes it ready again. What is at stake is that *)
(* every call, also one that throws, leaves its statement usable, and that *)
(* the loops that share the one iterate statement see the table.           *)
(*                                                                         *)
(* The iterate statement has no ORDER BY. If the key is one INTEGER        *)
(* column, the engine makes it the row id and scans in its order. In any   *)
(* other table (TableBuilder.h:183-195) the row id is the engine's own: a  *)
(* new row may come before or after the cursor of a running scan.          *)
(***************************************************************************)
EXTENDS Integers, Sequences

CONSTANTS
    Keys,           \* the keys, numbered
    RowidKey,       \* whether the key is one INTEGER column
    Cols,           \* the columns that are not keys ({}: a table of keys only)
    Vals,
    UpdaterCols,    \* the columns given to createUpdater
    MaxLoops,       \* bound: how deep loops over the Set nest
    Fails           \* what may go wrong: "busy": any step is refused;
                    \* "schema": another table is created or dropped

ASSUME SetOperationsAssumption ==
    /\ Keys \subseteq Nat \ {0}
    /\ RowidKey \in BOOLEAN
    /\ UpdaterCols \subseteq Cols
    /\ MaxLoops \in Nat
    /\ Fails \subseteq {"busy", "schema"}

VARIABLES
    rows,           \* the table: a record for each key it holds
    phase,          \* the state of each prepared statement
    passed,         \* the keys whose rows are behind the iterate statement's cursor
    stale,          \* the schema changed since the statements were prepared
    loops,          \* the iterators alive, the innermost last
    answer,         \* what the last call of a method did
    alive           \* FALSE once std::terminate has been called

vars == <<rows, phase, passed, stale, loops, answer, alive>>

Records == [Cols -> Vals]
Tables == UNION {[S -> Records] : S \in SUBSET Keys}

Statements == {"insert", "update", "select", "delete", "updater", "iterate"}
Phases == {"closed", "ready", "row", "done", "failed"}

Operations == {"insert", "tryinsert", "find", "update", "updater", "delete", "trydelete"}

\* An iterator holds the record it stands on, here its key, or 0 at the end.
\* The rest is history: the keys it delivered (of other tables, those whose
\* rows are still there), whether each was greater than all before it (or not
\* among them), and the keys that have been in the table all along.
Loop == [cur : Keys \cup {0}, seen : SUBSET Keys, ordered : BOOLEAN, stayed : SUBSET Keys]

\* What a call did: it returned ("done", or the bool it returned), threw what
\* its step or ensureAffected reported, or was refused because its statement
\* cannot be bound. got: the record that was given and written, or found.
Outcomes == {"done", "true", "false", "throws", "refused"}

NoAnswer == [op |-> "none", key |-> 0, out |-> "done", got |-> {}]

TypeOK ==
    /\ rows \in Tables
    /\ phase \in [Statements -> Phases]
    /\ passed \in SUBSET Keys
    /\ stale \in BOOLEAN
    /\ loops \in Seq(Loop)
    /\ answer.op \in Operations \cup {"none"}
    /\ answer.key \in Keys \cup {0}
    /\ answer.out \in Outcomes
    /\ answer.got \in SUBSET Records
    /\ alive \in BOOLEAN

\* A table of keys only has neither an update nor a select statement.
Prepared == [s \in Statements |->
               IF Cols = {} /\ s \in {"update", "select", "updater"} THEN "closed" ELSE "ready"]

Init ==
    /\ rows \in Tables
    /\ phase = Prepared
    /\ passed = {}
    /\ stale = FALSE
    /\ loops = <<>>
    /\ answer = NoAnswer
    /\ alive = TRUE

-----------------------------------------------------------------------------
(* Prepared statements.                                                    *)

\* Statements come from sqlite3_prepare: one whose tables' schema has changed
\* is not prepared again, its first step fails for good.
Starts(s) == ~stale \/ phase[s] = "row"

StepMayFail(s) == "busy" \in Fails \/ ~Starts(s)

\* Internalexec(true) and tryexec reset the statement whatever the step said.
\* Mutant: they reset it on success only.
AfterExecOnSuccess(outcome) == IF outcome = "throws" THEN "failed" ELSE "ready"

AfterExec(outcome) == "ready"

\* Set::selectValue resets the statement after the record is read, but Next
\* throws first when the step fails.
AfterSelect(outcome) == IF outcome = "throws" THEN "failed" ELSE "ready"

Bound(s) == phase[s] = "ready"

Reply(op, k, out) == answer' = [op |-> op, key |-> k, out |-> out, got |-> {}]

\* A bind of a statement that is not ready throws "Bining error."
BindThrows(op, s, k) ==
    /\ ~Bound(s)
    /\ Reply(op, k, "refused")
    /\ UNCHANGED <<rows, phase, passed>>

Executed(op, s, k, out, given) ==
    /\ answer' = [op |-> op, key |-> k, out |-> out, got |-> given]
    /\ phase' = [phase EXCEPT ![s] = AfterExec(out)]

-----------------------------------------------------------------------------
(* The methods of Set and Updater. Each binds, steps and resets one        *)
(* statement; none of them touches the iterate statement.                  *)

Method == alive /\ UNCHANGED <<stale, alive>>

Has(k) == k \in DOMAIN rows

Kept == UNCHANGED <<rows, passed>>

\* A new row is where its key puts it, or where the engine does.
Put(k, r) ==
    /\ rows' = [x \in DOMAIN rows \cup {k} |-> IF x = k THEN r ELSE rows[x]]
    /\ \/ passed' = passed
       \/ /\ ~RowidKey /\ ~Has(k) /\ phase["iterate"] = "row"
          /\ passed' = passed \cup {k}

insert(k, r) ==
    /\ Method
    /\ UNCHANGED loops
    /\ \/ BindThrows("insert", "insert", k)
       \/ /\ Bound("insert") /\ Starts("insert") /\ ~Has(k)
          /\ Put(k, r)
          /\ Executed("insert", "insert", k, "done", {r})
       \/ /\ Bound("insert")
          /\ StepMayFail("insert") \/ Has(k)
          /\ Kept
          /\ Executed("insert", "insert", k, "throws", {})

\* tryexec answers false to any SQLITE_ERROR: a constraint, but also a stale
\* statement. Only a busy database makes it throw.
tryinsert(k, r) ==
    /\ Method
    /\ UNCHANGED loops
    /\ \/ BindThrows("tryinsert", "insert", k)
       \/ /\ Bound("insert") /\ Starts("insert") /\ ~Has(k)
          /\ Put(k, r)
          /\ Executed("tryinsert", "insert", k, "true", {r})
       \/ /\ Bound("insert")
          /\ ~Starts("insert") \/ Has(k)
          /\ Kept
          /\ Executed("tryinsert", "insert", k, "false", {})
       \/ /\ Bound("insert")
          /\ "busy" \in Fails
          /\ Kept
          /\ Executed("tryinsert", "insert", k, "throws", {})

find(k) ==
    /\ Method
    /\ UNCHANGED loops
    /\ \/ BindThrows("find", "select", k)
       \/ /\ Bound("select") /\ Starts("select")
          /\ LET out == IF Has(k) THEN "true" ELSE "false" IN
               /\ answer' = [op |-> "find", key |-> k, out |-> out,
                             got |-> IF Has(k) THEN {rows[k]} ELSE {}]
               /\ phase' = [phase EXCEPT !["select"] = AfterSelect(out)]
          /\ Kept
       \/ /\ Bound("select")
          /\ StepMayFail("select")
          /\ Reply("find", k, "throws")
          /\ phase' = [phase EXCEPT !["select"] = AfterSelect("throws")]
          /\ Kept

\* UPDATE, then ensureAffected(1).
\* Mutant: UPDATE that creates the row, as INSERT OR REPLACE would.
ChangeOrCreate(op, s, k, given, r) ==
    \/ BindThrows(op, s, k)
    \/ /\ Bound(s) /\ Starts(s)
       /\ Put(k, r)
       /\ Executed(op, s, k, IF Has(k) THEN "done" ELSE "throws", {given})
    \/ /\ Bound(s)
       /\ StepMayFail(s)
       /\ Kept
       /\ Executed(op, s, k, "throws", {})

Change(op, s, k, given, r) ==
    \/ BindThrows(op, s, k)
    \/ /\ Bound(s) /\ Starts(s) /\ Has(k)
       /\ Put(k, r)
       /\ Executed(op, s, k, "done", {given})
    \/ /\ Bound(s)
       /\ StepMayFail(s) \/ ~Has(k)
       /\ Kept
       /\ Executed(op, s, k, "throws", {})

update(k, r) ==
    /\ Method
    /\ UNCHANGED loops
    /\ Change("update", "update", k, r, r)

\* Mutant: the statement of an Updater clears the columns it was not given.
updatePartOnly(k, r) ==
    /\ Method
    /\ UNCHANGED loops
    /\ Change("updater", "updater", k, r, [c \in UpdaterCols |-> r[c]])

\* Updater::update binds the key and the chosen columns only.
updatePart(k, r) ==
    /\ Method
    /\ UNCHANGED loops
    /\ Change("updater", "updater", k, r,
              [c \in Cols |-> IF c \in UpdaterCols \/ ~Has(k) THEN r[c] ELSE rows[k][c]])

\* The cursor stays where it is; a deleted row has not stayed.
Dropped(k) ==
    /\ rows' = [x \in DOMAIN rows \ {k} |-> rows[x]]
    /\ passed' = IF RowidKey THEN passed ELSE passed \ {k}
    /\ loops' = [i \in DOMAIN loops |->
                   [loops[i] EXCEPT !.stayed = @ \ {k},
                                    !.seen = IF RowidKey THEN @ ELSE @ \ {k}]]

\* deleteElement checks that one row was affected; tryDeleteRecord does not.
Delete(op, k, strict) ==
    /\ Method
    /\ \/ BindThrows(op, "delete", k) /\ UNCHANGED loops
       \/ /\ Bound("delete") /\ Starts("delete") /\ (strict => Has(k))
          /\ Dropped(k)
          /\ Executed(op, "delete", k, "done", {})
       \/ /\ Bound("delete")
          /\ StepMayFail("delete") \/ (strict /\ ~Has(k))
          /\ UNCHANGED loops
          /\ Kept
          /\ Executed(op, "delete", k, "throws", {})

deleteElement(k) == Delete("delete", k, TRUE)

tryDeleteRecord(k) == Delete("trydelete", k, FALSE)

-----------------------------------------------------------------------------
(* Loops. All iterators of a Set step the one iterate statement.           *)

\* Mutant: every step starts the statement over.
BehindNothing == {}

\* sqlite3_step continues a running statement and restarts any other.
Behind == IF phase["iterate"] = "row" THEN passed ELSE {}

\* What a step may come to: a row ahead of the cursor, or the end.
NextKeys ==
    LET ahead == DOMAIN rows \ Behind IN
    IF ahead = {} THEN {0} ELSE {k \in ahead : RowidKey => \A l \in ahead : k <= l}

StepIterate(k) ==
    /\ alive
    /\ Starts("iterate")
    /\ phase' = [phase EXCEPT !["iterate"] = IF k = 0 THEN "done" ELSE "row"]
    /\ passed' = IF k = 0 THEN {} ELSE IF RowidKey THEN {l \in Keys : l <= k} ELSE Behind \cup {k}
    /\ UNCHANGED <<rows, stale, answer, alive>>

\* What the step does to the iterator that asked for it.
Advanced(l, k) ==
    [l EXCEPT !.cur = k,
              !.seen = @ \cup ({k} \ {0}),
              !.ordered = @ /\ (k = 0 \/ \A x \in l.seen : IF RowidKey THEN x < k ELSE x # k)]

Inner == loops[Len(loops)]

\* The Iterator constructor takes the first step.
begin ==
    /\ Len(loops) < MaxLoops
    /\ phase["iterate"] # "closed"
    /\ \E k \in NextKeys :
         /\ StepIterate(k)
         /\ loops' = Append(loops, Advanced([cur |-> 0, seen |-> {}, ordered |-> TRUE,
                                             stayed |-> DOMAIN rows], k))

Increment ==
    /\ loops # <<>>
    /\ Inner.cur # 0
    /\ \E k \in NextKeys :
         /\ StepIterate(k)
         /\ loops' = [loops EXCEPT ![Len(loops)] = Advanced(@, k)]

\* The iterator goes out of scope, at its end or before: it resets the
\* statement. Mutant: it does not.
DestroyNoReset ==
    /\ alive
    /\ loops # <<>>
    /\ loops' = SubSeq(loops, 1, Len(loops) - 1)
    /\ UNCHANGED <<rows, phase, passed, stale, answer, alive>>

Destroy ==
    /\ alive
    /\ loops # <<>>
    /\ loops' = SubSeq(loops, 1, Len(loops) - 1)
    /\ phase' = [phase EXCEPT !["iterate"] = "ready"]
    /\ passed' = {}
    /\ UNCHANGED <<rows, stale, answer, alive>>

\* Next throws; unwinding destroys the iterator; sqlite3_reset repeats the
\* error of the step; the destructor throws, and it is noexcept.
IterationFails ==
    /\ alive
    /\ phase["iterate"] # "closed"
    /\ StepMayFail("iterate")
    /\ Len(loops) < MaxLoops \/ (loops # <<>> /\ Inner.cur # 0)
    /\ alive' = FALSE
    /\ loops' = <<>>
    /\ UNCHANGED <<rows, phase, passed, stale, answer>>

-----------------------------------------------------------------------------
(* The environment.                                                        *)

\* Some table or index is created or dropped through the same database.
SchemaChanges ==
    /\ alive
    /\ "schema" \in Fails
    /\ ~stale
    /\ stale' = TRUE
    /\ UNCHANGED <<rows, phase, passed, loops, answer, alive>>

\* Set::close finalizes the five statements of the Set, not those of Updaters.
\* Out of scope: closing under a live iterator, whose Statement is then null.
close ==
    /\ alive
    /\ loops = <<>>
    /\ phase' = [s \in Statements |-> IF s = "updater" THEN phase[s] ELSE "closed"]
    /\ passed' = {}
    /\ UNCHANGED <<rows, stale, loops, answer, alive>>

\* The application throws the Set away and makes another.
makeSet ==
    /\ alive
    /\ loops = <<>>
    /\ phase' = Prepared
    /\ passed' = {}
    /\ stale' = FALSE
    /\ UNCHANGED <<rows, loops, answer, alive>>

Call ==
    \E k \in Keys :
        \/ \E r \in Records : insert(k, r) \/ tryinsert(k, r) \/ update(k, r) \/ updatePart(k, r)
        \/ find(k) \/ deleteElement(k) \/ tryDeleteRecord(k)

Next == Call \/ begin \/ Increment \/ Destroy \/ IterationFails \/ SchemaChanges
        \/ close \/ makeSet

Spec == Init /\ [][Next]_vars

\* A range-for whose body returns: the innermost loop advances while it has a
\* row and is destroyed when it has none. Nothing else is promised to happen.
LoopAdvances == Increment \/ (loops # <<>> /\ Inner.cur = 0 /\ Destroy)

FairSpec == Spec /\ WF_vars(LoopAdvances)

-----------------------------------------------------------------------------
(* Properties.                                                             *)

\* Whatever a call did, also when it threw, the statements that change the
\* table are ready for the next call (Statement.h:141-163, 322-346), and the
\* select statement is never left on a row (Set.h:216-228): it is ready, or
\* its last step failed.
StatementsReusable ==
    /\ \A s \in {"insert", "update", "delete", "updater"} : phase[s] \in {"ready", "closed"}
    /\ phase["select"] \in {"ready", "failed", "closed"}

\* A loop over a table that its body changes (Iterator.h:60-79): it delivers no
\* row twice, an INTEGER key in order, and when it ends it has delivered every
\* row that was in the table all along, whatever earlier loops were abandoned.
LoopSeesTable ==
    \A i \in 1..Len(loops) :
        /\ loops[i].ordered
        /\ loops[i].cur = 0 => loops[i].stayed \subseteq loops[i].seen

\* A call that throws, or a tryinsert that answers false, has changed nothing:
\* neither a stale or refused statement nor ensureAffected, which looks at the
\* row count after the statement ran (Database.h:202-210), leaves a change.
FailureChangesNothing == [][ rows' # rows => answer'.out \in {"done", "true"} ]_vars

\* The body of a loop puts a new row ahead of the cursor, where the loop will
\* come to it: a greater INTEGER key, or any key of another table.
PutAhead == loops # <<>> /\ \E k \in DOMAIN rows' \ DOMAIN rows : k \notin passed'

\* Every range-for comes to its end, whatever its body deletes and changes, if
\* it does not go on for ever putting rows ahead of itself.
LoopEnds == <>[][~PutAhead]_vars => ((loops # <<>>) ~> (loops = <<>>))

\* "working with a database table as with std::set" (README.md:6): a find may
\* fail because the database is busy, but the Set itself never refuses one.
FindAnswers == ~(answer.op = "find" /\ answer.out = "refused")

-----------------------------------------------------------------------------
\* While the schema stands, the Set is the map its users take it for: each
\* method answers from the table or throws and changes nothing (Set.h:82-155).
Merged(old, given) == [c \in Cols |-> IF c \in UpdaterCols THEN given[c] ELSE old[c]]

Abstract == INSTANCE KeyedSet WITH contents <- rows, spent <- FALSE, NoKey <- 0, Fallible <- TRUE

RefinesKeyedSet == Abstract!KSpec
=============================================================================
