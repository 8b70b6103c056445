---------------------------- MODULE Transactions ----------------------------
(***************************************************************************)
(* The transaction half of sqlite::Database (Database.h:60-139): tryRun    *)
(* over SAVEPOINT / RELEASE / ROLLBACK TO, tryOutermost and the plain      *)
(* beginTransaction / commit / rollback, the m_transactionLevel counter    *)
(* that names savepoints, and the engine's transaction stack underneath.   *)
(*                                                                         *)
(* One thread runs the calls, so the C++ call stack is a sequence of       *)
(* frames, and an exception in flight is a value that each frame either    *)
(* handles, lets pass or (in the body, between two frames) catches.        *)
(***************************************************************************)
EXTENDS Integers, Sequences

CONSTANTS
    Rows,             \* what the database can contain
    MaxDepth,         \* bound: how deep calls nest
    MaxStack,         \* bound: how many savepoints the engine holds
    LevelNames,       \* the names tryRun may use at each level: {sp<level>}
                      \* for the default, more when the caller supplies one
    Thrown,           \* kinds of exception a body throws: "std" is a
                      \* std::exception, "other" anything else
    CallerRollsBack,  \* does the code that finally catches an exception
                      \* call Database::rollback()?
    EngineAborts      \* may a failing statement make the engine roll the
                      \* whole transaction back by itself (full disk, I/O)?

ASSUME TransactionsAssumption ==
    /\ MaxDepth \in Nat \ {0}
    /\ MaxStack \in Nat \ {0}
    /\ Thrown \subseteq {"std", "other"}
    /\ CallerRollsBack \in BOOLEAN
    /\ EngineAborts \in BOOLEAN

VARIABLES
    level,        \* Database::m_transactionLevel
    frames,       \* the active tryRun, tryOutermost and BEGIN..COMMIT calls
    exc,          \* the exception being propagated, or "none"
    begun,        \* the engine executed BEGIN
    savepoints,   \* the engine's savepoint stack: name and saved contents
    data,         \* the contents the connection reads
    durable       \* the committed contents

engine == <<begun, savepoints, data, durable>>
vars == <<level, frames, exc, engine>>

Names == UNION {LevelNames[l] : l \in 1..MaxDepth}

Savepoint == [name : Names, saved : SUBSET Rows]

\* "name" is the local std::string savepoint of tryRun. The other fields are
\* history: the contents at entry, the level the call runs at, and where in
\* the engine's stack its savepoint was put (0 when it made none).
Frame == [kind  : {"run", "outermost", "manual"},
          name  : Names \cup {"BEGIN"},
          entry : SUBSET Rows,
          depth : 0..MaxDepth,
          mark  : 0..MaxStack]

TypeOK ==
    /\ level \in 0..MaxDepth
    /\ frames \in Seq(Frame)
    /\ exc \in {"none", "std", "other"}
    /\ begun \in BOOLEAN
    /\ savepoints \in Seq(Savepoint)
    /\ Len(savepoints) <= MaxStack
    /\ data \in SUBSET Rows
    /\ durable \in SUBSET Rows

Init ==
    /\ level = 0
    /\ frames = <<>>
    /\ exc = "none"
    /\ begun = FALSE
    /\ savepoints = <<>>
    /\ data = {}
    /\ durable = {}

-----------------------------------------------------------------------------
(* The engine's transaction stack.                                         *)

InTransaction == begun \/ savepoints # <<>>

Named(n) == {i \in 1..Len(savepoints) : savepoints[i].name = n}

\* RELEASE and ROLLBACK TO act on the most recent savepoint of that name.
Latest(n) == CHOOSE i \in Named(n) : \A j \in Named(n) : j <= i

\* A savepoint opened outside BEGIN is itself the transaction.
IsTransactionSavepoint(i) == i = 1 /\ ~begun

savePoint(n) ==
    /\ savepoints' = Append(savepoints, [name |-> n, saved |-> data])
    /\ UNCHANGED <<begun, data, durable>>

release(n) ==
    /\ Named(n) # {}
    /\ savepoints' = SubSeq(savepoints, 1, Latest(n) - 1)
    /\ durable' = IF IsTransactionSavepoint(Latest(n)) THEN data ELSE durable
    /\ UNCHANGED <<begun, data>>

\* The savepoint itself stays on the stack.
rollbackTo(n) ==
    /\ Named(n) # {}
    /\ savepoints' = SubSeq(savepoints, 1, Latest(n))
    /\ data' = savepoints[Latest(n)].saved
    /\ UNCHANGED <<begun, durable>>

\* BEGIN only works if the transaction stack is empty.
beginTransaction ==
    /\ ~InTransaction
    /\ begun' = TRUE
    /\ UNCHANGED <<savepoints, data, durable>>

commit ==
    /\ InTransaction
    /\ begun' = FALSE
    /\ savepoints' = <<>>
    /\ durable' = data
    /\ UNCHANGED data

rollback ==
    /\ InTransaction
    /\ begun' = FALSE
    /\ savepoints' = <<>>
    /\ data' = durable
    /\ UNCHANGED durable

-----------------------------------------------------------------------------
(* The C++ call stack.                                                     *)

Running == exc = "none"

Top == frames[Len(frames)]

InCall(kind) == frames # <<>> /\ Top.kind = kind

Call(kind, name, depth, mark) ==
    frames' = Append(frames, [kind |-> kind, name |-> name, entry |-> data,
                              depth |-> depth, mark |-> mark])

Return == frames' = SubSeq(frames, 1, Len(frames) - 1)

\* Mutant: no scope guard.
LeaveLevelNoGuard(l) == l

\* The scope guard of tryRun runs however the call ends.
LeaveLevel(l) == l - 1

\* A statement outside a transaction is committed by itself.
WriteTo(contents) ==
    /\ Running
    /\ data' = contents
    /\ durable' = IF InTransaction THEN durable ELSE data'
    /\ UNCHANGED <<level, frames, exc, begun, savepoints>>

Write == \E contents \in SUBSET Rows : WriteTo(contents)

\* The body throws, or a statement in it fails and undoes only itself.
BodyThrows ==
    /\ Running
    /\ frames # <<>>
    /\ exc' \in Thrown
    /\ UNCHANGED <<level, frames, engine>>

\* A statement fails and takes the whole transaction with it.
EngineAbort ==
    /\ EngineAborts
    /\ Running
    /\ frames # <<>>
    /\ rollback
    /\ exc' = "std"
    /\ UNCHANGED <<level, frames>>

\* The body of an open call catches what an inner call threw and goes on.
BodyCatches ==
    /\ exc # "none"
    /\ frames # <<>>
    /\ exc' = "none"
    /\ UNCHANGED <<level, frames, engine>>

\* The exception has left every call; the application deals with it.
CallerCatches ==
    /\ exc # "none"
    /\ frames = <<>>
    /\ exc' = "none"
    /\ IF CallerRollsBack /\ InTransaction THEN rollback ELSE UNCHANGED engine
    /\ UNCHANGED <<level, frames>>

-----------------------------------------------------------------------------
(* Database::tryRun.                                                       *)

\* Mutant: one default name for all levels.
TryRunOneName ==
    /\ Running
    /\ level < MaxDepth
    /\ Len(savepoints) < MaxStack
    /\ level' = level + 1
    /\ \E n \in LevelNames[1] :
         /\ savePoint(n)
         /\ Call("run", n, level', Len(savepoints) + 1)
    /\ UNCHANGED exc

TryRun ==
    /\ Running
    /\ level < MaxDepth
    /\ Len(savepoints) < MaxStack
    /\ level' = level + 1
    /\ \E n \in LevelNames[level'] :
         /\ savePoint(n)
         /\ Call("run", n, level', Len(savepoints) + 1)
    /\ UNCHANGED exc

\* SAVEPOINT fails before the try block: only the scope guard runs.
SavePointThrows ==
    /\ Running
    /\ level' = LeaveLevel(level + 1)
    /\ exc' = "std"
    /\ UNCHANGED <<frames, engine>>

\* Mutants: tryRun ends with COMMIT, or returns before its RELEASE.
RunReturnsCommits ==
    /\ Running
    /\ InCall("run")
    /\ commit
    /\ Return
    /\ level' = LeaveLevel(level)
    /\ UNCHANGED exc

RunReturnsEarly ==
    /\ Running
    /\ InCall("run")
    /\ Return
    /\ level' = LeaveLevel(level)
    /\ UNCHANGED <<exc, engine>>

RunReturns ==
    /\ Running
    /\ InCall("run")
    /\ release(Top.name)
    /\ Return
    /\ level' = LeaveLevel(level)
    /\ UNCHANGED exc

\* RELEASE is outside the try block: when the savepoint is gone, or when it
\* is the transaction and the commit is refused (SQLITE_BUSY), the exception
\* leaves tryRun with the savepoint still there.
RunReleaseThrows ==
    /\ Running
    /\ InCall("run")
    /\ \/ Named(Top.name) = {}
       \/ Named(Top.name) # {} /\ IsTransactionSavepoint(Latest(Top.name))
    /\ exc' = "std"
    /\ Return
    /\ level' = LeaveLevel(level)
    /\ UNCHANGED engine

\* Mutants: the handler releases instead of rolling back; it leaves the level
\* by itself as well as through the scope guard.
RunRollsBackReleases ==
    /\ exc = "std"
    /\ InCall("run")
    /\ release(Top.name)
    /\ Return
    /\ level' = LeaveLevel(level)
    /\ UNCHANGED exc

RunRollsBackTwice ==
    /\ exc = "std"
    /\ InCall("run")
    /\ rollbackTo(Top.name)
    /\ Return
    /\ level' = LeaveLevel(level) - 1
    /\ UNCHANGED exc

\* catch (const std::exception&): ROLLBACK TO, and the savepoint stays.
RunRollsBack ==
    /\ exc = "std"
    /\ InCall("run")
    /\ rollbackTo(Top.name)
    /\ Return
    /\ level' = LeaveLevel(level)
    /\ UNCHANGED exc

\* The handler's own ROLLBACK TO throws.
RunRollbackThrows ==
    /\ exc = "std"
    /\ InCall("run")
    /\ Named(Top.name) = {}
    /\ Return
    /\ level' = LeaveLevel(level)
    /\ UNCHANGED <<exc, engine>>

\* An exception that is not a std::exception passes the handler by.
RunUnwinds ==
    /\ exc = "other"
    /\ InCall("run")
    /\ Return
    /\ level' = LeaveLevel(level)
    /\ UNCHANGED <<exc, engine>>

-----------------------------------------------------------------------------
(* Database::tryOutermost, and BEGIN .. COMMIT written out by the caller.  *)

TryOutermost ==
    /\ Running
    /\ Len(frames) < MaxDepth
    /\ beginTransaction
    /\ Call("outermost", "BEGIN", level, 0)
    /\ UNCHANGED <<level, exc>>

Begin ==
    /\ Running
    /\ Len(frames) < MaxDepth
    /\ beginTransaction
    /\ Call("manual", "BEGIN", level, 0)
    /\ UNCHANGED <<level, exc>>

\* Either of them inside an open transaction.
BeginThrows ==
    /\ Running
    /\ InTransaction
    /\ exc' = "std"
    /\ UNCHANGED <<level, frames, engine>>

\* Mutant: tryOutermost forgets the COMMIT.
OutermostReturnsOpen ==
    /\ Running
    /\ InCall("outermost")
    /\ Return
    /\ UNCHANGED <<level, exc, engine>>

OutermostReturns ==
    /\ Running
    /\ InCall("outermost")
    /\ commit
    /\ Return
    /\ UNCHANGED <<level, exc>>

Commit ==
    /\ Running
    /\ InCall("manual")
    /\ commit
    /\ Return
    /\ UNCHANGED <<level, exc>>

\* COMMIT is refused, or there is no transaction left; it is outside the try
\* block of tryOutermost.
CommitThrows ==
    /\ Running
    /\ InCall("outermost") \/ InCall("manual")
    /\ exc' = "std"
    /\ Return
    /\ UNCHANGED <<level, engine>>

Rollback ==
    /\ Running
    /\ InCall("manual")
    /\ rollback
    /\ Return
    /\ UNCHANGED <<level, exc>>

OutermostRollsBack ==
    /\ exc = "std"
    /\ InCall("outermost")
    /\ rollback
    /\ Return
    /\ UNCHANGED <<level, exc>>

OutermostRollbackThrows ==
    /\ exc = "std"
    /\ InCall("outermost")
    /\ ~InTransaction
    /\ Return
    /\ UNCHANGED <<level, exc, engine>>

\* No handler: BEGIN .. COMMIT, or an exception tryOutermost does not catch.
OutermostUnwinds ==
    /\ exc # "none"
    /\ InCall("manual") \/ (InCall("outermost") /\ exc = "other")
    /\ Return
    /\ UNCHANGED <<level, exc, engine>>

-----------------------------------------------------------------------------
\* A statement fails, or the body throws for reasons of its own.
StatementFails == Running /\ (BodyThrows \/ EngineAbort)

\* The handlers, and what ROLLBACK may answer them.
RunHandles == exc = "std" /\ (RunRollsBack \/ RunRollbackThrows)

OutermostHandles == exc = "std" /\ (OutermostRollsBack \/ OutermostRollbackThrows)

Failure == StatementFails \/ BodyCatches \/ CallerCatches

BodyStep == Write \/ Failure

RunStep == TryRun \/ SavePointThrows \/ RunReturns \/ RunReleaseThrows
           \/ RunHandles \/ RunUnwinds

OutermostStep == TryOutermost \/ Begin \/ BeginThrows \/ OutermostReturns \/ Commit
                 \/ CommitThrows \/ Rollback \/ OutermostHandles \/ OutermostUnwinds

Next == BodyStep \/ RunStep \/ OutermostStep

Spec == Init /\ [][Next]_vars

-----------------------------------------------------------------------------
(* Properties.                                                             *)

\* The level is what nesting says it is: m_transactionLevel counts exactly the
\* tryRun calls that are open, whichever way the earlier ones ended
\* (Database.h:116-118). The default savepoint names depend on it.
LevelFollowsCalls ==
    /\ level = IF frames = <<>> THEN 0 ELSE Top.depth
    /\ \A i \in 1..Len(frames) :
         frames[i].depth = (IF i = 1 THEN 0 ELSE frames[i-1].depth)
                           + (IF frames[i].kind = "run" THEN 1 ELSE 0)

\* Failed runs leave their savepoints behind (Database.h:131-136), yet the
\* innermost open tryRun always finds its own savepoint under its name, and
\* that savepoint holds the contents the call found.
RunOwnsSavepoint ==
    InCall("run") =>
        /\ Named(Top.name) # {}
        /\ Latest(Top.name) = Top.mark
        /\ savepoints[Top.mark].saved = Top.entry

\* "A thrown exception causes rollback." (Database.h:112): when a
\* std::exception leaves tryRun or tryOutermost through the handler, the
\* contents are exactly those the call found.
ExceptionRollsBack ==
    [][ (exc = "std" /\ (InCall("run") \/ InCall("outermost")) /\ Return)
          => data' = Top.entry ]_vars

\* Nothing becomes durable while the outermost call is still open: an inner
\* RELEASE never commits the enclosing work, nor does a statement escape the
\* transaction.
NoEarlyCommit ==
    [][ (frames # <<>> /\ frames' # <<>>) => durable' = durable ]_vars

\* A tryRun that returns normally has released the very savepoint it made, not
\* one that an earlier failure left or a later call put under the same name;
\* in particular it never reports success after the engine threw its work away.
ReturnReleasesOwn ==
    [][ (Running /\ InCall("run") /\ Return /\ exc' = "none")
          => /\ Len(savepoints') = Top.mark - 1
             /\ savepoints[Top.mark] = [name |-> Top.name, saved |-> Top.entry] ]_vars

\* "Commit changes." (Database.h:81, 138): the outermost tryRun or
\* tryOutermost that returns normally has committed, and no transaction is
\* left open behind it.
OutermostCommits ==
    [][ (Running /\ Len(frames) = 1 /\ ~InCall("manual") /\ frames' = <<>> /\ exc' = "none")
          => durable' = data /\ ~InTransaction' ]_vars

-----------------------------------------------------------------------------
(* Why it works: the strengthening that every step preserves.              *)

\* No name belongs to two levels: true of the default names.
NamesDisjoint ==
    \A l, m \in 1..MaxDepth : l # m => LevelNames[l] \cap LevelNames[m] = {}

DeeperName(n, d) == \E l \in (d + 1)..MaxDepth : n \in LevelNames[l]

\* The savepoint of the open call i is where it was put, and everything
\* above it on the engine's stack was made at a deeper level.
OwnSavepoint(i) ==
    LET f == frames[i] IN
    /\ f.depth \in 1..level
    /\ f.name \in LevelNames[f.depth]
    /\ f.mark \in 1..Len(savepoints)
    /\ savepoints[f.mark] = [name |-> f.name, saved |-> f.entry]
    /\ \A j \in (f.mark + 1)..Len(savepoints) : DeeperName(savepoints[j].name, f.depth)

\* Open calls and the engine's stack agree: only the outermost call may be a
\* BEGIN, its work starts from the durable contents, and the savepoints of the
\* open tryRun calls stand on the stack in call order (Database.h:93-139).
CallsMatchStack ==
    /\ \A i \in 1..Len(frames) : frames[i].kind = "run" => OwnSavepoint(i)
    /\ \A i, j \in 1..Len(frames) :
         i < j => /\ frames[j].kind = "run"
                  /\ frames[i].kind = "run" => /\ frames[i].mark < frames[j].mark
                                               /\ frames[i].depth < frames[j].depth
    /\ \A i \in 1..Len(frames) :
         frames[i].kind # "run" => begun /\ frames[i].entry = durable
    /\ ~InTransaction => data = durable

\* When the application rolls back whatever exception reaches it, no call
\* leaves a savepoint or a BEGIN behind for the next one: the outermost call
\* finds an empty stack and the durable contents, and its own savepoint is the
\* transaction (Database.h:93-139).
NothingLeftBehind ==
    /\ frames = <<>> /\ exc = "none" => ~InTransaction
    /\ frames # <<>> =>
         /\ frames[1].entry = durable
         /\ frames[1].kind = "run" => frames[1].mark = 1 /\ ~begun

-----------------------------------------------------------------------------
(* The abstract specification: while an exception is in the hands of the   *)
(* application, which will roll back, the promised contents are the        *)
(* durable ones.                                                           *)
Promised == IF frames = <<>> /\ exc # "none" THEN durable ELSE data

Found == [i \in 1..Len(frames) |-> frames[i].entry]

Failing == exc # "none"

Abstract == INSTANCE AtomicRun
              WITH contents <- Promised, stable <- durable, entered <- Found,
                   failing <- Failing

\* With default names, std::exceptions and a caller that rolls back, tryRun
\* and tryOutermost are the nested atomic runs of AtomicRun.
RefinesAtomicRun == Abstract!ASpec
=============================================================================
