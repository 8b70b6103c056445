----------------------- MODULE AutoincrementIdsProofs -----------------------
(***************************************************************************)
(* Theorems about AutoincrementIds, for every set of objects, every range  *)
(* of ids, every nesting bound and every kind of failure, aborts by the    *)
(* engine included. The specification implements Transactions, so that the *)
(* theorems about transactions hold of it too; and the identity that an id *)
(* gives is never broken by what a rollback brings back.                   *)
(***************************************************************************)
EXTENDS AutoincrementIds, TransactionsProofs

-----------------------------------------------------------------------------
(* Transactions underneath.                                                *)

\* What the calls of the set write is something a table can contain.
LEMMA WritesFacts ==
    ASSUME TypeOK
    PROVE  /\ \A id \in Ids, v \in Things : Stored(id, v) \in SUBSET Rows
           /\ \A id \in Ids : {f \in data : f.kind = "used" \/ f.id # id} \in SUBSET Rows
<1>1. data \in SUBSET Rows /\ Rows = Facts /\ MaxId \in Nat
  BY AutoincrementIdsAssumption DEF TypeOK
<1>2. ASSUME NEW id \in Ids, NEW v \in Things PROVE Stored(id, v) \in SUBSET Rows
  <2>1. Rec(id, v) \in Facts
    BY DEF Facts
  <2>2. \A before \in 1..id : before \in Ids
    BY <1>1 DEF Ids
  <2>3. \A before \in 1..id : Used(before) \in Facts
    BY <2>2 DEF Facts
  <2> QED
    BY <1>1, <2>1, <2>3 DEF Stored
<1> QED
  BY <1>1, <1>2

\* A failing statement of the set is a failing statement of a body, or of the
\* program between calls.
LEMMA StatementFailsOrStays ==
    ASSUME TypeOK, StatementThrows
    PROVE  Next
<1>1. level \in Nat /\ "std" \in Thrown
  BY AutoincrementIdsAssumption, TransactionsAssumption DEF TypeOK
<1>2. CASE frames # <<>>
  <2>1. BodyThrows
    BY <1>1, <1>2 DEF StatementThrows, BodyThrows
  <2> QED
    BY <2>1 DEF Next, BodyStep, Failure, StatementFails, BodyThrows
<1>3. CASE frames = <<>>
  <2>1. level' = LeaveLevel(level + 1)
    BY <1>1 DEF StatementThrows, LeaveLevel
  <2>2. SavePointThrows
    BY <2>1 DEF StatementThrows, SavePointThrows
  <2> QED
    BY <2>2 DEF Next, RunStep
<1> QED
  BY <1>2, <1>3

\* Every step of the set and of what goes on around it is one of Transactions.
LEMMA StepIsTransactions ==
    ASSUME TypeOK, ids \in [Things -> 0..MaxId], [INext]_ivars
    PROVE  [Next]_vars
<1>1. ASSUME NEW contents \in SUBSET Rows, WriteTo(contents) PROVE Next
  BY <1>1 DEF Next, BodyStep, Write
<1>2. ASSUME NEW id \in Ids, NEW v \in Things, WriteTo(Stored(id, v)) PROVE Next
  BY <1>1, <1>2, WritesFacts
<1>3. ASSUME NEW v \in Things, insert(v) PROVE Next
  BY <1>2, <1>3, StatementFailsOrStays DEF insert, NewIds
<1>4. ASSUME NEW v \in Things, insertWithId(v) PROVE Next
  <2>1. ids[v] \in Ids
    BY <1>4, AutoincrementIdsAssumption DEF insertWithId, Ids
  <2> QED
    BY <1>2, <1>4, <2>1, StatementFailsOrStays DEF insertWithId
<1>5. ASSUME NEW id \in Ids, delete(id) PROVE Next
  BY <1>1, <1>5, WritesFacts, StatementFailsOrStays DEF delete
<1>6. Around => Next
  BY DEF Around, Next, BodyStep
<1>7. UNCHANGED ivars => UNCHANGED vars
  BY DEF ivars
<1> QED
  BY <1>3, <1>4, <1>5, <1>6, <1>7 DEF INext, SetCall

-----------------------------------------------------------------------------
(* What the transactions do to the contents.                               *)

\* The contents that were saved are among those a rollback may bring back.
LEMMA SavedAmong ==
    ASSUME NEW i \in 1..Len(savepoints)
    PROVE  savepoints[i].saved \in Contents
BY DEF Contents

\* Every operation of the engine only moves contents around; what becomes
\* durable is what the connection reads, and then nothing else is left.
Moved ==
    /\ Contents' \subseteq Contents
    /\ durable' = durable \/ (durable' = data /\ Contents' \subseteq {data})

LEMMA Released ==
    ASSUME TypeOK, NEW n, release(n)
    PROVE  Moved
<1>1. /\ Latest(n) \in 1..Len(savepoints)
      /\ savepoints' \in Seq(Savepoint)
      /\ Len(savepoints') = Latest(n) - 1
      /\ \A i \in 1..Len(savepoints') : savepoints'[i] = savepoints[i]
  BY ReleaseCuts DEF TypeOK
<1>2. Len(savepoints) \in Nat
  BY Tops DEF TypeOK
<1>3. \A i \in 1..Len(savepoints') : i \in 1..Len(savepoints)
  BY <1>1, <1>2
<1>4. data' = data /\ durable' = (IF IsTransactionSavepoint(Latest(n)) THEN data ELSE durable)
  BY DEF release
<1>5. Contents' \subseteq Contents
  BY <1>1, <1>3, <1>4 DEF Contents
<1>6. CASE IsTransactionSavepoint(Latest(n))
  <2>1. Len(savepoints') = 0
    BY <1>1, <1>6 DEF IsTransactionSavepoint
  <2>2. {savepoints'[i].saved : i \in 1..Len(savepoints')} = {}
    BY <2>1
  <2> QED
    BY <1>4, <1>5, <1>6, <2>2 DEF Moved, Contents
<1> QED
  BY <1>4, <1>5, <1>6 DEF Moved

LEMMA RolledBackTo ==
    ASSUME TypeOK, NEW n, rollbackTo(n)
    PROVE  Moved
<1>1. /\ Latest(n) \in 1..Len(savepoints)
      /\ savepoints' \in Seq(Savepoint)
      /\ Len(savepoints') = Latest(n)
      /\ \A i \in 1..Len(savepoints') : savepoints'[i] = savepoints[i]
  BY RollbackToCuts DEF TypeOK
<1>2. Len(savepoints) \in Nat
  BY Tops DEF TypeOK
<1>3. \A i \in 1..Len(savepoints') : i \in 1..Len(savepoints)
  BY <1>1, <1>2
<1>4. data' = savepoints[Latest(n)].saved /\ durable' = durable
  BY DEF rollbackTo
<1> QED
  BY <1>1, <1>3, <1>4 DEF Moved, Contents

LEMMA Emptying ==
    ASSUME savepoints' = <<>>, data' \in {data, durable}, durable' \in {data', durable},
           durable' # durable => data' = data
    PROVE  Moved
<1>1. {savepoints'[i].saved : i \in 1..Len(savepoints')} = {}
  BY Emptied
<1> QED
  BY <1>1 DEF Moved, Contents

LEMMA SavedMore ==
    ASSUME TypeOK, NEW n, savePoint(n)
    PROVE  Moved
<1> DEFINE p == [name |-> n, saved |-> data]
           S == Savepoint \cup {p}
<1>1. savepoints \in Seq(S)
  BY DEF TypeOK
<1>2. savepoints' = Append(savepoints, p) /\ p \in S
  BY DEF savePoint
<1> HIDE DEF p
<1>3. /\ Len(savepoints') = Len(savepoints) + 1
      /\ \A i \in 1..Len(savepoints) : savepoints'[i] = savepoints[i]
      /\ savepoints'[Len(savepoints) + 1] = p
      /\ Len(savepoints) \in Nat
  BY <1>1, <1>2, Pushed, Tops
<1>4. \A i \in 1..Len(savepoints') : i \in 1..Len(savepoints) \/ i = Len(savepoints) + 1
  BY <1>3
<1>5. p.saved = data
  BY DEF p
<1> QED
  BY <1>3, <1>4, <1>5 DEF savePoint, Moved, Contents

LEMMA EngineMoves ==
    ASSUME TypeOK,
           \/ \E n : release(n) \/ rollbackTo(n) \/ savePoint(n)
           \/ beginTransaction \/ commit \/ rollback
           \/ UNCHANGED engine
    PROVE  Moved
<1>1. CASE commit \/ rollback
  BY <1>1, Emptying DEF commit, rollback
<1>2. CASE beginTransaction \/ UNCHANGED engine
  BY <1>2 DEF beginTransaction, engine, Moved, Contents
<1> QED
  BY <1>1, <1>2, Released, RolledBackTo, SavedMore

\* So does everything that goes on around the set.
LEMMA AroundMoves ==
    ASSUME TypeOK, Around \/ StatementThrows \/ UNCHANGED vars
    PROVE  Moved
<1>1. CASE Failure
  BY <1>1, EngineMoves DEF Failure, StatementFails, BodyThrows, EngineAbort, BodyCatches, CallerCatches
<1>2. CASE RunStep
  BY <1>2, EngineMoves DEF RunStep, RunHandles, TryRun, SavePointThrows, RunReturns, RunReleaseThrows,
       RunRollsBack, RunRollbackThrows, RunUnwinds
<1>3. CASE OutermostStep
  BY <1>3, EngineMoves DEF OutermostStep, OutermostHandles, TryOutermost, Begin, BeginThrows,
       OutermostReturns, Commit, CommitThrows, Rollback, OutermostRollsBack, OutermostRollbackThrows,
       OutermostUnwinds
<1>4. CASE StatementThrows \/ UNCHANGED vars
  BY <1>4, EngineMoves DEF StatementThrows, vars
<1> QED
  BY <1>1, <1>2, <1>3, <1>4 DEF Around

\* A statement that succeeds puts one new contents in the place of data, and
\* of what is durable when it is committed by itself.
LEMMA Written ==
    ASSUME NEW contents, WriteTo(contents)
    PROVE  /\ Contents' \subseteq Contents \cup {contents}
           /\ data' = contents
           /\ durable' = durable \/ (durable' = contents /\ Contents' \subseteq {contents})
<1>1. CASE InTransaction
  BY <1>1 DEF WriteTo, Contents
<1>2. CASE ~InTransaction
  <2>1. savepoints' = <<>> /\ durable' = contents /\ data' = contents
    BY <1>2 DEF WriteTo, InTransaction
  <2>2. {savepoints'[i].saved : i \in 1..Len(savepoints')} = {}
    BY <2>1, Emptied
  <2> QED
    BY <2>1, <2>2 DEF Contents
<1> QED
  BY <1>1, <1>2

-----------------------------------------------------------------------------
(* The identity of rows.                                                   *)

\* A fact is a row or a used id; an id is a positive number.
LEMMA FactsAre ==
    /\ \A f \in Facts : f.id \in Ids
    /\ \A f \in RowsOf(Facts) : \E v \in Things : f = Rec(f.id, v) /\ f.val = v
    /\ \A id \in Ids : id \in Nat /\ 1 <= id /\ id <= MaxId /\ id \in 1..id
    /\ \A id \in Ids : \A before \in 1..id : before \in Ids
    /\ \A id, v : Rec(id, v).kind = "row" /\ Rec(id, v).id = id /\ Rec(id, v).val = v
    /\ \A id : Used(id).kind = "used" /\ Used(id).id = id
<1>1. MaxId \in Nat
  BY AutoincrementIdsAssumption
<1> QED
  BY <1>1 DEF Facts, RowsOf, Rec, Used, Ids

\* Contents that agree with the rows there have been agree with their own, too.
LEMMA AgreesWithItself ==
    ASSUME NEW c \in SUBSET Facts, Agrees(c), ever' = ever \cup RowsOf(c)
    PROVE  Agrees(c)'
<1>1. WellFormed(c) /\ (\A f, g \in RowsOf(c) : f.id = g.id => f = g)
  BY DEF Agrees
<1>2. ASSUME NEW f \in RowsOf(c) PROVE Used(f.id) \in c
  <2>1. f \in c /\ f.id \in 1..f.id
    BY <1>2, FactsAre DEF RowsOf
  <2> QED
    BY <1>1, <2>1 DEF WellFormed
<1>3. \A f \in ever' : /\ Used(f.id) \in c
                      /\ \A g \in RowsOf(c) : g.id = f.id => g = f
  BY <1>1, <1>2 DEF Agrees
<1> QED
  BY <1>1, <1>3 DEF Agrees

\* The part of the invariant that is about contents, after a step that puts
\* at most c among them.
LEMMA ContentsAgree ==
    ASSUME IdsInv, NEW c \in SUBSET Facts, Agrees(c),
           Contents' \subseteq Contents \cup {c},
           durable' = durable \/ (durable' = c /\ Contents' \subseteq {c}),
           ever' = ever \cup RowsOf(durable')
    PROVE  /\ \A contents \in Contents' : Agrees(contents)'
           /\ RowsOf(durable') \subseteq ever'
           /\ ever' \subseteq RowsOf(Rows)
<1>1. Rows = Facts
  BY AutoincrementIdsAssumption
<1>2. CASE durable' = durable
  <2>1. ever' = ever
    BY <1>2 DEF IdsInv
  <2>2. \A contents \in Contents' : Agrees(contents)
    BY DEF IdsInv
  <2> QED
    BY <1>2, <2>1, <2>2 DEF IdsInv, Agrees
<1>3. CASE durable' = c /\ Contents' \subseteq {c}
  <2>1. Agrees(c)'
    BY <1>3, AgreesWithItself
  <2> QED
    BY <1>1, <1>3, <2>1 DEF IdsInv, RowsOf
<1> QED
  BY <1>2, <1>3

\* A row with an id of its own may be stored.
LEMMA StoredAgrees ==
    ASSUME NEW c \in SUBSET Facts, Agrees(c), data = c, NEW id \in Ids, NEW v \in Things,
           \A f \in RowsOf(c) : f.id # id,
           \A f \in ever : f.id = id => f = Rec(id, v)
    PROVE  Agrees(Stored(id, v))
<1> DEFINE s == Stored(id, v)
<1>1. RowsOf(s) = RowsOf(c) \cup {Rec(id, v)} /\ c \subseteq s
  BY FactsAre DEF Stored, RowsOf
<1>2. WellFormed(s)
  <2> SUFFICES ASSUME NEW f \in s, NEW n \in 1..f.id PROVE Used(n) \in s
    BY DEF WellFormed
  <2>1. CASE f \in c
    BY <1>1, <2>1 DEF Agrees, WellFormed
  <2>2. CASE f = Rec(id, v)
    BY <2>2, FactsAre DEF Stored
  <2>3. CASE \E before \in 1..id : f = Used(before)
    <3>1. PICK before \in 1..id : f.id = before
      BY <2>3, FactsAre
    <3>2. n \in 1..id
      BY <3>1, FactsAre
    <3> QED
      BY <3>2 DEF Stored
  <2> QED
    BY <2>1, <2>2, <2>3 DEF Stored
<1>3. \A f, g \in RowsOf(s) : f.id = g.id => f = g
  BY <1>1, FactsAre DEF Agrees
<1>4. \A f \in ever : /\ Used(f.id) \in s
                     /\ \A g \in RowsOf(s) : g.id = f.id => g = f
  BY <1>1, FactsAre DEF Agrees
<1> QED
  BY <1>2, <1>3, <1>4 DEF Agrees

\* So may a row be deleted: what is used stays used.
LEMMA DeletedAgrees ==
    ASSUME NEW c \in SUBSET Facts, Agrees(c), NEW id
    PROVE  Agrees({f \in c : f.kind = "used" \/ f.id # id})
<1> DEFINE d == {f \in c : f.kind = "used" \/ f.id # id}
<1>1. RowsOf(d) \subseteq RowsOf(c) /\ d \subseteq c
  BY DEF RowsOf
<1>2. \A n : Used(n) \in c => Used(n) \in d
  BY FactsAre
<1>3. WellFormed(d)
  BY <1>1, <1>2 DEF Agrees, WellFormed
<1> HIDE DEF d
<1>4. Agrees(d)
  BY <1>1, <1>2, <1>3 DEF Agrees
<1> QED
  BY <1>4 DEF d

\* A new id is one that no row has or ever had.
LEMMA NewIdIsNew ==
    ASSUME IdsInv, TypeOK, NEW id \in NewIds
    PROVE  /\ id \in Ids
           /\ \A f \in RowsOf(data) : f.id # id
           /\ \A f \in ever : f.id # id
<1>1. id \in Ids /\ Used(id) \notin data
  BY DEF NewIds
<1>2. Agrees(data) /\ data \in SUBSET Facts
  BY AutoincrementIdsAssumption DEF IdsInv, Contents, TypeOK
<1>3. ASSUME NEW f \in RowsOf(data) PROVE f.id # id
  <2>1. f \in data /\ f.id \in 1..f.id
    BY <1>2, <1>3, FactsAre DEF RowsOf
  <2>2. Used(f.id) \in data
    BY <1>2, <2>1 DEF Agrees, WellFormed
  <2> QED
    BY <1>1, <2>2
<1> QED
  BY <1>1, <1>2, <1>3 DEF Agrees

-----------------------------------------------------------------------------
(* The invariant.                                                          *)

IInv == TypeOK /\ LevelFollowsCalls /\ IdsInv

LEMMA IInvInit == IInit => IInv
<1> SUFFICES ASSUME IInit PROVE IInv
  OBVIOUS
<1>1. Init /\ TypeOK /\ LevelFollowsCalls
  BY TypedInit DEF IInit
<1>2. Contents = {{}}
  <2>1. savepoints = <<>> /\ data = {} /\ durable = {}
    BY <1>1 DEF Init
  <2>2. {savepoints[i].saved : i \in 1..Len(savepoints)} = {}
    BY <2>1, Emptied
  <2> QED
    BY <2>1, <2>2 DEF Contents
<1>3. ever = {} /\ RowsOf(durable) = {} /\ RowsOf({}) = {}
  BY <1>1 DEF IInit, Init, RowsOf
<1>4. Agrees({})
  BY <1>3 DEF Agrees, WellFormed
<1>5. IdsInv
  BY <1>2, <1>3, <1>4, AutoincrementIdsAssumption DEF IInit, IdsInv
<1> QED
  BY <1>1, <1>5 DEF IInv

LEMMA IInvStep == IInv /\ [INext]_ivars => IInv'
<1> SUFFICES ASSUME IInv, [INext]_ivars PROVE IInv'
  OBVIOUS
<1> USE DEF IInv
<1>1. TypeOK' /\ LevelFollowsCalls'
  <2>1. [Next]_vars
    BY StepIsTransactions DEF IdsInv
  <2> QED
    BY <2>1, Typing, LevelStep
<1>2. /\ MaxId \in Nat /\ Rows = Facts
      /\ data \in SUBSET Facts /\ Agrees(data)
      /\ ids \in [Things -> 0..MaxId] /\ lastRowId \in 0..MaxId
  BY AutoincrementIdsAssumption DEF IdsInv, Contents, TypeOK
<1>3. \A id \in Ids : id \in 0..MaxId
  BY <1>2, FactsAre
\* The conjuncts that are not about the objects' ids.
<1>4. ASSUME NEW c \in SUBSET Facts, Agrees(c),
             Contents' \subseteq Contents \cup {c},
             durable' = durable \/ (durable' = c /\ Contents' \subseteq {c}),
             ever' = ever \cup RowsOf(durable'),
             ids' \in [Things -> 0..MaxId], lastRowId' \in 0..MaxId
      PROVE  IdsInv'
  <2>1. /\ \A contents \in Contents' : Agrees(contents)'
        /\ RowsOf(durable') \subseteq ever'
        /\ ever' \subseteq RowsOf(Rows)
    BY <1>4, ContentsAgree
  <2> QED
    BY <1>4, <2>1 DEF IdsInv, RowsOf
<1>5. ASSUME Around \/ StatementThrows \/ UNCHANGED vars,
             ever' = ever \cup RowsOf(durable'),
             ids' \in [Things -> 0..MaxId], lastRowId' \in 0..MaxId
      PROVE  IdsInv'
  <2>1. Moved
    BY <1>5, AroundMoves
  <2> QED
    BY <1>2, <1>4, <1>5, <2>1 DEF Moved
<1>6. ASSUME NEW c \in SUBSET Facts, Agrees(c), WriteTo(c),
             ever' = ever \cup RowsOf(durable'),
             ids' \in [Things -> 0..MaxId], lastRowId' \in 0..MaxId
      PROVE  IdsInv'
  BY <1>4, <1>6, Written
<1>7. ASSUME NEW id \in Ids, NEW v \in Things, WriteTo(Stored(id, v)),
             \A f \in RowsOf(data) : f.id # id,
             \A f \in ever : f.id = id => f = Rec(id, v),
             ever' = ever \cup RowsOf(durable'),
             ids' \in [Things -> 0..MaxId], lastRowId' = id
      PROVE  IdsInv'
  <2>1. Stored(id, v) \in SUBSET Facts
    BY <1>2, WritesFacts
  <2>2. Agrees(Stored(id, v))
    BY <1>2, <1>7, StoredAgrees
  <2> QED
    BY <1>3, <1>6, <1>7, <2>1, <2>2
<1>8. ASSUME NEW v \in Things, insert(v), ever' = ever \cup RowsOf(durable') PROVE IdsInv'
  <2>1. ASSUME NEW id \in NewIds, WriteTo(Stored(id, v)), lastRowId' = id,
               ids' = [ids EXCEPT ![v] = lastRowId']
        PROVE  IdsInv'
    <3>1. id \in Ids /\ (\A f \in RowsOf(data) : f.id # id) /\ (\A f \in ever : f.id # id)
      BY NewIdIsNew
    <3>2. ids' \in [Things -> 0..MaxId]
      BY <1>2, <1>3, <2>1, <3>1
    <3> QED
      BY <1>7, <1>8, <2>1, <3>1, <3>2
  <2>2. CASE StatementThrows /\ UNCHANGED ids
    BY <1>2, <1>5, <1>8, <2>2 DEF StatementThrows
  <2> QED
    BY <1>8, <2>1, <2>2 DEF insert
<1>9. ASSUME NEW v \in Things, insertWithId(v), ever' = ever \cup RowsOf(durable') PROVE IdsInv'
  <2>1. ids[v] \in Ids
    BY <1>2, <1>9 DEF insertWithId, Ids
  <2>2. CASE ~HasId(data, ids[v]) /\ WriteTo(Stored(ids[v], v)) /\ lastRowId' = ids[v]
    <3>1. \A f \in RowsOf(data) : f.id # ids[v]
      BY <2>2 DEF HasId
    <3>2. \A f \in ever : f.id = ids[v] => f = Rec(ids[v], v)
      <4>1. \A f \in ever : f.id = ids[v] => f.val = v
        BY <1>9 DEF insertWithId, MayPutBack
      <4>2. ever \subseteq RowsOf(Facts)
        BY <1>2 DEF IdsInv
      <4> QED
        BY <4>1, <4>2, FactsAre
    <3> QED
      BY <1>2, <1>7, <1>9, <2>1, <2>2, <3>1, <3>2 DEF insertWithId
  <2>3. CASE StatementThrows
    BY <1>2, <1>5, <1>9, <2>3 DEF StatementThrows, insertWithId
  <2> QED
    BY <1>9, <2>2, <2>3 DEF insertWithId
<1>10. ASSUME NEW id \in Ids, delete(id), ever' = ever \cup RowsOf(durable') PROVE IdsInv'
  <2> DEFINE d == {f \in data : f.kind = "used" \/ f.id # id}
  <2>1. d \in SUBSET Facts /\ Agrees(d)
    BY <1>2, DeletedAgrees
  <2>2. CASE WriteTo(d) /\ UNCHANGED <<ids, lastRowId>>
    <3> HIDE DEF d
    <3> QED
      BY <1>2, <1>6, <1>10, <2>1, <2>2
  <2>3. CASE StatementThrows /\ UNCHANGED ids
    BY <1>2, <1>5, <1>10, <2>3 DEF StatementThrows
  <2> QED
    BY <1>10, <2>2, <2>3 DEF delete
<1>11. ASSUME Around, UNCHANGED <<ids, lastRowId>>, ever' = ever \cup RowsOf(durable')
       PROVE  IdsInv'
  BY <1>2, <1>5, <1>11
<1>12. ASSUME UNCHANGED ivars PROVE IdsInv'
  <2>1. UNCHANGED vars /\ UNCHANGED <<ids, lastRowId, ever>>
    BY <1>12 DEF ivars
  <2>2. durable' = durable
    BY <2>1 DEF vars, engine
  <2>3. ever' = ever \cup RowsOf(durable')
    BY <2>1, <2>2 DEF IdsInv
  <2> QED
    BY <1>2, <1>5, <2>1, <2>3
<1>13. IdsInv'
  BY <1>8, <1>9, <1>10, <1>11, <1>12 DEF INext, SetCall
<1> QED
  BY <1>1, <1>13

LEMMA IInvariant == ISpec => []IInv
BY IInvInit, IInvStep, PTL DEF ISpec

-----------------------------------------------------------------------------
(* Theorems.                                                               *)

\* An AutoincrementSet does nothing to a database that a body of tryRun could
\* not do (AutoincrementSet.h:43-116, Database.h:60-139): every theorem about
\* Transactions holds while one is used.
THEOREM IdsImplementTransactions == ISpec => Spec
<1>1. IInit => Init
  BY DEF IInit
<1>2. IInv /\ [INext]_ivars => [Next]_vars
  BY StepIsTransactions DEF IInv, IdsInv
<1> QED
  BY <1>1, <1>2, IInvariant, PTL DEF ISpec, Spec

\* Rows, used ids and the ids of objects keep their types, in what the
\* connection reads, what is durable, and what any savepoint saved.
THEOREM IdsTypeCorrect == ISpec => []ITypeOK
<1>1. IInv => ITypeOK
  BY DEF IInv, IdsInv, ITypeOK, Agrees
<1> QED
  BY <1>1, IInvariant, PTL

\* Across rollbacks, aborts and deletes, the id of a row that was ever committed
\* never belongs to another object's row
\* (AutoincrementTableInstantiator.h:53-55).
THEOREM IdentityCorrect == ISpec => []IdentityKept
<1>1. IInv => IdentityKept
  <2> SUFFICES ASSUME IInv, NEW f \in ever, NEW g \in RowsOf(data \cup durable), g.id = f.id
               PROVE  g = f
    BY DEF IdentityKept
  <2>1. Agrees(data) /\ Agrees(durable)
    BY DEF IInv, IdsInv, Contents
  <2>2. g \in RowsOf(data) \/ g \in RowsOf(durable)
    BY DEF RowsOf
  <2> QED
    BY <2>1, <2>2 DEF Agrees
<1> QED
  BY <1>1, IInvariant, PTL

\* An object is given the id of the row that was stored for it, and never one
\* that another committed row has had (AutoincrementSet.h:43-50, 120-126).
THEOREM AssignedCorrect == ISpec => AssignedIdIsOwn
<1> DEFINE Own == \A v \in Things : ids'[v] # ids[v] =>
                    /\ Rec(ids'[v], v) \in data'
                    /\ \A f \in ever : f.id # ids'[v]
<1>1. IInv /\ [INext]_ivars => [Own]_ivars
  <2> SUFFICES ASSUME IInv, [INext]_ivars, NEW v \in Things, ids'[v] # ids[v]
               PROVE  Rec(ids'[v], v) \in data' /\ \A f \in ever : f.id # ids'[v]
    OBVIOUS
  <2>1. PICK w \in Things : insert(w)
    BY DEF INext, SetCall, insertWithId, delete, ivars
  <2>2. PICK id \in NewIds : /\ WriteTo(Stored(id, w))
                             /\ ids' = [ids EXCEPT ![w] = id]
    BY <2>1 DEF insert
  <2>3. ids'[v] = id /\ v = w
    BY <2>2 DEF IInv, IdsInv
  <2>4. Rec(id, w) \in data'
    BY <2>2 DEF WriteTo, Stored
  <2>5. \A f \in ever : f.id # id
    BY NewIdIsNew DEF IInv
  <2> QED
    BY <2>3, <2>4, <2>5
<1> QED
  BY <1>1, IInvariant, PTL DEF ISpec, AssignedIdIsOwn
=============================================================================
