----------------------- MODULE TransactionsRefinement -----------------------
(***************************************************************************)
(* When the application rolls back every exception that reaches it, names  *)
(* differ from level to level, bodies throw std::exceptions and the engine *)
(* does not abort transactions, nothing is left behind between two         *)
(* outermost calls, and the savepoint machinery of Transactions implements *)
(* the nested atomic runs of AtomicRun: for every set of rows and bound.   *)
(***************************************************************************)
EXTENDS TransactionsProofs, SequenceTheorems

Discipline ==
    /\ NamesDisjoint
    /\ EngineAborts = FALSE
    /\ CallerRollsBack = TRUE
    /\ Thrown = {"std"}

Inv == TypeOK /\ LevelFollowsCalls /\ CallsMatchStack /\ NothingLeftBehind /\ exc # "other"

-----------------------------------------------------------------------------
(* Nothing is left behind.                                                 *)

\* The outermost call's savepoint is the transaction: its RELEASE commits.
LEMMA OutermostRelease ==
    ASSUME Inv, Discipline, RunReturns, Len(frames) = 1
    PROVE  ~InTransaction' /\ durable' = data /\ data' = data
<1>1. InCall("run") /\ Latest(Top.name) = Top.mark
  BY OwnIsLatest DEF Inv, Discipline, RunReturns
<1>2. Top.mark = 1 /\ ~begun
  BY <1>1 DEF Inv, NothingLeftBehind, InCall, Top
<1>3. savepoints' \in Seq(Savepoint) /\ Len(savepoints') = 0
  <2>1. savepoints' \in Seq(Savepoint) /\ Len(savepoints') = Latest(Top.name) - 1
    BY ReleaseCuts DEF Inv, TypeOK, RunReturns
  <2> QED
    BY <1>1, <1>2, <2>1
<1>4. savepoints' = <<>>
  BY <1>3, Tops
<1> QED
  BY <1>1, <1>2, <1>4 DEF RunReturns, release, InTransaction, IsTransactionSavepoint

LEMMA LeftBehindStep ==
    ASSUME Discipline, Inv, TypeOK', [Next]_vars
    PROVE  NothingLeftBehind' /\ exc' # "other"
<1> USE DEF Inv, Discipline
<1>1. exc' # "other"
  BY DEF Next, BodyStep, Failure, StatementFails, RunStep, RunHandles, OutermostStep,
       OutermostHandles, vars, Write, WriteTo, BodyThrows, EngineAbort,
     BodyCatches, CallerCatches, TryRun, SavePointThrows, RunReturns, RunReleaseThrows,
     RunRollsBack, RunRollbackThrows, RunUnwinds, TryOutermost, Begin, BeginThrows,
     OutermostReturns, Commit, CommitThrows, Rollback, OutermostRollsBack,
     OutermostRollbackThrows, OutermostUnwinds
<1> USE <1>1
<1>2. Len(frames) \in Nat /\ (frames = <<>> <=> Len(frames) = 0)
      /\ Len(frames') \in Nat /\ (frames' = <<>> <=> Len(frames') = 0)
      /\ (frames # <<>> => Len(frames) \in 1..Len(frames))
  BY Tops DEF TypeOK
<1>3. ASSUME frames' # <<>>, frames # <<>>, frames'[1] = frames[1],
             durable' = durable, begun' = begun
      PROVE  NothingLeftBehind'
  BY <1>3 DEF NothingLeftBehind
<1>4. ASSUME frames' = <<>>, exc' = "none" => ~InTransaction'
      PROVE  NothingLeftBehind'
  BY <1>4 DEF NothingLeftBehind
<1>5. frames # <<>> => InTransaction
  BY OpenCall
<1>6. (frames = <<>> /\ exc = "none") => ~InTransaction /\ data = durable
  BY DEF NothingLeftBehind, CallsMatchStack
<1>7. CASE BodyStep
  <2>1. CASE Write
    <3>1. CASE frames = <<>>
      BY <1>4, <1>6, <2>1, <3>1 DEF Write, WriteTo, Running, InTransaction
    <3>2. CASE frames # <<>>
      BY <1>3, <1>5, <2>1, <3>2 DEF Write, WriteTo
    <3> QED
      BY <3>1, <3>2
  <2>2. CASE BodyThrows \/ BodyCatches
    BY <1>3, <2>2 DEF BodyThrows, BodyCatches, engine
  <2>3. CASE EngineAbort
    BY <2>3 DEF EngineAbort
  <2>4. CASE CallerCatches
    <3>1. ~InTransaction'
      <4>1. CASE InTransaction
        BY <2>4, <4>1 DEF CallerCatches, rollback, InTransaction
      <4>2. CASE ~InTransaction
        BY <2>4, <4>2 DEF CallerCatches, engine, InTransaction
      <4> QED
        BY <4>1, <4>2
    <3> QED
      BY <1>4, <2>4, <3>1 DEF CallerCatches
  <2> QED
    BY <1>7, <2>1, <2>2, <2>3, <2>4 DEF BodyStep, Failure, StatementFails
<1>8. CASE SavePointThrows \/ BeginThrows
  <2>1. UNCHANGED frames /\ UNCHANGED engine /\ exc' = "std"
    BY <1>8 DEF SavePointThrows, BeginThrows
  <2>2. CASE frames = <<>>
    BY <1>4, <2>1, <2>2
  <2>3. CASE frames # <<>>
    BY <1>3, <2>1, <2>3 DEF engine
  <2> QED
    BY <2>2, <2>3
<1>9. CASE TryRun
  <2>1. PICK n \in LevelNames[level'] :
          savePoint(n) /\ Call("run", n, level', Len(savepoints) + 1)
    BY <1>9 DEF TryRun
  <2> DEFINE f == [kind |-> "run", name |-> n, entry |-> data,
                   depth |-> level', mark |-> Len(savepoints) + 1]
  <2>2. frames' = Append(frames, f) /\ begun' = begun /\ durable' = durable
    BY <2>1 DEF Call, savePoint
  <2>3. f.entry = data /\ f.mark = Len(savepoints) + 1
    OBVIOUS
  <2> HIDE DEF f
  <2>4. frames' # <<>> /\ Len(frames') = Len(frames) + 1
        /\ frames'[1] = IF frames = <<>> THEN f ELSE frames[1]
    BY <1>2, <2>2 DEF TypeOK
  <2>5. CASE frames = <<>>
    <3>1. ~begun /\ Len(savepoints) = 0 /\ data = durable
      BY <1>6, <1>9, <2>5, Emptied DEF TryRun, Running, InTransaction
    <3> QED
      BY <2>2, <2>3, <2>4, <2>5, <3>1 DEF NothingLeftBehind
  <2>6. CASE frames # <<>>
    BY <1>3, <2>2, <2>4, <2>6
  <2> QED
    BY <2>5, <2>6
<1>10. CASE TryOutermost \/ Begin
  <2>1. PICK kind \in {"outermost", "manual"} : Call(kind, "BEGIN", level, 0)
    BY <1>10 DEF TryOutermost, Begin
  <2> DEFINE f == [kind |-> kind, name |-> "BEGIN", entry |-> data, depth |-> level, mark |-> 0]
  <2>2. frames' = Append(frames, f) /\ durable' = durable /\ frames = <<>> /\ data = durable
    BY <1>5, <1>6, <1>10, <2>1 DEF Call, TryOutermost, Begin, beginTransaction, Running
  <2>3. f.entry = data /\ f.kind # "run"
    OBVIOUS
  <2> HIDE DEF f
  <2>4. frames' # <<>> /\ frames'[1] = f
    BY <1>2, <2>2 DEF TypeOK
  <2> QED
    BY <2>2, <2>3, <2>4 DEF NothingLeftBehind
<1>11. ASSUME frames # <<>>, Return, begun' = begun, durable' = durable, Len(frames) # 1
       PROVE  NothingLeftBehind'
  <2>1. Len(frames') = Len(frames) - 1 /\ \A i \in 1..Len(frames') : frames'[i] = frames[i]
    BY <1>11, ReturnPops DEF TypeOK
  <2>2. frames' # <<>> /\ 1 \in 1..Len(frames')
    BY <1>2, <1>11, <2>1
  <2> QED
    BY <1>3, <1>11, <2>1, <2>2
<1>12. ASSUME frames # <<>>, Return, Len(frames) = 1, exc' = "none" => ~InTransaction'
       PROVE  NothingLeftBehind'
  <2>1. frames' = <<>>
    BY <1>2, <1>12, ReturnPops DEF TypeOK
  <2> QED
    BY <1>4, <1>12, <2>1
<1>13. ASSUME Top.kind # "run", frames # <<>> PROVE Len(frames) = 1
  <2>1. Len(frames) # 1 => 1 \in 1..Len(frames) /\ 1 < Len(frames)
    BY <1>2, <1>13, AboveFirst
  <2> QED
    BY <1>2, <1>13, <2>1 DEF CallsMatchStack, Top
<1>14. CASE RunReturns
  <2>1. frames # <<>> /\ Return /\ InCall("run") /\ begun' = begun
    BY <1>14 DEF RunReturns, InCall, release
  <2>2. CASE Len(frames) = 1
    BY <1>12, <1>14, <2>1, <2>2, OutermostRelease
  <2>3. CASE Len(frames) # 1
    <3>1. ~ IsTransactionSavepoint(Top.mark) /\ Latest(Top.name) = Top.mark
      BY <2>1, <2>3, NoInnerCommit, OwnIsLatest
    <3>2. durable' = durable
      BY <1>14, <3>1 DEF RunReturns, release
    <3> QED
      BY <1>11, <2>1, <2>3, <3>2
  <2> QED
    BY <2>2, <2>3
<1>15. CASE RunReleaseThrows \/ RunRollsBack \/ RunRollbackThrows \/ RunUnwinds
  <2>1. frames # <<>> /\ Return /\ begun' = begun /\ durable' = durable /\ exc' # "none"
    BY <1>15 DEF RunReleaseThrows, RunRollsBack, RunRollbackThrows, RunUnwinds, InCall,
                 rollbackTo, engine
  <2> QED
    BY <1>11, <1>12, <2>1
<1>16. CASE \/ OutermostReturns \/ Commit \/ CommitThrows \/ Rollback
            \/ OutermostRollsBack \/ OutermostRollbackThrows \/ OutermostUnwinds
  <2>1. frames # <<>> /\ Return /\ Top.kind # "run"
    BY <1>16 DEF OutermostReturns, Commit, CommitThrows, Rollback, OutermostRollsBack,
                 OutermostRollbackThrows, OutermostUnwinds, InCall
  <2>2. exc' = "none" => ~InTransaction'
    BY <1>16 DEF OutermostReturns, Commit, CommitThrows, Rollback, OutermostRollsBack,
                 OutermostRollbackThrows, OutermostUnwinds, commit, rollback, InTransaction
  <2> QED
    BY <1>12, <1>13, <2>1, <2>2
<1>17. CASE UNCHANGED vars
  BY <1>17 DEF vars, engine, NothingLeftBehind, InTransaction
<1> QED
  BY <1>1, <1>7, <1>8, <1>9, <1>10, <1>14, <1>15, <1>16, <1>17 DEF Next, RunStep, RunHandles,
       OutermostStep, OutermostHandles

LEMMA Always == ASSUME Discipline PROVE Spec => []Inv
<1>1. Init => NothingLeftBehind /\ exc # "other"
  BY DEF Init, NothingLeftBehind, InTransaction
<1>2. Inv /\ [Next]_vars => Inv'
  BY Typing, LevelStep, CallsMatchStep, LeftBehindStep DEF Inv, Discipline
<1>3. Init => Inv
  BY <1>1, TypedInit, CallsMatchInit DEF Inv
<1> QED
  BY <1>2, <1>3, PTL DEF Spec

\* With a caller that rolls back, the engine's stack is empty whenever no call
\* is open, so every outermost call starts a transaction of its own.
THEOREM NothingLeftBehindCorrect == ASSUME Discipline PROVE Spec => []NothingLeftBehind
<1>1. Inv => NothingLeftBehind
  BY DEF Inv
<1> QED
  BY <1>1, Always, PTL

-----------------------------------------------------------------------------
(* The promise of a commit.                                                *)

\* An outermost tryRun or tryOutermost that returns normally has committed its
\* work and closed the transaction ("Commit changes.", Database.h:81).
THEOREM CommitCorrect == ASSUME Discipline PROVE Spec => OutermostCommits
<1> DEFINE Ends == /\ Running /\ Len(frames) = 1 /\ ~InCall("manual")
                   /\ frames' = <<>> /\ exc' = "none"
<1>1. ASSUME Inv, [Next]_vars, Ends
      PROVE  durable' = data /\ ~InTransaction'
  <2>1. frames # <<>> /\ frames' # frames
    BY <1>1, Emptied
  <2>2. CASE RunReturns
    BY <1>1, <2>2, OutermostRelease
  <2>3. CASE OutermostReturns
    BY <2>3 DEF OutermostReturns, commit, InTransaction
  <2>4. ~ TryRun /\ ~ TryOutermost /\ ~ Begin
    <3>1. ASSUME NEW e PROVE frames' # Append(frames, e)
      <4>1. frames \in Seq(Frame \cup {e}) /\ e \in Frame \cup {e}
        BY <1>1 DEF Inv, TypeOK
      <4>2. Len(Append(frames, e)) = Len(frames) + 1 /\ Len(frames) = 1
        BY <1>1, <4>1, Pushed
      <4> QED
        BY <1>1, <4>2, Emptied
    <3>2. \A kind, name, depth, mark : ~ Call(kind, name, depth, mark)
      BY <3>1 DEF Call
    <3> QED
      BY <3>2 DEF TryRun, TryOutermost, Begin
  <2> QED
    BY <1>1, <2>1, <2>2, <2>3, <2>4 DEF Next, BodyStep, Failure, StatementFails, RunStep,
         RunHandles, OutermostStep, OutermostHandles, vars, Running,
       InCall, Write, WriteTo, BodyThrows, EngineAbort, BodyCatches, CallerCatches, SavePointThrows,
       RunReleaseThrows, RunRollsBack, RunRollbackThrows, RunUnwinds, BeginThrows, Commit,
       CommitThrows, Rollback, OutermostRollsBack, OutermostRollbackThrows, OutermostUnwinds
<1>2. Inv /\ [Next]_vars => [Ends => durable' = data /\ ~InTransaction']_vars
  BY <1>1
<1> QED
  BY <1>2, Always, PTL DEF Spec, OutermostCommits

-----------------------------------------------------------------------------
(* The refinement.                                                         *)

\* What a call found is a set of rows.
LEMMA EntryTyped ==
    ASSUME NEW s \in Seq(Frame)
    PROVE  Len(s) \in Nat /\ \A i \in 1..Len(s) : s[i].entry \in SUBSET Rows
<1>1. Len(s) \in Nat /\ \A i \in 1..Len(s) : s[i] \in Frame
  BY Tops
<1>2. \A f \in Frame : f.entry \in SUBSET Rows
  BY DEF Frame
<1> QED
  BY <1>1, <1>2

\* The abstract stack of runs is the stack of calls, seen through what each
\* call found.
LEMMA FoundIs ==
    ASSUME TypeOK
    PROVE  /\ Found \in Seq(SUBSET Rows)
           /\ Len(Found) = Len(frames)
           /\ \A i \in 1..Len(frames) : Found[i] = frames[i].entry
<1>1. Len(frames) \in Nat /\ \A i \in 1..Len(frames) : frames[i].entry \in SUBSET Rows
  BY EntryTyped DEF TypeOK
<1> QED
  BY <1>1 DEF Found

LEMMA FoundPopped ==
    ASSUME TypeOK, TypeOK', frames # <<>>, Return
    PROVE  /\ Found' = SubSeq(Found, 1, Len(Found) - 1)
           /\ Len(Found) > 0
           /\ Found[Len(Found)] = Top.entry
<1> DEFINE n == Len(Found) - 1
<1>1. Len(frames) \in Nat /\ Len(frames) \in 1..Len(frames)
  BY Tops DEF TypeOK
<1>2. Len(frames') = Len(frames) - 1 /\ \A i \in 1..Len(frames') : frames'[i] = frames[i]
  BY ReturnPops DEF TypeOK
<1>3. Found \in Seq(SUBSET Rows) /\ Len(Found) = Len(frames) /\ n \in 0..Len(Found)
  BY <1>1, FoundIs
<1>4. Found' = [i \in 1..n |-> frames[i].entry]
  BY <1>1, <1>2, <1>3 DEF Found
<1>5. SubSeq(Found, 1, n) = [i \in 1..n |-> Found[i]]
  BY <1>1, <1>3
<1>6. \A i \in 1..n : Found[i] = frames[i].entry
  BY <1>1, <1>3, FoundIs
<1> QED
  BY <1>1, <1>3, <1>4, <1>5, <1>6, FoundIs DEF Top

LEMMA FoundPushed ==
    ASSUME TypeOK, TypeOK', NEW f \in Frame, frames' = Append(frames, f), f.entry = data
    PROVE  Found' = Append(Found, data)
<1>1. Len(frames) \in Nat /\ data \in SUBSET Rows
  BY Tops DEF TypeOK
<1>2. Len(frames') = Len(frames) + 1 /\ frames'[Len(frames) + 1] = f
      /\ \A i \in 1..Len(frames) : frames'[i] = frames[i]
  BY Pushed DEF TypeOK
<1>3. Found \in Seq(SUBSET Rows) /\ Len(Found) = Len(frames)
      /\ Found' \in Seq(SUBSET Rows) /\ Len(Found') = Len(frames')
  <2>1. Found' \in Seq(SUBSET Rows) /\ Len(Found') = Len(frames')
    <3>1. Len(frames') \in Nat /\ \A i \in 1..Len(frames') : frames'[i].entry \in SUBSET Rows
      BY EntryTyped DEF TypeOK
    <3> QED
      BY <3>1 DEF Found
  <2> QED
    BY <2>1, FoundIs
<1>4. Append(Found, data) \in Seq(SUBSET Rows) /\ Len(Append(Found, data)) = Len(frames) + 1
      /\ Append(Found, data)[Len(frames) + 1] = data
      /\ \A i \in 1..Len(frames) : Append(Found, data)[i] = Found[i]
  BY <1>1, <1>3, Pushed
<1>5. \A i \in 1..(Len(frames) + 1) : Found'[i] = Append(Found, data)[i]
  <2>1. \A i \in 1..(Len(frames) + 1) : Found'[i] = frames'[i].entry
    BY <1>2 DEF Found
  <2>2. \A i \in 1..Len(frames) : Found'[i] = Found[i]
    BY <1>1, <1>2, <2>1, FoundIs
  <2>3. Found'[Len(frames) + 1] = data
    BY <1>1, <1>2, <2>1
  <2>4. \A i \in 1..(Len(frames) + 1) : i = Len(frames) + 1 \/ i \in 1..Len(frames)
    BY <1>1
  <2> QED
    BY <1>4, <2>2, <2>3, <2>4
<1> QED
  BY <1>2, <1>3, <1>4, <1>5, SeqEqual

\* Every step of the code is a step of the abstract runs, or none.
LEMMA Simulation ==
    ASSUME Discipline, Inv, Inv', [Next]_vars
    PROVE  [Abstract!ANext]_(Abstract!avars)
<1> USE DEF Inv
<1>1. Len(frames) \in Nat /\ (frames = <<>> <=> Len(frames) = 0)
      /\ (frames # <<>> => Len(frames) \in 1..Len(frames))
  BY Tops DEF TypeOK
<1>2. frames # <<>> => InTransaction
  BY OpenCall
<1>3. (frames = <<>> /\ exc = "none") => ~InTransaction
  BY DEF NothingLeftBehind
<1>4. ~InTransaction => data = durable
  BY DEF CallsMatchStack
<1>5. ASSUME frames' = frames, Promised' = Promised, durable' = durable
      PROVE  [Abstract!ANext]_(Abstract!avars)
  <2>1. Found' = Found
    BY <1>5 DEF Found
  <2>2. CASE Failing' = Failing
    BY <1>5, <2>1, <2>2 DEF Abstract!avars
  <2>3. CASE Failing' # Failing
    <3>1. Abstract!Raise \/ Abstract!Catch
      BY <1>5, <2>1, <2>3 DEF Abstract!Raise, Abstract!Catch, Failing
    <3> QED
      BY <3>1 DEF Abstract!ANext
  <2> QED
    BY <2>2, <2>3
<1>6. ASSUME NEW f \in Frame, frames' = Append(frames, f), f.entry = data, exc = "none",
             exc' = "none", data' = data, durable' = durable
      PROVE  Abstract!Enter
  BY <1>6, FoundPushed DEF Abstract!Enter, Promised, Failing
<1>7. ASSUME frames # <<>>, Return
      PROVE  /\ Found' = Abstract!Outer
             /\ Abstract!Depth > 0
             /\ Found[Abstract!Depth] = Top.entry
             /\ Abstract!Depth = Len(frames)
             /\ frames' = <<>> <=> Len(frames) = 1
             /\ frames' = <<>> => Top.entry = durable
  <2>1. Found' = Abstract!Outer /\ Abstract!Depth > 0 /\ Found[Abstract!Depth] = Top.entry
    BY <1>7, FoundPopped DEF Abstract!Outer, Abstract!Depth
  <2>2. Abstract!Depth = Len(frames)
    BY FoundIs DEF Abstract!Depth
  <2>3. frames' = <<>> <=> Len(frames) = 1
    BY <1>1, <1>7, ReturnPops, Tops DEF TypeOK
  <2>4. Len(frames) = 1 => Top.entry = durable
    BY <1>7 DEF NothingLeftBehind, Top
  <2> QED
    BY <2>1, <2>2, <2>3, <2>4
<1>8. ASSUME frames # <<>>, Return, exc = "none", exc' = "none", data' = data,
             durable' = IF frames' = <<>> THEN data ELSE durable
      PROVE  Abstract!Keep
  BY <1>7, <1>8 DEF Abstract!Keep, Promised, Failing
<1>9. ASSUME frames # <<>>, Return, durable' = durable, exc # "none" => exc' # "none",
             IF frames' = <<>> /\ exc' # "none" THEN TRUE ELSE data' = Top.entry
      PROVE  Abstract!Undo
  <2>1. Failing' \in BOOLEAN /\ (Failing => Failing')
    BY <1>9 DEF Failing
  <2>2. Promised' = Found[Abstract!Depth]
    BY <1>7, <1>9 DEF Promised
  <2> QED
    BY <1>7, <1>9, <2>1, <2>2 DEF Abstract!Undo
<1>10. ASSUME Top.kind # "run", frames # <<>> PROVE Len(frames) = 1
  <2>1. Len(frames) # 1 => 1 \in 1..Len(frames) /\ 1 < Len(frames)
    BY <1>1, <1>10, AboveFirst
  <2> QED
    BY <1>1, <1>10, <2>1 DEF CallsMatchStack, Top
<1>11. CASE Write
  <2>1. exc = "none" /\ exc' = "none" /\ frames' = frames /\ data' \in SUBSET Rows
    BY <1>11 DEF Write, WriteTo, Running, TypeOK
  <2>2. Promised = data /\ Promised' = data' /\ Found' = Found
    BY <2>1 DEF Promised, Found
  <2>3. durable' = IF Abstract!Depth = 0 THEN data' ELSE durable
    BY <1>1, <1>2, <1>3, <1>11, <2>1, FoundIs DEF Write, WriteTo, Abstract!Depth
  <2>4. Abstract!Work
    BY <2>1, <2>2, <2>3 DEF Abstract!Work, Failing
  <2> QED
    BY <2>4 DEF Abstract!ANext
<1>12. CASE BodyThrows \/ BodyCatches
  BY <1>5, <1>12 DEF BodyThrows, BodyCatches, engine, Promised
<1>13. CASE EngineAbort
  BY <1>13 DEF EngineAbort, Discipline
<1>14. CASE CallerCatches
  <2>1. frames' = frames /\ durable' = durable /\ data' = durable
    <3>1. CASE InTransaction
      BY <1>14, <3>1 DEF CallerCatches, Discipline, rollback
    <3>2. CASE ~InTransaction
      BY <1>4, <1>14, <3>2 DEF CallerCatches, Discipline, engine
    <3> QED
      BY <3>1, <3>2
  <2> QED
    BY <1>5, <1>14, <2>1 DEF CallerCatches, Promised
<1>15. CASE SavePointThrows \/ BeginThrows
  <2>1. frames' = frames /\ data' = data /\ durable' = durable /\ exc = "none"
    BY <1>15 DEF SavePointThrows, BeginThrows, engine, Running
  <2> QED
    BY <1>3, <1>4, <1>5, <2>1 DEF Promised
<1>16. CASE TryRun
  <2>1. PICK n \in LevelNames[level'] :
          savePoint(n) /\ Call("run", n, level', Len(savepoints) + 1)
    BY <1>16 DEF TryRun
  <2> DEFINE f == [kind |-> "run", name |-> n, entry |-> data,
                   depth |-> level', mark |-> Len(savepoints) + 1]
  <2>2. frames' = Append(frames, f) /\ f.entry = data
    BY <2>1 DEF Call
  <2>3. f \in Frame
    <3>1. level' \in 1..MaxDepth /\ Len(savepoints) + 1 \in 0..MaxStack
      BY <1>16, TransactionsAssumption, Tops DEF TryRun, TypeOK
    <3>2. n \in Names /\ data \in SUBSET Rows
      BY <3>1 DEF Names, TypeOK
    <3> QED
      BY <3>1, <3>2, TransactionsAssumption DEF Frame
  <2> HIDE DEF f
  <2>4. Abstract!Enter
    BY <1>6, <1>16, <2>1, <2>2, <2>3 DEF TryRun, Running, savePoint
  <2> QED
    BY <2>4 DEF Abstract!ANext
<1>17. CASE TryOutermost \/ Begin
  <2>1. PICK kind \in {"outermost", "manual"} : Call(kind, "BEGIN", level, 0)
    BY <1>17 DEF TryOutermost, Begin
  <2> DEFINE f == [kind |-> kind, name |-> "BEGIN", entry |-> data, depth |-> level, mark |-> 0]
  <2>2. frames' = Append(frames, f) /\ f.entry = data
    BY <2>1 DEF Call
  <2>3. f \in Frame
    BY TransactionsAssumption DEF Frame, TypeOK
  <2> HIDE DEF f
  <2>4. Abstract!Enter
    BY <1>6, <1>17, <2>2, <2>3 DEF TryOutermost, Begin, Running, beginTransaction
  <2> QED
    BY <2>4 DEF Abstract!ANext
<1>18. CASE RunReturns
  <2>1. frames # <<>> /\ Return /\ InCall("run") /\ exc = "none" /\ exc' = "none"
        /\ data' = data
    BY <1>18 DEF RunReturns, InCall, release, Running
  <2>2. Len(frames) # 1 => durable' = durable
    <3>1. Len(frames) # 1 => ~ IsTransactionSavepoint(Top.mark)
      BY <2>1, NoInnerCommit
    <3> QED
      BY <1>18, <2>1, <3>1, OwnIsLatest DEF RunReturns, release, Discipline
  <2>3. Len(frames) = 1 => durable' = data
    BY <1>18, OutermostRelease
  <2>4. Abstract!Keep
    BY <1>7, <1>8, <2>1, <2>2, <2>3
  <2> QED
    BY <2>4 DEF Abstract!ANext
<1>19. CASE RunReleaseThrows
  <2>1. frames # <<>> /\ Return /\ InCall("run") /\ exc' = "std" /\ durable' = durable
    BY <1>19 DEF RunReleaseThrows, InCall, engine
  <2>2. Len(frames) = 1
    BY <1>19, <2>1, OwnIsLatest, NoInnerCommit DEF RunReleaseThrows, Discipline
  <2>3. Abstract!Undo
    BY <1>7, <1>9, <2>1, <2>2
  <2> QED
    BY <2>3 DEF Abstract!ANext
<1>20. CASE RunRollsBack
  <2>1. frames # <<>> /\ Return /\ InCall("run") /\ exc' = "std" /\ durable' = durable
        /\ data' = savepoints[Latest(Top.name)].saved
    BY <1>20 DEF RunRollsBack, InCall, rollbackTo
  <2>2. savepoints[Latest(Top.name)] = [name |-> Top.name, saved |-> Top.entry]
    BY <2>1, OwnIsLatest DEF Discipline
  <2>3. data' = Top.entry
    BY <2>1, <2>2
  <2>4. Abstract!Undo
    BY <1>9, <2>1, <2>3
  <2> QED
    BY <2>4 DEF Abstract!ANext
<1>21. CASE RunRollbackThrows \/ RunUnwinds
  BY <1>21, OwnIsLatest DEF RunRollbackThrows, RunUnwinds, Discipline
<1>22. CASE OutermostReturns \/ Commit
  <2>1. frames # <<>> /\ Return /\ Top.kind # "run" /\ exc = "none" /\ exc' = "none"
        /\ data' = data /\ durable' = data
    BY <1>22 DEF OutermostReturns, Commit, commit, InCall, Running
  <2>2. Abstract!Keep
    BY <1>7, <1>8, <1>10, <2>1
  <2> QED
    BY <2>2 DEF Abstract!ANext
<1>23. CASE CommitThrows \/ OutermostRollbackThrows \/ OutermostUnwinds
  <2>1. frames # <<>> /\ Return /\ Top.kind # "run" /\ exc' # "none" /\ durable' = durable
    BY <1>23 DEF CommitThrows, OutermostRollbackThrows, OutermostUnwinds, InCall, engine
  <2>2. Abstract!Undo
    BY <1>7, <1>9, <1>10, <2>1
  <2> QED
    BY <2>2 DEF Abstract!ANext
<1>24. CASE Rollback \/ OutermostRollsBack
  <2>1. /\ frames # <<>> /\ Return /\ Top.kind # "run" /\ data' = durable /\ durable' = durable
        /\ exc' = exc
    BY <1>24 DEF Rollback, OutermostRollsBack, InCall, rollback
  <2>2. Abstract!Undo
    BY <1>7, <1>9, <1>10, <2>1
  <2> QED
    BY <2>2 DEF Abstract!ANext
<1>25. CASE UNCHANGED vars
  BY <1>5, <1>25 DEF vars, engine, Promised
<1> QED
  BY <1>11, <1>12, <1>13, <1>14, <1>15, <1>16, <1>17, <1>18, <1>19, <1>20, <1>21, <1>22,
     <1>23, <1>24, <1>25 DEF Next, BodyStep, Failure, StatementFails, RunStep, RunHandles,
          OutermostStep, OutermostHandles

\* tryRun and tryOutermost over SAVEPOINT, RELEASE and ROLLBACK TO implement
\* nested atomic runs (Database.h:60-139).
THEOREM Refinement == ASSUME Discipline PROVE Spec => RefinesAtomicRun
<1>1. Init => Abstract!AInit
  <2> SUFFICES ASSUME Init PROVE Abstract!AInit
    OBVIOUS
  <2>1. frames = <<>> /\ Len(frames) = 0 /\ data = {} /\ durable = {}
    BY Emptied DEF Init
  <2>2. Found = <<>>
    BY <2>1 DEF Found
  <2>3. Promised = {}
    BY <2>1 DEF Promised
  <2> QED
    BY <2>1, <2>2, <2>3 DEF Init, Failing, Abstract!AInit
<1>2. Inv /\ Inv' /\ [Next]_vars => [Abstract!ANext]_(Abstract!avars)
  BY Simulation
<1> QED
  BY <1>1, <1>2, Always, PTL DEF Spec, RefinesAtomicRun, Abstract!ASpec
=============================================================================
