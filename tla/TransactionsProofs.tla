------------------------- MODULE TransactionsProofs -------------------------
(***************************************************************************)
(* Theorems about Transactions, for every set of rows, every nesting bound *)
(* and every choice of savepoint names. The first two hold whatever fails; *)
(* the ones about savepoints assume that no name is shared by two levels   *)
(* (default names never are) and, but for the last, that the engine does   *)
(* not abort the transaction by itself. None assumes that the caller rolls *)
(* back.                                                                   *)
(***************************************************************************)
EXTENDS Transactions, TLAPS, WellFoundedInduction

-----------------------------------------------------------------------------
(* Sequences used as stacks.                                               *)

\* Pushing keeps what is there and puts the new element on top.
LEMMA Pushed ==
    ASSUME NEW S, NEW s \in Seq(S), NEW e \in S
    PROVE  /\ Append(s, e) \in Seq(S)
           /\ Len(Append(s, e)) = Len(s) + 1
           /\ \A i \in 1..Len(s) : Append(s, e)[i] = s[i]
           /\ Append(s, e)[Len(s) + 1] = e
    OBVIOUS

\* Cutting a stack keeps the elements below the cut.
LEMMA Cut ==
    ASSUME NEW S, NEW s \in Seq(S), NEW n \in 0..Len(s)
    PROVE  /\ SubSeq(s, 1, n) \in Seq(S)
           /\ Len(SubSeq(s, 1, n)) = n
           /\ \A i \in 1..n : SubSeq(s, 1, n)[i] = s[i]
    OBVIOUS

\* The empty stack, and the top of another one.
LEMMA Tops ==
    ASSUME NEW S, NEW s \in Seq(S)
    PROVE  /\ Len(s) \in Nat
           /\ s = <<>> <=> Len(s) = 0
           /\ s # <<>> => s[Len(s)] \in S /\ Len(s) \in 1..Len(s)
    OBVIOUS

\* The stack after everything is dropped.
LEMMA Emptied ==
    ASSUME NEW S, NEW s, s = <<>>
    PROVE  s \in Seq(S) /\ Len(s) = 0
    OBVIOUS

LEMMA AboveFirst ==
    ASSUME NEW n \in Nat, n \in 1..n, n # 1
    PROVE  1 \in 1..n /\ 1 < n
    OBVIOUS

-----------------------------------------------------------------------------
(* The engine's stack.                                                     *)

Less == {p \in Nat \X Nat : p[1] < p[2]}

\* A non-empty set of numbers below a bound has a greatest element.
LEMMA Greatest ==
    ASSUME NEW b \in Nat, NEW T \in SUBSET (1..b), T # {}
    PROVE  \E i \in T : \A j \in T : j <= i
<1> DEFINE D == {b - i : i \in T}
<1>1. IsWellFoundedOn(Less, Nat)
  <2>1. Less = OpToRel(<, Nat)
    BY DEF Less, OpToRel
  <2> QED
    BY <2>1, NatLessThanWellFounded
<1>2. D \subseteq Nat /\ D # {}
  <2>1. \A i \in T : b - i \in Nat
    OBVIOUS
  <2>2. PICK i \in T : TRUE
    OBVIOUS
  <2>3. b - i \in D
    OBVIOUS
  <2> QED
    BY <2>1, <2>3
<1>3. PICK x \in D : \A y \in D : ~ (<<y, x>> \in Less)
  <2> HIDE DEF D
  <2> QED
    BY <1>1, <1>2, WFMin
<1>4. PICK i \in T : x = b - i
  OBVIOUS
<1>5. ASSUME NEW j \in T PROVE j <= i
  <2>1. ~ (<<b - j, x>> \in Less)
    BY <1>3
  <2>2. b - j \in Nat /\ x \in Nat /\ ~ (b - j < x)
    BY <2>1, <1>2 DEF Less
  <2> QED
    BY <1>4, <2>2
<1> QED
  BY <1>5

\* The most recent savepoint of a name that is on the stack.
LEMMA LatestNamed ==
    ASSUME savepoints \in Seq(Savepoint), NEW n, Named(n) # {}
    PROVE  /\ Latest(n) \in 1..Len(savepoints)
           /\ savepoints[Latest(n)].name = n
           /\ \A j \in Named(n) : j <= Latest(n)
<1>1. Named(n) \in SUBSET (1..Len(savepoints)) /\ Len(savepoints) \in Nat
  BY DEF Named
<1>2. \E i \in Named(n) : \A j \in Named(n) : j <= i
  BY <1>1, Greatest
<1>3. Latest(n) \in Named(n) /\ \A j \in Named(n) : j <= Latest(n)
  BY <1>2 DEF Latest
<1> QED
  BY <1>3 DEF Named

\* A savepoint with no namesake above it is the most recent one of its name.
LEMMA LatestIs ==
    ASSUME savepoints \in Seq(Savepoint), NEW m \in 1..Len(savepoints),
           \A j \in (m + 1)..Len(savepoints) : savepoints[j].name # savepoints[m].name
    PROVE  Named(savepoints[m].name) # {} /\ Latest(savepoints[m].name) = m
<1> DEFINE n == savepoints[m].name
<1>1. m \in Named(n)
  BY DEF Named
<1>2. Latest(n) \in 1..Len(savepoints) /\ savepoints[Latest(n)].name = n /\ m <= Latest(n)
  BY <1>1, LatestNamed
<1> QED
  BY <1>1, <1>2

\* RELEASE and ROLLBACK TO cut the stack and nothing else.
LEMMA ReleaseCuts ==
    ASSUME savepoints \in Seq(Savepoint), NEW n, release(n)
    PROVE  /\ Latest(n) \in 1..Len(savepoints)
           /\ savepoints' \in Seq(Savepoint)
           /\ Len(savepoints') = Latest(n) - 1
           /\ \A i \in 1..Len(savepoints') : savepoints'[i] = savepoints[i]
<1>1. Latest(n) \in 1..Len(savepoints)
  BY LatestNamed DEF release
<1>2. Latest(n) - 1 \in 0..Len(savepoints)
  BY <1>1, Tops
<1> QED
  BY <1>1, <1>2, Cut DEF release

LEMMA RollbackToCuts ==
    ASSUME savepoints \in Seq(Savepoint), NEW n, rollbackTo(n)
    PROVE  /\ Latest(n) \in 1..Len(savepoints)
           /\ savepoints' \in Seq(Savepoint)
           /\ Len(savepoints') = Latest(n)
           /\ \A i \in 1..Len(savepoints') : savepoints'[i] = savepoints[i]
<1>1. Latest(n) \in 1..Len(savepoints)
  BY LatestNamed DEF rollbackTo
<1>2. Latest(n) \in 0..Len(savepoints)
  BY <1>1, Tops
<1> QED
  BY <1>1, <1>2, Cut DEF rollbackTo

\* A call that ends takes exactly its own frame off the C++ stack.
LEMMA ReturnPops ==
    ASSUME frames \in Seq(Frame), frames # <<>>, Return
    PROVE  /\ frames' \in Seq(Frame)
           /\ Len(frames') = Len(frames) - 1
           /\ \A i \in 1..Len(frames') : frames'[i] = frames[i]
<1>1. Len(frames) - 1 \in 0..Len(frames)
  BY Tops
<1> QED
  BY <1>1, Cut DEF Return

-----------------------------------------------------------------------------
(* Type correctness.                                                       *)

\* Every engine operation keeps the engine's part of the state well typed.
EngineOK ==
    /\ begun \in BOOLEAN
    /\ savepoints \in Seq(Savepoint)
    /\ Len(savepoints) <= MaxStack
    /\ data \in SUBSET Rows
    /\ durable \in SUBSET Rows

LEMMA EngineTyped ==
    ASSUME EngineOK,
           \/ \E n : release(n) \/ rollbackTo(n)
           \/ beginTransaction \/ commit \/ rollback
           \/ UNCHANGED engine
    PROVE  EngineOK'
<1> USE DEF EngineOK
<1> MaxStack \in Nat /\ Len(savepoints) \in Nat
  BY TransactionsAssumption, Tops
<1>1. ASSUME NEW n, release(n) PROVE EngineOK'
  <2>1. /\ Latest(n) \in 1..Len(savepoints)
        /\ savepoints' \in Seq(Savepoint)
        /\ Len(savepoints') = Latest(n) - 1
    BY <1>1, ReleaseCuts
  <2>2. begun' = begun /\ data' = data /\ durable' \in {data, durable}
    BY <1>1 DEF release
  <2> QED
    BY <2>1, <2>2
<1>2. ASSUME NEW n, rollbackTo(n) PROVE EngineOK'
  <2>1. /\ Latest(n) \in 1..Len(savepoints)
        /\ savepoints' \in Seq(Savepoint)
        /\ Len(savepoints') = Latest(n)
    BY <1>2, RollbackToCuts
  <2>2. savepoints[Latest(n)] \in Savepoint
    BY <2>1
  <2>3. savepoints[Latest(n)].saved \in SUBSET Rows
    BY <2>2 DEF Savepoint
  <2>4. begun' = begun /\ data' = savepoints[Latest(n)].saved /\ durable' = durable
    BY <1>2 DEF rollbackTo
  <2> QED
    BY <2>1, <2>3, <2>4
<1>3. CASE beginTransaction
  BY <1>3 DEF beginTransaction
<1>4. savepoints' = <<>> => savepoints' \in Seq(Savepoint) /\ Len(savepoints') = 0
  BY Emptied
<1>5. CASE commit
  <2>1. begun' \in BOOLEAN /\ savepoints' = <<>>
    BY <1>5 DEF commit
  <2>2. data' \in {data, durable} /\ durable' \in {data, durable}
    BY <1>5 DEF commit
  <2> QED
    BY <1>4, <2>1, <2>2
<1>6. CASE rollback
  <2>1. begun' \in BOOLEAN /\ savepoints' = <<>>
    BY <1>6 DEF rollback
  <2>2. data' \in {data, durable} /\ durable' \in {data, durable}
    BY <1>6 DEF rollback
  <2> QED
    BY <1>4, <2>1, <2>2
<1>7. CASE UNCHANGED engine
  BY <1>7 DEF engine
<1> QED
  BY <1>1, <1>2, <1>3, <1>5, <1>6, <1>7

LEMMA Typing == TypeOK /\ LevelFollowsCalls /\ [Next]_vars => TypeOK'
<1> SUFFICES ASSUME TypeOK, LevelFollowsCalls, [Next]_vars
             PROVE  TypeOK'
  OBVIOUS
<1> DEFINE CallsOK == level \in 0..MaxDepth /\ frames \in Seq(Frame)
                      /\ exc \in {"none", "std", "other"}
<1>1. EngineOK /\ CallsOK /\ (EngineOK' /\ CallsOK' => TypeOK')
  BY DEF TypeOK, EngineOK
<1> HIDE DEF CallsOK
<1>2. MaxDepth \in Nat \ {0} /\ MaxStack \in Nat \ {0} /\ Thrown \subseteq {"std", "other"}
  BY TransactionsAssumption
<1>3. ASSUME Return, frames # <<>>,
             \/ InCall("run") /\ level' = LeaveLevel(level)
             \/ level' = level,
             exc' \in {"none", "std", "other"}
      PROVE  CallsOK'
  <2>1. frames' \in Seq(Frame)
    BY <1>1, <1>3, ReturnPops DEF CallsOK
  <2>2. ASSUME InCall("run") PROVE level \in 1..MaxDepth
    <3>1. Len(frames) \in 1..Len(frames) /\ Top \in Frame
      BY <1>1, <1>3, Tops DEF CallsOK, Top
    <3>2. level = Top.depth /\ Top.depth \in 0..MaxDepth
      BY <1>3, <3>1 DEF LevelFollowsCalls, Frame
    <3>3. Top.depth # 0
      <4>1. CASE Len(frames) = 1
        BY <2>2, <3>1, <4>1 DEF LevelFollowsCalls, InCall, Top
      <4>2. CASE Len(frames) # 1
        <5>1. Len(frames) - 1 \in 1..Len(frames)
          BY <1>1, <3>1, <4>2, Tops DEF CallsOK
        <5>2. frames[Len(frames) - 1] \in Frame
          BY <1>1, <5>1 DEF CallsOK
        <5>3. frames[Len(frames) - 1].depth \in 0..MaxDepth
          BY <5>2 DEF Frame
        <5>4. Top.depth = frames[Len(frames) - 1].depth + 1
          BY <2>2, <3>1, <4>2 DEF LevelFollowsCalls, InCall, Top
        <5> QED
          BY <5>3, <5>4, <1>2
      <4> QED
        BY <4>1, <4>2
    <3> QED
      BY <3>2, <3>3, <1>2
  <2> QED
    BY <1>1, <1>2, <1>3, <2>1, <2>2 DEF CallsOK, LeaveLevel
<1>4. ASSUME NEW kind \in {"outermost", "manual"}, Call(kind, "BEGIN", level, 0),
             UNCHANGED <<level, exc>>
      PROVE  CallsOK'
  <2> DEFINE f == [kind |-> kind, name |-> "BEGIN", entry |-> data,
                   depth |-> level, mark |-> 0]
  <2>1. f \in Frame
    BY <1>1, <1>2 DEF Frame, CallsOK, EngineOK
  <2>2. frames' = Append(frames, f)
    BY <1>4 DEF Call
  <2> HIDE DEF f
  <2> QED
    BY <1>1, <1>4, <2>1, <2>2, Pushed DEF CallsOK
<1>5. ASSUME UNCHANGED <<level, frames>>, exc' \in {"none", "std", "other"}
      PROVE  CallsOK'
  BY <1>1, <1>5 DEF CallsOK
<1>6. CASE BodyStep
  <2>1. CASE Write
    <3>1. EngineOK'
      BY <1>1, <2>1 DEF Write, WriteTo, EngineOK
    <3> QED
      BY <1>1, <3>1, <2>1 DEF Write, WriteTo, CallsOK
  <2>2. CASE BodyThrows
    BY <1>1, <1>2, <1>5, <2>2, EngineTyped DEF BodyThrows
  <2>3. CASE EngineAbort
    BY <1>1, <1>5, <2>3, EngineTyped DEF EngineAbort
  <2>4. CASE BodyCatches
    BY <1>1, <1>5, <2>4, EngineTyped DEF BodyCatches
  <2>5. CASE CallerCatches
    <3>1. rollback \/ UNCHANGED engine
      BY <2>5 DEF CallerCatches
    <3> QED
      BY <1>1, <1>5, <2>5, <3>1, EngineTyped DEF CallerCatches
  <2> QED
    BY <1>6, <2>1, <2>2, <2>3, <2>4, <2>5 DEF BodyStep, Failure, StatementFails
<1>7. CASE RunStep
  <2> USE <1>1, <1>3 DEF Running
  <2> exc \in {"none", "std", "other"}
    BY DEF CallsOK
  <2>1. CASE TryRun
    <3>1. PICK n \in LevelNames[level'] :
             savePoint(n) /\ Call("run", n, level', Len(savepoints) + 1)
      BY <2>1 DEF TryRun
    <3> DEFINE f == [kind |-> "run", name |-> n, entry |-> data,
                     depth |-> level', mark |-> Len(savepoints) + 1]
               p == [name |-> n, saved |-> data]
    <3>2. level' \in 1..MaxDepth /\ n \in Names
      BY <1>2, <2>1 DEF TryRun, CallsOK, Names
    <3>3. p \in Savepoint /\ f \in Frame
      <4>1. Len(savepoints) + 1 \in 0..MaxStack
        BY <1>2, <2>1, Tops DEF TryRun, EngineOK
      <4> QED
        BY <1>2, <3>2, <4>1 DEF Savepoint, Frame, EngineOK
    <3>4. savepoints' = Append(savepoints, p) /\ frames' = Append(frames, f)
      BY <3>1 DEF savePoint, Call
    <3> HIDE DEF f, p
    <3>5. savepoints' \in Seq(Savepoint) /\ Len(savepoints') = Len(savepoints) + 1
      BY <3>3, <3>4, Pushed DEF EngineOK
    <3>6. frames' \in Seq(Frame)
      BY <3>3, <3>4, Pushed DEF CallsOK
    <3>7. EngineOK'
      BY <1>2, <2>1, <3>1, <3>5, Tops DEF EngineOK, TryRun, savePoint
    <3>8. CallsOK'
      BY <1>2, <2>1, <3>2, <3>6 DEF CallsOK, TryRun
    <3> QED
      BY <3>7, <3>8
  <2>2. CASE SavePointThrows
    <3>1. level' = level
      BY <1>2, <2>2 DEF SavePointThrows, LeaveLevel, CallsOK
    <3> QED
      BY <1>5, <2>2, <3>1, EngineTyped DEF SavePointThrows
  <2>3. CASE RunReturns
    BY <2>3, EngineTyped DEF RunReturns, InCall
  <2>4. CASE RunReleaseThrows
    BY <2>4, EngineTyped DEF RunReleaseThrows, InCall
  <2>5. CASE RunRollsBack
    BY <2>5, EngineTyped DEF RunRollsBack, InCall
  <2>6. CASE RunRollbackThrows
    BY <2>6, EngineTyped DEF RunRollbackThrows, InCall
  <2>7. CASE RunUnwinds
    BY <2>7, EngineTyped DEF RunUnwinds, InCall
  <2> QED
    BY <1>7, <2>1, <2>2, <2>3, <2>4, <2>5, <2>6, <2>7 DEF RunStep, RunHandles
<1>8. CASE OutermostStep
  <2> USE <1>1, <1>3 DEF Running
  <2> exc \in {"none", "std", "other"}
    BY DEF CallsOK
  <2>1. CASE TryOutermost
    BY <1>4, <2>1, EngineTyped DEF TryOutermost
  <2>2. CASE Begin
    BY <1>4, <2>2, EngineTyped DEF Begin
  <2>3. CASE BeginThrows
    BY <1>5, <2>3, EngineTyped DEF BeginThrows
  <2>4. CASE OutermostReturns
    BY <2>4, EngineTyped DEF OutermostReturns, InCall
  <2>5. CASE Commit
    BY <2>5, EngineTyped DEF Commit, InCall
  <2>6. CASE CommitThrows
    BY <2>6, EngineTyped DEF CommitThrows, InCall
  <2>7. CASE Rollback
    BY <2>7, EngineTyped DEF Rollback, InCall
  <2>8. CASE OutermostRollsBack
    BY <2>8, EngineTyped DEF OutermostRollsBack, InCall
  <2>9. CASE OutermostRollbackThrows
    BY <2>9, EngineTyped DEF OutermostRollbackThrows, InCall
  <2>10. CASE OutermostUnwinds
    BY <2>10, EngineTyped DEF OutermostUnwinds, InCall
  <2> QED
    BY <1>8, <2>1, <2>2, <2>3, <2>4, <2>5, <2>6, <2>7, <2>8, <2>9, <2>10 DEF OutermostStep,
         OutermostHandles
<1>9. CASE UNCHANGED vars
  BY <1>9 DEF vars, engine, TypeOK
<1> QED
  BY <1>6, <1>7, <1>8, <1>9 DEF Next

-----------------------------------------------------------------------------
(* The level counter.                                                      *)

Pops ==
    /\ frames # <<>>
    /\ Return
    /\ level' = IF Top.kind = "run" THEN level - 1 ELSE level

Pushes(f) ==
    /\ frames' = Append(frames, f)
    /\ f.depth = level'
    /\ level' = IF f.kind = "run" THEN level + 1 ELSE level

\* Every step enters one call, leaves one call, or stays where it is.
LEMMA StepShape ==
    ASSUME TypeOK, [Next]_vars
    PROVE  \/ UNCHANGED <<level, frames>>
           \/ Pops
           \/ \E f : Pushes(f)
<1>1. level \in 0..MaxDepth
  BY DEF TypeOK
<1>2. ASSUME NEW kind \in {"outermost", "manual"}, Call(kind, "BEGIN", level, 0),
             UNCHANGED level
      PROVE  \E f : Pushes(f)
  <2> DEFINE f == [kind |-> kind, name |-> "BEGIN", entry |-> data,
                   depth |-> level, mark |-> 0]
  <2>1. f.depth = level /\ f.kind # "run"
    OBVIOUS
  <2>2. frames' = Append(frames, f)
    BY <1>2 DEF Call
  <2> HIDE DEF f
  <2> QED
    BY <1>2, <2>1, <2>2 DEF Pushes
<1>3. CASE BodyStep
  BY <1>3 DEF BodyStep, Failure, StatementFails, Write, WriteTo, BodyThrows, EngineAbort,
       BodyCatches, CallerCatches
<1>4. CASE RunStep
  <2>1. CASE TryRun
    <3>1. PICK n \in LevelNames[level'] : Call("run", n, level', Len(savepoints) + 1)
      BY <2>1 DEF TryRun
    <3> DEFINE f == [kind |-> "run", name |-> n, entry |-> data,
                     depth |-> level', mark |-> Len(savepoints) + 1]
    <3>2. f.depth = level' /\ f.kind = "run"
      OBVIOUS
    <3>3. frames' = Append(frames, f) /\ level' = level + 1
      BY <2>1, <3>1 DEF Call, TryRun
    <3> HIDE DEF f
    <3> QED
      BY <3>2, <3>3 DEF Pushes
  <2>2. CASE SavePointThrows
    BY <1>1, <2>2, TransactionsAssumption DEF SavePointThrows, LeaveLevel
  <2>3. CASE RunReturns \/ RunReleaseThrows \/ RunRollsBack \/ RunRollbackThrows \/ RunUnwinds
    BY <2>3 DEF RunReturns, RunReleaseThrows, RunRollsBack, RunRollbackThrows, RunUnwinds,
                InCall, Pops, LeaveLevel
  <2> QED
    BY <1>4, <2>1, <2>2, <2>3 DEF RunStep, RunHandles
<1>5. CASE OutermostStep
  <2>1. CASE TryOutermost
    BY <1>2, <2>1 DEF TryOutermost
  <2>2. CASE Begin
    BY <1>2, <2>2 DEF Begin
  <2>3. CASE BeginThrows
    BY <2>3 DEF BeginThrows
  <2>4. CASE \/ OutermostReturns \/ Commit \/ CommitThrows \/ Rollback
             \/ OutermostRollsBack \/ OutermostRollbackThrows \/ OutermostUnwinds
    BY <2>4 DEF OutermostReturns, Commit, CommitThrows, Rollback, OutermostRollsBack,
                OutermostRollbackThrows, OutermostUnwinds, InCall, Pops
  <2> QED
    BY <1>5, <2>1, <2>2, <2>3, <2>4 DEF OutermostStep, OutermostHandles
<1> QED
  BY <1>3, <1>4, <1>5 DEF Next, vars

LEMMA LevelStep == TypeOK /\ LevelFollowsCalls /\ [Next]_vars => LevelFollowsCalls'
<1> SUFFICES ASSUME TypeOK, LevelFollowsCalls, [Next]_vars
             PROVE  LevelFollowsCalls'
  OBVIOUS
<1>1. level \in 0..MaxDepth /\ MaxDepth \in Nat /\ frames \in Seq(Frame) /\ Len(frames) \in Nat
  BY TransactionsAssumption, Tops DEF TypeOK
<1>2. frames' \in Seq(Frame) /\ (frames' = <<>> <=> Len(frames') = 0)
  BY Typing, Tops DEF TypeOK
<1>3. CASE UNCHANGED <<level, frames>>
  BY <1>3 DEF LevelFollowsCalls, Top
<1>4. CASE Pops
  <2>1. /\ Len(frames') = Len(frames) - 1
        /\ \A i \in 1..Len(frames') : frames'[i] = frames[i]
    BY <1>1, <1>4, ReturnPops DEF Pops
  <2>2. Len(frames) \in 1..Len(frames) /\ Top \in Frame /\ level = Top.depth
    BY <1>1, <1>4, Tops DEF Pops, Top, LevelFollowsCalls
  <2>3. level' = IF frames' = <<>> THEN 0 ELSE Top'.depth
    <3>1. CASE Len(frames) = 1
      <4>1. frames' = <<>> /\ Top.depth = IF Top.kind = "run" THEN 1 ELSE 0
        BY <1>2, <2>1, <2>2, <3>1 DEF LevelFollowsCalls, Top
      <4> QED
        BY <1>4, <2>2, <4>1 DEF Pops
    <3>2. CASE Len(frames) # 1
      <4>1. Len(frames) - 1 \in 1..Len(frames') /\ frames' # <<>>
        BY <1>1, <1>2, <2>1, <2>2, <3>2
      <4>2. Top' = frames[Len(frames) - 1]
        BY <2>1, <4>1 DEF Top
      <4>3. Top' \in Frame
        BY <1>1, <1>2, <4>1, Tops DEF Top
      <4>4. Top'.depth \in Nat
        BY <1>1, <4>3 DEF Frame
      <4>5. Top.depth = Top'.depth + (IF Top.kind = "run" THEN 1 ELSE 0)
        BY <2>2, <3>2, <4>2 DEF LevelFollowsCalls, Top
      <4> QED
        BY <1>4, <2>2, <4>1, <4>4, <4>5 DEF Pops
    <3> QED
      BY <3>1, <3>2
  <2>4. ASSUME NEW i \in 1..Len(frames')
        PROVE  frames'[i].depth = (IF i = 1 THEN 0 ELSE frames'[i-1].depth)
                                  + (IF frames'[i].kind = "run" THEN 1 ELSE 0)
    <3>1. i \in 1..Len(frames) /\ frames'[i] = frames[i]
      BY <1>1, <2>1
    <3>2. i # 1 => frames'[i-1] = frames[i-1]
      BY <1>1, <2>1
    <3> QED
      BY <3>1, <3>2 DEF LevelFollowsCalls
  <2> QED
    BY <2>3, <2>4 DEF LevelFollowsCalls
<1>5. ASSUME NEW f, Pushes(f) PROVE LevelFollowsCalls'
  <2>1. /\ Len(frames') = Len(frames) + 1
        /\ \A i \in 1..Len(frames) : frames'[i] = frames[i]
        /\ frames'[Len(frames) + 1] = f
    BY <1>1, <1>5 DEF Pushes
  <2>2. level' = Top'.depth /\ frames' # <<>>
    BY <1>1, <1>2, <1>5, <2>1 DEF Pushes, Top
  <2>3. ASSUME NEW i \in 1..Len(frames')
        PROVE  frames'[i].depth = (IF i = 1 THEN 0 ELSE frames'[i-1].depth)
                                  + (IF frames'[i].kind = "run" THEN 1 ELSE 0)
    <3>1. CASE i = Len(frames) + 1
      <4>1. level = IF i = 1 THEN 0 ELSE frames'[i-1].depth
        BY <1>1, <2>1, <3>1, Tops DEF LevelFollowsCalls, Top
      <4> QED
        BY <1>1, <1>5, <2>1, <3>1, <4>1 DEF Pushes
    <3>2. CASE i # Len(frames) + 1
      <4>1. i \in 1..Len(frames) /\ frames'[i] = frames[i]
        BY <1>1, <2>1, <3>2
      <4>2. i # 1 => frames'[i-1] = frames[i-1]
        BY <1>1, <2>1, <4>1
      <4> QED
        BY <4>1, <4>2 DEF LevelFollowsCalls
    <3> QED
      BY <3>1, <3>2
  <2> QED
    BY <2>2, <2>3 DEF LevelFollowsCalls
<1> QED
  BY <1>3, <1>4, <1>5, StepShape

LEMMA TypedInit == Init => TypeOK /\ LevelFollowsCalls
<1> SUFFICES ASSUME Init PROVE TypeOK /\ LevelFollowsCalls
  OBVIOUS
<1>1. /\ frames \in Seq(Frame) /\ Len(frames) = 0
      /\ savepoints \in Seq(Savepoint) /\ Len(savepoints) = 0
  BY Emptied DEF Init
<1>2. begun \in BOOLEAN
  BY DEF Init
<1>3. TypeOK
  BY <1>1, <1>2, TransactionsAssumption DEF Init, TypeOK
<1>4. LevelFollowsCalls
  BY <1>1 DEF Init, LevelFollowsCalls
<1> QED
  BY <1>3, <1>4

\* Whatever throws, fails or aborts, every variable keeps its type: the level
\* counter never goes below zero (Database.h:116-118).
THEOREM TypeCorrect == Spec => []TypeOK
<1>1. TypeOK /\ LevelFollowsCalls /\ [Next]_vars => TypeOK' /\ LevelFollowsCalls'
  BY Typing, LevelStep
<1> QED
  BY <1>1, TypedInit, PTL DEF Spec

\* m_transactionLevel counts exactly the open tryRun calls, on every path out
\* of them, so the default savepoint name of a call is its nesting level.
THEOREM LevelCorrect == Spec => []LevelFollowsCalls
<1>1. TypeOK /\ LevelFollowsCalls /\ [Next]_vars => TypeOK' /\ LevelFollowsCalls'
  BY Typing, LevelStep
<1> QED
  BY <1>1, TypedInit, PTL DEF Spec

-----------------------------------------------------------------------------
(* Calls and savepoints.                                                   *)

\* The innermost open tryRun finds its own savepoint under its name: whatever
\* is above it was made at a deeper level, and so bears another name.
LEMMA OwnIsLatest ==
    ASSUME TypeOK, NamesDisjoint, CallsMatchStack, InCall("run")
    PROVE  /\ Top.mark \in 1..Len(savepoints)
           /\ savepoints[Top.mark] = [name |-> Top.name, saved |-> Top.entry]
           /\ Named(Top.name) # {}
           /\ Latest(Top.name) = Top.mark
<1>1. Len(frames) \in 1..Len(frames) /\ Top \in Frame /\ savepoints \in Seq(Savepoint)
  BY Tops DEF TypeOK, InCall, Top
<1>2. OwnSavepoint(Len(frames))
  BY <1>1 DEF CallsMatchStack, InCall, Top
<1>3. /\ Top.mark \in 1..Len(savepoints)
      /\ savepoints[Top.mark] = [name |-> Top.name, saved |-> Top.entry]
      /\ Top.depth \in 1..level
      /\ Top.name \in LevelNames[Top.depth]
      /\ \A j \in (Top.mark + 1)..Len(savepoints) : DeeperName(savepoints[j].name, Top.depth)
  BY <1>2 DEF OwnSavepoint, Top
<1>4. savepoints[Top.mark].name = Top.name
  BY <1>3
<1>5. ASSUME NEW j \in (Top.mark + 1)..Len(savepoints)
      PROVE  savepoints[j].name # Top.name
  <2>1. PICK l \in (Top.depth + 1)..MaxDepth : savepoints[j].name \in LevelNames[l]
    BY <1>3 DEF DeeperName
  <2>2. Top.depth \in 1..MaxDepth /\ l \in 1..MaxDepth /\ l # Top.depth
    BY <1>3, <2>1, TransactionsAssumption DEF TypeOK
  <2> QED
    BY <1>3, <2>1, <2>2 DEF NamesDisjoint
<1> QED
  BY <1>1, <1>3, <1>4, <1>5, LatestIs

\* A call is open only inside a transaction.
LEMMA OpenCall ==
    ASSUME TypeOK, CallsMatchStack, frames # <<>>
    PROVE  InTransaction
<1>1. Len(frames) \in 1..Len(frames)
  BY Tops DEF TypeOK
<1>2. CASE Top.kind = "run"
  <2>1. Top.mark \in 1..Len(savepoints)
    BY <1>1, <1>2 DEF CallsMatchStack, OwnSavepoint, Top
  <2> QED
    BY <2>1, Tops DEF TypeOK, InTransaction
<1>3. CASE Top.kind # "run"
  BY <1>1, <1>3 DEF CallsMatchStack, InTransaction, Top
<1> QED
  BY <1>2, <1>3

\* The outermost call is a BEGIN, or its savepoint is below every other one.
LEMMA NoInnerCommit ==
    ASSUME TypeOK, CallsMatchStack, InCall("run"), Len(frames) # 1
    PROVE  ~ IsTransactionSavepoint(Top.mark)
<1>1. Len(frames) \in 1..Len(frames) /\ 1 \in 1..Len(frames) /\ 1 < Len(frames)
  <2>1. Len(frames) \in Nat /\ Len(frames) \in 1..Len(frames)
    BY Tops DEF TypeOK, InCall
  <2> QED
    BY <2>1
<1>2. CASE frames[1].kind = "run"
  <2>1. frames[1].mark \in 1..Len(savepoints) /\ frames[1].mark < Top.mark
    BY <1>1, <1>2 DEF CallsMatchStack, OwnSavepoint, Top
  <2>2. Top \in Frame
    BY Tops DEF TypeOK, Top, InCall
  <2> QED
    BY <2>1, <2>2 DEF IsTransactionSavepoint, Frame
<1>3. CASE frames[1].kind # "run"
  BY <1>1, <1>3 DEF CallsMatchStack, IsTransactionSavepoint
<1> QED
  BY <1>2, <1>3

\* A call that ends may cut the engine's stack at its own savepoint, no lower.
LEMMA PopKeeps ==
    ASSUME TypeOK, TypeOK', LevelFollowsCalls, CallsMatchStack, Pops,
           begun' = begun,
           Len(savepoints') <= Len(savepoints),
           \A i \in 1..Len(savepoints') : savepoints'[i] = savepoints[i],
           Top.kind = "run" => Len(savepoints') >= Top.mark - 1,
           frames' # <<>> => durable' = durable,
           ~InTransaction' => data' = durable'
    PROVE  CallsMatchStack'
<1> DEFINE t == Len(frames)
<1>1. /\ t \in 1..t /\ Len(frames') = t - 1
      /\ \A i \in 1..Len(frames') : frames'[i] = frames[i]
      /\ Top \in Frame /\ level = Top.depth
  BY ReturnPops, Tops DEF TypeOK, Pops, LevelFollowsCalls, Top
<1>2. Len(savepoints) \in Nat /\ Len(savepoints') \in Nat
  BY Tops DEF TypeOK
<1>3. ASSUME NEW i \in 1..Len(frames')
      PROVE  /\ i \in 1..t /\ i < t /\ frames'[i] = frames[i] /\ frames[i] \in Frame
             /\ Top.kind = "run"
             /\ frames[i].kind = "run" => frames[i].mark < Top.mark /\ frames[i].depth < Top.depth
  <2>1. i \in 1..t /\ i < t /\ frames'[i] = frames[i]
    BY <1>1
  <2>2. frames[i] \in Frame
    BY <2>1 DEF TypeOK
  <2> QED
    BY <1>1, <2>1, <2>2 DEF CallsMatchStack, Top
<1>4. ASSUME NEW i \in 1..Len(frames'), frames'[i].kind = "run"
      PROVE  OwnSavepoint(i)'
  <2> DEFINE f == frames[i]
  <2>1. OwnSavepoint(i) /\ f = frames'[i] /\ f \in Frame
    BY <1>3, <1>4 DEF CallsMatchStack
  <2>2. Top.mark \in 0..MaxStack /\ f.mark \in 0..MaxStack /\ f.mark < Top.mark
        /\ Top.depth \in 0..MaxDepth /\ f.depth \in 0..MaxDepth /\ f.depth < Top.depth
    BY <1>1, <1>3, <1>4, <2>1 DEF Frame
  <2>3. f.mark \in 1..Len(savepoints') /\ savepoints'[f.mark] = savepoints[f.mark]
    BY <1>2, <1>3, <2>1, <2>2, TransactionsAssumption DEF OwnSavepoint
  <2>4. f.depth \in 1..level'
    BY <1>1, <1>3, <2>1, <2>2, TransactionsAssumption DEF OwnSavepoint, Pops
  <2>5. ASSUME NEW j \in (f.mark + 1)..Len(savepoints')
        PROVE  DeeperName(savepoints'[j].name, f.depth)
    <3>1. j \in (f.mark + 1)..Len(savepoints) /\ savepoints'[j] = savepoints[j]
      BY <1>2, <2>2, TransactionsAssumption
    <3> QED
      BY <2>1, <3>1 DEF OwnSavepoint
  <2>6. f.name \in LevelNames[f.depth]
        /\ savepoints'[f.mark] = [name |-> f.name, saved |-> f.entry]
    BY <2>1, <2>3 DEF OwnSavepoint
  <2> QED
    BY <2>1, <2>3, <2>4, <2>5, <2>6 DEF OwnSavepoint
<1>5. ASSUME NEW i \in 1..Len(frames'), NEW j \in 1..Len(frames'), i < j
      PROVE  /\ frames'[j].kind = "run"
             /\ frames'[i].kind = "run" => /\ frames'[i].mark < frames'[j].mark
                                          /\ frames'[i].depth < frames'[j].depth
  BY <1>3, <1>5 DEF CallsMatchStack
<1>6. ASSUME NEW i \in 1..Len(frames'), frames'[i].kind # "run"
      PROVE  begun' /\ frames'[i].entry = durable'
  <2>1. frames' # <<>>
    BY <1>6, Tops DEF TypeOK
  <2> QED
    BY <1>3, <1>6, <2>1 DEF CallsMatchStack
<1> QED
  BY <1>4, <1>5, <1>6 DEF CallsMatchStack

\* A call that begins puts its savepoint on top of the engine's stack.
LEMMA TryRunKeeps ==
    ASSUME TypeOK, TypeOK', LevelFollowsCalls, CallsMatchStack, TryRun
    PROVE  CallsMatchStack'
<1> DEFINE m == Len(savepoints) + 1
<1>0. PICK t \in Nat : t = Len(frames)
  BY Tops DEF TypeOK
<1>1. PICK n \in LevelNames[level'] : savePoint(n) /\ Call("run", n, level', m)
  BY DEF TryRun
<1> DEFINE f == [kind |-> "run", name |-> n, entry |-> data, depth |-> level', mark |-> m]
           p == [name |-> n, saved |-> data]
<1>2. frames' = Append(frames, f) /\ savepoints' = Append(savepoints, p)
  BY <1>1 DEF savePoint, Call
<1>3. level \in Nat /\ level' = level + 1 /\ level' \in 1..MaxDepth /\ m \in Nat \ {0}
      /\ MaxDepth \in Nat
  BY TransactionsAssumption, Tops DEF TypeOK, TryRun
<1>4. n \in Names /\ f \in Frame /\ p \in Savepoint
  <2>1. n \in Names
    BY <1>3 DEF Names
  <2>2. m \in 0..MaxStack
    BY TransactionsAssumption, <1>3 DEF TypeOK, TryRun
  <2> QED
    BY <1>3, <2>1, <2>2 DEF Frame, Savepoint, TypeOK
<1>5. /\ Len(frames') = t + 1 /\ Len(savepoints') = m
      /\ \A i \in 1..t : frames'[i] = frames[i]
      /\ frames'[t + 1] = f
      /\ \A i \in 1..Len(savepoints) : savepoints'[i] = savepoints[i]
      /\ savepoints'[m] = p
  <2> HIDE DEF f, p
  <2> QED
    BY <1>0, <1>2, <1>4, Pushed DEF TypeOK
<1>6. begun' = begun /\ data' = data /\ durable' = durable
  BY <1>1 DEF savePoint
<1>7. OwnSavepoint(t + 1)'
  <2>1. frames'[t + 1].depth = level' /\ frames'[t + 1].mark = m
        /\ frames'[t + 1].name = n /\ frames'[t + 1].entry = data
    BY <1>5
  <2> HIDE DEF f
  <2> QED
    BY <1>3, <1>5, <2>1 DEF OwnSavepoint
<1>8. ASSUME NEW i \in 1..t
      PROVE  /\ frames'[i] = frames[i] /\ frames[i] \in Frame
             /\ frames[i].kind = "run" =>
                  OwnSavepoint(i)' /\ frames[i].mark < m /\ frames[i].depth < level'
  <2>1. frames'[i] = frames[i] /\ frames[i] \in Frame
    BY <1>0, <1>5 DEF TypeOK
  <2>2. ASSUME frames[i].kind = "run"
        PROVE  OwnSavepoint(i)' /\ frames[i].mark < m /\ frames[i].depth < level'
    <3>1. OwnSavepoint(i)
      BY <1>0, <2>2 DEF CallsMatchStack
    <3>2. frames[i].depth \in 1..level /\ frames[i].mark \in 1..Len(savepoints)
      BY <3>1 DEF OwnSavepoint
    <3>3. frames[i].depth \in 1..level' /\ frames[i].mark \in 1..Len(savepoints')
          /\ frames[i].mark < m /\ frames[i].depth < level'
      BY <1>3, <1>5, <3>2
    <3>4. ASSUME NEW j \in (frames[i].mark + 1)..Len(savepoints')
          PROVE  DeeperName(savepoints'[j].name, frames[i].depth)
      <4>1. CASE j = m
        BY <1>3, <1>5, <3>3, <4>1 DEF DeeperName
      <4>2. CASE j # m
        <5>1. j \in (frames[i].mark + 1)..Len(savepoints) /\ savepoints'[j] = savepoints[j]
          BY <1>3, <1>5, <3>2, <4>2
        <5> QED
          BY <3>1, <5>1 DEF OwnSavepoint
      <4> QED
        BY <4>1, <4>2
    <3>5. frames[i].name \in LevelNames[frames[i].depth]
          /\ savepoints'[frames[i].mark] = [name |-> frames[i].name, saved |-> frames[i].entry]
      BY <1>5, <3>1, <3>2 DEF OwnSavepoint
    <3> QED
      BY <2>1, <3>3, <3>4, <3>5 DEF OwnSavepoint
  <2> QED
    BY <2>1, <2>2
<1>9. frames'[t + 1].kind = "run" /\ frames'[t + 1].mark = m /\ frames'[t + 1].depth = level'
  BY <1>5
<1> HIDE DEF f, p
<1>10. \A i \in 1..Len(frames') : i # t + 1 => i \in 1..t
  BY <1>3, <1>5
<1>11. \A i \in 1..Len(frames') : frames'[i].kind = "run" => OwnSavepoint(i)'
  BY <1>7, <1>8, <1>10
<1>12. ASSUME NEW i \in 1..Len(frames'), NEW j \in 1..Len(frames'), i < j
       PROVE  /\ frames'[j].kind = "run"
              /\ frames'[i].kind = "run" => /\ frames'[i].mark < frames'[j].mark
                                           /\ frames'[i].depth < frames'[j].depth
  <2>1. i \in 1..t
    BY <1>3, <1>5, <1>12
  <2>2. CASE j = t + 1
    BY <1>8, <1>9, <2>1, <2>2
  <2>3. CASE j # t + 1
    BY <1>0, <1>8, <1>10, <1>12, <2>1, <2>3 DEF CallsMatchStack
  <2> QED
    BY <2>2, <2>3
<1>13. ASSUME NEW i \in 1..Len(frames'), frames'[i].kind # "run"
       PROVE  begun' /\ frames'[i].entry = durable'
  <2>1. i \in 1..t
    BY <1>9, <1>10, <1>13
  <2>2. frames[i].kind # "run" /\ frames'[i] = frames[i]
    BY <1>8, <1>13, <2>1
  <2> QED
    BY <1>0, <1>6, <2>1, <2>2 DEF CallsMatchStack
<1>14. InTransaction'
  <2>1. Len(savepoints') # 0
    BY <1>3, <1>5
  <2> QED
    BY <2>1, Tops DEF TypeOK, InTransaction
<1> QED
  BY <1>11, <1>12, <1>13, <1>14 DEF CallsMatchStack

\* BEGIN succeeds only on an empty stack, so with no call open.
LEMMA BeginKeeps ==
    ASSUME TypeOK, TypeOK', CallsMatchStack, beginTransaction,
           NEW kind \in {"outermost", "manual"}, Call(kind, "BEGIN", level, 0)
    PROVE  CallsMatchStack'
<1> DEFINE f == [kind |-> kind, name |-> "BEGIN", entry |-> data, depth |-> level, mark |-> 0]
<1>1. frames = <<>> /\ data = durable
  BY OpenCall DEF beginTransaction, CallsMatchStack
<1>2. f \in Frame
  BY TransactionsAssumption DEF Frame, TypeOK
<1>3. f.kind # "run" /\ f.entry = durable
  BY <1>1
<1>4. frames' = Append(frames, f)
  BY DEF Call
<1> HIDE DEF f
<1>5. Len(frames') = 1 /\ frames'[1] = f
  BY <1>1, <1>2, <1>4, Pushed, Emptied DEF TypeOK
<1>6. \A i \in 1..Len(frames') : i = 1
  BY <1>5
<1>7. begun' /\ durable' = durable /\ data' = data
  BY DEF beginTransaction
<1>8. \A i, j \in 1..Len(frames') : ~(i < j)
  BY <1>6
<1> QED
  BY <1>1, <1>3, <1>5, <1>6, <1>7, <1>8 DEF CallsMatchStack

LEMMA CallsMatchStep ==
    ASSUME NamesDisjoint, EngineAborts = FALSE,
           TypeOK, TypeOK', LevelFollowsCalls, CallsMatchStack, [Next]_vars
    PROVE  CallsMatchStack'
<1>1. ASSUME UNCHANGED <<level, frames, engine>> PROVE CallsMatchStack'
  BY <1>1 DEF CallsMatchStack, OwnSavepoint, InTransaction, engine
<1>2. ASSUME Pops, UNCHANGED engine PROVE CallsMatchStack'
  <2>1. Top.kind = "run" => Top.mark \in 1..Len(savepoints)
    BY <1>2, OwnIsLatest DEF Pops, InCall
  <2>2. Len(savepoints) \in Nat
    BY Tops DEF TypeOK
  <2>3. Top.kind = "run" => Len(savepoints) >= Top.mark - 1
    BY <2>1, <2>2
  <2>4. savepoints' = savepoints /\ begun' = begun /\ data' = data /\ durable' = durable
    BY <1>2 DEF engine
  <2>5. ~InTransaction' => data' = durable'
    BY <2>4 DEF CallsMatchStack, InTransaction
  <2> QED
    BY <1>2, <2>2, <2>3, <2>4, <2>5, PopKeeps
<1>3. ASSUME frames' = <<>>, commit \/ rollback PROVE CallsMatchStack'
  <2>1. Len(frames') = 0 /\ data' = durable'
    BY <1>3, Emptied DEF commit, rollback
  <2> QED
    BY <2>1 DEF CallsMatchStack
<1>4. ASSUME Pops, Top.kind # "run" PROVE frames' = <<>>
  <2>1. Len(frames) \in 1..Len(frames) /\ Len(frames) \in Nat
    BY <1>4, Tops DEF TypeOK, Pops
  <2>2. Len(frames) = 1
    <3>1. SUFFICES ASSUME 1 < Len(frames) PROVE FALSE
      BY <2>1
    <3> QED
      BY <1>4, <2>1, <3>1 DEF CallsMatchStack, Top
  <2> QED
    BY <1>4, <2>2, ReturnPops, Tops DEF TypeOK, Pops
<1>5. CASE BodyStep
  <2>1. CASE Write
    <3>1. CASE InTransaction
      BY <2>1, <3>1 DEF Write, WriteTo, CallsMatchStack, OwnSavepoint, InTransaction
    <3>2. CASE ~InTransaction
      <4>1. Len(frames') = 0 /\ data' = durable'
        BY <2>1, <3>2, OpenCall, Emptied DEF Write, WriteTo
      <4> QED
        BY <4>1 DEF CallsMatchStack
    <3> QED
      BY <3>1, <3>2
  <2>2. CASE BodyThrows \/ BodyCatches
    BY <1>1, <2>2 DEF BodyThrows, BodyCatches
  <2>3. CASE EngineAbort
    BY <2>3 DEF EngineAbort
  <2>4. CASE CallerCatches
    BY <1>1, <1>3, <2>4 DEF CallerCatches
  <2> QED
    BY <1>5, <2>1, <2>2, <2>3, <2>4 DEF BodyStep, Failure, StatementFails
<1>6. CASE RunStep
  <2>1. CASE TryRun
    BY <2>1, TryRunKeeps
  <2>2. CASE SavePointThrows
    BY <1>1, <2>2, TransactionsAssumption DEF SavePointThrows, LeaveLevel, TypeOK
  <2>3. CASE RunReturns
    <3>1. Pops /\ Top.kind = "run" /\ InCall("run")
      BY <2>3 DEF RunReturns, Pops, InCall, LeaveLevel
    <3>2. /\ Top.mark \in 1..Len(savepoints) /\ Latest(Top.name) = Top.mark
          /\ Len(savepoints) \in Nat
      BY <3>1, OwnIsLatest, Tops DEF TypeOK
    <3>3. /\ Len(savepoints') = Top.mark - 1
          /\ \A i \in 1..Len(savepoints') : savepoints'[i] = savepoints[i]
      BY <2>3, <3>2, ReleaseCuts DEF TypeOK, RunReturns
    <3>4. begun' = begun /\ data' = data
          /\ durable' = IF IsTransactionSavepoint(Top.mark) THEN data ELSE durable
      BY <2>3, <3>2 DEF RunReturns, release
    <3>5. frames' # <<>> => Len(frames) # 1
      BY <3>1, ReturnPops, Tops DEF TypeOK, Pops
    <3>6. frames' # <<>> => durable' = durable
      BY <3>1, <3>4, <3>5, NoInnerCommit
    <3>7. ~InTransaction' => data' = durable'
      <4>1. SUFFICES ASSUME ~InTransaction' PROVE data' = durable'
        OBVIOUS
      <4>2. Len(savepoints') = 0
        BY <4>1, Emptied DEF InTransaction
      <4>3. Top.mark = 1 /\ ~begun
        BY <3>2, <3>3, <3>4, <4>1, <4>2 DEF InTransaction
      <4> QED
        BY <3>4, <4>3 DEF IsTransactionSavepoint
    <3>8. Len(savepoints') <= Len(savepoints) /\ Len(savepoints') >= Top.mark - 1
      BY <3>2, <3>3
    <3> QED
      BY <3>1, <3>3, <3>4, <3>6, <3>7, <3>8, PopKeeps
  <2>4. CASE RunReleaseThrows \/ RunRollbackThrows \/ RunUnwinds
    BY <1>2, <2>4 DEF RunReleaseThrows, RunRollbackThrows, RunUnwinds, Pops, InCall, LeaveLevel
  <2>5. CASE RunRollsBack
    <3>1. Pops /\ Top.kind = "run" /\ InCall("run")
      BY <2>5 DEF RunRollsBack, Pops, InCall, LeaveLevel
    <3>2. /\ Top.mark \in 1..Len(savepoints) /\ Latest(Top.name) = Top.mark
          /\ Len(savepoints) \in Nat
      BY <3>1, OwnIsLatest, Tops DEF TypeOK
    <3>3. /\ Len(savepoints') = Top.mark
          /\ \A i \in 1..Len(savepoints') : savepoints'[i] = savepoints[i]
      BY <2>5, <3>2, RollbackToCuts DEF TypeOK, RunRollsBack
    <3>4. begun' = begun /\ durable' = durable
      BY <2>5 DEF RunRollsBack, rollbackTo
    <3>5. InTransaction'
      <4>1. Len(savepoints') # 0
        BY <3>2, <3>3
      <4> QED
        BY <4>1, Tops DEF TypeOK, InTransaction
    <3>6. Len(savepoints') <= Len(savepoints) /\ Len(savepoints') >= Top.mark - 1
      BY <3>2, <3>3
    <3> QED
      BY <3>1, <3>3, <3>4, <3>5, <3>6, PopKeeps
  <2> QED
    BY <1>6, <2>1, <2>2, <2>3, <2>4, <2>5 DEF RunStep, RunHandles
<1>7. CASE OutermostStep
  <2>1. CASE TryOutermost \/ Begin
    BY <2>1, BeginKeeps DEF TryOutermost, Begin
  <2>2. CASE BeginThrows
    BY <1>1, <2>2 DEF BeginThrows
  <2>3. CASE OutermostReturns \/ Commit \/ Rollback \/ OutermostRollsBack
    <3>1. Pops /\ Top.kind # "run" /\ (commit \/ rollback)
      BY <2>3 DEF OutermostReturns, Commit, Rollback, OutermostRollsBack, Pops, InCall
    <3> QED
      BY <1>3, <1>4, <3>1
  <2>4. CASE CommitThrows \/ OutermostRollbackThrows \/ OutermostUnwinds
    BY <1>2, <2>4 DEF CommitThrows, OutermostRollbackThrows, OutermostUnwinds, Pops, InCall
  <2> QED
    BY <1>7, <2>1, <2>2, <2>3, <2>4 DEF OutermostStep, OutermostHandles
<1>8. CASE UNCHANGED vars
  BY <1>1, <1>8 DEF vars
<1> QED
  BY <1>5, <1>6, <1>7, <1>8 DEF Next

LEMMA CallsMatchInit == Init => CallsMatchStack
<1> SUFFICES ASSUME Init PROVE CallsMatchStack
  OBVIOUS
<1>1. Len(frames) = 0 /\ data = durable
  BY Emptied DEF Init
<1> QED
  BY <1>1 DEF CallsMatchStack

\* The inductive invariant behind the theorems below.
LEMMA CallsMatch ==
    ASSUME NamesDisjoint, EngineAborts = FALSE
    PROVE  Spec => [](TypeOK /\ LevelFollowsCalls /\ CallsMatchStack)
<1>1. TypeOK /\ LevelFollowsCalls /\ CallsMatchStack /\ [Next]_vars
        => TypeOK' /\ LevelFollowsCalls' /\ CallsMatchStack'
  BY Typing, LevelStep, CallsMatchStep
<1> QED
  BY <1>1, TypedInit, CallsMatchInit, PTL DEF Spec

\* With names that differ from level to level, however many savepoints earlier
\* failures left on the stack, the innermost tryRun owns the latest savepoint of
\* its name, and that savepoint holds the contents the call found.
THEOREM SavepointsCorrect ==
    ASSUME NamesDisjoint, EngineAborts = FALSE
    PROVE  Spec => []RunOwnsSavepoint
<1>1. TypeOK /\ CallsMatchStack => RunOwnsSavepoint
  <2> SUFFICES ASSUME TypeOK, CallsMatchStack, InCall("run")
               PROVE  /\ Named(Top.name) # {}
                      /\ Latest(Top.name) = Top.mark
                      /\ savepoints[Top.mark].saved = Top.entry
    BY DEF RunOwnsSavepoint
  <2>1. savepoints[Top.mark] = [name |-> Top.name, saved |-> Top.entry]
    BY OwnIsLatest
  <2>2. savepoints[Top.mark].saved = Top.entry
    BY <2>1
  <2> QED
    BY <2>2, OwnIsLatest
<1> QED
  BY <1>1, CallsMatch, PTL

\* The stronger agreement of open calls and engine stack the argument rests on.
THEOREM StackCorrect ==
    ASSUME NamesDisjoint, EngineAborts = FALSE
    PROVE  Spec => []CallsMatchStack
  BY CallsMatch, PTL

\* When a std::exception leaves tryRun or tryOutermost, the contents are those
\* the call found (Database.h:112), for every nesting and every history.
THEOREM RollbackCorrect ==
    ASSUME NamesDisjoint, EngineAborts = FALSE
    PROVE  Spec => ExceptionRollsBack
<1> DEFINE Left == exc = "std" /\ (InCall("run") \/ InCall("outermost")) /\ Return
<1>1. ASSUME TypeOK, CallsMatchStack, [Next]_vars, Left
      PROVE  data' = Top.entry
  <2>1. frames # <<>> /\ Len(frames) \in 1..Len(frames) /\ Len(frames) \in Nat
    BY <1>1, Tops DEF TypeOK, InCall
  <2>2. Len(frames') = Len(frames) - 1
    BY <1>1, <2>1, ReturnPops DEF TypeOK
  <2>3. frames' # frames /\ Len(frames') # Len(frames)
    BY <2>1, <2>2
  <2>4. CASE RunRollsBack
    <3>1. savepoints[Top.mark].saved = Top.entry /\ Latest(Top.name) = Top.mark
      <4>1. InCall("run")
        BY <2>4 DEF RunRollsBack
      <4>2. savepoints[Top.mark] = [name |-> Top.name, saved |-> Top.entry]
        BY <1>1, <4>1, OwnIsLatest
      <4> QED
        BY <1>1, <4>1, <4>2, OwnIsLatest
    <3> QED
      BY <2>4, <3>1 DEF RunRollsBack, rollbackTo
  <2>5. CASE OutermostRollsBack
    <3>1. frames[Len(frames)].kind # "run" /\ data' = durable
      BY <2>5 DEF OutermostRollsBack, rollback, InCall, Top
    <3>2. frames[Len(frames)].entry = durable
      BY <1>1, <2>1, <3>1 DEF CallsMatchStack
    <3> QED
      BY <3>1, <3>2 DEF Top
  <2>6. CASE RunRollbackThrows
    BY <1>1, <2>6, OwnIsLatest DEF RunRollbackThrows
  <2>7. CASE OutermostRollbackThrows
    BY <1>1, <2>1, <2>7, OpenCall DEF OutermostRollbackThrows
  <2>8. RunRollsBack \/ OutermostRollsBack \/ RunRollbackThrows \/ OutermostRollbackThrows
    BY <1>1, <2>3 DEF Next, BodyStep, Failure, StatementFails, RunStep, RunHandles, OutermostStep,
         OutermostHandles, vars, Running, InCall,
       Write, WriteTo, BodyThrows, EngineAbort, BodyCatches, CallerCatches, TryRun, SavePointThrows,
       RunReturns, RunReleaseThrows, RunUnwinds, TryOutermost, Begin, BeginThrows,
       OutermostReturns, Commit, CommitThrows, Rollback, OutermostUnwinds
  <2> QED
    BY <2>4, <2>5, <2>6, <2>7, <2>8
<1>2. TypeOK /\ CallsMatchStack /\ [Next]_vars => [Left => data' = Top.entry]_vars
  BY <1>1
<1> QED
  BY <1>2, CallsMatch, PTL DEF Spec, ExceptionRollsBack

\* No inner call makes anything durable before the outermost one ends.
THEOREM NoEarlyCommitCorrect ==
    ASSUME NamesDisjoint, EngineAborts = FALSE
    PROVE  Spec => NoEarlyCommit
<1> DEFINE Inside == frames # <<>> /\ frames' # <<>>
<1>1. ASSUME TypeOK, CallsMatchStack, [Next]_vars, Inside
      PROVE  durable' = durable
  <2>1. Len(frames) \in 1..Len(frames) /\ Len(frames) \in Nat
    BY <1>1, Tops DEF TypeOK
  <2>2. ASSUME Return PROVE Len(frames) # 1
    BY <1>1, <2>2, ReturnPops, Tops DEF TypeOK
  <2>3. ASSUME Return PROVE Top.kind = "run"
    <3>1. Len(frames) # 1 => 1 \in 1..Len(frames) /\ 1 < Len(frames)
      BY <2>1, AboveFirst
    <3> QED
      BY <1>1, <2>1, <2>2, <2>3, <3>1 DEF CallsMatchStack, Top
  <2>4. CASE BodyStep
    BY <1>1, <2>4, OpenCall DEF BodyStep, Failure, StatementFails, Write, WriteTo, BodyThrows,
         EngineAbort, rollback, BodyCatches,
                            CallerCatches, engine
  <2>5. CASE RunStep
    <3>1. CASE RunReturns
      <4>1. InCall("run") /\ Latest(Top.name) = Top.mark
        BY <1>1, <3>1, OwnIsLatest DEF RunReturns
      <4>2. ~ IsTransactionSavepoint(Top.mark)
        BY <1>1, <2>2, <3>1, <4>1, NoInnerCommit DEF RunReturns
      <4> QED
        BY <3>1, <4>1, <4>2 DEF RunReturns, release
    <3> QED
      BY <2>5, <3>1 DEF RunStep, RunHandles, TryRun, savePoint, SavePointThrows, RunReleaseThrows,
                        RunRollsBack, rollbackTo, RunRollbackThrows, RunUnwinds, engine
  <2>6. CASE OutermostStep
    BY <2>3, <2>6 DEF OutermostStep, OutermostHandles, TryOutermost, Begin, beginTransaction,
         BeginThrows,
       OutermostReturns, Commit, CommitThrows, Rollback, OutermostRollsBack,
       OutermostRollbackThrows, OutermostUnwinds, InCall, engine, rollback
  <2>7. CASE UNCHANGED vars
    BY <2>7 DEF vars, engine
  <2> QED
    BY <1>1, <2>4, <2>5, <2>6, <2>7 DEF Next
<1>2. TypeOK /\ CallsMatchStack /\ [Next]_vars => [Inside => durable' = durable]_vars
  BY <1>1
<1> QED
  BY <1>2, CallsMatch, PTL DEF Spec, NoEarlyCommit

-----------------------------------------------------------------------------
(* With an engine that may abort the transaction at any time, an open call *)
(* may find its savepoint gone; but then all that is on the stack was made *)
(* at deeper levels, so that it never takes another one for its own.       *)

OwnIn(s, f) ==
    /\ f.mark \in 1..Len(s)
    /\ s[f.mark] = [name |-> f.name, saved |-> f.entry]
    /\ \A j \in (f.mark + 1)..Len(s) : DeeperName(s[j].name, f.depth)

LostIn(s, f) == \A j \in 1..Len(s) : DeeperName(s[j].name, f.depth)

Placed(s, l, f) ==
    /\ f.depth \in 1..l
    /\ f.name \in LevelNames[f.depth]
    /\ OwnIn(s, f) \/ LostIn(s, f)

OwnOrLost ==
    /\ \A i \in 1..Len(frames) : frames[i].kind = "run" => Placed(savepoints, level, frames[i])
    /\ \A i, j \in 1..Len(frames) :
         i < j /\ frames[i].kind = "run" /\ frames[j].kind = "run" => frames[i].depth < frames[j].depth

\* A name tells the level it was made at.
LEMMA NameOfLevel ==
    ASSUME NamesDisjoint, NEW d \in 1..MaxDepth, NEW n \in LevelNames[d],
           NEW e \in 0..MaxDepth, DeeperName(n, e)
    PROVE  e < d
<1>1. PICK l \in (e + 1)..MaxDepth : n \in LevelNames[l]
  BY DEF DeeperName
<1>2. l \in 1..MaxDepth
  BY <1>1, TransactionsAssumption
<1>3. l = d
  BY <1>1, <1>2 DEF NamesDisjoint
<1> QED
  BY <1>1, <1>3, TransactionsAssumption

\* A call whose name is on the stack has its savepoint, and it is the most
\* recent of the name.
LEMMA NamedIsOwn ==
    ASSUME TypeOK, NamesDisjoint, NEW f \in Frame, Placed(savepoints, level, f), Named(f.name) # {}
    PROVE  OwnIn(savepoints, f) /\ Latest(f.name) = f.mark
<1>1. f.depth \in 1..MaxDepth /\ f.depth \in 0..MaxDepth /\ f.name \in LevelNames[f.depth]
  BY TransactionsAssumption DEF Placed, TypeOK
<1>2. ASSUME NEW j \in 1..Len(savepoints), DeeperName(savepoints[j].name, f.depth)
      PROVE  savepoints[j].name # f.name
  BY <1>1, <1>2, NameOfLevel
<1>3. OwnIn(savepoints, f)
  BY <1>2 DEF Named, LostIn, Placed
<1>4. savepoints[f.mark].name = f.name /\ f.mark \in 1..Len(savepoints)
  BY <1>3 DEF OwnIn
<1>5. Len(savepoints) \in Nat
  BY Tops DEF TypeOK
<1>6. ASSUME NEW j \in (f.mark + 1)..Len(savepoints) PROVE savepoints[j].name # f.name
  <2>1. j \in 1..Len(savepoints)
    BY <1>4, <1>5
  <2> QED
    BY <1>2, <1>3, <2>1 DEF OwnIn
<1>7. Named(savepoints[f.mark].name) # {} /\ Latest(savepoints[f.mark].name) = f.mark
  BY <1>4, <1>6, LatestIs DEF TypeOK
<1> QED
  BY <1>3, <1>4, <1>7

\* The savepoints of open calls stand in call order.
LEMMA InOrder ==
    ASSUME NamesDisjoint, savepoints \in Seq(Savepoint), NEW f \in Frame, NEW g \in Frame,
           Placed(savepoints, level, f), OwnIn(savepoints, f),
           Placed(savepoints, level, g), OwnIn(savepoints, g),
           f.depth < g.depth, level \in 0..MaxDepth
    PROVE  f.mark < g.mark
<1>1. /\ f.depth \in 1..MaxDepth /\ f.name \in LevelNames[f.depth]
      /\ g.depth \in 1..MaxDepth /\ g.name \in LevelNames[g.depth]
      /\ MaxDepth \in Nat
  BY TransactionsAssumption DEF Placed, Frame
<1>2. /\ f.mark \in 1..Len(savepoints) /\ g.mark \in 1..Len(savepoints)
      /\ savepoints[f.mark].name = f.name /\ savepoints[g.mark].name = g.name
  BY DEF OwnIn
<1>3. Len(savepoints) \in Nat
  BY Tops
<1>4. ASSUME f.mark > g.mark PROVE FALSE
  <2>1. f.mark \in (g.mark + 1)..Len(savepoints)
    BY <1>2, <1>3, <1>4
  <2>2. DeeperName(f.name, g.depth)
    BY <1>2, <2>1 DEF OwnIn
  <2>3. g.depth \in 0..MaxDepth
    BY <1>1
  <2>4. g.depth < f.depth
    BY <1>1, <2>2, <2>3, NameOfLevel
  <2> QED
    BY <1>1, <2>4
<1>5. ASSUME f.mark = g.mark PROVE FALSE
  <2>1. f.name \in LevelNames[f.depth] \cap LevelNames[g.depth] /\ f.depth # g.depth
    BY <1>1, <1>2, <1>5
  <2> QED
    BY <1>1, <2>1 DEF NamesDisjoint
<1> QED
  BY <1>2, <1>3, <1>4, <1>5

\* Cutting the engine's stack above a call's own savepoint does not hurt it.
LEMMA CutKeeps ==
    ASSUME savepoints \in Seq(Savepoint), savepoints' \in Seq(Savepoint), NEW f \in Frame,
           Placed(savepoints, level, f), f.depth \in 1..level',
           Len(savepoints') <= Len(savepoints),
           \A i \in 1..Len(savepoints') : savepoints'[i] = savepoints[i],
           OwnIn(savepoints, f) => f.mark <= Len(savepoints')
    PROVE  Placed(savepoints', level', f)
<1>1. Len(savepoints) \in Nat /\ Len(savepoints') \in Nat
  BY Tops
<1>2. CASE OwnIn(savepoints, f)
  <2>1. f.mark \in 1..Len(savepoints) /\ f.mark \in 1..Len(savepoints')
    BY <1>1, <1>2 DEF OwnIn
  <2>2. ASSUME NEW j \in (f.mark + 1)..Len(savepoints')
        PROVE  DeeperName(savepoints'[j].name, f.depth)
    <3>1. j \in (f.mark + 1)..Len(savepoints) /\ savepoints'[j] = savepoints[j]
      BY <1>1, <2>1
    <3> QED
      BY <1>2, <3>1 DEF OwnIn
  <2>3. savepoints'[f.mark] = [name |-> f.name, saved |-> f.entry]
    BY <1>2, <2>1 DEF OwnIn
  <2> QED
    BY <2>1, <2>2, <2>3 DEF OwnIn, Placed
<1>3. CASE LostIn(savepoints, f)
  <2>1. ASSUME NEW j \in 1..Len(savepoints')
        PROVE  DeeperName(savepoints'[j].name, f.depth)
    <3>1. j \in 1..Len(savepoints) /\ savepoints'[j] = savepoints[j]
      BY <1>1
    <3> QED
      BY <1>3, <3>1 DEF LostIn
  <2> QED
    BY <2>1 DEF LostIn, Placed
<1> QED
  BY <1>2, <1>3 DEF Placed

\* What a step that does not enter a tryRun does to the two stacks.
LEMMA OtherSteps ==
    ASSUME TypeOK, [Next]_vars, ~TryRun
    PROVE  /\ \/ UNCHANGED <<level, frames>>
              \/ Pops
              \/ \E kind \in {"outermost", "manual"} :
                   Call(kind, "BEGIN", level, 0) /\ UNCHANGED <<level, savepoints>>
           /\ \/ UNCHANGED savepoints
              \/ savepoints' = <<>>
              \/ /\ Pops /\ Top.kind = "run"
                 /\ release(Top.name) \/ rollbackTo(Top.name)
<1>1. CASE BodyStep
  BY <1>1 DEF BodyStep, Failure, StatementFails, Write, WriteTo, BodyThrows, EngineAbort,
       BodyCatches, CallerCatches, rollback, engine
<1>2. CASE RunStep
  <2>1. CASE SavePointThrows
    BY <2>1, TransactionsAssumption DEF SavePointThrows, LeaveLevel, TypeOK, engine
  <2>2. CASE RunReturns \/ RunReleaseThrows \/ RunRollsBack \/ RunRollbackThrows \/ RunUnwinds
    BY <2>2 DEF RunReturns, RunReleaseThrows, RunRollsBack, RunRollbackThrows, RunUnwinds,
                InCall, Pops, LeaveLevel, engine
  <2> QED
    BY <1>2, <2>1, <2>2 DEF RunStep, RunHandles
<1>3. CASE OutermostStep
  <2>1. CASE TryOutermost
    BY <2>1 DEF TryOutermost, beginTransaction
  <2>2. CASE Begin
    BY <2>2 DEF Begin, beginTransaction
  <2>3. CASE BeginThrows
    BY <2>3 DEF BeginThrows, engine
  <2>4. CASE \/ OutermostReturns \/ Commit \/ CommitThrows \/ Rollback
             \/ OutermostRollsBack \/ OutermostRollbackThrows \/ OutermostUnwinds
    BY <2>4 DEF OutermostReturns, Commit, CommitThrows, Rollback, OutermostRollsBack,
                OutermostRollbackThrows, OutermostUnwinds, InCall, Pops, commit, rollback, engine
  <2> QED
    BY <1>3, <2>1, <2>2, <2>3, <2>4 DEF OutermostStep, OutermostHandles
<1>4. CASE UNCHANGED vars
  BY <1>4 DEF vars, engine
<1> QED
  BY <1>1, <1>2, <1>3, <1>4 DEF Next

\* The tryRun calls open after such a step were open before it, and when it
\* ends one, they are the calls around that one.
LEMMA RunFramesKept ==
    ASSUME TypeOK, TypeOK', LevelFollowsCalls, OwnOrLost, [Next]_vars, ~TryRun,
           NEW i \in 1..Len(frames'), frames'[i].kind = "run"
    PROVE  /\ i \in 1..Len(frames) /\ frames'[i] = frames[i] /\ frames[i] \in Frame
           /\ frames[i].depth \in 1..level'
           /\ Pops /\ Top.kind = "run" => frames[i].depth < Top.depth
<1>1. level \in 0..MaxDepth /\ MaxDepth \in Nat /\ Len(frames) \in Nat
  BY TransactionsAssumption, Tops DEF TypeOK
<1>2. ASSUME i \in 1..Len(frames), frames'[i] = frames[i]
      PROVE  frames[i] \in Frame /\ frames[i].depth \in 1..level
  BY <1>2 DEF TypeOK, OwnOrLost, Placed
<1>3. CASE Pops
  <2>1. /\ frames # <<>> /\ Len(frames') = Len(frames) - 1
        /\ \A k \in 1..Len(frames') : frames'[k] = frames[k]
        /\ level = Top.depth
    BY <1>3, ReturnPops DEF Pops, TypeOK, LevelFollowsCalls
  <2>2. i \in 1..Len(frames) /\ i < Len(frames) /\ frames'[i] = frames[i]
        /\ Len(frames) \in 1..Len(frames)
    BY <1>1, <2>1
  <2>3. Top.kind = "run" => frames[i].depth < Top.depth
    BY <2>2 DEF OwnOrLost, Top
  <2>4. frames[i] \in Frame /\ frames[i].depth \in 1..level
    BY <1>2, <2>2
  <2>5. frames[i].depth \in 1..level'
    BY <1>1, <1>3, <2>1, <2>3, <2>4 DEF Pops
  <2> QED
    BY <2>2, <2>3, <2>4, <2>5
<1>4. CASE ~Pops /\ UNCHANGED <<level, frames>>
  BY <1>2, <1>4
<1>5. CASE ~Pops /\ \E kind \in {"outermost", "manual"} :
                      Call(kind, "BEGIN", level, 0) /\ UNCHANGED level
  <2>1. PICK kind \in {"outermost", "manual"} : Call(kind, "BEGIN", level, 0)
    BY <1>5
  <2> DEFINE f == [kind |-> kind, name |-> "BEGIN", entry |-> data, depth |-> level, mark |-> 0]
  <2>2. f \in Frame /\ f.kind # "run" /\ frames' = Append(frames, f)
    BY <2>1, TransactionsAssumption DEF Frame, TypeOK, Call
  <2> HIDE DEF f
  <2>3. /\ Len(frames') = Len(frames) + 1 /\ frames'[Len(frames) + 1] = f
        /\ \A k \in 1..Len(frames) : frames'[k] = frames[k]
    BY <2>2, Pushed DEF TypeOK
  <2>4. i \in 1..Len(frames)
    BY <1>1, <2>2, <2>3
  <2> QED
    BY <1>2, <1>5, <2>3, <2>4
<1> QED
  BY <1>3, <1>4, <1>5, OtherSteps

LEMMA OwnOrLostKept ==
    ASSUME NamesDisjoint, TypeOK, TypeOK', LevelFollowsCalls, OwnOrLost, [Next]_vars, ~TryRun
    PROVE  OwnOrLost'
<1>1. savepoints \in Seq(Savepoint) /\ savepoints' \in Seq(Savepoint) /\ level \in 0..MaxDepth
      /\ Len(savepoints) \in Nat /\ Len(savepoints') \in Nat
  BY Tops DEF TypeOK
<1>2. ASSUME NEW i \in 1..Len(frames'), frames'[i].kind = "run"
      PROVE  Placed(savepoints', level', frames'[i])
  <2> DEFINE f == frames[i]
  <2>1. /\ frames'[i] = f /\ f \in Frame /\ f.depth \in 1..level'
        /\ Pops /\ Top.kind = "run" => f.depth < Top.depth
        /\ Placed(savepoints, level, f)
    BY <1>2, RunFramesKept DEF OwnOrLost
  <2> HIDE DEF f
  <2>2. CASE UNCHANGED savepoints
    BY <2>1, <2>2 DEF Placed, OwnIn, LostIn
  <2>3. CASE savepoints' = <<>>
    <3>1. Len(savepoints') = 0
      BY <2>3, Emptied
    <3>2. LostIn(savepoints', f)
      BY <3>1 DEF LostIn
    <3> QED
      BY <2>1, <3>2 DEF Placed
  <2>4. CASE /\ Pops /\ Top.kind = "run"
             /\ release(Top.name) \/ rollbackTo(Top.name)
    <3>1. Len(frames) \in 1..Len(frames) /\ Top \in Frame
      BY <2>4, Tops DEF TypeOK, Pops, Top
    <3>2. Placed(savepoints, level, Top) /\ Named(Top.name) # {}
      BY <2>4, <3>1 DEF OwnOrLost, Top, release, rollbackTo
    <3>3. OwnIn(savepoints, Top) /\ Latest(Top.name) = Top.mark
      BY <3>1, <3>2, NamedIsOwn
    <3>4. /\ Len(savepoints') = Top.mark - 1 \/ Len(savepoints') = Top.mark
          /\ Top.mark \in 1..Len(savepoints)
          /\ \A k \in 1..Len(savepoints') : savepoints'[k] = savepoints[k]
      BY <1>1, <2>4, <3>3, ReleaseCuts, RollbackToCuts
    <3>5. ASSUME OwnIn(savepoints, f) PROVE f.mark < Top.mark
      BY <1>1, <2>1, <2>4, <3>1, <3>2, <3>3, <3>5, InOrder
    <3>6. Len(savepoints') <= Len(savepoints)
      BY <1>1, <3>4
    <3>7. OwnIn(savepoints, f) => f.mark <= Len(savepoints')
      BY <1>1, <2>1, <3>4, <3>5 DEF OwnIn
    <3>8. Placed(savepoints', level', f)
      BY <1>1, <2>1, <3>4, <3>6, <3>7, CutKeeps
    <3> QED
      BY <2>1, <3>8
  <2> QED
    BY <2>2, <2>3, <2>4, OtherSteps
<1>3. ASSUME NEW i \in 1..Len(frames'), NEW j \in 1..Len(frames'), i < j,
             frames'[i].kind = "run", frames'[j].kind = "run"
      PROVE  frames'[i].depth < frames'[j].depth
  <2>1. i \in 1..Len(frames) /\ frames'[i] = frames[i]
    BY <1>3, RunFramesKept
  <2>2. j \in 1..Len(frames) /\ frames'[j] = frames[j]
    BY <1>3, RunFramesKept
  <2> QED
    BY <1>3, <2>1, <2>2 DEF OwnOrLost
<1> QED
  BY <1>2, <1>3 DEF OwnOrLost

\* A new call makes its own savepoint at a deeper level than all the others.
LEMMA OwnOrLostRun ==
    ASSUME TypeOK, TypeOK', LevelFollowsCalls, OwnOrLost, TryRun
    PROVE  OwnOrLost'
<1> DEFINE m == Len(savepoints) + 1
<1>0. PICK t \in Nat : t = Len(frames)
  BY Tops DEF TypeOK
<1>1. PICK n \in LevelNames[level'] : savePoint(n) /\ Call("run", n, level', m)
  BY DEF TryRun
<1> DEFINE f == [kind |-> "run", name |-> n, entry |-> data, depth |-> level', mark |-> m]
           p == [name |-> n, saved |-> data]
<1>2. frames' = Append(frames, f) /\ savepoints' = Append(savepoints, p)
  BY <1>1 DEF savePoint, Call
<1>3. level \in Nat /\ level' = level + 1 /\ level' \in 1..MaxDepth /\ m \in Nat \ {0}
      /\ MaxDepth \in Nat
  BY TransactionsAssumption, Tops DEF TypeOK, TryRun
<1>4. n \in Names /\ f \in Frame /\ p \in Savepoint
  <2>1. n \in Names
    BY <1>3 DEF Names
  <2>2. m \in 0..MaxStack
    BY TransactionsAssumption, <1>3 DEF TypeOK, TryRun
  <2> QED
    BY <1>3, <2>1, <2>2 DEF Frame, Savepoint, TypeOK
<1>5. /\ Len(frames') = t + 1 /\ Len(savepoints') = m
      /\ \A i \in 1..t : frames'[i] = frames[i]
      /\ frames'[t + 1] = f
      /\ \A i \in 1..Len(savepoints) : savepoints'[i] = savepoints[i]
      /\ savepoints'[m] = p
  <2> HIDE DEF f, p
  <2> QED
    BY <1>0, <1>2, <1>4, Pushed DEF TypeOK
<1>6. Placed(savepoints', level', f)
  <2>1. OwnIn(savepoints', f)
    BY <1>3, <1>5 DEF OwnIn
  <2> QED
    BY <1>3, <2>1 DEF Placed
<1>7. f.depth = level' /\ f.kind = "run"
  OBVIOUS
<1>8. p.name = n
  OBVIOUS
<1> HIDE DEF f, p
<1>9. ASSUME NEW i \in 1..t, frames[i].kind = "run"
      PROVE  Placed(savepoints', level', frames[i]) /\ frames[i].depth < level'
  <2> DEFINE g == frames[i]
  <2>1. g \in Frame /\ Placed(savepoints, level, g) /\ g.depth \in 1..level
    BY <1>0, <1>9 DEF OwnOrLost, TypeOK, Placed
  <2> HIDE DEF g
  <2>2. g.depth \in 1..level' /\ g.depth < level' /\ g.name \in LevelNames[g.depth]
    BY <1>3, <2>1 DEF Placed
  <2>3. DeeperName(savepoints'[m].name, g.depth)
    BY <1>3, <1>5, <1>8, <2>1, <2>2 DEF DeeperName
  <2>4. CASE OwnIn(savepoints, g)
    <3>1. g.mark \in 1..Len(savepoints) /\ g.mark \in 1..Len(savepoints')
      BY <1>3, <1>5, <2>4 DEF OwnIn
    <3>2. ASSUME NEW j \in (g.mark + 1)..Len(savepoints'), j # m
          PROVE  DeeperName(savepoints'[j].name, g.depth)
      <4>1. j \in (g.mark + 1)..Len(savepoints) /\ savepoints'[j] = savepoints[j]
        BY <1>3, <1>5, <3>1, <3>2
      <4> QED
        BY <2>4, <4>1 DEF OwnIn
    <3>3. savepoints'[g.mark] = [name |-> g.name, saved |-> g.entry]
      BY <1>5, <2>4, <3>1 DEF OwnIn
    <3> QED
      BY <2>2, <2>3, <3>1, <3>2, <3>3 DEF OwnIn, Placed, g
  <2>5. CASE LostIn(savepoints, g)
    <3>1. ASSUME NEW j \in 1..Len(savepoints'), j # m
          PROVE  DeeperName(savepoints'[j].name, g.depth)
      <4>1. j \in 1..Len(savepoints) /\ savepoints'[j] = savepoints[j]
        BY <1>3, <1>5, <3>1
      <4> QED
        BY <2>5, <4>1 DEF LostIn
    <3> QED
      BY <2>2, <2>3, <3>1 DEF LostIn, Placed, g
  <2> QED
    BY <2>1, <2>4, <2>5 DEF Placed
<1>10. \A i \in 1..Len(frames') : i # t + 1 => i \in 1..t /\ frames'[i] = frames[i]
  BY <1>3, <1>5
<1>11. \A i \in 1..Len(frames') :
         frames'[i].kind = "run" => Placed(savepoints', level', frames'[i])
  BY <1>5, <1>6, <1>9, <1>10
<1>12. ASSUME NEW i \in 1..Len(frames'), NEW j \in 1..Len(frames'), i < j,
              frames'[i].kind = "run", frames'[j].kind = "run"
       PROVE  frames'[i].depth < frames'[j].depth
  <2>1. i \in 1..t /\ frames'[i] = frames[i]
    BY <1>5, <1>10, <1>12
  <2>2. CASE j = t + 1
    BY <1>5, <1>7, <1>9, <1>12, <2>1, <2>2
  <2>3. CASE j # t + 1
    <3>1. j \in 1..t /\ frames'[j] = frames[j]
      BY <1>10, <2>3
    <3> QED
      BY <1>0, <1>12, <2>1, <3>1 DEF OwnOrLost
  <2> QED
    BY <2>2, <2>3
<1> QED
  BY <1>11, <1>12 DEF OwnOrLost

\* A tryRun that returns normally released the savepoint it made and nothing
\* else, even if the engine may roll the whole transaction back inside it: it
\* never takes another call's savepoint for its own (Database.h:114-138).
THEOREM ReturnCorrect == ASSUME NamesDisjoint PROVE Spec => ReturnReleasesOwn
<1> DEFINE IInv == TypeOK /\ LevelFollowsCalls /\ OwnOrLost
<1>1. Init => OwnOrLost
  <2> SUFFICES ASSUME Init PROVE OwnOrLost
    OBVIOUS
  <2>1. Len(frames) = 0
    BY Emptied DEF Init
  <2> QED
    BY <2>1 DEF OwnOrLost
<1>2. IInv /\ [Next]_vars => IInv'
  BY Typing, LevelStep, OwnOrLostKept, OwnOrLostRun
<1>3. ASSUME IInv, [Next]_vars, Running, InCall("run"), Return, exc' = "none"
      PROVE  /\ Len(savepoints') = Top.mark - 1
             /\ savepoints[Top.mark] = [name |-> Top.name, saved |-> Top.entry]
  <2>1. Len(frames) \in 1..Len(frames) /\ Top \in Frame /\ frames' # frames
        /\ savepoints \in Seq(Savepoint)
    <3>1. Len(frames) \in 1..Len(frames) /\ Top \in Frame
      BY <1>3, Tops DEF TypeOK, InCall, Top
    <3>2. Len(frames') = Len(frames) - 1
      BY <1>3, ReturnPops DEF TypeOK, InCall
    <3> QED
      BY <1>3, <3>1, <3>2 DEF TypeOK
  <2>2. ~BodyStep
    BY <2>1 DEF BodyStep, Failure, StatementFails, Write, WriteTo, BodyThrows, EngineAbort,
         BodyCatches, CallerCatches
  <2>3. ~TryRun
    <3>1. ASSUME TryRun PROVE FALSE
      <4>1. PICK f : frames' = Append(frames, f)
        BY <3>1 DEF TryRun, Call
      <4>2. Len(frames') = Len(frames) + 1
        BY <1>3, <4>1 DEF TypeOK
      <4> QED
        BY <1>3, <2>1, <4>2, ReturnPops DEF TypeOK, InCall
    <3> QED
      BY <3>1
  <2>4. ~OutermostStep
    <3>1. ASSUME NEW kind, Call(kind, "BEGIN", level, 0) PROVE FALSE
      <4>1. PICK f : frames' = Append(frames, f)
        BY <3>1 DEF Call
      <4>2. Len(frames') = Len(frames) + 1
        BY <1>3, <4>1 DEF TypeOK
      <4> QED
        BY <1>3, <2>1, <4>2, ReturnPops DEF TypeOK, InCall
    <3>2. ~(TryOutermost \/ Begin)
      BY <3>1 DEF TryOutermost, Begin
    <3> QED
      BY <1>3, <2>1, <3>2 DEF OutermostStep, OutermostHandles, BeginThrows, OutermostReturns,
           Commit, CommitThrows, Rollback, OutermostRollsBack, OutermostRollbackThrows,
           OutermostUnwinds, InCall, Running
  <2>5. RunReturns
    BY <1>3, <2>1, <2>2, <2>3, <2>4 DEF Next, RunStep, RunHandles, SavePointThrows,
         RunReleaseThrows, RunRollsBack, RunRollbackThrows, RunUnwinds, Running, vars
  <2>6. Placed(savepoints, level, Top) /\ Named(Top.name) # {} /\ release(Top.name)
    BY <1>3, <2>1, <2>5 DEF RunReturns, release, OwnOrLost, InCall, Top
  <2>7. OwnIn(savepoints, Top) /\ Latest(Top.name) = Top.mark
    BY <1>3, <2>1, <2>6, NamedIsOwn
  <2> QED
    BY <2>1, <2>6, <2>7, ReleaseCuts DEF OwnIn
<1>4. IInv /\ [Next]_vars
        => [ (Running /\ InCall("run") /\ Return /\ exc' = "none")
               => /\ Len(savepoints') = Top.mark - 1
                  /\ savepoints[Top.mark] = [name |-> Top.name, saved |-> Top.entry] ]_vars
  BY <1>3
<1> QED
  BY <1>1, <1>2, <1>4, TypedInit, PTL DEF Spec, ReturnReleasesOwn
=============================================================================
