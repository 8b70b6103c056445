------------------------ MODULE SetOperationsProofs -------------------------
(***************************************************************************)
(* Theorems about SetOperations, for every set of keys, columns and        *)
(* values.                                                                 *)
(***************************************************************************)
EXTENDS SetOperations, TLAPS

-----------------------------------------------------------------------------
(* Tables.                                                                 *)

LEMMA TableShape ==
    ASSUME NEW t \in Tables
    PROVE  DOMAIN t \in SUBSET Keys /\ t \in [DOMAIN t -> Records]
<1>1. PICK S \in SUBSET Keys : t \in [S -> Records]
  BY DEF Tables
<1> QED
  BY <1>1

LEMMA TableIs ==
    ASSUME NEW S \in SUBSET Keys, NEW t \in [S -> Records]
    PROVE  t \in Tables
BY DEF Tables

\* A row that is written.
LEMMA PutTyped ==
    ASSUME rows \in Tables, NEW k \in Keys, NEW r \in Records, Put(k, r)
    PROVE  rows' \in Tables
<1> DEFINE S == DOMAIN rows \cup {k}
<1>1. S \in SUBSET Keys
  BY TableShape
<1>2. rows' \in [S -> Records]
  BY TableShape DEF Put
<1> QED
  BY <1>1, <1>2, TableIs

\* A row that is removed.
LEMMA DroppedTyped ==
    ASSUME rows \in Tables, NEW k \in Keys, Dropped(k)
    PROVE  rows' \in Tables
<1> DEFINE S == DOMAIN rows \ {k}
<1>1. S \in SUBSET Keys
  BY TableShape
<1>2. rows' \in [S -> Records]
  BY TableShape DEF Dropped
<1> QED
  BY <1>1, <1>2, TableIs

-----------------------------------------------------------------------------
(* What every call of a method does, as far as the proofs care: it leaves  *)
(* the cursor where it is, resets the statement it used, and only a call that    *)
(* succeeded has changed the table.                                        *)

\* The statement a method used is left ready, or as it was if it could not be
\* bound; a find may leave it failed.
PhaseEffect ==
    \/ phase' = phase
    \/ \E s \in Statements \ {"iterate"} : phase' = [phase EXCEPT ![s] = "ready"]
    \/ phase' = [phase EXCEPT !["select"] = "failed"]

AnswerEffect ==
    \E op \in Operations, k \in Keys, out \in Outcomes, got \in SUBSET Records :
        answer' = [op |-> op, key |-> k, out |-> out, got |-> got]

Grows ==
    /\ answer'.out \in {"done", "true"}
    /\ DOMAIN rows \subseteq DOMAIN rows'
    /\ \/ passed' = passed
       \/ ~RowidKey /\ \E k \in Keys \ DOMAIN rows : passed' = passed \cup {k}
    /\ UNCHANGED loops

Shrinks ==
    /\ answer'.out \in {"done", "true"}
    /\ \E k \in Keys :
         /\ DOMAIN rows' = DOMAIN rows \ {k}
         /\ passed' = IF RowidKey THEN passed ELSE passed \ {k}
         /\ loops' = [i \in DOMAIN loops |->
                        [loops[i] EXCEPT !.stayed = @ \ {k},
                                         !.seen = IF RowidKey THEN @ ELSE @ \ {k}]]

CallEffect ==
    /\ rows' \in Tables
    /\ UNCHANGED <<stale, alive>>
    /\ PhaseEffect
    /\ AnswerEffect
    /\ UNCHANGED <<rows, passed, loops>> \/ Grows \/ Shrinks

\* A bind that is refused, and a step that was made and reset.
LEMMA Used ==
    ASSUME NEW op \in Operations, NEW s \in Statements \ {"iterate"}, NEW k \in Keys,
           NEW out \in Outcomes, NEW got \in SUBSET Records,
           BindThrows(op, s, k) \/ Executed(op, s, k, out, got)
    PROVE  PhaseEffect /\ AnswerEffect
<1>1. PhaseEffect
  BY DEF BindThrows, Executed, AfterExec, PhaseEffect
<1>2. PICK o \in Outcomes, g \in SUBSET Records :
        answer' = [op |-> op, key |-> k, out |-> o, got |-> g]
  BY DEF BindThrows, Reply, Executed, Outcomes
<1>3. AnswerEffect
  BY <1>2 DEF AnswerEffect
<1> QED
  BY <1>1, <1>3

\* The same, with what it did to the table.
LEMMA Written ==
    ASSUME rows \in Tables, Method, UNCHANGED loops,
           NEW op \in Operations, NEW s \in Statements \ {"iterate"},
           NEW k \in Keys, NEW given \in Records, NEW r \in Records, NEW out \in Outcomes,
           \/ BindThrows(op, s, k)
           \/ Kept /\ Executed(op, s, k, out, {})
           \/ Put(k, r) /\ Executed(op, s, k, out, {given}) /\ out \in {"done", "true"}
    PROVE  CallEffect
<1>1. PhaseEffect /\ AnswerEffect
  BY Used
<1>2. rows' \in Tables
  BY PutTyped DEF BindThrows, Kept
<1>3. UNCHANGED <<rows, passed, loops>> \/ Grows
  <2>1. CASE Put(k, r) /\ Executed(op, s, k, out, {given}) /\ out \in {"done", "true"}
    <3>1. DOMAIN rows \subseteq DOMAIN rows'
      BY <2>1 DEF Put
    <3>2. answer'.out = out
      BY <2>1 DEF Executed, Reply
    <3>3. passed' = passed \/ (~RowidKey /\ k \notin DOMAIN rows /\ passed' = passed \cup {k})
      BY <2>1 DEF Put, Has
    <3> QED
      BY <2>1, <3>1, <3>2, <3>3 DEF Grows
  <2> QED
    BY <2>1 DEF BindThrows, Kept
<1> QED
  BY <1>1, <1>2, <1>3 DEF CallEffect, Method

LEMMA ChangeEffect ==
    ASSUME rows \in Tables, Method, UNCHANGED loops,
           NEW op \in Operations, NEW s \in Statements \ {"iterate", "select"},
           NEW k \in Keys, NEW given \in Records, NEW r \in Records,
           Change(op, s, k, given, r)
    PROVE  CallEffect
BY Written DEF Change, Outcomes

LEMMA Effects ==
    ASSUME rows \in Tables, Call
    PROVE  CallEffect
<1>1. PICK k \in Keys :
        \/ \E r \in Records : insert(k, r) \/ tryinsert(k, r) \/ update(k, r) \/ updatePart(k, r)
        \/ find(k) \/ deleteElement(k) \/ tryDeleteRecord(k)
  BY DEF Call
<1>2. ASSUME NEW r \in Records, insert(k, r) \/ tryinsert(k, r)
      PROVE  CallEffect
  <2>1. Method /\ UNCHANGED loops
    BY <1>2 DEF insert, tryinsert
  <2>2. PICK op \in {"insert", "tryinsert"}, out \in Outcomes :
          \/ BindThrows(op, "insert", k)
          \/ Kept /\ Executed(op, "insert", k, out, {})
          \/ Put(k, r) /\ Executed(op, "insert", k, out, {r}) /\ out \in {"done", "true"}
    BY <1>2 DEF insert, tryinsert, Outcomes
  <2> QED
    BY <2>1, <2>2, Written DEF Operations, Statements
<1>3. ASSUME NEW r \in Records, update(k, r)
      PROVE  CallEffect
  BY <1>3, ChangeEffect DEF update, Operations, Statements
<1>4. ASSUME NEW r \in Records, updatePart(k, r)
      PROVE  CallEffect
  <2> DEFINE q == [c \in Cols |-> IF c \in UpdaterCols \/ ~Has(k) THEN r[c] ELSE rows[k][c]]
  <2>1. q \in Records
    <3>1. Has(k) => rows[k] \in Records
      BY TableShape DEF Has
    <3> QED
      BY <3>1 DEF Records
  <2> HIDE DEF q
  <2>2. Method /\ UNCHANGED loops /\ Change("updater", "updater", k, r, q)
    BY <1>4 DEF updatePart, q
  <2> QED
    BY <2>1, <2>2, ChangeEffect DEF Operations, Statements
<1>5. CASE find(k)
  <2>1. Method /\ UNCHANGED <<rows, passed, loops>>
    BY <1>5 DEF find, BindThrows, Kept
  <2>2. PICK out \in Outcomes, got \in SUBSET Records :
          answer' = [op |-> "find", key |-> k, out |-> out, got |-> got]
    <3>1. Has(k) => rows[k] \in Records
      BY TableShape DEF Has
    <3> QED
      BY <1>5, <3>1 DEF find, BindThrows, Reply, Outcomes
  <2>3. \/ phase' = phase
        \/ \E p \in {"ready", "failed"} : phase' = [phase EXCEPT !["select"] = p]
    BY <1>5 DEF find, BindThrows, AfterSelect
  <2> QED
    BY <2>1, <2>2, <2>3 DEF CallEffect, PhaseEffect, AnswerEffect, Method, Operations, Statements
<1>6. ASSUME NEW op \in {"delete", "trydelete"}, NEW strict \in BOOLEAN, Delete(op, k, strict)
      PROVE  CallEffect
  <2>1. Method
    BY <1>6 DEF Delete
  <2>2. PhaseEffect /\ AnswerEffect
    BY <1>6, Used DEF Delete, Operations, Statements, Outcomes
  <2>3. CASE Dropped(k) /\ Executed(op, "delete", k, "done", {})
    <3>1. rows' \in Tables
      BY <2>3, DroppedTyped
    <3>2. DOMAIN rows' = DOMAIN rows \ {k}
      BY <2>3 DEF Dropped
    <3>3. answer'.out = "done"
      BY <2>3 DEF Executed, Reply
    <3>4. Shrinks
      BY <2>3, <3>2, <3>3 DEF Dropped, Shrinks
    <3> QED
      BY <2>1, <2>2, <3>1, <3>4 DEF CallEffect, Method
  <2>4. CASE UNCHANGED <<rows, passed, loops>>
    BY <2>1, <2>2, <2>4 DEF CallEffect, Method
  <2> QED
    BY <1>6, <2>3, <2>4 DEF Delete, BindThrows, Kept
<1> QED
  BY <1>1, <1>2, <1>3, <1>4, <1>5, <1>6 DEF deleteElement, tryDeleteRecord

-----------------------------------------------------------------------------
(* The cursor.                                                             *)

\* A step comes to a row that is ahead of the cursor, of an INTEGER key the
\* least one, or to the end when there is none.
LEMMA NextKeyIs ==
    ASSUME TypeOK, NEW k \in NextKeys
    PROVE  /\ k \in Keys \cup {0}
           /\ k = 0 => DOMAIN rows \subseteq Behind
           /\ k # 0 => /\ k \in DOMAIN rows \ Behind
                       /\ RowidKey => \A l \in DOMAIN rows \ Behind : k <= l
<1>1. DOMAIN rows \subseteq Keys /\ 0 \notin Keys
  BY TableShape, SetOperationsAssumption DEF TypeOK
<1> QED
  BY <1>1 DEF NextKeys

LEMMA BehindTyped == ASSUME TypeOK PROVE Behind \in SUBSET Keys
BY DEF Behind, TypeOK

LEMMA AdvancedTyped ==
    ASSUME TypeOK, NEW l \in Loop, NEW k \in NextKeys
    PROVE  Advanced(l, k) \in Loop
<1> DEFINE o == l.ordered /\ (k = 0 \/ \A x \in l.seen : IF RowidKey THEN x < k ELSE x # k)
<1>1. o \in BOOLEAN
  OBVIOUS
<1>2. Advanced(l, k) = [l EXCEPT !.cur = k, !.seen = @ \cup ({k} \ {0}), !.ordered = o]
  BY DEF Advanced, Loop
<1> HIDE DEF o
<1>3. k \in Keys \cup {0}
  BY NextKeyIs
<1> QED
  BY <1>1, <1>2, <1>3 DEF Loop

-----------------------------------------------------------------------------
(* Types.                                                                  *)

LEMMA TypedInit == Init => TypeOK
<1> SUFFICES ASSUME Init PROVE TypeOK
  OBVIOUS
<1>1. phase \in [Statements -> Phases]
  BY DEF Init, Prepared, Phases
<1>2. loops \in Seq(Loop)
  BY DEF Init
<1>3. /\ answer.op \in Operations \cup {"none"}
      /\ answer.key \in Keys \cup {0}
      /\ answer.out \in Outcomes
      /\ answer.got \in SUBSET Records
  BY DEF Init, NoAnswer, Outcomes
<1> QED
  BY <1>1, <1>2, <1>3 DEF Init, TypeOK

LEMMA LoopsTyped ==
    ASSUME TypeOK, Next
    PROVE  loops' \in Seq(Loop)
<1>1. loops \in Seq(Loop) /\ Len(loops) \in Nat /\ (loops # <<>> => Inner \in Loop)
  BY DEF TypeOK, Inner
<1>2. CASE Call
  <2>1. CallEffect
    BY <1>2, Effects DEF TypeOK
  <2>2. CASE UNCHANGED loops
    BY <1>1, <2>2
  <2>3. CASE Shrinks
    <3>1. PICK k \in Keys :
            loops' = [i \in DOMAIN loops |->
                        [loops[i] EXCEPT !.stayed = @ \ {k},
                                         !.seen = IF RowidKey THEN @ ELSE @ \ {k}]]
      BY <2>3 DEF Shrinks
    <3>2. \A l \in Loop : [l EXCEPT !.stayed = @ \ {k},
                                     !.seen = IF RowidKey THEN @ ELSE @ \ {k}] \in Loop
      BY DEF Loop
    <3>3. DOMAIN loops = 1..Len(loops) /\ \A i \in DOMAIN loops : loops[i] \in Loop
      BY <1>1
    <3>4. loops' \in [1..Len(loops) -> Loop]
      BY <3>1, <3>2, <3>3
    <3> QED
      BY <1>1, <3>4
  <2> QED
    BY <2>1, <2>2, <2>3 DEF CallEffect, Grows
<1>3. CASE begin
  <2>1. [cur |-> 0, seen |-> {}, ordered |-> TRUE, stayed |-> DOMAIN rows] \in Loop
    BY TableShape DEF Loop, TypeOK
  <2>2. PICK l \in Loop, k \in NextKeys : loops' = Append(loops, Advanced(l, k))
    BY <1>3, <2>1 DEF begin
  <2>3. Advanced(l, k) \in Loop
    BY AdvancedTyped
  <2> QED
    BY <1>1, <2>2, <2>3
<1>4. CASE Increment
  <2>0. PICK k \in NextKeys : loops' = [loops EXCEPT ![Len(loops)] = Advanced(@, k)]
    BY <1>4 DEF Increment
  <2>1. Advanced(Inner, k) \in Loop
    BY <1>1, <1>4, AdvancedTyped DEF Increment
  <2>2. loops' = [loops EXCEPT ![Len(loops)] = Advanced(Inner, k)]
    BY <2>0 DEF Inner
  <2>3. loops \in [1..Len(loops) -> Loop]
    BY <1>1
  <2>4. loops' \in [1..Len(loops) -> Loop]
    BY <2>1, <2>2, <2>3
  <2> QED
    BY <1>1, <2>4
<1>5. CASE Destroy
  BY <1>1, <1>5 DEF Destroy
<1>6. CASE IterationFails
  BY <1>6 DEF IterationFails
<1>7. CASE SchemaChanges \/ close \/ makeSet
  BY <1>1, <1>7 DEF SchemaChanges, close, makeSet
<1> QED
  BY <1>2, <1>3, <1>4, <1>5, <1>6, <1>7 DEF Next

LEMMA Typing == TypeOK /\ [Next]_vars => TypeOK'
<1> SUFFICES ASSUME TypeOK, [Next]_vars PROVE TypeOK'
  OBVIOUS
<1>1. CASE UNCHANGED vars
  BY <1>1 DEF vars, TypeOK
<1>2. ASSUME Next PROVE loops' \in Seq(Loop)
  BY <1>2, LoopsTyped
<1>3. CASE Call
  <2>1. CallEffect
    BY <1>3, Effects DEF TypeOK
  <2>2. phase' \in [Statements -> Phases]
    BY <2>1 DEF CallEffect, PhaseEffect, TypeOK, Statements, Phases
  <2>3. /\ answer'.op \in Operations \cup {"none"}
        /\ answer'.key \in Keys \cup {0}
        /\ answer'.out \in Outcomes
        /\ answer'.got \in SUBSET Records
    BY <2>1 DEF CallEffect, AnswerEffect
  <2>4. passed' \in SUBSET Keys
    <3>1. passed \in SUBSET Keys
      BY DEF TypeOK
    <3>2. Grows => passed' \in SUBSET Keys
      BY <3>1 DEF Grows
    <3>3. Shrinks => passed' \in SUBSET Keys
      BY <3>1 DEF Shrinks
    <3> QED
      BY <2>1, <3>1, <3>2, <3>3 DEF CallEffect
  <2> QED
    BY <1>2, <1>3, <2>1, <2>2, <2>3, <2>4 DEF CallEffect, TypeOK, Next
<1>4. CASE begin \/ Increment
  <2>1. PICK k \in NextKeys : StepIterate(k) /\ loops' \in Seq(Loop)
    BY <1>2, <1>4 DEF begin, Increment, Next
  <2>2. k \in Keys \cup {0} /\ Behind \in SUBSET Keys
    BY NextKeyIs, BehindTyped
  <2>3. passed' \in SUBSET Keys
    BY <2>1, <2>2 DEF StepIterate
  <2> QED
    BY <2>1, <2>3 DEF StepIterate, TypeOK, Phases
<1>5. CASE Destroy
  BY <1>2, <1>5 DEF Destroy, TypeOK, Phases, Next
<1>6. CASE IterationFails \/ SchemaChanges
  BY <1>2, <1>6 DEF IterationFails, SchemaChanges, TypeOK, Next
<1>7. CASE close \/ makeSet
  BY <1>2, <1>7 DEF close, makeSet, Prepared, TypeOK, Phases, Next
<1> QED
  BY <1>1, <1>3, <1>4, <1>5, <1>6, <1>7 DEF Next

\* The variables keep their types: the table has whole records only, also
\* after the update of a few columns through an Updater.
THEOREM SetTypeCorrect == Spec => []TypeOK
BY TypedInit, Typing, PTL DEF Spec

-----------------------------------------------------------------------------
(* Statements.                                                             *)

\* Whatever fails, the statements that change the table can be bound again:
\* exec and tryexec reset them on every path (Statement.h:141-163, 322-346).
THEOREM ReusableCorrect == Spec => []StatementsReusable
<1>1. Init => StatementsReusable
  BY DEF Init, StatementsReusable, Prepared, Statements
<1>2. TypeOK /\ StatementsReusable /\ [Next]_vars => StatementsReusable'
  <2> SUFFICES ASSUME TypeOK, StatementsReusable, [Next]_vars
               PROVE  StatementsReusable'
    OBVIOUS
  <2>1. CASE Call
    <3>1. PhaseEffect
      BY <2>1, Effects DEF TypeOK, CallEffect
    <3> QED
      BY <3>1 DEF PhaseEffect, StatementsReusable, TypeOK, Statements
  <2>2. CASE begin \/ Increment \/ Destroy
    BY <2>2 DEF begin, Increment, StepIterate, Destroy, StatementsReusable, TypeOK, Statements
  <2>3. CASE IterationFails \/ SchemaChanges \/ UNCHANGED vars
    BY <2>3 DEF IterationFails, SchemaChanges, vars, StatementsReusable
  <2>4. CASE close \/ makeSet
    BY <2>4 DEF close, makeSet, Prepared, StatementsReusable, TypeOK, Statements
  <2> QED
    BY <2>1, <2>2, <2>3, <2>4 DEF Next
<1> QED
  BY <1>1, <1>2, SetTypeCorrect, PTL DEF Spec

\* A call that throws, is refused or answers false leaves the table as it was,
\* also when ensureAffected throws after the statement ran (Set.h:110-155).
THEOREM FailureSafe == Spec => FailureChangesNothing
<1>1. TypeOK /\ [Next]_vars => [rows' # rows => answer'.out \in {"done", "true"}]_vars
  <2> SUFFICES ASSUME TypeOK, Next, rows' # rows
               PROVE  answer'.out \in {"done", "true"}
    OBVIOUS
  <2>1. Call
    BY DEF Next, begin, Increment, StepIterate, Destroy, IterationFails, SchemaChanges, close,
       makeSet
  <2> QED
    BY <2>1, Effects DEF TypeOK, CallEffect, Grows, Shrinks
<1> QED
  BY <1>1, SetTypeCorrect, PTL DEF Spec, FailureChangesNothing

-----------------------------------------------------------------------------
(* One loop over the table.                                                *)

\* Of the one loop that may be open: what it delivered is behind the cursor,
\* and of the rows that stayed in the table it delivered those that are. With
\* no loop open the iterate statement is not running. An INTEGER key is behind
\* the cursor with all that are less.
LoopInv ==
    /\ Len(loops) <= 1
    /\ loops = <<>> /\ alive => phase["iterate"] # "row"
    /\ RowidKey => \A a \in Keys \ passed, b \in passed : b < a
    /\ loops # <<>> =>
         LET l == loops[1] IN
         /\ l.ordered
         /\ l.stayed \subseteq DOMAIN rows
         /\ l.cur # 0 => phase["iterate"] = "row" /\ l.seen \subseteq passed
         /\ \A k \in l.stayed : l.cur = 0 \/ k \in passed => k \in l.seen

\* The step of the one loop: it continues behind the row the iterator stands
\* on, or starts the statement.
LEMMA OneAdvance ==
    ASSUME TypeOK, NEW l \in Loop, NEW n \in NextKeys, StepIterate(n),
           l.ordered, l.stayed \subseteq DOMAIN rows,
           l.seen \subseteq Behind,
           \A k \in l.stayed \cap Behind : k \in l.seen,
           RowidKey => \A a \in Keys \ Behind, b \in Behind : b < a
    PROVE  LET m == Advanced(l, n) IN
           /\ m \in Loop
           /\ m.ordered
           /\ m.stayed \subseteq DOMAIN rows'
           /\ m.cur # 0 => phase'["iterate"] = "row" /\ m.seen \subseteq passed'
           /\ \A k \in m.stayed : m.cur = 0 \/ k \in passed' => k \in m.seen
           /\ RowidKey => \A a \in Keys \ passed', b \in passed' : b < a
<1> DEFINE m == Advanced(l, n)
<1>1. /\ n \in Keys \cup {0}
      /\ n = 0 => DOMAIN rows \subseteq Behind
      /\ n # 0 => /\ n \in DOMAIN rows \ Behind
                  /\ RowidKey => \A k \in DOMAIN rows \ Behind : n <= k
  BY NextKeyIs
<1>2. Keys \subseteq Nat \ {0} /\ DOMAIN rows \subseteq Keys /\ Behind \subseteq Keys
  BY TableShape, BehindTyped, SetOperationsAssumption DEF TypeOK
<1>3. /\ m.cur = n
      /\ m.seen = l.seen \cup ({n} \ {0})
      /\ m.stayed = l.stayed
      /\ m.ordered = (l.ordered /\ (n = 0 \/ \A x \in l.seen : IF RowidKey THEN x < n ELSE x # n))
  BY DEF Advanced, Loop
<1>4. m \in Loop
  BY AdvancedTyped
<1>5. UNCHANGED rows /\ phase' = [phase EXCEPT !["iterate"] = IF n = 0 THEN "done" ELSE "row"]
  BY DEF StepIterate
<1>6. /\ n = 0 => passed' = {}
      /\ n # 0 /\ RowidKey => passed' = {k \in Keys : k <= n}
      /\ n # 0 /\ ~RowidKey => passed' = Behind \cup {n}
  BY DEF StepIterate
<1> HIDE DEF m
<1>7. m.ordered
  <2>1. n = 0 \/ \A x \in l.seen : IF RowidKey THEN x < n ELSE x # n
    BY <1>1, <1>2
  <2>2. l.ordered = TRUE
    BY DEF Loop
  <2> QED
    BY <1>3, <2>1, <2>2
<1>8. m.cur # 0 => phase'["iterate"] = "row"
  BY <1>3, <1>5 DEF TypeOK, Statements
<1>9. m.cur # 0 => m.seen \subseteq passed'
  <2> SUFFICES ASSUME n # 0, NEW k \in l.seen \cup {n} PROVE k \in passed'
    BY <1>3
  <2>1. k \in Keys /\ n \in Keys /\ k \in Nat /\ n \in Nat
    BY <1>1, <1>2
  <2>2. RowidKey => k <= n
    BY <1>1, <2>1
  <2> QED
    BY <1>1, <1>6, <2>1, <2>2
<1>10. ASSUME NEW k \in l.stayed, n = 0 \/ k \in passed'
       PROVE  k \in l.seen \/ (k = n /\ n # 0)
  <2>1. k \in DOMAIN rows /\ k \in Nat /\ n \in Nat
    <3>1. k \in DOMAIN rows
      OBVIOUS
    <3>2. n \in Nat
      BY <1>1, <1>2
    <3> QED
      BY <1>2, <3>1, <3>2
  <2>2. CASE k \in Behind
    BY <2>2
  <2>3. CASE k \notin Behind
    <3>1. n # 0 /\ k \in passed' /\ k \in DOMAIN rows \ Behind
      BY <1>1, <1>10, <2>1, <2>3
    <3>2. RowidKey => k <= n /\ n <= k
      BY <1>1, <1>6, <3>1
    <3>3. ~RowidKey => k = n
      BY <1>6, <2>3, <3>1
    <3> QED
      BY <2>1, <3>1, <3>2, <3>3
  <2> QED
    BY <2>2, <2>3
<1>11. \A k \in m.stayed : m.cur = 0 \/ k \in passed' => k \in m.seen
  BY <1>3, <1>10
<1>12. ASSUME RowidKey, NEW a \in Keys \ passed', NEW b \in passed'
       PROVE  b < a
  <2>1. n # 0 /\ b <= n /\ b \in Nat /\ a \in Nat /\ ~(a <= n) /\ n \in Nat
    BY <1>1, <1>2, <1>6, <1>12
  <2> QED
    BY <2>1
<1>13. m.stayed \subseteq DOMAIN rows'
  BY <1>3, <1>5
<1> QED
  BY <1>4, <1>7, <1>8, <1>9, <1>11, <1>12, <1>13 DEF m

LEMMA LoopStep ==
    ASSUME MaxLoops <= 1, TypeOK, TypeOK', LoopInv, [Next]_vars
    PROVE  LoopInv'
<1>1. /\ loops \in Seq(Loop) /\ Len(loops) \in Nat /\ Len(loops) <= 1
      /\ loops = <<>> <=> Len(loops) = 0
      /\ loops # <<>> => Len(loops) = 1 /\ loops[1] \in Loop
  <2>1. loops \in Seq(Loop) /\ Len(loops) \in Nat
    BY DEF TypeOK
  <2>2. Len(loops) <= 1
    BY DEF LoopInv
  <2>3. Len(loops) \in {0, 1}
    <3>1. \A n \in Nat : n <= 1 => n \in {0, 1}
      OBVIOUS
    <3> QED
      BY <2>1, <2>2, <3>1
  <2> QED
    BY <2>1, <2>2, <2>3
<1>2. MaxLoops \in Nat
  BY SetOperationsAssumption
<1>3. CASE Call
  <2>1. CallEffect
    BY <1>3, Effects DEF TypeOK
  <2>2. phase'["iterate"] = phase["iterate"] /\ alive' = alive
    BY <2>1 DEF CallEffect, PhaseEffect, TypeOK, Statements
  <2>3. CASE UNCHANGED <<rows, passed, loops>>
    BY <2>2, <2>3 DEF LoopInv
  <2>4. CASE Grows
    BY <2>2, <2>4 DEF LoopInv, Grows
  <2>5. CASE Shrinks
    <3>1. PICK k \in Keys :
            /\ DOMAIN rows' = DOMAIN rows \ {k}
            /\ passed' = IF RowidKey THEN passed ELSE passed \ {k}
            /\ loops' = [i \in DOMAIN loops |->
                           [loops[i] EXCEPT !.stayed = @ \ {k},
                                            !.seen = IF RowidKey THEN @ ELSE @ \ {k}]]
      BY <2>5 DEF Shrinks
    <3>2. RowidKey => \A a \in Keys \ passed', b \in passed' : b < a
      BY <3>1 DEF LoopInv
    <3>3. CASE loops = <<>>
      BY <1>1, <2>2, <3>1, <3>2, <3>3 DEF LoopInv
    <3>4. CASE loops # <<>>
      <4>1. DOMAIN loops = 1..1
        BY <1>1, <3>4
      <4>2. loops'[1] = [loops[1] EXCEPT !.stayed = @ \ {k},
                                         !.seen = IF RowidKey THEN @ ELSE @ \ {k}]
        BY <3>1, <4>1
      <4>3. loops' # <<>> /\ Len(loops') = 1
        BY <1>1, <3>1, <4>1
      <4>4. /\ loops'[1].cur = loops[1].cur
            /\ loops'[1].seen = IF RowidKey THEN loops[1].seen ELSE loops[1].seen \ {k}
            /\ loops'[1].ordered = loops[1].ordered
            /\ loops'[1].stayed = loops[1].stayed \ {k}
        BY <1>1, <3>4, <4>2 DEF Loop
      <4>5. /\ loops[1].ordered
            /\ loops[1].stayed \subseteq DOMAIN rows
            /\ loops[1].cur # 0 => phase["iterate"] = "row" /\ loops[1].seen \subseteq passed
            /\ \A j \in loops[1].stayed :
                  loops[1].cur = 0 \/ j \in passed => j \in loops[1].seen
        BY <3>4 DEF LoopInv
      <4>6. loops'[1].stayed \subseteq DOMAIN rows'
        BY <3>1, <4>4, <4>5
      <4> DEFINE before == loops[1].seen
                 after == loops'[1].seen
      <4>7. \/ passed' = passed /\ after = before
            \/ passed' = passed \ {k} /\ after = before \ {k}
        BY <3>1, <4>4
      <4> HIDE DEF before, after
      <4>8. loops[1].cur # 0 => after \subseteq passed'
        <5>1. loops[1].cur # 0 => before \subseteq passed
          BY <4>5 DEF before
        <5> QED
          BY <4>7, <5>1
      <4>9. \A j \in loops'[1].stayed :
               loops[1].cur = 0 \/ j \in passed' => j \in after
        <5>1. \A j \in loops[1].stayed : loops[1].cur = 0 \/ j \in passed => j \in before
          BY <4>5 DEF before
        <5> QED
          BY <4>4, <4>7, <5>1
      <4> QED
        BY <2>2, <3>2, <4>3, <4>4, <4>5, <4>6, <4>8, <4>9 DEF LoopInv, after
    <3> QED
      BY <3>3, <3>4
  <2> QED
    BY <2>1, <2>3, <2>4, <2>5 DEF CallEffect
<1>4. CASE begin
  <2> DEFINE l == [cur |-> 0, seen |-> {}, ordered |-> TRUE, stayed |-> DOMAIN rows]
  <2>1. PICK n \in NextKeys : StepIterate(n) /\ loops' = Append(loops, Advanced(l, n))
    BY <1>4 DEF begin
  <2> DEFINE m == Advanced(l, n)
  <2>2. loops = <<>> /\ Behind = {}
    BY <1>1, <1>2, <1>4, <2>1 DEF begin, LoopInv, Behind, StepIterate
  <2>3. l \in Loop
    BY TableShape DEF Loop, TypeOK
  <2>4. l.ordered /\ l.stayed \subseteq DOMAIN rows /\ l.seen \subseteq Behind
    OBVIOUS
  <2> HIDE DEF l
  <2>5. /\ m \in Loop
        /\ m.ordered
        /\ m.stayed \subseteq DOMAIN rows'
        /\ m.cur # 0 => phase'["iterate"] = "row" /\ m.seen \subseteq passed'
        /\ \A k \in m.stayed : m.cur = 0 \/ k \in passed' => k \in m.seen
        /\ RowidKey => \A a \in Keys \ passed', b \in passed' : b < a
    BY <2>1, <2>2, <2>3, <2>4, OneAdvance
  <2> HIDE DEF m
  <2>6. Len(loops') = 1 /\ loops'[1] = m
    BY <1>1, <2>1, <2>2, <2>5 DEF m
  <2> QED
    BY <2>5, <2>6 DEF LoopInv
<1>5. CASE Increment
  <2>1. PICK n \in NextKeys :
          StepIterate(n) /\ loops' = [loops EXCEPT ![Len(loops)] = Advanced(@, n)]
    BY <1>5 DEF Increment
  <2>2. loops # <<>> /\ Len(loops) = 1 /\ loops[1].cur # 0
    BY <1>1, <1>5 DEF Increment, Inner
  <2> DEFINE l == loops[1]
             m == Advanced(l, n)
  <2>3. Behind = passed
    BY <2>2 DEF LoopInv, Behind
  <2>4. loops' = [loops EXCEPT ![1] = m]
    BY <2>1, <2>2
  <2>5. /\ l \in Loop /\ l.ordered /\ l.stayed \subseteq DOMAIN rows
        /\ l.seen \subseteq Behind
        /\ \A k \in l.stayed \cap Behind : k \in l.seen
        /\ RowidKey => \A a \in Keys \ Behind, b \in Behind : b < a
    BY <1>1, <2>2, <2>3 DEF LoopInv
  <2> HIDE DEF l
  <2>6. /\ m \in Loop
        /\ m.ordered
        /\ m.stayed \subseteq DOMAIN rows'
        /\ m.cur # 0 => phase'["iterate"] = "row" /\ m.seen \subseteq passed'
        /\ \A k \in m.stayed : m.cur = 0 \/ k \in passed' => k \in m.seen
        /\ RowidKey => \A a \in Keys \ passed', b \in passed' : b < a
    BY <2>1, <2>5, OneAdvance
  <2> HIDE DEF m
  <2>7. Len(loops') = 1 /\ loops'[1] = m /\ loops' # <<>>
    BY <1>1, <2>2, <2>4
  <2> QED
    BY <2>6, <2>7 DEF LoopInv
<1>6. CASE Destroy
  <2>1. loops' = <<>> /\ Len(loops') = 0
    BY <1>1, <1>6 DEF Destroy
  <2> QED
    BY <1>6, <2>1 DEF Destroy, LoopInv, TypeOK, Statements
<1>7. CASE IterationFails
  <2>1. loops' = <<>> /\ Len(loops') = 0 /\ phase' = phase /\ passed' = passed
    BY <1>7 DEF IterationFails
  <2>2. ~ alive'
    BY <1>7 DEF IterationFails
  <2> QED
    BY <2>1, <2>2 DEF LoopInv
<1>8. CASE SchemaChanges \/ UNCHANGED vars
  BY <1>8 DEF SchemaChanges, vars, LoopInv
<1>9. CASE close \/ makeSet
  BY <1>1, <1>9 DEF close, makeSet, Prepared, LoopInv, Statements
<1> QED
  BY <1>3, <1>4, <1>5, <1>6, <1>7, <1>8, <1>9 DEF Next

\* A loop that does not nest in another one over the same Set delivers the
\* rows in order, none twice, and all that stayed in the table while it ran,
\* whatever its body inserts, updates and deletes (Iterator.h:60-79).
THEOREM LoopCorrect == ASSUME MaxLoops <= 1 PROVE Spec => []LoopSeesTable
<1>1. Init => LoopInv
  <2> SUFFICES ASSUME Init PROVE LoopInv
    OBVIOUS
  <2>1. loops = <<>> /\ Len(loops) = 0
    BY DEF Init
  <2> QED
    BY <2>1 DEF Init, LoopInv, Prepared, Statements
<1>2. TypeOK /\ TypeOK' /\ LoopInv /\ [Next]_vars => LoopInv'
  BY LoopStep
<1>3. TypeOK /\ LoopInv => LoopSeesTable
  <2> SUFFICES ASSUME TypeOK, LoopInv, NEW i \in 1..Len(loops)
               PROVE  loops[i].ordered /\ (loops[i].cur = 0 => loops[i].stayed \subseteq loops[i].seen)
    BY DEF LoopSeesTable
  <2>1. i = 1 /\ loops # <<>>
    BY DEF TypeOK, LoopInv
  <2> QED
    BY <2>1 DEF LoopInv
<1> QED
  BY <1>1, <1>2, <1>3, SetTypeCorrect, PTL DEF Spec

-----------------------------------------------------------------------------
(* The Set implements the map.                                             *)

NotStale == stale = FALSE

LEMMA NotStaleStep ==
    ASSUME "schema" \notin Fails, TypeOK, NotStale, [Next]_vars
    PROVE  NotStale'
<1>1. Call => UNCHANGED stale
  BY Effects DEF TypeOK, CallEffect
<1> QED
  BY <1>1 DEF Next, begin, Increment, StepIterate, Destroy, IterationFails, SchemaChanges,
     close, makeSet, vars, NotStale

\* A bind that is refused throws.
LEMMA RefusedThrows ==
    ASSUME NEW op \in Operations, NEW s, NEW k \in Keys, BindThrows(op, s, k)
    PROVE  Abstract!KNext
<1>1. Abstract!Throws(op, k)
  BY DEF BindThrows, Reply, Kept, Abstract!Throws, Abstract!Answer
<1> QED
  BY <1>1 DEF Abstract!KNext, Operations

\* A step that fails throws and leaves the table alone.
LEMMA FailedThrows ==
    ASSUME NEW op \in Operations, NEW s, NEW k \in Keys, Kept,
           Executed(op, s, k, "throws", {})
    PROVE  Abstract!KNext
<1>1. Abstract!Throws(op, k)
  BY DEF Executed, Reply, Kept, Abstract!Throws, Abstract!Answer
<1> QED
  BY <1>1 DEF Abstract!KNext, Operations

LEMMA CallSimulates ==
    ASSUME TypeOK, NotStale, Call
    PROVE  Abstract!KNext
<1>1. PICK k \in Keys :
        \/ \E r \in Records : insert(k, r) \/ tryinsert(k, r) \/ update(k, r) \/ updatePart(k, r)
        \/ find(k) \/ deleteElement(k) \/ tryDeleteRecord(k)
  BY DEF Call
<1>2. \A s : Starts(s)
  BY DEF Starts, NotStale
<1>3. ASSUME NEW r \in Records, insert(k, r)
      PROVE  Abstract!KNext
  <2>1. CASE BindThrows("insert", "insert", k)
    BY <2>1, RefusedThrows DEF Operations
  <2>2. CASE Kept /\ Executed("insert", "insert", k, "throws", {})
    BY <2>2, FailedThrows DEF Operations
  <2>3. CASE ~Has(k) /\ Put(k, r) /\ Executed("insert", "insert", k, "done", {r})
    <3>1. Abstract!Insert(k, r)
      BY <2>3 DEF Has, Put, Executed, Reply, Abstract!Insert, Abstract!Uses, Abstract!Put, Abstract!Answer
    <3> QED
      BY <3>1 DEF Abstract!KNext
  <2> QED
    BY <1>3, <2>1, <2>2, <2>3 DEF insert
<1>4. ASSUME NEW r \in Records, tryinsert(k, r)
      PROVE  Abstract!KNext
  <2>1. CASE BindThrows("tryinsert", "insert", k)
    BY <2>1, RefusedThrows DEF Operations
  <2>2. CASE Kept /\ Executed("tryinsert", "insert", k, "throws", {})
    BY <2>2, FailedThrows DEF Operations
  <2>3. CASE \/ ~Has(k) /\ Put(k, r) /\ Executed("tryinsert", "insert", k, "true", {r})
             \/ Has(k) /\ Kept /\ Executed("tryinsert", "insert", k, "false", {})
    <3>1. Abstract!TryInsert(k, r)
      BY <2>3 DEF Has, Put, Kept, Executed, Reply, Abstract!TryInsert, Abstract!Uses, Abstract!Put, Abstract!Answer
    <3> QED
      BY <3>1 DEF Abstract!KNext
  <2> QED
    BY <1>2, <1>4, <2>1, <2>2, <2>3 DEF tryinsert
<1>5. CASE find(k)
  <2>1. CASE BindThrows("find", "select", k)
    BY <2>1, RefusedThrows DEF Operations
  <2>2. CASE Kept /\ Reply("find", k, "throws")
    <3>1. Abstract!Throws("find", k)
      BY <2>2 DEF Reply, Kept, Abstract!Throws, Abstract!Answer
    <3> QED
      BY <3>1 DEF Abstract!KNext
  <2>3. CASE /\ Kept
             /\ answer' = [op |-> "find", key |-> k, out |-> IF Has(k) THEN "true" ELSE "false",
                           got |-> IF Has(k) THEN {rows[k]} ELSE {}]
    <3>1. Abstract!Find(k)
      BY <2>3 DEF Has, Kept, Abstract!Find, Abstract!Answer
    <3> QED
      BY <3>1 DEF Abstract!KNext
  <2> QED
    BY <1>5, <2>1, <2>2, <2>3 DEF find
<1>6. ASSUME NEW r \in Records, update(k, r)
      PROVE  Abstract!KNext
  <2>1. CASE BindThrows("update", "update", k)
    BY <2>1, RefusedThrows DEF Operations
  <2>2. CASE Kept /\ Executed("update", "update", k, "throws", {})
    BY <2>2, FailedThrows DEF Operations
  <2>3. CASE Has(k) /\ Put(k, r) /\ Executed("update", "update", k, "done", {r})
    <3>1. Abstract!Update(k, r)
      BY <2>3 DEF Has, Put, Executed, Reply, Abstract!Update, Abstract!Put, Abstract!Answer
    <3> QED
      BY <3>1 DEF Abstract!KNext
  <2> QED
    BY <1>6, <2>1, <2>2, <2>3 DEF update, Change
<1>7. ASSUME NEW r \in Records, updatePart(k, r)
      PROVE  Abstract!KNext
  <2> DEFINE q == [c \in Cols |-> IF c \in UpdaterCols \/ ~Has(k) THEN r[c] ELSE rows[k][c]]
  <2>1. Has(k) => rows[k] \in Records
    BY TableShape DEF Has, TypeOK
  <2>2. q \in Records
    BY <2>1 DEF Records
  <2>3. Has(k) => q = Merged(rows[k], r)
    BY DEF Merged
  <2> HIDE DEF q
  <2>4. Change("updater", "updater", k, r, q)
    BY <1>7 DEF updatePart, q
  <2>5. CASE BindThrows("updater", "updater", k)
    BY <2>5, RefusedThrows DEF Operations
  <2>6. CASE Kept /\ Executed("updater", "updater", k, "throws", {})
    BY <2>6, FailedThrows DEF Operations
  <2>7. CASE Has(k) /\ Put(k, q) /\ Executed("updater", "updater", k, "done", {r})
    <3>1. Abstract!UpdatePart(k, r)
      BY <2>3, <2>7 DEF Has, Put, Executed, Reply, Abstract!UpdatePart, Abstract!Put,
         Abstract!Answer
    <3> QED
      BY <3>1 DEF Abstract!KNext
  <2> QED
    BY <2>4, <2>5, <2>6, <2>7 DEF Change
<1>8. CASE deleteElement(k)
  <2>1. CASE BindThrows("delete", "delete", k)
    BY <2>1, RefusedThrows DEF Operations
  <2>2. CASE Kept /\ Executed("delete", "delete", k, "throws", {})
    BY <2>2, FailedThrows DEF Operations
  <2>3. CASE Has(k) /\ Dropped(k) /\ Executed("delete", "delete", k, "done", {})
    <3>1. Abstract!Delete(k)
      BY <2>3 DEF Has, Dropped, Executed, Reply, Abstract!Delete, Abstract!Remove,
         Abstract!Answer
    <3> QED
      BY <3>1 DEF Abstract!KNext
  <2> QED
    BY <1>8, <2>1, <2>2, <2>3 DEF deleteElement, Delete
<1>9. CASE tryDeleteRecord(k)
  <2>1. CASE BindThrows("trydelete", "delete", k)
    BY <2>1, RefusedThrows DEF Operations
  <2>2. CASE Kept /\ Executed("trydelete", "delete", k, "throws", {})
    BY <2>2, FailedThrows DEF Operations
  <2>3. CASE Dropped(k) /\ Executed("trydelete", "delete", k, "done", {})
    <3>1. Abstract!TryDelete(k)
      BY <2>3 DEF Dropped, Executed, Reply, Abstract!TryDelete, Abstract!Remove,
         Abstract!Answer
    <3> QED
      BY <3>1 DEF Abstract!KNext
  <2> QED
    BY <1>9, <2>1, <2>2, <2>3 DEF tryDeleteRecord, Delete
<1> QED
  BY <1>1, <1>3, <1>4, <1>5, <1>6, <1>7, <1>8, <1>9

\* As long as nobody changes the schema, a Set is the map of KeyedSet: every
\* answer is right and every failure leaves the map alone (Set.h:82-155).
THEOREM SetRefinement == ASSUME "schema" \notin Fails PROVE Spec => RefinesKeyedSet
<1>1. Init => NotStale /\ Abstract!KInit
  BY DEF Init, NotStale, NoAnswer, Tables, Abstract!KInit
<1>2. TypeOK /\ NotStale /\ [Next]_vars => NotStale'
  BY NotStaleStep
<1>3. TypeOK /\ NotStale /\ [Next]_vars => [Abstract!KNext]_(Abstract!kvars)
  <2> SUFFICES ASSUME TypeOK, NotStale, [Next]_vars, ~ UNCHANGED <<rows, answer>>
               PROVE  Abstract!KNext
    BY DEF Abstract!kvars
  <2>1. Call
    BY DEF Next, begin, Increment, StepIterate, Destroy, IterationFails, SchemaChanges, close,
       makeSet, vars
  <2> QED
    BY <2>1, CallSimulates
<1> QED
  BY <1>1, <1>2, <1>3, SetTypeCorrect, PTL DEF Spec, RefinesKeyedSet, Abstract!KSpec
=============================================================================
