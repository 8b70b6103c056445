---------------------------- MODULE SchemaProofs ----------------------------
(***************************************************************************)
(* Theorems about Schema, for every set of tables and indexes, every       *)
(* registration order and every choice of faults.                          *)
(***************************************************************************)
EXTENDS Schema, TLAPS

LEMMA ListTyped ==
    ASSUME NEW list \in Lists
    PROVE  list \in Seq(Objects) /\ Len(list) \in Nat
<1>1. CASE list = Registered
  BY <1>1, SchemaAssumption
<1>2. ASSUME NEW e \in Objects, list = <<e>> PROVE list \in Seq(Objects)
  BY <1>2
<1>3. list \in Seq(Objects)
  BY <1>1, <1>2 DEF Lists
<1> QED
  BY <1>3

\* The only pass that is not typed is no pass.
LEMMA Underway ==
    ASSUME TypeOK, NEW op \in {"create", "delete"}, InPass(op)
    PROVE  /\ pass \in Pass
           /\ pass # NoPass
           /\ Turn \in Objects
           /\ pass.next \in 1..Len(pass.list)
<1>1. pass # NoPass
  BY DEF InPass, NoPass
<1>2. pass \in Pass
  BY <1>1 DEF TypeOK
<1>3. pass.list \in Seq(Objects)
  BY <1>2, ListTyped DEF Pass
<1>4. pass.next \in 1..Len(pass.list)
  BY <1>2, <1>3 DEF InPass, Pass
<1> QED
  BY <1>1, <1>2, <1>3, <1>4 DEF Turn

\* Moving on to the next element keeps the pass typed.
LEMMA NextElementTyped ==
    ASSUME TypeOK, NEW op \in {"create", "delete"}, InPass(op), NextElement
    PROVE  /\ pass' \in Pass
           /\ pass'.next <= Len(pass'.list) + 1
           /\ pass'.list = pass.list
           /\ pass'.op = pass.op
           /\ pass'.base = pass.base
           /\ pass'.clean = pass.clean
           /\ pass'.next = pass.next + 1
<1>1. pass \in Pass /\ pass.next \in 1..Len(pass.list)
  BY Underway
<1>2. pass' = [pass EXCEPT !.next = @ + 1, !.checked = FALSE]
  BY DEF NextElement
<1>3. pass.list \in Lists /\ Len(pass.list) \in Nat /\ pass.next \in Nat \ {0}
  BY <1>1, ListTyped DEF Pass
<1>4. /\ pass'.list = pass.list /\ pass'.op = pass.op /\ pass'.base = pass.base
      /\ pass'.clean = pass.clean /\ pass'.next = pass.next + 1
  BY <1>1, <1>2 DEF Pass
<1>5. pass' \in Pass
  <2>1. pass' = [op |-> pass.op, list |-> pass.list, next |-> pass.next + 1, checked |-> FALSE,
                 base |-> pass.base, clean |-> pass.clean]
    BY <1>1, <1>2 DEF Pass
  <2>2. pass.next + 1 \in Nat \ {0}
    BY <1>3
  <2> QED
    BY <1>1, <2>1, <2>2 DEF Pass
<1>6. pass'.next <= Len(pass'.list) + 1
  BY <1>1, <1>3, <1>4
<1> QED
  BY <1>4, <1>5, <1>6

\* A pass starts before its first element.
LEMMA StartTyped ==
    ASSUME NEW op \in {"create", "delete"}, NEW list \in Lists, NEW c \in SUBSET Objects,
           Start(op, list, c)
    PROVE  pass' \in Pass /\ pass'.next <= Len(pass'.list) + 1
<1>1. Len(list) \in Nat
  BY ListTyped
<1> QED
  BY <1>1 DEF Start, Pass

\* The cache after the engine, the wrapper or a catalog query touched it.
LEMMA CacheTyped ==
    ASSUME cached \in [Kinds -> {"none", "fresh", "stale"}]
    PROVE  /\ Expired \in [Kinds -> {"none", "fresh", "stale"}]
           /\ NoneCached \in [Kinds -> {"none", "fresh", "stale"}]
           /\ \A c : invalidateScheme(c) = NoneCached
BY DEF Expired, NoneCached, invalidateScheme

LEMMA DefineTyped ==
    ASSUME TypeOK, NEW c \in SUBSET Objects, Define(c)
    PROVE  /\ catalog' \in SUBSET Objects
           /\ cached' \in [Kinds -> {"none", "fresh", "stale"}]
           /\ foreign' \in [Kinds -> BOOLEAN]
           /\ tx' \in Transaction
<1>1. cached' = NoneCached /\ catalog' = c /\ foreign' = foreign
  BY CacheTyped DEF TypeOK, Define
<1>2. tx' \in Transaction
  BY DEF Define, TypeOK, Transaction
<1> QED
  BY <1>1, <1>2, CacheTyped DEF TypeOK

LEMMA ForeignTyped ==
    ASSUME TypeOK, NEW c \in SUBSET Objects, ForeignChange(c)
    PROVE  /\ catalog' \in SUBSET Objects
           /\ cached' \in [Kinds -> {"none", "fresh", "stale"}]
           /\ foreign' \in [Kinds -> BOOLEAN]
BY CacheTyped DEF ForeignChange, TypeOK

LEMMA AskedTyped ==
    ASSUME TypeOK, NEW k \in Kinds, Asked(k)
    PROVE  /\ cached' \in [Kinds -> {"none", "fresh", "stale"}]
           /\ foreign' \in [Kinds -> BOOLEAN]
BY DEF Asked, TypeOK

LEMMA ObjectSets ==
    ASSUME TypeOK, NEW e \in Objects
    PROVE  /\ Added(catalog, e) \in SUBSET Objects
           /\ Removed(catalog, e) \in SUBSET Objects
           /\ Kind(e) \in Kinds
BY DEF TypeOK, Added, Removed, Kind, Kinds

-----------------------------------------------------------------------------
LEMMA TypeInit == Init => TypeOK
<1>1. NoTransaction \in Transaction
  BY DEF NoTransaction, Transaction
<1>2. NoneCached \in [Kinds -> {"none", "fresh", "stale"}]
  BY DEF NoneCached
<1> QED
  BY <1>1, <1>2 DEF Init, TypeOK

LEMMA TypeStep == TypeOK /\ [Next]_vars => TypeOK'
<1> SUFFICES ASSUME TypeOK, [Next]_vars PROVE TypeOK'
  OBVIOUS
<1> USE DEF Ready, Idle
<1>1. CASE create
  BY <1>1, StartTyped DEF create, TypeOK
<1>2. CASE clear
  BY <1>2, StartTyped DEF clear, TypeOK
<1>3. CASE Check
  <2>1. InPass("create") /\ Asked(Kind(Turn)) /\ Kind(Turn) \in Kinds
    BY <1>3, Underway, ObjectSets DEF Check
  <2>2. pass' \in Pass /\ pass'.next <= Len(pass'.list) + 1
    <3>1. CASE Turn \in catalog
      BY <1>3, <3>1, <2>1, NextElementTyped DEF Check
    <3>2. CASE Turn \notin catalog
      <4>1. pass' = [pass EXCEPT !.checked = TRUE]
        BY <1>3, <3>2 DEF Check
      <4>2. pass \in Pass /\ pass.next <= Len(pass.list) + 1
        BY <2>1, Underway DEF TypeOK
      <4> QED
        BY <4>1, <4>2 DEF Pass
    <3> QED
      BY <3>1, <3>2
  <2> QED
    BY <1>3, <2>1, <2>2, AskedTyped DEF Check, TypeOK
<1>4. CASE CheckThrows
  BY <1>4 DEF CheckThrows, Abandon, TypeOK
<1>5. CASE CheckTerminates
  BY <1>5 DEF CheckTerminates, TypeOK
<1>6. CASE Make
  <2>1. InPass("create") /\ Added(catalog, Turn) \in SUBSET Objects
    BY <1>6, Underway, ObjectSets DEF Make
  <2> QED
    BY <1>6, <2>1, NextElementTyped, DefineTyped DEF Make, TypeOK
<1>7. CASE MakeThrows
  BY <1>7 DEF MakeThrows, Abandon, TypeOK
<1>8. CASE Drop
  <2>1. InPass("delete") /\ Removed(catalog, Turn) \in SUBSET Objects
    BY <1>8, Underway, ObjectSets DEF Drop
  <2> QED
    BY <1>8, <2>1, NextElementTyped, DefineTyped DEF Drop, TypeOK
<1>9. CASE DropThrows
  BY <1>9 DEF DropThrows, Abandon, TypeOK
<1>10. CASE Finish
  BY <1>10 DEF Finish, Abandon, TypeOK
<1>11. ASSUME NEW k \in Kinds, tableExists(k) PROVE TypeOK'
  BY <1>11, AskedTyped DEF tableExists, TypeOK
<1>12. CASE begin
  BY <1>12 DEF begin, TypeOK, Transaction
<1>13. CASE commit
  BY <1>13 DEF commit, TypeOK, Transaction, NoTransaction
<1>14. CASE rollback
  <2>1. tx.catalog \in SUBSET Objects
    BY DEF TypeOK, Transaction
  <2> QED
    BY <1>14, <2>1, ForeignTyped DEF rollback, TypeOK, Transaction, NoTransaction
<1>15. CASE RawDDL
  <2>1. PICK c \in SUBSET Objects : ForeignChange(c)
    BY <1>15, ObjectSets DEF RawDDL
  <2>2. tx' \in Transaction
    BY <1>15 DEF RawDDL, TypeOK, Transaction
  <2> QED
    BY <1>15, <2>1, <2>2, ForeignTyped DEF RawDDL, TypeOK
<1>16. CASE OtherConnection
  <2>1. PICK c \in SUBSET Objects : ForeignChange(c)
    BY <1>16, ObjectSets DEF OtherConnection
  <2>2. pass' = NoPass \/ (pass' \in Pass /\ pass'.next <= Len(pass'.list) + 1)
    BY <1>16 DEF OtherConnection, TypeOK, Pass
  <2> QED
    BY <1>16, <2>1, <2>2, ForeignTyped DEF OtherConnection, TypeOK
<1>17. CASE Sets
  BY <1>17 DEF Sets, TypeOK
<1>18. CASE open
  <2>1. pass' = NoPass \/ (pass' \in Pass /\ pass'.next <= Len(pass'.list) + 1)
    BY <1>18, StartTyped DEF open, TypeOK, Lists
  <2> QED
    BY <1>18, <2>1 DEF open, TypeOK
<1>19. CASE close
  <2>1. handle' \in {"null", "open", "broken", "closed", "misused"}
    BY <1>19 DEF close, Closed, TypeOK
  <2> QED
    BY <1>19, <2>1, CacheTyped DEF close, Disconnect, TypeOK, Transaction, NoTransaction
<1>20. CASE destroy
  BY <1>20, CacheTyped DEF destroy, Disconnect, TypeOK, Transaction, NoTransaction
<1>21. CASE UNCHANGED vars
  BY <1>21 DEF vars, TypeOK
<1> QED
  BY <1>1, <1>2, <1>3, <1>4, <1>5, <1>6, <1>7, <1>8, <1>9, <1>10, <1>11, <1>12, <1>13,
     <1>14, <1>15, <1>16, <1>17, <1>18, <1>19, <1>20, <1>21 DEF Next, PassStep, AppStep

\* Every variable keeps its type; in particular a pass never points beyond the
\* element after its last one (the notify loops of Database.cpp:19 and
\* Scheme.h:24-32).
THEOREM SchemaTypeCorrect == Spec => []TypeOK
BY TypeInit, TypeStep, PTL DEF Spec

-----------------------------------------------------------------------------
(* The cached statements.                                                  *)

\* What the cache may do in a step: stay, be closed, be asked, or go stale by
\* something the wrapper did not do.
LEMMA CacheEffect ==
    ASSUME TypeOK, Next
    PROVE  \/ cached' = NoneCached
           \/ UNCHANGED <<cached, foreign>>
           \/ \E k \in Kinds : Asked(k)
           \/ foreign' = [k \in Kinds |-> TRUE]
<1> USE DEF Define, ForeignChange, Disconnect, invalidateScheme, NoneCached
<1>1. CASE PassStep
  <2>1. CASE create \/ clear \/ CheckThrows \/ CheckTerminates \/ MakeThrows \/ DropThrows \/ Finish
    BY <2>1 DEF create, clear, CheckThrows, CheckTerminates, MakeThrows, DropThrows, Finish
  <2>2. CASE Check
    <3>1. Kind(Turn) \in Kinds
      BY <2>2, Underway, ObjectSets DEF Check
    <3> QED
      BY <2>2, <3>1 DEF Check
  <2>3. CASE Make \/ Drop
    BY <2>3 DEF Make, Drop
  <2> QED
    BY <1>1, <2>1, <2>2, <2>3 DEF PassStep
<1>2. CASE AppStep
  <2>1. CASE begin \/ commit \/ Sets \/ open
    BY <2>1 DEF begin, commit, Sets, open
  <2>2. CASE rollback \/ RawDDL
    BY <2>2 DEF rollback, RawDDL
  <2>3. CASE close \/ destroy
    BY <2>3 DEF close, destroy
  <2>4. ASSUME NEW k \in Kinds, tableExists(k)
        PROVE  Asked(k) \/ UNCHANGED <<cached, foreign>>
    BY <2>4 DEF tableExists
  <2> QED
    BY <1>2, <2>1, <2>2, <2>3, <2>4 DEF AppStep
<1>3. CASE OtherConnection
  BY <1>3 DEF OtherConnection
<1> QED
  BY <1>1, <1>2, <1>3 DEF Next

\* Whatever fails, no call of the wrapper leaves a catalog statement that is
\* prepared for an older schema: only a rollback, DDL through exec or another
\* connection does (Database.h:222-227 and its callers).
THEOREM CacheCorrect == Spec => []StaleOnlyByForeign
<1>1. Init => StaleOnlyByForeign
  BY DEF Init, StaleOnlyByForeign, NoneCached
<1>2. TypeOK /\ StaleOnlyByForeign /\ [Next]_vars => StaleOnlyByForeign'
  <2> SUFFICES ASSUME TypeOK, StaleOnlyByForeign, [Next]_vars PROVE StaleOnlyByForeign'
    OBVIOUS
  <2>1. CASE cached' = NoneCached
    BY <2>1 DEF NoneCached, StaleOnlyByForeign
  <2>2. CASE UNCHANGED <<cached, foreign>>
    BY <2>2 DEF StaleOnlyByForeign
  <2>3. ASSUME NEW k \in Kinds, Asked(k) PROVE StaleOnlyByForeign'
    BY <2>3 DEF Asked, StaleOnlyByForeign, TypeOK
  <2>4. CASE foreign' = [k \in Kinds |-> TRUE]
    BY <2>4 DEF StaleOnlyByForeign
  <2>5. CASE UNCHANGED vars
    BY <2>5 DEF vars, StaleOnlyByForeign
  <2> QED
    BY <2>1, <2>2, <2>3, <2>4, <2>5, CacheEffect
<1> QED
  BY <1>1, <1>2, SchemaTypeCorrect, PTL DEF Spec

\* As long as no statement is refused and the schema is changed by calls of the
\* wrapper only, closing the cached statements after each change is enough: the
\* program is never terminated (Database.cpp:52, Database.h:222-227).
THEOREM SurvivesOwnChanges ==
    ASSUME Faults \cap {"busy", "rollback", "raw", "others"} = {}
    PROVE  Spec => []Survives
<1> DEFINE Inv == alive /\ \A k \in Kinds : cached[k] # "stale"
<1>1. Init => Inv
  BY DEF Init, NoneCached
<1>2. TypeOK /\ Inv /\ [Next]_vars => Inv'
  <2> SUFFICES ASSUME TypeOK, Inv, [Next]_vars PROVE Inv'
    OBVIOUS
  <2>1. \A f \in {"busy", "rollback", "raw", "others"} : f \notin Faults
    OBVIOUS
  <2> USE DEF Define, Disconnect, invalidateScheme
  <2>2. CASE create \/ clear \/ CheckThrows \/ MakeThrows \/ DropThrows \/ Finish
    BY <2>2 DEF create, clear, CheckThrows, MakeThrows, DropThrows, Finish
  <2>3. ASSUME NEW k \in Kinds, Asked(k), alive' = alive PROVE Inv'
    BY <2>3 DEF Asked, TypeOK
  <2>4. CASE Check \/ CheckTerminates
    <3>1. Kind(Turn) \in Kinds
      BY <2>4, Underway, ObjectSets DEF Check, CheckTerminates
    <3>2. ~ CheckTerminates
      BY <2>1, <3>1 DEF CheckTerminates
    <3> QED
      BY <2>3, <2>4, <3>1, <3>2 DEF Check
  <2>5. CASE Make \/ Drop
    BY <2>5 DEF Make, Drop, Kinds
  <2>6. ASSUME NEW k \in Kinds, tableExists(k) PROVE Inv'
    <3>1. Asked(k) /\ alive' = alive
      BY <2>1, <2>6 DEF tableExists
    <3> QED
      BY <2>3, <3>1
  <2>7. CASE begin \/ commit \/ Sets \/ open
    BY <2>7 DEF begin, commit, Sets, open
  <2>8. CASE close \/ destroy
    BY <2>8 DEF close, destroy, Kinds
  <2>9. CASE rollback \/ RawDDL \/ OtherConnection
    BY <2>1, <2>9 DEF rollback, RawDDL, OtherConnection
  <2>10. CASE UNCHANGED vars
    BY <2>10 DEF vars
  <2> QED
    BY <2>2, <2>4, <2>5, <2>6, <2>7, <2>8, <2>9, <2>10 DEF Next, PassStep, AppStep
<1>3. Inv => Survives
  BY DEF Survives
<1> QED
  BY <1>1, <1>2, <1>3, SchemaTypeCorrect, PTL DEF Spec

-----------------------------------------------------------------------------
(* Passes.                                                                 *)

\* The elements a pass has dealt with.
Done(p) == {p.list[j] : j \in 1..(p.next - 1)}

LEMMA DoneGrows ==
    ASSUME TypeOK, NEW op \in {"create", "delete"}, InPass(op), NextElement
    PROVE  Done(pass') = Done(pass) \cup {Turn}
<1>1. pass'.list = pass.list /\ pass'.next = pass.next + 1
  BY NextElementTyped
<1>2. pass.next \in Nat \ {0}
  BY Underway DEF Pass
<1>3. 1..(pass'.next - 1) = 1..(pass.next - 1) \cup {pass.next}
  BY <1>1, <1>2
<1> QED
  BY <1>1, <1>3 DEF Done, Turn

\* A step that leaves catalog and pass alone, or starts or ends a pass.
LEMMA PassKept ==
    ASSUME PassExact, catalog' = catalog,
           \/ pass' = pass
           \/ pass' = NoPass
           \/ pass' = [pass EXCEPT !.checked = TRUE] /\ pass \in Pass
           \/ \E op \in {"create", "delete"}, list \in Lists : Start(op, list, catalog)
    PROVE  PassExact'
<1>1. CASE pass' = pass \/ pass' = NoPass
  BY <1>1 DEF PassExact
<1>2. CASE pass' = [pass EXCEPT !.checked = TRUE] /\ pass \in Pass
  <2>1. pass # NoPass
    BY <1>2 DEF Pass, NoPass
  <2>2. /\ pass'.op = pass.op /\ pass'.list = pass.list /\ pass'.next = pass.next
        /\ pass'.base = pass.base /\ pass'.clean = pass.clean
    BY <1>2 DEF Pass
  <2> QED
    BY <2>1, <2>2 DEF PassExact
<1>3. ASSUME NEW op \in {"create", "delete"}, NEW list \in Lists, Start(op, list, catalog)
      PROVE  PassExact'
  <2>1. pass'.next = 1 /\ pass'.base = catalog
    BY <1>3 DEF Start
  <2>2. {pass'.list[j] : j \in 1..(pass'.next - 1)} = {}
    BY <2>1
  <2> QED
    BY <2>1, <2>2 DEF PassExact
<1> QED
  BY <1>1, <1>2, <1>3

LEMMA PassStepExact ==
    ASSUME TypeOK, PassExact, Next
    PROVE  PassExact'
<1> USE DEF Ready, Idle
<1>1. CASE create \/ clear \/ CheckThrows \/ CheckTerminates \/ MakeThrows \/ DropThrows \/ Finish
  BY <1>1, PassKept DEF create, clear, CheckThrows, CheckTerminates, MakeThrows, DropThrows,
     Finish, Abandon
<1>2. CASE Check
  <2>1. InPass("create") /\ catalog' = catalog
    BY <1>2 DEF Check
  <2>2. CASE Turn \in catalog
    <3>1. NextElement
      BY <1>2, <2>2 DEF Check
    <3>2. Done(pass') = Done(pass) \cup {Turn} /\ pass # NoPass /\ pass.op = "create"
      BY <2>1, <3>1, DoneGrows, Underway DEF InPass
    <3>3. pass'.op = pass.op /\ pass'.base = pass.base /\ pass'.clean = pass.clean
      BY <2>1, <3>1, NextElementTyped
    <3> QED
      BY <2>1, <2>2, <3>2, <3>3 DEF PassExact, Done
  <2>3. CASE Turn \notin catalog
    BY <1>2, <2>1, <2>3, Underway, PassKept DEF Check
  <2> QED
    BY <2>2, <2>3
<1>3. CASE Make
  <2>1. InPass("create") /\ NextElement /\ catalog' = catalog \cup {Turn}
    BY <1>3 DEF Make, Define, Added
  <2>2. Done(pass') = Done(pass) \cup {Turn} /\ pass # NoPass /\ pass.op = "create"
    BY <2>1, DoneGrows, Underway DEF InPass
  <2>3. pass'.op = pass.op /\ pass'.base = pass.base /\ pass'.clean = pass.clean
    BY <2>1, NextElementTyped
  <2> QED
    BY <2>1, <2>2, <2>3 DEF PassExact, Done
<1>4. CASE Drop
  <2>1. InPass("delete") /\ NextElement
        /\ catalog' = catalog \ ({Turn} \cup {i \in Indexes : TableOf[i] = Turn})
    BY <1>4 DEF Drop, Define, Removed
  <2>2. Done(pass') = Done(pass) \cup {Turn} /\ pass # NoPass /\ pass.op = "delete"
    BY <2>1, DoneGrows, Underway DEF InPass
  <2>3. pass'.op = pass.op /\ pass'.base = pass.base /\ pass'.clean = pass.clean
    BY <2>1, NextElementTyped
  <2>4. {i \in Indexes : TableOf[i] \in Done(pass')}
           = {i \in Indexes : TableOf[i] \in Done(pass)} \cup {i \in Indexes : TableOf[i] = Turn}
    BY <2>2
  <2> QED
    BY <2>1, <2>2, <2>3, <2>4 DEF PassExact, Done
<1>5. ASSUME NEW k \in Kinds, tableExists(k) PROVE PassExact'
  BY <1>5 DEF tableExists, PassExact
<1>6. CASE begin \/ commit \/ Sets
  BY <1>6 DEF begin, commit, Sets, PassExact
<1>7. CASE rollback \/ RawDDL \/ close \/ destroy
  BY <1>7 DEF rollback, RawDDL, close, destroy, PassExact
<1>8. CASE open
  BY <1>8, PassKept DEF open, Lists
<1>9. CASE OtherConnection
  <2>1. \/ pass' = NoPass
        \/ pass \in Pass /\ pass' = [pass EXCEPT !.clean = FALSE]
    BY <1>9 DEF OtherConnection, TypeOK
  <2>2. pass' = NoPass \/ pass'.clean = FALSE
    BY <2>1 DEF Pass
  <2> QED
    BY <2>2 DEF PassExact
<1> QED
  BY <1>1, <1>2, <1>3, <1>4, <1>5, <1>6, <1>7, <1>8, <1>9 DEF Next, PassStep, AppStep

\* A pass over the registered elements, wherever it stands and wherever it
\* throws, has made or dropped exactly its first elements: open returns only
\* when all of them exist (Database.cpp:10-20).
THEOREM PassCorrect == Spec => []PassExact
<1>1. Init => PassExact
  BY DEF Init, PassExact
<1>2. TypeOK /\ PassExact /\ [Next]_vars => PassExact'
  <2>1. PassExact /\ UNCHANGED vars => PassExact'
    BY DEF vars, PassExact
  <2> QED
    BY <2>1, PassStepExact
<1> QED
  BY <1>1, <1>2, SchemaTypeCorrect, PTL DEF Spec

-----------------------------------------------------------------------------
\* A program that leaves closing to the destructor closes its handle once:
\* only an explicit close leaves the pointer of a freed handle for the
\* destructor or the next close to find (Database.cpp:22-31, Database.h:28-31).
THEOREM ClosedOnce == ASSUME "close" \notin Faults PROVE Spec => []HandleClosedOnce
<1> DEFINE Inv == handle \in {"null", "open", "broken"}
<1>1. Init => Inv
  BY DEF Init
<1>2. Inv /\ [Next]_vars => Inv'
  <2> SUFFICES ASSUME Inv, [Next]_vars PROVE Inv'
    OBVIOUS
  <2>1. CASE PassStep
    BY <2>1 DEF PassStep, create, clear, Start, Check, CheckThrows, CheckTerminates, Make, MakeThrows,
                Drop, DropThrows, Finish, NextElement, Abandon, Define
  <2>2. CASE AppStep
    BY <2>2 DEF AppStep, tableExists, begin, commit, rollback, RawDDL, Sets, open, close, destroy
  <2>3. CASE OtherConnection \/ UNCHANGED vars
    BY <2>3 DEF OtherConnection, vars
  <2> QED
    BY <2>1, <2>2, <2>3 DEF Next
<1>3. Inv => HandleClosedOnce
  BY DEF HandleClosedOnce
<1> QED
  BY <1>1, <1>2, <1>3, PTL DEF Spec
=============================================================================
