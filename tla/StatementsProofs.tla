--------------------------- MODULE StatementsProofs ---------------------------
(***************************************************************************)
(* The properties of Statements hold for any number of objects, handles,   *)
(* parameters, texts, cells and iterators.                                 *)
(*                                                                         *)
(* The inductive invariant speaks of one object at a time: its statement   *)
(* is its own and so are its cells, so that a call on one object leaves    *)
(* the others as they were. What it adds to the properties is that an      *)
(* object has at most one iterator, and that a converted value which is    *)
(* bound and not yet executed is among the used ones, hence not handed out *)
(* again.                                                                  *)
(***************************************************************************)
EXTENDS Statements, SequenceTheorems, TLAPS

Elements(s) == {s[n] : n \in DOMAIN s}

Distinct(s) == \A m, n \in DOMAIN s : s[m] = s[n] => m = n

CellsApart ==
    /\ \A o \in Objects : Distinct(Held(o))
    /\ \A o, other \in Objects : o # other => Elements(Held(o)) \cap Elements(Held(other)) = {}

HandlesApart ==
    /\ \A h \in Handles : prepared[h] # Finalized => \E o \in Objects : object[o].m_stmt = h
    /\ \A o \in Objects : Isopen(o) =>
         /\ Handle(o) # Finalized
         /\ \A other \in Objects : object[other].m_stmt = object[o].m_stmt => other = o

OneIterator ==
    \A i, j \in Iterators : iterator[i].m_s # Null /\ iterator[i].m_s = iterator[j].m_s => i = j

ObjectType == [m_stmt : Handles \cup {Null}, usedValues : Seq(Cells), freeValues : Seq(Cells)]

HeldBy(r) == r.usedValues \o r.freeValues

\* Statement s points to cells of its own object r, what waits for execution
\* to used ones, and nothing that it is to read is spoiled.
Sound(s, r) ==
    /\ \A p \in Params : s.bound[p] \in Cells => s.bound[p] \in Elements(HeldBy(r))
    /\ \A p \in s.fresh : s.bound[p] \in Cells =>
         s.phase = "ready" /\ s.bound[p] \in Elements(r.usedValues)
    /\ \A p \in s.spoiled : ~InUse(s, p)

StatementOK(o) == Isopen(o) =>
    /\ Sound(Handle(o), object[o])
    /\ Unwatched(o) /\ ~Handle(o).byHand => Handle(o).phase = "ready"

IteratorOK(i) == iterator[i].m_s # Null =>
    /\ Isopen(iterator[i].m_s)
    /\ Handle(iterator[i].m_s).phase \in (IF iterator[i].m_v THEN {"row", "failed"} ELSE {"done"})

Inv ==
    /\ TypeOK
    /\ HandlesApart
    /\ CellsApart
    /\ OneIterator
    /\ \A o \in Objects : StatementOK(o)
    /\ \A i \in Iterators : IteratorOK(i)

-----------------------------------------------------------------------------
(* Lists of cells.                                                         *)

\* clearUsedValues: the free cells, then the used ones.
LEMMA HeldTurned ==
    ASSUME NEW S, NEW u \in Seq(S), NEW f \in Seq(S), Distinct(u \o f)
    PROVE  /\ Distinct(<<>> \o (f \o u))
           /\ Elements(<<>> \o (f \o u)) = Elements(u \o f)
<1> DEFINE s == u \o f
           t == <<>> \o (f \o u)
           k(m) == IF m <= Len(f) THEN m + Len(u) ELSE m - Len(f)
           l(m) == IF m <= Len(u) THEN m + Len(f) ELSE m - Len(u)
<1>1. /\ DOMAIN s = 1..(Len(u) + Len(f)) /\ DOMAIN t = 1..(Len(u) + Len(f))
      /\ Len(u) \in Nat /\ Len(f) \in Nat
  OBVIOUS
<1>2. \A m \in DOMAIN t : k(m) \in DOMAIN s /\ t[m] = s[k(m)]
  BY <1>1
<1>3. \A m \in DOMAIN s : l(m) \in DOMAIN t /\ s[m] = t[l(m)]
  BY <1>1
<1>4. \A m, n \in DOMAIN t : k(m) = k(n) => m = n
  BY <1>1
<1>5. Distinct(t)
  BY <1>2, <1>4 DEF Distinct
<1>6. Elements(t) = Elements(s)
  BY <1>2, <1>3 DEF Elements
<1> QED BY <1>5, <1>6

LEMMA FrontOf ==
    ASSUME NEW S, NEW f \in Seq(S), f # <<>>
    PROVE  LET g == SubSeq(f, 1, Len(f) - 1)
           IN g \in Seq(S) /\ Len(g) = Len(f) - 1 /\ \A m \in 1..(Len(f) - 1) : g[m] = f[m]
<1> DEFINE n == Len(f) - 1
<1>1. n \in Nat /\ Len(f) = n + 1 /\ \A i \in 1..n : f[i] \in S
  OBVIOUS
<1> HIDE DEF n
<1>2. /\ SubSeq(f, 1, n) \in Seq(S)
      /\ Len(SubSeq(f, 1, n)) = IF 1 <= n THEN n - 1 + 1 ELSE 0
      /\ \A i \in 1..(n - 1 + 1) : SubSeq(f, 1, n)[i] = f[1 + i - 1]
  BY <1>1, SubSeqProperties
<1>3. /\ Len(SubSeq(f, 1, n)) = n
      /\ \A i \in 1..n : SubSeq(f, 1, n)[i] = f[i]
  BY <1>1, <1>2
<1> QED BY <1>2, <1>3 DEF n

\* saveConvertedValue: the last free cell becomes the last used one.
LEMMA HeldPopped ==
    ASSUME NEW S, NEW u \in Seq(S), NEW f \in Seq(S), Distinct(u \o f), f # <<>>
    PROVE  LET c == f[Len(f)]
               t == Append(u, c) \o SubSeq(f, 1, Len(f) - 1)
           IN /\ Distinct(t)
              /\ Elements(t) = Elements(u \o f)
              /\ c \in S /\ c \in Elements(u \o f)
              /\ c \notin Elements(u)
<1> DEFINE s == u \o f
           c == f[Len(f)]
           g == SubSeq(f, 1, Len(f) - 1)
           a == Append(u, c)
           t == a \o g
           k(m) == IF m <= Len(u) THEN m ELSE IF m = Len(u) + 1 THEN Len(u) + Len(f) ELSE m - 1
           l(m) == IF m <= Len(u) THEN m ELSE IF m = Len(u) + Len(f) THEN Len(u) + 1 ELSE m + 1
<1>1. /\ DOMAIN s = 1..(Len(u) + Len(f)) /\ DOMAIN u = 1..Len(u)
      /\ Len(u) \in Nat /\ Len(f) \in Nat /\ Len(f) > 0
  OBVIOUS
<1>2. c \in S /\ s[Len(u) + Len(f)] = c /\ \A m \in DOMAIN u : s[m] = u[m]
  BY <1>1
<1>3. g \in Seq(S) /\ Len(g) = Len(f) - 1 /\ \A m \in 1..(Len(f) - 1) : g[m] = f[m]
  BY FrontOf
<1>4. a \in Seq(S) /\ Len(a) = Len(u) + 1 /\ a[Len(u) + 1] = c /\ \A m \in 1..Len(u) : a[m] = u[m]
  BY <1>2
<1> HIDE DEF g, a
<1>5. DOMAIN t = 1..(Len(u) + Len(f))
  <2>1. Len(t) = Len(a) + Len(g) /\ t \in Seq(S)
    BY <1>3, <1>4, ConcatProperties
  <2> HIDE DEF t
  <2> QED BY <1>1, <1>3, <1>4, <2>1
<1>6. \A m \in DOMAIN t : t[m] = IF m <= Len(u) + 1 THEN a[m] ELSE g[m - (Len(u) + 1)]
  BY <1>1, <1>3, <1>4, <1>5
<1>7. \A m \in DOMAIN s : s[m] = IF m <= Len(u) THEN u[m] ELSE f[m - Len(u)]
  BY <1>1
<1> HIDE DEF s, t, c
<1>8. \A m \in DOMAIN t : k(m) \in DOMAIN s /\ t[m] = s[k(m)]
  <2> TAKE m \in DOMAIN t
  <2>1. m \in 1..(Len(u) + Len(f)) /\ k(m) \in DOMAIN s
    BY <1>1, <1>5
  <2>2. CASE m <= Len(u)
    BY <1>1, <1>4, <1>6, <1>7, <2>1, <2>2
  <2>3. CASE m = Len(u) + 1
    BY <1>1, <1>2, <1>4, <1>6, <2>1, <2>3
  <2>4. CASE m > Len(u) + 1
    <3>1. t[m] = g[m - (Len(u) + 1)] /\ m - (Len(u) + 1) \in 1..(Len(f) - 1)
      BY <1>1, <1>6, <2>1, <2>4
    <3>2. s[m - 1] = f[(m - 1) - Len(u)]
      BY <1>1, <1>7, <2>1, <2>4
    <3>3. k(m) = m - 1 /\ (m - 1) - Len(u) = m - (Len(u) + 1)
      BY <1>1, <2>1, <2>4
    <3> QED BY <1>3, <2>1, <3>1, <3>2, <3>3
  <2> QED BY <1>1, <2>1, <2>2, <2>3, <2>4
<1>9. \A m \in DOMAIN s : l(m) \in DOMAIN t /\ k(l(m)) = m
  BY <1>1, <1>5
<1>10. \A m, n \in DOMAIN t : k(m) = k(n) => m = n
  BY <1>1, <1>5
<1>11. Distinct(s)
  BY DEF s
<1>12. Distinct(t)
  BY <1>8, <1>10, <1>11 DEF Distinct
<1>13. Elements(t) = Elements(s)
  BY <1>8, <1>9 DEF Elements
<1>14. c \in Elements(s) /\ c \notin Elements(u)
  BY <1>1, <1>2, <1>11 DEF Elements, Distinct
<1> QED BY <1>2, <1>12, <1>13, <1>14 DEF s, t, g, a, c

\* saveConvertedValue: a new cell becomes the last used one.
LEMMA HeldGrown ==
    ASSUME NEW S, NEW u \in Seq(S), NEW c \in S, c \notin Elements(u \o <<>>), Distinct(u \o <<>>)
    PROVE  LET t == Append(u, c) \o <<>>
           IN Distinct(t) /\ Elements(t) = Elements(u \o <<>>) \cup {c}
<1> DEFINE t == Append(u, c) \o <<>>
<1>1. u \o <<>> = u
  OBVIOUS
<1>2. /\ DOMAIN t = 1..(Len(u) + 1) /\ t[Len(u) + 1] = c
      /\ DOMAIN u = 1..Len(u) /\ Len(u) \in Nat
      /\ \A m \in DOMAIN u : t[m] = u[m]
  OBVIOUS
<1> HIDE DEF t
<1>3. Distinct(t)
  BY <1>1, <1>2 DEF Distinct, Elements
<1>4. Elements(t) = Elements(u) \cup {c}
  BY <1>1, <1>2 DEF Elements
<1> QED BY <1>1, <1>3, <1>4 DEF t

\* The used cells are among the held ones, and so are the appended ones.
LEMMA UsedHeld ==
    ASSUME NEW S, NEW u \in Seq(S), NEW f \in Seq(S)
    PROVE  Elements(u) \subseteq Elements(u \o f)
<1>1. DOMAIN u \subseteq DOMAIN (u \o f) /\ \A m \in DOMAIN u : (u \o f)[m] = u[m]
  OBVIOUS
<1> QED BY <1>1 DEF Elements

LEMMA AppendElements ==
    ASSUME NEW S, NEW u \in Seq(S), NEW c \in S
    PROVE  Elements(Append(u, c)) = Elements(u) \cup {c}
<1>1. /\ DOMAIN Append(u, c) = DOMAIN u \cup {Len(u) + 1} /\ Append(u, c)[Len(u) + 1] = c
      /\ \A m \in DOMAIN u : Append(u, c)[m] = u[m]
  OBVIOUS
<1> QED BY <1>1 DEF Elements
-----------------------------------------------------------------------------
(* One statement and its object.                                           *)

LEMMA SavedIsUsed ==
    ASSUME NEW r \in ObjectType
    PROVE  Elements(r.usedValues) \subseteq Elements(HeldBy(r))
BY UsedHeld DEF ObjectType, HeldBy

\* The object after clearUsedValues.
Turned(r) == [m_stmt |-> r.m_stmt, usedValues |-> <<>>, freeValues |-> r.freeValues \o r.usedValues]

LEMMA TurnedKeeps ==
    ASSUME NEW r \in ObjectType, Distinct(HeldBy(r))
    PROVE  /\ Turned(r) \in ObjectType /\ Turned(r).m_stmt = r.m_stmt
           /\ Distinct(HeldBy(Turned(r)))
           /\ Elements(HeldBy(Turned(r))) = Elements(HeldBy(r))
<1>1. r.usedValues \in Seq(Cells) /\ r.freeValues \in Seq(Cells)
  BY DEF ObjectType
<1>2. Turned(r) \in ObjectType /\ HeldBy(Turned(r)) = <<>> \o (r.freeValues \o r.usedValues)
  BY <1>1 DEF Turned, ObjectType, HeldBy
<1> QED BY <1>1, <1>2, HeldTurned DEF HeldBy, Turned

LEMMA SteppedSound ==
    ASSUME NEW r \in ObjectType, NEW s \in Prepared, Distinct(HeldBy(r)), Sound(s, r), MayStep(s),
           NEW to \in Outcomes
    PROVE  /\ Stepped(s, to) \in Prepared /\ Sound(Stepped(s, to), Turned(r))
           /\ Stepped(s, to).phase = to
<1> DEFINE n == Stepped(s, to)
<1>1. /\ n \in Prepared /\ n.phase = to /\ n.bound = s.bound /\ n.spoiled = s.spoiled
      /\ n.fresh = IF s.phase = "row" THEN s.fresh ELSE {}
  BY DEF Stepped, Prepared, Outcomes
<1>2. Elements(HeldBy(Turned(r))) = Elements(HeldBy(r))
  BY TurnedKeeps
<1>3. s.spoiled = {}
  BY DEF Sound, MayStep, InUse, Prepared
<1>4. \A p \in n.fresh : s.bound[p] \notin Cells
  BY <1>1 DEF Sound
<1> QED BY <1>1, <1>2, <1>3, <1>4 DEF Sound

LEMMA ResetSound ==
    ASSUME NEW r \in ObjectType, NEW s \in Prepared, Sound(s, r)
    PROVE  Reset(s) \in Prepared /\ Sound(Reset(s), r)
<1>1. /\ Reset(s) \in Prepared /\ Reset(s).phase = "ready" /\ Reset(s).bound = s.bound
      /\ Reset(s).spoiled = s.spoiled /\ Reset(s).fresh = s.fresh
  BY DEF Reset, Prepared
<1> QED BY <1>1 DEF Sound, InUse

LEMMA ClearedSound ==
    ASSUME NEW r \in ObjectType, NEW s \in Prepared
    PROVE  Cleared(s) \in Prepared /\ Sound(Cleared(s), r)
<1>1. /\ Cleared(s) \in Prepared /\ Cleared(s).bound = [p \in Params |-> Null]
      /\ Cleared(s).spoiled = {} /\ Cleared(s).fresh = Params
  BY DEF Cleared, Prepared
<1> QED BY <1>1, StatementsAssumption DEF Sound

LEMMA ClosedSound ==
    ASSUME NEW r \in ObjectType, NEW s \in Prepared
    PROVE  Closed(s) \in Prepared /\ Sound(Closed(s), r) /\ Closed(s).phase = "ready"
<1>1. Closed(s) \in Prepared /\ Sound(Closed(s), r)
  BY ClearedSound, ResetSound DEF Closed
<1>2. Cleared(s) \in Prepared
  BY ClearedSound
<1> QED BY <1>1, <1>2 DEF Closed, Reset, Prepared

\* What Bind leaves of a statement that is ready.
BoundTo(s, p, x) == [s EXCEPT !.bound[p] = x, !.fresh = @ \cup {p}, !.spoiled = @ \ {p}]

LEMMA BoundSound ==
    ASSUME NEW r \in ObjectType, NEW s \in Prepared, Sound(s, r), s.phase = "ready",
           NEW p \in Params, NEW x \in Texts \cup Cells \cup {Null},
           x \in Cells => x \in Elements(r.usedValues)
    PROVE  BoundTo(s, p, x) \in Prepared /\ Sound(BoundTo(s, p, x), r)
<1> DEFINE n == BoundTo(s, p, x)
<1>1. /\ n \in Prepared /\ n.phase = "ready" /\ n.bound = [s.bound EXCEPT ![p] = x]
      /\ n.fresh = s.fresh \cup {p} /\ n.spoiled = s.spoiled \ {p}
  BY DEF BoundTo, Prepared
<1>2. \A q \in Params : n.bound[q] = IF q = p THEN x ELSE s.bound[q]
  BY <1>1 DEF Prepared
<1>3. Elements(r.usedValues) \subseteq Elements(HeldBy(r))
  BY SavedIsUsed
<1>4. s.fresh \subseteq Params /\ s.spoiled \subseteq Params
  BY DEF Prepared
<1> HIDE DEF n
<1>5. Sound(n, r)
  BY <1>1, <1>2, <1>3, <1>4 DEF Sound, InUse
<1> QED BY <1>1, <1>5 DEF n
-----------------------------------------------------------------------------
(* A call on one object leaves the others as they were.                    *)

Sorted ==
    /\ object \in [Objects -> ObjectType]
    /\ prepared \in [Handles -> Prepared \cup {Finalized}]
    /\ iterator \in [Iterators -> [m_s : Objects \cup {Null}, m_v : BOOLEAN]]
    /\ alive \in BOOLEAN

LEMMA Sorts == TypeOK <=> Sorted
BY DEF TypeOK, Sorted, ObjectType

LEMMA HeldObject == \A o \in Objects : Held(o) = HeldBy(object[o])
BY DEF Held, HeldBy

\* An open object has a prepared statement; another one has another.
LEMMA OpenStatement ==
    ASSUME Inv, NEW o \in Objects, Isopen(o)
    PROVE  /\ object[o].m_stmt \in Handles /\ Handle(o) \in Prepared
           /\ Sound(Handle(o), object[o])
           /\ object[o] \in ObjectType /\ Distinct(HeldBy(object[o]))
           /\ \A other \in Objects : other # o => object[other].m_stmt # object[o].m_stmt
BY Sorts, HeldObject DEF Inv, Sorted, ObjectType, Isopen, Handle, HandlesApart, StatementOK, CellsApart

\* Statement g is as it was, but for parameters spoiled that are not in use.
Undisturbed(g) ==
    IF prepared[g] = Finalized THEN prepared'[g] = Finalized
    ELSE /\ prepared'[g] # Finalized
         /\ prepared'[g].phase = prepared[g].phase /\ prepared'[g].bound = prepared[g].bound
         /\ prepared'[g].fresh = prepared[g].fresh /\ prepared'[g].byHand = prepared[g].byHand
         /\ \A p \in prepared'[g].spoiled : p \in prepared[g].spoiled \/ ~InUse(prepared[g], p)

\* Object o becomes r, its statement s; it holds its own cells still, or new ones.
LEMMA OneObject ==
    ASSUME Inv, NEW o \in Objects, Isopen(o), NEW r \in ObjectType, NEW s \in Prepared,
           r.m_stmt = object[o].m_stmt, object' = [object EXCEPT ![o] = r],
           Distinct(HeldBy(r)),
           \A c \in Elements(HeldBy(r)) : c \in Elements(HeldBy(object[o])) \/ c \in Unallocated,
           Sound(s, r),
           prepared' \in [Handles -> Prepared \cup {Finalized}], prepared'[object[o].m_stmt] = s,
           \A g \in Handles \ {object[o].m_stmt} : Undisturbed(g),
           Unwatched(o)' /\ ~s.byHand => s.phase = "ready",
           iterator' \in [Iterators -> [m_s : Objects \cup {Null}, m_v : BOOLEAN]],
           OneIterator',
           \A i \in Iterators : iterator'[i].m_s \notin {Null, o} =>
               \E j \in Iterators : iterator[j] = iterator'[i],
           \A other \in Objects \ {o} : Unwatched(other)' => Unwatched(other),
           \A i \in Iterators : iterator'[i].m_s = o =>
               s.phase \in (IF iterator'[i].m_v THEN {"row", "failed"} ELSE {"done"}),
           alive' \in BOOLEAN
    PROVE  Inv'
<1> DEFINE h == object[o].m_stmt
<1>1. h \in Handles /\ prepared[h] \in Prepared /\ object[o] \in ObjectType
      /\ Sorted /\ \A other \in Objects : other # o => object[other].m_stmt # h
  BY OpenStatement, Sorts DEF Inv, Handle
<1>2. /\ object'[o] = r /\ \A other \in Objects : other # o => object'[other] = object[other]
      /\ object' \in [Objects -> ObjectType]
      /\ \A other \in Objects : object'[other].m_stmt = object[other].m_stmt
  BY <1>1 DEF Sorted
<1>3. TypeOK'
  BY <1>2 DEF TypeOK, ObjectType
<1>4. Finalized \notin Prepared
  BY DEF Finalized, Prepared
<1>5. \A g \in Handles : prepared'[g] = Finalized <=> prepared[g] = Finalized
  BY <1>1, <1>4 DEF Undisturbed
<1>6. HandlesApart'
  <2>1. \A g \in Handles : prepared'[g] # Finalized => \E b \in Objects : object'[b].m_stmt = g
    BY <1>2, <1>5 DEF Inv, HandlesApart
  <2>2. \A b \in Objects : object'[b].m_stmt # Null => object'[b].m_stmt \in Handles
    BY <1>2 DEF ObjectType
  <2>3. \A b \in Objects : object'[b].m_stmt # Null =>
          /\ prepared'[object'[b].m_stmt] # Finalized
          /\ \A other \in Objects : object'[other].m_stmt = object'[b].m_stmt => other = b
    BY <1>2, <1>5, <2>2 DEF Inv, HandlesApart, Isopen, Handle
  <2> QED BY <2>1, <2>3 DEF HandlesApart, Isopen, Handle
<1>7. CellsApart'
  <2>1. \A b \in Objects : Held(b)' = HeldBy(object'[b])
    BY HeldObject DEF Held, HeldBy
  <2>2. \A b \in Objects : Distinct(HeldBy(object[b]))
    BY HeldObject DEF Inv, CellsApart
  <2>3. \A b \in Objects \ {o} : Elements(HeldBy(object[b])) \cap Elements(HeldBy(object[o])) = {}
    BY HeldObject DEF Inv, CellsApart
  <2>4. \A b \in Objects, c \in Unallocated : c \notin Elements(HeldBy(object[b]))
    BY HeldObject DEF Unallocated, Elements
  <2>5. \A b \in Objects \ {o} : Elements(HeldBy(object[b])) \cap Elements(HeldBy(r)) = {}
    BY <2>3, <2>4
  <2>6. \A b \in Objects : Distinct(HeldBy(object'[b]))
    BY <1>2, <2>2
  <2>7. \A b, d \in Objects : b # d => Elements(HeldBy(object'[b])) \cap Elements(HeldBy(object'[d])) = {}
    <3> TAKE b, d \in Objects
    <3>1. CASE b # o /\ d # o
      BY <1>2, <3>1, HeldObject DEF Inv, CellsApart
    <3> QED BY <1>2, <2>5, <3>1
  <2> QED BY <2>1, <2>6, <2>7 DEF CellsApart
<1>8. ASSUME NEW b \in Objects PROVE StatementOK(b)'
  <2>1. CASE b = o
    BY <1>2, <2>1 DEF StatementOK, Handle, Isopen
  <2>2. CASE b # o
    <3> SUFFICES ASSUME Isopen(b) PROVE StatementOK(b)'
      BY <1>2, <2>2 DEF StatementOK, Isopen
    <3> DEFINE g == object[b].m_stmt
    <3>1. g \in Handles /\ g # h /\ prepared[g] \in Prepared /\ Sound(prepared[g], object[b])
      BY <1>1, <2>2, OpenStatement DEF Handle
    <3>2. Undisturbed(g) /\ prepared[g] # Finalized
      BY <1>4, <3>1
    <3>3. Sound(prepared'[g], object[b])
      BY <3>1, <3>2 DEF Sound, Undisturbed, InUse
    <3>4. Unwatched(b)' /\ ~prepared'[g].byHand => prepared'[g].phase = "ready"
      <4>1. Unwatched(b)' => Unwatched(b)
        BY <2>2
      <4>2. Unwatched(b) /\ ~prepared[g].byHand => prepared[g].phase = "ready"
        BY DEF Inv, StatementOK, Handle
      <4> QED BY <3>2, <4>1, <4>2 DEF Undisturbed
    <3>5. Handle(b)' = prepared'[g] /\ object'[b] = object[b]
      BY <1>2, <2>2 DEF Handle
    <3> QED BY <3>3, <3>4, <3>5 DEF StatementOK
  <2> QED BY <2>1, <2>2
<1>9. ASSUME NEW i \in Iterators PROVE IteratorOK(i)'
  <2>1. CASE iterator'[i].m_s = Null
    BY <2>1 DEF IteratorOK
  <2>2. CASE iterator'[i].m_s = o
    <3>1. Isopen(o)' /\ Handle(o)' = s
      BY <1>2 DEF Isopen, Handle
    <3> QED BY <2>2, <3>1 DEF IteratorOK, Isopen, Handle
  <2>3. CASE iterator'[i].m_s \notin {Null, o}
    <3>1. PICK j \in Iterators : iterator[j] = iterator'[i]
      BY <2>3
    <3> DEFINE b == iterator[j].m_s
               g == object[b].m_stmt
    <3>2. b \in Objects /\ b # o /\ Isopen(b) /\ b = iterator'[i].m_s
      BY <1>1, <2>3, <3>1 DEF Sorted, Inv, IteratorOK
    <3>3. g \in Handles /\ g # h /\ prepared[g] \in Prepared
      BY <1>1, <3>2, OpenStatement DEF Handle
    <3>4. prepared'[g].phase = prepared[g].phase
      BY <1>4, <3>3 DEF Undisturbed
    <3>5. prepared[g].phase \in (IF iterator[j].m_v THEN {"row", "failed"} ELSE {"done"})
      BY <2>3, <3>1 DEF Inv, IteratorOK, Handle
    <3>6. object'[b].m_stmt = g /\ g # Null
      BY <1>2, <3>2 DEF Isopen
    <3> HIDE DEF b, g
    <3> QED BY <3>1, <3>2, <3>4, <3>5, <3>6 DEF IteratorOK, Isopen, Handle
  <2> QED BY <2>1, <2>2, <2>3
<1> QED BY <1>3, <1>6, <1>7, <1>8, <1>9 DEF Inv

\* What calls leave of the object: itself, or the lists turned.
LEMMA KeptOrTurned ==
    ASSUME Sorted, NEW o \in Objects, NEW s,
           object[o] \in ObjectType, Distinct(HeldBy(object[o])),
           \/ object' = object /\ Sound(s, object[o])
           \/ clearUsedValues(o) /\ Sound(s, Turned(object[o]))
    PROVE  \E r \in ObjectType :
             /\ r.m_stmt = object[o].m_stmt /\ object' = [object EXCEPT ![o] = r] /\ Distinct(HeldBy(r))
             /\ Elements(HeldBy(r)) = Elements(HeldBy(object[o])) /\ Sound(s, r)
<1>1. CASE object' = object /\ Sound(s, object[o])
  <2>1. object' = [object EXCEPT ![o] = object[o]]
    BY <1>1 DEF Sorted
  <2> QED BY <1>1, <2>1
<1>2. CASE clearUsedValues(o) /\ Sound(s, Turned(object[o]))
  <2>1. object' = [object EXCEPT ![o] = Turned(object[o])]
    <3>1. [object[o] EXCEPT !.freeValues = object[o].freeValues \o object[o].usedValues,
                            !.usedValues = <<>>] = Turned(object[o])
      <4> DEFINE x == object[o]
                 f == x.freeValues \o x.usedValues
                 u == <<>>
      <4>1. x \in [m_stmt : Handles \cup {Null}, usedValues : Seq(Cells), freeValues : Seq(Cells)]
        BY DEF ObjectType
      <4> HIDE DEF x, f, u
      <4> DEFINE n == [x EXCEPT !.freeValues = f, !.usedValues = u]
      <4>2. n \in [m_stmt : {x.m_stmt}, usedValues : {u}, freeValues : {f}]
        BY <4>1
      <4> HIDE DEF n
      <4>3. n = [m_stmt |-> x.m_stmt, usedValues |-> u, freeValues |-> f]
        BY <4>2
      <4> QED BY <4>3 DEF Turned, x, f, u, n
    <3> QED BY <1>2, <3>1 DEF Sorted, clearUsedValues
  <2> QED BY <1>2, <2>1, TurnedKeeps
<1> QED BY <1>1, <1>2

\* The same for calls that the user makes by hand.
LEMMA ByHandCall ==
    ASSUME Inv, NEW o \in Objects, ByHand(o), NEW s \in Prepared, Becomes(o, s),
           \/ object' = object /\ Sound(s, object[o])
           \/ clearUsedValues(o) /\ Sound(s, Turned(object[o])),
           ~s.byHand => s.phase = "ready",
           iterator' = iterator, alive' = alive
    PROVE  Inv'
<1> DEFINE h == object[o].m_stmt
<1>1. /\ Isopen(o) /\ h \in Handles /\ object[o] \in ObjectType /\ Distinct(HeldBy(object[o]))
      /\ Sorted
  BY OpenStatement, Sorts DEF ByHand, Inv
<1>2. PICK r \in ObjectType :
        /\ r.m_stmt = h /\ object' = [object EXCEPT ![o] = r] /\ Distinct(HeldBy(r))
        /\ Elements(HeldBy(r)) = Elements(HeldBy(object[o])) /\ Sound(s, r)
  BY <1>1, KeptOrTurned
<1>3. /\ prepared' \in [Handles -> Prepared \cup {Finalized}] /\ prepared'[h] = s
      /\ \A g \in Handles \ {h} : prepared'[g] = prepared[g]
  BY <1>1 DEF Becomes, Sorted
<1>4. \A g \in Handles \ {h} : Undisturbed(g)
  BY <1>3 DEF Undisturbed
<1>5. \A i \in Iterators : iterator'[i].m_s # o
  BY DEF ByHand, Unwatched
<1>6. OneIterator' /\ alive' \in BOOLEAN
  BY <1>1 DEF Inv, OneIterator, Sorted
<1>7. iterator' \in [Iterators -> [m_s : Objects \cup {Null}, m_v : BOOLEAN]]
  BY <1>1 DEF Sorted
<1>8. \A other \in Objects : Unwatched(other)' => Unwatched(other)
  BY DEF Unwatched
<1>9. /\ \A c \in Elements(HeldBy(r)) : c \in Elements(HeldBy(object[o])) \/ c \in Unallocated
      /\ Unwatched(o)' /\ ~s.byHand => s.phase = "ready"
      /\ \A i \in Iterators : iterator'[i].m_s \notin {Null, o} =>
           \E j \in Iterators : iterator[j] = iterator'[i]
      /\ \A i \in Iterators : iterator'[i].m_s = o =>
           s.phase \in (IF iterator'[i].m_v THEN {"row", "failed"} ELSE {"done"})
  BY <1>2, <1>5
<1> HIDE DEF h
<1> QED BY <1>1, <1>2, <1>3, <1>4, <1>6, <1>7, <1>8, <1>9, OneObject DEF h
-----------------------------------------------------------------------------
(* Every action keeps the invariant.                                       *)

LEMMA OpenKeeps == ASSUME Inv, NEW o \in Objects, open(o) PROVE Inv'
<1>1. PICK h \in Handles : /\ prepared[h] = Finalized
                           /\ object' = [object EXCEPT ![o].m_stmt = h]
                           /\ prepared' = [prepared EXCEPT ![h] = Fresh]
  BY DEF open
<1>2. ~Isopen(o) /\ iterator' = iterator /\ alive' = alive /\ Sorted
  BY Sorts DEF open, Inv
<1>3. Fresh \in Prepared /\ Fresh # Finalized /\ \A r \in ObjectType : Sound(Fresh, r)
  BY StatementsAssumption DEF Fresh, Prepared, Finalized, Sound
<1>4. /\ object'[o] \in ObjectType /\ object'[o].m_stmt = h /\ HeldBy(object'[o]) = HeldBy(object[o])
      /\ \A b \in Objects \ {o} : object'[b] = object[b]
      /\ object' \in [Objects -> ObjectType]
  BY <1>1, <1>2 DEF Sorted, ObjectType, HeldBy
<1>5. /\ prepared'[h] = Fresh /\ \A g \in Handles \ {h} : prepared'[g] = prepared[g]
      /\ prepared' \in [Handles -> Prepared \cup {Finalized}]
  BY <1>1, <1>2, <1>3 DEF Sorted
<1>6. \A b \in Objects : object[b].m_stmt # h
  BY <1>1, StatementsAssumption DEF Inv, HandlesApart, Isopen, Handle
<1>7. /\ h # Null
      /\ \A b \in Objects \ {o} : Isopen(b) =>
           object[b].m_stmt \in Handles /\ prepared'[object[b].m_stmt] = prepared[object[b].m_stmt]
  BY <1>2, <1>5, <1>6, StatementsAssumption DEF Sorted, ObjectType, Isopen
<1>8. TypeOK'
  BY <1>2, <1>4, <1>5 DEF TypeOK, ObjectType, Sorted
<1>9. HandlesApart'
  <2>1. \A g \in Handles : prepared'[g] # Finalized => \E b \in Objects : object'[b].m_stmt = g
    BY <1>2, <1>4, <1>5, StatementsAssumption DEF Inv, HandlesApart, Isopen
  <2>2. \A b \in Objects : object'[b].m_stmt # Null =>
          /\ prepared'[object'[b].m_stmt] # Finalized
          /\ \A other \in Objects : object'[other].m_stmt = object'[b].m_stmt => other = b
    <3> SUFFICES ASSUME NEW b \in Objects, object'[b].m_stmt # Null
                 PROVE  /\ prepared'[object'[b].m_stmt] # Finalized
                        /\ \A other \in Objects : object'[other].m_stmt = object'[b].m_stmt => other = b
      OBVIOUS
    <3>1. CASE b = o
      BY <1>3, <1>4, <1>5, <1>6, <3>1
    <3>2. CASE b # o
      <4>1. Isopen(b) /\ object'[b] = object[b]
        BY <1>4, <3>2 DEF Isopen
      <4>2. prepared'[object[b].m_stmt] # Finalized
        BY <1>7, <3>2, <4>1 DEF Inv, HandlesApart, Handle
      <4>3. \A d \in Objects : object'[d].m_stmt = object[b].m_stmt => d = b
        BY <1>4, <1>6, <4>1 DEF Inv, HandlesApart
      <4> QED BY <4>1, <4>2, <4>3
    <3> QED BY <3>1, <3>2
  <2> QED BY <2>1, <2>2 DEF HandlesApart, Isopen, Handle
<1>10. CellsApart'
  <2>1. \A b \in Objects : Held(b)' = HeldBy(object[b])
    BY <1>4 DEF Held, HeldBy
  <2> QED BY <2>1, HeldObject DEF Inv, CellsApart
<1>11. ASSUME NEW b \in Objects PROVE StatementOK(b)'
  <2>1. CASE b = o
    <3>1. Handle(o)' = Fresh /\ Fresh.phase = "ready" /\ Sound(Fresh, object'[o])
      BY <1>3, <1>4, <1>5 DEF Handle, Fresh
    <3> QED BY <2>1, <3>1 DEF StatementOK
  <2>2. CASE b # o
    BY <1>2, <1>4, <1>7, <2>2 DEF Inv, StatementOK, Handle, Isopen, Unwatched
  <2> QED BY <2>1, <2>2
<1>12. ASSUME NEW i \in Iterators PROVE IteratorOK(i)'
  <2>1. iterator[i].m_s \notin {Null} => iterator[i].m_s \in Objects \ {o}
    BY <1>2 DEF Inv, IteratorOK, Sorted
  <2> QED BY <1>2, <1>4, <1>7, <2>1 DEF Inv, IteratorOK, Handle, Isopen
<1> QED BY <1>2, <1>8, <1>9, <1>10, <1>11, <1>12 DEF Inv, OneIterator

LEMMA MoveKeeps == ASSUME Inv, NEW o \in Objects, NEW other \in Objects, Move(o, other) PROVE Inv'
<1> DEFINE empty == [m_stmt |-> Null, usedValues |-> <<>>, freeValues |-> <<>>]
<1>1. /\ o # other /\ Unwatched(o) /\ Unwatched(other) /\ ~Isopen(o) /\ Sorted
      /\ object' = [object EXCEPT ![o] = object[other], ![other] = empty]
      /\ prepared' = prepared /\ iterator' = iterator /\ alive' = alive
  BY Sorts DEF Move, Inv
<1>2. /\ object'[o] = object[other] /\ object'[other] = empty
      /\ \A b \in Objects \ {o, other} : object'[b] = object[b]
      /\ empty \in ObjectType /\ object' \in [Objects -> ObjectType]
      /\ empty.m_stmt = Null /\ HeldBy(empty) = <<>>
  <2>1. empty \in ObjectType /\ empty.m_stmt = Null
    BY DEF ObjectType
  <2>2. HeldBy(empty) = <<>>
    BY DEF HeldBy
  <2> HIDE DEF empty
  <2> QED BY <1>1, <2>1, <2>2 DEF Sorted
<1> HIDE DEF empty
<1>3. TypeOK'
  BY <1>1, <1>2 DEF TypeOK, ObjectType, Sorted
<1>4. HandlesApart'
  <2>1. \A g \in Handles : prepared[g] # Finalized => \E b \in Objects : object'[b].m_stmt = g
    <3> SUFFICES ASSUME NEW g \in Handles, prepared[g] # Finalized
                 PROVE  \E b \in Objects : object'[b].m_stmt = g
      OBVIOUS
    <3>1. PICK b \in Objects : object[b].m_stmt = g
      BY DEF Inv, HandlesApart
    <3>2. b # o
      BY <1>1, <3>1, StatementsAssumption DEF Isopen
    <3> QED BY <1>2, <3>1, <3>2
  <2>2. \A b \in Objects : object'[b].m_stmt # Null =>
          /\ prepared[object'[b].m_stmt] # Finalized
          /\ \A d \in Objects : object'[d].m_stmt = object'[b].m_stmt => d = b
    BY <1>1, <1>2 DEF Inv, HandlesApart, Isopen, Handle
  <2> QED BY <1>1, <2>1, <2>2 DEF HandlesApart, Isopen, Handle
<1>5. CellsApart'
  <2>1. \A b \in Objects : Held(b)' = HeldBy(object'[b])
    BY DEF Held, HeldBy
  <2>2. /\ \A b \in Objects : Distinct(HeldBy(object[b]))
        /\ \A b, d \in Objects : b # d => Elements(HeldBy(object[b])) \cap Elements(HeldBy(object[d])) = {}
    BY HeldObject DEF Inv, CellsApart
  <2>3. Elements(<<>>) = {} /\ Distinct(<<>>)
    BY DEF Elements, Distinct
  <2>4. \A b \in Objects : Distinct(HeldBy(object'[b]))
    BY <1>2, <2>2, <2>3
  <2>5. \A b, d \in Objects : b # d => Elements(HeldBy(object'[b])) \cap Elements(HeldBy(object'[d])) = {}
    BY <1>1, <1>2, <2>2, <2>3
  <2> QED BY <2>1, <2>4, <2>5 DEF CellsApart
<1>6. ASSUME NEW b \in Objects PROVE StatementOK(b)'
  BY <1>1, <1>2 DEF Inv, StatementOK, Handle, Isopen, Unwatched
<1>7. ASSUME NEW i \in Iterators PROVE IteratorOK(i)'
  BY <1>1, <1>2 DEF Inv, IteratorOK, Handle, Isopen, Unwatched, Sorted
<1> QED BY <1>1, <1>3, <1>4, <1>5, <1>6, <1>7 DEF Inv, OneIterator

\* close, and destroy, which drops the lists as well.
LEMMA FinalizeKeeps ==
    ASSUME Inv, NEW o \in Objects, NEW r \in ObjectType, Unwatched(o), r.m_stmt = Null,
           HeldBy(r) = HeldBy(object[o]) \/ HeldBy(r) = <<>>,
           object' = [object EXCEPT ![o] = r],
           prepared' = [h \in Handles |-> IF h = object[o].m_stmt THEN Finalized ELSE prepared[h]],
           iterator' = iterator, alive' = alive
    PROVE  Inv'
<1>1. Sorted
  BY Sorts DEF Inv
<1>2. /\ object'[o] = r /\ \A b \in Objects \ {o} : object'[b] = object[b]
      /\ object' \in [Objects -> ObjectType]
      /\ prepared' \in [Handles -> Prepared \cup {Finalized}]
  BY <1>1 DEF Sorted
<1>3. TypeOK'
  BY <1>1, <1>2 DEF TypeOK, ObjectType, Sorted
<1>4. \A b \in Objects \ {o} : Isopen(b) =>
        object[b].m_stmt \in Handles /\ prepared'[object[b].m_stmt] = prepared[object[b].m_stmt]
  BY <1>1 DEF Inv, HandlesApart, Isopen, Sorted, ObjectType
<1>5. HandlesApart'
  <2>1. \A g \in Handles : prepared'[g] # Finalized => \E b \in Objects : object'[b].m_stmt = g
    BY <1>2 DEF Inv, HandlesApart
  <2>2. \A b \in Objects : object'[b].m_stmt # Null =>
          /\ prepared'[object'[b].m_stmt] # Finalized
          /\ \A d \in Objects : object'[d].m_stmt = object'[b].m_stmt => d = b
    BY <1>2, <1>4 DEF Inv, HandlesApart, Isopen, Handle
  <2> QED BY <2>1, <2>2 DEF HandlesApart, Isopen, Handle
<1>6. CellsApart'
  <2>1. \A b \in Objects : Held(b)' = HeldBy(object'[b])
    BY DEF Held, HeldBy
  <2>2. /\ \A b \in Objects : Distinct(HeldBy(object[b]))
        /\ \A b, d \in Objects : b # d => Elements(HeldBy(object[b])) \cap Elements(HeldBy(object[d])) = {}
    BY HeldObject DEF Inv, CellsApart
  <2>3. Elements(<<>>) = {} /\ Distinct(<<>>)
    BY DEF Elements, Distinct
  <2>4. \A b \in Objects : Distinct(HeldBy(object'[b]))
    BY <1>2, <2>2, <2>3
  <2>5. \A b, d \in Objects : b # d => Elements(HeldBy(object'[b])) \cap Elements(HeldBy(object'[d])) = {}
    BY <1>2, <2>2, <2>3
  <2> QED BY <2>1, <2>4, <2>5 DEF CellsApart
<1>7. ASSUME NEW b \in Objects PROVE StatementOK(b)'
  BY <1>2, <1>4 DEF Inv, StatementOK, Handle, Isopen, Unwatched
<1>8. ASSUME NEW i \in Iterators PROVE IteratorOK(i)'
  BY <1>1, <1>2, <1>4 DEF Inv, IteratorOK, Handle, Isopen, Unwatched, Sorted
<1> QED BY <1>3, <1>5, <1>6, <1>7, <1>8 DEF Inv, OneIterator

LEMMA CloseKeeps == ASSUME Inv, NEW o \in Objects, close(o) PROVE Inv'
<1> DEFINE r == [object[o] EXCEPT !.m_stmt = Null]
<1>1. /\ Unwatched(o) /\ Sorted /\ object[o].m_stmt \in Handles
      /\ iterator' = iterator /\ alive' = alive
  BY Sorts, OpenStatement DEF close, ByHand, Inv
<1>2. r \in ObjectType /\ r.m_stmt = Null /\ HeldBy(r) = HeldBy(object[o])
  BY <1>1 DEF Sorted, ObjectType, HeldBy
<1>3. object' = [object EXCEPT ![o] = r]
  BY DEF close
<1>4. prepared' = [h \in Handles |-> IF h = object[o].m_stmt THEN Finalized ELSE prepared[h]]
  BY <1>1 DEF close, Sorted
<1> HIDE DEF r
<1> QED BY <1>1, <1>2, <1>3, <1>4, FinalizeKeeps

LEMMA DestroyKeeps == ASSUME Inv, NEW o \in Objects, destroy(o) PROVE Inv'
<1> DEFINE r == [m_stmt |-> Null, usedValues |-> <<>>, freeValues |-> <<>>]
<1>1. r \in ObjectType /\ r.m_stmt = Null
  BY DEF ObjectType
<1>2. HeldBy(r) = <<>>
  BY DEF HeldBy
<1>3. /\ Unwatched(o) /\ object' = [object EXCEPT ![o] = r]
      /\ prepared' = [h \in Handles |-> IF h = object[o].m_stmt THEN Finalized ELSE prepared[h]]
      /\ iterator' = iterator /\ alive' = alive
  BY DEF destroy
<1> HIDE DEF r
<1> QED BY <1>1, <1>2, <1>3, FinalizeKeeps

LEMMA BindCopiedKeeps ==
    ASSUME Inv, NEW o \in Objects, NEW col \in 0..(Columns - 1), NEW x \in Texts \cup {Null},
           ByHand(o), Bind(o, col, x, prepared), UNCHANGED <<object, iterator, alive>>
    PROVE  Inv'
<1> DEFINE h == object[o].m_stmt
           p == from0To1(col)
           s == Handle(o)
<1>1. /\ Isopen(o) /\ h \in Handles /\ s \in Prepared /\ s = prepared[h] /\ Sound(s, object[o])
      /\ object[o] \in ObjectType
  BY OpenStatement DEF ByHand, Handle
<1>2. p \in Params /\ x \in Texts \cup Cells \cup {Null} /\ x \notin Cells
  BY StatementsAssumption DEF from0To1, Params
<1>3. prepared \in [Handles -> Prepared \cup {Finalized}]
  BY Sorts DEF Inv, Sorted
<1>4. ~s.byHand => s.phase = "ready"
  BY <1>1 DEF Inv, StatementOK, ByHand
<1>5. CASE s.phase # "ready"
  <2>1. Becomes(o, s)
    BY <1>1, <1>3, <1>5 DEF Bind, Becomes
  <2> QED BY <1>1, <1>4, <2>1, ByHandCall
<1>6. CASE s.phase = "ready"
  <2>1. prepared' = [prepared EXCEPT ![h] = BoundTo(s, p, x)]
    BY <1>1, <1>3, <1>6 DEF Bind, BoundTo
  <2>2. BoundTo(s, p, x) \in Prepared /\ Sound(BoundTo(s, p, x), object[o])
    BY <1>1, <1>2, <1>6, BoundSound
  <2>3. BoundTo(s, p, x).phase = "ready"
    BY <1>1, <1>6 DEF BoundTo, Prepared
  <2> QED BY <2>1, <2>2, <2>3, ByHandCall DEF Becomes
<1> QED BY <1>5, <1>6

LEMMA StepKeeps ==
    ASSUME Inv, NEW o \in Objects, Next(o)
    PROVE  Inv'
<1>1. /\ ByHand(o) /\ Isopen(o) /\ MayStep(Handle(o)) /\ clearUsedValues(o)
      /\ iterator' = iterator /\ alive' = alive
  BY DEF Next, ByHand
<1>2. PICK to \in Outcomes : Becomes(o, [Stepped(Handle(o), to) EXCEPT !.byHand = TRUE])
  BY DEF Next
<1> DEFINE n == Stepped(Handle(o), to)
           m == [n EXCEPT !.byHand = TRUE]
<1>3. n \in Prepared /\ Sound(n, Turned(object[o]))
  BY <1>1, OpenStatement, SteppedSound
<1>4. m \in Prepared /\ m.byHand /\ Sound(m, Turned(object[o]))
  <2>1. /\ m \in Prepared /\ m.byHand /\ m.phase = n.phase /\ m.bound = n.bound
        /\ m.fresh = n.fresh /\ m.spoiled = n.spoiled
    BY <1>3 DEF Prepared
  <2> QED BY <1>3, <2>1 DEF Sound, InUse
<1> HIDE DEF m
<1> QED BY <1>1, <1>2, <1>4, ByHandCall DEF m

LEMMA ExecKeeps == ASSUME Inv, NEW o \in Objects, exec(o) PROVE Inv'
<1>1. /\ ByHand(o) /\ Isopen(o) /\ MayStep(Handle(o)) /\ clearUsedValues(o)
      /\ iterator' = iterator /\ alive' = alive
  BY DEF exec, ByHand
<1>2. PICK to \in Outcomes : Becomes(o, Reset(Stepped(Handle(o), to)))
  BY DEF exec
<1> DEFINE n == Stepped(Handle(o), to)
<1>3. n \in Prepared /\ Sound(n, Turned(object[o])) /\ Turned(object[o]) \in ObjectType
  BY <1>1, OpenStatement, SteppedSound, TurnedKeeps
<1> HIDE DEF n
<1>4. Reset(n) \in Prepared /\ Sound(Reset(n), Turned(object[o])) /\ Reset(n).phase = "ready"
  BY <1>3, ResetSound DEF Reset, Prepared
<1> QED BY <1>1, <1>2, <1>4, ByHandCall DEF n

LEMMA ResetKeeps == ASSUME Inv, NEW o \in Objects, reset(o) PROVE Inv'
<1>1. /\ ByHand(o) /\ Isopen(o) /\ Becomes(o, Reset(Handle(o)))
      /\ object' = object /\ iterator' = iterator /\ alive' = alive
  BY DEF reset, ByHand
<1>2. /\ Reset(Handle(o)) \in Prepared /\ Sound(Reset(Handle(o)), object[o])
      /\ Reset(Handle(o)).phase = "ready"
  BY <1>1, OpenStatement, ResetSound DEF Reset, Prepared
<1> QED BY <1>1, <1>2, ByHandCall

LEMMA ClearBindingsKeeps == ASSUME Inv, NEW o \in Objects, clearBindings(o) PROVE Inv'
<1> DEFINE s == Handle(o)
<1>1. /\ ByHand(o) /\ Isopen(o) /\ Becomes(o, Cleared(s))
      /\ object' = object /\ iterator' = iterator /\ alive' = alive
  BY DEF clearBindings, ByHand
<1>2. s \in Prepared /\ object[o] \in ObjectType /\ (~s.byHand => s.phase = "ready")
  BY <1>1, OpenStatement DEF ByHand, Inv, StatementOK
<1> HIDE DEF s
<1>3. /\ Cleared(s) \in Prepared /\ Sound(Cleared(s), object[o])
      /\ Cleared(s).phase = s.phase /\ Cleared(s).byHand = s.byHand
  BY <1>2, ClearedSound DEF Cleared, Prepared
<1> QED BY <1>1, <1>2, <1>3, ByHandCall

\* std::terminate changes no other variable.
LEMMA TerminateKeeps == ASSUME Inv, Terminate PROVE Inv'
<1>1. object' = object /\ prepared' = prepared /\ iterator' = iterator /\ alive' \in BOOLEAN
  BY DEF Terminate
<1>2. TypeOK'
  BY <1>1 DEF Inv, TypeOK
<1>3. HandlesApart' /\ CellsApart' /\ OneIterator'
  BY <1>1 DEF Inv, HandlesApart, CellsApart, OneIterator, Held, Handle, Isopen
<1>4. (\A o \in Objects : StatementOK(o))' /\ (\A i \in Iterators : IteratorOK(i))'
  BY <1>1 DEF Inv, StatementOK, IteratorOK, Handle, Isopen, Unwatched
<1> QED BY <1>2, <1>3, <1>4 DEF Inv

LEMMA ScalarKeeps == ASSUME Inv, NEW o \in Objects, selectScalar(o) PROVE Inv'
<1>1. CASE Terminate
  BY <1>1, TerminateKeeps
<1>2. ASSUME NEW to \in {"row", "done"}, Becomes(o, Closed(Stepped(Handle(o), to))),
             clearUsedValues(o), UNCHANGED <<iterator, alive>>
      PROVE  Inv'
  <2>1. ByHand(o) /\ Isopen(o) /\ MayStep(Handle(o))
    BY DEF selectScalar, MayIterate, ByHand
  <2>2. Stepped(Handle(o), to) \in Prepared /\ Turned(object[o]) \in ObjectType
    BY <2>1, OpenStatement, SteppedSound, TurnedKeeps DEF Outcomes
  <2>3. /\ Closed(Stepped(Handle(o), to)) \in Prepared
        /\ Sound(Closed(Stepped(Handle(o), to)), Turned(object[o]))
        /\ Closed(Stepped(Handle(o), to)).phase = "ready"
    BY <2>2, ClosedSound
  <2> QED BY <1>2, <2>1, <2>3, ByHandCall
<1> QED BY <1>1, <1>2 DEF selectScalar

\* A cell taken by saveConvertedValue is free or new: no parameter in use
\* points to it.
LEMMA SaveTakes ==
    ASSUME Inv, NEW o \in Objects, Isopen(o), NEW c \in Cells, saveConvertedValue(o, c)
    PROVE  \E r \in ObjectType :
             /\ r.m_stmt = object[o].m_stmt /\ object' = [object EXCEPT ![o] = r]
             /\ Distinct(HeldBy(r))
             /\ \A d \in Elements(HeldBy(r)) : d \in Elements(HeldBy(object[o])) \/ d \in Unallocated
             /\ Elements(HeldBy(object[o])) \subseteq Elements(HeldBy(r))
             /\ Elements(r.usedValues) = Elements(object[o].usedValues) \cup {c}
             /\ c \notin Elements(object[o].usedValues)
             /\ c \in Unallocated \/ c \in Elements(HeldBy(object[o]))
<1> DEFINE x == object[o]
           u == x.usedValues
           f == x.freeValues
<1>1. /\ x \in [m_stmt : Handles \cup {Null}, usedValues : Seq(Cells), freeValues : Seq(Cells)]
      /\ u \in Seq(Cells) /\ f \in Seq(Cells) /\ HeldBy(x) = u \o f /\ Distinct(u \o f)
      /\ object \in [Objects -> ObjectType]
  BY OpenStatement, Sorts DEF ObjectType, HeldBy, Inv, Sorted
<1>2. CASE f = <<>>
  <2> DEFINE a == Append(u, c)
             r == [x EXCEPT !.usedValues = a]
  <2>1. c \in Unallocated /\ object' = [object EXCEPT ![o] = r]
    BY <1>1, <1>2 DEF saveConvertedValue
  <2>2. r \in ObjectType /\ r.m_stmt = x.m_stmt /\ r.usedValues = Append(u, c) /\ r.freeValues = f
    <3>1. a \in Seq(Cells)
      BY <1>1
    <3> HIDE DEF a
    <3>2. /\ r \in ObjectType /\ r.m_stmt = x.m_stmt
          /\ r.usedValues = a /\ r.freeValues = f
      BY <1>1, <3>1 DEF ObjectType
    <3> QED BY <3>2 DEF a
  <2>3. c \notin Elements(u \o f)
    BY <1>1, <2>1, HeldObject DEF Unallocated, Elements
  <2>4. /\ Distinct(Append(u, c) \o <<>>)
        /\ Elements(Append(u, c) \o <<>>) = Elements(u \o <<>>) \cup {c}
    BY <1>1, <1>2, <2>3, HeldGrown
  <2>5. Elements(Append(u, c)) = Elements(u) \cup {c} /\ Elements(u) \subseteq Elements(u \o f)
    BY <1>1, AppendElements, UsedHeld
  <2>6. HeldBy(r) = Append(u, c) \o <<>>
    BY <1>2, <2>2 DEF HeldBy
  <2> HIDE DEF r, u, f, x
  <2>7. /\ Distinct(HeldBy(r)) /\ Elements(HeldBy(r)) = Elements(HeldBy(x)) \cup {c}
        /\ Elements(r.usedValues) = Elements(u) \cup {c} /\ c \notin Elements(u)
    BY <1>1, <1>2, <2>2, <2>3, <2>4, <2>5, <2>6
  <2> QED BY <2>1, <2>2, <2>7 DEF x, u
<1>3. CASE f # <<>>
  <2> DEFINE g == SubSeq(f, 1, Len(f) - 1)
             r == [x EXCEPT !.usedValues = Append(u, c), !.freeValues = g]
  <2>1. c = f[Len(f)] /\ object' = [object EXCEPT ![o] = r]
    BY <1>1, <1>3 DEF saveConvertedValue
  <2>2. g \in Seq(Cells) /\ Append(u, c) \in Seq(Cells)
    BY <1>1, <1>3, FrontOf
  <2> HIDE DEF g
  <2>3. r \in ObjectType /\ r.m_stmt = x.m_stmt /\ r.usedValues = Append(u, c) /\ r.freeValues = g
    BY <1>1, <2>2 DEF ObjectType
  <2>4. /\ Distinct(Append(u, c) \o g) /\ Elements(Append(u, c) \o g) = Elements(u \o f)
        /\ c \in Elements(u \o f) /\ c \notin Elements(u)
    BY <1>1, <1>3, <2>1, HeldPopped DEF g
  <2>5. Elements(Append(u, c)) = Elements(u) \cup {c}
    BY <1>1, AppendElements
  <2>6. HeldBy(r) = Append(u, c) \o g
    BY <2>3 DEF HeldBy
  <2> HIDE DEF r, u, f, x
  <2>7. /\ Distinct(HeldBy(r)) /\ Elements(HeldBy(r)) = Elements(HeldBy(x))
        /\ Elements(r.usedValues) = Elements(u) \cup {c} /\ c \notin Elements(u)
        /\ c \in Elements(HeldBy(x))
    BY <1>1, <2>3, <2>4, <2>5, <2>6
  <2> QED BY <2>1, <2>3, <2>7 DEF x, u
<1> QED BY <1>2, <1>3

\* Spoil(x) leaves a statement undisturbed when nothing in use points to x.
LEMMA SpoilIsGentle ==
    ASSUME Inv, NEW x, NEW h \in Handles,
           prepared[h] # Finalized => \A p \in Params : prepared[h].bound[p] = x => ~InUse(prepared[h], p)
    PROVE  LET s == Spoil(x)[h]
           IN IF prepared[h] = Finalized THEN s = Finalized
              ELSE /\ s \in Prepared
                   /\ s.phase = prepared[h].phase /\ s.bound = prepared[h].bound
                   /\ s.fresh = prepared[h].fresh /\ s.byHand = prepared[h].byHand
                   /\ \A p \in s.spoiled : p \in prepared[h].spoiled \/ ~InUse(prepared[h], p)
<1>1. prepared[h] \in Prepared \cup {Finalized}
  BY Sorts DEF Inv, Sorted
<1>2. Spoil(x)[h] = IF prepared[h] = Finalized THEN Finalized
                    ELSE [prepared[h] EXCEPT !.spoiled = @ \cup Pointing(prepared[h], x)]
  BY DEF Spoil
<1>3. CASE prepared[h] = Finalized
  BY <1>2, <1>3
<1>4. CASE prepared[h] # Finalized
  <2> DEFINE v == prepared[h]
             P == Pointing(v, x)
  <2>1. v \in Prepared /\ P \subseteq Params /\ \A p \in P : ~InUse(v, p)
    BY <1>1, <1>4 DEF Pointing
  <2> HIDE DEF v, P
  <2>2. LET s == [v EXCEPT !.spoiled = @ \cup P]
        IN /\ s \in Prepared
           /\ s.phase = v.phase /\ s.bound = v.bound /\ s.fresh = v.fresh /\ s.byHand = v.byHand
           /\ s.spoiled = v.spoiled \cup P
    BY <2>1 DEF Prepared
  <2> QED BY <1>2, <1>4, <2>1, <2>2 DEF v, P
<1> QED BY <1>3, <1>4

LEMMA OverwriteKeeps == ASSUME Inv, NEW t \in Texts, Overwrite(t) PROVE Inv'
<1>1. /\ MayChange(t) /\ prepared' = Spoil(t)
      /\ object' = object /\ iterator' = iterator /\ alive' = alive /\ Sorted
  BY Sorts DEF Overwrite, Inv
<1>2. \A h \in Handles : prepared[h] # Finalized =>
        \A p \in Params : prepared[h].bound[p] = t => ~InUse(prepared[h], p)
  BY <1>1 DEF MayChange, Pointing
<1>3. \A h \in Handles : prepared'[h] \in Prepared \cup {Finalized} /\ Undisturbed(h)
  <2> TAKE h \in Handles
  <2>1. Finalized \notin Prepared
    BY DEF Finalized, Prepared
  <2> QED BY <1>1, <1>2, <2>1, SpoilIsGentle DEF Undisturbed
<1>4. prepared' \in [Handles -> Prepared \cup {Finalized}]
  <2>1. prepared' = [h \in Handles |-> prepared'[h]]
    BY <1>1 DEF Spoil
  <2> QED BY <1>3, <2>1
<1>5. TypeOK'
  BY <1>1, <1>4 DEF TypeOK, Sorted, ObjectType
<1>6. \A o \in Objects : Isopen(o) => object[o].m_stmt \in Handles
  BY OpenStatement
<1>7. HandlesApart' /\ CellsApart' /\ OneIterator'
  <2>1. \A h \in Handles : prepared'[h] = Finalized <=> prepared[h] = Finalized
    BY <1>3 DEF Undisturbed
  <2>2. HandlesApart'
    BY <1>1, <1>6, <2>1 DEF Inv, HandlesApart, Isopen, Handle
  <2> QED BY <1>1, <2>2 DEF Inv, CellsApart, OneIterator, Held
<1>8. ASSUME NEW o \in Objects PROVE StatementOK(o)'
  <2> SUFFICES ASSUME Isopen(o) PROVE StatementOK(o)'
    BY <1>1 DEF StatementOK, Isopen
  <2> DEFINE h == object[o].m_stmt
  <2>1. h \in Handles /\ prepared[h] # Finalized /\ Sound(prepared[h], object[o]) /\ Undisturbed(h)
    BY <1>3, OpenStatement DEF Handle, Inv, HandlesApart
  <2>2. Sound(prepared'[h], object[o])
    BY <2>1 DEF Sound, Undisturbed, InUse
  <2>3. Unwatched(o)' /\ ~prepared'[h].byHand => prepared'[h].phase = "ready"
    BY <1>1, <2>1 DEF Inv, StatementOK, Handle, Undisturbed, Unwatched
  <2> QED BY <1>1, <2>2, <2>3 DEF StatementOK, Handle
<1>9. ASSUME NEW i \in Iterators PROVE IteratorOK(i)'
  <2> SUFFICES ASSUME iterator[i].m_s # Null PROVE IteratorOK(i)'
    BY <1>1 DEF IteratorOK
  <2> DEFINE o == iterator[i].m_s
  <2>1. o \in Objects /\ Isopen(o)
    BY <1>1 DEF Inv, IteratorOK, Sorted
  <2>2. prepared'[object[o].m_stmt].phase = prepared[object[o].m_stmt].phase
    BY <1>3, <2>1, OpenStatement DEF Undisturbed, Inv, HandlesApart, Handle
  <2> QED BY <1>1, <2>1, <2>2 DEF Inv, IteratorOK, Handle, Isopen
<1> QED BY <1>5, <1>7, <1>8, <1>9 DEF Inv

LEMMA BindConvertedKeeps ==
    ASSUME Inv, NEW o \in Objects, NEW col \in 0..(Columns - 1), bindConverted(o, col)
    PROVE  Inv'
<1> DEFINE h == object[o].m_stmt
           p == from0To1(col)
           x == object[o]
<1>1. /\ ByHand(o) /\ Isopen(o) /\ prepared[h].phase # "row" /\ iterator' = iterator /\ alive' = alive
      /\ h \in Handles /\ prepared[h] \in Prepared /\ Sound(prepared[h], x) /\ Sorted
      /\ Distinct(HeldBy(x)) /\ p \in Params /\ prepared[h] # Finalized
  <2>1. p \in Params
    BY StatementsAssumption DEF from0To1, Params
  <2> QED BY <2>1, OpenStatement, Sorts DEF bindConverted, ByHand, Handle, Inv, HandlesApart
<1>2. PICK c \in Cells : saveConvertedValue(o, c) /\ Bind(o, col, c, Spoil(c))
  BY DEF bindConverted
<1>3. PICK r \in ObjectType :
        /\ r.m_stmt = h /\ object' = [object EXCEPT ![o] = r] /\ Distinct(HeldBy(r))
        /\ \A d \in Elements(HeldBy(r)) : d \in Elements(HeldBy(x)) \/ d \in Unallocated
        /\ Elements(HeldBy(x)) \subseteq Elements(HeldBy(r))
        /\ Elements(r.usedValues) = Elements(x.usedValues) \cup {c}
        /\ c \notin Elements(x.usedValues)
        /\ c \in Unallocated \/ c \in Elements(HeldBy(x))
  BY <1>1, <1>2, SaveTakes
<1>4. ASSUME NEW g \in Handles, prepared[g] # Finalized, NEW q \in Params, prepared[g].bound[q] = c
      PROVE  ~InUse(prepared[g], q)
  <2>1. PICK b \in Objects : object[b].m_stmt = g
    BY <1>4 DEF Inv, HandlesApart
  <2>2. Isopen(b) /\ Handle(b) = prepared[g] /\ Sound(prepared[g], object[b])
    BY <2>1, OpenStatement, StatementsAssumption DEF Isopen, Handle
  <2>3. c \in Elements(HeldBy(object[b]))
    BY <1>4, <2>2 DEF Sound
  <2>4. c \notin Unallocated
    BY <2>3, HeldObject DEF Unallocated, Elements
  <2>5. b = o
    BY <1>3, <2>3, <2>4, HeldObject DEF Inv, CellsApart
  <2>6. g = h /\ q \notin prepared[h].fresh
    BY <1>3, <1>4, <2>1, <2>2, <2>5 DEF Sound
  <2> QED BY <1>1, <2>6 DEF InUse
<1>5. \A g \in Handles : IF prepared[g] = Finalized THEN Spoil(c)[g] = Finalized
        ELSE /\ Spoil(c)[g] \in Prepared
             /\ Spoil(c)[g].phase = prepared[g].phase /\ Spoil(c)[g].bound = prepared[g].bound
             /\ Spoil(c)[g].fresh = prepared[g].fresh /\ Spoil(c)[g].byHand = prepared[g].byHand
             /\ \A q \in Spoil(c)[g].spoiled : q \in prepared[g].spoiled \/ ~InUse(prepared[g], q)
  <2> TAKE g \in Handles
  <2>1. prepared[g] # Finalized => \A q \in Params : prepared[g].bound[q] = c => ~InUse(prepared[g], q)
    BY <1>4
  <2> QED BY <2>1, SpoilIsGentle
<1> DEFINE v == Spoil(c)[h]
<1>6. v \in Prepared /\ v.phase = prepared[h].phase /\ v.byHand = prepared[h].byHand /\ Sound(v, r)
  <2>1. /\ v \in Prepared /\ v.phase = prepared[h].phase /\ v.byHand = prepared[h].byHand
        /\ v.bound = prepared[h].bound /\ v.fresh = prepared[h].fresh
        /\ \A q \in v.spoiled : q \in prepared[h].spoiled \/ ~InUse(prepared[h], q)
    BY <1>1, <1>5
  <2> QED BY <1>1, <1>3, <2>1 DEF Sound, InUse
<1>7. Spoil(c) \in [Handles -> Prepared \cup {Finalized}]
  <2>1. Spoil(c) = [g \in Handles |-> Spoil(c)[g]]
    BY DEF Spoil
  <2>2. \A g \in Handles : Spoil(c)[g] \in Prepared \cup {Finalized}
    BY <1>5
  <2> QED BY <2>1, <2>2
<1>8. Finalized \notin Prepared
  BY DEF Finalized, Prepared
<1>9. PICK s \in Prepared :
        /\ prepared'[h] = s /\ Sound(s, r) /\ (~s.byHand => s.phase = "ready")
        /\ prepared' \in [Handles -> Prepared \cup {Finalized}]
        /\ \A g \in Handles \ {h} : prepared'[g] = Spoil(c)[g]
  <2>1. ~v.byHand => v.phase = "ready"
    BY <1>1, <1>6 DEF Inv, StatementOK, ByHand, Handle
  <2>2. CASE v.phase # "ready"
    BY <1>1, <1>2, <1>6, <1>7, <2>1, <2>2 DEF Bind
  <2>3. CASE v.phase = "ready"
    <3>1. prepared' = [Spoil(c) EXCEPT ![h] = BoundTo(v, p, c)]
      BY <1>1, <1>2, <1>6, <1>7, <2>3 DEF Bind, BoundTo
    <3>2. BoundTo(v, p, c) \in Prepared /\ Sound(BoundTo(v, p, c), r)
      BY <1>1, <1>3, <1>6, <2>3, BoundSound
    <3>3. BoundTo(v, p, c).phase = "ready"
      BY <1>6, <2>3 DEF BoundTo, Prepared
    <3> QED BY <1>1, <1>7, <3>1, <3>2, <3>3
  <2> QED BY <2>2, <2>3
<1>10. \A g \in Handles \ {h} : Undisturbed(g)
  BY <1>5, <1>8, <1>9 DEF Undisturbed
<1>11. OneIterator' /\ alive' \in BOOLEAN
       /\ iterator' \in [Iterators -> [m_s : Objects \cup {Null}, m_v : BOOLEAN]]
       /\ \A b \in Objects : Unwatched(b)' => Unwatched(b)
  BY <1>1 DEF Inv, OneIterator, Sorted, Unwatched
<1>12. \A i \in Iterators : iterator'[i].m_s # o
  BY <1>1 DEF ByHand, Unwatched
<1>13. /\ \A i \in Iterators : iterator'[i].m_s \notin {Null, o} =>
            \E j \in Iterators : iterator[j] = iterator'[i]
       /\ \A i \in Iterators : iterator'[i].m_s = o =>
            s.phase \in (IF iterator'[i].m_v THEN {"row", "failed"} ELSE {"done"})
  BY <1>1, <1>12
<1>14. /\ Isopen(o) /\ r.m_stmt = object[o].m_stmt /\ object' = [object EXCEPT ![o] = r]
       /\ \A d \in Elements(HeldBy(r)) : d \in Elements(HeldBy(object[o])) \/ d \in Unallocated
       /\ \A b \in Objects \ {o} : Unwatched(b)' => Unwatched(b)
       /\ Unwatched(o)' /\ ~s.byHand => s.phase = "ready"
  BY <1>1, <1>3, <1>9, <1>11
<1>15. /\ prepared' \in [Handles -> Prepared \cup {Finalized}] /\ prepared'[object[o].m_stmt] = s
       /\ \A g \in Handles \ {object[o].m_stmt} : Undisturbed(g)
       /\ Distinct(HeldBy(r)) /\ Sound(s, r)
  BY <1>3, <1>9, <1>10
<1> HIDE DEF h, x, p, v
<1> QED BY <1>11, <1>13, <1>14, <1>15, OneObject

\* A step of an iterator, or its end, changes its own statement only.
LEMMA IteratorCall ==
    ASSUME Inv, NEW o \in Objects, Isopen(o), NEW s \in Prepared, Becomes(o, s),
           \/ object' = object /\ Sound(s, object[o])
           \/ clearUsedValues(o) /\ Sound(s, Turned(object[o])),
           Unwatched(o)' /\ ~s.byHand => s.phase = "ready",
           iterator' \in [Iterators -> [m_s : Objects \cup {Null}, m_v : BOOLEAN]],
           OneIterator',
           \A i \in Iterators : iterator'[i].m_s \notin {Null, o} =>
               \E j \in Iterators : iterator[j] = iterator'[i],
           \A other \in Objects \ {o} : Unwatched(other)' => Unwatched(other),
           \A i \in Iterators : iterator'[i].m_s = o =>
               s.phase \in (IF iterator'[i].m_v THEN {"row", "failed"} ELSE {"done"}),
           alive' = alive
    PROVE  Inv'
<1> DEFINE h == object[o].m_stmt
<1>1. /\ h \in Handles /\ object[o] \in ObjectType /\ Distinct(HeldBy(object[o])) /\ Sorted
  BY OpenStatement, Sorts DEF Inv
<1>2. PICK r \in ObjectType :
        /\ r.m_stmt = h /\ object' = [object EXCEPT ![o] = r] /\ Distinct(HeldBy(r))
        /\ Elements(HeldBy(r)) = Elements(HeldBy(object[o])) /\ Sound(s, r)
  BY <1>1, KeptOrTurned
<1>3. /\ prepared' \in [Handles -> Prepared \cup {Finalized}] /\ prepared'[object[o].m_stmt] = s
      /\ \A g \in Handles \ {object[o].m_stmt} : Undisturbed(g)
  BY <1>1 DEF Becomes, Sorted, Undisturbed
<1>4. /\ \A c \in Elements(HeldBy(r)) : c \in Elements(HeldBy(object[o])) \/ c \in Unallocated
      /\ r.m_stmt = object[o].m_stmt /\ alive' \in BOOLEAN
  BY <1>1, <1>2 DEF Sorted
<1> HIDE DEF h
<1> QED BY <1>2, <1>3, <1>4, OneObject

LEMMA BeginKeeps == ASSUME Inv, NEW o \in Objects, NEW i \in Iterators, begin(i, o) PROVE Inv'
<1>1. CASE Terminate
  BY <1>1, TerminateKeeps
<1>2. ASSUME NEW to \in {"row", "done"}, Becomes(o, Stepped(Handle(o), to)),
             iterator' = [iterator EXCEPT ![i] = [m_s |-> o, m_v |-> to = "row"]],
             clearUsedValues(o), alive' = alive
      PROVE  Inv'
  <2>1. /\ Isopen(o) /\ Unwatched(o) /\ MayStep(Handle(o)) /\ iterator[i].m_s = Null /\ Sorted
        /\ Handle(o) \in Prepared
    BY OpenStatement, Sorts DEF begin, MayIterate, ByHand, Inv
  <2> DEFINE s == Stepped(Handle(o), to)
  <2>2. s \in Prepared /\ Sound(s, Turned(object[o])) /\ s.phase = to
    BY <2>1, OpenStatement, SteppedSound DEF Outcomes
  <2> HIDE DEF s
  <2>3. /\ iterator'[i].m_s = o /\ iterator'[i].m_v = (to = "row")
        /\ \A j \in Iterators \ {i} : iterator'[j] = iterator[j]
        /\ iterator' \in [Iterators -> [m_s : Objects \cup {Null}, m_v : BOOLEAN]]
    BY <1>2, <2>1 DEF Sorted
  <2>4. o # Null
    BY StatementsAssumption
  <2>5. OneIterator' /\ ~(Unwatched(o)')
    BY <2>1, <2>3 DEF Inv, OneIterator, Unwatched
  <2>6. \A other \in Objects \ {o} : Unwatched(other)' => Unwatched(other)
    BY <2>1, <2>3, StatementsAssumption DEF Unwatched
  <2>7. /\ \A j \in Iterators : iterator'[j].m_s \notin {Null, o} =>
             \E k \in Iterators : iterator[k] = iterator'[j]
        /\ \A j \in Iterators : iterator'[j].m_s = o =>
             s.phase \in (IF iterator'[j].m_v THEN {"row", "failed"} ELSE {"done"})
    BY <2>1, <2>2, <2>3 DEF Unwatched
  <2>8. Becomes(o, s)
    BY <1>2 DEF s
  <2> QED BY <1>2, <2>1, <2>2, <2>3, <2>5, <2>6, <2>7, <2>8, IteratorCall
<1> QED BY <1>1, <1>2 DEF begin

LEMMA IncrementKeeps == ASSUME Inv, NEW i \in Iterators, increment(i) PROVE Inv'
<1>0. PICK o \in Objects : o = iterator[i].m_s
  BY Sorts DEF increment, Inv, Sorted
<1>1. /\ o = iterator[i].m_s /\ o # Null /\ Isopen(o) /\ MayStep(Handle(o)) /\ iterator[i].m_v
      /\ Sorted /\ clearUsedValues(o) /\ alive' = alive /\ Handle(o) \in Prepared
  BY <1>0, OpenStatement, Sorts DEF increment, Inv, Sorted, IteratorOK
<1>2. PICK to \in Outcomes : /\ Becomes(o, Stepped(Handle(o), to))
                             /\ iterator' = [iterator EXCEPT ![i].m_v = to # "done"]
  BY <1>0 DEF increment
<1> DEFINE s == Stepped(Handle(o), to)
<1>3. s \in Prepared /\ Sound(s, Turned(object[o])) /\ s.phase = to
  BY <1>1, OpenStatement, SteppedSound
<1>4. Becomes(o, s)
  BY <1>2
<1> HIDE DEF s
<1>5. /\ iterator'[i].m_s = o /\ iterator'[i].m_v = (to # "done")
      /\ \A j \in Iterators \ {i} : iterator'[j] = iterator[j] /\ iterator[j].m_s # o
      /\ iterator' \in [Iterators -> [m_s : Objects \cup {Null}, m_v : BOOLEAN]]
  BY <1>1, <1>2 DEF Sorted, Inv, OneIterator
<1>6. OneIterator' /\ ~(Unwatched(o)')
  BY <1>5 DEF Inv, OneIterator, Unwatched
<1>7. \A other \in Objects \ {o} : Unwatched(other)' => Unwatched(other)
  BY <1>1, <1>5 DEF Unwatched
<1>8. /\ \A j \in Iterators : iterator'[j].m_s \notin {Null, o} =>
           \E k \in Iterators : iterator[k] = iterator'[j]
      /\ \A j \in Iterators : iterator'[j].m_s = o =>
           s.phase \in (IF iterator'[j].m_v THEN {"row", "failed"} ELSE {"done"})
  BY <1>3, <1>5 DEF Outcomes
<1> QED BY <1>1, <1>3, <1>4, <1>5, <1>6, <1>7, <1>8, IteratorCall

LEMMA DestroyIteratorKeeps == ASSUME Inv, NEW i \in Iterators, destroyIterator(i) PROVE Inv'
<1> DEFINE o == iterator[i].m_s
<1>1. CASE Terminates(Handle(o))
  BY <1>1, TerminateKeeps DEF destroyIterator
<1>2. CASE ~Terminates(Handle(o))
  <2>1. /\ o \in Objects /\ o # Null /\ Isopen(o) /\ Sorted
        /\ Becomes(o, Closed(Handle(o))) /\ object' = object /\ alive' = alive
        /\ iterator' = [iterator EXCEPT ![i] = [m_s |-> Null, m_v |-> FALSE]]
        /\ Handle(o) \in Prepared /\ object[o] \in ObjectType
    BY <1>2, OpenStatement, Sorts DEF destroyIterator, Inv, Sorted, IteratorOK
  <2> DEFINE s == Closed(Handle(o))
  <2>2. s \in Prepared /\ Sound(s, object[o]) /\ s.phase = "ready"
    BY <2>1, ClosedSound
  <2>3. /\ iterator'[i].m_s = Null /\ \A j \in Iterators \ {i} : iterator'[j] = iterator[j] /\ iterator[j].m_s # o
        /\ iterator' \in [Iterators -> [m_s : Objects \cup {Null}, m_v : BOOLEAN]]
    BY <2>1 DEF Sorted, Inv, OneIterator
  <2>4. OneIterator'
    BY <2>3 DEF Inv, OneIterator
  <2>5. \A other \in Objects \ {o} : Unwatched(other)' => Unwatched(other)
    BY <2>3 DEF Unwatched
  <2>6. /\ \A j \in Iterators : iterator'[j].m_s \notin {Null, o} =>
             \E k \in Iterators : iterator[k] = iterator'[j]
        /\ \A j \in Iterators : iterator'[j].m_s # o
    BY <2>1, <2>3
  <2>7. Becomes(o, s)
    BY <2>1
  <2> HIDE DEF o, s
  <2> QED BY <2>1, <2>2, <2>3, <2>4, <2>5, <2>6, <2>7, IteratorCall
<1> QED BY <1>1, <1>2

LEMMA MoveIteratorKeeps ==
    ASSUME Inv, NEW i \in Iterators, NEW other \in Iterators, moveIterator(i, other)
    PROVE  Inv'
<1> DEFINE o == iterator[i].m_s
           b == iterator[other].m_s
<1>1. CASE o # Null /\ Terminates(Handle(o))
  BY <1>1, TerminateKeeps DEF moveIterator
<1>2. CASE ~(o # Null /\ Terminates(Handle(o)))
  <2>1. /\ i # other /\ b # Null /\ Sorted
        /\ object' = object /\ alive' = alive
        /\ iterator' = [iterator EXCEPT ![i] = iterator[other], ![other].m_s = Null]
        /\ IF o = Null THEN prepared' = prepared ELSE Becomes(o, Closed(Handle(o)))
    BY <1>2, Sorts DEF moveIterator, Inv
  <2>2. /\ iterator'[i] = iterator[other] /\ iterator'[other].m_s = Null
        /\ \A j \in Iterators \ {i, other} : iterator'[j] = iterator[j]
        /\ iterator' \in [Iterators -> [m_s : Objects \cup {Null}, m_v : BOOLEAN]]
    BY <2>1 DEF Sorted
  <2>3. OneIterator'
    BY <2>1, <2>2 DEF Inv, OneIterator
  <2>4. /\ \A j \in Iterators : iterator'[j].m_s # Null =>
             \E k \in Iterators : iterator[k] = iterator'[j]
        /\ \A d \in Objects : Unwatched(d)' /\ d # o => Unwatched(d)
        /\ o # Null => \A j \in Iterators : iterator'[j].m_s # o
    BY <2>1, <2>2, StatementsAssumption DEF Inv, OneIterator, Unwatched
  <2>5. CASE o = Null
    <3>1. \A d \in Objects : Unwatched(d)' => Unwatched(d)
      BY <2>4, <2>5, StatementsAssumption
    <3>2. TypeOK' /\ HandlesApart' /\ CellsApart'
      <4>1. TypeOK'
        BY <2>1, <2>2, <2>5 DEF TypeOK, Sorted, ObjectType
      <4> QED BY <2>1, <2>5, <4>1 DEF Inv, HandlesApart, CellsApart, Held, Handle, Isopen
    <3>3. (\A d \in Objects : StatementOK(d))'
      BY <2>1, <2>5, <3>1 DEF Inv, StatementOK, Handle, Isopen
    <3>4. ASSUME NEW j \in Iterators PROVE IteratorOK(j)'
      <4>1. iterator'[j].m_s # Null => \E k \in Iterators : iterator[k] = iterator'[j]
        BY <2>4
      <4>2. \A k \in Iterators : IteratorOK(k)
        BY DEF Inv
      <4> QED BY <2>1, <2>5, <4>1, <4>2 DEF IteratorOK, Handle, Isopen
    <3> QED BY <2>3, <3>2, <3>3, <3>4 DEF Inv
  <2>6. CASE o # Null
    <3>1. o \in Objects /\ Isopen(o) /\ Handle(o) \in Prepared /\ object[o] \in ObjectType
      BY <2>1, <2>6, OpenStatement DEF Inv, Sorted, IteratorOK
    <3> DEFINE s == Closed(Handle(o))
    <3>2. s \in Prepared /\ Sound(s, object[o]) /\ s.phase = "ready" /\ Becomes(o, s)
      BY <2>1, <2>6, <3>1, ClosedSound
    <3>3. /\ \A d \in Objects \ {o} : Unwatched(d)' => Unwatched(d)
          /\ \A j \in Iterators : iterator'[j].m_s # o
          /\ \A j \in Iterators : iterator'[j].m_s \notin {Null, o} =>
               \E k \in Iterators : iterator[k] = iterator'[j]
      BY <2>4, <2>6
    <3> HIDE DEF o, b, s
    <3> QED BY <2>1, <2>2, <2>3, <3>1, <3>2, <3>3, IteratorCall
  <2> QED BY <2>5, <2>6
<1> QED BY <1>1, <1>2

-----------------------------------------------------------------------------
(* The invariant, and what follows from it.                                *)

LEMMA InitHolds == Init => Inv
<1> SUFFICES ASSUME Init PROVE Inv
  OBVIOUS
<1>1. TypeOK
  BY DEF Init, TypeOK
<1>2. \A o \in Objects : object[o].m_stmt = Null /\ ~Isopen(o) /\ HeldBy(object[o]) = <<>>
  <2>1. \A o \in Objects : /\ object[o].m_stmt = Null
                            /\ object[o].usedValues = <<>> /\ object[o].freeValues = <<>>
    BY DEF Init
  <2>2. <<>> \o <<>> = <<>>
    OBVIOUS
  <2> QED BY <2>1, <2>2 DEF Isopen, HeldBy
<1>3. Elements(<<>>) = {} /\ Distinct(<<>>)
  BY DEF Elements, Distinct
<1>4. CellsApart
  BY <1>2, <1>3, HeldObject DEF CellsApart
<1>5. HandlesApart
  BY <1>2 DEF Init, HandlesApart
<1>6. \A i \in Iterators : iterator[i].m_s = Null
  BY DEF Init
<1> QED BY <1>1, <1>2, <1>4, <1>5, <1>6 DEF Inv, OneIterator, StatementOK, IteratorOK

LEMMA StepHolds == Inv /\ [SNext]_vars => Inv'
<1> SUFFICES ASSUME Inv, [SNext]_vars PROVE Inv'
  OBVIOUS
<1>1. CASE Life
  BY <1>1, OpenKeeps, CloseKeeps, DestroyKeeps, MoveKeeps DEF Life
<1>2. CASE Binding
  <2>1. ASSUME NEW t \in Texts, Overwrite(t) PROVE Inv'
    BY <2>1, OverwriteKeeps
  <2>2. ASSUME NEW o \in Objects, NEW col \in 0..(Columns - 1), bindCopied(o, col) PROVE Inv'
    BY <2>2, BindCopiedKeeps DEF bindCopied
  <2>3. ASSUME NEW o \in Objects, NEW col \in 0..(Columns - 1), bindConverted(o, col) PROVE Inv'
    BY <2>3, BindConvertedKeeps
  <2>4. ASSUME NEW o \in Objects, NEW col \in 0..(Columns - 1), NEW t \in Texts, bindText(o, col, t)
        PROVE  Inv'
    BY <2>4, BindCopiedKeeps DEF bindText
  <2> QED BY <1>2, <2>1, <2>2, <2>3, <2>4 DEF Binding
<1>3. CASE Executing
  <2>1. ASSUME NEW o \in Objects,
               Next(o) \/ select(o) \/ exec(o) \/ tryexec(o) \/ reset(o) \/ clearBindings(o) \/ selectScalar(o)
        PROVE  Inv'
    BY <2>1, StepKeeps, ExecKeeps, ResetKeeps, ClearBindingsKeeps, ScalarKeeps DEF select, tryexec
  <2> QED BY <1>3, <2>1 DEF Executing
<1>4. CASE Iterating
  <2>1. ASSUME NEW i \in Iterators, NEW o \in Objects, begin(i, o) PROVE Inv'
    BY <2>1, BeginKeeps
  <2>2. ASSUME NEW i \in Iterators, increment(i) \/ destroyIterator(i) PROVE Inv'
    BY <2>2, IncrementKeeps, DestroyIteratorKeeps
  <2>3. ASSUME NEW i \in Iterators, NEW other \in Iterators, moveIterator(i, other) PROVE Inv'
    BY <2>3, MoveIteratorKeeps
  <2> QED BY <1>4, <2>1, <2>2, <2>3 DEF Iterating
<1>5. CASE UNCHANGED vars
  BY <1>5 DEF vars, Inv, TypeOK, HandlesApart, CellsApart, OneIterator, StatementOK, IteratorOK,
              Held, Handle, Isopen, Unwatched
<1> QED BY <1>1, <1>2, <1>3, <1>4, <1>5 DEF SNext

LEMMA Invariance == Spec => []Inv
BY InitHolds, StepHolds, PTL DEF Spec

LEMMA InvOwned == Inv => HandlesOwned
BY DEF Inv, HandlesApart, HandlesOwned, IteratorOK

LEMMA InvKept == Inv => SavedValuesKept
<1> SUFFICES ASSUME Inv PROVE SavedValuesKept
  OBVIOUS
<1>1. \A o, other \in Objects : \A m \in DOMAIN Held(o), n \in DOMAIN Held(other) :
        Held(o)[m] = Held(other)[n] => o = other /\ m = n
  BY DEF Inv, CellsApart, Distinct, Elements
<1>2. ASSUME NEW o \in Objects, Isopen(o), NEW p \in Params, Handle(o).bound[p] \in Cells
      PROVE  \E n \in DOMAIN Held(o) : Held(o)[n] = Handle(o).bound[p]
  BY <1>2, HeldObject DEF Inv, StatementOK, Sound, Elements
<1> QED BY <1>1, <1>2 DEF SavedValuesKept

LEMMA InvIntact == Inv => ParametersIntact
<1> SUFFICES ASSUME Inv, NEW h \in Handles, prepared[h] # Finalized, NEW p \in prepared[h].spoiled
             PROVE  ~InUse(prepared[h], p)
  BY DEF ParametersIntact
<1>1. PICK o \in Objects : object[o].m_stmt = h
  BY DEF Inv, HandlesApart
<1> QED BY <1>1, StatementsAssumption DEF Inv, StatementOK, Sound, Isopen, Handle

LEMMA InvReady == Inv => IdleIsReady
BY DEF Inv, StatementOK, IdleIsReady

LEMMA InvPlace == Inv => IteratorKeepsPlace
BY DEF Inv, IteratorOK, IteratorKeepsPlace

\* The variables of Statements keep their types, whatever calls are made.
THEOREM StatementsTypeCorrect == Spec => []TypeOK
BY Invariance, PTL DEF Inv

\* Every prepared statement has one owner, and no iterator outlives its own.
THEOREM OwnershipCorrect == Spec => []HandlesOwned
BY Invariance, InvOwned, PTL

\* Converted values belong to one object, the one whose statement reads them.
THEOREM SavedValuesCorrect == Spec => []SavedValuesKept
BY Invariance, InvKept, PTL

\* No step reads a text that was overwritten or freed after it was bound.
THEOREM ParametersCorrect == Spec => []ParametersIntact
BY Invariance, InvIntact, PTL

\* A statement that nobody steps by hand or iterates can be bound.
THEOREM IdleCorrect == Spec => []IdleIsReady
BY Invariance, InvReady, PTL

\* An iterator with a record has its statement on that record.
THEOREM PlaceCorrect == Spec => []IteratorKeepsPlace
BY Invariance, InvPlace, PTL
=============================================================================
