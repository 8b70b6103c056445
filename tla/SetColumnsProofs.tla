-------------------------- MODULE SetColumnsProofs --------------------------
(***************************************************************************)
(* What is bound to a column is read back, whatever the width of the types *)
(* and the length of a tick; and a Set binds and reads every column as the *)
(* value of its field, whatever the structure and the tuple of keys.       *)
(***************************************************************************)
EXTENDS SetColumns, ReflectionProofs

-----------------------------------------------------------------------------
(* Conversions.                                                            *)

LEMMA Quotient == \A n \in Nat \ {0}, x \in Nat : (x * n) \div n = x
    OBVIOUS

\* The casts between the types of one width undo each other.
LEMMA Casts == ASSUME NEW h \in Nat \ {0}
               PROVE  \A u \in 0..(2 * h - 1) :
                         /\ ToSigned(u, h) = IF u < h THEN u ELSE u - 2 * h
                         /\ ToSigned(u, h) \in (-h)..(h - 1)
                         /\ ToUnsigned(ToSigned(u, h), h) = u
<1> SUFFICES ASSUME NEW u \in 0..(2 * h - 1)
             PROVE  /\ ToSigned(u, h) = IF u < h THEN u ELSE u - 2 * h
                    /\ ToSigned(u, h) \in (-h)..(h - 1)
                    /\ ToUnsigned(ToSigned(u, h), h) = u
    OBVIOUS
<1> DEFINE m == 2 * h
<1>1. m \in Nat \ {0} /\ m = 2 * h
    OBVIOUS
<1> HIDE DEF m
<1>2. (u + h) % m = IF u < h THEN u + h ELSE u + h - m
    <2>1. CASE u < h
        BY <1>1, <2>1
    <2>2. CASE u >= h
        BY <1>1, <2>2
    <2> QED BY <2>1, <2>2
<1>3. ToSigned(u, h) = IF u < h THEN u ELSE u - m
    BY <1>1, <1>2 DEF ToSigned, m
<1>4. ToUnsigned(ToSigned(u, h), h) = u
    <2>1. ToUnsigned(ToSigned(u, h), h) = (IF u < h THEN u ELSE u - m) % m
        BY <1>3 DEF ToUnsigned, m
    <2>2. CASE u < h
        BY <1>1, <2>1, <2>2
    <2>3. CASE u >= h
        BY <1>1, <2>1, <2>3
    <2> QED BY <1>1, <2>2, <2>3
<1> QED BY <1>1, <1>3, <1>4

\* An unsigned value moves down by the weight of the sign bit, and back.
LEMMA Flipped == ASSUME NEW h \in Nat \ {0}
                 PROVE  \A u \in Unsigned(h) : /\ makeSigned(u, h) = u - h
                                                /\ makeUnsigned(u - h, h) = u
<1> SUFFICES ASSUME NEW u \in 0..(2 * h - 1)
             PROVE  makeSigned(u, h) = u - h /\ makeUnsigned(u - h, h) = u
    BY DEF Unsigned
<1> DEFINE m == 2 * h
<1>1. m \in Nat \ {0} /\ m = 2 * h
    OBVIOUS
<1> HIDE DEF m
<1>2. flipSignBit(u, h) = IF u < h THEN u + h ELSE u - h
    <2>1. flipSignBit(u, h) = (u + h) % m
        BY DEF flipSignBit, m
    <2>2. CASE u < h
        BY <1>1, <2>1, <2>2
    <2>3. CASE u >= h
        BY <1>1, <2>1, <2>3
    <2> QED BY <2>1, <2>2, <2>3
<1>3. makeSigned(u, h) = u - h
    <2> DEFINE w == flipSignBit(u, h)
    <2>1. w \in 0..(2 * h - 1)
        BY <1>1, <1>2
    <2>2. ToSigned(w, h) = IF w < h THEN w ELSE w - 2 * h
        BY <2>1, Casts
    <2> QED BY <1>1, <1>2, <2>2 DEF makeSigned
<1>4. makeUnsigned(u - h, h) = u
    <2> DEFINE w == (u - h) % m
    <2>1. w = IF u < h THEN u + h ELSE u - h
        <3>1. CASE u < h
            BY <1>1, <3>1
        <3>2. CASE u >= h
            BY <1>1, <3>2
        <3> QED BY <1>1, <3>1, <3>2
    <2>2. makeUnsigned(u - h, h) = (w + h) % m
        BY DEF makeUnsigned, flipSignBit, ToUnsigned, m
    <2> HIDE DEF w
    <2>3. (w + h) % m = u
        <3>1. CASE u < h
            BY <1>1, <2>1, <3>1
        <3>2. CASE u >= h
            BY <1>1, <2>1, <3>2
        <3> QED BY <1>1, <3>1, <3>2
    <2> QED BY <1>1, <2>2, <2>3
<1> QED BY <1>3, <1>4

\* A signed value is in its own type already.
LEMMA SignedCast == ASSUME NEW h \in Nat \ {0}
                    PROVE  \A v \in Signed(h) : ToSigned(v, h) = v
<1> SUFFICES ASSUME NEW v \in (-h)..(h - 1) PROVE ToSigned(v, h) = v
    BY DEF Signed
<1> DEFINE m == 2 * h
<1>1. m \in Nat \ {0} /\ m = 2 * h
    OBVIOUS
<1> HIDE DEF m
<1>2. (v + h) % m = v + h
    BY <1>1
<1> QED BY <1>2 DEF ToSigned, m

LEMMA Times == \A v \in Values("time") :
    /\ v * Tick \in Int
    /\ FromNanoseconds(v * Tick) = v
<1> SUFFICES ASSUME NEW v \in Int
             PROVE  v * Tick \in Int /\ FromNanoseconds(v * Tick) = v
    BY DEF Values, Signed
<1>1. Tick \in Nat \ {0}
    BY ConversionsAssumption
<1>2. CASE v >= 0
    <2>1. v * Tick >= 0
        BY <1>1, <1>2
    <2>2. (v * Tick) \div Tick = v
        BY <1>1, <1>2, Quotient
    <2> QED BY <1>1, <2>1, <2>2 DEF FromNanoseconds
<1>3. CASE v < 0
    <2>1. v * Tick < 0 /\ -(v * Tick) = (-v) * Tick
        BY <1>1, <1>3
    <2>2. ((-v) * Tick) \div Tick = -v
        BY <1>1, <1>3, Quotient
    <2> QED BY <1>1, <2>1, <2>2 DEF FromNanoseconds
<1> QED BY <1>2, <1>3

\* What bind stores for a value of a type, get makes that value again
\* (Bind.h:18-136, Get.h:18-140), at the ends of the ranges too.
THEOREM RoundTrip == \A t \in Types : \A v \in Values(t) : get(t, bind(t, v)) = v
<1> SUFFICES ASSUME NEW t \in Types, NEW v \in Values(t)
             PROVE  get(t, bind(t, v)) = v
    OBVIOUS
<1> USE ConversionsAssumption
<1>1. CASE t = "uint"
    <2>1. bind(t, v) = v - Half /\ makeUnsigned(v - Half, Half) = v /\ v - Half \in Int
        BY <1>1, Flipped DEF bind, Values, Unsigned
    <2> QED BY <1>1, <2>1 DEF get, Number
<1>2. CASE t = "word"
    <2>1. /\ bind(t, v) = v - NarrowHalf /\ makeUnsigned(v - NarrowHalf, NarrowHalf) = v
          /\ v - NarrowHalf \in Signed(NarrowHalf) /\ v - NarrowHalf \in Int
        BY <1>2, Flipped DEF bind, Values, Unsigned, Signed
    <2>2. ToSigned(v - NarrowHalf, NarrowHalf) = v - NarrowHalf
        BY <2>1, SignedCast
    <2> QED BY <1>2, <2>1, <2>2 DEF get, Number
<1>3. CASE t = "byte"
    <2>1. v \in 0..(2 * NarrowHalf - 1) /\ bind(t, v) = v
        BY <1>3 DEF bind, Values, Unsigned
    <2>2. ToUnsigned(ToSigned(v, NarrowHalf), NarrowHalf) = v
        BY <2>1, Casts
    <2> QED BY <1>3, <2>1, <2>2 DEF get, Number
<1>4. CASE t = "short"
    <2>1. v \in Signed(NarrowHalf) /\ v \in Int /\ bind(t, v) = v
        BY <1>4 DEF bind, Values, Signed
    <2>2. ToSigned(v, NarrowHalf) = v
        BY <2>1, SignedCast
    <2> QED BY <1>4, <2>1, <2>2 DEF get, Number
<1>5. CASE t = "decimal"
    <2>1. v \in 0..(2 * Half - 1) /\ bind(t, v) = ToSigned(v, Half)
        BY <1>5 DEF bind, Values, Unsigned
    <2>2. ToUnsigned(ToSigned(v, Half), Half) = v /\ ToSigned(v, Half) \in Int
        BY <2>1, Casts
    <2> QED BY <1>5, <2>1, <2>2 DEF get, Number
<1>6. CASE t = "time"
    <2>1. bind(t, v) = v * Tick /\ v * Tick \in Int /\ FromNanoseconds(v * Tick) = v
        BY <1>6, Times DEF bind
    <2> QED BY <1>6, <2>1 DEF get, Number
<1>7. CASE t \in {"blob", "optional"}
    BY <1>7 DEF get, bind, Values, Number, Signed
<1>8. CASE t \in {"int", "bool", "text"}
    <2>1. bind(t, v) = v /\ v \in Int /\ (t = "bool" => v \in {0, 1})
        BY <1>8 DEF bind, Values, Signed
    <2> QED BY <1>8, <2>1 DEF get, Number
<1> QED BY <1>1, <1>2, <1>3, <1>4, <1>5, <1>6, <1>7, <1>8 DEF Types, Integral

\* Two columns of one of these types compare as the values do, so that SQL may
\* compare and order what it stores (Helpers.h:30-34).
THEOREM Ordered ==
    \A t \in Integral \cup {"time"} : \A v, w \in Values(t) :
        bind(t, v) <= bind(t, w) <=> v <= w
<1> SUFFICES ASSUME NEW t \in Integral \cup {"time"}, NEW v \in Values(t), NEW w \in Values(t)
             PROVE  bind(t, v) <= bind(t, w) <=> v <= w
    OBVIOUS
<1> USE ConversionsAssumption
<1>1. CASE t = "uint"
    <2>1. bind(t, v) = v - Half /\ bind(t, w) = w - Half
        BY <1>1, Flipped DEF bind, Values
    <2> QED BY <1>1, <2>1 DEF Values, Unsigned
<1>2. CASE t = "word"
    <2>1. bind(t, v) = v - NarrowHalf /\ bind(t, w) = w - NarrowHalf
        BY <1>2, Flipped DEF bind, Values
    <2> QED BY <1>2, <2>1 DEF Values, Unsigned
<1>3. CASE t = "time"
    <2>1. v \in Int /\ w \in Int /\ Tick \in Nat \ {0}
        BY <1>3 DEF Values, Signed
    <2>2. v * Tick <= w * Tick <=> v <= w
        BY <2>1
    <2> QED BY <1>3, <2>2 DEF bind
<1>4. CASE t \in {"int", "short", "byte", "bool"}
    BY <1>4 DEF bind
<1> QED BY <1>1, <1>2, <1>3, <1>4 DEF Integral

-----------------------------------------------------------------------------
(* Fields and their numbers.                                               *)

LEMMA FieldsAre ==
    /\ Record \in Structs /\ IsFiniteSet(Fields)
    /\ N = Cardinality(Fields) /\ N \in Nat
<1>1. Record \in Structs
    BY SetColumnsAssumption
<1>2. IsFiniteSet(Fields)
    BY <1>1, LeavesTame DEF Tame, Fields
<1>3. N = Cardinality(Fields)
    BY <1>1, FieldCount DEF N, Fields
<1> QED BY <1>1, <1>2, <1>3, FS_CardinalityType

LEMMA NIsNat == N \in Nat
    BY FieldsAre

\* The three numberings are one.
Numbered ==
    /\ TypeIndex \in [Fields -> Numbers]
    /\ \A f, g \in Fields : TypeIndex[f] = TypeIndex[g] => f = g
    /\ ValueIndex = TypeIndex
    /\ \A f \in DOMAIN PointerIndex : f \in Fields /\ PointerIndex[f] = TypeIndex[f]

LEMMA NumberInAll ==
    ASSUME NEW f \in Fields
    PROVE  NumberIn(All(Record, 0).calls)[f] = Declared(Record, f)
<1> DEFINE calls == All(Record, 0).calls
<1>1. calls = Calls(Record, 0)
    BY DEF All, Walked
<1>2. \A g \in Fields : 0 + Declared(Record, g) = Declared(Record, g)
    BY FieldsAre, Distinct DEF Numbering, Fields
<1>3. calls = {<<g, Declared(Record, g)>> : g \in Fields}
    BY <1>1, <1>2 DEF Calls, Fields
<1> HIDE DEF calls
<1>4. \A n : <<f, n>> \in calls <=> n = Declared(Record, f)
    BY <1>3
<1>5. Declared(Record, f) \in {call[2] : call \in calls}
    <2>1. <<f, Declared(Record, f)>> \in calls
        BY <1>4
    <2> QED BY <2>1
<1>6. NumberIn(calls)[f] = CHOOSE n \in {call[2] : call \in calls} : <<f, n>> \in calls
    BY DEF NumberIn
<1>7. NumberIn(calls)[f] = Declared(Record, f)
    BY <1>4, <1>5, <1>6
<1> QED BY <1>7 DEF calls

LEMMA OneNumbering == Numbered
<1>1. forEachFieldType[Record][0] = All(Record, 0) /\ forEachFieldValue[Record][0] = All(Record, 0)
    BY FieldsAre, TypeWalk, ValueWalk
<1>2. TypeIndex = NumberIn(All(Record, 0).calls) /\ ValueIndex = NumberIn(All(Record, 0).calls)
    BY <1>1 DEF TypeIndex, ValueIndex
<1>3. DOMAIN TypeIndex = Fields /\ TypeIndex = [f \in Fields |-> TypeIndex[f]]
    <2> DEFINE calls == forEachFieldType[Record][0].calls
               number(f) == CHOOSE n \in {call[2] : call \in calls} : <<f, n>> \in calls
    <2>1. TypeIndex = [f \in Fields |-> number(f)]
        BY Zenon DEF TypeIndex, NumberIn
    <2> HIDE DEF number
    <2> QED BY <2>1
<1>4. \A f \in Fields : TypeIndex[f] = Declared(Record, f)
    BY <1>2, NumberInAll
<1>5. Numbering(Record) /\ Numbers = 0..(Cardinality(Fields) - 1)
    BY FieldsAre, Distinct DEF Numbers
<1>6. \A f \in Fields : TypeIndex[f] \in Numbers
    BY <1>4, <1>5 DEF Numbering, Fields
<1>7. TypeIndex \in [Fields -> Numbers]
    BY <1>3, <1>6
<1>8. \A f, g \in Fields : TypeIndex[f] = TypeIndex[g] => f = g
    BY <1>4, <1>5 DEF Numbering, Fields
<1>9. ASSUME NEW f \in DOMAIN PointerIndex PROVE f \in Fields /\ PointerIndex[f] = TypeIndex[f]
    <2>1. PICK i \in DOMAIN Record : ~Record[i].nested /\ f = <<i>>
        BY DEF PointerIndex
    <2>2. PointerIndex[f] = findTransparentFieldIndex(Record, i)
        BY <2>1 DEF PointerIndex
    <2>3. f \in Fields /\ findTransparentFieldIndex(Record, i) = Declared(Record, f)
        BY <2>1, FieldsAre, Members, PointerNumber DEF Fields
    <2> QED BY <1>4, <2>2, <2>3
<1> QED BY <1>2, <1>7, <1>8, <1>9 DEF Numbered

LEMMA FieldOfNumber ==
    ASSUME Numbered, NEW f \in Fields
    PROVE  /\ TypeIndex[f] \in Numbers /\ TypeIndex[f] \in Int
           /\ TypeIndex[f] + 1 \in 1..N
           /\ FieldNumbered[TypeIndex[f]] = f
           /\ ColumnNumbered[ValueIndex[f]] = f
<1>1. /\ TypeIndex[f] \in Numbers /\ TypeIndex[f] \in Int
      /\ TypeIndex[f] + 1 \in 1..N
    BY NIsNat DEF Numbered, Numbers
<1>2. FieldNumbered[TypeIndex[f]] = f
    <2>1. FieldNumbered[TypeIndex[f]] = CHOOSE g \in Fields : ValueIndex[g] = TypeIndex[f]
        BY <1>1 DEF FieldNumbered
    <2>2. \A g \in Fields : ValueIndex[g] = TypeIndex[f] => g = f
        BY DEF Numbered
    <2>3. ValueIndex[f] = TypeIndex[f]
        BY DEF Numbered
    <2> QED BY <2>1, <2>2, <2>3
<1>3. ColumnNumbered[ValueIndex[f]] = f
    <2>1. ColumnNumbered[ValueIndex[f]] = CHOOSE g \in Fields : TypeIndex[g] = ValueIndex[f]
        BY <1>1 DEF ColumnNumbered, Numbered
    <2>2. \A g \in Fields : TypeIndex[g] = ValueIndex[f] => g = f
        BY DEF Numbered
    <2>3. TypeIndex[f] = ValueIndex[f]
        BY DEF Numbered
    <2> QED BY <2>1, <2>2, <2>3
<1> QED BY <1>1, <1>2, <1>3

LEMMA NumberOfField ==
    ASSUME Numbered, NEW n \in Numbers
    PROVE  \E f \in Fields : TypeIndex[f] = n
<1>1. IsFiniteSet(Numbers) /\ Cardinality(Numbers) = N
    BY NIsNat, FS_Interval DEF Numbers
<1>2. TypeIndex \in Injection(Fields, Numbers)
    BY DEF Numbered, Injection, IsInjective
<1>3. TypeIndex \in Surjection(Fields, Numbers)
    BY <1>1, <1>2, FieldsAre, FS_Injection
<1> QED BY <1>3 DEF Surjection

\* A tuple of member pointers, as every Set, Updater and index has one.
LEMMA Tuples ==
    ASSUME Numbered, NEW ptrs \in KeyTuples \cup {UpdaterPtrs, IndexPtrs}
    PROVE  /\ ptrs \in Seq(DOMAIN PointerIndex)
           /\ Len(ptrs) \in Nat /\ DOMAIN ptrs = 1..Len(ptrs)
           /\ \A i \in DOMAIN ptrs : ptrs[i] \in Fields /\ IndicesOf(ptrs)[i] = TypeIndex[ptrs[i]]
           /\ DOMAIN IndicesOf(ptrs) = DOMAIN ptrs
           /\ \A i, j \in DOMAIN ptrs : ptrs[i] = ptrs[j] => i = j
<1>1. ptrs \in Seq(DOMAIN PointerIndex) /\ Injective(ptrs)
    BY SetColumnsAssumption
<1>2. \A i \in DOMAIN ptrs : ptrs[i] \in DOMAIN PointerIndex
    BY <1>1
<1> QED BY <1>1, <1>2 DEF Injective, IndicesOf, Numbered

\* The place of a field in a filter made from a tuple is its place in the tuple.
LEMMA Places ==
    ASSUME Numbered, NEW ptrs \in KeyTuples \cup {UpdaterPtrs, IndexPtrs}
    PROVE  /\ \A i \in DOMAIN ptrs : /\ contains(IndicesOf(ptrs), TypeIndex[ptrs[i]])
                                     /\ index_of(IndicesOf(ptrs), TypeIndex[ptrs[i]]) = i
           /\ \A f \in Fields : contains(IndicesOf(ptrs), TypeIndex[f]) => \E i \in DOMAIN ptrs : f = ptrs[i]
<1> DEFINE filter == IndicesOf(ptrs)
<1>1. /\ DOMAIN filter = DOMAIN ptrs
      /\ \A i \in DOMAIN ptrs : ptrs[i] \in Fields /\ filter[i] = TypeIndex[ptrs[i]]
      /\ \A i, j \in DOMAIN ptrs : ptrs[i] = ptrs[j] => i = j
    BY Tuples
<1>2. \A f, g \in Fields : TypeIndex[f] = TypeIndex[g] => f = g
    BY DEF Numbered
<1> HIDE DEF filter
<1>3. ASSUME NEW i \in DOMAIN ptrs
      PROVE  /\ contains(filter, TypeIndex[ptrs[i]])
             /\ index_of(filter, TypeIndex[ptrs[i]]) = i
    <2>1. \A j \in DOMAIN filter : filter[j] = TypeIndex[ptrs[i]] => j = i
        BY <1>1, <1>2
    <2>2. i \in DOMAIN filter /\ filter[i] = TypeIndex[ptrs[i]]
        BY <1>1
    <2> QED BY <2>1, <2>2 DEF contains, index_of
<1>4. ASSUME NEW f \in Fields, contains(filter, TypeIndex[f])
      PROVE  \E i \in DOMAIN ptrs : f = ptrs[i]
    <2>1. PICK i \in DOMAIN filter : filter[i] = TypeIndex[f]
        BY <1>4 DEF contains
    <2> QED BY <2>1, <1>1, <1>2
<1> QED BY <1>3, <1>4 DEF filter

\* The numbers below n that are not in the filter, in ascending order.
Ascending(s, filter, n) ==
    /\ s \in Seq(Numbers)
    /\ \A i, j \in DOMAIN s : i < j => s[i] < s[j]
    /\ \A m \in Numbers : contains(s, m) <=> m < n /\ ~contains(filter, m)

LEMMA OneMore ==
    ASSUME NEW filter, NEW n \in 1..N, NEW s, Ascending(s, filter, n - 1)
    PROVE  Ascending(IF contains(filter, n - 1) THEN s ELSE Append(s, n - 1), filter, n)
<1>1. /\ s \in Seq(Numbers) /\ Len(s) \in Nat /\ DOMAIN s = 1..Len(s)
      /\ \A i, j \in DOMAIN s : i < j => s[i] < s[j]
      /\ \A m \in Numbers : contains(s, m) <=> m < n - 1 /\ ~contains(filter, m)
    BY DEF Ascending
<1>2. n - 1 \in Numbers /\ n \in Nat /\ \A m \in Numbers : m \in Nat /\ (m < n <=> m < n - 1 \/ m = n - 1)
    BY NIsNat DEF Numbers
<1>3. CASE contains(filter, n - 1)
    <2>1. \A m \in Numbers : contains(s, m) <=> m < n /\ ~contains(filter, m)
        BY <1>1, <1>2, <1>3
    <2> QED BY <1>1, <1>3, <2>1 DEF Ascending
<1>4. CASE ~contains(filter, n - 1)
    <2> DEFINE r == Append(s, n - 1)
    <2>1. /\ r \in Seq(Numbers) /\ DOMAIN r = 1..(Len(s) + 1)
          /\ r[Len(s) + 1] = n - 1 /\ \A i \in 1..Len(s) : r[i] = s[i]
        BY <1>1, <1>2
    <2> HIDE DEF r
    <2>2. \A i \in 1..Len(s) : s[i] \in Numbers /\ s[i] < n - 1
        <3> SUFFICES ASSUME NEW i \in 1..Len(s) PROVE s[i] \in Numbers /\ s[i] < n - 1
            OBVIOUS
        <3>1. s[i] \in Numbers
            BY <1>1
        <3>2. contains(s, s[i])
            BY <1>1 DEF contains
        <3> QED BY <1>1, <3>1, <3>2
    <2>3. ASSUME NEW i \in DOMAIN r, NEW j \in DOMAIN r, i < j PROVE r[i] < r[j]
        <3>1. i \in 1..Len(s) /\ (j \in 1..Len(s) \/ j = Len(s) + 1)
            BY <1>1, <2>1, <2>3
        <3>2. CASE j \in 1..Len(s)
            BY <1>1, <2>1, <2>3, <3>1, <3>2
        <3>3. CASE j = Len(s) + 1
            BY <2>1, <2>2, <3>1, <3>3
        <3> QED BY <3>1, <3>2, <3>3
    <2>4. ASSUME NEW m \in Numbers PROVE contains(r, m) <=> m < n /\ ~contains(filter, m)
        <3>1. contains(r, m) <=> contains(s, m) \/ m = n - 1
            <4>1. DOMAIN r = DOMAIN s \cup {Len(s) + 1}
                BY <1>1, <2>1
            <4> QED BY <1>1, <2>1, <4>1 DEF contains
        <3> QED BY <1>1, <1>2, <1>4, <3>1
    <2>5. Ascending(r, filter, n)
        BY <2>1, <2>3, <2>4 DEF Ascending
    <2> QED BY <1>4, <2>5 DEF r
<1> QED BY <1>3, <1>4

LEMMA RemainingAscend ==
    ASSUME NEW filter
    PROVE  Ascending(Remaining(filter), filter, N)
<1> DEFINE D == 0..N
           V == Seq(Numbers)
           mu == [n \in D |-> n]
           In(g, n) == IF contains(filter, n - 1) THEN g[n - 1] ELSE Append(g[n - 1], n - 1)
           Phi == [g \in [D -> V] |-> [n \in D |-> IF n = 0 THEN <<>> ELSE In(g, n)]]
<1>1. N \in Nat /\ \A n \in D : n # 0 => n \in 1..N /\ n - 1 \in D /\ n - 1 \in Numbers /\ n - 1 < n
    BY NIsNat DEF Numbers
<1>2. ASSUME NEW g \in [D -> V], NEW n \in D PROVE (IF n = 0 THEN <<>> ELSE In(g, n)) \in V
    <2>1. CASE n = 0
        BY <2>1
    <2>2. CASE n # 0
        <3>1. g[n - 1] \in V /\ n - 1 \in Numbers
            BY <1>1, <2>2
        <3>2. Append(g[n - 1], n - 1) \in V
            BY <3>1
        <3> QED BY <2>2, <3>1, <3>2
    <2> QED BY <2>1, <2>2
<1>3. Phi \in [[D -> V] -> [D -> V]]
    <2> HIDE DEF In, V, D
    <2> QED BY <1>2
<1>4. Causal(Phi, D, V, mu)
    <2> SUFFICES ASSUME NEW g \in [D -> V], NEW h \in [D -> V], NEW n \in D, Agree(g, h, D, mu, mu[n])
                 PROVE  Phi[g][n] = Phi[h][n]
        BY DEF Causal
    <2>1. n # 0 => g[n - 1] = h[n - 1]
        BY <1>1 DEF Agree
    <2>2. n # 0 => In(g, n) = In(h, n)
        BY <2>1
    <2> HIDE DEF In, V, D
    <2> QED BY <2>2
<1>5. V # {} /\ mu \in [D -> Nat]
    <2>1. <<>> \in V
        OBVIOUS
    <2>2. \A n \in D : n \in Nat
        BY <1>1
    <2> HIDE DEF V, D
    <2> QED BY <2>1, <2>2
<1>6. \E g \in [D -> V] : g = Phi[g]
    <2> HIDE DEF Phi, V, D, mu
    <2>1. Recursive(Phi, D, V, mu)
        BY <1>3, <1>4, <1>5 DEF Recursive
    <2>2. Solutions(Phi, D, V) # {}
        BY <2>1, Recursion
    <2> QED BY <2>2 DEF Solutions
<1> DEFINE Steps(g) == g = [n \in 0..N |-> IF n = 0 THEN <<>> ELSE In(g, n)]
<1>7. \E g : Steps(g)
    <2> HIDE DEF In, V
    <2> QED BY <1>6
<1>8. PICK h : Steps(h) /\ Remaining(filter) = h[N]
    BY <1>7, Zenon DEF Remaining
<1> DEFINE Good == {n \in 0..N : Ascending(h[n], filter, n)}
<1>9. 0 \in Good
    <2>1. h[0] = <<>> /\ 0 \in 0..N
        BY <1>1, <1>8
    <2>2. Ascending(<<>>, filter, 0)
        BY <1>1 DEF Ascending, contains, Numbers
    <2> QED BY <2>1, <2>2
<1>10. ASSUME NEW n \in 1..N, n - 1 \in Good PROVE n \in Good
    <2>1. n # 0 /\ n \in 0..N
        BY <1>1
    <2>2. h[n] = In(h, n)
        <3> HIDE DEF In
        <3> QED BY <1>8, <2>1
    <2>3. Ascending(h[n - 1], filter, n - 1)
        BY <1>10
    <2> QED BY <2>1, <2>2, <2>3, OneMore
<1> HIDE DEF Good
<1>11. 0..N \subseteq Good
    BY <1>1, <1>9, <1>10, UpTo
<1> QED BY <1>1, <1>8, <1>11 DEF Good

FiltersAscend ==
    \A ptrs \in KeyTuples : LET filter == valueFilterOf[ptrs] IN
        /\ filter \in Seq(Numbers)
        /\ \A i, j \in DOMAIN filter : i < j => filter[i] < filter[j]
        /\ \A n \in Numbers : contains(filter, n) <=> ~contains(idIndicesOf[ptrs], n)

\* The value filter of a Set has the numbers that are not keys, ascending.
LEMMA FilterOrder == FiltersAscend
<1> SUFFICES ASSUME NEW ptrs \in KeyTuples
             PROVE  LET filter == valueFilterOf[ptrs] IN
                    /\ filter \in Seq(Numbers)
                    /\ \A i, j \in DOMAIN filter : i < j => filter[i] < filter[j]
                    /\ \A n \in Numbers : contains(filter, n) <=> ~contains(idIndicesOf[ptrs], n)
    BY DEF FiltersAscend
<1>1. Ascending(valueFilterOf[ptrs], idIndicesOf[ptrs], N)
    BY RemainingAscend DEF valueFilterOf
<1>2. \A n \in Numbers : n < N
    BY NIsNat DEF Numbers
<1> QED BY <1>1, <1>2 DEF Ascending

\* An INSERT with the value filter has the parameter of each column after all:
\* there are as many columns before it as there are numbers before its own.
LEMMA InsertedInOrder ==
    ASSUME Numbered, FiltersAscend, NEW ptrs \in KeyTuples, NEW f \in Fields,
           ~contains(idIndicesOf[ptrs], TypeIndex[f])
    PROVE  Inserted(valueFilterOf[ptrs])[f] = TypeIndex[f] + 1
<1> DEFINE filter == valueFilterOf[ptrs]
           before == {g \in Columns(filter) : TypeIndex[g] < TypeIndex[f]}
<1>1. /\ filter \in Seq(Numbers)
      /\ \A i, j \in DOMAIN filter : i < j => filter[i] < filter[j]
      /\ contains(filter, TypeIndex[f])
    BY FieldOfNumber DEF FiltersAscend
<1>2. \A g \in Fields : TypeIndex[g] \in Numbers
    BY DEF Numbered
<1>3. \A g, h \in Fields : TypeIndex[g] = TypeIndex[h] => g = h
    BY DEF Numbered
<1>4. Numbers \subseteq Int
    BY NIsNat DEF Numbers
<1>5. Inserted(filter)[f] = filter[1 + Cardinality(before)] + 1
    BY <1>1 DEF Inserted, Columns
<1> HIDE DEF filter
<1>6. PICK i \in DOMAIN filter : filter[i] = TypeIndex[f]
    BY <1>1 DEF contains
<1>7. i \in Nat \ {0} /\ \A j \in 1..(i - 1) : j \in DOMAIN filter /\ filter[j] \in Numbers
    BY <1>1, <1>6
<1>8. Cardinality(before) = i - 1
    <2> DEFINE column == [j \in 1..(i - 1) |-> CHOOSE g \in Fields : TypeIndex[g] = filter[j]]
    <2>1. \A j \in 1..(i - 1) : column[j] \in Fields /\ TypeIndex[column[j]] = filter[j]
        BY <1>7, NumberOfField
    <2> HIDE DEF column
    <2>2. \A j \in 1..(i - 1) : column[j] \in before
        <3> SUFFICES ASSUME NEW j \in 1..(i - 1) PROVE column[j] \in before
            OBVIOUS
        <3>1. j \in DOMAIN filter /\ filter[j] < filter[i]
            BY <1>1, <1>6, <1>7
        <3>2. contains(filter, TypeIndex[column[j]])
            BY <2>1, <3>1 DEF contains
        <3> QED BY <1>6, <2>1, <3>1, <3>2 DEF Columns
    <2>3. \A j, k \in 1..(i - 1) : column[j] = column[k] => j = k
        <3> SUFFICES ASSUME NEW j \in 1..(i - 1), NEW k \in 1..(i - 1), column[j] = column[k]
                     PROVE  j = k
            OBVIOUS
        <3>1. filter[j] = filter[k] /\ filter[j] \in Int /\ filter[k] \in Int
            BY <1>4, <1>7, <2>1
        <3>2. j \in DOMAIN filter /\ k \in DOMAIN filter
            BY <1>7
        <3> QED BY <1>1, <3>1, <3>2
    <2>4. \A g \in before : \E j \in 1..(i - 1) : column[j] = g
        <3> SUFFICES ASSUME NEW g \in before PROVE \E j \in 1..(i - 1) : column[j] = g
            OBVIOUS
        <3>1. g \in Fields /\ contains(filter, TypeIndex[g]) /\ TypeIndex[g] < TypeIndex[f]
            BY DEF Columns
        <3>2. PICK j \in DOMAIN filter : filter[j] = TypeIndex[g]
            BY <3>1 DEF contains
        <3>3. j < i
            <4>1. filter[j] < filter[i] /\ filter[j] \in Int /\ filter[i] \in Int
                BY <1>2, <1>4, <1>6, <3>1, <3>2
            <4> QED BY <1>1, <1>6, <3>2, <4>1
        <3>4. j \in 1..(i - 1)
            BY <1>1, <1>6, <3>2, <3>3
        <3> QED BY <1>3, <2>1, <3>1, <3>2, <3>4
    <2>5. column \in Bijection(1..(i - 1), before)
        <3>1. column \in [1..(i - 1) -> before]
            BY <2>2 DEF column
        <3> QED BY <2>3, <2>4, <3>1 DEF Bijection, Injection, Surjection, IsInjective
    <2>6. ExistsBijection(1..(i - 1), before)
        BY <2>5, Zenon DEF ExistsBijection
    <2>7. i - 1 \in Nat
        BY <1>7
    <2> HIDE DEF before
    <2> QED BY <2>6, <2>7, FS_CountingElements
<1>9. filter[1 + Cardinality(before)] = TypeIndex[f]
    BY <1>6, <1>7, <1>8
<1> QED BY <1>5, <1>9 DEF filter

-----------------------------------------------------------------------------
(* Columns.                                                                *)

\* What is in a column is what some value of the type is stored as.
Stores(t, x) == \E v \in Values(t) : x = bind(t, v)

\* Only optionals and blobs become NULL.
LEMMA NotNull ==
    ASSUME NEW t \in Types, ~AllowsNull(t), NEW x, Stores(t, x)
    PROVE  x \in Int
<1>1. PICK v \in Values(t) : x = bind(t, v)
    BY DEF Stores
<1> USE ConversionsAssumption
<1>2. CASE t = "uint"
    BY <1>1, <1>2, Flipped DEF bind, Values, Unsigned
<1>3. CASE t = "word"
    BY <1>1, <1>3, Flipped DEF bind, Values, Unsigned
<1>4. CASE t = "decimal"
    BY <1>1, <1>4, Casts DEF bind, Values, Unsigned
<1>5. CASE t = "time"
    BY <1>1, <1>5, Times DEF bind
<1>6. CASE t \in {"int", "short", "byte", "bool", "text"}
    BY <1>1, <1>6 DEF bind, Values, Signed, Unsigned
<1> QED BY <1>2, <1>3, <1>4, <1>5, <1>6 DEF Types, Integral, AllowsNull

LEMMA Column ==
    ASSUME NEW t \in Types, NEW x, Stores(t, x)
    PROVE  /\ x # Left
           /\ get(t, x) \in Values(t)
           /\ x = bind(t, get(t, x))
<1>1. PICK v \in Values(t) : x = bind(t, v)
    BY DEF Stores
<1>2. get(t, x) = v
    BY <1>1, RoundTrip
<1>3. x \in Int \cup {Null}
    <2>1. CASE t \in {"blob", "optional"}
        BY <1>1, <2>1 DEF bind, Values, Signed
    <2>2. CASE ~AllowsNull(t)
        BY <2>2, NotNull
    <2> QED BY <2>1, <2>2 DEF AllowsNull
<1> QED BY <1>1, <1>2, <1>3, SetColumnsAssumption

\* The row ids are values of a 64-bit type, as far as they are not negative.
LEMMA WideIds ==
    ASSUME NEW t \in {"int", "uint"}
    PROVE  /\ \A id \in 0..(Half - 1) : Stores(t, id)
           /\ \A x : Stores(t, x) => x \in Signed(Half)
<1>1. Half \in Nat \ {0}
    BY ConversionsAssumption
<1>2. CASE t = "int"
    BY <1>1, <1>2 DEF Stores, Values, Signed, bind
<1>3. CASE t = "uint"
    <2>1. \A v \in Unsigned(Half) : bind(t, v) = v - Half
        BY <1>1, <1>3, Flipped DEF bind
    <2>2. Values(t) = Unsigned(Half)
        BY <1>3 DEF Values
    <2>3. \A v \in Unsigned(Half) : v - Half \in Signed(Half)
        BY <1>1 DEF Signed, Unsigned
    <2>4. ASSUME NEW id \in 0..(Half - 1) PROVE Stores(t, id)
        <3>1. id + Half \in Unsigned(Half) /\ (id + Half) - Half = id
            BY <1>1 DEF Unsigned
        <3> QED BY <2>1, <2>2, <3>1 DEF Stores
    <2> QED BY <2>1, <2>2, <2>3, <2>4 DEF Stores
<1> QED BY <1>2, <1>3

\* With a row id those before it are values of the type.
LEMMA Downward ==
    ASSUME NEW t \in Integral, NEW n \in Nat, Stores(t, n), NEW m \in 0..n
    PROVE  Stores(t, m)
<1> USE ConversionsAssumption
<1>1. PICK v \in Values(t) : n = bind(t, v)
    BY DEF Stores
<1>2. CASE t = "uint"
    <2>1. v \in Unsigned(Half) /\ n = v - Half
        BY <1>1, <1>2, Flipped DEF bind, Values
    <2>2. m + Half \in Unsigned(Half) /\ (m + Half) - Half = m
        BY <2>1 DEF Unsigned
    <2>3. m + Half \in Values(t) /\ bind(t, m + Half) = m
        BY <1>2, <2>2, Flipped DEF bind, Values
    <2> QED BY <2>3 DEF Stores
<1>3. CASE t = "word"
    <2>1. v \in Unsigned(NarrowHalf) /\ n = v - NarrowHalf
        BY <1>1, <1>3, Flipped DEF bind, Values
    <2>2. m + NarrowHalf \in Unsigned(NarrowHalf) /\ (m + NarrowHalf) - NarrowHalf = m
        BY <2>1 DEF Unsigned
    <2>3. m + NarrowHalf \in Values(t) /\ bind(t, m + NarrowHalf) = m
        BY <1>3, <2>2, Flipped DEF bind, Values
    <2> QED BY <2>3 DEF Stores
<1>4. CASE t \in {"int", "short", "byte", "bool"}
    <2>1. v = n
        BY <1>1, <1>4 DEF bind
    <2>2. m \in Values(t) /\ bind(t, m) = m
        BY <1>4, <2>1 DEF bind, Values, Signed, Unsigned
    <2> QED BY <2>2 DEF Stores
<1> QED BY <1>2, <1>3, <1>4 DEF Integral

\* Binding.
LEMMA Bound ==
    ASSUME Numbered, NEW v, NEW chosen, NEW f \in Fields, TypeIndex[f] \in chosen
    PROVE  bindValue(v, chosen)[TypeIndex[f] + 1] = bind(TypeOf[f], v[f])
<1>1. /\ TypeIndex[f] + 1 \in 1..N /\ TypeIndex[f] \in Int
      /\ FieldNumbered[TypeIndex[f]] = f
    BY FieldOfNumber
<1>2. (TypeIndex[f] + 1) - 1 = TypeIndex[f]
    BY <1>1
<1> QED BY <1>1, <1>2 DEF bindValue

LEMMA BoundKey ==
    ASSUME Numbered, idPtrs \in KeyTuples, NEW k, NEW i \in DOMAIN idPtrs
    PROVE  bindKey(k)[TypeIndex[idPtrs[i]] + 1] = bind(TypeOf[idPtrs[i]], k[i])
<1>1. /\ idPtrs[i] \in Fields
      /\ contains(idIndices, TypeIndex[idPtrs[i]])
      /\ index_of(idIndices, TypeIndex[idPtrs[i]]) = i
    <2>1. idIndices = IndicesOf(idPtrs)
        BY DEF idIndices, idIndicesOf
    <2> QED BY <2>1, Tuples, Places
<1>2. /\ TypeIndex[idPtrs[i]] + 1 \in 1..N
      /\ (TypeIndex[idPtrs[i]] + 1) - 1 = TypeIndex[idPtrs[i]]
    BY <1>1, FieldOfNumber
<1> QED BY <1>1, <1>2 DEF bindKey

LEMMA Reading ==
    ASSUME Numbered, NEW row, NEW f \in Fields
    PROVE  Read(row)[f] = get(TypeOf[f], row[f])
BY FieldOfNumber DEF Read

\* A row of the table.
RowOK(row) ==
    /\ row = [f \in Fields |-> row[f]]
    /\ \A f \in Fields : Stores(TypeOf[f], row[f])

\* A structure whose fields have values of their types.
Valued(v) == \A f \in Fields : v[f] \in Values(TypeOf[f])

LEMMA GivenValued == \A v \in Given : v = [f \in Fields |-> v[f]] /\ Valued(v)
    BY SetColumnsAssumption DEF Valued

LEMMA TypeOfField == \A f \in Fields : TypeOf[f] \in Types
    BY SetColumnsAssumption

ColumnsInv ==
    /\ idPtrs \in KeyTuples
    /\ sequence \in Nat
    /\ \A row \in table : RowOK(row)

\* What holds whatever row ids are given out.
Basics == idPtrs \in KeyTuples /\ sequence \in Nat

\* The row that an insert of a whole value makes.
LEMMA WholeRow ==
    ASSUME Numbered, NEW v, Valued(v)
    PROVE  LET row == [f \in Fields |-> bindAll(v)[InsertedAll[f]]] IN
           /\ RowOK(row)
           /\ \A f \in Fields : row[f] = bind(TypeOf[f], v[f])
<1> DEFINE row == [f \in Fields |-> bindAll(v)[InsertedAll[f]]]
<1>1. ASSUME NEW f \in Fields PROVE row[f] = bind(TypeOf[f], v[f])
    <2>1. TypeIndex[f] \in Numbers /\ InsertedAll[f] = TypeIndex[f] + 1
        BY FieldOfNumber DEF InsertedAll
    <2>2. bindAll(v)[TypeIndex[f] + 1] = bind(TypeOf[f], v[f])
        BY <2>1, Bound DEF bindAll
    <2> QED BY <2>1, <2>2
<1>2. row = [f \in Fields |-> row[f]]
    OBVIOUS
<1> HIDE DEF row
<1>3. RowOK(row)
    BY <1>1, <1>2 DEF RowOK, Stores, Valued
<1> QED BY <1>1, <1>3 DEF row

\* The parameters that an UPDATE is run with: where it sets a column, they hold
\* what a value is stored as.
Sets(at, b) == \A f \in DOMAIN at \cap Fields : Stores(TypeOf[f], b[at[f]])

LEMMA Inserting ==
    ASSUME Numbered, ColumnsInv, NEW op, NEW v, Valued(v), NEW done, NEW clash, Inserts(op, v, done, clash)
    PROVE  ColumnsInv'
<1> DEFINE row == [f \in Fields |-> bindAll(v)[InsertedAll[f]]]
<1>1. RowOK(row)
    BY WholeRow
<1> HIDE DEF row
<1>2. CASE Unchanged
    BY <1>2 DEF ColumnsInv, Unchanged, RowOK
<1>3. CASE Stored(row)
    <2>1. idPtrs' = idPtrs /\ table' = table \cup {row}
        BY <1>3 DEF Stored
    <2>2. sequence' \in Nat
        <3>1. CASE HasId(idPtrs)
            <4>1. /\ 1 \in DOMAIN idPtrs /\ idPtrs[1] \in Fields
                  /\ ~AllowsNull(TypeOf[idPtrs[1]])
                BY <3>1, Tuples, SetColumnsAssumption DEF ColumnsInv, HasId
            <4>2. row[idPtrs[1]] \in Int
                BY <1>1, <4>1, NotNull, TypeOfField DEF RowOK
            <4> QED BY <1>3, <3>1, <4>2 DEF Stored, Greater, ColumnsInv
        <3> QED BY <1>3, <3>1 DEF Stored, ColumnsInv
    <2> QED BY <1>1, <2>1, <2>2 DEF ColumnsInv, RowOK
<1> QED BY <1>2, <1>3 DEF Inserts, row

LEMMA Updating ==
    ASSUME Numbered, ColumnsInv, NEW op, NEW k, NEW v, NEW at, NEW b, Sets(at, b), Update(op, k, v, at, b)
    PROVE  ColumnsInv'
<1> DEFINE Changed(row) == [f \in Fields |-> IF f \in DOMAIN at THEN b[at[f]] ELSE row[f]]
<1>1. ASSUME NEW row, RowOK(row) PROVE RowOK(Changed(row))
    <2>1. \A f \in Fields : Stores(TypeOf[f], Changed(row)[f])
        BY <1>1 DEF RowOK, Sets
    <2> QED BY <2>1 DEF RowOK
<1>2. Where(b) \subseteq table
    BY DEF Where, Matching
<1> HIDE DEF Changed
<1>3. CASE Unchanged
    BY <1>3 DEF ColumnsInv, Unchanged, RowOK
<1>4. CASE /\ table' = (table \ Where(b)) \cup {Changed(row) : row \in Where(b)}
           /\ UNCHANGED <<idPtrs, sequence>>
    BY <1>1, <1>2, <1>4 DEF ColumnsInv
<1> QED BY <1>3, <1>4 DEF Update, Changed

\* A field that a filter made from a tuple does not contain, or does.
LEMMA QueryColumns ==
    ASSUME Numbered, FiltersAscend, idPtrs \in KeyTuples
    PROVE  /\ query.set = [f \in {g \in Fields : ~contains(idIndices, TypeIndex[g])} |-> TypeIndex[f] + 1]
           /\ query.where = [f \in {g \in Fields : contains(idIndices, TypeIndex[g])} |-> TypeIndex[f] + 1]
           /\ UpdaterQuery = [f \in {g \in Fields : contains(valueIndices, TypeIndex[g])} |-> TypeIndex[f] + 1]
<1>1. /\ query.set = Parametized(valueFilterOf[idPtrs])
      /\ query.where = Parametized(idIndicesOf[idPtrs])
    BY DEF query, Queries
<1>2. \A g \in Fields : contains(valueFilterOf[idPtrs], TypeIndex[g]) <=> ~contains(idIndicesOf[idPtrs], TypeIndex[g])
    BY FieldOfNumber DEF FiltersAscend
<1>3. Columns(valueFilterOf[idPtrs]) = {g \in Fields : ~contains(idIndices, TypeIndex[g])}
    BY <1>2 DEF Columns, idIndices
<1>4. Columns(idIndicesOf[idPtrs]) = {g \in Fields : contains(idIndices, TypeIndex[g])}
    BY DEF Columns, idIndices
<1> QED BY <1>1, <1>3, <1>4 DEF Parametized, UpdaterQuery, Columns

LEMMA SetsValue ==
    ASSUME Numbered, FiltersAscend, idPtrs \in KeyTuples, NEW v, Valued(v)
    PROVE  /\ Sets(query.set, bindAll(v))
           /\ Sets(UpdaterQuery, bindValue(v, Chosen(idIndices) \cup Chosen(valueIndices)))
<1>1. ASSUME NEW f \in Fields
      PROVE  Stores(TypeOf[f], bindAll(v)[TypeIndex[f] + 1])
    BY <1>1, Bound, FieldOfNumber DEF bindAll, Stores, Valued
<1>2. ASSUME NEW f \in Fields, contains(valueIndices, TypeIndex[f])
      PROVE  Stores(TypeOf[f], bindValue(v, Chosen(idIndices) \cup Chosen(valueIndices))[TypeIndex[f] + 1])
    <2>1. TypeIndex[f] \in Chosen(idIndices) \cup Chosen(valueIndices)
        BY <1>2, FieldOfNumber DEF Chosen
    <2> QED BY <1>2, <2>1, Bound DEF Stores, Valued
<1> QED BY <1>1, <1>2, QueryColumns DEF Sets

\* The parameters of Updater::update with tuples.
TupleBound(k, v) ==
    [p \in 1..N |->
       IF contains(valueIndices, p - 1)
       THEN LET i == index_of(valueIndices, p - 1) IN bind(TypeOf[UpdaterPtrs[i]], v[UpdaterPtrs[i]])
       ELSE bindKey(k)[p]]

LEMMA BoundTuple ==
    ASSUME Numbered, NEW k, NEW v, NEW f \in Fields
    PROVE  TupleBound(k, v)[TypeIndex[f] + 1] = IF contains(valueIndices, TypeIndex[f])
                                                THEN bind(TypeOf[f], v[f])
                                                ELSE bindKey(k)[TypeIndex[f] + 1]
<1>1. /\ TypeIndex[f] + 1 \in 1..N
      /\ (TypeIndex[f] + 1) - 1 = TypeIndex[f]
    BY FieldOfNumber
<1>2. CASE contains(valueIndices, TypeIndex[f])
    <2>1. PICK i \in DOMAIN UpdaterPtrs : f = UpdaterPtrs[i]
        BY <1>2, Places DEF valueIndices
    <2>2. index_of(valueIndices, TypeIndex[f]) = i
        BY <2>1, Places DEF valueIndices
    <2> QED BY <1>1, <1>2, <2>1, <2>2 DEF TupleBound
<1>3. CASE ~contains(valueIndices, TypeIndex[f])
    BY <1>1, <1>3 DEF TupleBound
<1> QED BY <1>2, <1>3

LEMMA SetsTuple ==
    ASSUME Numbered, FiltersAscend, idPtrs \in KeyTuples, NEW k, NEW v, Valued(v)
    PROVE  Sets(UpdaterQuery, TupleBound(k, v))
<1>1. ASSUME NEW f \in Fields, contains(valueIndices, TypeIndex[f])
      PROVE  Stores(TypeOf[f], TupleBound(k, v)[TypeIndex[f] + 1])
    BY <1>1, BoundTuple DEF Stores, Valued
<1> QED BY <1>1, QueryColumns DEF Sets

\* The row of AutoincrementSet::insert.
IdRow(v) ==
    [f \in Fields |-> IF f = idPtrs[1] THEN sequence + 1
                      ELSE bindValue(v, Chosen(valueFilter))[query.insert[f]]]

LEMMA RowOfId ==
    ASSUME Numbered, FiltersAscend, Basics, NEW v, Valued(v), HasId(idPtrs)
    PROVE  /\ idPtrs[1] \in Fields /\ IdRow(v)[idPtrs[1]] = sequence + 1
           /\ \A f \in Fields : f # idPtrs[1] => IdRow(v)[f] = bind(TypeOf[f], v[f])
           /\ Stores(TypeOf[idPtrs[1]], sequence + 1) => RowOK(IdRow(v))
           /\ ~Missing(IdRow(v))
<1> USE DEF Basics
<1>1. DOMAIN idPtrs = {1} /\ idPtrs[1] \in Fields
    BY Tuples DEF HasId
<1>2. IdRow(v)[idPtrs[1]] = sequence + 1
    BY <1>1 DEF IdRow
<1>3. ASSUME NEW f \in Fields, f # idPtrs[1] PROVE IdRow(v)[f] = bind(TypeOf[f], v[f])
    <2>1. ~contains(idIndicesOf[idPtrs], TypeIndex[f])
        BY <1>1, <1>3, Places DEF idIndicesOf
    <2>2. query.insert[f] = TypeIndex[f] + 1
        BY <2>1, InsertedInOrder DEF query, Queries
    <2>3. TypeIndex[f] \in Chosen(valueFilter)
        BY <2>1, FieldOfNumber DEF FiltersAscend, Chosen, valueFilter
    <2>4. bindValue(v, Chosen(valueFilter))[TypeIndex[f] + 1] = bind(TypeOf[f], v[f])
        BY <2>3, Bound
    <2> QED BY <1>3, <2>2, <2>4 DEF IdRow
<1>4. ASSUME Stores(TypeOf[idPtrs[1]], sequence + 1) PROVE RowOK(IdRow(v))
    <2>1. \A f \in Fields : Stores(TypeOf[f], IdRow(v)[f])
        BY <1>2, <1>3, <1>4 DEF Stores, Valued
    <2>2. IdRow(v) = [f \in Fields |-> IdRow(v)[f]]
        BY DEF IdRow
    <2> QED BY <2>1, <2>2 DEF RowOK
<1>5. ASSUME NEW f \in Fields, IdRow(v)[f] = Null, ~AllowsNull(TypeOf[f]) PROVE FALSE
    <2>1. CASE f = idPtrs[1]
        BY <1>2, <1>5, <2>1, ConversionsAssumption
    <2>2. CASE f # idPtrs[1]
        <3>1. Stores(TypeOf[f], Null)
            BY <1>3, <1>5, <2>2 DEF Stores, Valued
        <3> QED BY <1>5, <3>1, NotNull, TypeOfField, ConversionsAssumption
    <2> QED BY <2>1, <2>2
<1> QED BY <1>1, <1>2, <1>3, <1>4, <1>5 DEF Missing

\* The row ids that are given out are values of the id's type.
LEMMA NextFits ==
    ASSUME Numbered, ColumnsInv, IdsFit', NEW row, HasId(idPtrs), row[idPtrs[1]] = sequence + 1, Stored(row)
    PROVE  sequence' = sequence + 1 /\ Stores(TypeOf[idPtrs[1]], sequence + 1)
<1>1. idPtrs' = idPtrs /\ sequence' = Greater(sequence, sequence + 1)
    BY DEF Stored
<1>2. sequence' = sequence + 1
    BY <1>1 DEF Greater, ColumnsInv
<1>3. HasId(idPtrs')
    BY <1>1
<1> QED BY <1>1, <1>2, <1>3 DEF IdsFit, Stores

LEMMA InsertingId ==
    ASSUME Numbered, FiltersAscend, ColumnsInv, IdsFit', NEW v, Valued(v), insertWithoutId(v)
    PROVE  ColumnsInv'
<1>1. CASE Unchanged
    BY <1>1 DEF ColumnsInv, Unchanged, RowOK
<1>2. CASE Stored(IdRow(v))
    <2>1. HasId(idPtrs) /\ idPtrs[1] \in Fields
        BY Tuples DEF ColumnsInv, HasId, insertWithoutId
    <2>2. IdRow(v)[idPtrs[1]] = sequence + 1
        BY <2>1 DEF IdRow
    <2>3. sequence' = sequence + 1 /\ Stores(TypeOf[idPtrs[1]], sequence + 1)
        BY <1>2, <2>1, <2>2, NextFits
    <2>4. RowOK(IdRow(v))
        BY <2>1, <2>3, RowOfId DEF Basics, ColumnsInv
    <2>5. idPtrs' = idPtrs /\ table' = table \cup {IdRow(v)}
        BY <1>2 DEF Stored
    <2> QED BY <2>3, <2>4, <2>5 DEF ColumnsInv, RowOK
<1> QED BY <1>1, <1>2 DEF insertWithoutId, IdRow

LEMMA Deleting ==
    ASSUME ColumnsInv, NEW op, NEW k, NEW b, Delete(op, k, b)
    PROVE  ColumnsInv'
<1>1. idPtrs' = idPtrs /\ sequence' = sequence /\ table' \subseteq table
    BY DEF Delete, Unchanged
<1> QED BY <1>1 DEF ColumnsInv, RowOK

LEMMA Selecting ==
    ASSUME ColumnsInv, NEW k, NEW b, selectValue(k, b)
    PROVE  ColumnsInv'
BY DEF selectValue, Unchanged, ColumnsInv, RowOK

\* A Set keeps its tuple of member pointers.
LEMMA TupleStays == [Next]_vars => idPtrs' = idPtrs
    BY DEF Next, vars, ByKey, ByKeyFromValue, insert, tryinsert, update, updateValue, updateTuple,
           insertWithoutId, find, findKey, selectValue, deleteElement, deleteKey, tryDeleteRecord,
           tryDeleteKey, Inserts, Stored, Unchanged, Update, Delete

LEMMA ColumnsStart == Init => ColumnsInv /\ Basics
    BY DEF Init, ColumnsInv, Basics

LEMMA ColumnsStep ==
    ASSUME Numbered, FiltersAscend
    PROVE  ColumnsInv /\ IdsFit' /\ [Next]_vars => ColumnsInv'
<1> SUFFICES ASSUME ColumnsInv, IdsFit', [Next]_vars PROVE ColumnsInv'
    OBVIOUS
<1>1. idPtrs \in KeyTuples
    BY DEF ColumnsInv
<1>2. ASSUME NEW v \in Given, insert(v) PROVE ColumnsInv'
    BY <1>2, GivenValued, Inserting DEF insert
<1>3. ASSUME NEW v \in Given, tryinsert(v) PROVE ColumnsInv'
    BY <1>3, GivenValued, Inserting DEF tryinsert
<1>4. ASSUME NEW v \in Given, update(v) PROVE ColumnsInv'
    BY <1>1, <1>4, GivenValued, SetsValue, Updating DEF update
<1>5. ASSUME NEW v \in Given, updateValue(v) PROVE ColumnsInv'
    BY <1>1, <1>5, GivenValued, SetsValue, Updating DEF updateValue
<1>6. ASSUME NEW v \in Given, insertWithoutId(v) PROVE ColumnsInv'
    BY <1>6, GivenValued, InsertingId
<1>7. ASSUME NEW v \in Given, ByKeyFromValue(v) PROVE ColumnsInv'
    BY <1>7, Selecting, Deleting DEF ByKeyFromValue, find, deleteElement, tryDeleteRecord
<1>8. ASSUME NEW k \in Asked(idPtrs), ByKey(k) PROVE ColumnsInv'
    BY <1>8, Selecting, Deleting DEF ByKey, findKey, deleteKey, tryDeleteKey
<1>9. ASSUME NEW k \in Asked(idPtrs), NEW v \in Given, updateTuple(k, v) PROVE ColumnsInv'
    <2>1. Update("updater", k, v, UpdaterQuery, TupleBound(k, v))
        BY <1>9 DEF updateTuple, TupleBound
    <2> QED BY <1>1, <2>1, GivenValued, SetsTuple, Updating
<1>10. CASE UNCHANGED vars
    BY <1>10 DEF vars, ColumnsInv, RowOK
<1> QED BY <1>2, <1>3, <1>4, <1>5, <1>6, <1>7, <1>8, <1>9, <1>10 DEF Next

\* What a step makes of the sequence: it stays, or is raised to the key that a
\* row was given or to the next row id.
SequenceStep ==
    \/ sequence' = sequence
    \/ /\ HasId(idPtrs)
       /\ \E x \in Int : /\ sequence' = Greater(sequence, x)
                         /\ Stores(TypeOf[idPtrs[1]], x) \/ x \in Ids

LEMMA SequenceSteps ==
    ASSUME Numbered, FiltersAscend, Basics, [Next]_vars
    PROVE  SequenceStep
<1>1. ASSUME NEW v \in Given, Inserts("insert", v, "done", "throws") \/ Inserts("tryinsert", v, "true", "false")
      PROVE  SequenceStep
    <2>1. sequence' = sequence \/ \E row : RowOK(row) /\ Stored(row)
        BY <1>1, GivenValued, WholeRow DEF Inserts, Unchanged
    <2>2. ASSUME NEW row, RowOK(row), Stored(row), HasId(idPtrs) PROVE SequenceStep
        <3>1. /\ 1 \in DOMAIN idPtrs /\ idPtrs[1] \in Fields
              /\ ~AllowsNull(TypeOf[idPtrs[1]])
            <4>1. idPtrs \in KeyTuples /\ 1 \in DOMAIN idPtrs /\ idPtrs[1] \in Fields
                BY <2>2, Tuples DEF Basics, HasId
            <4> QED BY <4>1, SetColumnsAssumption
        <3>2. Stores(TypeOf[idPtrs[1]], row[idPtrs[1]]) /\ row[idPtrs[1]] \in Int
            BY <2>2, <3>1, NotNull, TypeOfField DEF RowOK
        <3> QED BY <2>2, <3>2 DEF Stored, SequenceStep
    <2> QED BY <2>1, <2>2 DEF Stored, SequenceStep
<1>2. ASSUME NEW v \in Given, insertWithoutId(v) PROVE SequenceStep
    <2>1. HasId(idPtrs) /\ IdRow(v)[idPtrs[1]] = sequence + 1
        BY <1>2, GivenValued, RowOfId DEF insertWithoutId
    <2>2. sequence' = sequence \/ (~Spent /\ Stored(IdRow(v)))
        BY <1>2 DEF insertWithoutId, IdRow, Unchanged
    <2> QED BY <2>1, <2>2 DEF Stored, SequenceStep, Spent, Basics
<1>3. CASE \A v \in Given : ~(insert(v) \/ tryinsert(v) \/ insertWithoutId(v))
    BY <1>3 DEF SequenceStep, Next, vars, ByKey, ByKeyFromValue, update, updateValue, updateTuple, find,
                findKey, selectValue, deleteElement, deleteKey, tryDeleteRecord, tryDeleteKey, Unchanged,
                Update, Delete
<1> QED BY <1>1, <1>2, <1>3 DEF insert, tryinsert

\* If the row ids fit after a step they did before it.
LEMMA BasicsStep ==
    ASSUME Numbered, FiltersAscend, Basics, [Next]_vars
    PROVE  Basics' /\ (IdsFit' => IdsFit)
<1>1. sequence' \in Nat /\ sequence \in 0..sequence' /\ idPtrs' = idPtrs
    BY SequenceSteps, TupleStays DEF SequenceStep, Greater, Basics
<1>2. ASSUME IdsFit', HasId(idPtrs) PROVE Stores(TypeOf[idPtrs[1]], sequence)
    <2>1. Stores(TypeOf[idPtrs[1]], sequence')
        BY <1>1, <1>2 DEF IdsFit, HasId, Stores
    <2> QED BY <1>1, <1>2, <2>1, Downward DEF HasId
<1> QED BY <1>1, <1>2 DEF Basics, IdsFit, Stores

LEMMA ColumnsAlways == Spec => [](Basics /\ (IdsFit => ColumnsInv))
<1> DEFINE Inv == Basics /\ (IdsFit => ColumnsInv)
<1>1. Init => Inv
    BY ColumnsStart
<1>2. Inv /\ [Next]_vars => Inv'
    BY OneNumbering, FilterOrder, BasicsStep, ColumnsStep
<1> QED BY <1>1, <1>2, PTL DEF Spec

\* Of a 64-bit type every row id there is is a value: for these ids the condition
\* of the theorems below always holds (AutoincrementSet.h:43-50, 119-126).
THEOREM WideIdsFit ==
    ASSUME \A ptrs \in KeyTuples : HasId(ptrs) => TypeOf[ptrs[1]] \in {"int", "uint"}
    PROVE  Spec => []IdsFit
<1> DEFINE Inv == Basics /\ (HasId(idPtrs) => sequence <= Half - 1)
<1>1. Half \in Nat \ {0}
    BY ConversionsAssumption
<1>2. Init => Inv
    BY <1>1, ColumnsStart DEF Init
<1>3. Inv /\ [Next]_vars => Inv'
    <2> SUFFICES ASSUME Inv, [Next]_vars PROVE Inv'
        OBVIOUS
    <2>1. Basics' /\ SequenceStep /\ idPtrs' = idPtrs
        BY OneNumbering, FilterOrder, BasicsStep, SequenceSteps, TupleStays
    <2>2. ASSUME NEW x \in Int, HasId(idPtrs), Stores(TypeOf[idPtrs[1]], x) \/ x \in Ids
          PROVE  x <= Half - 1
        BY <1>1, <2>2, WideIds DEF Basics, Signed, Ids
    <2>3. ASSUME HasId(idPtrs) PROVE sequence' <= Half - 1
        BY <2>1, <2>2, <2>3 DEF SequenceStep, Greater
    <2> QED BY <2>1, <2>3 DEF HasId
<1>4. Inv => IdsFit
    <2> SUFFICES ASSUME Inv, HasId(idPtrs) PROVE Stores(TypeOf[idPtrs[1]], sequence)
        BY DEF IdsFit, Stores
    <2>1. sequence \in 0..(Half - 1)
        BY <1>1 DEF Basics
    <2> QED BY <2>1, WideIds DEF Basics
<1> QED BY <1>2, <1>3, <1>4, PTL DEF Spec

\* Whatever calls are made, every column holds what a value of its field's type
\* is stored as, and nothing that was left in a parameter (Set.h:182-214,
\* Updater.h:29-80), as long as the row ids are values of the id's type.
THEOREM ColumnsTypeCorrect == Spec => []TypeOK
<1>1. Basics /\ (IdsFit => ColumnsInv) => TypeOK
    BY Column, TypeOfField DEF Basics, ColumnsInv, TypeOK, RowOK
<1> QED BY <1>1, ColumnsAlways, PTL

\* Whatever structure a Set stores and whatever tuple of keys it is made with, a
\* field has one number, and its two filters hold each number once, those of the
\* keys in the order of the tuple (Set.h:162-180, Helpers.h:230-281).
THEOREM FiltersCorrect == Spec => []NumbersAgree
<1> DEFINE Inv == idPtrs \in KeyTuples
<1>1. Inv => NumbersAgree
    <2> SUFFICES ASSUME idPtrs \in KeyTuples PROVE NumbersAgree
        OBVIOUS
    <2>1. idIndices = [i \in DOMAIN idPtrs |-> Declared(Record, idPtrs[i])]
        <3>1. \A i \in DOMAIN idPtrs : idPtrs[i] \in DOMAIN PointerIndex
            BY SetColumnsAssumption
        <3>2. ASSUME NEW f \in DOMAIN PointerIndex PROVE PointerIndex[f] = Declared(Record, f)
            <4>1. PICK i \in DOMAIN Record : ~Record[i].nested /\ f = <<i>>
                BY DEF PointerIndex
            <4>2. PointerIndex[f] = findTransparentFieldIndex(Record, i)
                BY <4>1 DEF PointerIndex
            <4> QED BY <4>1, <4>2, FieldsAre, NumbersCorrect DEF FieldsNumbered
        <3>3. idIndices = [i \in DOMAIN idPtrs |-> PointerIndex[idPtrs[i]]]
            BY DEF idIndices, idIndicesOf, IndicesOf
        <3> QED BY <3>1, <3>2, <3>3
    <2>2. \A n \in Numbers : contains(valueFilter, n) <=> ~contains(idIndices, n)
        BY FilterOrder DEF FiltersAscend, valueFilter, idIndices
    <2> QED BY <2>1, <2>2, NumbersCorrect DEF NumbersAgree
<1>2. Init => Inv
    BY DEF Init
<1>3. Inv /\ [Next]_vars => Inv'
    BY TupleStays
<1> QED BY <1>1, <1>2, <1>3, PTL DEF Spec

\* Columns that SQL compares are in the order of the values they hold
\* (Helpers.h:30-34).
THEOREM OrderCorrect == Spec => []OrderKept
<1>1. (IdsFit => ColumnsInv) => OrderKept
    <2> SUFFICES ASSUME ColumnsInv, NEW r1 \in table, NEW r2 \in table, NEW f \in Fields,
                        TypeOf[f] \in Integral \cup {"time"}
                 PROVE  r1[f] <= r2[f] <=> get(TypeOf[f], r1[f]) <= get(TypeOf[f], r2[f])
        BY DEF OrderKept
    <2> DEFINE t == TypeOf[f]
    <2>1. t \in Types /\ Stores(t, r1[f]) /\ Stores(t, r2[f])
        BY TypeOfField DEF ColumnsInv, RowOK
    <2>2. /\ get(t, r1[f]) \in Values(t) /\ r1[f] = bind(t, get(t, r1[f]))
          /\ get(t, r2[f]) \in Values(t) /\ r2[f] = bind(t, get(t, r2[f]))
        BY <2>1, Column
    <2> QED BY <2>2, Ordered
<1> QED BY <1>1, ColumnsAlways, PTL

-----------------------------------------------------------------------------
(* Queries.                                                                *)

\* Two columns are equal to SQL when their values are, but for NULL and the
\* case of texts.
LEMMA Equality ==
    ASSUME NEW t \in Types, NEW v \in Values(t), NEW w \in Values(t)
    PROVE  /\ bind(t, v) = bind(t, w) <=> v = w
           /\ Equal(t, bind(t, v), bind(t, w)) <=>
                 /\ bind(t, w) # Null
                 /\ v = w \/ (t = "text" /\ v \div 2 = w \div 2)
<1>1. bind(t, v) = bind(t, w) <=> v = w
    BY RoundTrip
<1>2. CASE t = "text"
    <2>1. bind(t, v) = v /\ bind(t, w) = w /\ v \in Nat /\ w \in Nat
        BY <1>2 DEF bind, Values
    <2>2. v # Null /\ w # Null
        BY <2>1, ConversionsAssumption
    <2> QED BY <1>2, <2>1, <2>2 DEF Equal
<1>3. CASE t # "text"
    BY <1>1, <1>3 DEF Equal
<1> QED BY <1>1, <1>2, <1>3

\* A select by index finds exactly the values whose fields are asked for, for
\* any structure and any order of the index (IndexInstantiator.h:102-112).
THEOREM IndexCorrect == Spec => []IndexSelects
<1> USE OneNumbering
<1>1. ASSUME ColumnsInv, NEW k \in TuplesOf(IndexPtrs)
      PROVE  selectByIndex(k) =
                {v \in {Read(row) : row \in table} :
                   \A i \in DOMAIN IndexPtrs :
                       LET t == TypeOf[IndexPtrs[i]]
                           x == v[IndexPtrs[i]] IN
                       /\ bind(t, k[i]) # Null
                       /\ x = k[i] \/ (t = "text" /\ x \div 2 = k[i] \div 2)}
    <2> DEFINE b == [p \in DOMAIN IndexPtrs |-> bind(TypeOf[IndexPtrs[p]], k[p])]
               Fits(v) == \A i \in DOMAIN IndexPtrs :
                              LET t == TypeOf[IndexPtrs[i]]
                                  x == v[IndexPtrs[i]] IN
                              /\ bind(t, k[i]) # Null
                              /\ x = k[i] \/ (t = "text" /\ x \div 2 = k[i] \div 2)
    <2>1. \A i \in DOMAIN IndexPtrs : IndexPtrs[i] \in Fields /\ k[i] \in Values(TypeOf[IndexPtrs[i]])
        BY Tuples, GivenValued DEF TuplesOf, Valued
    <2>2. DOMAIN IndexQuery = {IndexPtrs[i] : i \in DOMAIN IndexPtrs}
        BY Tuples, Places DEF IndexQuery, Sequential, Columns
    <2>3. \A i \in DOMAIN IndexPtrs : IndexQuery[IndexPtrs[i]] = i
        BY <2>1, Places DEF IndexQuery, Sequential, Columns
    <2>4. ASSUME NEW row \in table
          PROVE  row \in Matching(b, IndexQuery) <=> Fits(Read(row))
        <3>1. ASSUME NEW i \in DOMAIN IndexPtrs
              PROVE  LET f == IndexPtrs[i]
                         t == TypeOf[f]
                         x == Read(row)[f] IN
                     Equal(t, row[f], b[i]) <=>
                        /\ bind(t, k[i]) # Null
                        /\ x = k[i] \/ (t = "text" /\ x \div 2 = k[i] \div 2)
            <4> DEFINE f == IndexPtrs[i]
                       t == TypeOf[f]
            <4>1. f \in Fields /\ t \in Types /\ k[i] \in Values(t) /\ b[i] = bind(t, k[i])
                BY <2>1, TypeOfField
            <4>2. Read(row)[f] = get(t, row[f])
                BY <4>1, Reading
            <4>3. get(t, row[f]) \in Values(t) /\ row[f] = bind(t, get(t, row[f]))
                BY <1>1, <4>1, Column DEF ColumnsInv, RowOK
            <4> HIDE DEF f, t, b
            <4>4. Equal(t, bind(t, get(t, row[f])), bind(t, k[i])) <=>
                        /\ bind(t, k[i]) # Null
                        /\ get(t, row[f]) = k[i] \/ (t = "text" /\ get(t, row[f]) \div 2 = k[i] \div 2)
                BY <4>1, <4>3, Equality
            <4>5. Equal(t, row[f], b[i]) <=>
                        /\ bind(t, k[i]) # Null
                        /\ Read(row)[f] = k[i] \/ (t = "text" /\ Read(row)[f] \div 2 = k[i] \div 2)
                BY <4>1, <4>2, <4>3, <4>4
            <4> QED BY <4>5 DEF f, t
        <3> HIDE DEF b
        <3>2. row \in Matching(b, IndexQuery) <=>
                 \A i \in DOMAIN IndexPtrs : Equal(TypeOf[IndexPtrs[i]], row[IndexPtrs[i]], b[i])
            BY <2>2, <2>3 DEF Matching
        <3> QED BY <3>1, <3>2
    <2>5. Matching(b, IndexQuery) \subseteq table
        BY DEF Matching
    <2>6. selectByIndex(k) = {Read(row) : row \in Matching(b, IndexQuery)}
        BY DEF selectByIndex
    <2> HIDE DEF b, Fits
    <2>7. {Read(row) : row \in Matching(b, IndexQuery)} = {v \in {Read(row) : row \in table} : Fits(v)}
        BY <2>4, <2>5
    <2> QED BY <2>6, <2>7 DEF Fits
<1>2. (IdsFit => ColumnsInv) => IndexSelects
    BY <1>1 DEF IndexSelects
<1> QED BY <1>2, ColumnsAlways, PTL

-----------------------------------------------------------------------------
(* A Set is a map: its rows are values, no two with one key.               *)

\* The values in the table.
Whole == {Read(row) : row \in table}

OneForEachKey(values) == \A v, w \in values : KeyOf(v) = KeyOf(w) => v = w

\* No id in the table is beyond the sequence, so that the next one is new.
IdsBelow == HasId(idPtrs) => \A row \in table : row[idPtrs[1]] <= sequence

MapInv == ColumnsInv /\ OneForEachKey(Whole) /\ IdsBelow

\* The ids are of types that a column holds as they are, as those of the tests.
PlainIds ==
    \A ptrs \in KeyTuples : HasId(ptrs) => TypeOf[ptrs[1]] \in {"int", "short", "byte", "bool"}

LEMMA ReadRow ==
    ASSUME Numbered, NEW row, RowOK(row), NEW f \in Fields
    PROVE  /\ Read(row)[f] \in Values(TypeOf[f])
           /\ row[f] = bind(TypeOf[f], Read(row)[f])
BY Reading, Column, TypeOfField DEF RowOK

LEMMA ReadWhole ==
    ASSUME NEW row
    PROVE  Read(row) = [f \in Fields |-> Read(row)[f]]
BY DEF Read

\* A row is known by its value.
LEMMA RowsApart ==
    ASSUME Numbered, NEW r1, RowOK(r1), NEW r2, RowOK(r2), Read(r1) = Read(r2)
    PROVE  r1 = r2
<1>1. \A f \in Fields : r1[f] = r2[f]
    BY ReadRow
<1> QED BY <1>1 DEF RowOK

LEMMA KeyField ==
    ASSUME Numbered, idPtrs \in KeyTuples, NEW i \in DOMAIN idPtrs
    PROVE  /\ idPtrs[i] \in Fields
           /\ TypeOf[idPtrs[i]] \in Types
           /\ ~AllowsNull(TypeOf[idPtrs[i]])
           /\ TypeOf[idPtrs[i]] # "text"
           /\ ~contains(valueIndices, TypeIndex[idPtrs[i]])
<1>1. /\ idPtrs[i] \in Fields
      /\ \A j \in DOMAIN UpdaterPtrs : UpdaterPtrs[j] # idPtrs[i]
    BY Tuples, SetColumnsAssumption
<1>2. ~contains(valueIndices, TypeIndex[idPtrs[i]])
    BY <1>1, Places DEF valueIndices
<1> QED BY <1>1, <1>2, SetColumnsAssumption

\* Key columns are equal to SQL when the keys are.
LEMMA KeyEquality ==
    ASSUME Numbered, idPtrs \in KeyTuples, NEW i \in DOMAIN idPtrs,
           NEW v \in Values(TypeOf[idPtrs[i]]), NEW w \in Values(TypeOf[idPtrs[i]])
    PROVE  Equal(TypeOf[idPtrs[i]], bind(TypeOf[idPtrs[i]], v), bind(TypeOf[idPtrs[i]], w)) <=> v = w
<1> DEFINE t == TypeOf[idPtrs[i]]
<1>1. t \in Types /\ ~AllowsNull(t) /\ t # "text"
    BY KeyField
<1>2. bind(t, w) # Null
    <2>1. bind(t, w) \in Int
        BY <1>1, NotNull DEF Stores
    <2> QED BY <2>1, ConversionsAssumption
<1> QED BY <1>1, <1>2, Equality

\* A tuple of values for the key columns.
KeyValued(k) ==
    /\ k = [i \in DOMAIN idPtrs |-> k[i]]
    /\ \A i \in DOMAIN idPtrs : k[i] \in Values(TypeOf[idPtrs[i]])

LEMMA KeyOfValued ==
    ASSUME Numbered, idPtrs \in KeyTuples, NEW v, Valued(v)
    PROVE  KeyValued(KeyOf(v))
BY KeyField DEF KeyOf, KeyValued, Valued

LEMMA AskedValued ==
    ASSUME Numbered, idPtrs \in KeyTuples, NEW k \in Asked(idPtrs)
    PROVE  KeyValued(k)
<1>1. CASE k \in TuplesOf(idPtrs)
    <2>1. PICK v \in Given : k = [i \in DOMAIN idPtrs |-> v[idPtrs[i]]]
        BY <1>1 DEF TuplesOf
    <2>2. KeyValued(KeyOf(v))
        BY GivenValued, KeyOfValued
    <2> QED BY <2>1, <2>2 DEF KeyOf
<1>2. CASE HasId(idPtrs) /\ \E id \in Values(TypeOf[idPtrs[1]]) : k = <<id>>
    <2>1. PICK id \in Values(TypeOf[idPtrs[1]]) : k = <<id>>
        BY <1>2
    <2>2. DOMAIN idPtrs = {1}
        BY <1>2, Tuples DEF HasId
    <2>3. k[1] = id /\ k = [i \in 1..1 |-> k[i]]
        BY <2>1
    <2>4. 1..1 = {1}
        OBVIOUS
    <2> QED BY <2>1, <2>2, <2>3, <2>4 DEF KeyValued
<1> QED BY <1>1, <1>2 DEF Asked, IdsOf

\* A query is run with a key when the parameters of the key columns hold it.
HoldsKey(b, k) ==
    \A i \in DOMAIN idPtrs : b[TypeIndex[idPtrs[i]] + 1] = bind(TypeOf[idPtrs[i]], k[i])

\* WHERE selects the values with the key.
LEMMA WhereFinds ==
    ASSUME Numbered, FiltersAscend, ColumnsInv, NEW k, KeyValued(k), NEW b, HoldsKey(b, k)
    PROVE  Where(b) = {row \in table : KeyOf(Read(row)) = k}
<1>1. idPtrs \in KeyTuples
    BY DEF ColumnsInv
<1>2. /\ DOMAIN query.where = {idPtrs[i] : i \in DOMAIN idPtrs}
      /\ \A i \in DOMAIN idPtrs : query.where[idPtrs[i]] = TypeIndex[idPtrs[i]] + 1
    <2>1. {g \in Fields : contains(idIndices, TypeIndex[g])} = {idPtrs[i] : i \in DOMAIN idPtrs}
        BY <1>1, Places, KeyField DEF idIndices, idIndicesOf
    <2> QED BY <1>1, <2>1, QueryColumns
<1>3. ASSUME NEW row \in table
      PROVE  row \in Where(b) <=> KeyOf(Read(row)) = k
    <2>1. RowOK(row)
        BY DEF ColumnsInv
    <2>2. row \in Where(b) <=> \A i \in DOMAIN idPtrs :
              Equal(TypeOf[idPtrs[i]], row[idPtrs[i]], b[TypeIndex[idPtrs[i]] + 1])
        BY <1>2 DEF Where, Matching
    <2>3. ASSUME NEW i \in DOMAIN idPtrs
          PROVE  Equal(TypeOf[idPtrs[i]], row[idPtrs[i]], b[TypeIndex[idPtrs[i]] + 1])
                    <=> Read(row)[idPtrs[i]] = k[i]
        <3>1. idPtrs[i] \in Fields
            BY <1>1, KeyField
        <3>2. /\ Read(row)[idPtrs[i]] \in Values(TypeOf[idPtrs[i]])
              /\ row[idPtrs[i]] = bind(TypeOf[idPtrs[i]], Read(row)[idPtrs[i]])
            BY <2>1, <3>1, ReadRow
        <3> QED BY <1>1, <3>2, KeyEquality DEF KeyValued, HoldsKey
    <2>4. KeyOf(Read(row)) = k <=> \A i \in DOMAIN idPtrs : Read(row)[idPtrs[i]] = k[i]
        BY DEF KeyOf, KeyValued
    <2> QED BY <2>2, <2>3, <2>4
<1> QED BY <1>3 DEF Where, Matching

\* The parameters of every method hold the key it was called with.
LEMMA KeysHeld ==
    ASSUME Numbered, idPtrs \in KeyTuples, NEW v, NEW k
    PROVE  /\ HoldsKey(bindKey(k), k)
           /\ HoldsKey(bindKeyFromValue(v), KeyOf(v))
           /\ HoldsKey(bindAll(v), KeyOf(v))
           /\ HoldsKey(bindValue(v, Chosen(idIndices) \cup Chosen(valueIndices)), KeyOf(v))
           /\ HoldsKey(TupleBound(k, v), k)
<1>1. HoldsKey(bindKey(k), k)
    BY BoundKey DEF HoldsKey
<1>2. ASSUME NEW chosen, Chosen(idIndices) \subseteq chosen
      PROVE  HoldsKey(bindValue(v, chosen), KeyOf(v))
    <2> SUFFICES ASSUME NEW i \in DOMAIN idPtrs
                 PROVE  bindValue(v, chosen)[TypeIndex[idPtrs[i]] + 1] = bind(TypeOf[idPtrs[i]], KeyOf(v)[i])
        BY DEF HoldsKey
    <2>1. idPtrs[i] \in Fields /\ contains(idIndices, TypeIndex[idPtrs[i]])
        BY Places, KeyField DEF idIndices, idIndicesOf
    <2>2. TypeIndex[idPtrs[i]] \in chosen
        BY <1>2, <2>1, FieldOfNumber DEF Chosen
    <2> QED BY <2>1, <2>2, Bound DEF KeyOf
<1>3. Chosen(idIndices) \subseteq Numbers
    BY DEF Chosen
<1>4. HoldsKey(TupleBound(k, v), k)
    <2> SUFFICES ASSUME NEW i \in DOMAIN idPtrs
                 PROVE  TupleBound(k, v)[TypeIndex[idPtrs[i]] + 1] = bind(TypeOf[idPtrs[i]], k[i])
        BY DEF HoldsKey
    <2> QED BY KeyField, BoundTuple, BoundKey
<1> QED BY <1>1, <1>2, <1>3, <1>4 DEF bindKeyFromValue, bindAll

-----------------------------------------------------------------------------
(* The map of the values.                                                  *)

ValueMap(values) == [k \in {KeyOf(v) : v \in values} |-> CHOOSE v \in values : KeyOf(v) = k]

Others(values, k) == {w \in values : KeyOf(w) # k}

LEMMA Mapped ==
    ASSUME NEW values, OneForEachKey(values)
    PROVE  /\ DOMAIN ValueMap(values) = {KeyOf(v) : v \in values}
           /\ \A v \in values : ValueMap(values)[KeyOf(v)] = v
<1>1. ASSUME NEW v \in values PROVE ValueMap(values)[KeyOf(v)] = v
    <2>1. ValueMap(values)[KeyOf(v)] = CHOOSE w \in values : KeyOf(w) = KeyOf(v)
        BY DEF ValueMap
    <2> QED BY <2>1 DEF OneForEachKey
<1> QED BY <1>1 DEF ValueMap

LEMMA MapPut ==
    ASSUME NEW values, OneForEachKey(values), NEW v
    PROVE  LET k == KeyOf(v)
               old == ValueMap(values)
               new == Others(values, k) \cup {v} IN
           /\ OneForEachKey(new)
           /\ ValueMap(new) = [x \in DOMAIN old \cup {k} |-> IF x = k THEN v ELSE old[x]]
<1> DEFINE k == KeyOf(v)
           new == Others(values, k) \cup {v}
           put == [x \in DOMAIN ValueMap(values) \cup {k} |-> IF x = k THEN v ELSE ValueMap(values)[x]]
<1>1. OneForEachKey(new)
    BY DEF OneForEachKey, Others
<1>2. /\ DOMAIN ValueMap(new) = {KeyOf(w) : w \in new}
      /\ \A w \in new : ValueMap(new)[KeyOf(w)] = w
    BY <1>1, Mapped
<1>3. /\ DOMAIN ValueMap(values) = {KeyOf(w) : w \in values}
      /\ \A w \in values : ValueMap(values)[KeyOf(w)] = w
    BY Mapped
<1>4. DOMAIN ValueMap(new) = DOMAIN put
    BY <1>2, <1>3 DEF Others
<1>5. ASSUME NEW x \in DOMAIN put PROVE ValueMap(new)[x] = put[x]
    <2>1. PICK w \in new : x = KeyOf(w)
        BY <1>2, <1>4
    <2>2. ValueMap(new)[x] = w
        BY <1>2, <2>1
    <2>3. CASE w = v
        BY <2>1, <2>2, <2>3
    <2>4. CASE w # v
        BY <1>3, <2>1, <2>2, <2>4 DEF Others
    <2> QED BY <2>3, <2>4
<1>6. ValueMap(new) = put
    <2>1. ValueMap(new) = [x \in DOMAIN ValueMap(new) |-> ValueMap(new)[x]]
        BY DEF ValueMap
    <2> QED BY <1>4, <1>5, <2>1
<1> QED BY <1>1, <1>6

LEMMA MapRemove ==
    ASSUME NEW values, OneForEachKey(values), NEW k
    PROVE  LET old == ValueMap(values)
               new == Others(values, k) IN
           /\ OneForEachKey(new)
           /\ ValueMap(new) = [x \in DOMAIN old \ {k} |-> old[x]]
<1> DEFINE new == Others(values, k)
           removed == [x \in DOMAIN ValueMap(values) \ {k} |-> ValueMap(values)[x]]
<1>1. OneForEachKey(new)
    BY DEF OneForEachKey, Others
<1>2. /\ DOMAIN ValueMap(new) = {KeyOf(w) : w \in new}
      /\ \A w \in new : ValueMap(new)[KeyOf(w)] = w
    BY <1>1, Mapped
<1>3. /\ DOMAIN ValueMap(values) = {KeyOf(w) : w \in values}
      /\ \A w \in values : ValueMap(values)[KeyOf(w)] = w
    BY Mapped
<1>4. DOMAIN ValueMap(new) = DOMAIN removed
    BY <1>2, <1>3 DEF Others
<1>5. ASSUME NEW x \in DOMAIN removed PROVE ValueMap(new)[x] = removed[x]
    <2>1. PICK w \in new : x = KeyOf(w)
        BY <1>2, <1>4
    <2> QED BY <1>2, <1>3, <2>1 DEF Others
<1>6. ValueMap(new) = removed
    <2>1. ValueMap(new) = [x \in DOMAIN ValueMap(new) |-> ValueMap(new)[x]]
        BY DEF ValueMap
    <2> QED BY <1>4, <1>5, <2>1
<1> QED BY <1>1, <1>6

\* The contents of the map before and after a step, and the invariant after it.
LEMMA ContentsAre ==
    /\ Contents = ValueMap(Whole)
    /\ idPtrs' = idPtrs => Contents' = ValueMap(Whole')
    /\ idPtrs' = idPtrs /\ OneForEachKey(Whole') => OneForEachKey(Whole)'
<1>1. Contents = ValueMap(Whole)
    BY DEF Contents, ValueMap, Whole
<1>2. ASSUME idPtrs' = idPtrs PROVE Contents' = ValueMap(Whole')
    BY <1>2 DEF Contents, ValueMap, Whole, KeyOf
<1>3. ASSUME idPtrs' = idPtrs, OneForEachKey(Whole') PROVE OneForEachKey(Whole)'
    BY <1>3 DEF OneForEachKey, KeyOf
<1> QED BY <1>1, <1>2, <1>3

\* What the calls of the map read.
LEMMA Found ==
    ASSUME Numbered, FiltersAscend, MapInv, NEW k, KeyValued(k), NEW b, HoldsKey(b, k)
    PROVE  /\ Where(b) = {} <=> k \notin DOMAIN Contents
           /\ \A row \in Where(b) : row \in table /\ KeyOf(Read(row)) = k /\ Contents[k] = Read(row)
           /\ {Read(row) : row \in table \ Where(b)} = Others(Whole, k)
<1>1. Where(b) = {row \in table : KeyOf(Read(row)) = k}
    BY WhereFinds DEF MapInv
<1>2. /\ DOMAIN Contents = {KeyOf(v) : v \in Whole}
      /\ \A v \in Whole : Contents[KeyOf(v)] = v
    BY ContentsAre, Mapped DEF MapInv
<1>3. \A row \in table : Read(row) \in Whole
    BY DEF Whole
<1>4. \A v \in Whole : \E row \in table : v = Read(row)
    BY DEF Whole
<1>5. {Read(row) : row \in table \ Where(b)} = Others(Whole, k)
    BY <1>1 DEF Others, Whole
<1> QED BY <1>1, <1>2, <1>3, <1>4, <1>5

LEMMA NothingMissing ==
    ASSUME NEW row, RowOK(row)
    PROVE  ~Missing(row)
<1>1. ASSUME NEW f \in Fields, row[f] = Null, ~AllowsNull(TypeOf[f]) PROVE FALSE
    BY <1>1, NotNull, TypeOfField, ConversionsAssumption DEF RowOK
<1> QED BY <1>1 DEF Missing

LEMMA UnchangedStep ==
    ASSUME MapInv, Unchanged
    PROVE  MapInv' /\ Contents' = Contents /\ Spent' = Spent
<1>1. idPtrs' = idPtrs /\ table' = table /\ sequence' = sequence
    BY DEF Unchanged
<1> QED BY <1>1 DEF MapInv, ColumnsInv, RowOK, OneForEachKey, Whole, KeyOf, IdsBelow, Contents, Spent

\* The step that stores a row with a new key.
LEMMA StoredStep ==
    ASSUME Numbered, MapInv, ColumnsInv', NEW row, RowOK(row), Stored(row), NEW v, Read(row) = v,
           KeyOf(v) \notin DOMAIN Contents
    PROVE  /\ MapInv'
           /\ Contents' = [x \in DOMAIN Contents \cup {KeyOf(v)} |-> IF x = KeyOf(v) THEN v ELSE Contents[x]]
           /\ Spent => Spent'
<1>1. idPtrs' = idPtrs /\ table' = table \cup {row}
    BY DEF Stored
<1>2. Others(Whole, KeyOf(v)) = Whole
    <2>1. DOMAIN Contents = {KeyOf(w) : w \in Whole}
        BY ContentsAre, Mapped DEF MapInv
    <2> QED BY <2>1 DEF Others
<1>3. Whole' = Others(Whole, KeyOf(v)) \cup {v}
    BY <1>1, <1>2 DEF Whole
<1>4. /\ OneForEachKey(Whole')
      /\ ValueMap(Whole') = [x \in DOMAIN ValueMap(Whole) \cup {KeyOf(v)} |->
                               IF x = KeyOf(v) THEN v ELSE ValueMap(Whole)[x]]
    BY <1>3, MapPut DEF MapInv
<1>5. IdsBelow'
    <2> SUFFICES ASSUME HasId(idPtrs) PROVE \A r \in table' : r[idPtrs[1]] <= sequence'
        BY <1>1 DEF IdsBelow
    <2>1. sequence' = Greater(sequence, row[idPtrs[1]])
        BY DEF Stored
    <2>2. ASSUME NEW r \in table' PROVE r[idPtrs[1]] \in Int
        <3>1. RowOK(r)
            BY <1>1 DEF MapInv, ColumnsInv
        <3>2. 1 \in DOMAIN idPtrs
            BY Tuples DEF HasId, MapInv, ColumnsInv
        <3> QED BY <3>1, <3>2, KeyField, NotNull DEF RowOK, MapInv, ColumnsInv
    <2>3. row \in table' /\ table \subseteq table'
        BY <1>1
    <2> QED BY <1>1, <2>1, <2>2, <2>3 DEF Greater, IdsBelow, MapInv, ColumnsInv
<1>6. Spent => Spent'
    <2>1. sequence' >= sequence /\ sequence \in Nat /\ sequence' \in Nat
        BY DEF Stored, Greater, MapInv, ColumnsInv
    <2>2. Half \in Nat
        BY ConversionsAssumption
    <2>3. \A m, n \in Nat : n >= m /\ m + 1 \notin Ids => n + 1 \notin Ids
        BY <2>2 DEF Ids
    <2>4. sequence + 1 \notin Ids => sequence' + 1 \notin Ids
        BY <2>1, <2>3
    <2> QED BY <2>4, Zenon DEF Spent
<1> QED BY <1>1, <1>4, <1>5, <1>6, ContentsAre DEF MapInv

\* The step of a method that changes the row with a key, or finds none.
ChangedRow(at, b, row) == [f \in Fields |-> IF f \in DOMAIN at THEN b[at[f]] ELSE row[f]]

LEMMA UpdatedStep ==
    ASSUME Numbered, FiltersAscend, MapInv, NEW op, NEW k, KeyValued(k), NEW v, NEW at, NEW b,
           HoldsKey(b, k), Sets(at, b), \A i \in DOMAIN idPtrs : idPtrs[i] \notin DOMAIN at,
           Update(op, k, v, at, b)
    PROVE  /\ MapInv' /\ Spent' = Spent
           /\ \/ /\ k \notin DOMAIN Contents /\ Contents' = Contents
                 /\ Answer(op, k, "throws", {})
              \/ \E row \in table :
                    /\ RowOK(row) /\ KeyOf(Read(row)) = k /\ k \in DOMAIN Contents /\ Contents[k] = Read(row)
                    /\ Contents' = [x \in DOMAIN Contents \cup {k} |->
                                      IF x = k THEN Read(ChangedRow(at, b, row)) ELSE Contents[x]]
                    /\ Answer(op, k, "done", {v})
<1> DEFINE found == Where(b)
<1>1. /\ found = {} <=> k \notin DOMAIN Contents
      /\ \A row \in found : row \in table /\ KeyOf(Read(row)) = k /\ Contents[k] = Read(row)
      /\ {Read(row) : row \in table \ found} = Others(Whole, k)
    BY Found
<1>2. idPtrs \in KeyTuples /\ \A row \in table : RowOK(row)
    BY DEF MapInv, ColumnsInv
<1>3. \A row : RowOK(row) => RowOK(ChangedRow(at, b, row))
    <2> SUFFICES ASSUME NEW row, RowOK(row) PROVE RowOK(ChangedRow(at, b, row))
        OBVIOUS
    <2>1. \A f \in Fields : Stores(TypeOf[f], ChangedRow(at, b, row)[f])
        BY DEF RowOK, Sets, ChangedRow
    <2> QED BY <2>1 DEF RowOK, ChangedRow
<1>4. ColumnsInv'
    BY Updating DEF MapInv
<1>5. \A row \in found : ~Missing(ChangedRow(at, b, row))
    BY <1>1, <1>2, <1>3, NothingMissing
<1>6. \/ /\ found = {} /\ Unchanged /\ Answer(op, k, "throws", {})
      \/ /\ found # {} /\ Answer(op, k, "done", {v})
         /\ table' = (table \ found) \cup {ChangedRow(at, b, row) : row \in found}
         /\ UNCHANGED <<idPtrs, sequence>>
    BY <1>5 DEF Update, ChangedRow
<1>7. CASE found = {} /\ Unchanged /\ Answer(op, k, "throws", {})
    BY <1>1, <1>7, UnchangedStep
<1>8. CASE /\ found # {} /\ Answer(op, k, "done", {v})
           /\ table' = (table \ found) \cup {ChangedRow(at, b, row) : row \in found}
           /\ UNCHANGED <<idPtrs, sequence>>
    <2>1. PICK row \in found : TRUE
        BY <1>8
    <2> DEFINE new == ChangedRow(at, b, row)
    <2>2. row \in table /\ RowOK(row) /\ RowOK(new) /\ KeyOf(Read(row)) = k /\ Contents[k] = Read(row)
        BY <1>1, <1>2, <1>3, <2>1
    <2>3. found = {row}
        <3> SUFFICES ASSUME NEW other \in found PROVE other = row
            BY <2>1
        <3>1. other \in table /\ RowOK(other) /\ Read(other) = Read(row)
            BY <1>1, <1>2, <2>1
        <3> QED BY <2>2, <3>1, RowsApart
    <2>4. table' = (table \ found) \cup {new}
        BY <1>8, <2>3
    <2>5. KeyOf(Read(new)) = k
        <3>1. ASSUME NEW i \in DOMAIN idPtrs PROVE Read(new)[idPtrs[i]] = Read(row)[idPtrs[i]]
            <4>1. idPtrs[i] \in Fields /\ idPtrs[i] \notin DOMAIN at
                BY <1>2, KeyField
            <4> QED BY <4>1, Reading DEF ChangedRow
        <3> HIDE DEF new
        <3> QED BY <2>2, <3>1 DEF KeyOf
    <2>6. Whole' = Others(Whole, k) \cup {Read(new)}
        <3>1. Whole' = {Read(r) : r \in table'}
            BY DEF Whole
        <3>2. {Read(r) : r \in (table \ found) \cup {new}} = {Read(r) : r \in table \ found} \cup {Read(new)}
            OBVIOUS
        <3> QED BY <1>1, <2>4, <3>1, <3>2
    <2>7. /\ OneForEachKey(Whole')
          /\ ValueMap(Whole') = [x \in DOMAIN ValueMap(Whole) \cup {k} |->
                                   IF x = k THEN Read(new) ELSE ValueMap(Whole)[x]]
        BY <2>5, <2>6, MapPut DEF MapInv
    <2>8. IdsBelow'
        <3> SUFFICES ASSUME HasId(idPtrs) PROVE \A r \in table' : r[idPtrs[1]] <= sequence
            BY <1>8 DEF IdsBelow
        <3>1. 1 \in DOMAIN idPtrs /\ idPtrs[1] \in Fields
            BY <1>2, Tuples DEF HasId
        <3>2. new[idPtrs[1]] = row[idPtrs[1]]
            BY <3>1 DEF ChangedRow
        <3> HIDE DEF new
        <3> QED BY <2>2, <2>4, <3>2 DEF IdsBelow, MapInv
    <2>9. MapInv'
        BY <1>4, <1>8, <2>7, <2>8, ContentsAre DEF MapInv
    <2>10. Contents' = [x \in DOMAIN Contents \cup {k} |-> IF x = k THEN Read(new) ELSE Contents[x]]
        BY <1>8, <2>7, ContentsAre
    <2>11. k \in DOMAIN Contents
        BY <1>1, <1>8
    <2>12. Spent' = Spent
        BY <1>8 DEF Spent
    <2> QED BY <1>8, <2>2, <2>9, <2>10, <2>11, <2>12
<1> QED BY <1>6, <1>7, <1>8

\* The step of a method that deletes the row with a key, or finds none.
LEMMA DeletedStep ==
    ASSUME Numbered, FiltersAscend, MapInv, NEW op, NEW k, KeyValued(k), NEW b, HoldsKey(b, k), Delete(op, k, b)
    PROVE  /\ MapInv' /\ Spent' = Spent
           /\ \/ /\ op = "delete" /\ k \notin DOMAIN Contents /\ Contents' = Contents
                 /\ Answer(op, k, "throws", {})
              \/ /\ op = "trydelete" \/ k \in DOMAIN Contents
                 /\ Contents' = [x \in DOMAIN Contents \ {k} |-> Contents[x]]
                 /\ Answer(op, k, "done", {})
<1>1. /\ Where(b) = {} <=> k \notin DOMAIN Contents
      /\ {Read(row) : row \in table \ Where(b)} = Others(Whole, k)
    BY Found
<1>2. CASE Where(b) = {} /\ op = "delete" /\ Unchanged /\ Answer(op, k, "throws", {})
    BY <1>1, <1>2, UnchangedStep
<1>3. CASE /\ Where(b) # {} \/ op = "trydelete"
           /\ table' = table \ Where(b)
           /\ UNCHANGED <<idPtrs, sequence>>
           /\ Answer(op, k, "done", {})
    <2>1. Whole' = Others(Whole, k)
        BY <1>1, <1>3 DEF Whole
    <2>2. /\ OneForEachKey(Whole')
          /\ ValueMap(Whole') = [x \in DOMAIN ValueMap(Whole) \ {k} |-> ValueMap(Whole)[x]]
        BY <2>1, MapRemove DEF MapInv
    <2>3. IdsBelow'
        BY <1>3 DEF IdsBelow, MapInv
    <2>4. ColumnsInv'
        BY Deleting DEF MapInv
    <2>5. Spent' = Spent
        BY <1>3 DEF Spent
    <2> QED BY <1>1, <1>3, <2>2, <2>3, <2>4, <2>5, ContentsAre DEF MapInv
<1> QED BY <1>2, <1>3 DEF Delete

-----------------------------------------------------------------------------
(* The refinement.                                                         *)

LEMMA WholeInsert ==
    ASSUME Numbered, FiltersAscend, MapInv, NEW op, NEW v \in Given, NEW done, NEW clash,
           Inserts(op, v, done, clash)
    PROVE  /\ MapInv' /\ (Spent => Spent')
           /\ \/ /\ KeyOf(v) \in DOMAIN Contents /\ Contents' = Contents /\ Spent' = Spent
                 /\ Answer(op, KeyOf(v), clash, {})
              \/ /\ KeyOf(v) \notin DOMAIN Contents
                 /\ Contents' = [x \in DOMAIN Contents \cup {KeyOf(v)} |-> IF x = KeyOf(v) THEN v ELSE Contents[x]]
                 /\ Answer(op, KeyOf(v), done, {v})
<1> DEFINE row == [f \in Fields |-> bindAll(v)[InsertedAll[f]]]
<1>1. v = [f \in Fields |-> v[f]] /\ Valued(v)
    BY GivenValued
<1>2. RowOK(row) /\ \A f \in Fields : row[f] = bind(TypeOf[f], v[f])
    BY <1>1, WholeRow
<1>3. idPtrs \in KeyTuples /\ \A other \in table : RowOK(other)
    BY DEF MapInv, ColumnsInv
<1>4. \/ (Clash(row) \/ Missing(row)) /\ Unchanged /\ Answer(op, KeyOf(v), clash, {})
      \/ ~Clash(row) /\ Stored(row) /\ Answer(op, KeyOf(v), done, {v})
    BY DEF Inserts
<1> HIDE DEF row
<1>5. ~Missing(row)
    BY <1>2, NothingMissing
<1>6. Read(row) = v
    <2>1. \A f \in Fields : Read(row)[f] = v[f]
        BY <1>1, <1>2, Reading, RoundTrip, TypeOfField DEF Valued
    <2> QED BY <1>1, <2>1, ReadWhole
<1>7. Clash(row) <=> KeyOf(v) \in DOMAIN Contents
    <2>1. ASSUME NEW other \in table
          PROVE  (\A i \in DOMAIN idPtrs : Equal(TypeOf[idPtrs[i]], other[idPtrs[i]], row[idPtrs[i]]))
                    <=> KeyOf(Read(other)) = KeyOf(v)
        <3>1. ASSUME NEW i \in DOMAIN idPtrs
              PROVE  Equal(TypeOf[idPtrs[i]], other[idPtrs[i]], row[idPtrs[i]])
                        <=> Read(other)[idPtrs[i]] = v[idPtrs[i]]
            <4>1. idPtrs[i] \in Fields
                BY <1>3, KeyField
            <4>2. /\ Read(other)[idPtrs[i]] \in Values(TypeOf[idPtrs[i]])
                  /\ other[idPtrs[i]] = bind(TypeOf[idPtrs[i]], Read(other)[idPtrs[i]])
                BY <1>3, <4>1, ReadRow
            <4> QED BY <1>1, <1>2, <1>3, <4>1, <4>2, KeyEquality DEF Valued
        <3> QED BY <3>1 DEF KeyOf
    <2>2. DOMAIN Contents = {KeyOf(w) : w \in Whole}
        BY ContentsAre, Mapped DEF MapInv
    <2> QED BY <2>1, <2>2 DEF Clash, Whole
<1>8. CASE Clash(row) /\ Unchanged /\ Answer(op, KeyOf(v), clash, {})
    BY <1>7, <1>8, UnchangedStep
<1>9. CASE ~Clash(row) /\ Stored(row) /\ Answer(op, KeyOf(v), done, {v})
    <2>1. ColumnsInv'
        BY <1>1, Inserting DEF MapInv
    <2> QED BY <1>2, <1>6, <1>7, <1>9, <2>1, StoredStep
<1> QED BY <1>4, <1>5, <1>8, <1>9

\* The cast of a row id that such a type has for a value is the row id.
LEMMA PlainId ==
    ASSUME NEW t \in {"int", "short", "byte", "bool"}, NEW id \in Nat, Stores(t, id)
    PROVE  id \in Values(t) /\ bind(t, id) = id /\ get(t, id) = id /\ IdCast(t, id) = id
<1>1. id \in Values(t) /\ bind(t, id) = id
    BY DEF Stores, bind
<1>2. get(t, id) = id
    <2>1. t \in Types
        BY DEF Types, Integral
    <2> QED BY <1>1, <2>1, RoundTrip
<1>3. IdCast(t, id) = id
    <2> USE ConversionsAssumption
    <2>1. CASE t = "int"
        BY <1>1, <2>1, SignedCast DEF IdCast, Values
    <2>2. CASE t = "short"
        BY <1>1, <2>2, SignedCast DEF IdCast, Values
    <2>3. CASE t = "byte"
        <3>1. id < 2 * NarrowHalf
            BY <1>1, <2>3 DEF Values, Unsigned
        <3>2. id % (2 * NarrowHalf) = id
            BY <3>1
        <3> QED BY <2>3, <3>2 DEF IdCast, ToUnsigned
    <2>4. CASE t = "bool"
        BY <1>1, <2>4 DEF IdCast, Values
    <2> QED BY <2>1, <2>2, <2>3, <2>4
<1> QED BY <1>1, <1>2, <1>3

LEMMA IdInsert ==
    ASSUME Numbered, FiltersAscend, PlainIds, MapInv, IdsFit', NEW v \in Given, insertWithoutId(v),
           ~Spent, ~Missing(IdRow(v))
    PROVE  /\ MapInv' /\ (Spent => Spent')
           /\ \E k \in AllKeys, r \in AllValues :
                 /\ k \notin DOMAIN Contents
                 /\ Contents' = [x \in DOMAIN Contents \cup {k} |-> IF x = k THEN r ELSE Contents[x]]
                 /\ Answer("autoinsert", k, "done", {r})
<1> DEFINE id == sequence + 1
           T == TypeOf[idPtrs[1]]
           given == [v EXCEPT ![idPtrs[1]] = IdCast(T, id)]
<1>1. /\ v = [f \in Fields |-> v[f]] /\ Valued(v)
      /\ idPtrs \in KeyTuples /\ sequence \in Nat /\ HasId(idPtrs)
    BY GivenValued DEF MapInv, ColumnsInv, insertWithoutId
<1>2. DOMAIN idPtrs = {1} /\ idPtrs[1] \in Fields /\ T \in {"int", "short", "byte", "bool"}
    <2>1. T \in {"int", "short", "byte", "bool"}
        BY <1>1 DEF PlainIds
    <2> QED BY <1>1, <2>1, Tuples DEF HasId
<1>3. /\ id \in Ids /\ Stored(IdRow(v))
      /\ Answer("autoinsert", KeyOf(given), "done", {given})
    BY DEF insertWithoutId, IdRow, Spent
<1>4. IdRow(v)[idPtrs[1]] = id
    BY <1>2 DEF IdRow
<1>5. Stores(T, id)
    BY <1>1, <1>3, <1>4, NextFits DEF MapInv
<1>6. /\ RowOK(IdRow(v))
      /\ \A f \in Fields : f # idPtrs[1] => IdRow(v)[f] = bind(TypeOf[f], v[f])
    BY <1>1, <1>5, RowOfId DEF Basics
<1> HIDE DEF T
<1>7. id \in Values(T) /\ bind(T, id) = id /\ get(T, id) = id /\ IdCast(T, id) = id
    BY <1>1, <1>2, <1>5, PlainId
<1>8. /\ given = [f \in Fields |-> IF f = idPtrs[1] THEN id ELSE v[f]]
      /\ given[idPtrs[1]] = id
    BY <1>1, <1>2, <1>7
<1> HIDE DEF given
<1>9. Read(IdRow(v)) = given
    <2>1. ASSUME NEW f \in Fields PROVE Read(IdRow(v))[f] = given[f]
        <3>1. CASE f = idPtrs[1]
            BY <1>4, <1>7, <1>8, <3>1, Reading DEF T
        <3>2. CASE f # idPtrs[1]
            BY <1>1, <1>6, <1>8, <3>2, Reading, RoundTrip, TypeOfField DEF Valued
        <3> QED BY <3>1, <3>2
    <2> QED BY <1>8, <2>1, ReadWhole
<1>10. KeyOf(given) = [i \in {1} |-> id]
    BY <1>2, <1>8 DEF KeyOf
<1>11. KeyOf(given) \notin DOMAIN Contents
    <2>1. DOMAIN Contents = {KeyOf(w) : w \in Whole}
        BY ContentsAre, Mapped DEF MapInv
    <2>2. ASSUME NEW row \in table, KeyOf(Read(row)) = KeyOf(given) PROVE FALSE
        <3>1. RowOK(row) /\ row[idPtrs[1]] <= sequence
            BY <1>1 DEF MapInv, ColumnsInv, IdsBelow
        <3>2. Read(row)[idPtrs[1]] = id
            BY <1>2, <1>10, <2>2 DEF KeyOf
        <3>3. row[idPtrs[1]] = id
            BY <1>2, <1>7, <3>1, <3>2, ReadRow DEF T
        <3> QED BY <1>1, <3>1, <3>3
    <2> QED BY <2>1, <2>2 DEF Whole
<1>12. /\ MapInv'
       /\ Contents' = [x \in DOMAIN Contents \cup {KeyOf(given)} |-> IF x = KeyOf(given) THEN given ELSE Contents[x]]
       /\ Spent => Spent'
    <2>1. ColumnsInv'
        BY <1>1, InsertingId DEF MapInv
    <2> QED BY <1>3, <1>6, <1>9, <1>11, <2>1, StoredStep
<1>13. KeyOf(given) \in AllKeys
    <2>1. <<id>> = [i \in {1} |-> id]
        OBVIOUS
    <2>2. <<id>> \in Asked(idPtrs)
        BY <1>1, <1>3, <1>7 DEF Asked, IdsOf, T
    <2> QED BY <1>1, <1>10, <2>1, <2>2 DEF AllKeys
<1>14. given \in AllValues
    BY <1>1, <1>3, <1>7 DEF AllValues, IdsOf, given, T
<1> QED BY <1>3, <1>11, <1>12, <1>13, <1>14

\* AutoincrementSet::insert throws only when the row ids are used up: no value that
\* is given lacks a column.
LEMMA IdStep ==
    ASSUME Numbered, FiltersAscend, PlainIds, MapInv, IdsFit', NEW v \in Given, insertWithoutId(v),
           KeyOf(v) \in AllKeys
    PROVE  MapInv' /\ Abstract!KNext
<1>1. ~Missing(IdRow(v))
    BY GivenValued, RowOfId DEF MapInv, ColumnsInv, Basics, insertWithoutId
<1>2. CASE Spent
    <2>1. Unchanged /\ Answer("autoinsert", KeyOf(v), "throws", {})
        BY <1>2 DEF insertWithoutId
    <2>2. MapInv' /\ Contents' = Contents /\ Spent' = Spent
        BY <2>1, UnchangedStep
    <2>3. Abstract!Throws("autoinsert", KeyOf(v))
        BY <1>2, <2>1, <2>2 DEF Answer, Abstract!Throws, Abstract!Answer
    <2> QED BY <2>2, <2>3 DEF Abstract!KNext
<1>3. CASE ~Spent
    <2>1. MapInv' /\ (Spent => Spent')
        BY <1>1, <1>3, IdInsert
    <2>2. PICK k \in AllKeys, r \in AllValues :
              /\ k \notin DOMAIN Contents
              /\ Contents' = [x \in DOMAIN Contents \cup {k} |-> IF x = k THEN r ELSE Contents[x]]
              /\ Answer("autoinsert", k, "done", {r})
        BY <1>1, <1>3, IdInsert
    <2>3. Abstract!AutoInsert(k, r)
        BY <1>3, <2>1, <2>2 DEF Answer, Abstract!AutoInsert, Abstract!Uses, Abstract!Put, Abstract!Answer
    <2> QED BY <2>1, <2>3 DEF Abstract!KNext
<1> QED BY <1>2, <1>3

LEMMA Selected ==
    ASSUME Numbered, FiltersAscend, MapInv, NEW k \in AllKeys, KeyValued(k), NEW b, HoldsKey(b, k), selectValue(k, b)
    PROVE  MapInv' /\ Abstract!KNext
<1>1. /\ Where(b) = {} <=> k \notin DOMAIN Contents
      /\ \A row \in Where(b) : Contents[k] = Read(row)
    BY Found
<1>2. MapInv' /\ Contents' = Contents /\ Spent' = Spent
    BY UnchangedStep DEF selectValue
<1>3. Abstract!Find(k)
    BY <1>1, <1>2 DEF selectValue, Answer, Abstract!Find, Abstract!Answer
<1> QED BY <1>2, <1>3 DEF Abstract!KNext

LEMMA GivenKeys ==
    ASSUME idPtrs \in KeyTuples
    PROVE  /\ Asked(idPtrs) \subseteq AllKeys
           /\ Given \subseteq AllValues
           /\ \A v \in Given : KeyOf(v) \in AllKeys
<1>1. \A v \in Given : KeyOf(v) \in Asked(idPtrs)
    BY DEF KeyOf, Asked, TuplesOf
<1> QED BY <1>1 DEF AllKeys, AllValues

LEMMA Deleted ==
    ASSUME Numbered, FiltersAscend, MapInv, NEW op \in {"delete", "trydelete"}, NEW k \in AllKeys, KeyValued(k),
           NEW b, HoldsKey(b, k), Delete(op, k, b)
    PROVE  MapInv' /\ Abstract!KNext
<1>1. /\ MapInv' /\ Spent' = Spent
      /\ \/ /\ op = "delete" /\ k \notin DOMAIN Contents /\ Contents' = Contents
            /\ Answer(op, k, "throws", {})
         \/ /\ op = "trydelete" \/ k \in DOMAIN Contents
            /\ Contents' = [x \in DOMAIN Contents \ {k} |-> Contents[x]]
            /\ Answer(op, k, "done", {})
    BY DeletedStep
<1>2. CASE /\ op = "delete" /\ k \notin DOMAIN Contents /\ Contents' = Contents
           /\ Answer(op, k, "throws", {})
    <2>1. Abstract!Throws("delete", k)
        BY <1>1, <1>2 DEF Answer, Abstract!Throws, Abstract!Answer
    <2> QED BY <1>1, <2>1 DEF Abstract!KNext
<1>3. CASE /\ op = "trydelete" \/ k \in DOMAIN Contents
           /\ Contents' = [x \in DOMAIN Contents \ {k} |-> Contents[x]]
           /\ Answer(op, k, "done", {})
    <2>1. Abstract!Delete(k) \/ Abstract!TryDelete(k)
        BY <1>1, <1>3 DEF Answer, Abstract!Delete, Abstract!TryDelete, Abstract!Remove, Abstract!Answer
    <2> QED BY <1>1, <2>1 DEF Abstract!KNext
<1> QED BY <1>1, <1>2, <1>3

\* The row that Set::update makes is that of the given value.
LEMMA ChangedWhole ==
    ASSUME Numbered, FiltersAscend, idPtrs \in KeyTuples, NEW v \in Given, NEW row, KeyOf(Read(row)) = KeyOf(v)
    PROVE  Read(ChangedRow(query.set, bindAll(v), row)) = v
<1> DEFINE new == ChangedRow(query.set, bindAll(v), row)
<1>1. v = [f \in Fields |-> v[f]] /\ Valued(v)
    BY GivenValued
<1>2. ASSUME NEW f \in Fields PROVE Read(new)[f] = v[f]
    <2>1. CASE contains(idIndices, TypeIndex[f])
        <3>1. PICK i \in DOMAIN idPtrs : f = idPtrs[i]
            BY <2>1, Places DEF idIndices, idIndicesOf
        <3>2. new[f] = row[f]
            BY <2>1, QueryColumns DEF ChangedRow
        <3>3. Read(row)[f] = v[f]
            BY <3>1 DEF KeyOf
        <3> HIDE DEF new
        <3> QED BY <3>2, <3>3, Reading
    <2>2. CASE ~contains(idIndices, TypeIndex[f])
        <3>1. new[f] = bindAll(v)[TypeIndex[f] + 1]
            BY <2>2, QueryColumns DEF ChangedRow
        <3>2. bindAll(v)[TypeIndex[f] + 1] = bind(TypeOf[f], v[f])
            BY Bound, FieldOfNumber DEF bindAll
        <3> HIDE DEF new
        <3> QED BY <1>1, <3>1, <3>2, Reading, RoundTrip, TypeOfField DEF Valued
    <2> QED BY <2>1, <2>2
<1> HIDE DEF new
<1>3. Read(new) = v
    BY <1>1, <1>2, ReadWhole
<1> QED BY <1>3 DEF new

LEMMA Updated ==
    ASSUME Numbered, FiltersAscend, MapInv, NEW v \in Given, update(v)
    PROVE  MapInv' /\ Abstract!KNext
<1> DEFINE k == KeyOf(v)
<1>1. idPtrs \in KeyTuples /\ k \in AllKeys /\ v \in AllValues
    BY GivenKeys DEF MapInv, ColumnsInv
<1>2. KeyValued(k) /\ HoldsKey(bindAll(v), k) /\ Sets(query.set, bindAll(v))
    BY <1>1, GivenValued, KeyOfValued, KeysHeld, SetsValue
<1>3. \A i \in DOMAIN idPtrs : idPtrs[i] \notin DOMAIN query.set
    BY <1>1, QueryColumns, Places DEF idIndices, idIndicesOf
<1>4. Update("update", k, v, query.set, bindAll(v))
    BY DEF update
<1> HIDE DEF k
<1>5. /\ MapInv' /\ Spent' = Spent
      /\ \/ /\ k \notin DOMAIN Contents /\ Contents' = Contents
            /\ Answer("update", k, "throws", {})
         \/ \E row \in table :
               /\ RowOK(row) /\ KeyOf(Read(row)) = k /\ k \in DOMAIN Contents /\ Contents[k] = Read(row)
               /\ Contents' = [x \in DOMAIN Contents \cup {k} |->
                                 IF x = k THEN Read(ChangedRow(query.set, bindAll(v), row)) ELSE Contents[x]]
               /\ Answer("update", k, "done", {v})
    BY <1>2, <1>3, <1>4, UpdatedStep
<1>6. CASE /\ k \notin DOMAIN Contents /\ Contents' = Contents
           /\ Answer("update", k, "throws", {})
    <2>1. Abstract!Throws("update", k)
        BY <1>5, <1>6 DEF Answer, Abstract!Throws, Abstract!Answer
    <2> QED BY <1>1, <1>5, <2>1 DEF Abstract!KNext
<1>7. ASSUME NEW row \in table, KeyOf(Read(row)) = k, k \in DOMAIN Contents,
             Contents' = [x \in DOMAIN Contents \cup {k} |->
                            IF x = k THEN Read(ChangedRow(query.set, bindAll(v), row)) ELSE Contents[x]],
             Answer("update", k, "done", {v})
      PROVE  MapInv' /\ Abstract!KNext
    <2>1. Read(ChangedRow(query.set, bindAll(v), row)) = v
        BY <1>1, <1>7, ChangedWhole DEF k
    <2>2. Abstract!Update(k, v)
        BY <1>5, <1>7, <2>1 DEF Answer, Abstract!Update, Abstract!Put, Abstract!Answer
    <2> QED BY <1>1, <1>5, <2>2 DEF Abstract!KNext
<1> QED BY <1>5, <1>6, <1>7

\* The row that an Updater makes is that of the merged value.
LEMMA ChangedPart ==
    ASSUME Numbered, FiltersAscend, idPtrs \in KeyTuples, NEW v \in Given, NEW b, NEW row, RowOK(row),
           \A f \in Fields : contains(valueIndices, TypeIndex[f]) =>
                                b[TypeIndex[f] + 1] = bind(TypeOf[f], v[f])
    PROVE  Read(ChangedRow(UpdaterQuery, b, row)) = Merged(Read(row), v)
<1> DEFINE new == ChangedRow(UpdaterQuery, b, row)
<1>1. Valued(v)
    BY GivenValued
<1>2. ASSUME NEW f \in Fields
      PROVE  (\E i \in DOMAIN UpdaterPtrs : UpdaterPtrs[i] = f) <=> contains(valueIndices, TypeIndex[f])
    BY Places DEF valueIndices
<1>3. ASSUME NEW f \in Fields PROVE Read(new)[f] = Merged(Read(row), v)[f]
    <2>1. CASE contains(valueIndices, TypeIndex[f])
        <3>1. new[f] = bind(TypeOf[f], v[f])
            BY <2>1, QueryColumns DEF ChangedRow
        <3>2. Merged(Read(row), v)[f] = v[f]
            BY <1>2, <2>1 DEF Merged
        <3> HIDE DEF new
        <3> QED BY <1>1, <3>1, <3>2, Reading, RoundTrip, TypeOfField DEF Valued
    <2>2. CASE ~contains(valueIndices, TypeIndex[f])
        <3>1. new[f] = row[f]
            BY <2>2, QueryColumns DEF ChangedRow
        <3>2. Merged(Read(row), v)[f] = Read(row)[f]
            BY <1>2, <2>2 DEF Merged
        <3> HIDE DEF new
        <3> QED BY <3>1, <3>2, Reading
    <2> QED BY <2>1, <2>2
<1>4. Merged(Read(row), v) = [f \in Fields |-> Merged(Read(row), v)[f]]
    BY DEF Merged
<1> HIDE DEF new
<1>5. Read(new) = Merged(Read(row), v)
    BY <1>3, <1>4, ReadWhole
<1> QED BY <1>5 DEF new

LEMMA UpdatedPart ==
    ASSUME Numbered, FiltersAscend, MapInv, NEW v \in Given, NEW k \in AllKeys, KeyValued(k),
           NEW b, HoldsKey(b, k), Sets(UpdaterQuery, b),
           \A f \in Fields : contains(valueIndices, TypeIndex[f]) =>
                                b[TypeIndex[f] + 1] = bind(TypeOf[f], v[f]),
           Update("updater", k, v, UpdaterQuery, b)
    PROVE  MapInv' /\ Abstract!KNext
<1>1. idPtrs \in KeyTuples /\ v \in AllValues
    BY GivenKeys DEF MapInv, ColumnsInv
<1>2. \A i \in DOMAIN idPtrs : idPtrs[i] \notin DOMAIN UpdaterQuery
    BY <1>1, QueryColumns, KeyField
<1>3. /\ MapInv' /\ Spent' = Spent
      /\ \/ /\ k \notin DOMAIN Contents /\ Contents' = Contents
            /\ Answer("updater", k, "throws", {})
         \/ \E row \in table :
               /\ RowOK(row) /\ KeyOf(Read(row)) = k /\ k \in DOMAIN Contents /\ Contents[k] = Read(row)
               /\ Contents' = [x \in DOMAIN Contents \cup {k} |->
                                 IF x = k THEN Read(ChangedRow(UpdaterQuery, b, row)) ELSE Contents[x]]
               /\ Answer("updater", k, "done", {v})
    BY <1>2, UpdatedStep
<1>4. CASE /\ k \notin DOMAIN Contents /\ Contents' = Contents
           /\ Answer("updater", k, "throws", {})
    <2>1. Abstract!Throws("updater", k)
        BY <1>3, <1>4 DEF Answer, Abstract!Throws, Abstract!Answer
    <2> QED BY <1>3, <2>1 DEF Abstract!KNext
<1>5. ASSUME NEW row \in table, RowOK(row), k \in DOMAIN Contents, Contents[k] = Read(row),
             Contents' = [x \in DOMAIN Contents \cup {k} |->
                            IF x = k THEN Read(ChangedRow(UpdaterQuery, b, row)) ELSE Contents[x]],
             Answer("updater", k, "done", {v})
      PROVE  MapInv' /\ Abstract!KNext
    <2>1. Read(ChangedRow(UpdaterQuery, b, row)) = Merged(Contents[k], v)
        BY <1>1, <1>5, ChangedPart
    <2>2. Abstract!UpdatePart(k, v)
        BY <1>3, <1>5, <2>1 DEF Answer, Abstract!UpdatePart, Abstract!Put, Abstract!Answer
    <2> QED BY <1>1, <1>3, <2>2 DEF Abstract!KNext
<1> QED BY <1>3, <1>4, <1>5

LEMMA MapStart == Init => MapInv /\ Abstract!KInit
<1> SUFFICES ASSUME Init PROVE MapInv /\ Abstract!KInit
    OBVIOUS
<1>1. ColumnsInv
    BY ColumnsStart
<1>2. Whole = {}
    BY DEF Init, Whole
<1>3. MapInv
    BY <1>1, <1>2 DEF Init, MapInv, OneForEachKey, IdsBelow
<1>4. DOMAIN Contents = {} /\ Contents \in [DOMAIN Contents -> AllValues]
    BY <1>2 DEF Contents, Whole
<1>5. DOMAIN Contents \in SUBSET AllKeys
    BY <1>4
<1>6. Spent = FALSE
    BY ConversionsAssumption DEF Init, Spent, Ids
<1> QED BY <1>3, <1>4, <1>5, <1>6 DEF Init, NoAnswer, Abstract!KInit

LEMMA MapStep ==
    ASSUME Numbered, FiltersAscend, PlainIds
    PROVE  MapInv /\ IdsFit' /\ [Next]_vars => MapInv' /\ [Abstract!KNext]_<<Contents, answer, Spent>>
<1> SUFFICES ASSUME MapInv, IdsFit', [Next]_vars
             PROVE  MapInv' /\ [Abstract!KNext]_<<Contents, answer, Spent>>
    OBVIOUS
<1>1. /\ idPtrs \in KeyTuples /\ Given \subseteq AllValues
      /\ \A v \in Given : KeyOf(v) \in AllKeys /\ KeyValued(KeyOf(v)) /\ Valued(v)
      /\ \A k \in Asked(idPtrs) : k \in AllKeys /\ KeyValued(k)
    BY GivenKeys, GivenValued, KeyOfValued, AskedValued DEF MapInv, ColumnsInv
<1>2. ASSUME NEW v \in Given, insert(v) PROVE MapInv' /\ Abstract!KNext
    <2>1. Inserts("insert", v, "done", "throws")
        BY <1>2 DEF insert
    <2>2. /\ MapInv' /\ (Spent => Spent')
          /\ \/ /\ KeyOf(v) \in DOMAIN Contents /\ Contents' = Contents /\ Spent' = Spent
                /\ Answer("insert", KeyOf(v), "throws", {})
             \/ /\ KeyOf(v) \notin DOMAIN Contents
                /\ Contents' = [x \in DOMAIN Contents \cup {KeyOf(v)} |-> IF x = KeyOf(v) THEN v ELSE Contents[x]]
                /\ Answer("insert", KeyOf(v), "done", {v})
        BY <2>1, WholeInsert
    <2>3. Abstract!Throws("insert", KeyOf(v)) \/ Abstract!Insert(KeyOf(v), v)
        BY <2>2 DEF Answer, Abstract!Throws, Abstract!Insert, Abstract!Uses, Abstract!Put, Abstract!Answer
    <2> QED BY <1>1, <2>2, <2>3 DEF Abstract!KNext
<1>3. ASSUME NEW v \in Given, tryinsert(v) PROVE MapInv' /\ Abstract!KNext
    <2>1. Inserts("tryinsert", v, "true", "false")
        BY <1>3 DEF tryinsert
    <2>2. /\ MapInv' /\ (Spent => Spent')
          /\ \/ /\ KeyOf(v) \in DOMAIN Contents /\ Contents' = Contents /\ Spent' = Spent
                /\ Answer("tryinsert", KeyOf(v), "false", {})
             \/ /\ KeyOf(v) \notin DOMAIN Contents
                /\ Contents' = [x \in DOMAIN Contents \cup {KeyOf(v)} |-> IF x = KeyOf(v) THEN v ELSE Contents[x]]
                /\ Answer("tryinsert", KeyOf(v), "true", {v})
        BY <2>1, WholeInsert
    <2>3. Abstract!TryInsert(KeyOf(v), v)
        BY <2>2 DEF Answer, Abstract!TryInsert, Abstract!Uses, Abstract!Put, Abstract!Answer
    <2> QED BY <1>1, <2>2, <2>3 DEF Abstract!KNext
<1>4. ASSUME NEW v \in Given, update(v) PROVE MapInv' /\ Abstract!KNext
    BY <1>4, Updated
<1>5. ASSUME NEW v \in Given, updateValue(v) PROVE MapInv' /\ Abstract!KNext
    <2> DEFINE chosen == Chosen(idIndices) \cup Chosen(valueIndices)
               b == bindValue(v, chosen)
    <2>1. ASSUME NEW f \in Fields, contains(valueIndices, TypeIndex[f])
          PROVE  b[TypeIndex[f] + 1] = bind(TypeOf[f], v[f])
        <3>1. TypeIndex[f] \in chosen
            BY <2>1, FieldOfNumber DEF Chosen
        <3> QED BY <3>1, Bound
    <2>2. HoldsKey(b, KeyOf(v)) /\ Sets(UpdaterQuery, b)
        BY <1>1, KeysHeld, SetsValue
    <2>3. Update("updater", KeyOf(v), v, UpdaterQuery, b)
        BY <1>5 DEF updateValue
    <2> HIDE DEF b
    <2> QED BY <1>1, <2>1, <2>2, <2>3, UpdatedPart
<1>6. ASSUME NEW v \in Given, insertWithoutId(v) PROVE MapInv' /\ Abstract!KNext
    BY <1>1, <1>6, IdStep
<1>7. ASSUME NEW v \in Given, ByKeyFromValue(v) PROVE MapInv' /\ Abstract!KNext
    <2>1. KeyOf(v) \in AllKeys /\ KeyValued(KeyOf(v)) /\ HoldsKey(bindKeyFromValue(v), KeyOf(v))
        BY <1>1, KeysHeld
    <2>2. CASE find(v)
        BY <2>1, <2>2, Selected DEF find
    <2>3. CASE deleteElement(v)
        BY <2>1, <2>3, Deleted DEF deleteElement
    <2>4. CASE tryDeleteRecord(v)
        BY <2>1, <2>4, Deleted DEF tryDeleteRecord
    <2> QED BY <1>7, <2>2, <2>3, <2>4 DEF ByKeyFromValue
<1>8. ASSUME NEW k \in Asked(idPtrs), ByKey(k) PROVE MapInv' /\ Abstract!KNext
    <2>1. k \in AllKeys /\ KeyValued(k) /\ HoldsKey(bindKey(k), k)
        BY <1>1, KeysHeld
    <2>2. CASE findKey(k)
        BY <2>1, <2>2, Selected DEF findKey
    <2>3. CASE deleteKey(k)
        BY <2>1, <2>3, Deleted DEF deleteKey
    <2>4. CASE tryDeleteKey(k)
        BY <2>1, <2>4, Deleted DEF tryDeleteKey
    <2> QED BY <1>8, <2>2, <2>3, <2>4 DEF ByKey
<1>9. ASSUME NEW k \in Asked(idPtrs), NEW v \in Given, updateTuple(k, v) PROVE MapInv' /\ Abstract!KNext
    <2>1. Update("updater", k, v, UpdaterQuery, TupleBound(k, v))
        BY <1>9 DEF updateTuple, TupleBound
    <2>2. HoldsKey(TupleBound(k, v), k) /\ Sets(UpdaterQuery, TupleBound(k, v))
        BY <1>1, KeysHeld, SetsTuple
    <2>3. \A f \in Fields : contains(valueIndices, TypeIndex[f]) =>
              TupleBound(k, v)[TypeIndex[f] + 1] = bind(TypeOf[f], v[f])
        BY BoundTuple
    <2> QED BY <1>1, <2>1, <2>2, <2>3, UpdatedPart
<1>10. CASE UNCHANGED vars
    <2>1. Unchanged /\ answer' = answer
        BY <1>10 DEF vars, Unchanged
    <2> QED BY <2>1, UnchangedStep
<1> QED BY <1>2, <1>3, <1>4, <1>5, <1>6, <1>7, <1>8, <1>9, <1>10 DEF Next

LEMMA MapAlways ==
    ASSUME PlainIds
    PROVE  /\ Init => Basics /\ (IdsFit => MapInv)
           /\ Basics /\ (IdsFit => MapInv) /\ [Next]_vars =>
                 /\ Basics' /\ (IdsFit' => IdsFit /\ MapInv')
                 /\ [IdsFit' => Abstract!KNext]_<<Contents, answer, Spent>>
<1>1. Init => Basics /\ (IdsFit => MapInv)
    BY MapStart, ColumnsStart
<1>2. ASSUME Basics, IdsFit => MapInv, [Next]_vars
      PROVE  /\ Basics' /\ (IdsFit' => IdsFit /\ MapInv')
             /\ [IdsFit' => Abstract!KNext]_<<Contents, answer, Spent>>
    <2>1. Basics' /\ (IdsFit' => IdsFit)
        BY <1>2, OneNumbering, FilterOrder, BasicsStep
    <2>2. ASSUME IdsFit' PROVE MapInv' /\ [Abstract!KNext]_<<Contents, answer, Spent>>
        BY <1>2, <2>1, <2>2, OneNumbering, FilterOrder, MapStep
    <2> QED BY <2>1, <2>2
<1> QED BY <1>1, <1>2

\* For every structure, every key and every tuple of an Updater, a Set and an
\* AutoincrementSet are the map of whole values that the README promises: a value
\* is found under its key as it was inserted, field for field, and a call fails
\* for its key only, or when the row ids are used up (Set.h:82-228,
\* Updater.h:29-80, AutoincrementSet.h:18-50). It is so up to the step that gives
\* out a row id that is no value of the id's type.
THEOREM ColumnsRefinement ==
    ASSUME PlainIds
    PROVE  Spec => RefinesKeyedSet
<1> DEFINE Inv == Basics /\ (IdsFit => MapInv)
<1>1. Init => Inv /\ Abstract!KInit
    BY MapAlways, MapStart
<1>2. Inv /\ [Next]_vars => Inv' /\ [IdsFit' => Abstract!KNext]_<<Contents, answer, Spent>>
    BY MapAlways
<1> QED BY <1>1, <1>2, PTL DEF Spec, RefinesKeyedSet

\* What AutoincrementSet::insert has put into the map is in it until the next call.
LastIsIn ==
    answer.op = "autoinsert" /\ answer.out = "done" =>
        answer.key \in DOMAIN Contents /\ answer.got = {Contents[answer.key]}

\* The id that an AutoincrementSet has assigned finds the object, when its type is
\* not one that is stored with the sign bit flipped, and as long as the row ids
\* are within its range (AutoincrementSet.h:119-126,
\* Tests/AutoincrementSetTest.cpp:143-150).
THEOREM AssignedIdCorrect ==
    ASSUME PlainIds
    PROVE  Spec => []AssignedIdFinds
<1> DEFINE Inv == Basics /\ (IdsFit => MapInv /\ LastIsIn)
<1>1. Init => Inv
    BY MapAlways DEF Init, NoAnswer, LastIsIn
<1>2. Inv /\ [Next]_vars => Inv'
    <2> SUFFICES ASSUME Inv, [Next]_vars, IdsFit' PROVE LastIsIn'
        BY MapAlways
    <2>1. LastIsIn /\ [Abstract!KNext]_<<Contents, answer, Spent>>
        BY MapAlways
    <2>2. CASE Contents' = Contents /\ answer' = answer
        BY <2>1, <2>2 DEF LastIsIn
    <2>3. CASE Abstract!KNext
        <3>1. PICK k \in AllKeys :
                 \/ Abstract!Find(k) \/ Abstract!Delete(k) \/ Abstract!TryDelete(k)
                 \/ \E op \in {"insert", "autoinsert", "tryinsert", "find", "update", "updater",
                               "delete", "trydelete"} : Abstract!Throws(op, k)
                 \/ \E r \in AllValues :
                      \/ Abstract!Insert(k, r) \/ Abstract!AutoInsert(k, r) \/ Abstract!TryInsert(k, r)
                      \/ Abstract!Update(k, r) \/ Abstract!UpdatePart(k, r)
            BY <2>3 DEF Abstract!KNext
        <3>2. ASSUME NEW r \in AllValues, Abstract!AutoInsert(k, r) PROVE LastIsIn'
            <4>1. k \in DOMAIN Contents' /\ answer'.key = k /\ answer'.got = {r} /\ Contents'[k] = r
                BY <3>2 DEF Abstract!AutoInsert, Abstract!Put, Abstract!Answer
            <4> QED BY <4>1 DEF LastIsIn
        <3>3. ASSUME ~ \E r \in AllValues : Abstract!AutoInsert(k, r)
              PROVE  answer'.op # "autoinsert" \/ answer'.out # "done"
            BY <3>1, <3>3 DEF Abstract!Find, Abstract!Delete, Abstract!TryDelete, Abstract!Throws,
                              Abstract!Insert, Abstract!TryInsert, Abstract!Update, Abstract!UpdatePart,
                              Abstract!Answer
        <3> QED BY <3>2, <3>3 DEF LastIsIn
    <2> QED BY <2>1, <2>2, <2>3
<1>3. Inv => AssignedIdFinds
    <2> SUFFICES ASSUME MapInv, LastIsIn, answer.op = "autoinsert", answer.out = "done"
                 PROVE  {Read(row) : row \in Where(bindKey(answer.key))} = answer.got
        BY DEF AssignedIdFinds
    <2> DEFINE k == answer.key
    <2>1. idPtrs \in KeyTuples /\ k \in DOMAIN Contents /\ answer.got = {Contents[k]}
        BY DEF LastIsIn, MapInv, ColumnsInv
    <2> HIDE DEF k
    <2>2. PICK row \in table : k = KeyOf(Read(row))
        BY <2>1 DEF Contents
    <2>3. Valued(Read(row))
        BY <2>2, OneNumbering, ReadRow DEF MapInv, ColumnsInv, Valued
    <2>4. KeyValued(k) /\ HoldsKey(bindKey(k), k)
        BY <2>1, <2>2, <2>3, OneNumbering, KeyOfValued, KeysHeld
    <2>5. /\ Where(bindKey(k)) # {}
          /\ \A r \in Where(bindKey(k)) : Read(r) = Contents[k]
        BY <2>1, <2>4, OneNumbering, FilterOrder, Found
    <2> QED BY <2>1, <2>5 DEF k
<1> QED BY <1>1, <1>2, <1>3, PTL DEF Spec
=============================================================================
