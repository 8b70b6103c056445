-------------------------- MODULE ReflectionProofs --------------------------
(***************************************************************************)
(* The numbers of fields, for structures of any width and depth. What a    *)
(* recursive definition computes is found by induction: a set of cases in  *)
(* which something fails has a case of least nesting.                      *)
(***************************************************************************)
EXTENDS Reflection, TLAPS, FiniteSetTheorems

-----------------------------------------------------------------------------
(* Induction and recursion.                                                *)

Less == {p \in Nat \X Nat : p[1] < p[2]}

\* A set of numbers has a least element.
LEMMA Least ==
    ASSUME NEW T \in SUBSET Nat, T # {}
    PROVE  \E n \in T : \A m \in T : n <= m
<1>1. IsWellFoundedOn(Less, Nat)
    <2>1. Less = OpToRel(<, Nat)
        BY DEF Less, OpToRel
    <2> QED BY <2>1, NatLessThanWellFounded
<1>2. PICK n \in T : \A m \in T : ~ (<<m, n>> \in Less)
    BY <1>1, WFMin
<1>3. ASSUME NEW m \in T PROVE n <= m
    <2>1. m \in Nat /\ n \in Nat
        OBVIOUS
    <2>2. ~ (m < n)
        BY <1>2, <2>1 DEF Less
    <2> QED BY <2>1, <2>2
<1> QED BY <1>3

\* A recursion that only looks at what is below, by some measure, defines a
\* function: Phi works out all values from given ones.
Agree(g, h, D, mu, n) == \A y \in D : mu[y] < n => g[y] = h[y]

Causal(Phi, D, V, mu) ==
    \A g, h \in [D -> V], x \in D : Agree(g, h, D, mu, mu[x]) => Phi[g][x] = Phi[h][x]

\* Right up to n.
Upto(Phi, D, V, mu, n) == {g \in [D -> V] : Agree(g, Phi[g], D, mu, n)}

LEMMA UptoUnique ==
    ASSUME NEW D, NEW V, NEW mu \in [D -> Nat], NEW Phi \in [[D -> V] -> [D -> V]],
           Causal(Phi, D, V, mu), NEW n \in Nat,
           NEW g \in Upto(Phi, D, V, mu, n), NEW h \in Upto(Phi, D, V, mu, n)
    PROVE  Agree(g, h, D, mu, n)
<1> DEFINE Bad == {mu[y] : y \in {z \in D : mu[z] < n /\ g[z] # h[z]}}
<1>1. g \in [D -> V] /\ h \in [D -> V] /\ Agree(g, Phi[g], D, mu, n) /\ Agree(h, Phi[h], D, mu, n)
    BY DEF Upto
<1>2. SUFFICES ASSUME NEW w \in D, mu[w] < n, g[w] # h[w] PROVE FALSE
    BY DEF Agree
<1>3. mu[w] \in Bad /\ Bad \in SUBSET Nat
    BY <1>2
<1> HIDE DEF Bad
<1>4. PICK m \in Bad : \A k \in Bad : m <= k
    BY <1>3, Least
<1>5. PICK x \in D : mu[x] = m /\ m < n /\ g[x] # h[x]
    BY DEF Bad
<1>6. ASSUME NEW y \in D, mu[y] < mu[x] PROVE g[y] = h[y]
    <2>1. mu[y] \in Nat /\ mu[x] \in Nat /\ mu[y] < n
        BY <1>5, <1>6
    <2>2. g[y] # h[y] => mu[y] \in Bad
        BY <2>1 DEF Bad
    <2> QED BY <1>4, <1>5, <1>6, <2>1, <2>2
<1>7. Phi[g][x] = Phi[h][x]
    BY <1>1, <1>6 DEF Agree, Causal
<1> QED BY <1>1, <1>5, <1>7 DEF Agree

LEMMA UptoExists ==
    ASSUME NEW D, NEW V, V # {}, NEW mu \in [D -> Nat], NEW Phi \in [[D -> V] -> [D -> V]],
           Causal(Phi, D, V, mu), NEW n \in Nat
    PROVE  Upto(Phi, D, V, mu, n) # {}
<1> DEFINE Bad == {k \in Nat : Upto(Phi, D, V, mu, k) = {}}
<1>1. SUFFICES ASSUME Bad # {} PROVE FALSE
    OBVIOUS
<1>2. Bad \in SUBSET Nat
    OBVIOUS
<1>3. PICK m \in Bad : \A k \in Bad : m <= k
    <2> HIDE DEF Bad
    <2> QED BY <1>1, <1>2, Least
<1>4. m # 0
    <2>1. PICK v \in V : TRUE
        OBVIOUS
    <2>2. [x \in D |-> v] \in Upto(Phi, D, V, mu, 0)
        BY DEF Upto, Agree
    <2> QED BY <2>2
<1>5. m - 1 \in Nat /\ ~ (m - 1 \in Bad)
    BY <1>2, <1>3, <1>4
<1>6. PICK g : g \in Upto(Phi, D, V, mu, m - 1)
    BY <1>5
<1>7. g \in [D -> V] /\ Phi[g] \in [D -> V] /\ Agree(g, Phi[g], D, mu, m - 1)
    BY <1>6 DEF Upto
<1>8. ASSUME NEW x \in D, mu[x] < m PROVE Phi[g][x] = Phi[Phi[g]][x]
    <2>1. Agree(g, Phi[g], D, mu, mu[x])
        <3>1. \A y \in D : mu[y] < mu[x] => mu[y] < m - 1
            BY <1>2, <1>3, <1>8
        <3> QED BY <1>7, <3>1 DEF Agree
    <2> QED BY <1>7, <2>1 DEF Causal
<1>9. Phi[g] \in Upto(Phi, D, V, mu, m)
    BY <1>7, <1>8 DEF Upto, Agree
<1> QED BY <1>9

Recursive(Phi, D, V, mu) ==
    /\ V # {} /\ mu \in [D -> Nat] /\ Phi \in [[D -> V] -> [D -> V]]
    /\ Causal(Phi, D, V, mu)

Solutions(Phi, D, V) == {f \in [D -> V] : f = Phi[f]}

LEMMA Recursion ==
    ASSUME NEW D, NEW V, NEW mu, NEW Phi, Recursive(Phi, D, V, mu)
    PROVE  Solutions(Phi, D, V) # {}
<1> USE DEF Recursive
<1> DEFINE U(n) == Upto(Phi, D, V, mu, n)
           at(x) == CHOOSE g : g \in U(mu[x] + 1)
           f == [x \in D |-> at(x)[x]]
<1>1. ASSUME NEW x \in D
      PROVE  at(x) \in U(mu[x] + 1) /\ at(x) \in [D -> V] /\ Agree(at(x), Phi[at(x)], D, mu, mu[x] + 1)
    <2>1. at(x) \in U(mu[x] + 1)
        <3>1. mu[x] + 1 \in Nat
            OBVIOUS
        <3>2. U(mu[x] + 1) # {}
            BY <3>1, UptoExists
        <3> QED BY <3>2
    <2> QED BY <2>1 DEF Upto
<1>2. f \in [D -> V]
    BY <1>1
<1>3. ASSUME NEW x \in D PROVE f[x] = Phi[f][x]
    <2> DEFINE g == at(x)
    <2>1. g \in U(mu[x] + 1) /\ g \in [D -> V] /\ Agree(g, Phi[g], D, mu, mu[x] + 1) /\ f[x] = g[x]
        BY <1>1
    <2>2. ASSUME NEW y \in D, mu[y] < mu[x] PROVE f[y] = g[y]
        <3>1. at(y) \in U(mu[y] + 1) /\ f[y] = at(y)[y]
            BY <1>1
        <3>2. g \in U(mu[y] + 1)
            <4>1. mu[x] \in Nat /\ mu[y] \in Nat
                OBVIOUS
            <4>2. \A z \in D : mu[z] < mu[y] + 1 => mu[z] < mu[x] + 1
                BY <2>2, <4>1
            <4> HIDE DEF g
            <4> QED BY <2>1, <4>2 DEF Upto, Agree
        <3>3. mu[y] + 1 \in Nat /\ mu[y] < mu[y] + 1
            OBVIOUS
        <3> HIDE DEF g, f, at
        <3>4. Agree(at(y), g, D, mu, mu[y] + 1)
            BY <3>1, <3>2, <3>3, UptoUnique
        <3> QED BY <3>1, <3>3, <3>4 DEF Agree
    <2> HIDE DEF f, g
    <2>3. Phi[f][x] = Phi[g][x]
        BY <1>2, <2>1, <2>2 DEF Causal, Agree
    <2>4. g[x] = Phi[g][x]
        BY <2>1 DEF Agree
    <2> QED BY <2>1, <2>3, <2>4
<1> HIDE DEF f
<1>4. Phi[f] \in [D -> V]
    BY <1>2
<1>5. f = Phi[f]
    BY <1>2, <1>3, <1>4
<1> QED BY <1>2, <1>5 DEF Solutions

\* What holds at 0, and at i when it holds at i - 1, holds up to n.
LEMMA UpTo ==
    ASSUME NEW n \in Nat, NEW Good, 0 \in Good, \A i \in 1..n : i - 1 \in Good => i \in Good
    PROVE  0..n \subseteq Good
<1> DEFINE Bad == {i \in 0..n : i \notin Good}
<1>1. SUFFICES ASSUME NEW w \in 0..n, w \notin Good PROVE FALSE
    OBVIOUS
<1>2. w \in Bad /\ Bad \in SUBSET Nat
    BY <1>1
<1>3. PICK m \in Bad : \A k \in Bad : m <= k
    <2> HIDE DEF Bad
    <2> QED BY <1>2, Least
<1>4. m \in 1..n /\ m - 1 \in 0..n /\ m - 1 < m
    BY <1>3
<1>5. m - 1 \in Good
    BY <1>3, <1>4
<1> QED BY <1>3, <1>4, <1>5

-----------------------------------------------------------------------------
(* Structures.                                                             *)

LEMMA Members ==
    ASSUME NEW s \in Structs
    PROVE  /\ Len(s) \in Nat /\ DOMAIN s = 1..Len(s)
           /\ \A i \in 1..Len(s) :
                /\ i \in Nat
                /\ s[i].nested \in BOOLEAN
                /\ s[i].nested => /\ s[i].members \in Structs
                                  /\ Nesting[s[i].members] < Nesting[s]
<1>1. s \in Seq({Field} \cup {Struct(t) : t \in Structs})
    BY ReflectionAssumption
<1>2. Len(s) \in Nat /\ DOMAIN s = 1..Len(s)
    BY <1>1
<1>3. ASSUME NEW i \in 1..Len(s) PROVE s[i] = Field \/ \E t \in Structs : s[i] = Struct(t)
    BY <1>1
<1>4. ASSUME NEW i \in 1..Len(s)
      PROVE  /\ s[i].nested \in BOOLEAN
             /\ s[i].nested => s[i].members \in Structs
    <2>1. CASE s[i] = Field
        <3>1. s[i].nested = FALSE
            BY <2>1 DEF Field
        <3> QED BY <3>1
    <2>2. CASE \E t \in Structs : s[i] = Struct(t)
        <3>1. PICK t \in Structs : s[i] = Struct(t)
            BY <2>2
        <3>2. s[i].nested = TRUE /\ s[i].members = t
            BY <3>1 DEF Struct
        <3> QED BY <3>2
    <2> QED BY <1>3, <2>1, <2>2
<1> QED BY <1>2, <1>4, ReflectionAssumption

\* What holds of a structure when it holds of those nested in it holds of all.
LEMMA Structural ==
    ASSUME NEW Good,
           \A s \in Structs :
              (\A i \in 1..Len(s) : s[i].nested => s[i].members \in Good) => s \in Good
    PROVE  Structs \subseteq Good
<1> DEFINE Bad == {Nesting[t] : t \in {u \in Structs : u \notin Good}}
<1>1. SUFFICES ASSUME NEW w \in Structs, w \notin Good PROVE FALSE
    OBVIOUS
<1>2. Nesting[w] \in Bad /\ Bad \in SUBSET Nat
    BY <1>1, ReflectionAssumption
<1>3. PICK m \in Bad : \A k \in Bad : m <= k
    <2> HIDE DEF Bad
    <2> QED BY <1>2, Least
<1>4. PICK s \in Structs : s \notin Good /\ m = Nesting[s]
    BY <1>3
<1>5. ASSUME NEW i \in 1..Len(s), s[i].nested PROVE s[i].members \in Good
    <2>1. s[i].members \in Structs /\ Nesting[s[i].members] < Nesting[s]
        BY <1>5, Members
    <2>2. Nesting[s[i].members] \in Nat /\ Nesting[s] \in Nat
        BY <2>1, ReflectionAssumption
    <2>3. s[i].members \notin Good => Nesting[s[i].members] \in Bad
        BY <2>1
    <2>4. s[i].members \notin Good => Nesting[s] <= Nesting[s[i].members]
        BY <1>3, <1>4, <2>3
    <2> HIDE DEF Bad
    <2> QED BY <2>1, <2>2, <2>4
<1> QED BY <1>4, <1>5

-----------------------------------------------------------------------------
(* Fields.                                                                 *)

Under(i, paths) == {<<i>> \o p : p \in paths}

Inner(s, i) == IF s[i].nested THEN Leaves[s[i].members] ELSE {<<>>}

\* The fields in the first n members.
First(s, n) == UNION {Under(i, Inner(s, i)) : i \in 1..n}

LeavesBy(l, s) ==
    UNION {{<<i>> \o p : p \in IF s[i].nested THEN l[s[i].members] ELSE {<<>>}} : i \in DOMAIN s}

\* A path in a member is a path.
LEMMA Paths ==
    ASSUME NEW i \in Nat, NEW p \in Seq(Nat)
    PROVE  /\ <<i>> \o p \in Seq(Nat)
           /\ Len(<<i>> \o p) = Len(p) + 1
           /\ (<<i>> \o p)[1] = i
           /\ \A k \in 1..Len(p) : (<<i>> \o p)[k + 1] = p[k]
    OBVIOUS

LEMMA SamePath ==
    ASSUME NEW i \in Nat, NEW p \in Seq(Nat), NEW j \in Nat, NEW q \in Seq(Nat),
           <<i>> \o p = <<j>> \o q
    PROVE  i = j /\ p = q
<1> DEFINE a == <<i>> \o p
           b == <<j>> \o q
<1>1. /\ Len(a) = Len(p) + 1 /\ a[1] = i /\ \A k \in 1..Len(p) : a[k + 1] = p[k]
      /\ Len(b) = Len(q) + 1 /\ b[1] = j /\ \A k \in 1..Len(q) : b[k + 1] = q[k]
      /\ a = b
    BY Paths
<1> HIDE DEF a, b
<1>2. i = j /\ Len(p) = Len(q)
    <2>1. Len(p) \in Nat /\ Len(q) \in Nat
        OBVIOUS
    <2> QED BY <1>1, <2>1
<1>3. ASSUME NEW k \in 1..Len(p) PROVE p[k] = q[k]
    BY <1>1, <1>2
<1>4. p = [k \in 1..Len(p) |-> p[k]] /\ q = [k \in 1..Len(q) |-> q[k]]
    OBVIOUS
<1> QED BY <1>2, <1>3, <1>4

\* Members are declared in their order, and so are the fields of one member.
LEMMA Order ==
    ASSUME NEW i \in Nat, NEW p \in Seq(Nat), NEW j \in Nat, NEW q \in Seq(Nat)
    PROVE  Before(<<i>> \o p, <<j>> \o q) <=> i < j \/ (i = j /\ Before(p, q))
<1> DEFINE a == <<i>> \o p
           b == <<j>> \o q
<1>1. /\ Len(a) = Len(p) + 1 /\ a[1] = i /\ \A k \in 1..Len(p) : a[k + 1] = p[k]
      /\ Len(b) = Len(q) + 1 /\ b[1] = j /\ \A k \in 1..Len(q) : b[k + 1] = q[k]
      /\ DOMAIN a = 1..Len(a) /\ DOMAIN b = 1..Len(b)
      /\ DOMAIN p = 1..Len(p) /\ DOMAIN q = 1..Len(q) /\ Len(p) \in Nat /\ Len(q) \in Nat
    BY Paths
<1> HIDE DEF a, b
<1>2. ASSUME i < j PROVE Before(a, b)
    <2>1. 1 \in DOMAIN a \cap DOMAIN b /\ a[1] < b[1] /\ \A k \in 1..(1 - 1) : a[k] = b[k]
        BY <1>1, <1>2
    <2> QED BY <2>1 DEF Before
<1>3. ASSUME i = j, Before(p, q) PROVE Before(a, b)
    <2>1. PICK k \in DOMAIN p \cap DOMAIN q : p[k] < q[k] /\ \A m \in 1..(k - 1) : p[m] = q[m]
        BY <1>3 DEF Before
    <2>2. k + 1 \in DOMAIN a \cap DOMAIN b /\ a[k + 1] < b[k + 1]
        BY <1>1, <2>1
    <2>3. ASSUME NEW m \in 1..k PROVE a[m] = b[m]
        <3>1. CASE m = 1
            BY <1>1, <1>3, <3>1
        <3>2. CASE m # 1
            <4>1. m - 1 \in 1..(k - 1) /\ m - 1 \in 1..Len(p) /\ m - 1 \in 1..Len(q) /\ (m - 1) + 1 = m
                BY <1>1, <2>1, <3>2
            <4> QED BY <1>1, <2>1, <4>1
        <3> QED BY <3>1, <3>2
    <2>4. \A m \in 1..((k + 1) - 1) : a[m] = b[m]
        BY <1>1, <2>1, <2>3
    <2> QED BY <2>2, <2>4 DEF Before
<1>4. ASSUME Before(a, b), ~ (i < j) PROVE i = j /\ Before(p, q)
    <2>1. PICK k \in DOMAIN a \cap DOMAIN b : a[k] < b[k] /\ \A m \in 1..(k - 1) : a[m] = b[m]
        BY <1>4 DEF Before
    <2>2. k # 1 /\ k \in 2..Len(a) /\ k \in 2..Len(b)
        BY <1>1, <1>4, <2>1
    <2>3. i = j
        <3>1. 1 \in 1..(k - 1)
            BY <1>1, <2>2
        <3>2. a[1] = b[1]
            BY <2>1, <3>1
        <3> QED BY <1>1, <3>2
    <2>4. k - 1 \in 1..Len(p) /\ k - 1 \in 1..Len(q) /\ (k - 1) + 1 = k
        BY <1>1, <2>2
    <2>5. p[k - 1] < q[k - 1]
        BY <1>1, <2>1, <2>4
    <2>6. ASSUME NEW m \in 1..((k - 1) - 1) PROVE p[m] = q[m]
        <3>1. m + 1 \in 1..(k - 1) /\ m \in 1..Len(p) /\ m \in 1..Len(q)
            <4>1. k \in Int /\ k >= 2
                BY <2>2
            <4>3. m \in Nat /\ m >= 1 /\ m <= k - 2
                BY <4>1
            <4>2. k - 1 <= Len(p) /\ k - 1 <= Len(q)
                BY <1>1, <2>4
            <4> HIDE DEF a, b
            <4> QED BY <1>1, <4>1, <4>2, <4>3
        <3> QED BY <1>1, <2>1, <3>1
    <2>7. k - 1 \in DOMAIN p \cap DOMAIN q
        BY <1>1, <2>4
    <2> QED BY <2>3, <2>5, <2>6, <2>7 DEF Before
<1> QED BY <1>2, <1>3, <1>4 DEF a, b

LEMMA LeavesDef == Leaves = [s \in Structs |-> LeavesBy(Leaves, s)]
<1> DEFINE V == SUBSET Seq(Nat)
           Phi == [l \in [Structs -> V] |-> [s \in Structs |-> LeavesBy(l, s)]]
<1>1. ASSUME NEW l \in [Structs -> V], NEW s \in Structs PROVE LeavesBy(l, s) \in V
    <2> DEFINE In(i) == IF s[i].nested THEN l[s[i].members] ELSE {<<>>}
    <2>1. ASSUME NEW i \in DOMAIN s, NEW p \in In(i) PROVE <<i>> \o p \in Seq(Nat)
        <3>1. i \in Nat /\ (s[i].nested => l[s[i].members] \in V) /\ <<>> \in Seq(Nat)
            BY Members
        <3>2. p \in Seq(Nat)
            <4>1. CASE s[i].nested
                BY <3>1, <4>1
            <4>2. CASE ~ s[i].nested
                BY <3>1, <4>2
            <4> QED BY <4>1, <4>2
        <3> QED BY <3>1, <3>2, Paths
    <2>2. LeavesBy(l, s) = UNION {{<<i>> \o p : p \in In(i)} : i \in DOMAIN s}
        BY DEF LeavesBy
    <2>3. ASSUME NEW x \in LeavesBy(l, s) PROVE x \in Seq(Nat)
        <3> HIDE DEF In
        <3>1. PICK i \in DOMAIN s : \E p \in In(i) : x = <<i>> \o p
            BY <2>2
        <3>2. PICK p \in In(i) : x = <<i>> \o p
            BY <3>1
        <3> QED BY <2>1, <3>2
    <2> QED BY <2>3
<1>2. Phi \in [[Structs -> V] -> [Structs -> V]]
    BY <1>1
<1>3. Causal(Phi, Structs, V, Nesting)
    <2> SUFFICES ASSUME NEW g \in [Structs -> V], NEW h \in [Structs -> V], NEW s \in Structs,
                        Agree(g, h, Structs, Nesting, Nesting[s])
                 PROVE  Phi[g][s] = Phi[h][s]
        BY DEF Causal
    <2> DEFINE In(l, i) == IF s[i].nested THEN l[s[i].members] ELSE {<<>>}
    <2>1. \A i \in DOMAIN s : In(g, i) = In(h, i)
        BY Members DEF Agree
    <2>2. /\ LeavesBy(g, s) = UNION {{<<i>> \o p : p \in In(g, i)} : i \in DOMAIN s}
          /\ LeavesBy(h, s) = UNION {{<<i>> \o p : p \in In(h, i)} : i \in DOMAIN s}
        BY DEF LeavesBy
    <2>3. LeavesBy(g, s) = LeavesBy(h, s)
        <3> DEFINE U(l, i) == {<<i>> \o p : p \in In(l, i)}
        <3> HIDE DEF In
        <3>1. \A i \in DOMAIN s : U(g, i) = U(h, i)
            BY <2>1
        <3>2. LeavesBy(g, s) = UNION {U(g, i) : i \in DOMAIN s} /\ LeavesBy(h, s) = UNION {U(h, i) : i \in DOMAIN s}
            BY <2>2
        <3> HIDE DEF U
        <3>3. {U(g, i) : i \in DOMAIN s} = {U(h, i) : i \in DOMAIN s}
            BY <3>1
        <3> QED BY <3>2, <3>3
    <2> QED BY <2>3
<1>4. Nesting \in [Structs -> Nat] /\ V # {}
    BY ReflectionAssumption
<1>5. \E l \in [Structs -> V] : l = Phi[l]
    <2> HIDE DEF Phi, V
    <2>1. Recursive(Phi, Structs, V, Nesting)
        BY <1>2, <1>3, <1>4 DEF Recursive
    <2>2. Solutions(Phi, Structs, V) # {}
        BY <2>1, Recursion
    <2> QED BY <2>2 DEF Solutions
<1>6. PICK l \in [Structs -> V] : l = Phi[l]
    BY <1>5
<1>7. l = [s \in Structs |-> LeavesBy(l, s)]
    BY <1>6
<1>8. Leaves = CHOOSE g : g = [s \in Structs |-> LeavesBy(g, s)]
    BY Zenon DEF Leaves, LeavesBy
<1> QED BY <1>7, <1>8, Zenon

\* The fields of a structure are those of its members, in turn.
LEMMA LeavesFirst == ASSUME NEW s \in Structs PROVE Leaves[s] = First(s, Len(s))
<1>1. Leaves[s] = LeavesBy(Leaves, s)
    BY LeavesDef, Zenon
<1>2. LeavesBy(Leaves, s) = UNION {Under(i, Inner(s, i)) : i \in DOMAIN s}
    BY Zenon DEF LeavesBy, Under, Inner
<1>3. DOMAIN s = 1..Len(s)
    BY Members
<1> QED BY <1>1, <1>2, <1>3 DEF First

LEMMA FirstStep ==
    ASSUME NEW s \in Structs
    PROVE  /\ First(s, 0) = {}
           /\ \A i \in 1..Len(s) : First(s, i) = First(s, i - 1) \cup Under(i, Inner(s, i))
<1>1. First(s, 0) = {}
    BY DEF First
<1>2. ASSUME NEW i \in 1..Len(s) PROVE First(s, i) = First(s, i - 1) \cup Under(i, Inner(s, i))
    <2>1. 1..i = (1..(i - 1)) \cup {i}
        BY Members
    <2> QED BY <2>1 DEF First
<1> QED BY <1>1, <1>2

LEMMA UnderSize ==
    ASSUME NEW i \in Nat, NEW P \in SUBSET Seq(Nat), IsFiniteSet(P)
    PROVE  /\ Under(i, P) \subseteq Seq(Nat)
           /\ IsFiniteSet(Under(i, P))
           /\ Cardinality(Under(i, P)) = Cardinality(P)
<1> DEFINE f == [p \in P |-> <<i>> \o p]
<1>1. Under(i, P) \subseteq Seq(Nat)
    BY Paths DEF Under
<1>2. f \in [P -> Under(i, P)]
    BY DEF Under
<1>3. \A p, q \in P : f[p] = f[q] => p = q
    BY SamePath
<1>4. \A x \in Under(i, P) : \E p \in P : f[p] = x
    BY DEF Under
<1> HIDE DEF f
<1>5. ExistsBijection(P, Under(i, P))
    BY <1>2, <1>3, <1>4 DEF ExistsBijection, Bijection, Injection, Surjection, IsInjective
<1> QED BY <1>1, <1>5, FS_Bijection

Tame(paths) == paths \subseteq Seq(Nat) /\ IsFiniteSet(paths)

\* The fields of the first members are finitely many, if those of each are.
LEMMA FirstTame ==
    ASSUME NEW s \in Structs, \A i \in 1..Len(s) : s[i].nested => Tame(Leaves[s[i].members])
    PROVE  /\ \A i \in 1..Len(s) : Tame(Inner(s, i))
           /\ \A i \in 0..Len(s) : Tame(First(s, i))
<1>1. ASSUME NEW i \in 1..Len(s) PROVE Tame(Inner(s, i))
    <2>1. CASE s[i].nested
        BY <2>1 DEF Inner
    <2>2. CASE ~ s[i].nested
        <3>1. Inner(s, i) = {<<>>}
            BY <2>2 DEF Inner
        <3>2. IsFiniteSet({<<>>})
            BY FS_Singleton
        <3>3. <<>> \in Seq(Nat)
            OBVIOUS
        <3> QED BY <3>1, <3>2, <3>3 DEF Tame
    <2> QED BY <2>1, <2>2
<1> DEFINE Good == {i \in 0..Len(s) : Tame(First(s, i))}
<1>2. 0 \in Good
    <2>1. 0 \in 0..Len(s)
        BY Members
    <2>2. First(s, 0) = {} /\ IsFiniteSet({})
        BY FirstStep, FS_EmptySet
    <2>3. Tame(First(s, 0))
        BY <2>2 DEF Tame
    <2> QED BY <2>1, <2>3
<1>3. ASSUME NEW i \in 1..Len(s), i - 1 \in Good PROVE i \in Good
    <2>1. Tame(First(s, i - 1)) /\ Tame(Under(i, Inner(s, i)))
        BY <1>1, <1>3, UnderSize, Members DEF Tame
    <2>2. First(s, i) = First(s, i - 1) \cup Under(i, Inner(s, i))
        BY FirstStep
    <2>3. IsFiniteSet(First(s, i))
        BY <2>1, <2>2, FS_Union DEF Tame
    <2>4. Tame(First(s, i))
        BY <2>1, <2>2, <2>3 DEF Tame
    <2>5. i \in 0..Len(s)
        BY Members
    <2> QED BY <2>4, <2>5
<1> HIDE DEF Good
<1>4. 0..Len(s) \subseteq Good
    BY <1>2, <1>3, Members, UpTo
<1> QED BY <1>1, <1>4 DEF Good

LEMMA LeavesTame ==
    ASSUME NEW s \in Structs
    PROVE  /\ Tame(Leaves[s])
           /\ \A i \in 1..Len(s) : Tame(Inner(s, i))
           /\ \A i \in 0..Len(s) : Tame(First(s, i))
<1> DEFINE Good == {t \in Structs : Tame(Leaves[t])}
<1>1. ASSUME NEW t \in Structs, \A i \in 1..Len(t) : t[i].nested => t[i].members \in Good
      PROVE  t \in Good
    <2>1. Len(t) \in 0..Len(t)
        BY Members
    <2>2. Tame(First(t, Len(t)))
        BY <1>1, <2>1, FirstTame
    <2> QED BY <2>2, LeavesFirst
<1> HIDE DEF Good
<1>2. Structs \subseteq Good
    BY <1>1, Structural
<1>3. \A t \in Structs : Tame(Leaves[t])
    BY <1>2 DEF Good
<1> QED BY <1>3, FirstTame, Members

\* No field is in two members.
LEMMA Apart ==
    ASSUME NEW s \in Structs, NEW i \in 1..Len(s), NEW n \in 0..(i - 1), NEW P \in SUBSET Seq(Nat)
    PROVE  First(s, n) \cap Under(i, P) = {}
<1> SUFFICES ASSUME NEW x \in First(s, n), x \in Under(i, P) PROVE FALSE
    OBVIOUS
<1>1. PICK j \in 1..n : x \in Under(j, Inner(s, j))
    BY DEF First
<1>2. j \in 1..Len(s) /\ j < i /\ j \in Nat /\ i \in Nat
    BY Members
<1>3. Inner(s, j) \subseteq Seq(Nat)
    BY <1>2, LeavesTame DEF Tame
<1>4. PICK p \in Inner(s, j) : x = <<j>> \o p
    BY <1>1 DEF Under
<1>5. PICK q \in P : x = <<i>> \o q
    BY DEF Under
<1>6. i = j
    BY <1>2, <1>3, <1>4, <1>5, SamePath
<1> QED BY <1>2, <1>6

LEMMA Counts ==
    ASSUME NEW s \in Structs
    PROVE  /\ Cardinality(First(s, 0)) = 0
           /\ \A i \in 0..Len(s) : Cardinality(First(s, i)) \in Nat
           /\ \A i \in 1..Len(s) :
                /\ Cardinality(Inner(s, i)) \in Nat
                /\ Cardinality(First(s, i)) = Cardinality(First(s, i - 1)) + Cardinality(Inner(s, i))
                /\ ~ s[i].nested => Cardinality(Inner(s, i)) = 1
           /\ Cardinality(Leaves[s]) = Cardinality(First(s, Len(s)))
<1>1. Cardinality(First(s, 0)) = 0
    BY FirstStep, FS_EmptySet
<1>2. \A i \in 0..Len(s) : Cardinality(First(s, i)) \in Nat
    BY LeavesTame, FS_CardinalityType DEF Tame
<1>3. ASSUME NEW i \in 1..Len(s)
      PROVE  /\ Cardinality(Inner(s, i)) \in Nat
             /\ Cardinality(First(s, i)) = Cardinality(First(s, i - 1)) + Cardinality(Inner(s, i))
             /\ ~ s[i].nested => Cardinality(Inner(s, i)) = 1
    <2>1. Inner(s, i) \in SUBSET Seq(Nat) /\ IsFiniteSet(Inner(s, i))
        BY LeavesTame DEF Tame
    <2>2. Cardinality(Inner(s, i)) \in Nat
        BY <2>1, FS_CardinalityType
    <2>3. i \in Nat /\ i - 1 \in 0..Len(s) /\ i - 1 \in 0..(i - 1)
        BY Members
    <2>4. IsFiniteSet(Under(i, Inner(s, i))) /\ Cardinality(Under(i, Inner(s, i))) = Cardinality(Inner(s, i))
        BY <2>1, <2>3, UnderSize
    <2>5. First(s, i - 1) \cap Under(i, Inner(s, i)) = {} /\ IsFiniteSet(First(s, i - 1))
        BY <2>1, <2>3, Apart, LeavesTame DEF Tame
    <2>6. Cardinality(First(s, i)) = Cardinality(First(s, i - 1)) + Cardinality(Inner(s, i)) - 0
        BY <2>4, <2>5, FirstStep, FS_Union, FS_EmptySet
    <2>7. Cardinality(First(s, i - 1)) \in Nat
        BY <1>2, <2>3
    <2>8. ~ s[i].nested => Cardinality(Inner(s, i)) = 1
        BY FS_Singleton DEF Inner
    <2> QED BY <2>2, <2>6, <2>7, <2>8
<1> QED BY <1>1, <1>2, <1>3, LeavesFirst

\* How many fields of a member are declared before one of them.
Earlier(s, i, p) == Cardinality({q \in Inner(s, i) : Before(q, p)})

\* Before a field are declared all those of the members before its own, and
\* those before it in its own.
LEMMA Rank ==
    ASSUME NEW s \in Structs, NEW i \in 1..Len(s), NEW p \in Inner(s, i)
    PROVE  /\ <<i>> \o p \in Leaves[s]
           /\ Earlier(s, i, p) \in Nat
           /\ Declared(s, <<i>> \o p) = Cardinality(First(s, i - 1)) + Earlier(s, i, p)
<1> DEFINE E == {q \in Inner(s, i) : Before(q, p)}
           path == <<i>> \o p
<1>1. i \in Nat /\ i - 1 \in 0..Len(s) /\ i - 1 \in 0..(i - 1) /\ Len(s) \in Nat
    BY Members
<1>2. Inner(s, i) \in SUBSET Seq(Nat) /\ IsFiniteSet(Inner(s, i))
    BY LeavesTame DEF Tame
<1>3. path \in Under(i, Inner(s, i))
    BY DEF Under
<1>4. path \in Leaves[s]
    BY <1>3, LeavesFirst DEF First
<1>5. IsFiniteSet(E) /\ E \in SUBSET Seq(Nat)
    BY <1>2, FS_Subset
<1>6. {q \in Leaves[s] : Before(q, path)} = First(s, i - 1) \cup Under(i, E)
    <2>1. ASSUME NEW j \in 1..Len(s), NEW q \in Inner(s, j)
          PROVE  Before(<<j>> \o q, path) <=> j < i \/ (j = i /\ Before(q, p))
        <3>1. j \in Nat /\ q \in Seq(Nat) /\ p \in Seq(Nat)
            BY <1>2, Members, LeavesTame DEF Tame
        <3> QED BY <1>1, <3>1, Order
    <2>2. ASSUME NEW x \in Leaves[s], Before(x, path) PROVE x \in First(s, i - 1) \cup Under(i, E)
        <3>1. PICK j \in 1..Len(s) : x \in Under(j, Inner(s, j))
            BY LeavesFirst DEF First
        <3>2. PICK q \in Inner(s, j) : x = <<j>> \o q
            BY <3>1 DEF Under
        <3>3. CASE j < i
            <4>1. j \in 1..(i - 1)
                BY <1>1, <3>3
            <4> QED BY <3>1, <4>1 DEF First
        <3>4. CASE j = i /\ Before(q, p)
            BY <3>2, <3>4 DEF Under
        <3> HIDE DEF path, E
        <3> QED BY <2>1, <2>2, <3>2, <3>3, <3>4
    <2>3. ASSUME NEW x \in First(s, i - 1) PROVE x \in Leaves[s] /\ Before(x, path)
        <3>1. PICK j \in 1..(i - 1) : x \in Under(j, Inner(s, j))
            BY DEF First
        <3>2. j \in 1..Len(s) /\ j < i
            BY <1>1
        <3>3. PICK q \in Inner(s, j) : x = <<j>> \o q
            BY <3>1 DEF Under
        <3>4. x \in Leaves[s]
            BY <3>1, <3>2, LeavesFirst DEF First
        <3> HIDE DEF path, E
        <3> QED BY <2>1, <3>2, <3>3, <3>4
    <2>4. ASSUME NEW x \in Under(i, E) PROVE x \in Leaves[s] /\ Before(x, path)
        <3>1. PICK q \in Inner(s, i) : x = <<i>> \o q /\ Before(q, p)
            BY DEF Under
        <3>2. x \in Under(i, Inner(s, i))
            BY <3>1 DEF Under
        <3>3. x \in Leaves[s]
            BY <3>2, LeavesFirst DEF First
        <3> HIDE DEF path, E
        <3> QED BY <2>1, <3>1, <3>3
    <2> HIDE DEF path, E
    <2> QED BY <2>2, <2>3, <2>4
<1>7. First(s, i - 1) \cap Under(i, E) = {}
    BY <1>1, <1>5, Apart
<1>8. IsFiniteSet(First(s, i - 1)) /\ IsFiniteSet(Under(i, E)) /\ Cardinality(Under(i, E)) = Cardinality(E)
    BY <1>1, <1>5, UnderSize, LeavesTame DEF Tame
<1>9. Cardinality(First(s, i - 1)) \in Nat /\ Cardinality(E) \in Nat
    BY <1>5, <1>8, FS_CardinalityType
<1>10. Declared(s, path) = Cardinality(First(s, i - 1)) + Cardinality(E) - 0
    BY <1>6, <1>7, <1>8, FS_Union, FS_EmptySet DEF Declared
<1>11. Earlier(s, i, p) = Cardinality(E)
    BY DEF Earlier
<1> HIDE DEF path, E
<1>12. Declared(s, path) = Cardinality(First(s, i - 1)) + Earlier(s, i, p)
    BY <1>9, <1>10, <1>11
<1> QED BY <1>4, <1>9, <1>11, <1>12 DEF path

\* The members of a structure that are fields are its only ones.
LEMMA OneField ==
    ASSUME NEW s \in Structs, NEW i \in 1..Len(s), ~ s[i].nested
    PROVE  Inner(s, i) = {<<>>} /\ Earlier(s, i, <<>>) = 0 /\ <<i>> \o <<>> = <<i>>
<1>1. Inner(s, i) = {<<>>}
    BY DEF Inner
<1>2. {q \in {<<>>} : Before(q, <<>>)} = {}
    BY DEF Before
<1>3. Earlier(s, i, <<>>) = 0
    BY <1>1, <1>2, FS_EmptySet DEF Earlier
<1>4. <<i>> \o <<>> = <<i>>
    OBVIOUS
<1> QED BY <1>1, <1>3, <1>4

-----------------------------------------------------------------------------
(* Counting.                                                               *)

\* What counting the first n members gives, when c counts a nested structure.
CountLoop(c, s, n) ==
    LET count[i \in 0..Len(s)] ==
          IF i = 0 THEN 0
          ELSE count[i - 1] + IF s[i].nested THEN c[s[i].members] ELSE 1
    IN count[n]

LEMMA CountLoopIs ==
    ASSUME NEW c, NEW s \in Structs, NEW n \in 0..Len(s),
           \A i \in 1..Len(s) : s[i].nested => c[s[i].members] = Cardinality(Leaves[s[i].members])
    PROVE  CountLoop(c, s, n) = Cardinality(First(s, n))
<1> DEFINE One(i) == IF s[i].nested THEN c[s[i].members] ELSE 1
           Sums(g) == g = [i \in 0..Len(s) |-> IF i = 0 THEN 0 ELSE g[i - 1] + One(i)]
           closed == [i \in 0..Len(s) |-> Cardinality(First(s, i))]
<1>1. ASSUME NEW i \in 1..Len(s) PROVE One(i) = Cardinality(Inner(s, i))
    BY Counts DEF Inner
<1>2. Sums(closed)
    <2>1. ASSUME NEW i \in 0..Len(s)
          PROVE  closed[i] = IF i = 0 THEN 0 ELSE closed[i - 1] + One(i)
        <3>1. CASE i = 0
            BY <3>1, Counts
        <3>2. CASE i # 0
            <4>1. i \in 1..Len(s) /\ i - 1 \in 0..Len(s)
                BY <3>2, Members
            <4>2. closed[i - 1] = Cardinality(First(s, i - 1)) /\ closed[i] = Cardinality(First(s, i))
                BY <4>1
            <4> HIDE DEF closed, One
            <4> QED BY <1>1, <3>2, <4>1, <4>2, Counts
        <3> QED BY <3>1, <3>2
    <2> HIDE DEF One
    <2> QED BY <2>1
<1>3. PICK h : Sums(h) /\ CountLoop(c, s, n) = h[n]
    BY <1>2, Zenon DEF CountLoop
<1> DEFINE Good == {i \in 0..Len(s) : h[i] = closed[i]}
<1>4. 0 \in Good
    BY <1>3, Counts, Members
<1>5. ASSUME NEW i \in 1..Len(s), i - 1 \in Good PROVE i \in Good
    <2>1. i # 0 /\ i \in 0..Len(s)
        BY Members
    <2>2. h[i] = h[i - 1] + One(i)
        BY <1>3, <2>1
    <2>3. closed[i] = closed[i - 1] + One(i)
        BY <1>2, <2>1
    <2>4. h[i - 1] = closed[i - 1]
        BY <1>5
    <2> QED BY <2>1, <2>2, <2>3, <2>4
<1> HIDE DEF Good
<1>6. 0..Len(s) \subseteq Good
    BY <1>4, <1>5, Members, UpTo
<1> QED BY <1>3, <1>6 DEF Good

LEMMA FieldCount == ASSUME NEW s \in Structs PROVE fieldCount[s] = Cardinality(Leaves[s])
<1> DEFINE Whole(c, t) == CountLoop(c, t, Len(t))
           sizes == [t \in Structs |-> Cardinality(Leaves[t])]
<1>1. ASSUME NEW c, NEW t \in Structs,
             \A i \in 1..Len(t) : t[i].nested => c[t[i].members] = Cardinality(Leaves[t[i].members])
      PROVE  Whole(c, t) = Cardinality(Leaves[t])
    <2>1. Len(t) \in 0..Len(t)
        BY Members
    <2> QED BY <1>1, <2>1, CountLoopIs, Counts
<1>2. fieldCount = CHOOSE c : c = [t \in Structs |-> Whole(c, t)]
    BY Zenon DEF fieldCount, CountLoop
<1> HIDE DEF Whole
<1>3. sizes = [t \in Structs |-> Whole(sizes, t)]
    <2>1. ASSUME NEW t \in Structs PROVE Whole(sizes, t) = Cardinality(Leaves[t])
        <3>1. \A i \in 1..Len(t) : t[i].nested => sizes[t[i].members] = Cardinality(Leaves[t[i].members])
            BY Members
        <3> HIDE DEF sizes
        <3> QED BY <1>1, <3>1
    <2> QED BY <2>1
<1>4. fieldCount = [t \in Structs |-> Whole(fieldCount, t)]
    <2> HIDE DEF sizes
    <2> QED BY <1>2, <1>3, Zenon
<1> DEFINE Good == {t \in Structs : fieldCount[t] = Cardinality(Leaves[t])}
<1>5. ASSUME NEW t \in Structs, \A i \in 1..Len(t) : t[i].nested => t[i].members \in Good
      PROVE  t \in Good
    <2>1. Whole(fieldCount, t) = Cardinality(Leaves[t])
        BY <1>1, <1>5
    <2>2. fieldCount[t] = Whole(fieldCount, t)
        BY <1>4
    <2> QED BY <2>1, <2>2
<1> HIDE DEF Good
<1>6. Structs \subseteq Good
    BY <1>5, Structural
<1> QED BY <1>6 DEF Good

LEMMA PointerNumber ==
    ASSUME NEW s \in Structs, NEW i \in 1..Len(s), ~ s[i].nested
    PROVE  <<i>> \in Leaves[s] /\ findTransparentFieldIndex(s, i) = Declared(s, <<i>>)
<1>1. findTransparentFieldIndex(s, i) = CountLoop(fieldCount, s, i - 1)
    BY Zenon DEF findTransparentFieldIndex, CountLoop
<1>2. i - 1 \in 0..Len(s)
    BY Members
<1>3. \A j \in 1..Len(s) : s[j].nested => fieldCount[s[j].members] = Cardinality(Leaves[s[j].members])
    BY Members, FieldCount
<1>4. CountLoop(fieldCount, s, i - 1) = Cardinality(First(s, i - 1))
    BY <1>2, <1>3, CountLoopIs
<1>5. Cardinality(First(s, i - 1)) \in Nat
    BY <1>2, Counts
<1>6. <<>> \in Inner(s, i) /\ <<i>> \o <<>> = <<i>> /\ Earlier(s, i, <<>>) = 0
    BY OneField
<1>7. <<i>> \o <<>> \in Leaves[s]
      /\ Declared(s, <<i>> \o <<>>) = Cardinality(First(s, i - 1)) + Earlier(s, i, <<>>)
    BY <1>6, Rank
<1> QED BY <1>1, <1>4, <1>5, <1>6, <1>7

-----------------------------------------------------------------------------
(* Walking.                                                                *)

\* One round of a walk, when w walks a nested structure.
Round(w, s, k, done, i) ==
    LET number == k + done.count
        sub    == IF s[i].nested THEN w[s[i].members][number]
                                 ELSE Walked(1, {<< <<>>, number >>})
    IN Walked(done.count + sub.count, done.calls \cup Prefixed(i, sub.calls))

WalkLoop(w, s, k) ==
    LET after[i \in 0..Len(s)] ==
          IF i = 0 THEN Walked(0, {})
          ELSE LET done   == after[i - 1]
                   number == k + done.count
                   sub    == IF s[i].nested THEN w[s[i].members][number]
                                            ELSE Walked(1, {<< <<>>, number >>})
               IN Walked(done.count + sub.count, done.calls \cup Prefixed(i, sub.calls))
    IN after[Len(s)]

\* What a walk from k on should have done, and what it has when it is through
\* with the first n members.
Calls(s, k) == {<<p, k + Declared(s, p)>> : p \in Leaves[s]}

All(s, k) == Walked(Cardinality(Leaves[s]), Calls(s, k))

CallsIn(s, k, i) == {<<p, k + Cardinality(First(s, i - 1)) + Earlier(s, i, p)>> : p \in Inner(s, i)}

Through(s, k, n) ==
    Walked(Cardinality(First(s, n)), UNION {Prefixed(i, CallsIn(s, k, i)) : i \in 1..n})

LEMMA ThroughAll ==
    ASSUME NEW s \in Structs, NEW k \in Nat
    PROVE  Through(s, k, Len(s)) = All(s, k)
<1> DEFINE calls == UNION {Prefixed(i, CallsIn(s, k, i)) : i \in 1..Len(s)}
<1>1. ASSUME NEW i \in 1..Len(s), NEW p \in Inner(s, i)
      PROVE  k + Declared(s, <<i>> \o p) = k + Cardinality(First(s, i - 1)) + Earlier(s, i, p)
    <2>1. i - 1 \in 0..Len(s)
        BY Members
    <2>2. Cardinality(First(s, i - 1)) \in Nat
        BY <2>1, Counts
    <2> QED BY <2>2, Rank
<1>2. ASSUME NEW x \in Calls(s, k) PROVE x \in calls
    <2>1. PICK path \in Leaves[s] : x = <<path, k + Declared(s, path)>>
        BY DEF Calls
    <2>2. PICK i \in 1..Len(s) : path \in Under(i, Inner(s, i))
        BY LeavesFirst DEF First
    <2>3. PICK p \in Inner(s, i) : path = <<i>> \o p
        BY <2>2 DEF Under
    <2> DEFINE call == <<p, k + Cardinality(First(s, i - 1)) + Earlier(s, i, p)>>
    <2>4. call \in CallsIn(s, k, i) /\ call[1] = p
        BY DEF CallsIn
    <2>5. x = << <<i>> \o call[1], call[2] >>
        BY <1>1, <2>1, <2>3
    <2>6. x \in Prefixed(i, CallsIn(s, k, i))
        <3> HIDE DEF call
        <3> QED BY <2>4, <2>5 DEF Prefixed
    <2> QED BY <2>6
<1>3. ASSUME NEW x \in calls PROVE x \in Calls(s, k)
    <2>1. PICK i \in 1..Len(s) : x \in Prefixed(i, CallsIn(s, k, i))
        OBVIOUS
    <2>2. PICK p \in Inner(s, i) :
             x = << <<i>> \o p, k + Cardinality(First(s, i - 1)) + Earlier(s, i, p) >>
        BY <2>1 DEF Prefixed, CallsIn
    <2>3. <<i>> \o p \in Leaves[s]
        BY Rank
    <2>4. x = << <<i>> \o p, k + Declared(s, <<i>> \o p) >>
        BY <1>1, <2>2
    <2> HIDE DEF calls
    <2> QED BY <2>3, <2>4 DEF Calls
<1>4. Calls(s, k) = calls
    <2> HIDE DEF calls
    <2> QED BY <1>2, <1>3
<1>5. Cardinality(Leaves[s]) = Cardinality(First(s, Len(s)))
    BY Counts
<1> QED BY <1>4, <1>5 DEF Through, All

LEMMA WalkLoopIs ==
    ASSUME NEW w, NEW s \in Structs, NEW k \in Nat,
           \A i \in 1..Len(s), n \in Nat : s[i].nested => w[s[i].members][n] = All(s[i].members, n)
    PROVE  WalkLoop(w, s, k) = All(s, k)
<1> DEFINE Steps(g) == g = [i \in 0..Len(s) |-> IF i = 0 THEN Walked(0, {}) ELSE Round(w, s, k, g[i - 1], i)]
           closed == [i \in 0..Len(s) |-> Through(s, k, i)]
<1>1. closed[0] = Walked(0, {})
    <2>1. 0 \in 0..Len(s) /\ 1..0 = {}
        BY Members
    <2> QED BY <2>1, Counts DEF Through
<1>2. ASSUME NEW i \in 1..Len(s) PROVE Through(s, k, i) = Round(w, s, k, Through(s, k, i - 1), i)
    <2> DEFINE number == k + Cardinality(First(s, i - 1))
               sub == IF s[i].nested THEN w[s[i].members][number] ELSE Walked(1, {<< <<>>, number >>})
    <2>1. i \in Nat /\ i - 1 \in 0..Len(s) /\ 1..i = (1..(i - 1)) \cup {i}
        BY Members
    <2>2. number \in Nat
        BY <2>1, Counts
    <2>3. sub = Walked(Cardinality(Inner(s, i)), CallsIn(s, k, i))
        <3>1. CASE s[i].nested
            <4>1. sub = All(s[i].members, number)
                BY <2>2, <3>1
            <4>2. Inner(s, i) = Leaves[s[i].members]
                BY <3>1 DEF Inner
            <4>3. \A p : Earlier(s, i, p) = Declared(s[i].members, p)
                BY <4>2 DEF Earlier, Declared
            <4>4. Calls(s[i].members, number) = CallsIn(s, k, i)
                BY <4>2, <4>3 DEF Calls, CallsIn
            <4> HIDE DEF sub, number
            <4> QED BY <4>1, <4>2, <4>4 DEF All
        <3>2. CASE ~ s[i].nested
            <4>1. sub = Walked(1, {<< <<>>, number >>})
                BY <3>2
            <4>2. Inner(s, i) = {<<>>} /\ Earlier(s, i, <<>>) = 0 /\ Cardinality(Inner(s, i)) = 1
                BY <3>2, OneField, Counts
            <4>3. number + Earlier(s, i, <<>>) = number
                BY <2>2, <4>2
            <4>4. CallsIn(s, k, i) = {<< <<>>, number >>}
                BY <4>2, <4>3 DEF CallsIn
            <4> HIDE DEF sub, number
            <4> QED BY <4>1, <4>2, <4>4
        <3> QED BY <3>1, <3>2
    <2>4. /\ Through(s, k, i - 1).count = Cardinality(First(s, i - 1))
          /\ Through(s, k, i - 1).calls = UNION {Prefixed(j, CallsIn(s, k, j)) : j \in 1..(i - 1)}
        BY DEF Through, Walked
    <2>5. Round(w, s, k, Through(s, k, i - 1), i)
             = Walked(Cardinality(First(s, i - 1)) + sub.count,
                      (UNION {Prefixed(j, CallsIn(s, k, j)) : j \in 1..(i - 1)}) \cup Prefixed(i, sub.calls))
        BY <2>4 DEF Round
    <2>6. sub.count = Cardinality(Inner(s, i)) /\ sub.calls = CallsIn(s, k, i)
        BY <2>3 DEF Walked
    <2>7. UNION {Prefixed(j, CallsIn(s, k, j)) : j \in 1..i}
             = (UNION {Prefixed(j, CallsIn(s, k, j)) : j \in 1..(i - 1)}) \cup Prefixed(i, CallsIn(s, k, i))
        BY <2>1
    <2>8. Cardinality(First(s, i)) = Cardinality(First(s, i - 1)) + Cardinality(Inner(s, i))
        BY Counts
    <2> HIDE DEF sub, number
    <2> QED BY <2>5, <2>6, <2>7, <2>8 DEF Through
<1>3. Steps(closed)
    <2>1. ASSUME NEW i \in 0..Len(s)
          PROVE  closed[i] = IF i = 0 THEN Walked(0, {}) ELSE Round(w, s, k, closed[i - 1], i)
        <3>1. CASE i = 0
            BY <1>1, <3>1
        <3>2. CASE i # 0
            <4>1. i \in 1..Len(s) /\ i - 1 \in 0..Len(s)
                BY <3>2, Members
            <4>2. closed[i - 1] = Through(s, k, i - 1) /\ closed[i] = Through(s, k, i)
                BY <4>1
            <4> HIDE DEF closed
            <4> QED BY <1>2, <3>2, <4>1, <4>2
        <3> QED BY <3>1, <3>2
    <2> QED BY <2>1
<1>4. PICK h : Steps(h) /\ WalkLoop(w, s, k) = h[Len(s)]
    BY <1>3, Zenon DEF WalkLoop, Round
<1> DEFINE Good == {i \in 0..Len(s) : h[i] = closed[i]}
<1>5. 0 \in Good
    BY <1>1, <1>4, Members
<1>6. ASSUME NEW i \in 1..Len(s), i - 1 \in Good PROVE i \in Good
    <2>1. i # 0 /\ i \in 0..Len(s)
        BY Members
    <2>2. h[i] = Round(w, s, k, h[i - 1], i)
        BY <1>4, <2>1
    <2>3. closed[i] = Round(w, s, k, closed[i - 1], i)
        BY <1>3, <2>1
    <2>4. h[i - 1] = closed[i - 1]
        BY <1>6
    <2> QED BY <2>1, <2>2, <2>3, <2>4
<1> HIDE DEF Good
<1>7. 0..Len(s) \subseteq Good
    BY <1>5, <1>6, Members, UpTo
<1>8. h[Len(s)] = Through(s, k, Len(s))
    BY <1>7, Members DEF Good
<1> QED BY <1>4, <1>8, ThroughAll

\* A function that walks as the loop does, with itself for nested structures.
LEMMA Walks ==
    ASSUME NEW walk, walk = CHOOSE w : w = [s \in Structs |-> [k \in Nat |-> WalkLoop(w, s, k)]]
    PROVE  \A s \in Structs, k \in Nat : walk[s][k] = All(s, k)
<1> DEFINE closed == [s \in Structs |-> [k \in Nat |-> All(s, k)]]
<1>1. closed = [s \in Structs |-> [k \in Nat |-> WalkLoop(closed, s, k)]]
    <2>1. ASSUME NEW s \in Structs, NEW k \in Nat PROVE WalkLoop(closed, s, k) = All(s, k)
        <3>1. \A i \in 1..Len(s), n \in Nat : s[i].nested => closed[s[i].members][n] = All(s[i].members, n)
            BY Members
        <3> HIDE DEF closed
        <3> QED BY <3>1, WalkLoopIs
    <2> QED BY <2>1
<1>2. walk = [s \in Structs |-> [k \in Nat |-> WalkLoop(walk, s, k)]]
    <2> HIDE DEF closed
    <2> QED BY <1>1, Zenon
<1> DEFINE Good == {s \in Structs : \A k \in Nat : walk[s][k] = All(s, k)}
<1>3. ASSUME NEW s \in Structs, \A i \in 1..Len(s) : s[i].nested => s[i].members \in Good
      PROVE  s \in Good
    <2>1. \A i \in 1..Len(s), n \in Nat : s[i].nested => walk[s[i].members][n] = All(s[i].members, n)
        BY <1>3
    <2>2. ASSUME NEW k \in Nat PROVE walk[s][k] = All(s, k)
        <3>1. walk[s][k] = WalkLoop(walk, s, k)
            BY <1>2
        <3> QED BY <2>1, <3>1, WalkLoopIs
    <2> QED BY <2>2
<1> HIDE DEF Good
<1>4. Structs \subseteq Good
    BY <1>3, Structural
<1> QED BY <1>4 DEF Good

LEMMA TypeWalk == ASSUME NEW s \in Structs, NEW k \in Nat PROVE forEachFieldType[s][k] = All(s, k)
<1>1. forEachFieldType = CHOOSE w : w = [t \in Structs |-> [n \in Nat |-> WalkLoop(w, t, n)]]
    BY Zenon DEF forEachFieldType, WalkLoop
<1> QED BY <1>1, Walks

LEMMA ValueWalk == ASSUME NEW s \in Structs, NEW k \in Nat PROVE forEachFieldValue[s][k] = All(s, k)
<1>1. forEachFieldValue = CHOOSE w : w = [t \in Structs |-> [n \in Nat |-> WalkLoop(w, t, n)]]
    BY Zenon DEF forEachFieldValue, WalkLoop
<1> QED BY <1>1, Walks

-----------------------------------------------------------------------------
(* The numbers.                                                            *)

LEMMA MoreMembers ==
    ASSUME NEW s \in Structs, NEW i \in 0..Len(s), NEW n \in i..Len(s)
    PROVE  Cardinality(First(s, i)) <= Cardinality(First(s, n))
<1> DEFINE size(m) == Cardinality(First(s, m))
           Good == {m \in 0..Len(s) : i <= m => size(i) <= size(m)}
<1>1. Len(s) \in Nat /\ i \in Nat /\ n \in 0..Len(s) /\ \A m \in 0..Len(s) : size(m) \in Nat
    BY Members, Counts
<1>2. \A m \in 1..Len(s) : size(m - 1) <= size(m)
    <2> SUFFICES ASSUME NEW m \in 1..Len(s) PROVE size(m - 1) <= size(m)
        OBVIOUS
    <2>1. size(m) = size(m - 1) + Cardinality(Inner(s, m)) /\ Cardinality(Inner(s, m)) \in Nat
        BY Counts
    <2>2. m - 1 \in 0..Len(s)
        BY <1>1
    <2>3. size(m - 1) \in Nat
        BY <1>1, <2>2
    <2> HIDE DEF size
    <2> QED BY <2>1, <2>3
<1> HIDE DEF size
<1>3. 0 \in Good
    BY <1>1
<1>4. ASSUME NEW m \in 1..Len(s), m - 1 \in Good PROVE m \in Good
    <2>1. m \in 0..Len(s) /\ m - 1 \in 0..Len(s)
        BY <1>1
    <2>2. size(m) \in Nat /\ size(m - 1) \in Nat /\ size(i) \in Nat
        BY <1>1, <2>1
    <2> SUFFICES ASSUME i <= m PROVE size(i) <= size(m)
        BY <2>1
    <2>3. CASE i = m
        BY <2>2, <2>3
    <2>4. CASE i # m
        <3>1. i <= m - 1
            BY <1>1, <2>1, <2>4
        <3>2. size(i) <= size(m - 1) /\ size(m - 1) <= size(m)
            BY <1>2, <1>4, <3>1
        <3> QED BY <2>2, <3>2
    <2> QED BY <2>3, <2>4
<1> HIDE DEF Good
<1>5. 0..Len(s) \subseteq Good
    BY <1>1, <1>3, <1>4, UpTo
<1>6. i <= n
    OBVIOUS
<1> QED BY <1>1, <1>5, <1>6 DEF Good, size

Numbering(s) ==
    /\ \A p \in Leaves[s] : Declared(s, p) \in 0..(Cardinality(Leaves[s]) - 1)
    /\ \A p, q \in Leaves[s] : Declared(s, p) = Declared(s, q) => p = q

\* No number is out of range, and none is given twice.
LEMMA Distinct == ASSUME NEW s \in Structs PROVE Numbering(s)
<1> DEFINE Good == {t \in Structs : Numbering(t)}
<1>1. ASSUME NEW t \in Structs, \A i \in 1..Len(t) : t[i].nested => t[i].members \in Good
      PROVE  t \in Good
    <2> DEFINE size(m) == Cardinality(First(t, m))
    <2>1. ASSUME NEW i \in 1..Len(t), NEW p \in Inner(t, i)
          PROVE  /\ Earlier(t, i, p) \in 0..(Cardinality(Inner(t, i)) - 1)
                 /\ \A q \in Inner(t, i) : Earlier(t, i, p) = Earlier(t, i, q) => p = q
        <3>1. CASE t[i].nested
            <4>1. Inner(t, i) = Leaves[t[i].members] /\ Numbering(t[i].members)
                BY <1>1, <3>1 DEF Inner
            <4>2. \A q : Earlier(t, i, q) = Declared(t[i].members, q)
                BY <4>1 DEF Earlier, Declared
            <4> QED BY <4>1, <4>2 DEF Numbering
        <3>2. CASE ~ t[i].nested
            <4>1. Inner(t, i) = {<<>>} /\ Earlier(t, i, <<>>) = 0 /\ Cardinality(Inner(t, i)) = 1
                BY <3>2, OneField, Counts
            <4> QED BY <4>1
        <3> QED BY <3>1, <3>2
    <2>2. Len(t) \in Nat /\ \A m \in 0..Len(t) : size(m) \in Nat
        BY Members, Counts
    <2>3. ASSUME NEW i \in 1..Len(t), NEW p \in Inner(t, i)
          PROVE  /\ Declared(t, <<i>> \o p) = size(i - 1) + Earlier(t, i, p)
                 /\ Declared(t, <<i>> \o p) \in Nat
                 /\ size(i - 1) <= Declared(t, <<i>> \o p) /\ Declared(t, <<i>> \o p) < size(i)
                 /\ size(i) <= size(Len(t)) /\ size(i - 1) \in Nat /\ size(i) \in Nat /\ size(Len(t)) \in Nat
        <3>1. i - 1 \in 0..Len(t) /\ i \in 0..Len(t) /\ Len(t) \in i..Len(t) /\ Len(t) \in 0..Len(t)
            BY <2>2
        <3>2. size(i) <= size(Len(t))
            BY <3>1, MoreMembers
        <3>3. size(i) = size(i - 1) + Cardinality(Inner(t, i)) /\ Cardinality(Inner(t, i)) \in Nat
            BY Counts
        <3>4. Declared(t, <<i>> \o p) = size(i - 1) + Earlier(t, i, p)
            BY Rank
        <3>5. size(i - 1) \in Nat /\ size(i) \in Nat /\ size(Len(t)) \in Nat
            BY <2>2, <3>1
        <3> HIDE DEF size
        <3> QED BY <2>1, <3>2, <3>3, <3>4, <3>5
    <2>4. ASSUME NEW path \in Leaves[t]
          PROVE  \E i \in 1..Len(t) : \E p \in Inner(t, i) : path = <<i>> \o p
        <3>1. PICK i \in 1..Len(t) : path \in Under(i, Inner(t, i))
            BY LeavesFirst DEF First
        <3> QED BY <3>1 DEF Under
    <2>5. ASSUME NEW i \in 1..Len(t), NEW p \in Inner(t, i), NEW j \in 1..Len(t), NEW q \in Inner(t, j),
                 i < j
          PROVE  Declared(t, <<i>> \o p) < Declared(t, <<j>> \o q)
        <3>1. i \in 0..Len(t) /\ j - 1 \in i..Len(t)
            BY <2>2, <2>5
        <3>2. size(i) <= size(j - 1)
            BY <3>1, MoreMembers
        <3>3. /\ Declared(t, <<i>> \o p) < size(i) /\ Declared(t, <<i>> \o p) \in Nat /\ size(i) \in Nat
              /\ size(j - 1) <= Declared(t, <<j>> \o q) /\ Declared(t, <<j>> \o q) \in Nat /\ size(j - 1) \in Nat
            BY <2>3
        <3> HIDE DEF size
        <3> QED BY <3>2, <3>3
    <2>6. size(Len(t)) = Cardinality(Leaves[t])
        BY Counts
    <2>7. ASSUME NEW path \in Leaves[t] PROVE Declared(t, path) \in 0..(Cardinality(Leaves[t]) - 1)
        <3>1. PICK i \in 1..Len(t) : \E p \in Inner(t, i) : path = <<i>> \o p
            BY <2>4
        <3>2. PICK p \in Inner(t, i) : path = <<i>> \o p
            BY <3>1
        <3> HIDE DEF size
        <3>3. /\ Declared(t, path) \in Nat /\ Declared(t, path) < size(i) /\ size(i) <= size(Len(t))
              /\ size(i) \in Nat /\ size(Len(t)) \in Nat
            BY <2>3, <3>2
        <3> QED BY <2>6, <3>3
    <2>8. ASSUME NEW path \in Leaves[t], NEW other \in Leaves[t], Declared(t, path) = Declared(t, other)
          PROVE  path = other
        <3>1. PICK i \in 1..Len(t) : \E p \in Inner(t, i) : path = <<i>> \o p
            BY <2>4
        <3>2. PICK p \in Inner(t, i) : path = <<i>> \o p
            BY <3>1
        <3>3. PICK j \in 1..Len(t) : \E q \in Inner(t, j) : other = <<j>> \o q
            BY <2>4
        <3>4. PICK q \in Inner(t, j) : other = <<j>> \o q
            BY <3>3
        <3> HIDE DEF size
        <3>5. Declared(t, path) \in Nat /\ Declared(t, other) \in Nat
            BY <2>3, <3>2, <3>4
        <3>6. ~ (i < j) /\ ~ (j < i)
            BY <2>5, <2>8, <3>2, <3>4, <3>5
        <3>7. i = j
            BY <2>2, <3>6
        <3>8. Earlier(t, i, p) = Earlier(t, i, q)
            <4>1. /\ Declared(t, path) = size(i - 1) + Earlier(t, i, p)
                  /\ Declared(t, other) = size(i - 1) + Earlier(t, i, q)
                  /\ size(i - 1) \in Nat
                BY <2>3, <3>2, <3>4, <3>7
            <4>2. Earlier(t, i, p) \in Int /\ Earlier(t, i, q) \in Int
                BY <3>4, <3>7, Rank
            <4>3. size(i - 1) + Earlier(t, i, p) = size(i - 1) + Earlier(t, i, q)
                BY <2>8, <4>1
            <4>4. size(i - 1) \in Int
                BY <4>1
            <4> QED BY <4>2, <4>3, <4>4
        <3> QED BY <2>1, <3>2, <3>4, <3>7, <3>8
    <2> QED BY <2>7, <2>8 DEF Numbering
<1> HIDE DEF Good
<1>2. Structs \subseteq Good
    BY <1>1, Structural
<1> QED BY <1>2 DEF Good

\* However structures nest, the walk over types, the walk over values and the
\* lookup of a member pointer give a field one number, the count of the fields
\* declared before it (Helpers.h:126-167, 206-266, 311-339).
THEOREM NumbersCorrect == FieldsNumbered
<1> SUFFICES ASSUME NEW s \in Structs
             PROVE  LET all == Walked(Cardinality(Leaves[s]), {<<p, Declared(s, p)>> : p \in Leaves[s]}) IN
                    /\ forEachFieldType[s][0] = all
                    /\ forEachFieldValue[s][0] = all
                    /\ fieldCount[s] = all.count
                    /\ \A i \in DOMAIN s : ~s[i].nested => /\ <<i>> \in Leaves[s]
                                                           /\ findTransparentFieldIndex(s, i) = Declared(s, <<i>>)
    BY DEF FieldsNumbered
<1> DEFINE all == Walked(Cardinality(Leaves[s]), {<<p, Declared(s, p)>> : p \in Leaves[s]})
<1>1. \A p \in Leaves[s] : 0 + Declared(s, p) = Declared(s, p)
    BY Distinct DEF Numbering
<1>2. Calls(s, 0) = {<<p, Declared(s, p)>> : p \in Leaves[s]}
    BY <1>1 DEF Calls
<1>3. All(s, 0) = all
    BY <1>2 DEF All
<1>4. all.count = Cardinality(Leaves[s])
    BY DEF Walked
<1> HIDE DEF all
<1>5. forEachFieldType[s][0] = all /\ forEachFieldValue[s][0] = all /\ fieldCount[s] = all.count
    BY <1>3, <1>4, TypeWalk, ValueWalk, FieldCount
<1>6. \A i \in DOMAIN s : ~s[i].nested => /\ <<i>> \in Leaves[s]
                                          /\ findTransparentFieldIndex(s, i) = Declared(s, <<i>>)
    BY Members, PointerNumber
<1> QED BY <1>5, <1>6 DEF all

=============================================================================
