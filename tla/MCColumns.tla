----------------------------- MODULE MCColumns ------------------------------
EXTENDS SetColumns

\* A record with a nested one: id, box (lo, hi), kind, note, flag, name, price,
\* when, delta, count
MCStruct == <<Field, Struct(<<Field, Field>>), Field, Field, Field, Field, Field, Field, Field, Field>>

MCFields == {<<1>>, <<2, 1>>, <<2, 2>>} \cup {<<i>> : i \in 3..10}

\* In the order of MCStruct.
ByField(s) ==
    [p \in MCFields |-> s[IF p = <<1>> THEN 1 ELSE IF Len(p) = 2 THEN 1 + p[2] ELSE p[1] + 1]]

MCTypeOf == ByField(<<"int", "byte", "blob", "uint", "optional", "bool", "text", "decimal", "time",
                      "short", "word">>)
MCUnsignedId == [MCTypeOf EXCEPT ![<<1>>] = "uint"]

\* The ends of the ranges; the empty blob, an optional with and without a value;
\* one name in two cases; the first time and the last.
MCValue(id, kind, flag) ==
    LET Either(x, y) == IF flag = 0 THEN x ELSE y IN
    ByField(<<id, 2 * NarrowHalf - 1, 0, kind, Either(Null, Half - 1), flag, 4 + flag, 2 * Half - 1,
              FromNanoseconds(Either(-Half, Half - 1)),
              Either(-NarrowHalf, NarrowHalf - 1), Either(0, 2 * NarrowHalf - 1)>>)
MCGiven == {MCValue(-Half, 0, 0), MCValue(-Half, 2 * Half - 1, 1), MCValue(Half - 1, 2 * Half - 1, 0)}
MCUnsignedGiven == {[v EXCEPT ![<<1>>] = makeUnsigned(@, Half)] : v \in MCGiven}

\* The tuples do not name the fields in their order. The last is an id whose
\* range ends before the row ids do.
MCKeyTuples == {<< <<3>>, <<1>> >>, << <<1>> >>, << <<9>> >>}
MCUpdaterPtrs == << <<5>>, <<4>> >>
MCIndexPtrs == << <<6>>, <<4>>, <<3>> >>

-----------------------------------------------------------------------------
\* Structures up to three members wide and three levels deep.
Flat == {<<Field>>, <<Field, Field>>}
FlatMember == {Field} \cup {Struct(s) : s \in Flat}
Nested == {<<a, b>> : a, b \in FlatMember}
Member == {Field, Struct(<<Field>>)} \cup {Struct(s) : s \in Nested}
MCStructs == Flat \cup Nested \cup UNION {[1..n -> Member] : n \in 1..3} \cup {MCStruct}

MCNesting[s \in MCStructs] ==
    LET below == {MCNesting[s[i].members] : i \in {j \in DOMAIN s : s[j].nested}}
    IN IF below = {} THEN 0 ELSE 1 + CHOOSE d \in below : \A e \in below : e <= d
=============================================================================
