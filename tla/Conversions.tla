---------------------------- MODULE Conversions -----------------------------
(***************************************************************************)
(* How a field becomes a column value and back (Bind.h, Get.h,             *)
(* Helpers.h:30-68). Widths are kept: the 64-bit types, and the columns,   *)
(* hold 2 * Half values, the 8, 16 and 32-bit types 2 * NarrowHalf.        *)
(***************************************************************************)
EXTENDS Integers

CONSTANTS
    Half,           \* the weight of the sign bit of the 64-bit integer types
    NarrowHalf,     \* the same of the narrower ones
    Tick,           \* a tick of a duration or time point, in nanoseconds
    Null            \* SQL NULL, and an optional without a value

\* A column holds every value of a narrow type, unsigned ones too.
ASSUME ConversionsAssumption ==
    /\ Half \in Nat \ {0}
    /\ NarrowHalf \in Nat \ {0}
    /\ 2 * NarrowHalf <= Half
    /\ Tick \in Nat \ {0}
    /\ Null \notin Int

\* "int" and "uint" have 64 bits. A "short" is signed and narrow; an unsigned
\* narrow type is a "word" if it has 32 bits, and else a "byte".
Integral == {"int", "uint", "short", "word", "byte", "bool"}

\* A bool is 0 or 1. A blob is the number that tells it apart from others; 0
\* is the empty one. So is a text, 2n and 2n + 1 differ in case only. A decimal
\* is its bits. An enum is the integer under it. A time is counted in ticks of
\* nanoseconds or more; that its cast fits is up to the program.
Types == Integral \cup {"blob", "optional", "text", "decimal", "time"}

Signed(h) == (-h)..(h - 1)
Unsigned(h) == 0..(2 * h - 1)

Values(t) ==
    CASE t = "int"              -> Signed(Half)
      [] t = "short"            -> Signed(NarrowHalf)
      [] t \in {"uint", "decimal"} -> Unsigned(Half)
      [] t \in {"word", "byte"}    -> Unsigned(NarrowHalf)
      [] t = "bool"             -> {0, 1}
      [] t \in {"blob", "text"}    -> Nat
      [] t = "optional"         -> Signed(Half) \cup {Null}
      [] t = "time"             -> {v \in Signed(Half) : v * Tick \in Signed(Half)}

\* val ^ (1 << (bits - 1)), of an unsigned value.
flipSignBit(u, h) == (u + h) % (2 * h)

\* A cast between the signed and the unsigned type of one width.
ToSigned(u, h) == ((u + h) % (2 * h)) - h
ToUnsigned(s, h) == s % (2 * h)

makeSigned(u, h) == ToSigned(flipSignBit(u, h), h)

\* Mutant: a cast alone.
makeUnsignedCast(s, h) == ToUnsigned(s, h)

makeUnsigned(s, h) == flipSignBit(ToUnsigned(s, h), h)

\* duration_cast from nanoseconds truncates towards zero.
FromNanoseconds(x) == IF x < 0 THEN -((-x) \div Tick) ELSE x \div Tick

\* An unsigned value of 8 or 16 bits is bound as it is. An empty blob has no
\* data pointer and so becomes NULL.
bind(t, v) ==
    CASE t = "uint" -> makeSigned(v, Half)
      [] t = "word" -> makeSigned(v, NarrowHalf)
      [] t = "blob" -> IF v = 0 THEN Null ELSE v
      [] t = "decimal" -> ToSigned(v, Half)
      [] t = "time" -> v * Tick
      [] OTHER      -> v

\* A narrow value is what is left of the column in the signed type of its width,
\* or is made from that. The assertions on the column's type are not in a release
\* build: a NULL reads as 0.
Number(x) == IF x = Null THEN 0 ELSE x

get(t, x) ==
    CASE t = "uint"     -> makeUnsigned(Number(x), Half)
      [] t = "short"    -> ToSigned(Number(x), NarrowHalf)
      [] t = "word"     -> makeUnsigned(ToSigned(Number(x), NarrowHalf), NarrowHalf)
      [] t = "byte"     -> ToUnsigned(ToSigned(Number(x), NarrowHalf), NarrowHalf)
      [] t = "bool"     -> IF Number(x) = 0 THEN 0 ELSE 1
      [] t = "decimal"  -> ToUnsigned(Number(x), Half)
      [] t = "time"     -> FromNanoseconds(Number(x))
      [] t = "optional" -> x
      [] OTHER          -> Number(x)

\* Mutant: a blob column takes no NULL either.
AllowsNullOptional(t) == t = "optional"

\* TableBuilder::addColumn without a constraint of the program's: any column is
\* NOT NULL but that of an optional or of a blob.
AllowsNull(t) == t \in {"optional", "blob"}

\* "=" of SQL: nothing equals NULL, and the columns of texts are made with
\* COLLATE NOCASE.
Equal(t, x, y) ==
    /\ x # Null
    /\ \/ x = y
       \/ t = "text" /\ y \in Nat /\ x \div 2 = y \div 2
=============================================================================
