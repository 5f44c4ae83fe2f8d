----------------------------- MODULE OperandFetch -----------------------------
(***************************************************************************)
(* What the trigger reads and how it compares it: the fetch of variables   *)
(* and of bitfields, the conversion to the types of comparison, and the    *)
(* conditions.                                                             *)
(*                                                                         *)
(* A char of memory, and a value of a C type, is the set of its bits that  *)
(* are 1 (little endian, as the union AnyType is read).  A size is a       *)
(* number of chars.  A floating point number is an integer that it holds   *)
(* exactly.                                                                *)
(***************************************************************************)
EXTENDS Integers, Sequences, FiniteSets, FiniteSetsExt

CONSTANTS
    CharBits,       \* bits of a char (8)
    BiggestSize     \* size of the largest supported type (4, or 8 with SCRUTINY_SUPPORT_64BITS)

ASSUME WidthAssumption == CharBits \in Nat \ {0} /\ BiggestSize \in Nat \ {0}

Char == SUBSET (0 .. CharBits - 1)

\* get_required_type_size_8bits(): the sizes of types are powers of two; 0 is _undef.
RequiredSize(n) ==
    LET sizes == {s \in {1, 2, 4, 8, 16, 32} : n <= s}
    IN IF sizes = {} THEN 0 ELSE CHOOSE s \in sizes : \A t \in sizes : s <= t

\* is_supported_type(), for a native bool of one char.
IsSupported(type) ==
    /\ type.size \in {1, 2, 4, 8} /\ type.size <= BiggestSize
    /\ \/ type.tt \in {"uint", "sint"}
       \/ type.tt = "boolean" /\ type.size = 1
       \/ type.tt = "float" /\ type.size >= 4

\* The word made of chars: the first char holds the lowest bits.
WordOf(chars) == UNION {{CharBits * (i - 1) + b : b \in chars[i]} : i \in DOMAIN chars}

\* The chars that fetch_variable_bitfield() reads, and the size of what it returns.
FetchSize(bitoffset, bitsize) == RequiredSize(((bitoffset + bitsize - 1) \div CharBits) + 1)
OutputSize(bitsize) == RequiredSize(((bitsize - 1) \div CharBits) + 1)

ShiftBits(word, n) == {k - n : k \in {j \in word : j >= n}}
Mask(bitsize) == 0 .. bitsize - 1
SignExtend(word, bitsize, width) ==
    IF bitsize - 1 \in word THEN word \union (bitsize .. width - 1) ELSE word

\* Faulty variants (names starting with Faulty) are not part of the model: each is a slip
\* that the properties are sensitive to.
FaultyFieldBits(word, tt, bitoffset, bitsize) == ShiftBits(word, bitoffset) \intersect Mask(bitsize)

\* The bits of the output, from the word that was read.
FieldBits(word, tt, bitoffset, bitsize) ==
    LET masked == ShiftBits(word, bitoffset) \intersect Mask(bitsize)
    IN IF tt = "sint" THEN SignExtend(masked, bitsize, CharBits * OutputSize(bitsize)) ELSE masked

-----------------------------------------------------------------------------
(* convert_to_compare_type() *)

Unsigned(bits) == SumSet({2^b : b \in bits})
Signed(bits, width) == Unsigned(bits) - (IF width - 1 \in bits THEN 2^width ELSE 0)

Value(t, v) == [type |-> t, val |-> v]

\* The values that a value of the given type and size may be converted to: one, except
\* for a bool whose object holds neither 0 nor 1.  There is no float of 8 or 16 bits: such
\* a value keeps a type that the conditions do not know.
Converted(tt, size, bits) ==
    CASE tt = "uint" -> {Value("uint", Unsigned(bits))}
      [] tt = "sint" -> {Value("sint", Signed(bits, CharBits * size))}
      [] tt = "float" -> {Value(IF size >= 4 THEN "float" ELSE "other", Signed(bits, CharBits * size))}
      [] tt = "boolean" -> IF bits \subseteq {0} THEN {Value("uint", Unsigned(bits))}
                           ELSE {Value("uint", v) : v \in {0, 1, Unsigned(bits)}}

-----------------------------------------------------------------------------
(* The conditions *)

IntMax == 2^(CharBits * BiggestSize - 1) - 1
UintModulus == 2^(CharBits * BiggestSize)

Related(op, a, b) ==
    CASE op = "Equal" -> a = b
      [] op = "NotEqual" -> a # b
      [] op = "GreaterThan" -> a > b
      [] op = "GreaterOrEqualThan" -> a >= b
      [] op = "LessThan" -> a < b
      [] op = "LessOrEqualThan" -> a <= b

\* An unsigned value compared to a signed one is capped to the largest signed value.
FaultyCompared(v, other) == IF v.type = "uint" /\ other.type = "sint" /\ v.val > IntMax
                            THEN v.val - UintModulus ELSE v.val
Compared(v, other) == IF v.type = "uint" /\ other.type = "sint" /\ v.val > IntMax THEN IntMax ELSE v.val

\* RelationalCompare(): false for a type it does not know.
RelationalCompare(op, a, b) ==
    /\ {a.type, b.type} \subseteq {"uint", "sint", "float"}
    /\ Related(op, Compared(a, b), Compared(b, a))

\* The sum that ChangeMoreThan compares to: modulo for unsigned values.
Shifted(previous, type, delta) ==
    IF type = "uint" THEN (previous + delta) % UintModulus ELSE previous + delta

\* The results ChangeMoreThan may give after a previous value: both, when the sum of two
\* signed integers overflows.
ChangedMoreThan(previous, v, delta) ==
    IF v.type = "sint" /\ (previous + delta) \notin -IntMax - 1 .. IntMax THEN BOOLEAN
    ELSE {IF delta >= 0 THEN v.val > Shifted(previous, v.type, delta)
                        ELSE v.val < Shifted(previous, v.type, delta)}

Abs(n) == IF n >= 0 THEN n ELSE -n
IsWithin(a, b, margin) == Abs(a - b) <= Abs(margin)

RelationalOperators ==
    {"Equal", "NotEqual", "GreaterThan", "GreaterOrEqualThan", "LessThan", "LessOrEqualThan"}
OperandCount(condition) ==
    CASE condition = "AlwaysTrue" -> 0
      [] condition = "IsWithin" -> 3
      [] condition \in RelationalOperators \union {"ChangeMoreThan"} -> 2
=============================================================================
