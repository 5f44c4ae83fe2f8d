------------------------------ MODULE BinaryCodecs ------------------------------
(***************************************************************************)
(* Integers, addresses and datatypes as bytes: the codecs of               *)
(* scrutiny_common_codecs.hpp and the type helpers of scrutiny_tools.hpp.  *)
(* A byte, and what a byte sequence encodes, is a number.  The protocol    *)
(* uses one 8-bit byte per element of a buffer; the in-memory codecs that  *)
(* end in _char put CHAR_BIT bits in each.                                 *)
(***************************************************************************)
EXTENDS Integers, Sequences, SequencesExt

CONSTANTS
    AddressSize,    \* SIZEOF_8BITS(void *)
    Supports64Bits  \* SCRUTINY_SUPPORT_64BITS

ASSUME AddressAssumption == AddressSize \in {1, 2, 4, 8} /\ Supports64Bits \in BOOLEAN

Byte == 0 .. 255

\* 256 to the power n: the weight of a byte that n others follow.
Weight(n) == LET weight[k \in 0 .. n] == IF k = 0 THEN 1 ELSE 256 * weight[k - 1] IN weight[n]

\* encode_8_bits to encode_64_bits, big endian, one byte per element.
Encode(value, size) == [i \in 1 .. size |-> (value \div Weight(size - i)) % 256]

\* decode_16_bits to decode_64_bits, big endian.
Decode(bytes) ==
    LET high[n \in 0 .. Len(bytes)] == IF n = 0 THEN 0 ELSE 256 * high[n - 1] + bytes[n]
    IN high[Len(bytes)]

EncodeAddress(address) == Encode(address, AddressSize)
DecodeAddress(bytes) == Decode(SubSeq(bytes, 1, AddressSize))

-----------------------------------------------------------------------------
(* Datatypes: a byte whose high half is the kind of type and whose low half *)
(* is the base 2 logarithm of the size.                                     *)

KindOfType == [n \in 0 .. 15 |->
    CASE n = 0 -> "sint" [] n = 1 -> "uint" [] n = 2 -> "float" [] n = 3 -> "boolean"
      [] n = 4 -> "cfloat" [] n \in 5 .. 15 -> "undef"]
NativeBoolean == 3 * 16 + 15
UnknownType == 255
BooleanSize == 1    \* sizeof(bool)

\* get_var_type_type()
TypeKind(type) == KindOfType[type \div 16]

\* get_type_size_8bits(), in a uint_least8_t.
TypeSize(type) ==
    CASE type = UnknownType -> 0
      [] type = NativeBoolean -> BooleanSize
      [] type \notin {UnknownType, NativeBoolean} -> (2^(type % 16)) % 256

BiggestType == IF Supports64Bits THEN 8 ELSE 4

\* is_supported_type()
IsSupportedType(type) ==
    \/ type = NativeBoolean
    \/ /\ TypeSize(type) \in 1 .. BiggestType
       /\ CASE TypeKind(type) = "boolean" -> TypeSize(type) = BooleanSize
            [] TypeKind(type) = "float" -> TypeSize(type) \in {4, 8}
            [] TypeKind(type) \in {"sint", "uint"} -> TRUE
            [] TypeKind(type) \in {"cfloat", "undef"} -> FALSE

\* get_platform_boolean(): the boolean type of sizeof(bool) bytes.
PlatformBoolean == 3 * 16

\* is_float_finite(), of the 32 bits of a float: the exponent is not all ones.
IsFinite(bits) == (bits \div 2^23) % 256 # 255
=============================================================================
