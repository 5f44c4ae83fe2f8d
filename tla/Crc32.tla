--------------------------------- MODULE Crc32 ---------------------------------
(***************************************************************************)
(* tools::crc32(), nibble by nibble with its table of 16 words, and the    *)
(* CRC-32 it stands for, bit by bit.  A 32-bit word is the set of its bits *)
(* that are 1, so that exclusive or is the symmetric difference; a byte is *)
(* a number.                                                               *)
(***************************************************************************)
EXTENDS Integers, Sequences, FiniteSetsExt

Word == SUBSET (0 .. 31)
PowersOfTwo == <<1, 2, 4, 8, 16, 32, 64, 128, 256, 512, 1024, 2048, 4096, 8192, 16384, 32768>>
Bit(n, i) == (n \div PowersOfTwo[i + 1]) % 2

\* The word whose upper and lower 16 bits are hi and lo.
MakeWord(hi, lo) ==
    {i \in 0 .. 15 : Bit(lo, i) = 1} \union {i \in 16 .. 31 : Bit(hi, i - 16) = 1}

ShiftRight(w, n) == {i - n : i \in {j \in w : j >= n}}
Complement(w) == (0 .. 31) \ w
ByteBits(b) == {i \in 0 .. 7 : Bit(b, i) = 1}

CrcTable == <<
    MakeWord(0, 0), MakeWord(\h1DB7, \h1064), MakeWord(\h3B6E, \h20C8), MakeWord(\h26D9, \h30AC),
    MakeWord(\h76DC, \h4190), MakeWord(\h6B6B, \h51F4), MakeWord(\h4DB2, \h6158), MakeWord(\h5005, \h713C),
    MakeWord(\hEDB8, \h8320), MakeWord(\hF00F, \h9344), MakeWord(\hD6D6, \hA3E8), MakeWord(\hCB61, \hB38C),
    MakeWord(\h9B64, \hC2B0), MakeWord(\h86D3, \hD2D4), MakeWord(\hA00A, \hE278), MakeWord(\hBDBD, \hF21C)>>

\* The entry of the table for the lower four bits of a word.
TableEntry(w) ==
    CrcTable[1 + (IF 0 \in w THEN 1 ELSE 0) + (IF 1 \in w THEN 2 ELSE 0)
               + (IF 2 \in w THEN 4 ELSE 0) + (IF 3 \in w THEN 8 ELSE 0)]

NibbleStep(crc, nibble) == SymDiff(TableEntry(SymDiff(crc, nibble)), ShiftRight(crc, 4))

ByteStep(crc, byte) ==
    NibbleStep(NibbleStep(crc, ByteBits(byte)), ShiftRight(ByteBits(byte), 4))

\* crc32(data, size, start_value), for the bytes of data: calls can be chained.
Crc(data, start) ==
    LET crc[n \in 0 .. Len(data)] ==
            IF n = 0 THEN Complement(start) ELSE ByteStep(crc[n - 1], data[n])
    IN Complement(crc[Len(data)])

\* The four bytes of a word, most significant first.
WordBytes(w) ==
    [k \in 1 .. 4 |-> LET low == 8 * (4 - k) IN
        (IF low \in w THEN 1 ELSE 0) + (IF low + 1 \in w THEN 2 ELSE 0)
        + (IF low + 2 \in w THEN 4 ELSE 0) + (IF low + 3 \in w THEN 8 ELSE 0)
        + (IF low + 4 \in w THEN 16 ELSE 0) + (IF low + 5 \in w THEN 32 ELSE 0)
        + (IF low + 6 \in w THEN 64 ELSE 0) + (IF low + 7 \in w THEN 128 ELSE 0)]

-----------------------------------------------------------------------------
(* The reference: the remainder by the reflected polynomial, bit by bit. *)

Polynomial == MakeWord(\hEDB8, \h8320)
BitStep(crc, bit) ==
    IF (0 \in crc) = (bit = 1) THEN ShiftRight(crc, 1)
    ELSE SymDiff(ShiftRight(crc, 1), Polynomial)
ReferenceByteStep(crc, byte) ==
    LET step[n \in 0 .. 8] == IF n = 0 THEN crc ELSE BitStep(step[n - 1], Bit(byte, n - 1))
    IN step[8]
ReferenceCrc(data, start) ==
    LET crc[n \in 0 .. Len(data)] ==
            IF n = 0 THEN Complement(start) ELSE ReferenceByteStep(crc[n - 1], data[n])
    IN Complement(crc[Len(data)])
=============================================================================
