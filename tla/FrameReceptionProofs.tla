--------------------------- MODULE FrameReceptionProofs ---------------------------
(***************************************************************************)
(* What the CommHandler keeps for every length of data, every cut of the   *)
(* requests and of the responses, and every size of its buffers: crc32()   *)
(* with its table of nibbles is the CRC-32; a reception is the parse of    *)
(* the bytes it took; the bytes handed out are those of one response; a    *)
(* frame that follows a silence is heard.                                  *)
(***************************************************************************)
EXTENDS FrameReception, Integers, TLAPS, WellFoundedInduction, SequenceTheorems

-----------------------------------------------------------------------------
(* Counters that wrap, induction, and functions defined by recursion.  The *)
(* induction is over a set of numbers and the steps of a recursion are a   *)
(* function, so that first-order provers can use both.                     *)

\* A counter that goes around once at most.
LEMMA SmallMod ==
  ASSUME NEW n \in Nat, NEW m \in Nat \ {0}, n < 2 * m
  PROVE  n % m = IF n < m THEN n ELSE n - m
  <1>1. CASE n < m
    BY <1>1
  <1>2. CASE n >= m
    <2>1. (n - m) % m = n - m
      BY <1>2
    <2>2. n % m = (n - m) % m
      BY <1>2
    <2> QED
      BY <1>2, <2>1, <2>2
  <1> QED
    BY <1>1, <1>2

LEMMA CounterWraps == ASSUME NEW n \in Nat, NEW m \in Nat \ {0} PROVE n % m \in 0 .. m - 1
  OBVIOUS

LEMMA Quotients == ASSUME NEW n \in Nat, NEW m \in Nat \ {0} PROVE n \div m \in Nat
  OBVIOUS

LEMMA LeastNumber ==
  ASSUME NEW T \in SUBSET Nat, T # {}
  PROVE  \E m \in T : \A k \in T : m <= k
  <1> DEFINE R == OpToRel(<, Nat)
  <1>1. \E x \in T : \A y \in T : ~ (<<y, x>> \in R)
    BY NatLessThanWellFounded, WFMin
  <1>2. \A x, y \in Nat : y < x => <<y, x>> \in R
    BY DEF OpToRel
  <1> HIDE DEF R
  <1>3. PICK m \in T : \A k \in T : ~ (<<k, m>> \in R)
    BY <1>1
  <1>4. \A k \in T : ~(k < m)
    BY <1>2, <1>3
  <1> QED
    BY <1>4

\* Induction from 0 up to m.
LEMMA UpTo ==
  ASSUME NEW m \in Nat, NEW S, 0 \in S, \A n \in 1 .. m : n - 1 \in S => n \in S
  PROVE  \A n \in 0 .. m : n \in S
  <1> DEFINE T == {n \in 0 .. m : n \notin S}
  <1>1. SUFFICES ASSUME T # {} PROVE FALSE
    OBVIOUS
  <1>2. PICK n \in T : \A k \in T : n <= k
    <2>1. T \in SUBSET Nat
      OBVIOUS
    <2> HIDE DEF T
    <2> QED
      BY <1>1, <2>1, LeastNumber
  <1>3. n \in 1 .. m /\ n \notin S
    BY <1>2
  <1>4. n - 1 \in 0 .. m /\ n - 1 \notin T
    BY <1>2, <1>3
  <1> QED
    BY <1>3, <1>4

\* step[n] makes the value at n of the one at n - 1.
Stepping(step, m, V) == step \in [1 .. m -> [V -> V]]

\* f is computed by these steps up to n, as long as its values are in V.
Follows(f, base, step, n, V) ==
    f[0] = base /\ \A k \in 1 .. n : f[k - 1] \in V => f[k] = step[k][f[k - 1]]

LEMMA Recursion ==
  ASSUME NEW m \in Nat, NEW V, NEW base \in V, NEW step, Stepping(step, m, V)
  PROVE  \E f : f \in [0 .. m -> V] /\ Follows(f, base, step, m, V)
  <1> DEFINE S == {k \in 0 .. m : \E f \in [0 .. k -> V] : Follows(f, base, step, k, V)}
  <1>1. 0 \in S
    <2> DEFINE g == [n \in 0 .. 0 |-> base]
    <2>1. g \in [0 .. 0 -> V] /\ Follows(g, base, step, 0, V)
      BY DEF Follows
    <2> HIDE DEF g
    <2>2. \E f \in [0 .. 0 -> V] : Follows(f, base, step, 0, V)
      BY <2>1
    <2> QED
      BY <2>2
  <1>2. ASSUME NEW k \in 1 .. m, k - 1 \in S PROVE k \in S
    <2>1. PICK f \in [0 .. k - 1 -> V] : Follows(f, base, step, k - 1, V)
      BY <1>2
    <2> DEFINE g == [n \in 0 .. k |-> IF n = k THEN step[k][f[k - 1]] ELSE f[n]]
    <2>2. k - 1 \in 0 .. k - 1 /\ f[k - 1] \in V /\ step[k] \in [V -> V]
      BY DEF Stepping
    <2>3. g \in [0 .. k -> V]
      BY <2>2
    <2>4. ASSUME NEW n \in 1 .. k PROVE g[n] = step[n][g[n - 1]]
      <3>1. CASE n = k
        BY <2>2, <3>1
      <3>2. CASE n # k
        <4>1. n \in 1 .. k - 1 /\ n - 1 \in 0 .. k /\ n - 1 # k /\ n - 1 \in 0 .. k - 1
          BY <3>2
        <4> QED
          BY <2>1, <4>1 DEF Follows
      <3> QED
        BY <3>1, <3>2
    <2>5. g[0] = base
      BY <2>1 DEF Follows
    <2> HIDE DEF g
    <2>6. Follows(g, base, step, k, V)
      BY <2>4, <2>5 DEF Follows
    <2>7. \E h \in [0 .. k -> V] : Follows(h, base, step, k, V)
      BY <2>3, <2>6
    <2> QED
      BY <2>7
  <1>3. m \in S
    <2> HIDE DEF S
    <2>1. \A n \in 0 .. m : n \in S
      BY <1>1, <1>2, UpTo
    <2> QED
      BY <2>1
  <1> QED
    BY <1>3

-----------------------------------------------------------------------------
(* The table of crc32() *)

\* The words of the table, and the polynomial among them.
Words == <<
    {},
    {2, 5, 6, 12, 16, 17, 18, 20, 21, 23, 24, 26, 27, 28},
    {3, 6, 7, 13, 17, 18, 19, 21, 22, 24, 25, 27, 28, 29},
    {2, 3, 5, 7, 12, 13, 16, 19, 20, 22, 23, 25, 26, 29},
    {4, 7, 8, 14, 18, 19, 20, 22, 23, 25, 26, 28, 29, 30},
    {2, 4, 5, 6, 7, 8, 12, 14, 16, 17, 19, 21, 22, 24, 25, 27, 29, 30},
    {3, 4, 6, 8, 13, 14, 17, 20, 21, 23, 24, 26, 27, 30},
    {2, 3, 4, 5, 8, 12, 13, 14, 16, 18, 28, 30},
    {5, 8, 9, 15, 19, 20, 21, 23, 24, 26, 27, 29, 30, 31},
    {2, 6, 8, 9, 12, 15, 16, 17, 18, 19, 28, 29, 30, 31},
    {3, 5, 6, 7, 8, 9, 13, 15, 17, 18, 20, 22, 23, 25, 26, 28, 30, 31},
    {2, 3, 7, 8, 9, 12, 13, 15, 16, 21, 22, 24, 25, 27, 30, 31},
    {4, 5, 7, 9, 14, 15, 18, 21, 22, 24, 25, 27, 28, 31},
    {2, 4, 6, 7, 9, 12, 14, 15, 16, 17, 20, 22, 23, 25, 26, 31},
    {3, 4, 5, 6, 9, 13, 14, 15, 17, 19, 29, 31},
    {2, 3, 4, 9, 12, 13, 14, 15, 16, 18, 19, 20, 21, 23, 24, 26, 27, 28, 29, 31}>>

\* The sixteen words of the table, bit by bit.
LEMMA TableWords == CrcTable = Words
  <1>1. MakeWord(0, 0) = {}
    BY DEF MakeWord, Bit, PowersOfTwo
  <1>2. MakeWord(\h1DB7, \h1064) = {2, 5, 6, 12, 16, 17, 18, 20, 21, 23, 24, 26, 27, 28}
    BY DEF MakeWord, Bit, PowersOfTwo
  <1>3. MakeWord(\h3B6E, \h20C8) = {3, 6, 7, 13, 17, 18, 19, 21, 22, 24, 25, 27, 28, 29}
    BY DEF MakeWord, Bit, PowersOfTwo
  <1>4. MakeWord(\h26D9, \h30AC) = {2, 3, 5, 7, 12, 13, 16, 19, 20, 22, 23, 25, 26, 29}
    BY DEF MakeWord, Bit, PowersOfTwo
  <1>5. MakeWord(\h76DC, \h4190) = {4, 7, 8, 14, 18, 19, 20, 22, 23, 25, 26, 28, 29, 30}
    BY DEF MakeWord, Bit, PowersOfTwo
  <1>6. MakeWord(\h6B6B, \h51F4) = {2, 4, 5, 6, 7, 8, 12, 14, 16, 17, 19, 21, 22, 24, 25, 27, 29, 30}
    BY DEF MakeWord, Bit, PowersOfTwo
  <1>7. MakeWord(\h4DB2, \h6158) = {3, 4, 6, 8, 13, 14, 17, 20, 21, 23, 24, 26, 27, 30}
    BY DEF MakeWord, Bit, PowersOfTwo
  <1>8. MakeWord(\h5005, \h713C) = {2, 3, 4, 5, 8, 12, 13, 14, 16, 18, 28, 30}
    BY DEF MakeWord, Bit, PowersOfTwo
  <1>9. MakeWord(\hEDB8, \h8320) = {5, 8, 9, 15, 19, 20, 21, 23, 24, 26, 27, 29, 30, 31}
    BY DEF MakeWord, Bit, PowersOfTwo
  <1>10. MakeWord(\hF00F, \h9344) = {2, 6, 8, 9, 12, 15, 16, 17, 18, 19, 28, 29, 30, 31}
    BY DEF MakeWord, Bit, PowersOfTwo
  <1>11. MakeWord(\hD6D6, \hA3E8) = {3, 5, 6, 7, 8, 9, 13, 15, 17, 18, 20, 22, 23, 25, 26, 28, 30, 31}
    BY DEF MakeWord, Bit, PowersOfTwo
  <1>12. MakeWord(\hCB61, \hB38C) = {2, 3, 7, 8, 9, 12, 13, 15, 16, 21, 22, 24, 25, 27, 30, 31}
    BY DEF MakeWord, Bit, PowersOfTwo
  <1>13. MakeWord(\h9B64, \hC2B0) = {4, 5, 7, 9, 14, 15, 18, 21, 22, 24, 25, 27, 28, 31}
    BY DEF MakeWord, Bit, PowersOfTwo
  <1>14. MakeWord(\h86D3, \hD2D4) = {2, 4, 6, 7, 9, 12, 14, 15, 16, 17, 20, 22, 23, 25, 26, 31}
    BY DEF MakeWord, Bit, PowersOfTwo
  <1>15. MakeWord(\hA00A, \hE278) = {3, 4, 5, 6, 9, 13, 14, 15, 17, 19, 29, 31}
    BY DEF MakeWord, Bit, PowersOfTwo
  <1>16. MakeWord(\hBDBD, \hF21C) = {2, 3, 4, 9, 12, 13, 14, 15, 16, 18, 19, 20, 21, 23, 24, 26, 27, 28, 29, 31}
    BY DEF MakeWord, Bit, PowersOfTwo
  <1> QED
    BY <1>1, <1>2, <1>3, <1>4, <1>5, <1>6, <1>7, <1>8, <1>9, <1>10, <1>11, <1>12, <1>13, <1>14, <1>15, <1>16 DEF CrcTable, Words

\* The polynomial, bit by bit.
LEMMA PolynomialIs == Polynomial = {5, 8, 9, 15, 19, 20, 21, 23, 24, 26, 27, 29, 30, 31}
  BY DEF Polynomial, MakeWord, Bit, PowersOfTwo

\* One bit of the reference, seen from a bit of the result.
LEMMA BitStepIs ==
  ASSUME NEW crc \in Word, NEW bit \in {0, 1}
  PROVE  /\ BitStep(crc, bit) \in Word
         /\ \A i \in Nat : i \in BitStep(crc, bit) <=>
               ~(i + 1 \in crc <=> (i \in Polynomial /\ ~(0 \in crc <=> bit = 1)))
  <1>1. Polynomial \in Word
    BY PolynomialIs DEF Word
  <1>2. ShiftRight(crc, 1) \in Word /\ \A i \in Nat : i \in ShiftRight(crc, 1) <=> i + 1 \in crc
    <2>1. ShiftRight(crc, 1) = {i - 1 : i \in {j \in crc : j >= 1}}
      BY DEF ShiftRight
    <2>2. \A i \in crc : i \in 0 .. 31
      BY DEF Word
    <2>3. ShiftRight(crc, 1) \in Word
      BY <2>1, <2>2 DEF Word
    <2>4. ASSUME NEW i \in Nat PROVE i \in ShiftRight(crc, 1) <=> i + 1 \in crc
      BY <2>1, <2>2
    <2> QED
      BY <2>3, <2>4
  <1>3. CASE 0 \in crc <=> bit = 1
    <2>1. BitStep(crc, bit) = ShiftRight(crc, 1)
      BY <1>3 DEF BitStep
    <2> QED
      BY <1>2, <1>3, <2>1
  <1>4. CASE ~(0 \in crc <=> bit = 1)
    <2>1. BitStep(crc, bit) = SymDiff(ShiftRight(crc, 1), Polynomial)
      BY <1>4 DEF BitStep
    <2> QED
      BY <1>1, <1>2, <1>4, <2>1 DEF SymDiff, Word
  <1> QED
    BY <1>3, <1>4

Feedback(crc, k, bit) == ~(k \in crc <=> bit = 1)

\* Four bits of the reference: the polynomial has no bit low enough to meet the bits that
\* are yet to come.
LEMMA FourBits ==
  ASSUME NEW crc \in Word, NEW b \in [0 .. 3 -> {0, 1}]
  PROVE  LET w == BitStep(BitStep(BitStep(BitStep(crc, b[0]), b[1]), b[2]), b[3]) IN
         /\ w \in Word
         /\ \A i \in Nat : i \in w <=>
              ~(~(~(~(i + 4 \in crc
                 <=> (i + 3 \in Polynomial /\ Feedback(crc, 0, b[0])))
                 <=> (i + 2 \in Polynomial /\ Feedback(crc, 1, b[1])))
                 <=> (i + 1 \in Polynomial /\ Feedback(crc, 2, b[2])))
                 <=> (i \in Polynomial /\ Feedback(crc, 3, b[3])))
  <1> DEFINE w1 == BitStep(crc, b[0])
             w2 == BitStep(w1, b[1])
             w3 == BitStep(w2, b[2])
             w4 == BitStep(w3, b[3])
  <1>1. b[0] \in {0, 1} /\ b[1] \in {0, 1} /\ b[2] \in {0, 1} /\ b[3] \in {0, 1}
    OBVIOUS
  <1>2. 0 \notin Polynomial /\ 1 \notin Polynomial /\ 2 \notin Polynomial
    BY PolynomialIs
  <1>3. /\ w1 \in Word
        /\ \A i \in Nat : i \in w1 <=> ~(i + 1 \in crc <=> (i \in Polynomial /\ Feedback(crc, 0, b[0])))
    BY <1>1, BitStepIs DEF Feedback
  <1> HIDE DEF w1
  <1>4. /\ w2 \in Word
        /\ \A i \in Nat : i \in w2 <=> ~(i + 1 \in w1 <=> (i \in Polynomial /\ ~(0 \in w1 <=> b[1] = 1)))
    BY <1>1, <1>3, BitStepIs
  <1> HIDE DEF w2
  <1>5. /\ w3 \in Word
        /\ \A i \in Nat : i \in w3 <=> ~(i + 1 \in w2 <=> (i \in Polynomial /\ ~(0 \in w2 <=> b[2] = 1)))
    BY <1>1, <1>4, BitStepIs
  <1> HIDE DEF w3
  <1>6. /\ w4 \in Word
        /\ \A i \in Nat : i \in w4 <=> ~(i + 1 \in w3 <=> (i \in Polynomial /\ ~(0 \in w3 <=> b[3] = 1)))
    BY <1>1, <1>5, BitStepIs
  <1> HIDE DEF w4
  <1>7. \A i \in Nat : i + 1 \in Nat /\ (i + 1) + 1 = i + 2 /\ (i + 2) + 1 = i + 3 /\ (i + 3) + 1 = i + 4
                       /\ (i + 1) + 2 = i + 3 /\ i + 2 \in Nat /\ i + 3 \in Nat
    OBVIOUS
  <1>8. /\ 0 \in w1 <=> 1 \in crc
        /\ 1 \in w1 <=> 2 \in crc
        /\ 2 \in w1 <=> 3 \in crc
    BY <1>2, <1>3
  <1>9. /\ 0 \in w2 <=> 2 \in crc
        /\ 1 \in w2 <=> 3 \in crc
    BY <1>2, <1>4, <1>8
  <1>10. 0 \in w3 <=> 3 \in crc
    BY <1>2, <1>5, <1>9
  <1>11. ASSUME NEW i \in Nat
         PROVE  i \in w4 <=>
              ~(~(~(~(i + 4 \in crc
                 <=> (i + 3 \in Polynomial /\ Feedback(crc, 0, b[0])))
                 <=> (i + 2 \in Polynomial /\ Feedback(crc, 1, b[1])))
                 <=> (i + 1 \in Polynomial /\ Feedback(crc, 2, b[2])))
                 <=> (i \in Polynomial /\ Feedback(crc, 3, b[3])))
    <2>1. i + 3 \in w1 <=> ~(i + 4 \in crc <=> (i + 3 \in Polynomial /\ Feedback(crc, 0, b[0])))
      BY <1>3, <1>7
    <2>2. i + 2 \in w2 <=> ~(i + 3 \in w1 <=> (i + 2 \in Polynomial /\ Feedback(crc, 1, b[1])))
      BY <1>4, <1>7, <1>8 DEF Feedback
    <2>3. i + 1 \in w3 <=> ~(i + 2 \in w2 <=> (i + 1 \in Polynomial /\ Feedback(crc, 2, b[2])))
      BY <1>5, <1>7, <1>9 DEF Feedback
    <2>4. i \in w4 <=> ~(i + 1 \in w3 <=> (i \in Polynomial /\ Feedback(crc, 3, b[3])))
      BY <1>6, <1>10 DEF Feedback
    <2> QED
      BY <2>1, <2>2, <2>3, <2>4
  <1> QED
    BY <1>6, <1>11 DEF w4, w3, w2, w1

\* The table holds what the polynomial does to four bits.
LEMMA TableEntryIs ==
  ASSUME NEW v
  PROVE  /\ TableEntry(v) \in Word
         /\ \A i \in Nat : i \in TableEntry(v) <=>
              ~(~(~((i + 3 \in Polynomial /\ 0 \in v)
                 <=> (i + 2 \in Polynomial /\ 1 \in v))
                 <=> (i + 1 \in Polynomial /\ 2 \in v))
                 <=> (i \in Polynomial /\ 3 \in v))
  <1>1. CASE 0 \notin v /\ 1 \notin v /\ 2 \notin v /\ 3 \notin v
    <2>1. TableEntry(v) = Words[1]
      BY <1>1, TableWords DEF TableEntry
    <2> QED
      BY <1>1, <2>1, PolynomialIs DEF Words, Word
  <1>2. CASE 0 \in v /\ 1 \notin v /\ 2 \notin v /\ 3 \notin v
    <2>1. TableEntry(v) = Words[2]
      BY <1>2, TableWords DEF TableEntry
    <2> QED
      BY <1>2, <2>1, PolynomialIs DEF Words, Word
  <1>3. CASE 0 \notin v /\ 1 \in v /\ 2 \notin v /\ 3 \notin v
    <2>1. TableEntry(v) = Words[3]
      BY <1>3, TableWords DEF TableEntry
    <2> QED
      BY <1>3, <2>1, PolynomialIs DEF Words, Word
  <1>4. CASE 0 \in v /\ 1 \in v /\ 2 \notin v /\ 3 \notin v
    <2>1. TableEntry(v) = Words[4]
      BY <1>4, TableWords DEF TableEntry
    <2> QED
      BY <1>4, <2>1, PolynomialIs DEF Words, Word
  <1>5. CASE 0 \notin v /\ 1 \notin v /\ 2 \in v /\ 3 \notin v
    <2>1. TableEntry(v) = Words[5]
      BY <1>5, TableWords DEF TableEntry
    <2> QED
      BY <1>5, <2>1, PolynomialIs DEF Words, Word
  <1>6. CASE 0 \in v /\ 1 \notin v /\ 2 \in v /\ 3 \notin v
    <2>1. TableEntry(v) = Words[6]
      BY <1>6, TableWords DEF TableEntry
    <2> QED
      BY <1>6, <2>1, PolynomialIs DEF Words, Word
  <1>7. CASE 0 \notin v /\ 1 \in v /\ 2 \in v /\ 3 \notin v
    <2>1. TableEntry(v) = Words[7]
      BY <1>7, TableWords DEF TableEntry
    <2> QED
      BY <1>7, <2>1, PolynomialIs DEF Words, Word
  <1>8. CASE 0 \in v /\ 1 \in v /\ 2 \in v /\ 3 \notin v
    <2>1. TableEntry(v) = Words[8]
      BY <1>8, TableWords DEF TableEntry
    <2> QED
      BY <1>8, <2>1, PolynomialIs DEF Words, Word
  <1>9. CASE 0 \notin v /\ 1 \notin v /\ 2 \notin v /\ 3 \in v
    <2>1. TableEntry(v) = Words[9]
      BY <1>9, TableWords DEF TableEntry
    <2> QED
      BY <1>9, <2>1, PolynomialIs DEF Words, Word
  <1>10. CASE 0 \in v /\ 1 \notin v /\ 2 \notin v /\ 3 \in v
    <2>1. TableEntry(v) = Words[10]
      BY <1>10, TableWords DEF TableEntry
    <2> QED
      BY <1>10, <2>1, PolynomialIs DEF Words, Word
  <1>11. CASE 0 \notin v /\ 1 \in v /\ 2 \notin v /\ 3 \in v
    <2>1. TableEntry(v) = Words[11]
      BY <1>11, TableWords DEF TableEntry
    <2> QED
      BY <1>11, <2>1, PolynomialIs DEF Words, Word
  <1>12. CASE 0 \in v /\ 1 \in v /\ 2 \notin v /\ 3 \in v
    <2>1. TableEntry(v) = Words[12]
      BY <1>12, TableWords DEF TableEntry
    <2> QED
      BY <1>12, <2>1, PolynomialIs DEF Words, Word
  <1>13. CASE 0 \notin v /\ 1 \notin v /\ 2 \in v /\ 3 \in v
    <2>1. TableEntry(v) = Words[13]
      BY <1>13, TableWords DEF TableEntry
    <2> QED
      BY <1>13, <2>1, PolynomialIs DEF Words, Word
  <1>14. CASE 0 \in v /\ 1 \notin v /\ 2 \in v /\ 3 \in v
    <2>1. TableEntry(v) = Words[14]
      BY <1>14, TableWords DEF TableEntry
    <2> QED
      BY <1>14, <2>1, PolynomialIs DEF Words, Word
  <1>15. CASE 0 \notin v /\ 1 \in v /\ 2 \in v /\ 3 \in v
    <2>1. TableEntry(v) = Words[15]
      BY <1>15, TableWords DEF TableEntry
    <2> QED
      BY <1>15, <2>1, PolynomialIs DEF Words, Word
  <1>16. CASE 0 \in v /\ 1 \in v /\ 2 \in v /\ 3 \in v
    <2>1. TableEntry(v) = Words[16]
      BY <1>16, TableWords DEF TableEntry
    <2> QED
      BY <1>16, <2>1, PolynomialIs DEF Words, Word
  <1> QED
    BY <1>1, <1>2, <1>3, <1>4, <1>5, <1>6, <1>7, <1>8, <1>9, <1>10, <1>11, <1>12, <1>13, <1>14, <1>15, <1>16

\* A bit of a word that was shifted.
LEMMA ShiftIs ==
  ASSUME NEW w, w \subseteq 0 .. 31, NEW n \in Nat
  PROVE  ShiftRight(w, n) \in Word /\ \A i \in Nat : i \in ShiftRight(w, n) <=> i + n \in w
  <1>1. ShiftRight(w, n) = {i - n : i \in {j \in w : j >= n}}
    BY DEF ShiftRight
  <1>2. \A i \in w : i \in 0 .. 31
    OBVIOUS
  <1>3. ShiftRight(w, n) \in Word
    BY <1>1, <1>2 DEF Word
  <1>4. ASSUME NEW i \in Nat PROVE i \in ShiftRight(w, n) <=> i + n \in w
    <2>1. CASE i \in ShiftRight(w, n)
      BY <1>1, <1>2, <2>1
    <2>2. ASSUME i + n \in w PROVE i \in ShiftRight(w, n)
      <3>1. i + n >= n /\ (i + n) - n = i
        OBVIOUS
      <3> QED
        BY <1>1, <2>2, <3>1
    <2> QED
      BY <2>1, <2>2
  <1> QED
    BY <1>3, <1>4

\* Words with the same bits are equal.
LEMMA SameWord ==
  ASSUME NEW v \in Word, NEW w \in Word, \A i \in Nat : i \in v <=> i \in w
  PROVE  v = w
  <1>1. \A i \in v : i \in Nat
    BY DEF Word
  <1>2. \A i \in w : i \in Nat
    BY DEF Word
  <1> QED
    BY <1>1, <1>2

\* A lookup in the table is four bits of the reference.
LEMMA NibbleIs ==
  ASSUME NEW crc \in Word, NEW nibble \in Word, NEW b \in [0 .. 3 -> {0, 1}],
         \A k \in 0 .. 3 : k \in nibble <=> b[k] = 1
  PROVE  /\ NibbleStep(crc, nibble) \in Word
         /\ NibbleStep(crc, nibble) = BitStep(BitStep(BitStep(BitStep(crc, b[0]), b[1]), b[2]), b[3])
  <1> DEFINE w == BitStep(BitStep(BitStep(BitStep(crc, b[0]), b[1]), b[2]), b[3])
             v == SymDiff(crc, nibble)
             s == ShiftRight(crc, 4)
             m == NibbleStep(crc, nibble)
  <1>1. /\ w \in Word
        /\ \A i \in Nat : i \in w <=>
              ~(~(~(~(i + 4 \in crc
                 <=> (i + 3 \in Polynomial /\ Feedback(crc, 0, b[0])))
                 <=> (i + 2 \in Polynomial /\ Feedback(crc, 1, b[1])))
                 <=> (i + 1 \in Polynomial /\ Feedback(crc, 2, b[2])))
                 <=> (i \in Polynomial /\ Feedback(crc, 3, b[3])))
    BY FourBits
  <1>2. \A k : k \in v <=> ~(k \in crc <=> k \in nibble)
    BY DEF SymDiff
  <1>3. /\ 0 \in v <=> Feedback(crc, 0, b[0])
        /\ 1 \in v <=> Feedback(crc, 1, b[1])
        /\ 2 \in v <=> Feedback(crc, 2, b[2])
        /\ 3 \in v <=> Feedback(crc, 3, b[3])
    BY <1>2 DEF Feedback
  <1>4. s \in Word /\ \A i \in Nat : i \in s <=> i + 4 \in crc
    BY ShiftIs DEF Word
  <1>5. /\ TableEntry(v) \in Word
        /\ \A i \in Nat : i \in TableEntry(v) <=>
              ~(~(~((i + 3 \in Polynomial /\ 0 \in v)
                 <=> (i + 2 \in Polynomial /\ 1 \in v))
                 <=> (i + 1 \in Polynomial /\ 2 \in v))
                 <=> (i \in Polynomial /\ 3 \in v))
    BY TableEntryIs
  <1>6. m = SymDiff(TableEntry(v), s)
    BY DEF NibbleStep
  <1> HIDE DEF w, v, s, m
  <1>7. m \in Word /\ \A i \in Nat : i \in m <=> ~(i \in TableEntry(v) <=> i \in s)
    BY <1>4, <1>5, <1>6 DEF SymDiff, Word
  <1>8. ASSUME NEW i \in Nat PROVE i \in m <=> i \in w
    <2>1. /\ i \in w <=>
              ~(~(~(~(i + 4 \in crc
                 <=> (i + 3 \in Polynomial /\ 0 \in v))
                 <=> (i + 2 \in Polynomial /\ 1 \in v))
                 <=> (i + 1 \in Polynomial /\ 2 \in v))
                 <=> (i \in Polynomial /\ 3 \in v))
      BY <1>1, <1>3
    <2>2. i \in TableEntry(v) <=>
              ~(~(~((i + 3 \in Polynomial /\ 0 \in v)
                 <=> (i + 2 \in Polynomial /\ 1 \in v))
                 <=> (i + 1 \in Polynomial /\ 2 \in v))
                 <=> (i \in Polynomial /\ 3 \in v))
      BY <1>5
    <2>3. i \in m <=> ~(i \in TableEntry(v) <=> i + 4 \in crc)
      BY <1>4, <1>7
    <2> QED
      BY <2>1, <2>2, <2>3
  <1>9. m = w
    BY <1>1, <1>7, <1>8, SameWord
  <1> QED
    BY <1>7, <1>9 DEF m, w

\* A bit of a number is 0 or 1.
LEMMA BitIs == ASSUME NEW n \in Nat, NEW i \in 0 .. 15 PROVE Bit(n, i) \in {0, 1}
  <1>1. PowersOfTwo[i + 1] \in Nat \ {0}
    BY DEF PowersOfTwo
  <1>2. PICK p \in Nat \ {0} : p = PowersOfTwo[i + 1]
    BY <1>1
  <1>3. PICK q \in Nat : q = n \div p
    BY Quotients
  <1>4. q % 2 \in 0 .. 1
    BY <1>3
  <1> QED
    BY <1>2, <1>3, <1>4 DEF Bit

\* What the reference does to a byte.
LEMMA ReferenceByteIs ==
  ASSUME NEW crc \in Word, NEW byte \in 0 .. 255
  PROVE  \E f \in [0 .. 8 -> Word] :
            /\ f[0] = crc /\ f[8] = ReferenceByteStep(crc, byte)
            /\ \A n \in 1 .. 8 : f[n] = BitStep(f[n - 1], Bit(byte, n - 1))
  <1> DEFINE R(g) == g = [n \in 0 .. 8 |-> IF n = 0 THEN crc ELSE BitStep(g[n - 1], Bit(byte, n - 1))]
             step == [n \in 1 .. 8 |-> [w \in Word |-> BitStep(w, Bit(byte, n - 1))]]
  <1>1. \A n \in 1 .. 8 : Bit(byte, n - 1) \in {0, 1}
    BY BitIs
  <1>2. \A n \in 1 .. 8, w \in Word : BitStep(w, Bit(byte, n - 1)) \in Word
    BY <1>1, BitStepIs
  <1>3. Stepping(step, 8, Word)
    BY <1>2 DEF Stepping
  <1>4. \A n \in 1 .. 8, w \in Word : step[n][w] = BitStep(w, Bit(byte, n - 1))
    OBVIOUS
  <1> HIDE DEF step
  <1>5. PICK f : f \in [0 .. 8 -> Word] /\ Follows(f, crc, step, 8, Word)
    BY <1>3, Recursion
  <1>6. f[0] = crc /\ \A n \in 1 .. 8 : f[n] = BitStep(f[n - 1], Bit(byte, n - 1))
    BY <1>4, <1>5 DEF Follows
  <1>7. R(f)
    BY <1>5, <1>6
  <1>8. PICK g : R(g) /\ ReferenceByteStep(crc, byte) = g[8]
    BY <1>7 DEF ReferenceByteStep
  <1>9. g[0] = crc /\ \A n \in 1 .. 8 : g[n] = BitStep(g[n - 1], Bit(byte, n - 1))
    BY <1>8
  <1> DEFINE S == {n \in 0 .. 8 : f[n] = g[n]}
  <1>10. 0 \in S /\ \A n \in 1 .. 8 : n - 1 \in S => n \in S
    BY <1>6, <1>9
  <1> HIDE DEF S
  <1>11. \A n \in 0 .. 8 : n \in S
    BY <1>10, UpTo
  <1>12. f[8] = g[8]
    BY <1>11 DEF S
  <1> QED
    BY <1>5, <1>6, <1>8, <1>12

\* crc32() treats a byte as the reference does.
LEMMA ByteIs ==
  ASSUME NEW crc \in Word, NEW byte \in 0 .. 255
  PROVE  ByteStep(crc, byte) \in Word /\ ByteStep(crc, byte) = ReferenceByteStep(crc, byte)
  <1>1. PICK f \in [0 .. 8 -> Word] :
            /\ f[0] = crc /\ f[8] = ReferenceByteStep(crc, byte)
            /\ \A n \in 1 .. 8 : f[n] = BitStep(f[n - 1], Bit(byte, n - 1))
    BY ReferenceByteIs
  <1> DEFINE low == [k \in 0 .. 3 |-> Bit(byte, k)]
             high == [k \in 0 .. 3 |-> Bit(byte, k + 4)]
             bits == ByteBits(byte)
             upper == ShiftRight(bits, 4)
  <1>2. \A i \in 0 .. 7 : Bit(byte, i) \in {0, 1}
    BY BitIs
  <1>3. low \in [0 .. 3 -> {0, 1}] /\ high \in [0 .. 3 -> {0, 1}]
    BY <1>2
  <1>4. bits \in Word /\ \A i \in 0 .. 7 : i \in bits <=> Bit(byte, i) = 1
    BY DEF ByteBits, Word
  <1>5. upper \in Word /\ \A i \in Nat : i \in upper <=> i + 4 \in bits
    BY <1>4, ShiftIs DEF Word
  <1>6. \A k \in 0 .. 3 : (k \in bits <=> low[k] = 1) /\ (k \in upper <=> high[k] = 1)
    BY <1>4, <1>5
  <1>7. /\ low[0] = Bit(byte, 0) /\ low[1] = Bit(byte, 1) /\ low[2] = Bit(byte, 2) /\ low[3] = Bit(byte, 3)
        /\ high[0] = Bit(byte, 4) /\ high[1] = Bit(byte, 5) /\ high[2] = Bit(byte, 6) /\ high[3] = Bit(byte, 7)
    OBVIOUS
  <1>8. ByteStep(crc, byte) = NibbleStep(NibbleStep(crc, bits), upper)
    BY DEF ByteStep
  <1> HIDE DEF low, high, bits, upper
  <1> DEFINE half == NibbleStep(crc, bits)
  <1>9. /\ half \in Word
        /\ half = BitStep(BitStep(BitStep(BitStep(crc, low[0]), low[1]), low[2]), low[3])
    BY <1>3, <1>4, <1>6, NibbleIs
  <1> HIDE DEF half
  <1>10. /\ NibbleStep(half, upper) \in Word
         /\ NibbleStep(half, upper) = BitStep(BitStep(BitStep(BitStep(half, high[0]), high[1]), high[2]), high[3])
    BY <1>3, <1>5, <1>6, <1>9, NibbleIs
  <1>11. /\ f[1] = BitStep(crc, low[0]) /\ f[2] = BitStep(f[1], low[1])
         /\ f[3] = BitStep(f[2], low[2]) /\ f[4] = BitStep(f[3], low[3])
    BY <1>1, <1>7
  <1>12. /\ f[5] = BitStep(f[4], high[0]) /\ f[6] = BitStep(f[5], high[1])
         /\ f[7] = BitStep(f[6], high[2]) /\ f[8] = BitStep(f[7], high[3])
    BY <1>1, <1>7
  <1>13. f[4] = half
    BY <1>9, <1>11
  <1>14. f[8] = NibbleStep(half, upper)
    BY <1>10, <1>12, <1>13
  <1> QED
    BY <1>1, <1>8, <1>10, <1>14 DEF half

\* Complementing twice gives the word back.
LEMMA ComplementIs ==
  ASSUME NEW w \in Word
  PROVE  Complement(w) \in Word /\ Complement(Complement(w)) = w
  BY DEF Complement, Word

\* A word is sent as four bytes.
LEMMA WordBytesIs ==
  ASSUME NEW w
  PROVE  WordBytes(w) \in Seq(Byte) /\ Len(WordBytes(w)) = 4
  <1>1. ASSUME NEW k \in 1 .. 4 PROVE WordBytes(w)[k] \in Byte
    <2> DEFINE low == 8 * (4 - k)
               n == (IF low \in w THEN 1 ELSE 0) + (IF low + 1 \in w THEN 2 ELSE 0)
                    + (IF low + 2 \in w THEN 4 ELSE 0) + (IF low + 3 \in w THEN 8 ELSE 0)
                    + (IF low + 4 \in w THEN 16 ELSE 0) + (IF low + 5 \in w THEN 32 ELSE 0)
                    + (IF low + 6 \in w THEN 64 ELSE 0) + (IF low + 7 \in w THEN 128 ELSE 0)
    <2>1. WordBytes(w)[k] = n
      BY DEF WordBytes
    <2>2. n \in Byte
      <3> HIDE DEF low
      <3> QED
        BY DEF Byte
    <2> QED
      BY <2>1, <2>2
  <1>2. WordBytes(w) \in [1 .. 4 -> Byte]
    <2>1. WordBytes(w) = [k \in 1 .. 4 |-> WordBytes(w)[k]]
      BY DEF WordBytes
    <2> QED
      BY <1>1, <2>1
  <1>3. WordBytes(w) \in Seq(Byte)
    BY <1>2, SeqDef
  <1>4. DOMAIN WordBytes(w) = 1 .. 4
    BY <1>2
  <1> QED
    BY <1>3, <1>4, LenProperties

\* What the CRCs compute: the words after each byte.
Runs(f, data, start) ==
    f[0] = Complement(start) /\ \A n \in 1 .. Len(data) : f[n] = ByteStep(f[n - 1], data[n])

\* The run over a sequence of bytes is unique.
LEMMA OneRun ==
  ASSUME NEW data \in Seq(Byte), NEW start, NEW f, Runs(f, data, start), NEW g, Runs(g, data, start)
  PROVE  \A n \in 0 .. Len(data) : f[n] = g[n]
  <1> DEFINE S == {n \in 0 .. Len(data) : f[n] = g[n]}
  <1>1. 0 \in S /\ \A n \in 1 .. Len(data) : n - 1 \in S => n \in S
    BY DEF Runs
  <1>2. Len(data) \in Nat
    OBVIOUS
  <1> HIDE DEF S
  <1>3. \A n \in 0 .. Len(data) : n \in S
    BY <1>1, <1>2, UpTo
  <1> QED
    BY <1>3 DEF S

\* There is a run over every sequence of bytes.
LEMMA ARun ==
  ASSUME NEW data \in Seq(Byte), NEW start \in Word
  PROVE  \E f \in [0 .. Len(data) -> Word] : Runs(f, data, start)
  <1> DEFINE step == [n \in 1 .. Len(data) |-> [w \in Word |-> ByteStep(w, data[n])]]
  <1>1. \A n \in 1 .. Len(data), w \in Word : ByteStep(w, data[n]) \in Word
    <2>1. \A n \in 1 .. Len(data) : data[n] \in Byte
      OBVIOUS
    <2> QED
      BY <2>1, ByteIs DEF Byte
  <1>2. Stepping(step, Len(data), Word)
    BY <1>1 DEF Stepping
  <1>3. \A n \in 1 .. Len(data), w \in Word : step[n][w] = ByteStep(w, data[n])
    OBVIOUS
  <1>4. Complement(start) \in Word /\ Len(data) \in Nat
    BY ComplementIs
  <1> HIDE DEF step
  <1>5. PICK f : f \in [0 .. Len(data) -> Word] /\ Follows(f, Complement(start), step, Len(data), Word)
    BY <1>2, <1>4, Recursion
  <1> QED
    BY <1>3, <1>5 DEF Follows, Runs

\* crc32() is the end of a run.
LEMMA CrcIs ==
  ASSUME NEW data \in Seq(Byte), NEW start \in Word, NEW f, Runs(f, data, start)
  PROVE  Crc(data, start) = Complement(f[Len(data)])
  <1> DEFINE R(g) == g = [n \in 0 .. Len(data) |-> IF n = 0 THEN Complement(start)
                                                   ELSE ByteStep(g[n - 1], data[n])]
  <1>1. Len(data) \in Nat
    OBVIOUS
  <1>2. R([n \in 0 .. Len(data) |-> f[n]])
    BY <1>1 DEF Runs
  <1>3. PICK g : R(g) /\ Crc(data, start) = Complement(g[Len(data)])
    BY <1>2 DEF Crc
  <1>4. Runs(g, data, start)
    BY <1>1, <1>3 DEF Runs
  <1>5. f[Len(data)] = g[Len(data)]
    <2> HIDE DEF R
    <2> QED
      BY <1>1, <1>4, OneRun
  <1> QED
    BY <1>3, <1>5

\* The table-driven crc32() of the code computes the bitwise CRC-32, for every data and every
\* value to start from.
THEOREM CrcIsReference ==
  ASSUME NEW data \in Seq(Byte), NEW start \in Word
  PROVE  Crc(data, start) \in Word /\ Crc(data, start) = ReferenceCrc(data, start)
  <1> DEFINE R(g) == g = [n \in 0 .. Len(data) |-> IF n = 0 THEN Complement(start)
                                                   ELSE ReferenceByteStep(g[n - 1], data[n])]
  <1>1. Len(data) \in Nat
    OBVIOUS
  <1>2. PICK f \in [0 .. Len(data) -> Word] : Runs(f, data, start)
    BY ARun
  <1>3. \A n \in 1 .. Len(data) : f[n] = ReferenceByteStep(f[n - 1], data[n])
    <2>1. SUFFICES ASSUME NEW n \in 1 .. Len(data) PROVE f[n] = ReferenceByteStep(f[n - 1], data[n])
      OBVIOUS
    <2>2. data[n] \in Byte /\ f[n - 1] \in Word /\ f[n] = ByteStep(f[n - 1], data[n])
      BY <1>1, <1>2 DEF Runs
    <2> QED
      BY <2>2, ByteIs DEF Byte
  <1>4. R([n \in 0 .. Len(data) |-> f[n]])
    BY <1>1, <1>2, <1>3 DEF Runs
  <1>5. PICK g : R(g) /\ ReferenceCrc(data, start) = Complement(g[Len(data)])
    BY <1>4 DEF ReferenceCrc
  <1>6. /\ g[0] = Complement(start)
        /\ \A n \in 1 .. Len(data) : g[n] = ReferenceByteStep(g[n - 1], data[n])
    BY <1>1, <1>5
  <1> DEFINE S == {n \in 0 .. Len(data) : f[n] = g[n]}
  <1>7. 0 \in S /\ \A n \in 1 .. Len(data) : n - 1 \in S => n \in S
    BY <1>1, <1>2, <1>3, <1>6 DEF Runs
  <1> HIDE DEF S
  <1>8. \A n \in 0 .. Len(data) : n \in S
    BY <1>1, <1>7, UpTo
  <1>9. f[Len(data)] = g[Len(data)]
    BY <1>1, <1>8 DEF S
  <1>10. Crc(data, start) = Complement(f[Len(data)])
    <2> HIDE DEF R
    <2> QED
      BY <1>2, CrcIs
  <1>11. f[Len(data)] \in Word
    BY <1>1
  <1> QED
    BY <1>5, <1>9, <1>10, <1>11, ComplementIs

\* Calls of crc32() can be chained.
LEMMA CrcChains ==
  ASSUME NEW s \in Seq(Byte), NEW t \in Seq(Byte), NEW start \in Word
  PROVE  Crc(s \o t, start) = Crc(t, Crc(s, start)) /\ s \o t \in Seq(Byte)
  <1> DEFINE d == s \o t
             n == Len(s)
  <1>1. /\ d \in Seq(Byte) /\ Len(d) = n + Len(t) /\ n \in Nat /\ Len(t) \in Nat
        /\ \A i \in 1 .. n : d[i] = s[i]
        /\ \A i \in 1 .. Len(t) : d[n + i] = t[i]
    OBVIOUS
  <1>2. PICK f \in [0 .. Len(d) -> Word] : Runs(f, d, start)
    BY <1>1, ARun
  <1> HIDE DEF d, n
  <1>3. Runs(f, s, start)
    <2>1. \A i \in 1 .. n : i \in 1 .. Len(d)
      BY <1>1
    <2> QED
      BY <1>1, <1>2, <2>1 DEF Runs, n
  <1>4. Crc(s, start) = Complement(f[n])
    BY <1>3, CrcIs DEF n
  <1>5. f[n] \in Word
    BY <1>1
  <1>6. Crc(s, start) \in Word /\ Complement(Crc(s, start)) = f[n]
    BY <1>4, <1>5, ComplementIs
  <1> DEFINE g == [i \in 0 .. Len(t) |-> f[n + i]]
  <1>7. Runs(g, t, Crc(s, start))
    <2>1. g[0] = f[n]
      BY <1>1
    <2>2. ASSUME NEW i \in 1 .. Len(t) PROVE g[i] = ByteStep(g[i - 1], t[i])
      <3>1. n + i \in 1 .. Len(d) /\ (n + i) - 1 = n + (i - 1) /\ i - 1 \in 0 .. Len(t)
        BY <1>1
      <3>2. f[n + i] = ByteStep(f[(n + i) - 1], d[n + i])
        BY <1>2, <3>1 DEF Runs
      <3> QED
        BY <1>1, <3>1, <3>2
    <2> QED
      BY <1>6, <2>1, <2>2 DEF Runs
  <1>8. g[Len(t)] = f[Len(d)]
    BY <1>1
  <1> HIDE DEF g
  <1>9. Crc(t, Crc(s, start)) = Complement(g[Len(t)])
    BY <1>6, <1>7, CrcIs
  <1>10. Crc(d, start) = Complement(f[Len(d)])
    BY <1>1, <1>2, CrcIs
  <1> QED
    BY <1>1, <1>8, <1>9, <1>10 DEF d

\* A frame: n bytes of header, the data, their CRC computed in two calls.
IsFrame(frame, n, header, data) ==
    /\ frame \in Seq(Byte) /\ Len(frame) = n + Len(data) + 4 /\ Len(data) \in Nat
    /\ \A i \in 1 .. n : frame[i] = header[i]
    /\ \A i \in 1 .. Len(data) : frame[n + i] = data[i]
    /\ \A i \in 1 .. 4 : frame[n + Len(data) + i] = WordBytes(Crc(data, Crc(header, {})))[i]

\* The parts of a frame, where they are expected.
LEMMA FrameIs ==
  ASSUME NEW header \in Seq(Byte), NEW data \in Seq(Byte), NEW n \in Nat, Len(header) = n,
         NEW frame, frame = Protected(header \o data)
  PROVE  IsFrame(frame, n, header, data)
  <1> DEFINE d == header \o data
             c == WordBytes(ReferenceCrc(d, {}))
             l == Len(data)
  <1>1. /\ d \in Seq(Byte) /\ Len(d) = n + l /\ l \in Nat
        /\ \A i \in 1 .. n : d[i] = header[i]
        /\ \A i \in 1 .. l : d[n + i] = data[i]
    OBVIOUS
  <1>2. {} \in Word
    BY DEF Word
  <1>3. Crc(d, {}) = Crc(data, Crc(header, {}))
    BY <1>2, CrcChains
  <1> HIDE DEF d, l
  <1>4. Crc(d, {}) = ReferenceCrc(d, {})
    BY <1>1, <1>2, CrcIsReference
  <1>5. c \in Seq(Byte) /\ Len(c) = 4 /\ c = WordBytes(Crc(data, Crc(header, {})))
    BY <1>3, <1>4, WordBytesIs
  <1>6. frame = d \o c
    <2>1. Protected(d) = d \o c
      BY DEF Protected
    <2>2. frame = Protected(d)
      BY DEF d
    <2> QED
      BY <2>1, <2>2
  <1> HIDE DEF c
  <1>7. /\ frame \in Seq(Byte) /\ Len(frame) = n + l + 4
        /\ \A i \in 1 .. n + l : frame[i] = d[i]
        /\ \A i \in 1 .. 4 : frame[n + l + i] = c[i]
    <2> DEFINE m == n + l
    <2>1. m \in Nat /\ Len(d) = m
      BY <1>1
    <2> HIDE DEF m
    <2>2. /\ frame \in Seq(Byte) /\ Len(frame) = m + 4
          /\ \A i \in 1 .. m : frame[i] = d[i]
          /\ \A i \in 1 .. 4 : frame[m + i] = c[i]
      <3>1. d \in Seq(Byte) /\ c \in Seq(Byte)
        BY <1>1, <1>5
      <3>2. /\ d \o c \in Seq(Byte) /\ Len(d \o c) = Len(d) + Len(c)
            /\ \A i \in 1 .. Len(d) : (d \o c)[i] = d[i]
            /\ \A i \in 1 .. Len(c) : (d \o c)[Len(d) + i] = c[i]
        BY <3>1
      <3> QED
        BY <1>5, <1>6, <2>1, <3>2
    <2> QED
      BY <2>2 DEF m
  <1>8. (\A i \in 1 .. n : i \in 1 .. n + l) /\ \A i \in 1 .. l : n + i \in 1 .. n + l
    BY <1>1
  <1>9. /\ frame \in Seq(Byte) /\ Len(frame) = n + l + 4 /\ l \in Nat
        /\ \A i \in 1 .. n : frame[i] = header[i]
        /\ \A i \in 1 .. l : frame[n + i] = data[i]
        /\ \A i \in 1 .. 4 : frame[n + l + i] = WordBytes(Crc(data, Crc(header, {})))[i]
    BY <1>1, <1>5, <1>7, <1>8
  <1> QED
    BY <1>9 DEF d, l, IsFrame

\* The header of a response, put together.
LEMMA FiveBytes ==
  ASSUME NEW a, NEW b, NEW c, NEW d, NEW e
  PROVE  <<a, b, c>> \o <<d, e>> = <<a, b, c, d, e>>
  <1> DEFINE V == {a, b, c, d, e}
             s == <<a, b, c>> \o <<d, e>>
  <1>1. <<a, b, c>> \in Seq(V) /\ <<d, e>> \in Seq(V) /\ <<a, b, c, d, e>> \in Seq(V)
    OBVIOUS
  <1> HIDE DEF V
  <1>2. s \in Seq(V) /\ Len(s) = 5
    BY <1>1
  <1>3. s[1] = a /\ s[2] = b /\ s[3] = c /\ s[4] = d /\ s[5] = e
    BY <1>1
  <1> HIDE DEF s
  <1>4. \A i \in 1 .. 5 : s[i] = <<a, b, c, d, e>>[i]
    BY <1>3
  <1>5. Len(<<a, b, c, d, e>>) = 5
    OBVIOUS
  <1>6. s = <<a, b, c, d, e>>
    BY <1>1, <1>2, <1>4, <1>5, SeqEqual
  <1> QED
    BY <1>6 DEF s

\* The header of a request, put together.
LEMMA FourBytes ==
  ASSUME NEW a, NEW b, NEW c, NEW d
  PROVE  <<a, b>> \o <<c, d>> = <<a, b, c, d>>
  <1> DEFINE V == {a, b, c, d}
             s == <<a, b>> \o <<c, d>>
  <1>1. <<a, b>> \in Seq(V) /\ <<c, d>> \in Seq(V) /\ <<a, b, c, d>> \in Seq(V)
    OBVIOUS
  <1> HIDE DEF V
  <1>2. s \in Seq(V) /\ Len(s) = 4
    BY <1>1
  <1>3. s[1] = a /\ s[2] = b /\ s[3] = c /\ s[4] = d
    BY <1>1
  <1> HIDE DEF s
  <1>4. \A i \in 1 .. 4 : s[i] = <<a, b, c, d>>[i]
    BY <1>3
  <1>5. Len(<<a, b, c, d>>) = 4
    OBVIOUS
  <1>6. s = <<a, b, c, d>>
    BY <1>1, <1>2, <1>4, <1>5, SeqEqual
  <1> QED
    BY <1>6 DEF s

\* A length of 16 bits is two bytes.
LEMMA TwoBytes ==
  ASSUME NEW n \in Nat, n < 65536
  PROVE  \E q \in Byte, r \in Byte : q = n \div 256 /\ r = n % 256 /\ n = 256 * q + r
  <1>1. PICK q \in Nat : q = n \div 256
    OBVIOUS
  <1>2. PICK r \in 0 .. 255 : r = n % 256
    OBVIOUS
  <1>3. n = 256 * q + r
    BY <1>1, <1>2
  <1>4. q \in Byte /\ r \in Byte
    BY <1>3 DEF Byte
  <1> QED
    BY <1>1, <1>2, <1>3, <1>4

-----------------------------------------------------------------------------
(* Responses *)

Typed ==
    /\ chunk \in Seq(WireBytes) /\ wire \in Seq(WireBytes)
    /\ session_active \in BOOLEAN
    /\ state \in {"Idle", "Receiving", "Transmitting"}
    /\ chunk # <<>> => state # "Transmitting"

\* Some of the bytes of the answer r.
Begins(bytes, r) ==
    /\ r \in Responses /\ Len(r.data) <= TxBufferSize
    /\ bytes \in Seq(Byte) /\ Len(bytes) <= 9 + Len(r.data)
    /\ \A i \in 1 .. Len(bytes) : bytes[i] = ResponseFrame(r)[i]

Answering ==
    \/ popped = NoAnswer /\ state # "Transmitting"
    \/ \E r \in Responses, bytes \in Seq(Byte) :
          /\ popped = [response |-> <<r>>, bytes |-> bytes]
          /\ Begins(bytes, r)
          /\ IF state = "Transmitting"
             THEN /\ Len(bytes) < 9 + Len(r.data)
                  /\ tx = [response |-> <<r>>, crc |-> ResponseCrc(r),
                           nbytes_to_send |-> 9 + Len(r.data), nbytes_sent |-> Len(bytes)]
             ELSE Len(bytes) = 9 + Len(r.data)

\* The frame of a response that fits the buffer, part by part.
LEMMA ResponseIs ==
  ASSUME NEW r \in Responses, Len(r.data) <= TxBufferSize
  PROVE  /\ Len(r.data) \in Nat /\ r.data \in Seq(Byte)
         /\ ResponseFrame(r) \in Seq(Byte) /\ Len(ResponseFrame(r)) = 9 + Len(r.data)
         /\ \A i \in 1 .. 5 : ResponseFrame(r)[i] = ResponseHeader(r)[i]
         /\ \A i \in 1 .. Len(r.data) : ResponseFrame(r)[5 + i] = r.data[i]
         /\ \A i \in 1 .. 4 : ResponseFrame(r)[5 + Len(r.data) + i] = WordBytes(ResponseCrc(r))[i]
  <1> DEFINE n == Len(r.data)
             header == ResponseHeader(r)
             frame == ResponseFrame(r)
  <1>1. /\ r.command \in 0 .. 127 /\ r.subfunction \in Byte /\ r.code \in Byte /\ r.data \in Seq(Byte)
        /\ n \in Nat /\ n < 65536
    <2>1. /\ r.command \in 0 .. 127 /\ r.subfunction \in Byte /\ r.code \in Byte /\ r.data \in Seq(Byte)
          /\ TxBufferSize \in Nat
      <3>1. r \in Answers
        BY ResponsesAssumption
      <3>2. r.command \in 0 .. 127
        BY <3>1 DEF Answers
      <3>3. r.subfunction \in Byte
        BY <3>1 DEF Answers
      <3>4. r.code \in Byte
        BY <3>1 DEF Answers
      <3>5. r.data \in Seq(Byte)
        BY <3>1 DEF Answers
      <3> QED
        BY <3>2, <3>3, <3>4, <3>5, BuffersAssumption
    <2>2. n \in Nat /\ n <= TxBufferSize
      BY <2>1
    <2> HIDE DEF n
    <2>3. n < 65536
      BY <2>2, BuffersAssumption
    <2> QED
      BY <2>1, <2>2, <2>3
  <1>2. PICK q \in Byte, s \in Byte : q = n \div 256 /\ s = n % 256
    <2> HIDE DEF n
    <2> QED
      BY <1>1, TwoBytes
  <1>3. header = <<r.command + 128, r.subfunction, r.code, q, s>> /\ BigEndian16(n) = <<q, s>>
    BY <1>2 DEF ResponseHeader, BigEndian16
  <1>4. header \in Seq(Byte) /\ Len(header) = 5
    <2>1. r.command + 128 \in Byte
      <3>1. PICK c \in 0 .. 127 : c = r.command
        BY <1>1
      <3>2. c + 128 \in Byte
        BY DEF Byte
      <3> QED
        BY <3>1, <3>2
    <2> QED
      BY <1>1, <1>3, <2>1
  <1>5. frame = Protected(header \o r.data)
    <2>1. <<r.command + 128, r.subfunction, r.code>> \o <<q, s>> = <<r.command + 128, r.subfunction, r.code, q, s>>
      <3>1. PICK c, f, d : c = r.command + 128 /\ f = r.subfunction /\ d = r.code
        OBVIOUS
      <3>2. <<c, f, d>> \o <<q, s>> = <<c, f, d, q, s>>
        BY FiveBytes
      <3> QED
        BY <3>1, <3>2
    <2>2. <<r.command + 128, r.subfunction, r.code>> \o BigEndian16(n) = header
      BY <1>3, <2>1
    <2> QED
      BY <2>2 DEF ResponseFrame
  <1>6. ResponseCrc(r) = Crc(r.data, Crc(header, {}))
    BY DEF ResponseCrc
  <1> HIDE DEF header
  <1>7. /\ frame \in Seq(Byte) /\ Len(frame) = 5 + n + 4
        /\ \A i \in 1 .. 5 : frame[i] = header[i]
        /\ \A i \in 1 .. n : frame[5 + i] = r.data[i]
        /\ \A i \in 1 .. 4 : frame[5 + n + i] = WordBytes(Crc(r.data, Crc(header, {})))[i]
    <2> HIDE DEF frame
    <2>1. 5 \in Nat /\ header \in Seq(Byte) /\ r.data \in Seq(Byte) /\ Len(header) = 5
      BY <1>1, <1>4
    <2> QED
      <3>1. IsFrame(frame, 5, header, r.data)
        BY <1>5, <2>1, FrameIs
      <3> QED
        BY <3>1 DEF IsFrame, n
  <1> HIDE DEF n, frame
  <1>8. 5 + n + 4 = 9 + n
    BY <1>1
  <1>9. /\ frame \in Seq(Byte) /\ Len(frame) = 9 + n
        /\ \A i \in 1 .. 5 : frame[i] = header[i]
        /\ \A i \in 1 .. n : frame[5 + i] = r.data[i]
        /\ \A i \in 1 .. 4 : frame[5 + n + i] = WordBytes(ResponseCrc(r))[i]
    BY <1>6, <1>7, <1>8
  <1> QED
    BY <1>1, <1>9 DEF n, frame, header

\* pop_data() finds the bytes of the frame.
LEMMA ResponseByteIs ==
  ASSUME NEW r \in Responses, Len(r.data) <= TxBufferSize, tx.response = <<r>>, tx.crc = ResponseCrc(r),
         NEW k \in Nat, k < 9 + Len(r.data)
  PROVE  ResponseByte(k) = ResponseFrame(r)[k + 1] /\ ResponseFrame(r)[k + 1] \in Byte
  <1> DEFINE n == Len(r.data)
  <1>1. tx.response[1] = r
    OBVIOUS
  <1>2. /\ n \in Nat
        /\ ResponseFrame(r) \in Seq(Byte) /\ Len(ResponseFrame(r)) = 9 + n
        /\ \A i \in 1 .. 5 : ResponseFrame(r)[i] = ResponseHeader(r)[i]
        /\ \A i \in 1 .. n : ResponseFrame(r)[5 + i] = r.data[i]
        /\ \A i \in 1 .. 4 : ResponseFrame(r)[5 + n + i] = WordBytes(ResponseCrc(r))[i]
    BY ResponseIs
  <1>3. ResponseByte(k) = IF k < 5 THEN ResponseHeader(r)[k + 1]
                          ELSE IF k < 5 + n THEN r.data[k - 4]
                          ELSE WordBytes(ResponseCrc(r))[k - (5 + n) + 1]
    BY <1>1 DEF ResponseByte
  <1>4. k < 9 + n
    OBVIOUS
  <1>10. n \in Nat
    BY <1>2
  <1> HIDE DEF n
  <1>5. ASSUME k < 5 PROVE ResponseByte(k) = ResponseFrame(r)[k + 1]
    <2>1. PICK i \in 1 .. 5 : i = k + 1
      <3>1. k + 1 \in 1 .. 5
        BY <1>5
      <3> QED
        BY <3>1
    <2>2. ResponseByte(k) = ResponseHeader(r)[i]
      BY <1>3, <1>5, <2>1
    <2>3. ResponseFrame(r)[i] = ResponseHeader(r)[i]
      BY <1>2
    <2> QED
      BY <2>1, <2>2, <2>3
  <1>6. ASSUME ~(k < 5), k < 5 + n PROVE ResponseByte(k) = ResponseFrame(r)[k + 1]
    <2>1. PICK i \in 1 .. n : i = k - 4 /\ 5 + i = k + 1
      <3>1. k - 4 \in 1 .. n /\ 5 + (k - 4) = k + 1
        BY <1>6, <1>10
      <3> QED
        BY <3>1
    <2>2. ResponseFrame(r)[5 + i] = r.data[i]
      BY <1>2
    <2> QED
      BY <1>3, <1>6, <2>1, <2>2
  <1>7. ASSUME ~(k < 5), ~(k < 5 + n) PROVE ResponseByte(k) = ResponseFrame(r)[k + 1]
    <2> DEFINE i == k - (5 + n) + 1
    <2>1. i \in 1 .. 4 /\ 5 + n + i = k + 1
      BY <1>2, <1>4, <1>7
    <2>2. ResponseByte(k) = WordBytes(ResponseCrc(r))[i]
      BY <1>3, <1>7
    <2> HIDE DEF i
    <2> QED
      BY <1>2, <2>1, <2>2
  <1>8. k + 1 \in 1 .. Len(ResponseFrame(r))
    BY <1>2, <1>4
  <1>9. ResponseFrame(r)[k + 1] \in Byte
    BY <1>2, <1>8
  <1> QED
    BY <1>5, <1>6, <1>7, <1>9

Reaches(bytes, n, r) == Begins(bytes, r) /\ Len(bytes) = n

\* A piece that pop_data() hands out continues the frame.
LEMMA Pieces ==
  ASSUME NEW r \in Responses, NEW bytes, Begins(bytes, r),
         NEW l \in Nat, l = Len(bytes), NEW len \in Nat, l + len <= 9 + Len(r.data),
         tx.response = <<r>>, tx.crc = ResponseCrc(r), tx.nbytes_sent = l,
         NEW piece, piece = [k \in 1 .. len |-> ResponseByte(tx.nbytes_sent + k - 1)]
  PROVE  Reaches(bytes \o piece, l + len, r)
  <1> DEFINE frame == ResponseFrame(r)
             n == Len(r.data)
             joined == bytes \o piece
  <1>1. /\ Len(r.data) <= TxBufferSize /\ bytes \in Seq(Byte) /\ l <= 9 + n
        /\ \A i \in 1 .. l : bytes[i] = frame[i]
    BY DEF Begins
  <1>2. n \in Nat /\ frame \in Seq(Byte) /\ Len(frame) = 9 + n
    BY <1>1, ResponseIs
  <1> HIDE DEF n, frame
  <1>3. \A k \in 1 .. len : piece[k] = frame[l + k] /\ piece[k] \in Byte
    <2> SUFFICES ASSUME NEW k \in 1 .. len
                 PROVE  piece[k] = frame[l + k] /\ piece[k] \in Byte
      OBVIOUS
    <2> DEFINE j == l + k - 1
    <2>1. j \in Nat /\ j + 1 = l + k /\ j < 9 + n
      BY <1>2 DEF n
    <2>2. piece[k] = ResponseByte(j)
      OBVIOUS
    <2> HIDE DEF j
    <2>3. ResponseByte(j) = frame[j + 1] /\ frame[j + 1] \in Byte
      BY <1>1, <2>1, ResponseByteIs DEF n, frame
    <2> QED
      BY <2>1, <2>2, <2>3
  <1>4. piece \in [1 .. len -> Byte]
    <2>1. piece = [k \in 1 .. len |-> piece[k]]
      OBVIOUS
    <2> QED
      BY <1>3, <2>1
  <1>5. piece \in Seq(Byte) /\ Len(piece) = len
    <2>1. piece \in Seq(Byte)
      BY <1>4, SeqDef
    <2>2. DOMAIN piece = 1 .. len
      BY <1>4
    <2> QED
      BY <2>1, <2>2, LenProperties
  <1>6. /\ joined \in Seq(Byte) /\ Len(joined) = l + len
        /\ \A i \in 1 .. l : joined[i] = bytes[i]
        /\ \A i \in 1 .. len : joined[l + i] = piece[i]
    BY <1>1, <1>5
  <1> HIDE DEF joined
  <1>7. \A i \in 1 .. l + len : joined[i] = frame[i]
    <2> SUFFICES ASSUME NEW i \in 1 .. l + len PROVE joined[i] = frame[i]
      OBVIOUS
    <2>1. CASE i \in 1 .. l
      BY <1>1, <1>6, <2>1
    <2>2. CASE i \notin 1 .. l
      <3> DEFINE k == i - l
      <3>1. k \in 1 .. len /\ l + k = i
        BY <2>2
      <3> HIDE DEF k
      <3> QED
        BY <1>3, <1>6, <3>1
    <2> QED
      BY <2>1, <2>2
  <1>8. Begins(joined, r)
    BY <1>1, <1>6, <1>7 DEF Begins, frame, n
  <1> QED
    BY <1>6, <1>8 DEF joined, Reaches

\* receive_data() only has bytes to read while no response is transmitted.
Quiet == chunk # <<>> => state # "Transmitting"

AnswerInv == Quiet /\ Answering

\* A step that does not touch the transmission leaves the answer as it is.
LEMMA StillAnswering ==
  ASSUME Answering, popped' = popped,
         \/ tx' = tx /\ state' = state
         \/ state # "Transmitting" /\ state' # "Transmitting"
  PROVE  Answering'
  BY DEF Answering, Begins, NoAnswer

\* pop_data() hands out the next piece, or the last one.
LEMMA PopAnswers ==
  ASSUME Answering, NEW n \in PopSizes, PopData(n)
  PROVE  Answering'
  <1>1. PICK r \in Responses, bytes \in Seq(Byte) :
          /\ popped = [response |-> <<r>>, bytes |-> bytes]
          /\ Begins(bytes, r)
          /\ Len(bytes) < 9 + Len(r.data)
          /\ tx = [response |-> <<r>>, crc |-> ResponseCrc(r),
                   nbytes_to_send |-> 9 + Len(r.data), nbytes_sent |-> Len(bytes)]
    BY DEF Answering, PopData
  <1>2. Len(r.data) \in Nat
    BY <1>1, ResponseIs DEF Begins
  <1>3. PICK total \in Nat : total = 9 + Len(r.data)
    BY <1>2
  <1>4. PICK l \in Nat : l = Len(bytes)
    OBVIOUS
  <1>5. n \in Nat /\ n > 0
    BY ChunksAssumption
  <1> DEFINE left == total - l
             len == IF n > left THEN left ELSE n
             piece == [k \in 1 .. len |-> ResponseByte(tx.nbytes_sent + k - 1)]
             joined == bytes \o piece
  <1>6. left \in Nat /\ left > 0
    BY <1>1, <1>3, <1>4
  <1>7. /\ tx.nbytes_to_send = total /\ tx.nbytes_sent = l
        /\ tx.response = <<r>> /\ tx.crc = ResponseCrc(r)
    BY <1>1, <1>3, <1>4
  <1>8. /\ popped' = [popped EXCEPT !.bytes = @ \o piece]
        /\ IF len = left THEN ResetRx /\ state' = "Idle" /\ tx' = NoTransmission
           ELSE /\ tx' = [tx EXCEPT !.nbytes_sent = @ + len]
                /\ UNCHANGED <<rx, last_rx_timestamp, taken, state>>
    BY <1>7 DEF PopData
  <1>9. len \in Nat /\ l + len <= total /\ (len # left => l + len < total) /\ (len = left => l + len = total)
    BY <1>5, <1>6
  <1> HIDE DEF left, len, piece
  <1>10. Begins(joined, r) /\ Len(joined) = l + len
    <2>1. Reaches(bytes \o piece, l + len, r)
      BY <1>1, <1>3, <1>4, <1>7, <1>9, Pieces DEF piece
    <2> QED
      BY <2>1 DEF Reaches
  <1>11. PICK j \in Seq(Byte) : j = joined
    BY <1>10 DEF Begins
  <1>12. popped' = [response |-> <<r>>, bytes |-> j] /\ Begins(j, r) /\ Len(j) = l + len
    BY <1>1, <1>8, <1>10, <1>11
  <1> HIDE DEF joined
  <1>13. CASE len = left
    BY <1>3, <1>8, <1>9, <1>12, <1>13 DEF Answering
  <1>14. CASE len # left
    <2>1. state' = "Transmitting"
      BY <1>8, <1>14 DEF PopData
    <2>2. tx' = [response |-> <<r>>, crc |-> ResponseCrc(r),
                 nbytes_to_send |-> 9 + Len(r.data), nbytes_sent |-> Len(j)]
      BY <1>1, <1>4, <1>8, <1>12, <1>14
    <2> QED
      BY <1>3, <1>9, <1>12, <1>14, <2>1, <2>2 DEF Answering
  <1> QED
    BY <1>13, <1>14

\* send_response() begins an answer, or refuses it.
LEMMA ServeAnswers ==
  ASSUME Quiet, NEW r \in Responses, Serve(r)
  PROVE  AnswerInv'
  <1> DEFINE connects == ~session_active /\ rx.command = CommControl /\ rx.subfunction = ConnectFunction
             sends == (connects \/ state = "Idle") /\ Len(r.data) <= TxBufferSize
  <1>1. /\ chunk' = chunk /\ chunk = <<>>
        /\ state' = IF sends THEN "Transmitting" ELSE "Idle"
        /\ tx' = IF sends THEN [response |-> <<r>>, crc |-> ResponseCrc(r),
                                nbytes_to_send |-> 9 + Len(r.data), nbytes_sent |-> 0]
                          ELSE NoTransmission
        /\ popped' = IF sends THEN [response |-> <<r>>, bytes |-> <<>>] ELSE NoAnswer
    BY DEF Serve, Returned
  <1>2. sends => Len(r.data) <= TxBufferSize
    OBVIOUS
  <1> HIDE DEF sends
  <1>3. Quiet'
    BY <1>1 DEF Quiet
  <1>4. CASE ~sends
    BY <1>1, <1>3, <1>4 DEF AnswerInv, Answering
  <1>5. CASE sends
    <2>1. Len(r.data) \in Nat
      BY <1>2, <1>5, ResponseIs
    <2>2. PICK empty \in Seq(Byte) : empty = <<>> /\ Len(empty) = 0
      <3>1. <<>> \in Seq(Byte) /\ Len(<<>>) = 0
        OBVIOUS
      <3> QED
        BY <3>1
    <2>3. Begins(empty, r) /\ Len(empty) < 9 + Len(r.data)
      BY <1>2, <1>5, <2>1, <2>2 DEF Begins
    <2>4. /\ popped' = [response |-> <<r>>, bytes |-> empty] /\ state' = "Transmitting"
          /\ tx' = [response |-> <<r>>, crc |-> ResponseCrc(r),
                    nbytes_to_send |-> 9 + Len(r.data), nbytes_sent |-> Len(empty)]
      BY <1>1, <1>5, <2>2
    <2>5. Answering'
      BY <2>3, <2>4 DEF Answering
    <2> QED
      BY <1>3, <2>5 DEF AnswerInv
  <1> QED
    BY <1>4, <1>5

\* The state of the link stays, or a request has just been read whole.
LEMMA ReadingIsIdle ==
  ASSUME Quiet, ReadByte
  PROVE  state # "Transmitting" /\ state' # "Transmitting" /\ popped' = popped
  <1>1. state # "Transmitting"
    BY DEF Quiet, ReadByte, ReadCommand, ReadSubfunction, ReadLength, ReadData, ReadCrc, DropRest, Reading
  <1>2. popped' = popped
    BY DEF ReadByte, ReadCommand, ReadSubfunction, ReadLength, ReadData, ReadCrc, DropRest, Outside
  <1>3. CASE ReadCommand
    BY <1>1, <1>2, <1>3 DEF ReadCommand, BufferKept
  <1>4. CASE ReadSubfunction
    BY <1>1, <1>2, <1>4 DEF ReadSubfunction, BufferKept
  <1>5. CASE ReadLength
    BY <1>1, <1>2, <1>5 DEF ReadLength, BufferKept
  <1>6. CASE ReadData
    BY <1>1, <1>2, <1>6 DEF ReadData
  <1>7. CASE ReadCrc
    <2>1. state' = state \/ state' = "Idle"
      BY <1>7 DEF ReadCrc
    <2> QED
      BY <1>1, <1>2, <2>1
  <1>8. CASE DropRest
    BY <1>1, <1>2, <1>8 DEF DropRest, receiver
  <1> QED
    BY <1>3, <1>4, <1>5, <1>6, <1>7, <1>8 DEF ReadByte

\* AnswerInv is inductive.
LEMMA AnswerStep ==
  ASSUME AnswerInv, [Next]_vars
  PROVE  AnswerInv'
  <1> USE DEF AnswerInv
  <1>1. ASSUME NEW b \in Bursts, SendBurst(b)
        PROVE  AnswerInv'
    <2>1. state' = state /\ tx' = tx /\ chunk' = chunk
      BY <1>1 DEF SendBurst, receiver
    <2>2. CASE state = "Transmitting"
      <3>1. popped' = popped
        BY <1>1, <2>2 DEF SendBurst
      <3> QED
        BY <2>1, <3>1, StillAnswering DEF Quiet
    <2>3. CASE state # "Transmitting"
      <3>1. popped' = NoAnswer
        BY <1>1, <2>3 DEF SendBurst
      <3> QED
        BY <2>1, <2>3, <3>1 DEF Quiet, Answering
    <2> QED
      BY <2>2, <2>3
  <1>2. ASSUME NEW n \in ChunkSizes, ReceiveData(n)
        PROVE  AnswerInv'
    <2>1. popped' = popped /\ tx' = tx /\ chunk = <<>>
      BY <1>2 DEF ReceiveData, Returned
    <2>2. CASE state = "Transmitting"
      <3>1. state' = state /\ chunk' = chunk
        BY <1>2, <2>2 DEF ReceiveData, receiver
      <3> QED
        BY <2>1, <3>1, StillAnswering DEF Quiet
    <2>3. CASE state # "Transmitting"
      <3>1. state' # "Transmitting"
        BY <1>2, <2>3 DEF ReceiveData
      <3> QED
        BY <2>1, <2>3, <3>1, StillAnswering DEF Quiet
    <2> QED
      BY <2>2, <2>3
  <1>3. CASE ReadByte
    BY <1>3, ReadingIsIdle, StillAnswering DEF Quiet
  <1>4. ASSUME NEW r \in Responses, Serve(r)
        PROVE  AnswerInv'
    BY <1>4, ServeAnswers
  <1>5. ASSUME NEW n \in PopSizes, PopData(n)
        PROVE  AnswerInv'
    <2>1. chunk' = <<>>
      BY <1>5 DEF PopData, Returned
    <2> QED
      BY <1>5, <2>1, PopAnswers DEF Quiet
  <1>6. CASE Expire
    BY <1>6 DEF Expire, Returned, Quiet, Answering
  <1>7. ASSUME NEW dt \in Timesteps, Tick(dt)
        PROVE  AnswerInv'
    <2>1. popped' = popped /\ tx' = tx /\ state' = state /\ chunk' = chunk
      BY <1>7 DEF Tick, receiver
    <2> QED
      BY <2>1, StillAnswering DEF Quiet
  <1>8. CASE UNCHANGED vars
    <2>1. popped' = popped /\ tx' = tx /\ state' = state /\ chunk' = chunk
      BY <1>8 DEF vars, receiver
    <2> QED
      BY <2>1, StillAnswering DEF Quiet
  <1> QED
    BY <1>1, <1>2, <1>3, <1>4, <1>5, <1>6, <1>7, <1>8 DEF Next, Send, Receive, DoServe, Pop, DoTick

\* AnswerInv says more than the property.
LEMMA AnswersAre ==
  ASSUME AnswerInv
  PROVE  AnswerInOnePiece
  <1> SUFFICES ASSUME popped # NoAnswer
               PROVE  /\ popped.bytes = SubSeq(ResponseFrame(popped.response[1]), 1, Len(popped.bytes))
                      /\ state = "Transmitting" <=> Len(popped.bytes) < Len(ResponseFrame(popped.response[1]))
    BY DEF AnswerInOnePiece
  <1>1. PICK r \in Responses, bytes \in Seq(Byte) :
          /\ popped = [response |-> <<r>>, bytes |-> bytes]
          /\ Begins(bytes, r)
          /\ IF state = "Transmitting" THEN Len(bytes) < 9 + Len(r.data) ELSE Len(bytes) = 9 + Len(r.data)
    BY DEF AnswerInv, Answering
  <1> DEFINE frame == ResponseFrame(r)
             n == 9 + Len(r.data)
             l == Len(bytes)
  <1>2. n \in Nat /\ frame \in Seq(Byte) /\ Len(frame) = n
    BY <1>1, ResponseIs DEF Begins
  <1>3. l \in Nat /\ l <= n /\ \A i \in 1 .. l : bytes[i] = frame[i]
    BY <1>1 DEF Begins
  <1>4. popped.response[1] = r /\ popped.bytes = bytes
    BY <1>1
  <1>5. IF state = "Transmitting" THEN l < n ELSE l = n
    BY <1>1
  <1> HIDE DEF frame, n
  <1>6. bytes = SubSeq(frame, 1, l)
    <2> DEFINE part == SubSeq(frame, 1, l)
    <2>1. part \in Seq(Byte) /\ Len(part) = l /\ \A i \in 1 .. l : part[i] = frame[i]
      BY <1>2, <1>3
    <2> HIDE DEF part
    <2>2. bytes = part
      BY <1>3, <2>1, SeqEqual
    <2> QED
      BY <2>2 DEF part
  <1>7. state = "Transmitting" <=> l < Len(frame)
    BY <1>2, <1>3, <1>5
  <1> QED
    BY <1>4, <1>6, <1>7 DEF frame

\* However pop_data() is cut, and whatever is received, expires or is asked meanwhile, the
\* bytes it handed out are the first ones of the frame of one response of MainHandler, and
\* the link is only left to the next request when they are all out.
THEOREM ResponsesAreWhole == Spec => []AnswerInOnePiece
  <1>1. Init => AnswerInv
    BY DEF Init, AnswerInv, Quiet, Answering
  <1>2. AnswerInv /\ [Next]_vars => AnswerInv'
    BY AnswerStep
  <1> QED
    BY <1>1, <1>2, AnswersAre, PTL DEF Spec

-----------------------------------------------------------------------------
(* Requests *)

Receptions ==
    [state : {"WaitForCommand", "WaitForSubfunction", "WaitForLength", "WaitForData", "WaitForCRC",
              "WaitForProcess", "Error"},
     command : 0 .. 127, subfunction : Byte, data_length : Nat, count : Nat, m_crc : Word,
     crc : Seq(Byte), request_received : BOOLEAN]

ParseTypes ==
    /\ chunk \in Seq(WireBytes) /\ wire \in Seq(WireBytes)
    /\ rx \in Receptions /\ Len(rx.crc) = 4 /\ rx_buffer \in [0 .. RxBufferSize - 1 -> Byte]
    /\ taken \in Seq(Byte)

\* The first n bytes of data are in the buffer.
Stored(n) == n <= RxBufferSize /\ \A k \in 1 .. n : rx_buffer[k - 1] = taken[4 + k]

HeaderTaken == rx.command = taken[1] /\ rx.subfunction = taken[2] /\ rx.data_length = TakenLength

\* What the bytes taken are, in each state of the reception.
AtCommand == rx.state = "WaitForCommand" /\ taken = <<>>
AtSubfunction ==
    /\ rx.state = "WaitForSubfunction" /\ Len(taken) = 1
    /\ rx.command = taken[1] /\ rx.m_crc = Crc(taken, {})
AtLength ==
    /\ rx.state = "WaitForLength" /\ rx.count \in 0 .. 1 /\ Len(taken) = 2 + rx.count
    /\ rx.command = taken[1] /\ rx.subfunction = taken[2] /\ rx.m_crc = Crc(taken, {})
    /\ rx.count = 1 => rx.data_length = 256 * taken[3]
AtData ==
    /\ rx.state = "WaitForData" /\ Len(taken) = 4 + rx.count /\ HeaderTaken
    /\ rx.count < rx.data_length
    /\ rx.count > 0 => rx.data_length <= RxBufferSize
    /\ Stored(rx.count) /\ rx.m_crc = Crc(taken, {})
AtCrc ==
    /\ rx.state = "WaitForCRC" /\ rx.count \in 0 .. 3
    /\ Len(taken) = 4 + rx.data_length + rx.count /\ HeaderTaken
    /\ Stored(rx.data_length) /\ rx.m_crc = Crc(SubSeq(taken, 1, 4 + rx.data_length), {})
    /\ \A i \in 1 .. rx.count : rx.crc[4 - rx.count + i] = taken[4 + rx.data_length + i]
AtProcess ==
    /\ rx.state = "WaitForProcess"
    /\ Len(taken) = 8 + rx.data_length /\ HeaderTaken
    /\ taken = RequestFrame(ActiveRequest)
AtError ==
    /\ rx.state = "Error"
    /\ taken = <<>> \/ (Len(taken) = 4 /\ TakenLength > RxBufferSize)

Parsing ==
    \/ ~rx.request_received /\ (AtCommand \/ AtSubfunction \/ AtLength \/ AtData \/ AtCrc \/ AtError)
    \/ rx.request_received /\ AtProcess

ParseInv == ParseTypes /\ Parsing

\* The n next bytes were read.
Took(n) ==
    /\ chunk' \in Seq(WireBytes) /\ taken' \in Seq(Byte) /\ Len(taken') = Len(taken) + n
    /\ \A i \in 1 .. Len(taken) : taken'[i] = taken[i]
    /\ \A i \in 1 .. n : taken'[Len(taken) + i] = chunk[i].value
    /\ \A i \in 1 .. n : chunk[i].value \in Byte
    /\ Crc(Values(SubSeq(chunk, 1, n)), Crc(taken, {})) = Crc(taken', {})

\* What reading the n next bytes does to the bytes taken and to the running CRC.
LEMMA TakeIs ==
  ASSUME ParseTypes, NEW n \in 1 .. Len(chunk), Take(n)
  PROVE  Took(n)
  <1> DEFINE head == SubSeq(chunk, 1, n)
             more == Values(head)
             l == Len(taken)
             joined == taken \o more
  <1>1. /\ chunk \in Seq(WireBytes) /\ taken \in Seq(Byte) /\ l \in Nat /\ n \in Nat /\ n <= Len(chunk)
    BY DEF ParseTypes
  <1>2. head \in Seq(WireBytes) /\ Len(head) = n /\ \A i \in 1 .. n : head[i] = chunk[i]
    BY <1>1
  <1>3. chunk' \in Seq(WireBytes)
    BY <1>1 DEF Take
  <1>4. \A i \in 1 .. n : chunk[i].value \in Byte
    <2> SUFFICES ASSUME NEW i \in 1 .. n PROVE chunk[i].value \in Byte
      OBVIOUS
    <2>1. chunk[i] \in WireBytes
      BY <1>1
    <2> QED
      BY <2>1 DEF WireBytes
  <1> HIDE DEF head
  <1>5. more \in [1 .. n -> Byte] /\ \A i \in 1 .. n : more[i] = chunk[i].value
    <2>1. more = [k \in 1 .. n |-> head[k].value]
      BY <1>2 DEF Values
    <2> QED
      BY <1>2, <1>4, <2>1
  <1> HIDE DEF more
  <1>6. more \in Seq(Byte) /\ Len(more) = n
    <2>1. more \in Seq(Byte)
      BY <1>1, <1>5, SeqDef
    <2>2. DOMAIN more = 1 .. n
      BY <1>5
    <2> QED
      BY <1>1, <2>1, <2>2, LenProperties
  <1>7. /\ joined \in Seq(Byte) /\ Len(joined) = l + n
        /\ \A i \in 1 .. l : joined[i] = taken[i]
        /\ \A i \in 1 .. n : joined[l + i] = more[i]
    BY <1>1, <1>6
  <1>8. Crc(joined, {}) = Crc(more, Crc(taken, {}))
    <2>1. {} \in Word
      BY DEF Word
    <2> QED
      BY <1>1, <1>6, <2>1, CrcChains
  <1>9. taken' = joined
    BY DEF Take, more, head
  <1> HIDE DEF joined
  <1> QED
    BY <1>3, <1>4, <1>5, <1>7, <1>8, <1>9 DEF Took, more, head

\* reset_rx() leaves a reception.
LEMMA NoReceptionIs == NoReception \in Receptions /\ Len(NoReception.crc) = 4
  <1> DEFINE c == <<0, 0, 0, 0>>
  <1>1. 0 \in Byte /\ 0 \in 0 .. 127
    BY DEF Byte
  <1>2. c \in Seq(Byte) /\ Len(c) = 4
    BY <1>1
  <1>3. {} \in Word
    BY DEF Word
  <1>4. NoReception.crc = c
    BY DEF NoReception
  <1>5. NoReception = [state |-> "WaitForCommand", command |-> 0, subfunction |-> 0, data_length |-> 0,
                       count |-> 0, m_crc |-> {}, crc |-> c, request_received |-> FALSE]
    BY DEF NoReception
  <1> HIDE DEF c
  <1> QED
    BY <1>1, <1>2, <1>3, <1>4, <1>5 DEF Receptions

\* reset_rx()
LEMMA ResetParses ==
  ASSUME ParseTypes, rx' = NoReception, taken' = <<>>, rx_buffer' = rx_buffer,
         chunk' \in Seq(WireBytes), wire' \in Seq(WireBytes)
  PROVE  ParseInv'
  <1>1. taken' \in Seq(Byte)
    OBVIOUS
  <1>2. ParseTypes'
    BY <1>1, NoReceptionIs DEF ParseTypes
  <1>3. rx'.state = "WaitForCommand" /\ ~rx'.request_received
    BY DEF NoReception
  <1> QED
    BY <1>2, <1>3 DEF ParseInv, Parsing, AtCommand

\* Nothing of the reception changes.
LEMMA StillParsing ==
  ASSUME ParseInv, rx' = rx, taken' = taken, rx_buffer' = rx_buffer,
         chunk' \in Seq(WireBytes), wire' \in Seq(WireBytes)
  PROVE  ParseInv'
  BY DEF ParseInv, ParseTypes, Parsing, AtCommand, AtSubfunction, AtLength, AtData, AtCrc, AtProcess, AtError,
         HeaderTaken, TakenLength, Stored, ActiveRequest

\* The first byte of the chunk.
LEMMA NextByte ==
  ASSUME ParseTypes, chunk # <<>>
  PROVE  1 \in 1 .. Len(chunk) /\ Len(chunk) \in Nat /\ chunk[1].value \in Byte
  <1>1. Len(chunk) \in Nat /\ Len(chunk) > 0 /\ chunk[1] \in WireBytes
    BY DEF ParseTypes
  <1> QED
    BY <1>1 DEF WireBytes

\* A CRC is a word.
LEMMA CrcTyped ==
  ASSUME NEW s \in Seq(Byte)
  PROVE  Crc(s, {}) \in Word
  <1>1. {} \in Word
    BY DEF Word
  <1> QED
    BY <1>1, CrcIsReference

\* The command byte: accepted, or an error.
LEMMA CommandParses ==
  ASSUME ParseInv, ReadCommand
  PROVE  ParseInv'
  <1> DEFINE v == chunk[1].value
  <1>1. /\ ParseTypes /\ chunk # <<>> /\ rx \in Receptions /\ Len(rx.crc) = 4
        /\ rx.state = "WaitForCommand" /\ ~rx.request_received /\ taken = <<>>
    BY DEF ParseInv, ParseTypes, Parsing, ReadCommand, Reading, AtCommand, AtSubfunction, AtLength, AtData, AtCrc,
           AtError
  <1>2. v \in Byte /\ wire' = wire /\ rx_buffer' = rx_buffer
    BY <1>1, NextByte DEF ReadCommand, Outside, BufferKept
  <1>3. CASE v >= 128
    <2>1. rx' = [rx EXCEPT !.state = "Error", !.m_crc = {}] /\ chunk' = chunk /\ taken' = taken
      BY <1>3 DEF ReadCommand
    <2>2. {} \in Word
      BY DEF Word
    <2>3. rx' \in Receptions /\ Len(rx'.crc) = 4 /\ rx'.state = "Error" /\ ~rx'.request_received
      BY <1>1, <2>1, <2>2 DEF Receptions
    <2> QED
      BY <1>1, <1>2, <2>1, <2>3 DEF ParseInv, ParseTypes, Parsing, AtError
  <1>4. CASE ~(v >= 128)
    <2>1. /\ rx' = [rx EXCEPT !.state = "WaitForSubfunction", !.command = v, !.m_crc = Crc(<<v>>, {})]
          /\ Take(1)
      BY <1>4 DEF ReadCommand
    <2>2. Took(1)
      BY <1>1, <2>1, NextByte, TakeIs
    <2>3. /\ chunk' \in Seq(WireBytes) /\ taken' \in Seq(Byte) /\ Len(taken') = 1 /\ taken'[1] = v
      BY <1>1, <2>2 DEF Took
    <2>4. taken' = <<v>>
      <3>1. <<v>> \in Seq(Byte) /\ Len(<<v>>) = 1 /\ \A i \in 1 .. 1 : <<v>>[i] = taken'[i]
        BY <1>2, <2>3
      <3> QED
        BY <2>3, <3>1
    <2>5. Crc(<<v>>, {}) \in Word
      BY <2>3, <2>4, CrcTyped
    <2>6. v \in 0 .. 127
      BY <1>2, <1>4 DEF Byte
    <2> HIDE DEF v
    <2>7. /\ rx' \in Receptions /\ Len(rx'.crc) = 4 /\ rx'.state = "WaitForSubfunction" /\ ~rx'.request_received
          /\ rx'.command = v /\ rx'.m_crc = Crc(<<v>>, {})
      BY <1>1, <2>1, <2>5, <2>6 DEF Receptions
    <2> QED
      BY <1>1, <1>2, <2>3, <2>4, <2>7 DEF ParseInv, ParseTypes, Parsing, AtSubfunction
  <1> QED
    BY <1>3, <1>4

\* The subfunction byte.
LEMMA SubfunctionParses ==
  ASSUME ParseInv, ReadSubfunction
  PROVE  ParseInv'
  <1> DEFINE v == chunk[1].value
             crc == CrcOf(1)
  <1>1. /\ ParseTypes /\ chunk # <<>> /\ rx \in Receptions /\ Len(rx.crc) = 4 /\ taken \in Seq(Byte)
        /\ ~rx.request_received /\ AtSubfunction
    BY DEF ParseInv, ParseTypes, Parsing, ReadSubfunction, Reading, AtCommand, AtSubfunction, AtLength, AtData,
           AtCrc, AtError
  <1>2. v \in Byte /\ wire' = wire /\ rx_buffer' = rx_buffer
    BY <1>1, NextByte DEF ReadSubfunction, Outside, BufferKept
  <1>3. rx' = [rx EXCEPT !.state = "WaitForLength", !.subfunction = v, !.m_crc = crc, !.count = 0] /\ Take(1)
    BY DEF ReadSubfunction
  <1>4. Took(1)
    BY <1>1, <1>3, NextByte, TakeIs
  <1>5. /\ chunk' \in Seq(WireBytes) /\ taken' \in Seq(Byte) /\ Len(taken') = 2
        /\ taken'[1] = taken[1] /\ taken'[2] = v /\ crc = Crc(taken', {})
    BY <1>1, <1>4 DEF Took, AtSubfunction, CrcOf
  <1>6. crc \in Word
    BY <1>5, CrcTyped
  <1> HIDE DEF v, crc
  <1>7. /\ rx' \in Receptions /\ Len(rx'.crc) = 4 /\ rx'.state = "WaitForLength" /\ ~rx'.request_received
        /\ rx'.command = rx.command /\ rx'.subfunction = v /\ rx'.m_crc = crc /\ rx'.count = 0
    BY <1>1, <1>2, <1>3, <1>6 DEF Receptions
  <1>8. AtLength'
    BY <1>1, <1>5, <1>7 DEF AtLength, AtSubfunction
  <1> QED
    BY <1>1, <1>2, <1>5, <1>7, <1>8 DEF ParseInv, ParseTypes, Parsing

\* No byte of data is in the buffer before the first one.
LEMMA NothingStored == ASSUME NEW n, n = 0 PROVE Stored(n)'
  BY BuffersAssumption DEF Stored

\* Both bytes of the length are known.
LEMMA HeaderParses ==
  ASSUME ParseTypes, ~rx.request_received, chunk' \in Seq(WireBytes), wire' = wire, rx_buffer' = rx_buffer,
         taken' \in Seq(Byte), Len(taken') = 4, rx.command = taken'[1], rx.subfunction = taken'[2],
         NEW crc, crc = Crc(taken', {}), NEW length, length = 256 * taken'[3] + taken'[4],
         rx' = LengthRead([rx EXCEPT !.m_crc = crc], length)
  PROVE  ParseInv'
  <1>1. crc \in Word
    BY CrcTyped
  <1>2. /\ rx \in Receptions /\ Len(rx.crc) = 4 /\ wire \in Seq(WireBytes)
        /\ rx_buffer \in [0 .. RxBufferSize - 1 -> Byte] /\ RxBufferSize \in Nat
    BY BuffersAssumption DEF ParseTypes
  <1>3. length \in Nat
    <2>1. taken'[3] \in Byte /\ taken'[4] \in Byte
      <3>1. 3 \in 1 .. Len(taken') /\ 4 \in 1 .. Len(taken')
        OBVIOUS
      <3> QED
        BY <3>1, ElementOfSeq
    <2>2. Byte \subseteq Nat
      BY DEF Byte
    <2>3. PICK a \in Nat, b \in Nat : a = taken'[3] /\ b = taken'[4]
      BY <2>1, <2>2
    <2>4. length = 256 * a + b
      BY <2>3
    <2> QED
      BY <2>4
  <1>4. /\ rx' \in Receptions /\ rx'.crc = rx.crc /\ ~rx'.request_received
        /\ rx'.command = rx.command /\ rx'.subfunction = rx.subfunction /\ rx'.data_length = length
        /\ rx'.m_crc = crc /\ rx'.count = 0
        /\ rx'.state = IF length = 0 THEN "WaitForCRC" ELSE "WaitForData"
    <2> DEFINE r == [rx EXCEPT !.m_crc = crc]
               s == IF length = 0 THEN "WaitForCRC" ELSE "WaitForData"
    <2>1. /\ r \in Receptions /\ r.crc = rx.crc /\ ~r.request_received /\ r.command = rx.command
          /\ r.subfunction = rx.subfunction /\ r.m_crc = crc
      BY <1>1, <1>2 DEF Receptions
    <2>2. rx' = [r EXCEPT !.data_length = length, !.state = s, !.count = 0]
      BY DEF LengthRead
    <2>3. s \in {"WaitForCRC", "WaitForData"}
      OBVIOUS
    <2> HIDE DEF r, s
    <2>4. rx' \in Receptions
      <3> DEFINE r1 == [r EXCEPT !.data_length = length]
                 r2 == [r1 EXCEPT !.state = s]
                 zero == 0
      <3>1. r1 \in Receptions
        BY <1>3, <2>1 DEF Receptions
      <3>2. rx' = [r2 EXCEPT !.count = zero] /\ zero \in Nat
        BY <2>2
      <3> HIDE DEF r1, zero
      <3>3. r2 \in Receptions
        BY <2>3, <3>1 DEF Receptions
      <3> HIDE DEF r2
      <3> QED
        BY <3>2, <3>3 DEF Receptions
    <2>5. /\ rx'.crc = r.crc /\ rx'.request_received = r.request_received
          /\ rx'.command = r.command /\ rx'.subfunction = r.subfunction /\ rx'.m_crc = r.m_crc
      BY <2>1, <2>2 DEF Receptions
    <2>6. rx'.data_length = length /\ rx'.count = 0 /\ rx'.state = s
      BY <2>1, <2>2 DEF Receptions
    <2> QED
      BY <2>1, <2>4, <2>5, <2>6 DEF s
  <1>5. ParseTypes'
    BY <1>2, <1>4 DEF ParseTypes
  <1>6. HeaderTaken'
    BY <1>4 DEF HeaderTaken, TakenLength
  <1>7. CASE length # 0
    <2>1. AtData'
      <3>1. Stored(rx.count)'
        <4>1. rx'.count = 0
          BY <1>4
        <4> QED
          BY <1>2, <4>1, NothingStored
      <3>2. rx'.state = "WaitForData" /\ rx'.count = 0 /\ Len(taken') = 4 + rx'.count
            /\ rx'.m_crc = Crc(taken', {}) /\ rx'.count < rx'.data_length
        BY <1>3, <1>4, <1>7
      <3> QED
        BY <1>6, <3>1, <3>2 DEF AtData
    <2> QED
      BY <1>4, <1>5, <2>1 DEF ParseInv, Parsing
  <1>8. CASE length = 0
    <2>1. SubSeq(taken', 1, 4 + rx'.data_length) = taken'
      <3>1. 4 + rx'.data_length = Len(taken')
        BY <1>4, <1>8
      <3>2. SubSeq(taken', 1, Len(taken')) = taken'
        BY SubSeqFull
      <3> QED
        BY <3>1, <3>2
    <2>2. Stored(rx.data_length)'
      <3>1. rx'.data_length = 0
        BY <1>4, <1>8
      <3>2. rx.data_length' = 0
        BY <3>1
      <3> QED
        BY <1>2, <3>2, NothingStored
    <2>3. Len(taken') = (4 + rx'.data_length) + rx'.count /\ rx'.count \in 0 .. 3
      BY <1>4, <1>8
    <2>4. \A i \in 1 .. rx'.count : rx'.crc[4 - rx'.count + i] = taken'[4 + rx'.data_length + i]
      BY <1>4
    <2>5. AtCrc'
      BY <1>4, <1>6, <1>8, <2>1, <2>2, <2>3, <2>4 DEF AtCrc
    <2> QED
      BY <1>4, <1>5, <2>5 DEF ParseInv, Parsing
  <1> QED
    BY <1>7, <1>8

\* The length: both bytes, the first one, the second one.
LEMMA LengthParses ==
  ASSUME ParseInv, ReadLength
  PROVE  ParseInv'
  <1>1. /\ ParseTypes /\ chunk # <<>> /\ rx \in Receptions /\ Len(rx.crc) = 4 /\ taken \in Seq(Byte)
        /\ ~rx.request_received /\ AtLength
    BY DEF ParseInv, ParseTypes, Parsing, ReadLength, Reading, AtCommand, AtSubfunction, AtLength, AtData,
           AtCrc, AtError
  <1>2. wire' = wire /\ rx_buffer' = rx_buffer
    BY DEF ReadLength, Outside, BufferKept
  <1>3. rx.count \in 0 .. 1 /\ rx.command = taken[1] /\ rx.subfunction = taken[2] /\ rx.m_crc = Crc(taken, {})
    BY <1>1 DEF AtLength
  <1>4. CASE /\ rx.count = 0 /\ Len(chunk) >= 2
             /\ rx' = LengthRead([rx EXCEPT !.m_crc = CrcOf(2)], 256 * chunk[1].value + chunk[2].value)
             /\ Take(2)
    <2>1. Took(2) /\ Len(taken) = 2
      <3>1. 2 \in 1 .. Len(chunk)
        BY <1>1, <1>4 DEF ParseTypes
      <3> QED
        BY <1>1, <1>4, <3>1, TakeIs DEF AtLength
    <2>2. /\ chunk' \in Seq(WireBytes) /\ taken' \in Seq(Byte) /\ Len(taken') = 4
          /\ taken'[1] = taken[1] /\ taken'[2] = taken[2]
          /\ taken'[3] = chunk[1].value /\ taken'[4] = chunk[2].value
          /\ CrcOf(2) = Crc(taken', {})
      BY <1>3, <2>1 DEF Took, CrcOf
    <2>3. PICK crc, length : crc = CrcOf(2) /\ length = 256 * chunk[1].value + chunk[2].value
      OBVIOUS
    <2>4. rx' = LengthRead([rx EXCEPT !.m_crc = crc], length)
      BY <1>4, <2>3
    <2>5. crc = Crc(taken', {}) /\ length = 256 * taken'[3] + taken'[4]
      BY <2>2, <2>3
    <2> QED
      BY <1>1, <1>2, <1>3, <2>2, <2>4, <2>5, HeaderParses
  <1>5. CASE /\ rx.count = 0 /\ Len(chunk) = 1
             /\ rx' = [rx EXCEPT !.data_length = 256 * chunk[1].value, !.m_crc = CrcOf(1), !.count = 1]
             /\ Take(1)
    <2>1. Took(1) /\ Len(taken) = 2
      BY <1>1, <1>5, NextByte, TakeIs DEF AtLength
    <2>2. /\ chunk' \in Seq(WireBytes) /\ taken' \in Seq(Byte) /\ Len(taken') = 3
          /\ taken'[1] = taken[1] /\ taken'[2] = taken[2] /\ taken'[3] = chunk[1].value
          /\ CrcOf(1) = Crc(taken', {})
      BY <1>3, <2>1 DEF Took, CrcOf
    <2>3. CrcOf(1) \in Word
      BY <2>2, CrcTyped
    <2>4. PICK v \in Byte, length \in Nat : v = chunk[1].value /\ length = 256 * v
      <3>1. PICK v \in Byte : v = chunk[1].value
        BY <1>1, NextByte
      <3>2. 256 * v \in Nat
        BY DEF Byte
      <3> QED
        BY <3>1, <3>2
    <2>5. /\ rx' \in Receptions /\ rx'.crc = rx.crc /\ ~rx'.request_received /\ rx'.state = "WaitForLength"
          /\ rx'.command = rx.command /\ rx'.subfunction = rx.subfunction /\ rx'.data_length = length
          /\ rx'.m_crc = CrcOf(1) /\ rx'.count = 1
      <3> DEFINE c == CrcOf(1)
      <3>1. rx' = [rx EXCEPT !.data_length = length, !.m_crc = c, !.count = 1] /\ rx.state = "WaitForLength"
        BY <1>1, <1>5, <2>4 DEF AtLength
      <3> HIDE DEF c
      <3>2. rx' \in Receptions
        BY <1>1, <2>3, <3>1 DEF Receptions, c
      <3>3. /\ rx'.crc = rx.crc /\ ~rx'.request_received /\ rx'.state = "WaitForLength"
            /\ rx'.command = rx.command /\ rx'.subfunction = rx.subfunction
        BY <1>1, <3>1 DEF Receptions
      <3>4. rx'.data_length = length /\ rx'.m_crc = c /\ rx'.count = 1
        BY <1>1, <3>1 DEF Receptions
      <3> QED
        BY <3>2, <3>3, <3>4 DEF c
    <2>6. AtLength'
      BY <1>3, <2>2, <2>4, <2>5 DEF AtLength
    <2> QED
      BY <1>1, <1>2, <2>2, <2>5, <2>6 DEF ParseInv, ParseTypes, Parsing
  <1>6. CASE /\ rx.count # 0
             /\ rx' = LengthRead([rx EXCEPT !.m_crc = CrcOf(1)], SecondLengthByte)
             /\ Take(1)
    <2>1. Took(1) /\ Len(taken) = 3 /\ rx.data_length = 256 * taken[3]
      BY <1>1, <1>6, NextByte, TakeIs DEF AtLength
    <2>2. /\ chunk' \in Seq(WireBytes) /\ taken' \in Seq(Byte) /\ Len(taken') = 4
          /\ taken'[1] = taken[1] /\ taken'[2] = taken[2] /\ taken'[3] = taken[3] /\ taken'[4] = chunk[1].value
          /\ CrcOf(1) = Crc(taken', {})
      BY <1>3, <2>1 DEF Took, CrcOf
    <2>3. PICK crc, length : crc = CrcOf(1) /\ length = SecondLengthByte
      OBVIOUS
    <2>4. rx' = LengthRead([rx EXCEPT !.m_crc = crc], length)
      BY <1>6, <2>3
    <2>5. crc = Crc(taken', {}) /\ length = 256 * taken'[3] + taken'[4]
      BY <2>1, <2>2, <2>3 DEF SecondLengthByte
    <2> QED
      BY <1>1, <1>2, <1>3, <2>2, <2>4, <2>5, HeaderParses
  <1> QED
    BY <1>4, <1>5, <1>6 DEF ReadLength

\* A reception in another state, with another count and CRC.
Moved(u, r, c, k, s) ==
    /\ u \in Receptions
    /\ u.crc = r.crc /\ u.request_received = r.request_received /\ u.command = r.command
    /\ u.subfunction = r.subfunction /\ u.data_length = r.data_length
    /\ u.m_crc = c /\ u.count = k /\ u.state = s

\* The fields of a reception that reads data.
LEMMA MovedIs ==
  ASSUME NEW r \in Receptions, NEW c \in Word, NEW k \in Nat, NEW s \in {"WaitForData", "WaitForCRC"},
         NEW u, u = [r EXCEPT !.m_crc = c, !.count = k, !.state = s]
  PROVE  Moved(u, r, c, k, s)
  <1> DEFINE r1 == [r EXCEPT !.m_crc = c]
             r2 == [r1 EXCEPT !.count = k]
  <1>1. r1 \in Receptions
    BY DEF Receptions
  <1>2. /\ r1.crc = r.crc /\ r1.request_received = r.request_received /\ r1.command = r.command
        /\ r1.subfunction = r.subfunction /\ r1.data_length = r.data_length /\ r1.m_crc = c
    BY DEF Receptions
  <1>3. u = [r2 EXCEPT !.state = s]
    OBVIOUS
  <1> HIDE DEF r1
  <1>4. r2 \in Receptions
    BY <1>1 DEF Receptions
  <1>5. /\ r2.crc = r1.crc /\ r2.request_received = r1.request_received /\ r2.command = r1.command
        /\ r2.subfunction = r1.subfunction /\ r2.data_length = r1.data_length /\ r2.m_crc = r1.m_crc
        /\ r2.count = k
    BY <1>1 DEF Receptions
  <1> HIDE DEF r2
  <1>6. u \in Receptions
    BY <1>3, <1>4 DEF Receptions
  <1>7. /\ u.crc = r2.crc /\ u.request_received = r2.request_received /\ u.command = r2.command
        /\ u.subfunction = r2.subfunction /\ u.data_length = r2.data_length /\ u.m_crc = r2.m_crc
        /\ u.count = r2.count /\ u.state = s
    BY <1>3, <1>4 DEF Receptions
  <1> QED
    BY <1>2, <1>5, <1>6, <1>7 DEF Moved

\* The data: a part of them, the rest of them, or too many for the buffer.
LEMMA DataParses ==
  ASSUME ParseInv, ReadData
  PROVE  ParseInv'
  <1> DEFINE d == rx.data_length
             c == rx.count
             missing == d - c
             n == IF Len(chunk) >= missing THEN missing ELSE Len(chunk)
             m == c + n
             s == IF n = missing THEN "WaitForCRC" ELSE "WaitForData"
             k == IF n = missing THEN 0 ELSE m
             crc == CrcOf(n)
  <1>1. /\ ParseTypes /\ chunk # <<>> /\ rx \in Receptions /\ Len(rx.crc) = 4 /\ taken \in Seq(Byte)
        /\ rx_buffer \in [0 .. RxBufferSize - 1 -> Byte] /\ ~rx.request_received /\ AtData
    BY DEF ParseInv, ParseTypes, Parsing, ReadData, Reading, AtCommand, AtSubfunction, AtLength, AtData,
           AtCrc, AtError
  <1>2. /\ wire' = wire /\ wire \in Seq(WireBytes) /\ d \in Nat /\ c \in Nat /\ c < d
        /\ Len(chunk) \in Nat /\ Len(chunk) > 0 /\ RxBufferSize \in Nat
    BY <1>1, NextByte, BuffersAssumption DEF ReadData, Outside, Receptions, AtData, ParseTypes
  <1>3. /\ Len(taken) = 4 + c /\ HeaderTaken /\ (c > 0 => d <= RxBufferSize) /\ Stored(c)
        /\ rx.m_crc = Crc(taken, {})
    BY <1>1 DEF AtData
  <1>4. CASE d > RxBufferSize
    <2>1. rx' = [rx EXCEPT !.state = "Error"] /\ chunk' = chunk /\ taken' = taken /\ rx_buffer' = rx_buffer
      BY <1>4 DEF ReadData, TooLong
    <2>2. rx' \in Receptions /\ Len(rx'.crc) = 4 /\ rx'.state = "Error" /\ ~rx'.request_received
      BY <1>1, <2>1 DEF Receptions
    <2>3. Len(taken) = 4 /\ TakenLength > RxBufferSize
      BY <1>2, <1>3, <1>4 DEF HeaderTaken
    <2>4. AtError'
      BY <2>1, <2>2, <2>3 DEF AtError, TakenLength
    <2> QED
      BY <1>1, <1>2, <2>1, <2>2, <2>4 DEF ParseInv, ParseTypes, Parsing
  <1>5. CASE ~(d > RxBufferSize)
    <2>1. /\ rx_buffer' = [j \in DOMAIN rx_buffer |-> IF j \in c .. c + n - 1
                                                     THEN chunk[j - c + 1].value ELSE rx_buffer[j]]
          /\ rx' = [rx EXCEPT !.m_crc = crc, !.count = k, !.state = s]
          /\ Take(n)
      BY <1>5 DEF ReadData, TooLong
    <2>2. /\ n \in 1 .. Len(chunk) /\ n \in Nat /\ n > 0 /\ m \in Nat /\ m <= d /\ m > 0 /\ k \in Nat
          /\ s \in {"WaitForData", "WaitForCRC"} /\ (n = missing => m = d) /\ (n # missing => m < d)
      BY <1>2
    <2>3. Took(n)
      BY <1>1, <2>1, <2>2, TakeIs
    <2>4. crc = Crc(taken', {})
      BY <1>3, <2>3 DEF Took, CrcOf
    <2>5. /\ chunk' \in Seq(WireBytes) /\ taken' \in Seq(Byte) /\ Len(taken') = (4 + c) + n
          /\ \A i \in 1 .. 4 + c : taken'[i] = taken[i]
          /\ \A i \in 1 .. n : taken'[(4 + c) + i] = chunk[i].value
          /\ \A i \in 1 .. n : chunk[i].value \in Byte
      BY <1>3, <2>3 DEF Took
    <2>6. crc \in Word
      BY <2>4, <2>5, CrcTyped
    <2> HIDE DEF n, m, s, k, crc
    <2>7. Moved(rx', rx, crc, k, s)
      BY <1>1, <2>1, <2>2, <2>6, MovedIs
    <2>8. DOMAIN rx_buffer = 0 .. RxBufferSize - 1
      BY <1>1
    <2>9. rx_buffer' \in [0 .. RxBufferSize - 1 -> Byte]
      <3> SUFFICES ASSUME NEW j \in 0 .. RxBufferSize - 1
                   PROVE  (IF j \in c .. c + n - 1 THEN chunk[j - c + 1].value ELSE rx_buffer[j]) \in Byte
        BY <2>1, <2>8
      <3>1. CASE j \in c .. c + n - 1
        <4>1. j - c + 1 \in 1 .. n
          BY <1>2, <2>2, <3>1
        <4> QED
          BY <2>5, <3>1, <4>1
      <3> QED
        BY <1>1, <3>1
    <2>10. ParseTypes'
      BY <1>1, <1>2, <2>5, <2>7, <2>9 DEF ParseTypes, Moved
    <2>11. ~rx'.request_received /\ rx'.state = s /\ rx'.count = k /\ rx'.m_crc = crc /\ rx'.data_length = d
           /\ rx'.command = rx.command /\ rx'.subfunction = rx.subfunction
      BY <1>1, <2>7 DEF Moved
    <2>12. HeaderTaken'
      <3>1. 1 \in 1 .. 4 + c /\ 2 \in 1 .. 4 + c /\ 3 \in 1 .. 4 + c /\ 4 \in 1 .. 4 + c
        BY <1>2
      <3>2. /\ taken'[1] = taken[1] /\ taken'[2] = taken[2] /\ taken'[3] = taken[3] /\ taken'[4] = taken[4]
        BY <2>5, <3>1
      <3> QED
        BY <1>3, <2>11, <3>2 DEF HeaderTaken, TakenLength
    <2>13. \A i \in 1 .. m : rx_buffer'[i - 1] = taken'[4 + i]
      <3> SUFFICES ASSUME NEW i \in 1 .. m PROVE rx_buffer'[i - 1] = taken'[4 + i]
        OBVIOUS
      <3> DEFINE j == i - 1
      <3>1. j \in 0 .. RxBufferSize - 1
        BY <1>2, <1>5, <2>2
      <3>2. rx_buffer'[j] = IF j \in c .. c + n - 1 THEN chunk[j - c + 1].value ELSE rx_buffer[j]
        BY <2>1, <2>8, <3>1
      <3>3. CASE i <= c
        <4>1. j \notin c .. c + n - 1 /\ i \in 1 .. c /\ 4 + i \in 1 .. 4 + c
          BY <1>2, <2>2, <3>3
        <4> HIDE DEF j
        <4>2. rx_buffer'[j] = rx_buffer[j] /\ taken'[4 + i] = taken[4 + i]
          BY <2>5, <3>2, <4>1
        <4> QED
          BY <1>3, <4>1, <4>2 DEF Stored, j
      <3>4. CASE ~(i <= c)
        <4>1. PICK e \in 1 .. n : e = j - c + 1 /\ (4 + c) + e = 4 + i
          <5>1. (i - 1) - c + 1 \in 1 .. n /\ (4 + c) + ((i - 1) - c + 1) = 4 + i
            BY <1>2, <2>2, <3>4 DEF m
          <5> QED
            BY <5>1
        <4>2. j \in c .. c + n - 1
          BY <1>2, <2>2, <3>4 DEF m
        <4> HIDE DEF j
        <4>3. rx_buffer'[j] = chunk[e].value
          BY <3>2, <4>1, <4>2
        <4>4. taken'[(4 + c) + e] = chunk[e].value
          BY <2>5
        <4> QED
          BY <4>1, <4>3, <4>4 DEF j
      <3> QED
        BY <3>3, <3>4
    <2>14. PICK total \in Nat : total = m
      BY <2>2
    <2>18. Stored(total)'
      <3>1. total <= RxBufferSize
        BY <1>2, <1>5, <2>2, <2>14
      <3>2. \A i \in 1 .. total : rx_buffer'[i - 1] = taken'[4 + i]
        BY <2>13, <2>14
      <3> QED
        BY <3>1, <3>2 DEF Stored
    <2>15. Len(taken') = 4 + m
      BY <1>2, <2>2, <2>5 DEF m
    <2>16. CASE n = missing
      <3>1. s = "WaitForCRC" /\ k = 0 /\ m = d
        BY <2>2, <2>16 DEF s, k
      <3>2. SubSeq(taken', 1, 4 + rx'.data_length) = taken'
        <4>1. 4 + rx'.data_length = Len(taken')
          BY <2>11, <2>15, <3>1
        <4>2. SubSeq(taken', 1, Len(taken')) = taken'
          BY <2>5, SubSeqFull
        <4> QED
          BY <4>1, <4>2
      <3>3. Stored(rx.data_length)'
        <4>1. rx.data_length' = total
          BY <2>11, <2>14, <3>1
        <4> QED
          BY <2>18, <4>1 DEF Stored
      <3>4. Len(taken') = (4 + rx'.data_length) + rx'.count /\ rx'.count \in 0 .. 3
        BY <1>2, <2>11, <2>15, <3>1
      <3>5. \A i \in 1 .. rx'.count : rx'.crc[4 - rx'.count + i] = taken'[4 + rx'.data_length + i]
        BY <2>11, <3>1
      <3>6. AtCrc'
        BY <2>4, <2>11, <2>12, <3>1, <3>2, <3>3, <3>4, <3>5 DEF AtCrc
      <3> QED
        BY <2>10, <2>11, <3>6 DEF ParseInv, Parsing
    <2>17. CASE n # missing
      <3>1. s = "WaitForData" /\ k = m /\ m < d
        BY <2>2, <2>17 DEF s, k
      <3>2. Stored(rx.count)'
        <4>1. rx.count' = total
          BY <2>11, <2>14, <3>1
        <4> QED
          BY <2>18, <4>1 DEF Stored
      <3>3. AtData'
        BY <1>2, <1>5, <2>2, <2>4, <2>11, <2>12, <2>15, <3>1, <3>2 DEF AtData
      <3> QED
        BY <2>10, <2>11, <3>3 DEF ParseInv, Parsing
    <2> QED
      BY <2>16, <2>17
  <1> QED
    BY <1>4, <1>5

\* A header, d bytes of data and the CRC of both.
Completed(t, d, data, header, w) ==
    /\ Len(t) = 8 + d /\ header = <<t[1], t[2], t[3], t[4]>>
    /\ Len(data) = d /\ \A k \in 1 .. d : data[k] = t[4 + k]
    /\ w = Crc(SubSeq(t, 1, 4 + d), {}) /\ \A i \in 1 .. 4 : WordBytes(w)[i] = t[4 + d + i]

\* The bytes taken, when they end with their CRC, are a frame.
LEMMA WholeFrame ==
  ASSUME NEW t \in Seq(Byte), NEW d \in Nat, NEW data \in Seq(Byte), NEW header, NEW w,
         Completed(t, d, data, header, w)
  PROVE  t = Protected(header \o data)
  <1> DEFINE joined == header \o data
             start == SubSeq(t, 1, 4 + d)
             frame == Protected(header \o data)
  <1> USE DEF Completed
  <1>1. t[1] \in Byte /\ t[2] \in Byte /\ t[3] \in Byte /\ t[4] \in Byte
    <2>1. 1 \in 1 .. Len(t) /\ 2 \in 1 .. Len(t) /\ 3 \in 1 .. Len(t) /\ 4 \in 1 .. Len(t)
      OBVIOUS
    <2> QED
      BY <2>1, ElementOfSeq
  <1>2. header \in Seq(Byte) /\ Len(header) = 4 /\ \A i \in 1 .. 4 : header[i] = t[i]
    BY <1>1
  <1>3. /\ joined \in Seq(Byte) /\ Len(joined) = 4 + d
        /\ \A i \in 1 .. 4 : joined[i] = header[i]
        /\ \A i \in 1 .. d : joined[4 + i] = data[i]
    BY <1>2
  <1> HIDE DEF joined
  <1>4. start = joined
    <2> DEFINE n == 4 + d
    <2>1. n \in Nat /\ n <= Len(t)
      OBVIOUS
    <2>2. start = SubSeq(t, 1, n)
      OBVIOUS
    <2> HIDE DEF n, start
    <2>3. start \in Seq(Byte) /\ Len(start) = n /\ \A i \in 1 .. n : start[i] = t[i]
      BY <2>1, <2>2
    <2>4. ASSUME NEW i \in 1 .. n PROVE start[i] = joined[i]
      <3>1. CASE i \in 1 .. 4
        BY <1>2, <1>3, <2>3, <3>1
      <3>2. CASE i \notin 1 .. 4
        <4>1. PICK k \in 1 .. d : 4 + k = i
          <5>1. i - 4 \in 1 .. d /\ 4 + (i - 4) = i
            BY <3>2 DEF n
          <5> QED
            BY <5>1
        <4> QED
          BY <1>3, <2>3, <4>1
      <3> QED
        BY <3>1, <3>2
    <2>5. Len(joined) = n
      BY <1>3 DEF n
    <2> QED
      BY <1>3, <2>3, <2>4, <2>5, SeqEqual
  <1>5. w = Crc(data, Crc(header, {}))
    <2>1. {} \in Word
      BY DEF Word
    <2>2. Crc(header \o data, {}) = Crc(data, Crc(header, {}))
      BY <1>2, <2>1, CrcChains
    <2> QED
      BY <1>4, <2>2 DEF joined
  <1>6. IsFrame(frame, 4, header, data)
    BY <1>2, FrameIs
  <1> HIDE DEF frame
  <1>7. /\ frame \in Seq(Byte) /\ Len(frame) = 4 + d + 4
        /\ \A i \in 1 .. 4 : frame[i] = header[i]
        /\ \A i \in 1 .. d : frame[4 + i] = data[i]
        /\ \A i \in 1 .. 4 : frame[4 + d + i] = WordBytes(w)[i]
    BY <1>5, <1>6 DEF IsFrame
  <1>8. ASSUME NEW i \in 1 .. Len(t) PROVE t[i] = frame[i]
    <2>1. CASE i \in 1 .. 4
      BY <1>2, <1>7, <2>1
    <2>2. CASE i \in 5 .. 4 + d
      <3>1. PICK k \in 1 .. d : 4 + k = i
        <4>1. i - 4 \in 1 .. d /\ 4 + (i - 4) = i
          BY <2>2
        <4> QED
          BY <4>1
      <3> QED
        BY <1>7, <3>1
    <2>3. CASE i \in 5 + d .. 8 + d
      <3>1. PICK k \in 1 .. 4 : (4 + d) + k = i
        <4>1. i - (4 + d) \in 1 .. 4 /\ (4 + d) + (i - (4 + d)) = i
          BY <2>3
        <4> QED
          BY <4>1
      <3> QED
        BY <1>7, <3>1
    <2> QED
      BY <2>1, <2>2, <2>3
  <1>9. Len(frame) = Len(t)
    BY <1>7
  <1>10. t = frame
    BY <1>7, <1>8, <1>9, SeqEqual
  <1> QED
    BY <1>10 DEF frame

\* The two bytes of a length that was read are those that a frame of it has.
LEMMA BytesOfLength ==
  ASSUME NEW q \in Byte, NEW e \in Byte, NEW n, n = 256 * q + e
  PROVE  BigEndian16(n) = <<q, e>>
  <1>1. n \div 256 = q /\ n % 256 = e
    BY DEF Byte
  <1> QED
    BY <1>1 DEF BigEndian16

Appended(new, old, v) ==
    /\ new \in Seq(Byte) /\ Len(new) = Len(old) + 1 /\ new[Len(old) + 1] = v
    /\ \A i \in 1 .. Len(old) : new[i] = old[i]

\* A sequence with one more byte.
LEMMA AppendedIs ==
  ASSUME NEW old \in Seq(Byte), NEW v \in Byte
  PROVE  Appended(Append(old, v), old, v)
  BY DEF Appended

\* One more byte of CRC.
Shifted(new, old, v) ==
    /\ new \in Seq(Byte) /\ Len(new) = 4 /\ new[4] = v
    /\ \A i \in 1 .. 3 : new[i] = old[i + 1]

\* The four last bytes, with one more.
LEMMA ShiftedIs ==
  ASSUME NEW old \in Seq(Byte), Len(old) = 4, NEW v \in Byte
  PROVE  Shifted(Append(Tail(old), v), old, v)
  <1> DEFINE rest == Tail(old)
             new == Append(rest, v)
  <1>1. rest \in Seq(Byte) /\ Len(rest) = 3 /\ \A i \in 1 .. 3 : rest[i] = old[i + 1]
    <2>1. old # <<>>
      OBVIOUS
    <2>2. rest \in Seq(Byte) /\ Len(rest) = Len(old) - 1 /\ \A i \in 1 .. Len(rest) : rest[i] = old[i + 1]
      BY <2>1, HeadTailProperties
    <2> HIDE DEF rest
    <2> QED
      BY <2>2
  <1> HIDE DEF rest
  <1>2. new \in Seq(Byte) /\ Len(new) = 4 /\ new[4] = v /\ \A i \in 1 .. 3 : new[i] = rest[i]
    <2>1. Appended(new, rest, v)
      BY <1>1, AppendedIs
    <2> HIDE DEF new
    <2> QED
      BY <1>1, <2>1 DEF Appended
  <1> HIDE DEF new
  <1> QED
    BY <1>1, <1>2 DEF Shifted, rest, new

\* What a byte of CRC does to the reception.
LEMMA CrcReceived ==
  ASSUME NEW r \in Receptions, NEW received \in Seq(Byte), NEW k \in Nat, NEW s \in {"WaitForCRC", "WaitForProcess"},
         NEW q \in BOOLEAN, NEW u,
         u = [r EXCEPT !.crc = received, !.count = k, !.state = s, !.request_received = q]
  PROVE  Moved(u, [r EXCEPT !.crc = received, !.request_received = q], r.m_crc, k, s)
  <1> DEFINE r1 == [r EXCEPT !.crc = received, !.request_received = q]
  <1>1. r1 \in Receptions /\ r1.m_crc = r.m_crc
    BY DEF Receptions
  <1>2. u = [r1 EXCEPT !.count = k, !.state = s]
    BY DEF Receptions
  <1> HIDE DEF r1
  <1>3. u \in Receptions
    BY <1>1, <1>2 DEF Receptions
  <1>4. /\ u.crc = r1.crc /\ u.request_received = r1.request_received /\ u.command = r1.command
        /\ u.subfunction = r1.subfunction /\ u.data_length = r1.data_length /\ u.m_crc = r1.m_crc
    BY <1>1, <1>2 DEF Receptions
  <1>5. u.count = k /\ u.state = s
    BY <1>1, <1>2 DEF Receptions
  <1> QED
    BY <1>1, <1>3, <1>4, <1>5 DEF Moved, r1

\* A byte of CRC: one of the first three, or the one that ends the frame.
LEMMA CrcParses ==
  ASSUME ParseInv, ReadCrc
  PROVE  ParseInv'
  <1>0. PICK v, d, c : v = chunk[1].value /\ d = rx.data_length /\ c = rx.count
    OBVIOUS
  <1>00. PICK received : received = Append(Tail(rx.crc), v)
    OBVIOUS
  <1>1. /\ ParseTypes /\ chunk # <<>> /\ rx \in Receptions /\ rx.crc \in Seq(Byte) /\ Len(rx.crc) = 4
        /\ taken \in Seq(Byte) /\ rx_buffer \in [0 .. RxBufferSize - 1 -> Byte]
        /\ ~rx.request_received /\ AtCrc
    BY DEF ParseInv, ParseTypes, Parsing, ReadCrc, Reading, AtCommand, AtSubfunction, AtLength, AtData,
           AtCrc, AtError, Receptions
  <1>2. /\ wire' = wire /\ wire \in Seq(WireBytes) /\ v \in Byte /\ d \in Nat /\ rx_buffer' = rx_buffer
        /\ RxBufferSize \in Nat /\ rx.command \in 0 .. 127 /\ rx.subfunction \in Byte
    BY <1>0, <1>1, NextByte, BuffersAssumption DEF ReadCrc, Outside, Receptions, ParseTypes
  <1>3. /\ c \in 0 .. 3 /\ Len(taken) = (4 + d) + c /\ HeaderTaken /\ Stored(d) /\ rx.state = "WaitForCRC"
        /\ rx.m_crc = Crc(SubSeq(taken, 1, 4 + d), {})
        /\ \A i \in 1 .. c : rx.crc[4 - c + i] = taken[4 + d + i]
    BY <1>0, <1>1 DEF AtCrc
  <1>4. chunk' \in Seq(WireBytes)
    <2>1. chunk \in Seq(WireBytes) /\ chunk' = Tail(chunk)
      BY <1>1 DEF ReadCrc, ParseTypes
    <2> QED
      BY <1>1, <2>1, HeadTailProperties
  <1>5. Shifted(received, rx.crc, v)
    BY <1>00, <1>1, <1>2, ShiftedIs
  <1>6. \/ /\ c < 3 /\ rx' = [rx EXCEPT !.crc = received, !.count = c + 1] /\ taken' = Append(taken, v)
        \/ /\ c = 3 /\ taken' = Append(taken, v) /\ received = WordBytes(rx.m_crc)
           /\ rx' = [rx EXCEPT !.crc = received, !.count = 4, !.state = "WaitForProcess",
                               !.request_received = TRUE]
        \/ rx' = NoReception /\ taken' = <<>>
    BY <1>0, <1>00, <1>3 DEF ReadCrc, CrcMatches, ResetRx
  <1>7. CASE rx' = NoReception /\ taken' = <<>>
    BY <1>1, <1>2, <1>4, <1>7, ResetParses
  <1>8. ASSUME taken' = Append(taken, v)
        PROVE  /\ taken' \in Seq(Byte) /\ Len(taken') = (4 + d) + (c + 1)
               /\ taken'[1] = taken[1] /\ taken'[2] = taken[2] /\ taken'[3] = taken[3] /\ taken'[4] = taken[4]
               /\ Stored(d)'
               /\ SubSeq(taken', 1, 4 + d) = SubSeq(taken, 1, 4 + d)
               /\ \A i \in 1 .. c + 1 : received[4 - (c + 1) + i] = taken'[4 + d + i]
    <2>1. Appended(taken', taken, v)
      BY <1>1, <1>2, <1>8, AppendedIs
    <2>2. PICK l \in Nat : l = (4 + d) + c
      BY <1>2, <1>3
    <2>3. /\ taken' \in Seq(Byte) /\ Len(taken') = l + 1 /\ taken'[l + 1] = v
          /\ \A i \in 1 .. l : taken'[i] = taken[i]
      BY <1>3, <2>1, <2>2 DEF Appended
    <2>4. 1 \in 1 .. l /\ 2 \in 1 .. l /\ 3 \in 1 .. l /\ 4 \in 1 .. l
      BY <1>2, <1>3, <2>2
    <2>5. Stored(d)'
      <3>1. \A k \in 1 .. d : taken'[4 + k] = taken[4 + k]
        <4> SUFFICES ASSUME NEW k \in 1 .. d PROVE taken'[4 + k] = taken[4 + k]
          OBVIOUS
        <4>1. 4 + k \in 1 .. l
          BY <1>2, <1>3, <2>2
        <4> QED
          BY <2>3, <4>1
      <3> QED
        BY <1>2, <1>3, <3>1 DEF Stored
    <2>6. SubSeq(taken', 1, 4 + d) = SubSeq(taken, 1, 4 + d)
      <3>1. PICK n \in Nat : n = 4 + d
        BY <1>2
      <3> DEFINE new == SubSeq(taken', 1, n)
                 old == SubSeq(taken, 1, n)
      <3>2. n <= l
        BY <1>2, <1>3, <2>2, <3>1
      <3>3. old \in Seq(Byte) /\ Len(old) = n /\ \A i \in 1 .. n : old[i] = taken[i]
        <4>1. n <= Len(taken)
          BY <1>3, <2>2, <3>2
        <4> QED
          BY <1>1, <4>1
      <3>4. new \in Seq(Byte) /\ Len(new) = n /\ \A i \in 1 .. n : new[i] = taken'[i]
        <4>1. PICK t \in Seq(Byte) : t = taken'
          BY <2>3
        <4>2. n <= Len(t)
          BY <2>3, <3>2, <4>1
        <4>3. /\ SubSeq(t, 1, n) \in Seq(Byte) /\ Len(SubSeq(t, 1, n)) = n
              /\ \A i \in 1 .. n : SubSeq(t, 1, n)[i] = t[i]
          BY <4>2
        <4> QED
          BY <4>1, <4>3
      <3> HIDE DEF new, old
      <3>5. ASSUME NEW i \in 1 .. n PROVE new[i] = old[i]
        <4>1. i \in 1 .. l
          BY <3>2
        <4> QED
          BY <2>3, <3>3, <3>4, <4>1
      <3>6. new = old
        BY <3>3, <3>4, <3>5, SeqEqual
      <3> QED
        BY <3>1, <3>6 DEF new, old
    <2>7. ASSUME NEW i \in 1 .. c + 1
          PROVE  received[4 - (c + 1) + i] = taken'[4 + d + i]
      <3>1. CASE i = c + 1
        <4>1. 4 - (c + 1) + i = 4 /\ 4 + d + i = l + 1
          BY <1>2, <1>3, <2>2, <3>1
        <4> QED
          BY <1>5, <2>3, <4>1 DEF Shifted
      <3>2. CASE i # c + 1
        <4>1. PICK j \in 1 .. 3 : j = 4 - (c + 1) + i /\ j + 1 = 4 - c + i
          <5>1. 4 - (c + 1) + i \in 1 .. 3 /\ 4 - (c + 1) + i + 1 = 4 - c + i
            BY <1>3, <3>2
          <5> QED
            BY <5>1
        <4>2. i \in 1 .. c
          BY <1>3, <3>2
        <4>3. received[j] = rx.crc[j + 1]
          BY <1>5 DEF Shifted
        <4>4. rx.crc[4 - c + i] = taken[4 + d + i]
          BY <1>3, <4>2
        <4>5. PICK k \in 1 .. l : k = 4 + d + i
          <5>1. 4 + d + i \in 1 .. l
            BY <1>2, <1>3, <2>2, <4>2
          <5> QED
            BY <5>1
        <4>6. taken'[k] = taken[k]
          BY <2>3
        <4> QED
          BY <4>1, <4>3, <4>4, <4>5, <4>6
      <3> QED
        BY <3>1, <3>2
    <2>8. Len(taken') = (4 + d) + (c + 1)
      BY <1>2, <1>3, <2>2, <2>3
    <2> QED
      BY <2>3, <2>4, <2>5, <2>6, <2>7, <2>8
  <1>9. CASE c < 3 /\ rx' = [rx EXCEPT !.crc = received, !.count = c + 1] /\ taken' = Append(taken, v)
    <2>1. PICK k \in Nat : k = c + 1 /\ k \in 0 .. 3
      BY <1>3, <1>9
    <2>2. rx' = [rx EXCEPT !.crc = received, !.count = k] /\ received \in Seq(Byte) /\ Len(received) = 4
      BY <1>5, <1>9, <2>1 DEF Shifted
    <2>3. rx' \in Receptions
      BY <1>1, <2>1, <2>2 DEF Receptions
    <2>4. /\ rx'.crc = received /\ rx'.count = k /\ rx'.state = "WaitForCRC" /\ ~rx'.request_received
          /\ rx'.data_length = rx.data_length
      BY <1>1, <1>3, <2>2 DEF Receptions
    <2>5. rx'.command = rx.command /\ rx'.subfunction = rx.subfunction /\ rx'.m_crc = rx.m_crc
      BY <1>1, <2>2 DEF Receptions
    <2>6. ParseTypes'
      BY <1>1, <1>2, <1>4, <1>8, <1>9, <2>2, <2>3, <2>4 DEF ParseTypes
    <2>7. HeaderTaken'
      BY <1>3, <1>8, <1>9, <2>4, <2>5 DEF HeaderTaken, TakenLength
    <2>8. Stored(rx.data_length)'
      <3>1. rx.data_length' = d
        BY <1>0, <2>4
      <3> QED
        BY <1>8, <1>9, <3>1 DEF Stored
    <2>9. rx'.m_crc = Crc(SubSeq(taken', 1, 4 + rx'.data_length), {})
      BY <1>0, <1>3, <1>8, <1>9, <2>4, <2>5
    <2>10. Len(taken') = (4 + rx'.data_length) + rx'.count
      BY <1>0, <1>8, <1>9, <2>1, <2>4
    <2>11. \A i \in 1 .. rx'.count : rx'.crc[4 - rx'.count + i] = taken'[4 + rx'.data_length + i]
      BY <1>0, <1>8, <1>9, <2>1, <2>4
    <2>12. AtCrc'
      BY <2>1, <2>4, <2>7, <2>8, <2>9, <2>10, <2>11 DEF AtCrc
    <2> QED
      BY <2>4, <2>6, <2>12 DEF ParseInv, Parsing
  <1>10. CASE /\ c = 3 /\ taken' = Append(taken, v) /\ received = WordBytes(rx.m_crc)
              /\ rx' = [rx EXCEPT !.crc = received, !.count = 4, !.state = "WaitForProcess",
                                  !.request_received = TRUE]
    <2>1. received \in Seq(Byte) /\ Len(received) = 4
      BY <1>5 DEF Shifted
    <2>2. PICK k \in Nat, q \in BOOLEAN, s \in {"WaitForCRC", "WaitForProcess"} :
             k = 4 /\ q = TRUE /\ s = "WaitForProcess"
      OBVIOUS
    <2>3. rx' = [rx EXCEPT !.crc = received, !.count = k, !.state = s, !.request_received = q]
      BY <1>10, <2>2
    <2>4. Moved(rx', [rx EXCEPT !.crc = received, !.request_received = q], rx.m_crc, k, s)
      BY <1>1, <2>1, <2>2, <2>3, CrcReceived
    <2>5. /\ rx' \in Receptions /\ rx'.crc = received /\ rx'.request_received /\ rx'.command = rx.command
          /\ rx'.subfunction = rx.subfunction /\ rx'.data_length = d /\ rx'.state = "WaitForProcess"
      BY <1>0, <1>1, <2>2, <2>4 DEF Moved, Receptions
    <2>6. ParseTypes'
      BY <1>1, <1>2, <1>4, <1>8, <1>10, <2>1, <2>5 DEF ParseTypes
    <2>7. HeaderTaken'
      <3>1. rx'.data_length = rx.data_length /\ rx'.command = rx.command /\ rx'.subfunction = rx.subfunction
        BY <1>0, <2>5
      <3> QED
        BY <1>3, <1>8, <1>10, <3>1 DEF HeaderTaken, TakenLength
    <2>8. PICK t \in Seq(Byte) : t = taken'
      BY <1>8, <1>10
    <2>9. Len(t) = 8 + d
      BY <1>2, <1>8, <1>10, <2>8
    <2> DEFINE data == [i \in 1 .. d |-> rx_buffer[i - 1]]
               header == <<t[1], t[2], t[3], t[4]>>
    <2>10. data \in Seq(Byte) /\ Len(data) = d /\ \A i \in 1 .. d : data[i] = t[4 + i]
      <3>1. d <= RxBufferSize /\ \A i \in 1 .. d : rx_buffer[i - 1] = t[4 + i]
        BY <1>2, <1>8, <1>10, <2>8 DEF Stored
      <3>2. \A i \in 1 .. d : data[i] = rx_buffer[i - 1] /\ rx_buffer[i - 1] \in Byte
        <4> SUFFICES ASSUME NEW i \in 1 .. d PROVE rx_buffer[i - 1] \in Byte
          OBVIOUS
        <4>1. i - 1 \in 0 .. RxBufferSize - 1
          BY <1>2, <3>1
        <4> QED
          BY <1>1, <4>1
      <3>3. data \in [1 .. d -> Byte] /\ DOMAIN data = 1 .. d
        BY <3>2
      <3> HIDE DEF data
      <3>4. data \in Seq(Byte)
        BY <1>2, <3>3, SeqDef
      <3>5. Len(data) = d
        BY <1>2, <3>3, <3>4, LenProperties
      <3> QED
        BY <3>1, <3>2, <3>4, <3>5
    <2> HIDE DEF data
    <2>11. PICK w : w = rx.m_crc
      OBVIOUS
    <2>12. w = Crc(SubSeq(t, 1, 4 + d), {}) /\ \A i \in 1 .. 4 : WordBytes(w)[i] = t[4 + d + i]
      <3>1. \A i \in 1 .. c + 1 : received[4 - (c + 1) + i] = t[4 + d + i]
        BY <1>8, <1>10, <2>8
      <3>2. \A i \in 1 .. 4 : i \in 1 .. c + 1 /\ 4 - (c + 1) + i = i
        BY <1>10
      <3>3. w = Crc(SubSeq(t, 1, 4 + d), {})
        BY <1>3, <1>8, <1>10, <2>8, <2>11
      <3> QED
        BY <1>10, <2>11, <3>1, <3>2, <3>3
    <2>13. t = Protected(header \o data)
      <3>1. header = <<t[1], t[2], t[3], t[4]>>
        OBVIOUS
      <3> HIDE DEF header
      <3> QED
        <4>1. Completed(t, d, data, header, w)
          BY <2>9, <2>10, <2>12, <3>1 DEF Completed
        <4> QED
          BY <1>2, <2>10, <4>1, WholeFrame
    <2>14. BigEndian16(d) = <<t[3], t[4]>>
      <3>1. 3 \in 1 .. Len(t) /\ 4 \in 1 .. Len(t)
        BY <1>2, <2>9
      <3>2. t[3] \in Byte /\ t[4] \in Byte
        BY <3>1, ElementOfSeq
      <3>3. d = 256 * t[3] + t[4]
        BY <2>5, <2>7, <2>8 DEF HeaderTaken, TakenLength
      <3> QED
        BY <3>2, <3>3, BytesOfLength
    <2>15. <<t[1], t[2]>> \o <<t[3], t[4]>> = header
      <3>1. PICK b1, b2, b3, b4 : b1 = t[1] /\ b2 = t[2] /\ b3 = t[3] /\ b4 = t[4]
        OBVIOUS
      <3>2. <<b1, b2>> \o <<b3, b4>> = <<b1, b2, b3, b4>>
        BY FourBytes
      <3> QED
        BY <3>1, <3>2
    <2>16. ActiveRequest' = [command |-> t[1], subfunction |-> t[2], data |-> data]
      BY <1>2, <2>5, <2>7, <2>8 DEF ActiveRequest, HeaderTaken, data
    <2>17. RequestFrame([command |-> t[1], subfunction |-> t[2], data |-> data]) = t
      BY <2>10, <2>13, <2>14, <2>15 DEF RequestFrame
    <2>18. taken' = RequestFrame(ActiveRequest')
      BY <2>8, <2>16, <2>17
    <2>19. RequestFrame(ActiveRequest)' = RequestFrame(ActiveRequest')
      BY DEF RequestFrame, Protected
    <2>20. AtProcess'
      BY <2>5, <2>7, <2>8, <2>9, <2>18, <2>19 DEF AtProcess
    <2> QED
      BY <2>5, <2>6, <2>20 DEF ParseInv, Parsing
  <1> QED
    BY <1>6, <1>7, <1>9, <1>10

\* ParseInv is inductive.
LEMMA ParseStep ==
  ASSUME ParseInv, [Next]_vars
  PROVE  ParseInv'
  <1>0. chunk \in Seq(WireBytes) /\ wire \in Seq(WireBytes) /\ <<>> \in Seq(WireBytes)
    BY DEF ParseInv, ParseTypes
  <1>1. ASSUME NEW b \in Bursts, SendBurst(b)
        PROVE  ParseInv'
    <2>1. b \in Seq(WireBytes)
      BY BurstsAssumption
    <2>2. chunk' = chunk /\ wire' = b /\ rx' = rx /\ taken' = taken /\ rx_buffer' = rx_buffer
      BY <1>1 DEF SendBurst, receiver
    <2> QED
      BY <1>0, <2>1, <2>2, StillParsing
  <1>2. ASSUME NEW n \in ChunkSizes, ReceiveData(n)
        PROVE  ParseInv'
    <2>1. n \in Nat /\ n >= 1 /\ n <= Len(wire)
      BY <1>0, <1>2 DEF ReceiveData
    <2>2. SubSeq(wire, n + 1, Len(wire)) \in Seq(WireBytes) /\ SubSeq(wire, 1, n) \in Seq(WireBytes)
      BY <1>0, <2>1
    <2>3. /\ wire' \in Seq(WireBytes) /\ chunk' \in Seq(WireBytes) /\ rx_buffer' = rx_buffer
          /\ \/ rx' = rx /\ taken' = taken
             \/ rx' = NoReception /\ taken' = <<>>
      BY <1>0, <1>2, <2>2 DEF ReceiveData, receiver
    <2> QED
      BY <2>3, StillParsing, ResetParses DEF ParseInv
  <1>3. CASE ReadByte
    <2>1. CASE DropRest
      <3>1. chunk' = <<>> /\ wire' = wire /\ rx' = rx /\ taken' = taken /\ rx_buffer' = rx_buffer
        BY <2>1 DEF DropRest, receiver, Outside
      <3> QED
        BY <1>0, <3>1, StillParsing
    <2> QED
      BY <1>3, <2>1, CommandParses, SubfunctionParses, LengthParses, DataParses, CrcParses DEF ReadByte
  <1>4. ASSUME NEW r \in Responses, Serve(r)
        PROVE  ParseInv'
    <2>1. /\ wire' = wire /\ chunk' = chunk /\ rx_buffer' = rx_buffer
          /\ \/ rx' = rx /\ taken' = taken
             \/ rx' = NoReception /\ taken' = <<>>
      BY <1>4 DEF Serve, ResetRx
    <2> QED
      BY <1>0, <2>1, StillParsing, ResetParses DEF ParseInv
  <1>5. ASSUME NEW n \in PopSizes, PopData(n)
        PROVE  ParseInv'
    <2>1. /\ wire' = wire /\ chunk' = chunk /\ rx_buffer' = rx_buffer
          /\ \/ rx' = rx /\ taken' = taken
             \/ rx' = NoReception /\ taken' = <<>>
      BY <1>5 DEF PopData, ResetRx
    <2> QED
      BY <1>0, <2>1, StillParsing, ResetParses DEF ParseInv
  <1>6. CASE Expire
    <2>1. wire' = wire /\ chunk' = chunk /\ rx_buffer' = rx_buffer /\ rx' = NoReception /\ taken' = <<>>
      BY <1>6 DEF Expire, ResetRx
    <2> QED
      BY <1>0, <2>1, ResetParses DEF ParseInv
  <1>7. ASSUME NEW dt \in Timesteps, Tick(dt)
        PROVE  ParseInv'
    <2>1. wire' = wire /\ chunk' = chunk /\ rx_buffer' = rx_buffer /\ rx' = rx /\ taken' = taken
      BY <1>7 DEF Tick, receiver
    <2> QED
      BY <1>0, <2>1, StillParsing
  <1>8. CASE UNCHANGED vars
    <2>1. wire' = wire /\ chunk' = chunk /\ rx_buffer' = rx_buffer /\ rx' = rx /\ taken' = taken
      BY <1>8 DEF vars, receiver
    <2> QED
      BY <1>0, <2>1, StillParsing
  <1> QED
    BY <1>1, <1>2, <1>3, <1>4, <1>5, <1>6, <1>7, <1>8 DEF Next, Send, Receive, DoServe, Pop, DoTick

\* A device that has received nothing parses.
LEMMA ParseInit == Init => ParseInv
  <1> SUFFICES ASSUME Init PROVE ParseInv
    OBVIOUS
  <1>1. rx = NoReception /\ rx.state = "WaitForCommand" /\ ~rx.request_received
    BY DEF Init, NoReception
  <1>2. rx_buffer \in [0 .. RxBufferSize - 1 -> Byte]
    <2>1. 0 \in Byte
      BY DEF Byte
    <2> QED
      BY <2>1 DEF Init
  <1>3. chunk \in Seq(WireBytes) /\ wire \in Seq(WireBytes) /\ taken \in Seq(Byte) /\ taken = <<>>
    BY DEF Init
  <1> QED
    BY <1>1, <1>2, <1>3, NoReceptionIs DEF ParseInv, ParseTypes, Parsing, AtCommand

\* The state of the reception is the one its bytes call for.
LEMMA ParsedState ==
  ASSUME ParseInv, rx.state # "Error"
  PROVE  rx.state = ReferenceState
  <1>1. PICK n \in Nat : n = Len(taken)
    BY DEF ParseInv, ParseTypes
  <1>2. ReferenceState =
          CASE n = 0 -> "WaitForCommand"
            [] n = 1 -> "WaitForSubfunction"
            [] n \in 2 .. 3 -> "WaitForLength"
            [] n >= 4 /\ n < 4 + TakenLength -> "WaitForData"
            [] n >= 4 /\ n \in 4 + TakenLength .. 7 + TakenLength -> "WaitForCRC"
            [] n >= 4 /\ n = 8 + TakenLength -> "WaitForProcess"
    BY <1>1 DEF ReferenceState
  <1>3. rx.data_length \in Nat /\ rx.count \in Nat
    BY DEF ParseInv, ParseTypes, Receptions
  <1>4. CASE AtCommand
    BY <1>1, <1>2, <1>4 DEF AtCommand
  <1>5. CASE AtSubfunction
    BY <1>1, <1>2, <1>5 DEF AtSubfunction
  <1>6. CASE AtLength
    BY <1>1, <1>2, <1>3, <1>6 DEF AtLength
  <1>7. CASE AtData
    BY <1>1, <1>2, <1>3, <1>7 DEF AtData, HeaderTaken
  <1>8. CASE AtCrc
    BY <1>1, <1>2, <1>3, <1>8 DEF AtCrc, HeaderTaken
  <1>9. CASE AtProcess
    BY <1>1, <1>2, <1>3, <1>9 DEF AtProcess, HeaderTaken
  <1> QED
    BY <1>4, <1>5, <1>6, <1>7, <1>8, <1>9 DEF ParseInv, Parsing, AtError

\* The data and the running CRC of a reception in progress.
LEMMA ParsedData ==
  ASSUME ParseInv, rx.state \in {"WaitForData", "WaitForCRC"}, Len(taken) > 4,
         NEW l, l = IF Len(taken) < 4 + TakenLength THEN Len(taken) ELSE 4 + TakenLength,
         NEW part, part = SubSeq(taken, 1, l)
  PROVE  /\ TakenLength <= RxBufferSize
         /\ rx.m_crc = ReferenceCrc(part, {})
         /\ \A k \in 5 .. Len(part) : rx_buffer[k - 5] = taken[k]
  <1>1. /\ rx.data_length \in Nat /\ rx.count \in Nat /\ taken \in Seq(Byte) /\ Len(taken) \in Nat
        /\ RxBufferSize \in Nat
    BY BuffersAssumption DEF ParseInv, ParseTypes, Receptions
  <1>2. AtData \/ AtCrc
    BY DEF ParseInv, Parsing, AtCommand, AtSubfunction, AtLength, AtError, AtProcess
  <1>3. TakenLength = rx.data_length
    BY <1>2 DEF AtData, AtCrc, HeaderTaken
  <1>4. PICK m \in Nat : l = 4 + m /\ Stored(m) /\ m <= rx.data_length
    <2>1. CASE AtData
      <3>1. l = 4 + rx.count /\ Stored(rx.count) /\ rx.count <= rx.data_length
        BY <1>1, <1>3, <2>1 DEF AtData
      <3> QED
        BY <1>1, <3>1
    <2>2. CASE AtCrc
      <3>1. l = 4 + rx.data_length /\ Stored(rx.data_length)
        BY <1>1, <1>3, <2>2 DEF AtCrc
      <3> QED
        BY <1>1, <3>1
    <2> QED
      BY <1>2, <2>1, <2>2
  <1>5. TakenLength <= RxBufferSize
    BY <1>1, <1>2, <1>3 DEF AtData, AtCrc, Stored
  <1>6. l \in Nat /\ l <= Len(taken)
    BY <1>1, <1>3, <1>4
  <1>7. part \in Seq(Byte) /\ Len(part) = l
    BY <1>1, <1>6
  <1>8. rx.m_crc = Crc(part, {})
    <2>1. CASE AtData
      <3>1. l = Len(taken)
        BY <1>1, <1>3, <2>1 DEF AtData
      <3>2. part = taken
        BY <1>1, <3>1, SubSeqFull
      <3> QED
        BY <2>1, <3>2 DEF AtData
    <2>2. CASE AtCrc
      <3>1. l = 4 + rx.data_length
        BY <1>1, <1>3, <2>2 DEF AtCrc
      <3> QED
        BY <2>2, <3>1 DEF AtCrc
    <2> QED
      BY <1>2, <2>1, <2>2
  <1>9. Crc(part, {}) = ReferenceCrc(part, {})
    <2>1. {} \in Word
      BY DEF Word
    <2> QED
      BY <1>7, <2>1, CrcIsReference
  <1>10. ASSUME NEW k \in 5 .. Len(part) PROVE rx_buffer[k - 5] = taken[k]
    <2>1. PICK i \in 1 .. m : i = k - 4 /\ i - 1 = k - 5 /\ 4 + i = k
      <3>1. k - 4 \in 1 .. m /\ (k - 4) - 1 = k - 5 /\ 4 + (k - 4) = k
        BY <1>4, <1>7
      <3> QED
        BY <3>1
    <2>2. rx_buffer[i - 1] = taken[4 + i]
      BY <1>4 DEF Stored
    <2> QED
      BY <2>1, <2>2
  <1> QED
    BY <1>5, <1>8, <1>9, <1>10

\* ParseInv says more than the property.
LEMMA ParsesAre ==
  ASSUME ParseInv
  PROVE  ReceptionIsParse
  <1>1. rx.state = "Error" => Len(taken) = 0 \/ (Len(taken) = 4 /\ TakenLength > RxBufferSize)
    BY DEF ParseInv, Parsing, AtError, AtCommand, AtSubfunction, AtLength, AtData, AtCrc, AtProcess
  <1>2. rx.state # "Error" => rx.state = ReferenceState
    BY ParsedState
  <1>3. rx.request_received <=> rx.state = "WaitForProcess"
    BY DEF ParseInv, Parsing, AtError, AtCommand, AtSubfunction, AtLength, AtData, AtCrc, AtProcess
  <1>4. rx.request_received => taken = RequestFrame(ActiveRequest)
    BY DEF ParseInv, Parsing, AtProcess
  <1>5. ASSUME rx.state \in {"WaitForData", "WaitForCRC"}, Len(taken) > 4
        PROVE  LET part == SubSeq(taken, 1, IF Len(taken) < 4 + TakenLength THEN Len(taken)
                                            ELSE 4 + TakenLength)
               IN /\ TakenLength <= RxBufferSize
                  /\ rx.m_crc = ReferenceCrc(part, {})
                  /\ \A k \in 5 .. Len(part) : rx_buffer[k - 5] = taken[k]
    <2>1. PICK l : l = IF Len(taken) < 4 + TakenLength THEN Len(taken) ELSE 4 + TakenLength
      OBVIOUS
    <2>2. PICK part : part = SubSeq(taken, 1, l)
      OBVIOUS
    <2> QED
      BY <1>5, <2>1, <2>2, ParsedData
  <1> QED
    BY <1>1, <1>2, <1>3, <1>4, <1>5 DEF ReceptionIsParse

\* However receive_data() is cut, what it keeps between two calls (state, counters, buffer,
\* running CRC) is the parse of the bytes taken since the frame began: a request that is
\* given to process() is one whose frame, with its CRC, was taken whole.
THEOREM ReceptionParses == Spec => []ReceptionIsParse
  <1>1. ParseInv /\ [Next]_vars => ParseInv'
    BY ParseStep
  <1> QED
    BY <1>1, ParseInit, ParsesAre, PTL DEF Spec

-----------------------------------------------------------------------------
(* What is heard after a silence *)

\* Since the last byte, unless the reception was reset or a response is transmitted, the
\* clock has counted the silence.
SilenceInv ==
    /\ now \in Times /\ last_rx_timestamp \in Times /\ silence \in Nat
    /\ \/ rx = NoReception /\ taken = <<>>
       \/ state = "Transmitting"
       \/ silence < ClockModulus => Elapsed(now, last_rx_timestamp) = silence
    /\ chunk # <<>> => last_rx_timestamp = now /\ silence = 0

\* The k first bytes of the burst are a request that the device, as it is, accepts.
Acceptable(k) ==
    LET r == burst[k].ends IN
    /\ r # NoRequest /\ Len(r.data) <= RxBufferSize
    /\ Values(SubSeq(burst, 1, k)) = RequestFrame(r)
    /\ session_active \/ AcceptedWithoutSession(r)

\* How many bytes of the burst were given to receive_data(), and how many it looked at.
Given == Len(burst) - Len(wire)
LookedAt == Given - Len(chunk)

\* The reception has taken the bytes of the burst looked at, or holds its first request, or
\* the burst does not begin with a request that it can accept.
OnBurst == /\ ~rx.request_received /\ rx.state # "Error"
           /\ taken = Values(SubSeq(burst, 1, LookedAt))
HeldFromBurst == /\ rx.request_received /\ Len(taken) <= Len(burst)
                 /\ taken = Values(SubSeq(burst, 1, Len(taken)))
Hopeless == \A k \in 1 .. Len(burst) : ~Acceptable(k)

\* A burst that came after a silence is followed: what is left of it is in the chunk and on
\* the wire, and the reception is at the bytes looked at.
FollowInv ==
    /\ burst \in Seq(WireBytes) /\ fresh \in BOOLEAN /\ session_active \in BOOLEAN
    /\ fresh => /\ state # "Transmitting"
                /\ Len(chunk) + Len(wire) <= Len(burst) /\ Len(wire) < Len(burst)
                /\ wire = SubSeq(burst, Given + 1, Len(burst))
                /\ chunk = SubSeq(burst, LookedAt + 1, Given)
                /\ OnBurst \/ HeldFromBurst \/ Hopeless

\* The inductive invariant.
HearInv == Quiet /\ ParseInv /\ SilenceInv /\ FollowInv

\* The parts of the frame of a request.
Frames(frame, r, l) ==
    /\ frame \in Seq(Byte) /\ Len(frame) = 8 + l
    /\ frame[1] = r.command /\ frame[2] = r.subfunction /\ 256 * frame[3] + frame[4] = l
    /\ \A i \in 1 .. l : frame[4 + i] = r.data[i]
    /\ \A i \in 1 .. 4 : frame[4 + l + i] = WordBytes(Crc(SubSeq(frame, 1, 4 + l), {}))[i]

\* Two sequences of bytes put together.
Joins(joined, a, b) ==
    /\ joined \in Seq(Byte) /\ Len(joined) = Len(a) + Len(b)
    /\ \A i \in 1 .. Len(a) : joined[i] = a[i]
    /\ \A i \in 1 .. Len(b) : joined[Len(a) + i] = b[i]

\* One sequence of bytes after the other.
LEMMA JoinsIs ==
  ASSUME NEW a \in Seq(Byte), NEW b \in Seq(Byte)
  PROVE  Joins(a \o b, a, b)
  BY DEF Joins

\* A request that fits the buffer has such a frame.
LEMMA RequestIs ==
  ASSUME NEW r \in Requests, Len(r.data) <= RxBufferSize
  PROVE  Frames(RequestFrame(r), r, Len(r.data))
  <1>1. PICK c, s, data : c = r.command /\ s = r.subfunction /\ data = r.data
    OBVIOUS
  <1>2. c \in 0 .. 127 /\ c \in Byte /\ s \in Byte /\ data \in Seq(Byte)
    <2>1. c \in 0 .. 127 /\ s \in Byte /\ data \in Seq(Byte)
      BY <1>1 DEF Requests
    <2> QED
      BY <2>1 DEF Byte
  <1>3. PICK l \in Nat : l = Len(data) /\ l < 65536
    BY <1>1, <1>2, BuffersAssumption
  <1>4. PICK q \in Byte, e \in Byte : q = l \div 256 /\ e = l % 256 /\ l = 256 * q + e
    BY <1>3, TwoBytes
  <1>5. PICK header : header = <<c, s, q, e>>
    OBVIOUS
  <1>6. header \in Seq(Byte) /\ Len(header) = 4
    BY <1>2, <1>4, <1>5
  <1>7. header[1] = c /\ header[2] = s /\ header[3] = q /\ header[4] = e
    BY <1>5
  <1>8. PICK frame : frame = RequestFrame(r)
    OBVIOUS
  <1>9. frame = Protected(header \o data)
    <2>1. <<c, s>> \o <<q, e>> = header
      BY <1>5, FourBytes
    <2>2. BigEndian16(l) = <<q, e>>
      BY <1>4 DEF BigEndian16
    <2> QED
      <3>1. <<r.command, r.subfunction>> \o BigEndian16(Len(r.data)) = header
        BY <1>1, <1>3, <2>1, <2>2
      <3>2. RequestFrame(r) = Protected(header \o r.data)
        BY <3>1 DEF RequestFrame
      <3> QED
        BY <1>1, <1>8, <3>2
  <1>10. IsFrame(frame, 4, header, data)
    BY <1>2, <1>6, <1>9, FrameIs
  <1>11. /\ frame \in Seq(Byte) /\ Len(frame) = 8 + l
         /\ \A i \in 1 .. 4 : frame[i] = header[i]
         /\ \A i \in 1 .. l : frame[4 + i] = data[i]
         /\ \A i \in 1 .. 4 : frame[4 + l + i] = WordBytes(Crc(data, Crc(header, {})))[i]
    BY <1>3, <1>10 DEF IsFrame
  <1>12. Crc(SubSeq(frame, 1, 4 + l), {}) = Crc(data, Crc(header, {}))
    <2>1. PICK n \in Nat : n = 4 + l
      OBVIOUS
    <2> DEFINE start == SubSeq(frame, 1, n)
               joined == header \o data
    <2>2. n <= Len(frame)
      BY <1>11, <2>1
    <2>3. start \in Seq(Byte) /\ Len(start) = n /\ \A i \in 1 .. n : start[i] = frame[i]
      BY <1>11, <2>2
    <2>4. /\ joined \in Seq(Byte) /\ Len(joined) = 4 + l
          /\ \A i \in 1 .. 4 : joined[i] = header[i]
          /\ \A i \in 1 .. l : joined[4 + i] = data[i]
      <3>1. header \in Seq(Byte) /\ data \in Seq(Byte) /\ Len(header) = 4 /\ Len(data) = l
        BY <1>2, <1>3, <1>6
      <3>2. Joins(header \o data, header, data)
        BY <3>1, JoinsIs
      <3> QED
        BY <3>1, <3>2 DEF Joins
    <2> HIDE DEF start, joined
    <2>5. ASSUME NEW i \in 1 .. n PROVE start[i] = joined[i]
      <3>1. CASE i \in 1 .. 4
        BY <1>11, <2>3, <2>4, <3>1
      <3>2. CASE i \notin 1 .. 4
        <4>1. PICK k \in 1 .. l : 4 + k = i
          <5>1. i - 4 \in 1 .. l /\ 4 + (i - 4) = i
            BY <2>1, <3>2
          <5> QED
            BY <5>1
        <4> QED
          BY <1>11, <2>3, <2>4, <4>1
      <3> QED
        BY <3>1, <3>2
    <2>6. start = joined
      BY <2>1, <2>3, <2>4, <2>5, SeqEqual
    <2>7. {} \in Word
      BY DEF Word
    <2>8. Crc(header \o data, {}) = Crc(data, Crc(header, {}))
      BY <1>2, <1>6, <2>7, CrcChains
    <2> QED
      BY <2>1, <2>6, <2>8 DEF start, joined
  <1>13. frame[1] = c /\ frame[2] = s /\ 256 * frame[3] + frame[4] = l
    <2>1. /\ frame[1] = header[1] /\ frame[2] = header[2] /\ frame[3] = header[3] /\ frame[4] = header[4]
      BY <1>11
    <2> QED
      BY <1>4, <1>7, <2>1
  <1>14. Frames(frame, r, l)
    BY <1>1, <1>11, <1>12, <1>13 DEF Frames
  <1> QED
    BY <1>1, <1>3, <1>8, <1>14

\* A prefix, element by element.
IsPrefix(part, b, k) ==
    part \in Seq(Byte) /\ Len(part) = k /\ \A i \in 1 .. k : part[i] = b[i]

\* The first bytes of a sequence.
LEMMA PrefixIs ==
  ASSUME NEW b \in Seq(Byte), NEW k \in Nat, k <= Len(b)
  PROVE  IsPrefix(SubSeq(b, 1, k), b, k)
  BY DEF IsPrefix

\* The first bytes of the first bytes.
LEMMA PrefixOfPrefix ==
  ASSUME NEW b \in Seq(Byte), NEW k \in Nat, k <= Len(b), NEW m \in Nat, m <= k
  PROVE  SubSeq(SubSeq(b, 1, k), 1, m) = SubSeq(b, 1, m)
  <1> DEFINE whole == SubSeq(b, 1, k)
             one == SubSeq(whole, 1, m)
             two == SubSeq(b, 1, m)
  <1>1. IsPrefix(whole, b, k) /\ m <= Len(b)
    BY PrefixIs
  <1>2. whole \in Seq(Byte) /\ Len(whole) = k
    BY <1>1 DEF IsPrefix
  <1> HIDE DEF whole
  <1>3. IsPrefix(one, whole, m)
    BY <1>2, PrefixIs
  <1>4. IsPrefix(two, b, m)
    BY <1>1, PrefixIs
  <1> HIDE DEF one, two
  <1>5. ASSUME NEW i \in 1 .. m PROVE one[i] = two[i]
    <2>1. i \in 1 .. k
      OBVIOUS
    <2> QED
      BY <1>1, <1>3, <1>4, <2>1 DEF IsPrefix
  <1>6. one = two
    BY <1>3, <1>4, <1>5, SeqEqual DEF IsPrefix
  <1> QED
    BY <1>6 DEF one, two, whole

\* The k first bytes are the frame of a request.
BeginsWith(b, k, r, l) ==
    /\ l = Len(r.data) /\ k = 8 + l
    /\ b[1] = r.command /\ b[2] = r.subfunction /\ 256 * b[3] + b[4] = l
    /\ \A i \in 1 .. l : b[4 + i] = r.data[i]
    /\ \A i \in 1 .. 4 : b[4 + l + i] = WordBytes(Crc(SubSeq(b, 1, 4 + l), {}))[i]

\* Bytes that begin with the frame of a request.
LEMMA BeginsWithIs ==
  ASSUME NEW b \in Seq(Byte), NEW r \in Requests, Len(r.data) <= RxBufferSize,
         NEW k \in 1 .. Len(b), SubSeq(b, 1, k) = RequestFrame(r)
  PROVE  \E l \in Nat : BeginsWith(b, k, r, l)
  <1>1. PICK l \in Nat : l = Len(r.data)
    BY DEF Requests
  <1>2. PICK frame : frame = SubSeq(b, 1, k)
    OBVIOUS
  <1>3. Frames(frame, r, l)
    BY <1>1, <1>2, RequestIs
  <1>4. /\ frame \in Seq(Byte) /\ Len(frame) = 8 + l
        /\ frame[1] = r.command /\ frame[2] = r.subfunction /\ 256 * frame[3] + frame[4] = l
        /\ \A i \in 1 .. l : frame[4 + i] = r.data[i]
        /\ \A i \in 1 .. 4 : frame[4 + l + i] = WordBytes(Crc(SubSeq(frame, 1, 4 + l), {}))[i]
    BY <1>3 DEF Frames
  <1>5. IsPrefix(frame, b, k)
    BY <1>2, PrefixIs
  <1>6. k = 8 + l /\ \A i \in 1 .. k : frame[i] = b[i]
    BY <1>4, <1>5 DEF IsPrefix
  <1>7. PICK n \in Nat : n = 4 + l
    OBVIOUS
  <1>8. SubSeq(frame, 1, n) = SubSeq(b, 1, n)
    BY <1>2, <1>6, <1>7, PrefixOfPrefix
  <1>9. frame[1] = b[1] /\ frame[2] = b[2] /\ frame[3] = b[3] /\ frame[4] = b[4]
    BY <1>6
  <1>10. \A i \in 1 .. l : b[4 + i] = r.data[i]
    <2> TAKE i \in 1 .. l
    <2>1. 4 + i \in 1 .. k
      BY <1>6
    <2> QED
      BY <1>4, <1>6, <2>1
  <1>11. \A i \in 1 .. 4 : b[4 + l + i] = WordBytes(Crc(SubSeq(b, 1, 4 + l), {}))[i]
    <2> TAKE i \in 1 .. 4
    <2>1. 4 + l + i \in 1 .. k
      BY <1>6
    <2>2. frame[4 + l + i] = b[4 + l + i]
      BY <1>6, <2>1
    <2>3. SubSeq(frame, 1, 4 + l) = SubSeq(b, 1, 4 + l)
      BY <1>7, <1>8
    <2>4. frame[4 + l + i] = WordBytes(Crc(SubSeq(frame, 1, 4 + l), {}))[i]
      BY <1>4
    <2> QED
      BY <2>2, <2>3, <2>4
  <1> QED
    BY <1>1, <1>4, <1>6, <1>9, <1>10, <1>11 DEF BeginsWith

\* Of the beginnings of some bytes, one at most is the frame of a request.
LEMMA OneFrame ==
  ASSUME NEW b \in Seq(Byte), NEW r \in Requests, NEW q \in Requests,
         NEW j, NEW k, NEW l \in Nat, NEW m \in Nat,
         BeginsWith(b, j, r, l), BeginsWith(b, k, q, m)
  PROVE  r = q
  <1>1. /\ r = [command |-> r.command, subfunction |-> r.subfunction, data |-> r.data]
        /\ q = [command |-> q.command, subfunction |-> q.subfunction, data |-> q.data]
        /\ r.data \in Seq(Byte) /\ q.data \in Seq(Byte)
    BY DEF Requests
  <1>2. l = m /\ r.command = q.command /\ r.subfunction = q.subfunction
    BY DEF BeginsWith
  <1>3. Len(r.data) = l /\ Len(q.data) = l
    BY <1>2 DEF BeginsWith
  <1>4. ASSUME NEW i \in 1 .. l PROVE r.data[i] = q.data[i]
    BY <1>2 DEF BeginsWith
  <1>5. r.data = q.data
    BY <1>1, <1>3, <1>4, SeqEqual
  <1> QED
    BY <1>1, <1>2, <1>5

\* Nothing elapsed since now.
LEMMA ElapsedNow == ASSUME NEW t \in Times PROVE Elapsed(t, t) = 0
  <1>1. t \in Nat /\ ClockModulus \in Nat \ {0} /\ t + ClockModulus - t = ClockModulus
    BY ModulusAssumption DEF Times
  <1>2. ClockModulus % ClockModulus = 0
    BY <1>1, SmallMod
  <1> QED
    BY <1>1, <1>2 DEF Elapsed

\* The clock counts a silence that is shorter than its period.
LEMMA ElapsedSteps ==
  ASSUME NEW t \in Times, NEW ts \in Times, NEW dt \in Nat,
         Elapsed(t, ts) + dt < ClockModulus
  PROVE  Elapsed(Step(t, dt), ts) = Elapsed(t, ts) + dt
  <1>1. PICK m \in Nat \ {0} : m = ClockModulus
    BY ModulusAssumption
  <1>2. t \in Nat /\ ts \in Nat /\ t < m /\ ts < m
    BY <1>1 DEF Times
  <1>3. PICK n \in Nat : n = t + m - ts /\ n > 0 /\ n < 2 * m
    BY <1>2
  <1>4. n % m = IF n < m THEN n ELSE n - m
    BY <1>3, SmallMod
  <1>5. Elapsed(t, ts) = n % m
    BY <1>1, <1>3 DEF Elapsed
  <1>6. PICK e \in Nat : e = Elapsed(t, ts) /\ e = (IF n < m THEN n ELSE n - m) /\ e + dt < m
    BY <1>1, <1>3, <1>4, <1>5
  <1>7. t + dt \in Nat /\ t + dt < 2 * m
    BY <1>2, <1>6
  <1>8. (t + dt) % m = IF t + dt < m THEN t + dt ELSE (t + dt) - m
    BY <1>7, SmallMod
  <1>9. PICK u \in Nat : u = Step(t, dt) /\ u = (IF t + dt < m THEN t + dt ELSE (t + dt) - m) /\ u < m
    BY <1>1, <1>7, <1>8 DEF Step
  <1>10. PICK k \in Nat : k = u + m - ts /\ k < 2 * m
    BY <1>2, <1>9
  <1>11. k % m = IF k < m THEN k ELSE k - m
    BY <1>10, SmallMod
  <1>12. Elapsed(Step(t, dt), ts) = k % m
    BY <1>1, <1>9, <1>10 DEF Elapsed
  <1>13. (IF k < m THEN k ELSE k - m) = e + dt
    BY <1>2, <1>3, <1>6, <1>9, <1>10
  <1> QED
    BY <1>6, <1>11, <1>12, <1>13

\* SilenceInv is inductive.
LEMMA SilenceStep ==
  ASSUME Quiet, SilenceInv, [Next]_vars
  PROVE  SilenceInv'
  <1>0. /\ now \in Times /\ last_rx_timestamp \in Times /\ silence \in Nat
        /\ chunk # <<>> => last_rx_timestamp = now /\ silence = 0 /\ state # "Transmitting"
    BY DEF SilenceInv, Quiet
  <1>1. ASSUME NEW b \in Bursts, SendBurst(b)
        PROVE  SilenceInv'
    BY <1>1 DEF SendBurst, receiver, SilenceInv
  <1>2. ASSUME NEW n \in ChunkSizes, ReceiveData(n)
        PROVE  SilenceInv'
    <2>1. now' = now /\ silence' = 0
      BY <1>2 DEF ReceiveData
    <2>2. CASE state = "Transmitting"
      <3>1. last_rx_timestamp' = last_rx_timestamp /\ state' = state /\ chunk' = <<>>
        BY <1>2, <2>2 DEF ReceiveData, receiver, Returned
      <3> QED
        BY <1>0, <2>1, <2>2, <3>1 DEF SilenceInv
    <2>3. CASE state # "Transmitting"
      <3>1. last_rx_timestamp' = now
        BY <1>2, <2>3 DEF ReceiveData
      <3>2. Elapsed(now', last_rx_timestamp') = silence'
        BY <1>0, <2>1, <3>1, ElapsedNow
      <3> QED
        BY <1>0, <2>1, <3>1, <3>2 DEF SilenceInv
    <2> QED
      BY <2>2, <2>3
  <1>3. CASE ReadByte
    <2>1. now' = now /\ silence' = silence
      BY <1>3 DEF ReadByte, ReadCommand, ReadSubfunction, ReadLength, ReadData, ReadCrc, DropRest, Outside, histories
    <2>2. chunk # <<>>
      BY <1>3 DEF ReadByte, ReadCommand, ReadSubfunction, ReadLength, ReadData, ReadCrc, DropRest, Reading
    <2>3. last_rx_timestamp' = now
      <3>1. CASE ReadCrc
        <4>1. last_rx_timestamp' = last_rx_timestamp \/ last_rx_timestamp' = now
          BY <3>1 DEF ReadCrc, ResetRx
        <4> QED
          BY <1>0, <2>2, <4>1
      <3>2. CASE ~ReadCrc
        <4>1. last_rx_timestamp' = last_rx_timestamp
          BY <1>3, <3>2 DEF ReadByte, ReadCommand, ReadSubfunction, ReadLength, ReadData, DropRest, BufferKept, receiver
        <4> QED
          BY <1>0, <2>2, <4>1
      <3> QED
        BY <3>1, <3>2
    <2>4. Elapsed(now', last_rx_timestamp') = silence'
      BY <1>0, <2>1, <2>2, <2>3, ElapsedNow
    <2> QED
      BY <1>0, <2>1, <2>2, <2>3, <2>4 DEF SilenceInv
  <1>4. ASSUME NEW r \in Responses, Serve(r)
        PROVE  SilenceInv'
    <2>1. now' = now /\ silence' = silence /\ chunk' = <<>>
      BY <1>4 DEF Serve, Returned
    <2>2. \/ rx' = NoReception /\ taken' = <<>> /\ last_rx_timestamp' = now
          \/ state' = "Transmitting" /\ last_rx_timestamp' = last_rx_timestamp
      BY <1>4 DEF Serve, ResetRx
    <2> QED
      BY <1>0, <2>1, <2>2 DEF SilenceInv
  <1>5. ASSUME NEW n \in PopSizes, PopData(n)
        PROVE  SilenceInv'
    <2>1. now' = now /\ silence' = silence /\ chunk' = <<>>
      BY <1>5 DEF PopData, Returned, histories
    <2>2. \/ rx' = NoReception /\ taken' = <<>> /\ last_rx_timestamp' = now
          \/ state' = "Transmitting" /\ last_rx_timestamp' = last_rx_timestamp
      BY <1>5 DEF PopData, ResetRx
    <2> QED
      BY <1>0, <2>1, <2>2 DEF SilenceInv
  <1>6. CASE Expire
    BY <1>0, <1>6 DEF Expire, ResetRx, Returned, SilenceInv
  <1>7. ASSUME NEW dt \in Timesteps, Tick(dt)
        PROVE  SilenceInv'
    <2>1. dt \in Nat
      BY TimesAssumption
    <2>2. /\ now' = Step(now, dt) /\ last_rx_timestamp' = last_rx_timestamp /\ chunk' = <<>>
          /\ silence' = (IF silence + dt > ClockModulus THEN ClockModulus ELSE silence + dt)
          /\ rx' = rx /\ taken' = taken /\ state' = state
      BY <1>7 DEF Tick, Returned, receiver
    <2>3. now' \in Times
      <3>1. now + dt \in Nat
        BY <1>0, <2>1 DEF Times
      <3> QED
        BY <2>2, <3>1, CounterWraps, ModulusAssumption DEF Step, Times
    <2>4. silence' \in Nat
      BY <1>0, <2>1, <2>2, ModulusAssumption
    <2>5. ASSUME silence < ClockModulus => Elapsed(now, last_rx_timestamp) = silence, silence' < ClockModulus
          PROVE  Elapsed(now', last_rx_timestamp') = silence'
      <3>1. silence' = silence + dt /\ silence + dt < ClockModulus /\ silence < ClockModulus
        BY <1>0, <2>1, <2>2, <2>5, ModulusAssumption
      <3>2. Elapsed(Step(now, dt), last_rx_timestamp) = Elapsed(now, last_rx_timestamp) + dt
        BY <1>0, <2>1, <2>5, <3>1, ElapsedSteps
      <3> QED
        BY <2>2, <2>5, <3>1, <3>2
    <2> QED
      BY <1>0, <2>2, <2>3, <2>4, <2>5 DEF SilenceInv
  <1>8. CASE UNCHANGED vars
    BY <1>8 DEF vars, receiver, histories, SilenceInv
  <1> QED
    BY <1>1, <1>2, <1>3, <1>4, <1>5, <1>6, <1>7, <1>8 DEF Next, Send, Receive, DoServe, Pop, DoTick

\* A part of a sequence, element by element.
IsPart(part, S, s, m, n) ==
    /\ part \in Seq(S) /\ Len(part) = n + 1 - m
    /\ \A i \in 1 .. n + 1 - m : part[i] = s[m + i - 1]

\* A part of a sequence.
LEMMA PartIs ==
  ASSUME NEW S, NEW s \in Seq(S), NEW m \in Nat \ {0}, NEW n \in Nat, m <= n + 1, n <= Len(s)
  PROVE  IsPart(SubSeq(s, m, n), S, s, m, n)
  <1> DEFINE part == SubSeq(s, m, n)
  <1>1. part \in Seq(S) /\ Len(part) = n + 1 - m
    OBVIOUS
  <1>2. ASSUME NEW i \in 1 .. n + 1 - m PROVE part[i] = s[m + i - 1]
    OBVIOUS
  <1> QED
    BY <1>1, <1>2 DEF IsPart

\* A part of a part.
LEMMA PartOfPart ==
  ASSUME NEW S, NEW s \in Seq(S), NEW m \in Nat \ {0}, NEW n \in Nat, m <= n + 1, n <= Len(s),
         NEW a \in Nat \ {0}, NEW b \in Nat, a <= b + 1, b <= n + 1 - m
  PROVE  SubSeq(SubSeq(s, m, n), a, b) = SubSeq(s, m + a - 1, m + b - 1)
  <1> DEFINE part == SubSeq(s, m, n)
             one == SubSeq(part, a, b)
             c == m + a - 1
             d == m + b - 1
             two == SubSeq(s, c, d)
             l == b + 1 - a
  <1>1. IsPart(part, S, s, m, n)
    BY PartIs
  <1> HIDE DEF part
  <1>2. part \in Seq(S) /\ Len(part) = n + 1 - m
    BY <1>1 DEF IsPart
  <1>3. IsPart(one, S, part, a, b)
    BY <1>2, PartIs
  <1> HIDE DEF one
  <1>4. c \in Nat \ {0} /\ d \in Nat /\ c <= d + 1 /\ d <= Len(s) /\ d + 1 - c = l /\ l \in Nat
    OBVIOUS
  <1>5. l = b + 1 - a /\ c = m + a - 1
    OBVIOUS
  <1> HIDE DEF c, d, l
  <1>6. IsPart(two, S, s, c, d)
    BY <1>4, PartIs
  <1> HIDE DEF two
  <1>7. /\ one \in Seq(S) /\ Len(one) = l /\ two \in Seq(S) /\ Len(two) = l
        /\ \A i \in 1 .. l : one[i] = part[a + i - 1] /\ two[i] = s[c + i - 1]
    BY <1>3, <1>4, <1>5, <1>6 DEF IsPart
  <1>8. ASSUME NEW i \in 1 .. l PROVE one[i] = two[i]
    <2>1. PICK j \in 1 .. n + 1 - m : j = a + i - 1 /\ m + j - 1 = c + i - 1
      <3>1. a + i - 1 \in 1 .. n + 1 - m /\ m + (a + i - 1) - 1 = c + i - 1
        BY <1>4, <1>5
      <3> QED
        BY <3>1
    <2>2. part[j] = s[m + j - 1]
      BY <1>1 DEF IsPart
    <2> QED
      BY <1>7, <2>1, <2>2
  <1>9. one = two
    BY <1>7, <1>8, SeqEqual
  <1> QED
    BY <1>9 DEF one, two, part, c, d

\* The values of wire bytes.
ValuesAre(v, s) ==
    v \in Seq(Byte) /\ Len(v) = Len(s) /\ \A i \in 1 .. Len(s) : v[i] = s[i].value

\* The values of wire bytes are bytes.
LEMMA ValuesIs ==
  ASSUME NEW s \in Seq(WireBytes)
  PROVE  ValuesAre(Values(s), s)
  <1>1. PICK v : v = Values(s)
    OBVIOUS
  <1>2. v = [k \in 1 .. Len(s) |-> s[k].value]
    BY <1>1 DEF Values
  <1>3. ASSUME NEW k \in 1 .. Len(s) PROVE s[k].value \in Byte
    <2>1. s[k] \in WireBytes
      OBVIOUS
    <2> QED
      BY <2>1 DEF WireBytes
  <1>4. v \in [1 .. Len(s) -> Byte] /\ DOMAIN v = 1 .. Len(s)
    BY <1>2, <1>3
  <1>5. v \in Seq(Byte)
    BY <1>4, SeqDef
  <1>6. Len(v) = Len(s)
    BY <1>4, <1>5, LenProperties
  <1> QED
    BY <1>1, <1>2, <1>5, <1>6 DEF ValuesAre

\* The values of the first bytes are the first values.
LEMMA ValuesOfPrefix ==
  ASSUME NEW s \in Seq(WireBytes), NEW k \in Nat, k <= Len(s)
  PROVE  Values(SubSeq(s, 1, k)) = SubSeq(Values(s), 1, k)
  <1> DEFINE part == SubSeq(s, 1, k)
             one == Values(part)
             all == Values(s)
             two == SubSeq(all, 1, k)
  <1>1. IsPart(part, WireBytes, s, 1, k)
    BY PartIs
  <1> HIDE DEF part
  <1>2. part \in Seq(WireBytes) /\ Len(part) = k /\ \A i \in 1 .. k : part[i] = s[i]
    BY <1>1 DEF IsPart
  <1>3. ValuesAre(one, part) /\ ValuesAre(all, s)
    BY <1>2, ValuesIs
  <1> HIDE DEF one, all
  <1>4. IsPrefix(two, all, k)
    BY <1>3, PrefixIs DEF ValuesAre
  <1> HIDE DEF two
  <1>5. /\ one \in Seq(Byte) /\ Len(one) = k /\ two \in Seq(Byte) /\ Len(two) = k
        /\ \A i \in 1 .. k : one[i] = part[i].value /\ two[i] = all[i]
    BY <1>2, <1>3, <1>4 DEF ValuesAre, IsPrefix
  <1>6. ASSUME NEW i \in 1 .. k PROVE one[i] = two[i]
    <2>1. i \in 1 .. Len(s)
      OBVIOUS
    <2>2. all[i] = s[i].value
      BY <1>3, <2>1 DEF ValuesAre
    <2> QED
      BY <1>2, <1>5, <2>2
  <1>7. one = two
    BY <1>5, <1>6, SeqEqual
  <1> QED
    BY <1>7 DEF one, two, all, part

\* The request of an acceptable beginning of the burst, whose values are v.
Asks(k, r, l, v) ==
    /\ r = burst[k].ends /\ l <= RxBufferSize /\ BeginsWith(v, k, r, l)
    /\ session_active \/ AcceptedWithoutSession(r)

\* The request of an acceptable beginning, byte by byte.
LEMMA AcceptableIs ==
  ASSUME burst \in Seq(WireBytes), NEW k \in 1 .. Len(burst), Acceptable(k), NEW v, v = Values(burst)
  PROVE  \E r \in Requests, l \in Nat : Asks(k, r, l, v)
  <1>1. PICK r : r = burst[k].ends
    OBVIOUS
  <1>2. /\ r # NoRequest /\ Len(r.data) <= RxBufferSize
        /\ Values(SubSeq(burst, 1, k)) = RequestFrame(r)
        /\ session_active \/ AcceptedWithoutSession(r)
    BY <1>1 DEF Acceptable
  <1>3. r \in Requests
    <2>1. burst[k] \in WireBytes
      OBVIOUS
    <2>2. r \in Requests \union {NoRequest}
      BY <1>1, <2>1 DEF WireBytes
    <2> QED
      BY <1>2, <2>2
  <1>4. ValuesAre(v, burst)
    BY ValuesIs
  <1>5. v \in Seq(Byte) /\ Len(v) = Len(burst)
    BY <1>4 DEF ValuesAre
  <1>6. SubSeq(v, 1, k) = RequestFrame(r)
    <2>1. k \in Nat /\ k <= Len(burst)
      OBVIOUS
    <2>2. Values(SubSeq(burst, 1, k)) = SubSeq(Values(burst), 1, k)
      BY <2>1, ValuesOfPrefix
    <2> QED
      BY <1>2, <2>2
  <1>7. k \in 1 .. Len(v)
    BY <1>5
  <1>8. PICK l \in Nat : BeginsWith(v, k, r, l)
    BY <1>2, <1>3, <1>5, <1>6, <1>7, BeginsWithIs
  <1>9. l <= RxBufferSize
    BY <1>2, <1>8 DEF BeginsWith
  <1>10. Asks(k, r, l, v)
    BY <1>1, <1>2, <1>8, <1>9 DEF Asks
  <1> QED
    BY <1>3, <1>10

\* What is left of the burst is in the chunk and on the wire.
Cut ==
    /\ Len(chunk) + Len(wire) <= Len(burst) /\ Len(wire) < Len(burst)
    /\ wire = SubSeq(burst, Given + 1, Len(burst))
    /\ chunk = SubSeq(burst, LookedAt + 1, Given)

\* As before, n bytes further.
CutAt(n) == Cut' /\ LookedAt' = LookedAt + n /\ LookedAt \in Nat

\* The numbers of bytes given, looked at and left in the chunk.
GivenAt(g, c, l) ==
    /\ g = Given /\ c = LookedAt /\ l = Len(chunk) /\ c + l = g
    /\ g = Len(burst) - Len(wire) /\ g <= Len(burst)

\* The numbers of bytes given and looked at.
LEMMA GivenIs ==
  ASSUME chunk \in Seq(WireBytes), wire \in Seq(WireBytes), burst \in Seq(WireBytes), Cut
  PROVE  \E g \in Nat, c \in Nat, l \in Nat : GivenAt(g, c, l)
  <1>1. PICK b \in Nat, w \in Nat, l \in Nat : b = Len(burst) /\ w = Len(wire) /\ l = Len(chunk)
    OBVIOUS
  <1>2. l + w <= b
    BY <1>1 DEF Cut
  <1>3. Given = b - w /\ LookedAt = (b - w) - l
    BY <1>1 DEF Given, LookedAt
  <1>4. GivenAt(b - w, (b - w) - l, l)
    BY <1>1, <1>2, <1>3 DEF GivenAt
  <1>5. b - w \in Nat /\ (b - w) - l \in Nat
    BY <1>2
  <1> QED
    BY <1>4, <1>5

\* When n bytes are read, the others stay where they were in the burst.
LEMMA ChunkFollows ==
  ASSUME chunk \in Seq(WireBytes), wire \in Seq(WireBytes), burst \in Seq(WireBytes), Cut,
         NEW n \in 0 .. Len(chunk), chunk' = SubSeq(chunk, n + 1, Len(chunk)), wire' = wire, burst' = burst
  PROVE  CutAt(n)
  <1>1. PICK g \in Nat, c \in Nat, l \in Nat :
           /\ g = Given /\ c = LookedAt /\ l = Len(chunk) /\ c + l = g
           /\ g = Len(burst) - Len(wire) /\ g <= Len(burst)
    BY GivenIs DEF GivenAt
  <1>2. chunk = SubSeq(burst, c + 1, g) /\ n <= l /\ n \in Nat
    <2>1. chunk = SubSeq(burst, LookedAt + 1, Given)
      BY DEF Cut
    <2>2. n \in Nat /\ n <= Len(chunk)
      OBVIOUS
    <2> QED
      BY <1>1, <2>1, <2>2
  <1>10. c + l = g /\ n <= l /\ n \in Nat
    BY <1>1, <1>2
  <1>3. PICK part : part = SubSeq(chunk, n + 1, l)
    OBVIOUS
  <1>4. part \in Seq(WireBytes) /\ Len(part) = l - n /\ chunk' = part
    <2>1. PICK a \in Nat \ {0} : a = n + 1
      BY <1>2
    <2>2. a <= l + 1 /\ l <= Len(chunk)
      BY <1>1, <1>2, <2>1
    <2>3. IsPart(SubSeq(chunk, a, l), WireBytes, chunk, a, l)
      BY <2>2, PartIs
    <2>4. SubSeq(chunk, a, l) = part
      BY <1>3, <2>1
    <2>5. part \in Seq(WireBytes) /\ Len(part) = l + 1 - a
      BY <2>3, <2>4 DEF IsPart
    <2>6. l + 1 - a = l - n
      BY <1>2, <2>1
    <2> QED
      BY <1>1, <1>3, <2>5, <2>6
  <1>5. part = SubSeq(burst, (c + n) + 1, g)
    <2>1. PICK m \in Nat \ {0}, a \in Nat \ {0} : m = c + 1 /\ a = n + 1
      BY <1>2
    <2>2. m <= g + 1 /\ g <= Len(burst) /\ a <= l + 1 /\ l <= g + 1 - m
      BY <1>1, <1>2, <2>1
    <2>3. SubSeq(SubSeq(burst, m, g), a, l) = SubSeq(burst, m + a - 1, m + l - 1)
      BY <2>2, PartOfPart
    <2>4. m + a - 1 = (c + n) + 1 /\ m + l - 1 = g
      BY <1>10, <2>1
    <2> QED
      BY <1>2, <1>3, <2>1, <2>3, <2>4
  <1>6. Given' = g
    BY <1>1 DEF Given
  <1>7. LookedAt' = c + n
    <2>1. LookedAt' = Given' - Len(chunk')
      BY DEF LookedAt
    <2>2. Len(chunk') = l - n
      BY <1>4
    <2>3. LookedAt' = g - (l - n)
      BY <1>6, <2>1, <2>2
    <2> QED
      BY <1>10, <2>3
  <1>8. Len(chunk') + Len(wire') <= Len(burst')
    <2>1. PICK b \in Nat, w \in Nat : b = Len(burst) /\ w = Len(wire)
      OBVIOUS
    <2>2. Len(chunk') = l - n /\ l + w <= b
      BY <1>1, <1>4, <2>1 DEF Cut
    <2> QED
      BY <1>2, <2>1, <2>2
  <1>9. Cut'
    BY <1>1, <1>4, <1>5, <1>6, <1>7, <1>8 DEF Cut, Given
  <1> QED
    BY <1>1, <1>7, <1>9 DEF CutAt

\* The bytes taken are the beginning of the burst, whose values are v, and the chunk goes on.
On(v, c) ==
    /\ v = Values(burst) /\ v \in Seq(Byte) /\ Len(v) = Len(burst)
    /\ c = LookedAt /\ c + Len(chunk) <= Len(v)
    /\ Len(taken) = c /\ taken = SubSeq(v, 1, c) /\ \A i \in 1 .. c : taken[i] = v[i]
    /\ \A i \in 1 .. Len(chunk) : chunk[i].value = v[c + i]

\* The bytes of the chunk are the next ones of the burst.
LEMMA OnIs ==
  ASSUME chunk \in Seq(WireBytes), wire \in Seq(WireBytes), burst \in Seq(WireBytes), Cut,
         taken = Values(SubSeq(burst, 1, LookedAt))
  PROVE  \E v \in Seq(Byte), c \in Nat : On(v, c)
  <1>1. PICK g \in Nat, c \in Nat, l \in Nat :
           /\ g = Given /\ c = LookedAt /\ l = Len(chunk) /\ c + l = g
           /\ g = Len(burst) - Len(wire) /\ g <= Len(burst)
    BY GivenIs DEF GivenAt
  <1>2. PICK v : v = Values(burst)
    OBVIOUS
  <1>3. ValuesAre(v, burst)
    BY <1>2, ValuesIs
  <1>4. v \in Seq(Byte) /\ Len(v) = Len(burst) /\ \A i \in 1 .. Len(burst) : v[i] = burst[i].value
    BY <1>3 DEF ValuesAre
  <1>5. taken = SubSeq(v, 1, c)
    BY <1>1, <1>2, ValuesOfPrefix
  <1>6. IsPrefix(taken, v, c)
    <2>1. c <= Len(v)
      BY <1>1, <1>4
    <2>2. IsPrefix(SubSeq(v, 1, c), v, c)
      BY <1>4, <2>1, PrefixIs
    <2> QED
      BY <1>5, <2>2
  <1>7. IsPart(chunk, WireBytes, burst, c + 1, g)
    <2>1. chunk = SubSeq(burst, c + 1, g)
      BY <1>1 DEF Cut
    <2> QED
      BY <1>1, <2>1, PartIs
  <1>8. ASSUME NEW i \in 1 .. l PROVE chunk[i].value = v[c + i]
    <2>1. PICK j \in 1 .. Len(burst) : j = c + i /\ j = (c + 1) + i - 1
      <3>1. c + i \in 1 .. Len(burst) /\ c + i = (c + 1) + i - 1
        BY <1>1
      <3> QED
        BY <3>1
    <2>2. chunk[i] = burst[j]
      <3>1. i \in 1 .. g + 1 - (c + 1)
        BY <1>1
      <3> QED
        BY <1>7, <2>1, <3>1 DEF IsPart
    <2> QED
      BY <1>4, <2>1, <2>2
  <1>9. On(v, c)
    BY <1>1, <1>2, <1>4, <1>5, <1>6, <1>8 DEF On, IsPrefix
  <1> QED
    BY <1>4, <1>9

\* t holds the values of the c first bytes of b.
FirstValues(t, b, c) ==
    t \in Seq(Byte) /\ Len(t) = c /\ c <= Len(b) /\ \A i \in 1 .. c : t[i] = b[i].value

\* These are the only such values.
LEMMA FirstValuesAre ==
  ASSUME NEW b \in Seq(WireBytes), NEW c \in Nat, NEW t, FirstValues(t, b, c)
  PROVE  t = Values(SubSeq(b, 1, c))
  <1> DEFINE all == Values(b)
             two == SubSeq(all, 1, c)
  <1>1. c <= Len(b) /\ t \in Seq(Byte) /\ Len(t) = c /\ \A i \in 1 .. c : t[i] = b[i].value
    BY DEF FirstValues
  <1>2. ValuesAre(all, b)
    BY ValuesIs
  <1>3. Values(SubSeq(b, 1, c)) = two
    BY <1>1, ValuesOfPrefix
  <1> HIDE DEF all
  <1>4. IsPrefix(two, all, c)
    BY <1>1, <1>2, PrefixIs DEF ValuesAre
  <1>5. two \in Seq(Byte) /\ Len(two) = c /\ \A i \in 1 .. c : two[i] = all[i]
    BY <1>4 DEF IsPrefix
  <1>6. \A i \in 1 .. c : all[i] = b[i].value
    BY <1>1, <1>2 DEF ValuesAre
  <1> HIDE DEF two
  <1>7. \A i \in 1 .. c : t[i] = two[i]
    BY <1>1, <1>5, <1>6
  <1>8. t = two
    BY <1>1, <1>5, <1>7, SeqEqual
  <1> QED
    BY <1>3, <1>8

\* The n next bytes were added to the bytes taken.
Takes(n) ==
    /\ taken' \in Seq(Byte) /\ Len(taken') = Len(taken) + n
    /\ \A i \in 1 .. Len(taken) : taken'[i] = taken[i]
    /\ \A i \in 1 .. n : taken'[Len(taken) + i] = chunk[i].value

\* The bytes taken are still the beginning of the burst.
Onward ==
    /\ Cut' /\ taken' = Values(SubSeq(burst', 1, LookedAt'))
    /\ Len(taken') = LookedAt' /\ LookedAt' <= Len(burst')

\* A reception that takes the next bytes is still on the burst.
LEMMA TakenOnward ==
  ASSUME chunk \in Seq(WireBytes), wire \in Seq(WireBytes), burst \in Seq(WireBytes), Cut,
         NEW v \in Seq(Byte), NEW c \in Nat, On(v, c), NEW n \in 1 .. Len(chunk), Takes(n),
         chunk' = SubSeq(chunk, n + 1, Len(chunk)), wire' = wire, burst' = burst
  PROVE  Onward
  <1>1. n \in Nat /\ n \in 0 .. Len(chunk)
    OBVIOUS
  <1>2. CutAt(n)
    BY <1>1, ChunkFollows
  <1>3. Cut' /\ LookedAt' = LookedAt + n
    BY <1>2 DEF CutAt
  <1>4. PICK l \in Nat : l = Len(chunk)
    OBVIOUS
  <1>5. /\ n <= l /\ c = LookedAt /\ c + l <= Len(burst) /\ Len(taken) = c
        /\ v = Values(burst) /\ Len(v) = Len(burst)
        /\ \A i \in 1 .. c : taken[i] = v[i]
        /\ \A i \in 1 .. l : chunk[i].value = v[c + i]
    BY <1>1, <1>4 DEF On
  <1>6. ValuesAre(v, burst)
    BY <1>5, ValuesIs
  <1>7. PICK t \in Seq(Byte) : t = taken'
    BY DEF Takes
  <1>8. Len(t) = c + n /\ \A i \in 1 .. c : t[i] = v[i]
    BY <1>5, <1>7 DEF Takes
  <1>9. \A i \in 1 .. n : t[c + i] = v[c + i]
    <2> SUFFICES ASSUME NEW i \in 1 .. n PROVE t[c + i] = v[c + i]
      OBVIOUS
    <2>1. i \in 1 .. l
      BY <1>1, <1>5
    <2>2. t[c + i] = chunk[i].value
      BY <1>5, <1>7 DEF Takes
    <2> QED
      BY <1>5, <2>1, <2>2
  <1>10. PICK d \in Nat : d = c + n
    BY <1>1
  <1>11. d <= Len(burst)
    BY <1>1, <1>4, <1>5, <1>10
  <1>12. \A i \in 1 .. d : t[i] = burst[i].value
    <2> SUFFICES ASSUME NEW i \in 1 .. d PROVE t[i] = burst[i].value
      OBVIOUS
    <2>1. i \in 1 .. Len(burst)
      BY <1>11
    <2>2. v[i] = burst[i].value
      BY <1>6, <2>1 DEF ValuesAre
    <2>3. t[i] = v[i]
      <3>1. CASE i <= c
        BY <1>8, <3>1
      <3>2. CASE i > c
        <4>1. PICK j \in 1 .. n : i = c + j
          <5>1. i - c \in 1 .. n /\ i = c + (i - c)
            BY <1>1, <1>10, <3>2
          <5> QED
            BY <5>1
        <4> QED
          BY <1>9, <4>1
      <3> QED
        BY <3>1, <3>2
    <2> QED
      BY <2>2, <2>3
  <1>13. FirstValues(t, burst, d)
    BY <1>8, <1>10, <1>11, <1>12 DEF FirstValues
  <1>14. t = Values(SubSeq(burst, 1, d))
    BY <1>13, FirstValuesAre
  <1>15. LookedAt' = d
    BY <1>3, <1>5, <1>10
  <1> QED
    BY <1>3, <1>7, <1>8, <1>10, <1>11, <1>14, <1>15 DEF Onward

\* Where the burst is followed to.
Followed ==
    /\ Cut' /\ burst' = burst /\ session_active' = session_active
    /\ OnBurst' \/ HeldFromBurst' \/ Hopeless'

\* Whether the burst can be accepted depends on its bytes and on the session.
LEMMA HopelessStays ==
  ASSUME Hopeless, burst' = burst, session_active' = session_active
  PROVE  Hopeless'
  BY DEF Hopeless, Acceptable

\* The same, for the bytes read at once.
LEMMA TakeOnward ==
  ASSUME ParseInv, burst \in Seq(WireBytes), Cut, NEW v \in Seq(Byte), NEW c \in Nat, On(v, c),
         NEW n \in 1 .. Len(chunk), Take(n), wire' = wire, burst' = burst
  PROVE  Onward
  <1>1. ParseTypes
    BY DEF ParseInv
  <1>2. Took(n)
    BY <1>1, TakeIs
  <1>3. Takes(n)
    BY <1>2 DEF Took, Takes
  <1>4. chunk' = SubSeq(chunk, n + 1, Len(chunk))
    BY DEF Take
  <1> QED
    BY <1>1, <1>3, <1>4, TakenOnward DEF ParseTypes

\* What is on the burst follows it.
LEMMA OnwardFollows ==
  ASSUME Onward, burst' = burst, session_active' = session_active,
         rx'.request_received \/ rx'.state # "Error"
  PROVE  Followed
  <1>1. CASE rx'.request_received
    BY <1>1 DEF Onward, Followed, HeldFromBurst
  <1>2. CASE ~rx'.request_received
    BY <1>2 DEF Onward, Followed, OnBurst
  <1> QED
    BY <1>1, <1>2

\* A burst that cannot be accepted stays so.
LEMMA StayFollows ==
  ASSUME chunk \in Seq(WireBytes), wire \in Seq(WireBytes), burst \in Seq(WireBytes), Cut,
         NEW n \in 0 .. Len(chunk), chunk' = SubSeq(chunk, n + 1, Len(chunk)), wire' = wire, burst' = burst,
         session_active' = session_active, Hopeless
  PROVE  Followed
  <1>1. CutAt(n)
    BY ChunkFollows
  <1>2. Hopeless'
    BY HopelessStays
  <1> QED
    BY <1>1, <1>2 DEF CutAt, Followed

\* A sequence is its part from the first element to the last.
LEMMA WholeSequence ==
  ASSUME NEW S, NEW s \in Seq(S)
  PROVE  s = SubSeq(s, 1, Len(s))
  <1> DEFINE t == SubSeq(s, 1, Len(s))
  <1>1. IsPart(t, S, s, 1, Len(s))
    BY PartIs
  <1> HIDE DEF t
  <1>2. t \in Seq(S) /\ Len(t) = Len(s) /\ \A i \in 1 .. Len(s) : t[i] = s[i]
    BY <1>1 DEF IsPart
  <1>3. s = t
    BY <1>2, SeqEqual
  <1> QED
    BY <1>3 DEF t

\* The tail is the part after the first element.
LEMMA TailIs ==
  ASSUME NEW S, NEW s \in Seq(S), s # <<>>
  PROVE  Tail(s) = SubSeq(s, 1 + 1, Len(s))
  <1> DEFINE t == SubSeq(s, 1 + 1, Len(s))
             u == Tail(s)
  <1>1. PICK l \in Nat : l = Len(s) /\ l >= 1
    OBVIOUS
  <1>2. IsPart(t, S, s, 1 + 1, l)
    BY <1>1, PartIs
  <1>3. u \in Seq(S) /\ Len(u) = l - 1 /\ \A i \in 1 .. l - 1 : u[i] = s[i + 1]
    BY <1>1, HeadTailProperties
  <1> HIDE DEF t, u
  <1>4. t \in Seq(S) /\ Len(t) = l - 1 /\ \A i \in 1 .. l - 1 : t[i] = s[i + 1]
    <2>1. l + 1 - (1 + 1) = l - 1
      BY <1>1
    <2>2. t \in Seq(S) /\ Len(t) = l - 1 /\ \A i \in 1 .. l - 1 : t[i] = s[(1 + 1) + i - 1]
      BY <1>2, <2>1 DEF IsPart
    <2> QED
      BY <1>1, <2>2
  <1>5. u = t
    BY <1>1, <1>3, <1>4, SeqEqual
  <1> QED
    BY <1>1, <1>5 DEF t, u

\* Nothing was read, and the burst has no request that can be accepted.
LEMMA NothingTaken ==
  ASSUME chunk \in Seq(WireBytes), wire \in Seq(WireBytes), burst \in Seq(WireBytes), Cut,
         chunk' = chunk, wire' = wire, burst' = burst, session_active' = session_active, Hopeless
  PROVE  Followed
  <1>1. chunk' = SubSeq(chunk, 0 + 1, Len(chunk))
    BY WholeSequence
  <1>2. 0 \in 0 .. Len(chunk)
    OBVIOUS
  <1> QED
    BY <1>1, <1>2, StayFollows

\* The commands are 7-bit numbers.
LEMMA CommandFollows ==
  ASSUME ParseInv, burst \in Seq(WireBytes), Cut, NEW v \in Seq(Byte), NEW c \in Nat, On(v, c),
         ReadCommand
  PROVE  Followed
  <1>1. /\ chunk # <<>> /\ rx.state = "WaitForCommand" /\ ~rx.request_received /\ rx \in Receptions
        /\ wire' = wire /\ burst' = burst /\ session_active' = session_active
    BY DEF ReadCommand, Reading, Outside, histories, ParseInv, ParseTypes
  <1>2. chunk \in Seq(WireBytes) /\ wire \in Seq(WireBytes) /\ ParseTypes
    BY DEF ParseInv, ParseTypes
  <1>3. 1 \in 1 .. Len(chunk) /\ chunk[1].value \in Byte
    BY <1>1, <1>2, NextByte
  <1>4. c = 0
    BY <1>1 DEF ParseInv, Parsing, AtCommand, AtSubfunction, AtLength, AtData, AtCrc, AtProcess, AtError, On
  <1>5. chunk[1].value = v[1] /\ v = Values(burst)
    BY <1>3, <1>4 DEF On
  <1>6. CASE chunk[1].value >= 128
    <2>1. chunk' = chunk
      BY <1>6 DEF ReadCommand
    <2>2. ASSUME NEW k \in 1 .. Len(burst), Acceptable(k) PROVE FALSE
      <3>1. PICK r \in Requests, l \in Nat : Asks(k, r, l, v)
        BY <1>5, <2>2, AcceptableIs
      <3>2. v[1] = r.command
        <4>1. BeginsWith(v, k, r, l)
          BY <3>1 DEF Asks
        <4>2. r.command = v[1]
          BY <4>1 DEF BeginsWith
        <4> QED
          BY <4>2
      <3>3. PICK a : a = r.command
        OBVIOUS
      <3>4. a \in 0 .. 127
        BY <3>3 DEF Requests
      <3>5. a < 128 /\ a \in Int
        BY <3>4
      <3>6. a >= 128
        BY <1>5, <1>6, <3>2, <3>3
      <3> QED
        BY <3>5, <3>6
    <2>3. Hopeless
      BY <2>2 DEF Hopeless
    <2> QED
      BY <1>1, <1>2, <2>1, <2>3, NothingTaken
  <1>7. CASE ~(chunk[1].value >= 128)
    <2>1. Take(1)
      BY <1>7 DEF ReadCommand
    <2>2. rx'.state # "Error"
      <3>1. rx' = [rx EXCEPT !.state = "WaitForSubfunction", !.command = chunk[1].value,
                             !.m_crc = Crc(<<chunk[1].value>>, {})]
        BY <1>7 DEF ReadCommand
      <3> QED
        BY <1>1, <3>1 DEF Receptions
    <2>3. Onward
      BY <1>1, <1>3, <2>1, TakeOnward
    <2> QED
      BY <1>1, <2>2, <2>3, OnwardFollows
  <1> QED
    BY <1>6, <1>7

\* Any subfunction is taken.
LEMMA SubfunctionFollows ==
  ASSUME ParseInv, burst \in Seq(WireBytes), Cut, NEW v \in Seq(Byte), NEW c \in Nat, On(v, c),
         ReadSubfunction
  PROVE  Followed
  <1>1. /\ chunk # <<>> /\ rx \in Receptions /\ ParseTypes
        /\ wire' = wire /\ burst' = burst /\ session_active' = session_active
    BY DEF ReadSubfunction, Reading, Outside, histories, ParseInv, ParseTypes
  <1>2. 1 \in 1 .. Len(chunk)
    BY <1>1, NextByte
  <1>3. rx'.state # "Error"
    BY <1>1 DEF ReadSubfunction, Receptions
  <1>4. Take(1)
    BY DEF ReadSubfunction
  <1>5. Onward
    BY <1>1, <1>2, <1>4, TakeOnward
  <1> QED
    BY <1>1, <1>3, <1>5, OnwardFollows

\* The length is taken in one piece or in two.
LEMMA LengthFollows ==
  ASSUME ParseInv, burst \in Seq(WireBytes), Cut, NEW v \in Seq(Byte), NEW c \in Nat, On(v, c),
         ReadLength
  PROVE  Followed
  <1>1. /\ chunk # <<>> /\ rx \in Receptions /\ ParseTypes /\ rx.state = "WaitForLength"
        /\ wire' = wire /\ burst' = burst /\ session_active' = session_active
    BY DEF ReadLength, Reading, Outside, histories, ParseInv, ParseTypes
  <1>2. 1 \in 1 .. Len(chunk) /\ Len(chunk) \in Nat
    BY <1>1, NextByte
  <1>3. PICK n \in 1 .. Len(chunk) : Take(n)
    <2>1. CASE Len(chunk) >= 2 /\ Take(2)
      BY <1>2, <2>1
    <2>2. CASE Take(1)
      BY <1>2, <2>2
    <2> QED
      BY <2>1, <2>2 DEF ReadLength
  <1>4. rx'.state # "Error"
    <2>1. CASE \E m, length : rx' = LengthRead([rx EXCEPT !.m_crc = m], length)
      <3>1. PICK m, length : rx' = LengthRead([rx EXCEPT !.m_crc = m], length)
        BY <2>1
      <3>2. PICK q : q = [rx EXCEPT !.m_crc = m]
        OBVIOUS
      <3>3. q = [q EXCEPT !.state = q.state] /\ DOMAIN q = DOMAIN rx
        BY <1>1, <3>2 DEF Receptions
      <3>4. "state" \in DOMAIN q /\ "count" \in DOMAIN q /\ "data_length" \in DOMAIN q
        BY <1>1, <3>3 DEF Receptions
      <3>5. rx' = [q EXCEPT !.data_length = length,
                            !.state = IF length = 0 THEN "WaitForCRC" ELSE "WaitForData", !.count = 0]
        BY <3>1, <3>2 DEF LengthRead
      <3>6. rx'.state = IF length = 0 THEN "WaitForCRC" ELSE "WaitForData"
        BY <3>4, <3>5
      <3> QED
        BY <3>6
    <2>2. CASE rx' = [rx EXCEPT !.data_length = 256 * chunk[1].value, !.m_crc = CrcOf(1), !.count = 1]
      BY <1>1, <2>2 DEF Receptions
    <2> QED
      BY <2>1, <2>2 DEF ReadLength
  <1>5. Onward
    BY <1>1, <1>3, TakeOnward
  <1> QED
    BY <1>1, <1>4, <1>5, OnwardFollows

\* Data longer than the buffer is not that of an acceptable request.
LEMMA DataFollows ==
  ASSUME ParseInv, burst \in Seq(WireBytes), Cut, NEW v \in Seq(Byte), NEW c \in Nat, On(v, c),
         ReadData
  PROVE  Followed
  <1>1. /\ chunk # <<>> /\ rx.state = "WaitForData" /\ ~rx.request_received /\ rx \in Receptions /\ ParseTypes
        /\ wire' = wire /\ burst' = burst /\ session_active' = session_active
    BY DEF ReadData, Reading, Outside, histories, ParseInv, ParseTypes
  <1>2. chunk \in Seq(WireBytes) /\ wire \in Seq(WireBytes) /\ Len(chunk) \in Nat /\ Len(chunk) >= 1
    BY <1>1, NextByte DEF ParseTypes
  <1>3. AtData
    BY <1>1 DEF ParseInv, Parsing, AtCommand, AtSubfunction, AtLength, AtCrc, AtError
  <1>4. PICK d \in Nat, q \in Nat : d = rx.data_length /\ q = rx.count /\ q < d
    BY <1>1, <1>3 DEF AtData, Receptions
  <1>5. CASE TooLong(d)
    <2>1. chunk' = chunk
      BY <1>4, <1>5 DEF ReadData
    <2>2. ASSUME NEW k \in 1 .. Len(burst), Acceptable(k) PROVE FALSE
      <3>1. PICK r \in Requests, l \in Nat : Asks(k, r, l, v)
        BY <2>2, AcceptableIs DEF On
      <3>2. l <= RxBufferSize /\ 256 * v[3] + v[4] = l
        BY <3>1 DEF Asks, BeginsWith
      <3>3. d = 256 * taken[3] + taken[4] /\ Len(taken) = 4 + q
        BY <1>3, <1>4 DEF AtData, HeaderTaken, TakenLength
      <3>4. taken[3] = v[3] /\ taken[4] = v[4]
        <4>1. Len(taken) = c /\ \A i \in 1 .. c : taken[i] = v[i]
          BY DEF On
        <4>2. 3 \in 1 .. c /\ 4 \in 1 .. c
          BY <1>4, <3>3, <4>1
        <4> QED
          BY <4>1, <4>2
      <3>5. d = l
        BY <3>2, <3>3, <3>4
      <3>6. d > RxBufferSize
        BY <1>5 DEF TooLong
      <3> QED
        BY <3>2, <3>5, <3>6, BuffersAssumption
    <2>3. Hopeless
      BY <2>2 DEF Hopeless
    <2> QED
      BY <1>1, <1>2, <2>1, <2>3, NothingTaken
  <1>6. CASE ~TooLong(d)
    <2>1. PICK n : /\ n = (IF Len(chunk) >= d - q THEN d - q ELSE Len(chunk))
                   /\ Take(n)
                   /\ rx' = [rx EXCEPT !.m_crc = CrcOf(n), !.count = IF n = d - q THEN 0 ELSE q + n,
                                       !.state = IF n = d - q THEN "WaitForCRC" ELSE "WaitForData"]
      BY <1>4, <1>6 DEF ReadData
    <2>2. n \in 1 .. Len(chunk)
      BY <1>2, <1>4, <2>1
    <2>3. rx'.state # "Error"
      BY <1>1, <2>1 DEF Receptions
    <2>4. Onward
      BY <1>1, <2>1, <2>2, TakeOnward
    <2> QED
      BY <1>1, <2>3, <2>4, OnwardFollows
  <1> QED
    BY <1>5, <1>6

\* A byte of the CRC is taken like the others.
LEMMA CrcByteOnward ==
  ASSUME ParseInv, burst \in Seq(WireBytes), Cut, NEW v \in Seq(Byte), NEW c \in Nat, On(v, c),
         chunk # <<>>, chunk' = Tail(chunk), taken' = Append(taken, chunk[1].value),
         wire' = wire, burst' = burst
  PROVE  Onward
  <1>1. ParseTypes /\ chunk \in Seq(WireBytes) /\ wire \in Seq(WireBytes) /\ taken \in Seq(Byte)
    BY DEF ParseInv, ParseTypes
  <1>2. 1 \in 1 .. Len(chunk) /\ chunk[1].value \in Byte
    BY <1>1, NextByte
  <1>3. PICK b \in Byte : b = chunk[1].value
    BY <1>2
  <1>4. Appended(taken', taken, b)
    BY <1>1, <1>3, AppendedIs
  <1>5. Takes(1)
    <2>1. /\ taken' \in Seq(Byte) /\ Len(taken') = Len(taken) + 1 /\ taken'[Len(taken) + 1] = b
          /\ \A i \in 1 .. Len(taken) : taken'[i] = taken[i]
      BY <1>1, <1>3, <1>4 DEF Appended
    <2> QED
      BY <1>3, <2>1 DEF Takes
  <1>6. chunk' = SubSeq(chunk, 1 + 1, Len(chunk))
    BY <1>1, TailIs
  <1> QED
    BY <1>1, <1>2, <1>5, <1>6, TakenOnward

\* The last byte of CRC is refused: the CRC is wrong, or no session is open.
Refuses(received) == ~(CrcMatches(received) /\ (session_active \/ AcceptedWithoutSession(ActiveRequest)))

\* A frame that is refused at its last byte is not a request that can be accepted.
LEMMA RefusedIsHopeless ==
  ASSUME ParseInv, burst \in Seq(WireBytes), Cut, NEW v \in Seq(Byte), NEW c \in Nat, On(v, c),
         chunk # <<>>, Reading("WaitForCRC"), rx.count = 3,
         NEW received, received = Append(Tail(rx.crc), chunk[1].value), Refuses(received)
  PROVE  Hopeless
  <1>1. ParseTypes /\ chunk \in Seq(WireBytes) /\ taken \in Seq(Byte)
    BY DEF ParseInv, ParseTypes
  <1>2. 1 \in 1 .. Len(chunk) /\ chunk[1].value \in Byte
    BY <1>1, NextByte
  <1>3. AtCrc
    BY DEF Reading, ParseInv, Parsing, AtCommand, AtSubfunction, AtLength, AtData, AtError
  <1>4. PICK d \in Nat : d = rx.data_length
    BY <1>1 DEF ParseTypes, Receptions
  <1>5. /\ Len(taken) = 4 + d + 3 /\ HeaderTaken /\ Stored(d)
        /\ rx.m_crc = Crc(SubSeq(taken, 1, 4 + d), {})
        /\ \A i \in 1 .. 3 : rx.crc[1 + i] = taken[4 + d + i]
    BY <1>3, <1>4 DEF AtCrc
  <1>6. /\ c = 4 + d + 3 /\ taken = SubSeq(v, 1, c) /\ \A i \in 1 .. c : taken[i] = v[i]
        /\ c + Len(chunk) <= Len(v) /\ chunk[1].value = v[c + 1]
    BY <1>2, <1>5 DEF On
  <1>7. c <= Len(v)
    BY <1>2, <1>6
  <1>8. PICK h \in Nat : h = 4 + d
    OBVIOUS
  <1>9. SubSeq(taken, 1, h) = SubSeq(v, 1, h)
    BY <1>6, <1>7, <1>8, PrefixOfPrefix
  <1>10. /\ received \in Seq(Byte) /\ Len(received) = 4
         /\ \A i \in 1 .. 4 : received[i] = v[h + i]
    <2>1. rx.crc \in Seq(Byte) /\ Len(rx.crc) = 4
      BY <1>1 DEF ParseTypes, Receptions
    <2>2. Shifted(received, rx.crc, chunk[1].value)
      BY <1>2, <2>1, ShiftedIs
    <2>3. \A i \in 1 .. 3 : received[i] = rx.crc[i + 1]
      BY <2>2 DEF Shifted
    <2>4. ASSUME NEW i \in 1 .. 3 PROVE received[i] = v[h + i]
      <3>1. h + i \in 1 .. c
        BY <1>6, <1>8
      <3>2. rx.crc[1 + i] = taken[h + i]
        BY <1>5, <1>8
      <3>3. received[i] = rx.crc[1 + i]
        <4>1. received[i] = rx.crc[i + 1]
          BY <2>3
        <4>2. i + 1 = 1 + i
          OBVIOUS
        <4> QED
          BY <4>1, <4>2
      <3> QED
        BY <1>6, <3>1, <3>2, <3>3
    <2>5. received[4] = v[h + 4]
      <3>1. h + 4 = c + 1
        BY <1>6, <1>8
      <3> QED
        BY <1>6, <2>2, <3>1 DEF Shifted
    <2>6. \A i \in 1 .. 4 : received[i] = v[h + i]
      <3> SUFFICES ASSUME NEW i \in 1 .. 4 PROVE received[i] = v[h + i]
        OBVIOUS
      <3>1. CASE i \in 1 .. 3
        BY <2>4, <3>1
      <3>2. CASE i = 4
        BY <2>5, <3>2
      <3>3. i \in 1 .. 3 \/ i = 4
        OBVIOUS
      <3> QED
        BY <3>1, <3>2, <3>3
    <2> QED
      BY <2>2, <2>6 DEF Shifted
  <1>11. ASSUME NEW k \in 1 .. Len(burst), Acceptable(k) PROVE FALSE
    <2>1. PICK r \in Requests, l \in Nat : Asks(k, r, l, v)
      BY <1>11, AcceptableIs DEF On
    <2>2. /\ l <= RxBufferSize /\ l = Len(r.data) /\ 256 * v[3] + v[4] = l
          /\ r.command = v[1] /\ r.subfunction = v[2]
          /\ \A i \in 1 .. l : v[4 + i] = r.data[i]
          /\ \A i \in 1 .. 4 : v[4 + l + i] = WordBytes(Crc(SubSeq(v, 1, 4 + l), {}))[i]
          /\ session_active \/ AcceptedWithoutSession(r)
      BY <2>1 DEF Asks, BeginsWith
    <2>3. /\ rx.command = taken[1] /\ rx.subfunction = taken[2]
          /\ d = 256 * taken[3] + taken[4]
      BY <1>4, <1>5 DEF HeaderTaken, TakenLength
    <2>4. taken[1] = v[1] /\ taken[2] = v[2] /\ taken[3] = v[3] /\ taken[4] = v[4]
      <3>1. 1 \in 1 .. c /\ 2 \in 1 .. c /\ 3 \in 1 .. c /\ 4 \in 1 .. c
        BY <1>6
      <3> QED
        BY <1>6, <3>1
    <2>5. d = l /\ h = 4 + l
      BY <1>8, <2>2, <2>3, <2>4
    <2>6. CrcMatches(received)
      <3>1. PICK w : w = WordBytes(rx.m_crc)
        OBVIOUS
      <3>2. w \in Seq(Byte) /\ Len(w) = 4
        BY <3>1, WordBytesIs
      <3>3. rx.m_crc = Crc(SubSeq(v, 1, h), {})
        BY <1>5, <1>8, <1>9
      <3>4. \A i \in 1 .. 4 : w[i] = v[h + i]
        BY <2>2, <2>5, <3>1, <3>3
      <3>5. \A i \in 1 .. 4 : w[i] = received[i]
        BY <1>10, <3>4
      <3>6. received = w
        BY <1>10, <3>2, <3>5, SeqEqual
      <3> QED
        BY <3>1, <3>6 DEF CrcMatches
    <2>7. ActiveRequest = r
      <3> DEFINE data == [i \in 1 .. d |-> rx_buffer[i - 1]]
      <3>1. /\ r = [command |-> r.command, subfunction |-> r.subfunction, data |-> r.data]
            /\ r.data \in Seq(Byte)
        BY DEF Requests
      <3>2. ASSUME NEW i \in 1 .. d PROVE data[i] = r.data[i]
        <4>1. rx_buffer[i - 1] = taken[4 + i]
          BY <1>5 DEF Stored
        <4>2. 4 + i \in 1 .. c
          BY <1>6
        <4>3. v[4 + i] = r.data[i]
          BY <2>2, <2>5
        <4> QED
          BY <1>6, <4>1, <4>2, <4>3
      <3>3. r.data = [i \in 1 .. d |-> r.data[i]]
        BY <2>2, <2>5, <3>1
      <3>4. data = r.data
        BY <3>2, <3>3
      <3>5. ActiveRequest = [command |-> rx.command, subfunction |-> rx.subfunction, data |-> data]
        BY <1>4 DEF ActiveRequest
      <3> QED
        BY <2>2, <2>3, <2>4, <3>1, <3>4, <3>5
    <2> QED
      BY <2>2, <2>6, <2>7 DEF Refuses
  <1> QED
    BY <1>11 DEF Hopeless

\* The CRC of an acceptable request is the one computed.
LEMMA CrcFollows ==
  ASSUME ParseInv, burst \in Seq(WireBytes), Cut, NEW v \in Seq(Byte), NEW c \in Nat, On(v, c),
         ReadCrc
  PROVE  Followed
  <1>1. /\ chunk # <<>> /\ Reading("WaitForCRC") /\ rx \in Receptions /\ ParseTypes
        /\ rx.state = "WaitForCRC" /\ ~rx.request_received
        /\ wire' = wire /\ burst' = burst /\ session_active' = session_active /\ chunk' = Tail(chunk)
    BY DEF ReadCrc, Reading, Outside, histories, ParseInv, ParseTypes
  <1>2. PICK received : received = Append(Tail(rx.crc), chunk[1].value)
    OBVIOUS
  <1>3. rx.count \in 0 .. 3
    BY <1>1 DEF ParseInv, Parsing, AtCommand, AtSubfunction, AtLength, AtData, AtCrc, AtError
  <1>4. CASE rx.count < 3 \/ ~Refuses(received)
    <2>1. /\ taken' = Append(taken, chunk[1].value)
          /\ \/ rx' = [rx EXCEPT !.crc = received, !.count = rx.count + 1]
             \/ rx' = [rx EXCEPT !.crc = received, !.count = 4, !.state = "WaitForProcess",
                                 !.request_received = TRUE]
      BY <1>2, <1>4 DEF ReadCrc, Refuses
    <2>2. rx'.state # "Error"
      BY <1>1, <2>1 DEF Receptions
    <2>3. Onward
      BY <1>1, <2>1, CrcByteOnward
    <2> QED
      BY <1>1, <2>2, <2>3, OnwardFollows
  <1>5. CASE rx.count = 3 /\ Refuses(received)
    <2>1. Hopeless
      BY <1>1, <1>2, <1>5, RefusedIsHopeless
    <2>2. chunk \in Seq(WireBytes) /\ wire \in Seq(WireBytes)
      BY <1>1 DEF ParseTypes
    <2>3. chunk' = SubSeq(chunk, 1 + 1, Len(chunk)) /\ 1 \in 0 .. Len(chunk)
      BY <1>1, <2>2, TailIs
    <2> QED
      BY <1>1, <2>1, <2>2, <2>3, StayFollows
  <1> QED
    BY <1>3, <1>4, <1>5

\* However many bytes are read, the others stay.
LEMMA ReadsChunk ==
  ASSUME ParseInv, ReadByte, ~DropRest
  PROVE  \E n \in 0 .. Len(chunk) : chunk' = SubSeq(chunk, n + 1, Len(chunk))
  <1>1. chunk # <<>> /\ ParseTypes /\ chunk \in Seq(WireBytes) /\ rx \in Receptions
    BY DEF ReadByte, ReadCommand, ReadSubfunction, ReadLength, ReadData, ReadCrc, Reading, ParseInv, ParseTypes
  <1>2. PICK m \in Nat : m = Len(chunk) /\ m >= 1
    BY <1>1
  <1>3. ASSUME NEW n \in 0 .. m, Take(n)
        PROVE  \E k \in 0 .. m : chunk' = SubSeq(chunk, k + 1, m)
    BY <1>2, <1>3 DEF Take
  <1>4. ASSUME chunk' = chunk
        PROVE  \E k \in 0 .. m : chunk' = SubSeq(chunk, k + 1, m)
    <2>1. chunk' = SubSeq(chunk, 0 + 1, m)
      BY <1>1, <1>2, <1>4, WholeSequence
    <2> QED
      BY <2>1
  <1>5. 0 \in 0 .. m /\ 1 \in 0 .. m /\ (m >= 2 => 2 \in 0 .. m)
    BY <1>2
  <1>6. CASE ReadCommand
    <2>1. chunk' = chunk \/ Take(1)
      BY <1>6 DEF ReadCommand
    <2> QED
      BY <1>2, <1>3, <1>4, <1>5, <2>1
  <1>7. CASE ReadSubfunction
    <2>1. Take(1)
      BY <1>7 DEF ReadSubfunction
    <2> QED
      BY <1>2, <1>3, <1>5, <2>1
  <1>8. CASE ReadLength
    <2>1. Take(1) \/ (m >= 2 /\ Take(2))
      BY <1>2, <1>8 DEF ReadLength
    <2> QED
      BY <1>2, <1>3, <1>5, <2>1
  <1>9. CASE ReadData
    <2>1. chunk' = chunk \/ \E n : /\ n = (IF m >= rx.data_length - rx.count THEN rx.data_length - rx.count ELSE m)
                                  /\ Take(n)
      BY <1>2, <1>9 DEF ReadData
    <2>2. AtData
      BY <1>9 DEF ReadData, Reading, ParseInv, Parsing, AtCommand, AtSubfunction, AtLength, AtCrc, AtError
    <2>3. rx.data_length - rx.count \in Nat
      BY <1>1, <2>2 DEF AtData, Receptions
    <2> QED
      BY <1>2, <1>3, <1>4, <2>1, <2>3
  <1>10. CASE ReadCrc
    <2>1. chunk' = Tail(chunk)
      BY <1>10 DEF ReadCrc
    <2>2. chunk' = SubSeq(chunk, 1 + 1, m)
      BY <1>1, <1>2, <2>1, TailIs
    <2> QED
      BY <1>2, <1>5, <2>2
  <1> QED
    BY <1>6, <1>7, <1>8, <1>9, <1>10 DEF ReadByte

\* The burst is followed byte by byte.
LEMMA ReadFollows ==
  ASSUME ParseInv, FollowInv, fresh, ReadByte
  PROVE  Followed
  <1>1. /\ burst \in Seq(WireBytes) /\ chunk \in Seq(WireBytes) /\ wire \in Seq(WireBytes)
        /\ OnBurst \/ HeldFromBurst \/ Hopeless
    BY DEF FollowInv, ParseInv, ParseTypes
  <1>2. Cut
    BY DEF FollowInv, Cut
  <1>3. wire' = wire /\ burst' = burst /\ session_active' = session_active
    BY DEF ReadByte, ReadCommand, ReadSubfunction, ReadLength, ReadData, ReadCrc, DropRest, Outside, histories
  <1>4. CASE DropRest
    <2>1. chunk' = <<>> /\ rx' = rx /\ taken' = taken
      BY <1>4 DEF DropRest, receiver
    <2>2. PICK l \in Nat : l = Len(chunk) /\ l \in 0 .. Len(chunk)
      BY <1>1
    <2>3. chunk' = SubSeq(chunk, l + 1, Len(chunk))
      BY <2>1, <2>2
    <2>4. CutAt(l)
      BY <1>1, <1>2, <1>3, <2>2, <2>3, ChunkFollows
    <2>5. ~OnBurst
      BY <1>4 DEF DropRest, OnBurst
    <2>6. HeldFromBurst => HeldFromBurst'
      BY <1>3, <2>1 DEF HeldFromBurst
    <2>7. Hopeless => Hopeless'
      BY <1>3, HopelessStays
    <2> QED
      BY <1>1, <1>3, <2>4, <2>5, <2>6, <2>7 DEF CutAt, Followed
  <1>5. CASE ~DropRest /\ OnBurst
    <2>1. PICK v \in Seq(Byte), c \in Nat : On(v, c)
      BY <1>1, <1>2, <1>5, OnIs DEF OnBurst
    <2>2. ReadCommand \/ ReadSubfunction \/ ReadLength \/ ReadData \/ ReadCrc
      BY <1>5 DEF ReadByte
    <2> QED
      BY <1>1, <1>2, <2>1, <2>2, CommandFollows, SubfunctionFollows, LengthFollows, DataFollows, CrcFollows
  <1>6. CASE ~DropRest /\ ~OnBurst
    <2>1. ~rx.request_received
      BY <1>6 DEF ReadByte, ReadCommand, ReadSubfunction, ReadLength, ReadData, ReadCrc, Reading
    <2>2. Hopeless
      BY <1>1, <1>6, <2>1 DEF HeldFromBurst
    <2>3. chunk # <<>> /\ ParseTypes
      BY <1>6 DEF ReadByte, ReadCommand, ReadSubfunction, ReadLength, ReadData, ReadCrc, Reading, ParseInv
    <2>4. PICK n \in 0 .. Len(chunk) : chunk' = SubSeq(chunk, n + 1, Len(chunk))
      BY <1>6, <2>3, ReadsChunk
    <2> QED
      BY <1>1, <1>2, <1>3, <2>2, <2>4, StayFollows
  <1> QED
    BY <1>4, <1>5, <1>6

\* A burst that was followed so far is followed after the next piece is given.
LEMMA GivesMore ==
  ASSUME Quiet, ParseInv, SilenceInv, FollowInv, NEW n \in ChunkSizes, ReceiveData(n), fresh'
  PROVE  FollowInv'
  <1>1. /\ burst \in Seq(WireBytes) /\ wire \in Seq(WireBytes) /\ chunk = <<>>
        /\ n \in 1 .. Len(wire) /\ n \in Nat /\ state # "Transmitting"
        /\ now \in Times /\ last_rx_timestamp \in Times /\ silence \in Nat /\ session_active \in BOOLEAN
        /\ RxTimeout \in Nat \ {0} /\ ClockModulus \in Nat
    <2>1. burst \in Seq(WireBytes) /\ session_active \in BOOLEAN
      BY DEF FollowInv
    <2>2. wire \in Seq(WireBytes)
      BY DEF ParseInv, ParseTypes
    <2>3. chunk = <<>> /\ n \in 1 .. Len(wire) /\ state # "Transmitting"
      BY DEF ReceiveData, Returned
    <2>4. n \in Nat
      BY <2>2, <2>3
    <2>5. now \in Times /\ last_rx_timestamp \in Times /\ silence \in Nat
      BY DEF SilenceInv
    <2> QED
      BY <2>1, <2>2, <2>3, <2>4, <2>5, TimesAssumption, ModulusAssumption
  <1>2. /\ wire' = SubSeq(wire, n + 1, Len(wire)) /\ chunk' = SubSeq(wire, 1, n)
        /\ session_active' = session_active /\ burst' = burst /\ fresh' = TRUE
        /\ state' # "Transmitting"
        /\ IF ReceptionExpired THEN rx' = NoReception /\ taken' = <<>> ELSE rx' = rx /\ taken' = taken
        /\ IF wire = burst THEN silence \in RxTimeout .. ClockModulus - 1 ELSE fresh /\ silence < RxTimeout
    BY <1>1 DEF ReceiveData
  <1>3. PICK b \in Nat, w \in Nat : b = Len(burst) /\ w = Len(wire)
    BY <1>1
  <1>4. n >= 1 /\ n <= w /\ n \in Nat
    BY <1>1, <1>3
  <1>5. PICK left, part : left = SubSeq(wire, n + 1, w) /\ part = SubSeq(wire, 1, n)
    OBVIOUS
  <1>6. wire' = left /\ chunk' = part
    BY <1>2, <1>3, <1>5
  <1>7. left \in Seq(WireBytes) /\ Len(left) = w - n /\ part \in Seq(WireBytes) /\ Len(part) = n
    <2>1. PICK m \in Nat \ {0} : m = n + 1
      BY <1>4
    <2>2. IsPart(SubSeq(wire, m, w), WireBytes, wire, m, w)
      BY <1>1, <1>3, <1>4, <2>1, PartIs
    <2>3. IsPart(SubSeq(wire, 1, n), WireBytes, wire, 1, n)
      BY <1>1, <1>3, <1>4, PartIs
    <2>4. w + 1 - m = w - n /\ n + 1 - 1 = n
      BY <1>3, <1>4, <2>1
    <2> QED
      BY <1>5, <2>1, <2>2, <2>3, <2>4 DEF IsPart
  <1>8. PICK g \in Nat : /\ g + w = b
                         /\ wire = SubSeq(burst, g + 1, b)
                         /\ g = 0 <=> wire = burst
    <2>1. CASE wire = burst
      <3>1. burst = SubSeq(burst, 0 + 1, b)
        BY <1>1, <1>3, WholeSequence
      <3> QED
        BY <1>3, <2>1, <3>1
    <2>2. CASE wire # burst
      <3>1. fresh
        BY <1>2, <2>2
      <3>2. w < b /\ wire = SubSeq(burst, Given + 1, Len(burst))
        BY <1>3, <3>1 DEF FollowInv
      <3>3. PICK g \in Nat : g = b - w
        BY <3>2
      <3>4. g + w = b /\ g = Given /\ g # 0
        BY <1>3, <3>2, <3>3 DEF Given
      <3>5. wire = SubSeq(burst, g + 1, b)
        BY <1>3, <3>2, <3>4
      <3> QED
        BY <2>2, <3>4, <3>5
    <2> QED
      BY <2>1, <2>2
  <1>9. Given' = g + n /\ LookedAt' = g
    <2>1. Given' = b - (w - n)
      BY <1>2, <1>3, <1>6, <1>7 DEF Given
    <2>2. LookedAt' = Given' - n
      BY <1>6, <1>7 DEF LookedAt
    <2> QED
      BY <1>1, <1>4, <1>8, <2>1, <2>2
  <1>10. left = SubSeq(burst, (g + n) + 1, b) /\ part = SubSeq(burst, g + 1, g + n)
    <2>1. PICK m \in Nat \ {0}, a \in Nat \ {0} : m = g + 1 /\ a = n + 1
      BY <1>1
    <2>2. m <= b + 1 /\ b <= Len(burst) /\ a <= w + 1 /\ w <= b + 1 - m /\ 1 <= n + 1 /\ n <= b + 1 - m
      <3>1. g + w = b /\ b = Len(burst)
        BY <1>3, <1>8
      <3> QED
        BY <1>3, <1>4, <2>1, <3>1
    <2>3. SubSeq(SubSeq(burst, m, b), a, w) = SubSeq(burst, m + a - 1, m + w - 1)
      BY <1>1, <2>2, PartOfPart
    <2>4. SubSeq(SubSeq(burst, m, b), 1, n) = SubSeq(burst, m + 1 - 1, m + n - 1)
      BY <1>1, <2>2, PartOfPart
    <2>5. m + a - 1 = (g + n) + 1 /\ m + w - 1 = b /\ m + 1 - 1 = g + 1 /\ m + n - 1 = g + n
      BY <1>1, <1>8, <2>1
    <2>6. SubSeq(burst, m, b) = wire
      BY <1>8, <2>1
    <2> QED
      BY <1>5, <2>1, <2>3, <2>4, <2>5, <2>6
  <1>11. /\ Len(chunk') + Len(wire') <= Len(burst') /\ Len(wire') < Len(burst')
         /\ wire' = SubSeq(burst', Given' + 1, Len(burst'))
         /\ chunk' = SubSeq(burst', LookedAt' + 1, Given')
    <2>1. Len(chunk') = n /\ Len(wire') = w - n /\ burst' = burst /\ Len(burst) = b
      BY <1>2, <1>3, <1>6, <1>7
    <2>2. n + (w - n) <= b /\ w - n < b
      <3>1. g + w = b
        BY <1>8
      <3> QED
        BY <1>3, <1>4, <3>1
    <2>3. wire' = SubSeq(burst, Given' + 1, b)
      BY <1>6, <1>9, <1>10
    <2>4. chunk' = SubSeq(burst, LookedAt' + 1, Given')
      BY <1>6, <1>9, <1>10
    <2> QED
      BY <2>1, <2>2, <2>3, <2>4
  <1>12. SubSeq(burst, 1, 0) = <<>> /\ Values(<<>>) = <<>>
    <2>1. PICK e : e = SubSeq(burst, 1, 0)
      OBVIOUS
    <2>2. IsPart(e, WireBytes, burst, 1, 0)
      BY <1>1, <2>1, PartIs
    <2>3. e = <<>>
      BY <2>2 DEF IsPart
    <2>4. Values(<<>>) = <<>>
      BY DEF Values
    <2> QED
      BY <2>1, <2>3, <2>4
  <1>13. CASE wire = burst
    <2>1. rx' = NoReception /\ taken' = <<>>
      <3>1. silence < ClockModulus /\ silence >= RxTimeout
        BY <1>1, <1>2, <1>13
      <3>2. (rx = NoReception /\ taken = <<>>) \/ Elapsed(now, last_rx_timestamp) = silence
        BY <1>1, <3>1 DEF SilenceInv
      <3> QED
        BY <1>2, <3>1, <3>2 DEF ReceptionExpired, HasExpired
    <2>2. LookedAt' = 0
      BY <1>8, <1>9, <1>13
    <2>3. OnBurst'
      BY <1>2, <1>12, <2>1, <2>2 DEF OnBurst, NoReception
    <2> QED
      BY <1>1, <1>2, <1>11, <2>3 DEF FollowInv
  <1>14. CASE wire # burst
    <2>1. fresh /\ silence < RxTimeout
      BY <1>2, <1>14
    <2>2. rx' = rx /\ taken' = taken
      <3>1. CASE rx = NoReception /\ taken = <<>>
        BY <1>2, <3>1
      <3>2. CASE ~(rx = NoReception /\ taken = <<>>)
        <4>1. silence < ClockModulus => Elapsed(now, last_rx_timestamp) = silence
          BY <1>1, <3>2 DEF SilenceInv
        <4>2. Elapsed(now, last_rx_timestamp) \in 0 .. ClockModulus - 1
          <5>1. now + ClockModulus - last_rx_timestamp \in Nat
            BY <1>1 DEF Times
          <5> QED
            BY <5>1, CounterWraps, ModulusAssumption DEF Elapsed
        <4>3. Elapsed(now, last_rx_timestamp) < RxTimeout
          BY <1>1, <2>1, <4>1, <4>2
        <4>4. ~ReceptionExpired
          BY <1>1, <4>2, <4>3 DEF ReceptionExpired, HasExpired
        <4> QED
          BY <1>2, <4>4
      <3> QED
        BY <3>1, <3>2
    <2>3. OnBurst \/ HeldFromBurst \/ Hopeless
      BY <2>1 DEF FollowInv
    <2>4. LookedAt = g
      <3>1. Len(chunk) = 0 /\ Given = b - w
        BY <1>1, <1>3 DEF Given
      <3> QED
        BY <1>8, <3>1 DEF LookedAt
    <2>5. OnBurst => OnBurst'
      BY <1>2, <1>9, <2>2, <2>4 DEF OnBurst
    <2>6. HeldFromBurst => HeldFromBurst'
      BY <1>2, <2>2 DEF HeldFromBurst
    <2>7. Hopeless => Hopeless'
      BY <1>2, HopelessStays
    <2> QED
      BY <1>1, <1>2, <1>11, <2>3, <2>5, <2>6, <2>7 DEF FollowInv
  <1> QED
    BY <1>13, <1>14

\* A burst that did not come after a silence, or with a gap, is not followed.
LEMMA Unfollowed ==
  ASSUME burst' \in Seq(WireBytes), fresh' = FALSE, session_active' \in BOOLEAN
  PROVE  FollowInv'
  BY DEF FollowInv

\* FollowInv is inductive, given the rest of HearInv.
LEMMA FollowStep ==
  ASSUME HearInv, [Next]_vars
  PROVE  FollowInv'
  <1>0. /\ Quiet /\ ParseInv /\ SilenceInv /\ FollowInv /\ burst \in Seq(WireBytes)
        /\ fresh \in BOOLEAN /\ session_active \in BOOLEAN /\ <<>> \in Seq(WireBytes)
        /\ fresh => state # "Transmitting"
    BY DEF HearInv, FollowInv
  <1>1. ASSUME NEW b \in Bursts, SendBurst(b)
        PROVE  FollowInv'
    <2>1. burst' \in Seq(WireBytes) /\ fresh' = FALSE /\ session_active' = session_active
      BY <1>1, BurstsAssumption DEF SendBurst
    <2> QED
      BY <1>0, <2>1, Unfollowed
  <1>2. ASSUME NEW n \in ChunkSizes, ReceiveData(n)
        PROVE  FollowInv'
    <2>1. CASE fresh'
      BY <1>0, <1>2, <2>1, GivesMore
    <2>2. CASE ~fresh'
      <3>1. fresh' = FALSE
        BY <1>0, <1>2, <2>2 DEF ReceiveData
      <3>2. burst' = <<>> /\ session_active' = session_active
        BY <1>2, <2>2 DEF ReceiveData
      <3> QED
        BY <1>0, <3>1, <3>2, Unfollowed
    <2> QED
      BY <2>1, <2>2
  <1>3. CASE ReadByte
    <2>1. fresh' = fresh /\ burst' = burst /\ session_active' = session_active
      BY <1>3 DEF ReadByte, ReadCommand, ReadSubfunction, ReadLength, ReadData, ReadCrc, DropRest, Outside, histories
    <2>2. CASE fresh
      <3>1. Followed
        BY <1>0, <1>3, <2>2, ReadFollows
      <3>2. state' # "Transmitting"
        BY <1>0, <1>3, ReadingIsIdle
      <3> QED
        BY <1>0, <2>1, <3>1, <3>2 DEF Followed, Cut, FollowInv
    <2>3. CASE ~fresh
      BY <1>0, <2>1, <2>3, Unfollowed
    <2> QED
      BY <2>2, <2>3
  <1>4. ASSUME NEW r \in Responses, Serve(r)
        PROVE  FollowInv'
    <2>1. fresh' = FALSE /\ burst' \in Seq(WireBytes)
      BY <1>0, <1>4 DEF Serve, Unfresh
    <2>2. session_active' \in BOOLEAN
      BY <1>0, <1>4 DEF Serve
    <2> QED
      BY <2>1, <2>2, Unfollowed
  <1>5. ASSUME NEW n \in PopSizes, PopData(n)
        PROVE  FollowInv'
    <2>1. fresh' = fresh /\ burst' = burst /\ session_active' = session_active /\ state = "Transmitting"
      BY <1>5 DEF PopData, histories
    <2> QED
      BY <1>0, <2>1, Unfollowed
  <1>6. CASE Expire
    <2>1. fresh' = FALSE /\ burst' \in Seq(WireBytes) /\ session_active' = FALSE
      BY <1>0, <1>6 DEF Expire, Unfresh
    <2> QED
      BY <2>1, Unfollowed
  <1>7. ASSUME /\ fresh' = fresh /\ burst' = burst /\ session_active' = session_active /\ state' = state
               /\ chunk' = chunk /\ wire' = wire /\ rx' = rx /\ taken' = taken
        PROVE  FollowInv'
    <2>1. Given' = Given /\ LookedAt' = LookedAt
      BY <1>7 DEF Given, LookedAt
    <2>2. (OnBurst => OnBurst') /\ (HeldFromBurst => HeldFromBurst')
      BY <1>7, <2>1 DEF OnBurst, HeldFromBurst
    <2>3. Hopeless => Hopeless'
      BY <1>7, HopelessStays
    <2> QED
      BY <1>0, <1>7, <2>1, <2>2, <2>3 DEF FollowInv
  <1>8. ASSUME NEW dt \in Timesteps, Tick(dt)
        PROVE  FollowInv'
    BY <1>7, <1>8 DEF Tick, receiver
  <1>9. CASE UNCHANGED vars
    BY <1>7, <1>9 DEF vars, receiver, histories
  <1> QED
    BY <1>1, <1>2, <1>3, <1>4, <1>5, <1>6, <1>8, <1>9 DEF Next, Send, Receive, DoServe, Pop, DoTick

\* receive_data() reads a chunk to its end before anything else happens.
LEMMA QuietStep ==
  ASSUME Quiet, [Next]_vars
  PROVE  Quiet'
  <1>1. ASSUME chunk' = <<>> PROVE Quiet'
    BY <1>1 DEF Quiet
  <1>2. ASSUME NEW b \in Bursts, SendBurst(b) PROVE Quiet'
    BY <1>1, <1>2 DEF SendBurst, Returned
  <1>3. ASSUME NEW n \in ChunkSizes, ReceiveData(n) PROVE Quiet'
    <2>1. CASE state = "Transmitting"
      BY <1>1, <1>3, <2>1 DEF ReceiveData, Returned
    <2>2. CASE state # "Transmitting"
      BY <1>3, <2>2 DEF ReceiveData, Quiet
    <2> QED
      BY <2>1, <2>2
  <1>4. CASE ReadByte
    BY <1>4, ReadingIsIdle DEF Quiet
  <1>5. ASSUME NEW r \in Responses, Serve(r) PROVE Quiet'
    BY <1>1, <1>5 DEF Serve, Returned
  <1>6. ASSUME NEW n \in PopSizes, PopData(n) PROVE Quiet'
    BY <1>1, <1>6 DEF PopData, Returned
  <1>7. CASE Expire
    BY <1>1, <1>7 DEF Expire, Returned
  <1>8. ASSUME NEW dt \in Timesteps, Tick(dt) PROVE Quiet'
    BY <1>1, <1>8 DEF Tick, Returned
  <1>9. CASE UNCHANGED vars
    BY <1>9 DEF vars, receiver, Quiet
  <1> QED
    BY <1>2, <1>3, <1>4, <1>5, <1>6, <1>7, <1>8, <1>9 DEF Next, Send, Receive, DoServe, Pop, DoTick

\* HearInv is inductive.
LEMMA HearStep ==
  ASSUME HearInv, [Next]_vars
  PROVE  HearInv'
  <1>1. Quiet /\ ParseInv /\ SilenceInv
    BY DEF HearInv
  <1>2. Quiet'
    BY <1>1, QuietStep
  <1>3. ParseInv'
    BY <1>1, ParseStep
  <1>4. SilenceInv'
    BY <1>1, SilenceStep
  <1>5. FollowInv'
    BY FollowStep
  <1> QED
    BY <1>2, <1>3, <1>4, <1>5 DEF HearInv

\* No burst has come.
LEMMA HearInit == Init => HearInv
  <1> SUFFICES ASSUME Init PROVE HearInv
    OBVIOUS
  <1>1. Quiet
    BY DEF Init, Quiet
  <1>2. SilenceInv
    BY ModulusAssumption DEF Init, SilenceInv, Times
  <1>3. FollowInv
    <2>1. burst = <<>> /\ fresh = FALSE /\ session_active = FALSE
      BY DEF Init
    <2>2. burst \in Seq(WireBytes)
      BY <2>1
    <2> QED
      BY <2>1, <2>2 DEF FollowInv
  <1> QED
    BY <1>1, <1>2, <1>3, ParseInit DEF HearInv

\* The request held is the one of the burst.
LEMMA HeldIsSent ==
  ASSUME ParseInv, HeldFromBurst, burst \in Seq(WireBytes), NEW v \in Seq(Byte), v = Values(burst),
         NEW k, NEW r \in Requests, NEW l \in Nat, Asks(k, r, l, v)
  PROVE  ActiveRequest = r
  <1>1. /\ rx \in Receptions /\ taken \in Seq(Byte) /\ rx_buffer \in [0 .. RxBufferSize - 1 -> Byte]
        /\ RxBufferSize \in Nat
    BY BuffersAssumption DEF ParseInv, ParseTypes
  <1>2. AtProcess
    BY DEF HeldFromBurst, ParseInv, Parsing
  <1>3. PICK d \in Nat : d = rx.data_length
    BY <1>1 DEF Receptions
  <1>4. PICK c \in Nat : c = Len(taken)
    BY <1>1
  <1>5. /\ c = 8 + d /\ rx.command = taken[1] /\ rx.subfunction = taken[2]
        /\ d = 256 * taken[3] + taken[4] /\ taken = RequestFrame(ActiveRequest)
    BY <1>2, <1>3, <1>4 DEF AtProcess, HeaderTaken, TakenLength
  <1>6. ValuesAre(v, burst)
    BY ValuesIs
  <1>7. c <= Len(v) /\ taken = SubSeq(v, 1, c)
    <2>1. c <= Len(burst) /\ taken = Values(SubSeq(burst, 1, c))
      BY <1>4 DEF HeldFromBurst
    <2> QED
      BY <1>6, <2>1, ValuesOfPrefix DEF ValuesAre
  <1>8. \A i \in 1 .. c : taken[i] = v[i]
    <2>1. IsPrefix(SubSeq(v, 1, c), v, c)
      BY <1>7, PrefixIs
    <2> QED
      BY <1>7, <2>1 DEF IsPrefix
  <1>9. /\ l <= RxBufferSize /\ l = Len(r.data) /\ 256 * v[3] + v[4] = l
        /\ r.command = v[1] /\ r.subfunction = v[2] /\ \A i \in 1 .. l : v[4 + i] = r.data[i]
    BY DEF Asks, BeginsWith
  <1>10. taken[1] = v[1] /\ taken[2] = v[2] /\ taken[3] = v[3] /\ taken[4] = v[4]
    <2>1. 1 \in 1 .. c /\ 2 \in 1 .. c /\ 3 \in 1 .. c /\ 4 \in 1 .. c
      BY <1>5
    <2> QED
      BY <1>8, <2>1
  <1>11. d = l
    BY <1>5, <1>9, <1>10
  <1> DEFINE data == [i \in 1 .. d |-> rx_buffer[i - 1]]
  <1>12. ActiveRequest = [command |-> rx.command, subfunction |-> rx.subfunction, data |-> data]
    BY <1>3 DEF ActiveRequest
  <1>13. data \in Seq(Byte) /\ Len(data) = d
    <2>1. ASSUME NEW i \in 1 .. d PROVE rx_buffer[i - 1] \in Byte
      <3>1. i - 1 \in 0 .. RxBufferSize - 1
        BY <1>1, <1>9, <1>11
      <3> QED
        BY <1>1, <3>1
    <2>2. data \in [1 .. d -> Byte] /\ DOMAIN data = 1 .. d
      BY <2>1
    <2> HIDE DEF data
    <2>3. data \in Seq(Byte)
      BY <2>2, SeqDef
    <2> QED
      BY <2>2, <2>3, LenProperties
  <1> HIDE DEF data
  <1>14. PICK q : q = ActiveRequest
    OBVIOUS
  <1>15. q \in Requests /\ q.data = data /\ q.command = rx.command /\ q.subfunction = rx.subfunction
    <2>1. rx.command \in 0 .. 127 /\ rx.subfunction \in Byte
      BY <1>1 DEF Receptions
    <2> QED
      BY <1>12, <1>13, <1>14, <2>1 DEF Requests
  <1>16. Frames(taken, q, d)
    <2>1. Len(q.data) = d /\ d <= RxBufferSize
      BY <1>9, <1>11, <1>13, <1>15
    <2>2. Frames(RequestFrame(q), q, Len(q.data))
      BY <1>15, <2>1, RequestIs
    <2>3. RequestFrame(q) = taken
      BY <1>5, <1>14
    <2> QED
      BY <2>1, <2>2, <2>3
  <1>17. ASSUME NEW i \in 1 .. l PROVE data[i] = r.data[i]
    <2>1. taken[4 + i] = data[i]
      BY <1>11, <1>15, <1>16 DEF Frames
    <2>2. 4 + i \in 1 .. c
      BY <1>5, <1>11
    <2> QED
      BY <1>8, <1>9, <2>1, <2>2
  <1>18. /\ r = [command |-> r.command, subfunction |-> r.subfunction, data |-> r.data]
         /\ r.data \in Seq(Byte)
    BY DEF Requests
  <1>19. data = r.data
    BY <1>9, <1>11, <1>13, <1>17, <1>18, SeqEqual
  <1> QED
    BY <1>5, <1>9, <1>10, <1>12, <1>18, <1>19

\* A burst that is followed and has such a request was heard.
LEMMA GivenIsHeard ==
  ASSUME HearInv, fresh, chunk = <<>>, NEW k \in 1 .. Len(burst) - Len(wire), Acceptable(k)
  PROVE  rx.request_received /\ ActiveRequest = burst[k].ends
  <1>1. /\ burst \in Seq(WireBytes) /\ wire \in Seq(WireBytes) /\ taken \in Seq(Byte) /\ rx \in Receptions
        /\ ParseInv /\ chunk \in Seq(WireBytes) /\ Parsing
    BY DEF HearInv, FollowInv, ParseInv, ParseTypes
  <1>2. Cut /\ (OnBurst \/ HeldFromBurst \/ Hopeless)
    BY DEF HearInv, FollowInv, Cut
  <1>3. PICK g \in Nat, c \in Nat, n \in Nat : GivenAt(g, c, n)
    BY <1>1, <1>2, GivenIs
  <1>4. g = LookedAt /\ g = Len(burst) - Len(wire) /\ g <= Len(burst)
    <2>1. n = 0 /\ c = g
      BY <1>3 DEF GivenAt
    <2> QED
      BY <1>3, <2>1 DEF GivenAt
  <1>5. k \in 1 .. Len(burst) /\ k <= g /\ k \in Nat
    BY <1>1, <1>4
  <1>6. ~Hopeless
    BY <1>5 DEF Hopeless
  <1>7. PICK v : v = Values(burst)
    OBVIOUS
  <1>8. v \in Seq(Byte) /\ Len(v) = Len(burst)
    BY <1>1, <1>7, ValuesIs DEF ValuesAre
  <1>9. PICK r \in Requests, l \in Nat : Asks(k, r, l, v)
    BY <1>1, <1>5, <1>7, AcceptableIs
  <1>10. r = burst[k].ends /\ k = 8 + l /\ 256 * v[3] + v[4] = l
    BY <1>9 DEF Asks, BeginsWith
  <1>11. CASE HeldFromBurst
    <2>1. ActiveRequest = r
      BY <1>1, <1>7, <1>8, <1>9, <1>11, HeldIsSent
    <2> QED
      BY <1>10, <1>11, <2>1 DEF HeldFromBurst
  <1>12. CASE OnBurst
    <2>1. PICK u \in Seq(Byte), t \in Nat : On(u, t)
      BY <1>1, <1>2, <1>12, OnIs DEF OnBurst
    <2>2. u = v /\ t = g /\ Len(taken) = g /\ \A i \in 1 .. g : taken[i] = v[i]
      BY <1>4, <1>7, <2>1 DEF On
    <2>3. 256 * taken[3] + taken[4] = l
      <3>1. 3 \in 1 .. g /\ 4 \in 1 .. g
        BY <1>5, <1>10
      <3> QED
        BY <1>10, <2>2, <3>1
    <2>4. Len(taken) >= 8 + l
      BY <1>5, <1>10, <2>2
    <2>5. PICK d \in Nat, q \in Nat : d = rx.data_length /\ q = rx.count
      BY <1>1 DEF Receptions
    <2>6. AtCommand \/ AtSubfunction \/ AtLength \/ AtData \/ AtCrc
      BY <1>1, <1>12 DEF OnBurst, Parsing, AtError
    <2>7. AtData \/ AtCrc => d = l
      BY <2>3, <2>5 DEF AtData, AtCrc, HeaderTaken, TakenLength
    <2>8. ~AtCommand /\ ~AtSubfunction
      <3>1. Len(taken) \in Nat /\ Len(taken) >= 8
        BY <1>1, <2>4
      <3>2. ASSUME AtSubfunction PROVE FALSE
        <4>1. Len(taken) = 1
          BY <3>2 DEF AtSubfunction
        <4> QED
          BY <3>1, <4>1
      <3>3. taken # <<>>
        BY <3>1
      <3> QED
        BY <3>2, <3>3 DEF AtCommand
    <2>9. ~AtLength
      BY <2>4, <2>5 DEF AtLength
    <2>10. ~AtData
      BY <2>4, <2>5, <2>7 DEF AtData
    <2>11. ~AtCrc
      BY <2>4, <2>5, <2>7 DEF AtCrc
    <2> QED
      BY <2>6, <2>8, <2>9, <2>10, <2>11
  <1> QED
    BY <1>2, <1>6, <1>11, <1>12

\* HearInv says more than the property.
LEMMA HearsBursts ==
  ASSUME HearInv
  PROVE  FreshBurstHeard
  <1> SUFFICES ASSUME fresh, Returned, NEW k \in 1 .. Len(burst) - Len(wire),
                      NEW r, r = burst[k].ends, r # NoRequest, Len(r.data) <= RxBufferSize,
                      Values(SubSeq(burst, 1, k)) = RequestFrame(r),
                      session_active \/ AcceptedWithoutSession(r)
               PROVE  rx.request_received /\ ActiveRequest = r
    BY DEF FreshBurstHeard
  <1>1. Acceptable(k)
    BY DEF Acceptable
  <1> QED
    BY <1>1, GivenIsHeard DEF Returned

\* After a silence longer than the reception timeout, whatever came before, a frame that
\* receive_data() gets without a gap is heard, however it is cut.
THEOREM BurstsAreHeard == Spec => []FreshBurstHeard
  <1>1. HearInv /\ [Next]_vars => HearInv'
    BY HearStep
  <1>2. HearInv => FreshBurstHeard
    BY HearsBursts
  <1> QED
    BY <1>1, <1>2, HearInit, PTL DEF Spec

====
