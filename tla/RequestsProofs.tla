----------------------------- MODULE RequestsProofs -----------------------------
(***************************************************************************)
(* Proofs about Requests: the answers of the handlers tell what the device *)
(* is, a client that enumerates the published values gets them all, a      *)
(* configuration is accepted only from the request that is its encoding,   *)
(* and what is accepted reads nothing it may not.                          *)
(*                                                                         *)
(* Codecs are recursive functions over the bytes: that they are well       *)
(* founded, and what they return, is shown with a finite sequence of the   *)
(* intermediate values, since two such sequences are equal (UpTo) and one  *)
(* exists (Recursion).  From there: numbers and their bytes, elements and  *)
(* their bytes, requests decoded and written again; then one invariant for *)
(* the configurations, one for the enumeration and one for the answers.    *)
(***************************************************************************)
EXTENDS Requests, Integers, TLAPS, WellFoundedInduction, SequenceTheorems

-----------------------------------------------------------------------------
(* Quotients, induction, and functions defined by recursion.  The          *)
(* induction is over a set of numbers and the steps of a recursion are a   *)
(* function, so that first-order provers can use both.                     *)

\* A counter that goes around once at most.
LEMMA SmallMod ==
  ASSUME NEW n \in Nat, NEW m \in Nat \ {0}, n < 2 * m
  PROVE  n % m = IF n < m THEN n ELSE n - m
  <1>1. CASE n < m
    BY <1>1
  <1>2. CASE n >= m
    <2>1. (n - m) % m = n - m
      BY <1>2
    <2>2. n % m = (n - m) % m
      BY <1>2
    <2> QED
      BY <1>2, <2>1, <2>2
  <1> QED
    BY <1>1, <1>2

LEMMA CounterWraps == ASSUME NEW n \in Nat, NEW m \in Nat \ {0} PROVE n % m \in 0 .. m - 1
  OBVIOUS

LEMMA Quotients == ASSUME NEW n \in Nat, NEW m \in Nat \ {0} PROVE n \div m \in Nat
  OBVIOUS

\* Slot j ends where slot j + 1 begins, and slots do not overlap.
LEMMA SlotsApart ==
  ASSUME NEW i \in Nat, NEW j \in Nat, NEW size \in Nat, i < j
  PROVE  /\ i * size \in Nat /\ j * size \in Nat
         /\ i * size + size <= j * size
  <1>1. (i + 1) * size = i * size + size
    OBVIOUS
  <1>2. PICK k \in Nat : j = i + 1 + k
    <2>1. j - (i + 1) \in Nat /\ j = i + 1 + (j - (i + 1))
      OBVIOUS
    <2> QED
      BY <2>1
  <1>3. j * size = (i + 1) * size + k * size
    BY <1>2
  <1>4. k * size \in Nat /\ i * size \in Nat /\ j * size \in Nat
    OBVIOUS
  <1> QED
    BY <1>1, <1>3, <1>4

\* The quotient and the remainder.
LEMMA Division ==
  ASSUME NEW p \in Nat, NEW size \in Nat \ {0}
  PROVE  \E q \in Nat, r \in 0 .. size - 1 : q = p \div size /\ r = p % size /\ p = q * size + r
  <1>1. PICK q \in Nat : q = p \div size
    BY Quotients
  <1>2. p % size \in 0 .. size - 1
    BY CounterWraps
  <1>3. PICK r \in 0 .. size - 1 : r = p % size
    BY <1>2
  <1>4. p = size * q + r
    BY <1>1, <1>3
  <1>5. p = q * size + r
    BY <1>3, <1>4
  <1> QED
    BY <1>1, <1>3, <1>5

\* The quotient and the remainder are the only ones.
LEMMA QuotientIs ==
  ASSUME NEW m \in Nat \ {0}, NEW q \in Nat, NEW r \in 0 .. m - 1, NEW p \in Nat, p = q * m + r
  PROVE  p \div m = q /\ p % m = r
  <1>1. PICK a \in Nat, b \in 0 .. m - 1 : a = p \div m /\ b = p % m /\ p = a * m + b
    BY Division
  <1>2. a * m \in Nat /\ q * m \in Nat
    OBVIOUS
  <1>3. CASE a < q
    <2>1. a * m + m <= q * m
      BY <1>3, SlotsApart
    <2> QED
      BY <1>1, <1>2, <2>1
  <1>4. CASE q < a
    <2>1. q * m + m <= a * m
      BY <1>4, SlotsApart
    <2> QED
      BY <1>1, <1>2, <2>1
  <1>5. CASE a = q
    BY <1>1, <1>2, <1>5
  <1> QED
    BY <1>3, <1>4, <1>5

\* To divide by a product is to divide twice.
LEMMA NestedDivision ==
  ASSUME NEW v \in Nat, NEW w \in Nat \ {0}, NEW b \in Nat \ {0}
  PROVE  b * w \in Nat \ {0} /\ v \div (b * w) = (v \div w) \div b
  <1>1. PICK q \in Nat, r \in 0 .. w - 1 : q = v \div w /\ v = q * w + r
    BY Division
  <1>2. PICK c \in Nat, d \in 0 .. b - 1 : c = q \div b /\ q = c * b + d
    BY Division
  <1>3. d * w + w <= b * w
    BY SlotsApart
  <1>4. b * w \in Nat /\ d * w \in Nat /\ b * w # 0
    BY <1>3
  <1>5. d * w + r \in 0 .. b * w - 1
    BY <1>3, <1>4
  <1>6. q * w = (c * b) * w + d * w
    BY <1>2
  <1>7. (c * b) * w = c * (b * w)
    BY <1>4
  <1>8. v = c * (b * w) + (d * w + r)
    <2>1. c * (b * w) \in Nat
      BY <1>4
    <2> QED
      BY <1>1, <1>4, <1>6, <1>7, <2>1
  <1> DEFINE m == b * w
             s == d * w + r
  <1>9. m \in Nat \ {0} /\ s \in 0 .. m - 1 /\ v = c * m + s
    BY <1>4, <1>5, <1>8
  <1> HIDE DEF m, s
  <1>10. v \div m = c
    BY <1>9, QuotientIs
  <1> QED
    BY <1>1, <1>2, <1>4, <1>10 DEF m

LEMMA LeastNumber ==
  ASSUME NEW T \in SUBSET Nat, T # {}
  PROVE  \E m \in T : \A k \in T : m <= k
  <1> DEFINE R == OpToRel(<, Nat)
  <1>1. \E x \in T : \A y \in T : ~ (<<y, x>> \in R)
    BY NatLessThanWellFounded, WFMin
  <1>2. \A x, y \in Nat : y < x => <<y, x>> \in R
    BY DEF OpToRel
  <1> HIDE DEF R
  <1>3. PICK m \in T : \A k \in T : ~ (<<k, m>> \in R)
    BY <1>1
  <1>4. \A k \in T : ~(k < m)
    BY <1>2, <1>3
  <1> QED
    BY <1>4

\* Induction from 0 up to m.
LEMMA UpTo ==
  ASSUME NEW m \in Nat, NEW S, 0 \in S, \A n \in 1 .. m : n - 1 \in S => n \in S
  PROVE  \A n \in 0 .. m : n \in S
  <1> DEFINE T == {n \in 0 .. m : n \notin S}
  <1>1. SUFFICES ASSUME T # {} PROVE FALSE
    OBVIOUS
  <1>2. PICK n \in T : \A k \in T : n <= k
    <2>1. T \in SUBSET Nat
      OBVIOUS
    <2> HIDE DEF T
    <2> QED
      BY <1>1, <2>1, LeastNumber
  <1>3. n \in 1 .. m /\ n \notin S
    BY <1>2
  <1>4. n - 1 \in 0 .. m /\ n - 1 \notin T
    BY <1>2, <1>3
  <1> QED
    BY <1>3, <1>4

\* step[n] makes the value at n of the one at n - 1.
Stepping(step, m, V) == step \in [1 .. m -> [V -> V]]

\* f is computed by these steps up to n, as long as its values are in V.
Follows(f, base, step, n, V) ==
    f[0] = base /\ \A k \in 1 .. n : f[k - 1] \in V => f[k] = step[k][f[k - 1]]

LEMMA Recursion ==
  ASSUME NEW m \in Nat, NEW V, NEW base \in V, NEW step, Stepping(step, m, V)
  PROVE  \E f : f \in [0 .. m -> V] /\ Follows(f, base, step, m, V)
  <1> DEFINE S == {k \in 0 .. m : \E f \in [0 .. k -> V] : Follows(f, base, step, k, V)}
  <1>1. 0 \in S
    <2> DEFINE g == [n \in 0 .. 0 |-> base]
    <2>1. g \in [0 .. 0 -> V] /\ Follows(g, base, step, 0, V)
      BY DEF Follows
    <2> HIDE DEF g
    <2>2. \E f \in [0 .. 0 -> V] : Follows(f, base, step, 0, V)
      BY <2>1
    <2> QED
      BY <2>2
  <1>2. ASSUME NEW k \in 1 .. m, k - 1 \in S PROVE k \in S
    <2>1. PICK f \in [0 .. k - 1 -> V] : Follows(f, base, step, k - 1, V)
      BY <1>2
    <2> DEFINE g == [n \in 0 .. k |-> IF n = k THEN step[k][f[k - 1]] ELSE f[n]]
    <2>2. k - 1 \in 0 .. k - 1 /\ f[k - 1] \in V /\ step[k] \in [V -> V]
      BY DEF Stepping
    <2>3. g \in [0 .. k -> V]
      BY <2>2
    <2>4. ASSUME NEW n \in 1 .. k PROVE g[n] = step[n][g[n - 1]]
      <3>1. CASE n = k
        BY <2>2, <3>1
      <3>2. CASE n # k
        <4>1. n \in 1 .. k - 1 /\ n - 1 \in 0 .. k /\ n - 1 # k /\ n - 1 \in 0 .. k - 1
          BY <3>2
        <4> QED
          BY <2>1, <4>1 DEF Follows
      <3> QED
        BY <3>1, <3>2
    <2>5. g[0] = base
      BY <2>1 DEF Follows
    <2> HIDE DEF g
    <2>6. Follows(g, base, step, k, V)
      BY <2>4, <2>5 DEF Follows
    <2>7. \E h \in [0 .. k -> V] : Follows(h, base, step, k, V)
      BY <2>3, <2>6
    <2> QED
      BY <2>7
  <1>3. m \in S
    <2> HIDE DEF S
    <2>1. \A n \in 0 .. m : n \in S
      BY <1>1, <1>2, UpTo
    <2> QED
      BY <2>1
  <1> QED
    BY <1>3

-----------------------------------------------------------------------------
(* Numbers and their bytes *)

\* The weights of bytes.
Weights(w, n) == w[0] = 1 /\ \A k \in 1 .. n : w[k] = 256 * w[k - 1]

\* The weights of bytes are the only ones.
LEMMA SameWeights ==
  ASSUME NEW n \in Nat, NEW v, Weights(v, n), NEW w, Weights(w, n)
  PROVE  \A k \in 0 .. n : v[k] = w[k]
  <1> DEFINE S == {k \in 0 .. n : v[k] = w[k]}
  <1>1. 0 \in S /\ \A k \in 1 .. n : k - 1 \in S => k \in S
    BY DEF Weights
  <1> HIDE DEF S
  <1>2. \A k \in 0 .. n : k \in S
    BY <1>1, UpTo
  <1> QED
    BY <1>2 DEF S

\* There are weights for any number of bytes.
LEMMA SomeWeights ==
  ASSUME NEW n \in Nat
  PROVE  \E w \in [0 .. n -> Nat \ {0}] : Weights(w, n)
  <1> DEFINE V == Nat \ {0}
             times(v) == 256 * v
             step == [k \in 1 .. n |-> [v \in V |-> times(v)]]
  <1>1. \A v \in V : times(v) \in V
    OBVIOUS
  <1>2. 1 \in V
    OBVIOUS
  <1> HIDE DEF V, times
  <1>3. Stepping(step, n, V)
    BY <1>1 DEF Stepping
  <1>4. \A k \in 1 .. n, v \in V : step[k][v] = times(v)
    OBVIOUS
  <1> HIDE DEF step
  <1>5. PICK w : w \in [0 .. n -> V] /\ Follows(w, 1, step, n, V)
    BY <1>2, <1>3, Recursion
  <1>6. ASSUME NEW k \in 1 .. n PROVE w[k] = times(w[k - 1])
    <2>1. k - 1 \in 0 .. n
      OBVIOUS
    <2>2. w[k - 1] \in V
      BY <1>5, <2>1
    <2> QED
      BY <1>4, <1>5, <2>2 DEF Follows
  <1>7. Weights(w, n)
    BY <1>5, <1>6 DEF Follows, Weights, times
  <1> QED
    BY <1>5, <1>7 DEF V

\* Weight(n) is the last weight of any sequence of weights: its recursion is well founded.
LEMMA WeightIs ==
  ASSUME NEW n \in Nat, NEW w, Weights(w, n)
  PROVE  Weight(n) = w[n]
  <1> DEFINE R(v) == v = [k \in 0 .. n |-> IF k = 0 THEN 1 ELSE 256 * v[k - 1]]
  <1>1. R([k \in 0 .. n |-> w[k]])
    BY DEF Weights
  <1>2. PICK v : R(v) /\ Weight(n) = v[n]
    BY <1>1 DEF Weight
  <1>3. Weights(v, n)
    BY <1>2 DEF Weights
  <1> HIDE DEF R
  <1>4. v[n] = w[n]
    BY <1>3, SameWeights
  <1> QED
    BY <1>2, <1>4

\* The recursion of Weight.
LEMMA WeightSteps ==
  /\ Weight(0) = 1
  /\ \A n \in Nat : Weight(n) \in Nat \ {0} /\ Weight(n + 1) = 256 * Weight(n)
  <1>1. ASSUME NEW n \in Nat PROVE Weight(n) \in Nat \ {0} /\ Weight(n + 1) = 256 * Weight(n)
    <2>1. n + 1 \in Nat
      OBVIOUS
    <2>2. PICK w \in [0 .. n + 1 -> Nat \ {0}] : Weights(w, n + 1)
      BY <2>1, SomeWeights
    <2>3. Weights(w, n)
      BY <2>2 DEF Weights
    <2>4. Weight(n) = w[n] /\ Weight(n + 1) = w[n + 1]
      BY <2>1, <2>2, <2>3, WeightIs
    <2> QED
      BY <2>2, <2>4 DEF Weights
  <1>2. Weight(0) = 1
    <2>1. PICK w \in [0 .. 0 -> Nat \ {0}] : Weights(w, 0)
      BY SomeWeights
    <2> QED
      BY <2>1, WeightIs DEF Weights
  <1> QED
    BY <1>1, <1>2

\* A number encoded is a sequence of bytes.
LEMMA EncodeIs ==
  ASSUME NEW v \in Nat, NEW n \in Nat
  PROVE  /\ Encode(v, n) \in Seq(Byte) /\ Len(Encode(v, n)) = n
         /\ \A i \in 1 .. n : Encode(v, n)[i] = (v \div Weight(n - i)) % 256
  <1>1. ASSUME NEW i \in 1 .. n PROVE (v \div Weight(n - i)) % 256 \in Byte
    <2>1. Weight(n - i) \in Nat \ {0}
      BY WeightSteps
    <2>2. v \div Weight(n - i) \in Nat
      BY <2>1, Quotients
    <2> QED
      BY <2>2 DEF Byte
  <1> QED
    BY <1>1 DEF Encode

\* The last byte of a number, and the number before it.
Low(v) == v % 256
High(v) == v \div 256

\* The last byte of an encoded number, and the bytes before it.
LEMMA LastByte ==
  ASSUME NEW v \in Nat
  PROVE  High(v) \in Nat /\ Low(v) \in Byte /\ v = 256 * High(v) + Low(v)
  BY SMT DEF Byte, High, Low

\* A number is encoded as what precedes its last byte, then that byte.
LEMMA EncodeSteps ==
  ASSUME NEW v \in Nat, NEW n \in Nat, NEW m \in Nat, n = m + 1
  PROVE  /\ Encode(v, n)[n] = Low(v)
         /\ \A i \in 1 .. m : Encode(v, n)[i] = Encode(High(v), m)[i]
  <1>1. Encode(v, n)[n] = v % 256
    <2>1. n \in Nat /\ n \in 1 .. n /\ n - n = 0 /\ v \div 1 = v
      OBVIOUS
    <2>2. Encode(v, n)[n] = (v \div Weight(0)) % 256
      BY <2>1, EncodeIs
    <2> QED
      BY <2>1, <2>2, WeightSteps
  <1>2. ASSUME NEW i \in 1 .. m PROVE Encode(v, n)[i] = Encode(High(v), m)[i]
    <2>1. PICK k \in Nat : k = m - i
      OBVIOUS
    <2>2. n \in Nat /\ i \in 1 .. n /\ n - i = k + 1
      BY <2>1
    <2>3. Encode(v, n)[i] = (v \div Weight(k + 1)) % 256
      <3>1. Encode(v, n)[i] = (v \div Weight(n - i)) % 256
        BY <2>2, EncodeIs
      <3> QED
        BY <2>2, <3>1
    <2>4. Encode(High(v), m)[i] = (High(v) \div Weight(k)) % 256
      <3>1. PICK h \in Nat : h = High(v)
        BY LastByte
      <3>2. Encode(h, m)[i] = (h \div Weight(m - i)) % 256
        BY EncodeIs
      <3>3. Weight(m - i) = Weight(k)
        BY <2>1
      <3> QED
        BY <3>1, <3>2, <3>3
    <2>5. PICK w \in Nat \ {0} : w = Weight(k) /\ Weight(k + 1) = 256 * w
      BY <2>1, WeightSteps
    <2>6. v \div (w * 256) = High(v) \div w
      BY NestedDivision DEF High
    <2>7. w * 256 = 256 * w
      OBVIOUS
    <2> QED
      BY <2>3, <2>4, <2>5, <2>6, <2>7
  <1> QED
    BY <1>1, <1>2 DEF Low

\* The bytes of numbers of 16 and 32 bits.
LEMMA TwoBytes ==
  ASSUME NEW v \in Nat
  PROVE  /\ Encode(v, 2) \in Seq(Byte) /\ Len(Encode(v, 2)) = 2
         /\ Encode(v, 2)[1] = Low(High(v)) /\ Encode(v, 2)[2] = Low(v)
  <1>1. Encode(v, 2) \in Seq(Byte) /\ Len(Encode(v, 2)) = 2
    BY ZenonT(60), EncodeIs
  <1>2. Encode(v, 2)[2] = Low(v) /\ \A k \in 1 .. 1 : Encode(v, 2)[k] = Encode(High(v), 1)[k]
    BY EncodeSteps
  <1>3. Encode(High(v), 1)[1] = Low(High(v))
    BY SMTT(60), LastByte, EncodeSteps
  <1> QED
    BY <1>1, <1>2, <1>3

LEMMA FourBytes ==
  ASSUME NEW v \in Nat
  PROVE  /\ Encode(v, 4) \in Seq(Byte) /\ Len(Encode(v, 4)) = 4
         /\ Encode(v, 4)[1] = Encode(High(High(v)), 2)[1] /\ Encode(v, 4)[2] = Encode(High(High(v)), 2)[2]
         /\ Encode(v, 4)[3] = Low(High(v)) /\ Encode(v, 4)[4] = Low(v)
  <1>1. Encode(v, 4) \in Seq(Byte) /\ Len(Encode(v, 4)) = 4
    BY ZenonT(60), EncodeIs
  <1>2. Encode(v, 4)[4] = Low(v) /\ \A k \in 1 .. 3 : Encode(v, 4)[k] = Encode(High(v), 3)[k]
    BY EncodeSteps
  <1>3. /\ Encode(High(v), 3)[3] = Low(High(v))
        /\ \A k \in 1 .. 2 : Encode(High(v), 3)[k] = Encode(High(High(v)), 2)[k]
    <2>1. High(v) \in Nat
      BY LastByte
    <2>2. 3 = 2 + 1
      OBVIOUS
    <2> QED
      BY <2>1, <2>2, EncodeSteps
  <1> QED
    BY <1>1, <1>2, <1>3

\* Two bytes hold a number of 16 bits, the most significant first.
LEMMA EncodeWord16 ==
  ASSUME NEW v \in Word16
  PROVE  /\ Encode(v, 2) \in Seq(Byte) /\ Len(Encode(v, 2)) = 2
         /\ 256 * Encode(v, 2)[1] + Encode(v, 2)[2] = v
  <1>1. v \in Nat
    BY SMT DEF Word16
  <1>2. PICK h \in Nat, b \in Byte : h = High(v) /\ b = Low(v) /\ v = 256 * h + b
    BY <1>1, LastByte
  <1>3. h \in Byte
    <2>1. v < 65536
      BY SMT DEF Word16
    <2> QED
      BY SMT, <1>1, <1>2, <2>1 DEF Byte
  <1>4. Low(h) = h
    BY SMT, <1>3 DEF Byte, Low
  <1> QED
    BY <1>1, <1>2, <1>4, TwoBytes

\* Four bytes hold a number of 32 bits.
LEMMA EncodeWord32 ==
  ASSUME NEW v \in Word32
  PROVE  /\ Encode(v, 4) \in Seq(Byte) /\ Len(Encode(v, 4)) = 4
         /\ 65536 * (256 * Encode(v, 4)[1] + Encode(v, 4)[2]) + (256 * Encode(v, 4)[3] + Encode(v, 4)[4]) = v
  <1>1. v \in Nat
    BY SMT DEF Word32
  <1>2. PICK h \in Nat, d \in Byte : h = High(v) /\ d = Low(v) /\ v = 256 * h + d
    BY <1>1, LastByte
  <1>3. PICK i \in Nat, c \in Byte : i = High(h) /\ c = Low(h) /\ h = 256 * i + c
    BY LastByte
  <1>4. i \in Word16
    <2>1. v = 65536 * i + (256 * c + d)
      BY SMT, <1>2, <1>3 DEF Byte
    <2>2. v \div 65536 = i
      BY SMT, <1>1, <1>2, <1>3, <2>1 DEF Byte
    <2>3. i < 65536
      BY SMT, <2>2 DEF Word32
    <2> QED
      BY SMT, <2>3 DEF Word16
  <1>5. 256 * Encode(i, 2)[1] + Encode(i, 2)[2] = i
    BY <1>4, EncodeWord16
  <1>6. /\ Encode(v, 4) \in Seq(Byte) /\ Len(Encode(v, 4)) = 4
        /\ Encode(v, 4)[1] = Encode(i, 2)[1] /\ Encode(v, 4)[2] = Encode(i, 2)[2]
        /\ Encode(v, 4)[3] = c /\ Encode(v, 4)[4] = d
    BY ZenonT(60), <1>1, <1>2, <1>3, FourBytes
  <1>7. 65536 * i + (256 * c + d) = v
    BY SMT, <1>2, <1>3 DEF Byte
  <1> QED
    BY SMT, <1>5, <1>6, <1>7

-----------------------------------------------------------------------------
(* Reading numbers *)

\* The numbers read from the first bytes, one more byte at a time.
Reads(f, b, n) == f[0] = 0 /\ \A k \in 1 .. n : f[k] = 256 * f[k - 1] + b[k]

LEMMA SameReads ==
  ASSUME NEW n \in Nat, NEW b, NEW f, Reads(f, b, n), NEW g, Reads(g, b, n)
  PROVE  \A k \in 0 .. n : f[k] = g[k]
  <1> DEFINE S == {k \in 0 .. n : f[k] = g[k]}
  <1>1. 0 \in S /\ \A k \in 1 .. n : k - 1 \in S => k \in S
    BY DEF Reads
  <1> HIDE DEF S
  <1>2. \A k \in 0 .. n : k \in S
    BY <1>1, UpTo
  <1> QED
    BY <1>2 DEF S

LEMMA SomeReads ==
  ASSUME NEW n \in Nat, NEW b \in [1 .. n -> Byte]
  PROVE  \E f \in [0 .. n -> Nat] : Reads(f, b, n)
  <1> DEFINE V == Nat
             next(k, v) == 256 * v + b[k]
             step == [k \in 1 .. n |-> [v \in V |-> next(k, v)]]
  <1>1. ASSUME NEW k \in 1 .. n, NEW v \in V PROVE next(k, v) \in V
    <2>1. PICK c \in 0 .. 255 : c = b[k]
      BY DEF Byte
    <2>2. 256 * v + c \in Nat
      OBVIOUS
    <2> QED
      BY <2>1, <2>2
  <1>2. 0 \in V
    OBVIOUS
  <1> HIDE DEF V, next
  <1>3. Stepping(step, n, V)
    BY <1>1 DEF Stepping
  <1>4. \A k \in 1 .. n, v \in V : step[k][v] = next(k, v)
    OBVIOUS
  <1> HIDE DEF step
  <1>5. PICK f : f \in [0 .. n -> V] /\ Follows(f, 0, step, n, V)
    BY <1>2, <1>3, Recursion
  <1>6. ASSUME NEW k \in 1 .. n PROVE f[k] = next(k, f[k - 1])
    <2>1. k - 1 \in 0 .. n
      OBVIOUS
    <2>2. f[k - 1] \in V
      BY <1>5, <2>1
    <2> QED
      BY <1>4, <1>5, <2>2 DEF Follows
  <1>7. Reads(f, b, n)
    BY <1>5, <1>6 DEF Follows, Reads, next
  <1> QED
    BY <1>5, <1>7 DEF V

\* decode_N_bits_big_endian() is the last of the numbers read byte after byte.
LEMMA DecodeIs ==
  ASSUME NEW b \in Seq(Byte), NEW f, Reads(f, b, Len(b))
  PROVE  Decode(b) = f[Len(b)]
  <1> DEFINE n == Len(b)
             R(v) == v = [k \in 0 .. n |-> IF k = 0 THEN 0 ELSE 256 * v[k - 1] + b[k]]
  <1>1. R([k \in 0 .. n |-> f[k]])
    BY DEF Reads
  <1>2. PICK v : R(v) /\ Decode(b) = v[n]
    BY <1>1 DEF Decode
  <1>3. n \in Nat
    OBVIOUS
  <1>4. Reads(v, b, n)
    BY <1>2, <1>3 DEF Reads
  <1> HIDE DEF R, n
  <1>5. v[n] = f[n]
    <2>1. Reads(f, b, n)
      BY DEF n
    <2> QED
      BY <1>3, <1>4, <2>1, SameReads
  <1> QED
    BY <1>2, <1>5 DEF n

\* What bytes decode to is a number whose encoding they are.
LEMMA Reencoded ==
  ASSUME NEW b \in Seq(Byte)
  PROVE  Decode(b) \in Nat /\ Encode(Decode(b), Len(b)) = b
  <1> DEFINE n == Len(b)
  <1>1. n \in Nat /\ b \in [1 .. n -> Byte]
    OBVIOUS
  <1> HIDE DEF n
  <1>2. PICK f \in [0 .. n -> Nat] : Reads(f, b, n)
    BY <1>1, SomeReads
  <1>3. Decode(b) = f[n]
    BY <1>2, DecodeIs DEF n
  <1> DEFINE S == {k \in 0 .. n : \A i \in 1 .. k : Encode(f[k], k)[i] = b[i]}
  <1>4. 0 \in S
    BY <1>1
  <1>5. ASSUME NEW k \in 1 .. n, k - 1 \in S PROVE k \in S
    <2>1. PICK m \in Nat : m = k - 1 /\ k = m + 1 /\ k \in Nat /\ m \in 0 .. n
      BY <1>1
    <2>2. PICK v \in Nat, u \in Nat, c \in Byte : v = f[k] /\ u = f[m] /\ c = b[k] /\ v = 256 * u + c
      BY <1>1, <1>2, <2>1 DEF Reads
    <2>3. High(v) = u /\ Low(v) = b[k]
      <3>1. u \in Nat /\ c \in 0 .. 255 /\ v = 256 * u + c
        BY <2>2 DEF Byte
      <3>2. v \div 256 = u /\ v % 256 = c
        BY <3>1
      <3> QED
        BY <2>2, <3>2 DEF High, Low
    <2>4. Encode(v, k)[k] = b[k] /\ \A i \in 1 .. m : Encode(v, k)[i] = Encode(u, m)[i]
      BY SMTT(60), <2>1, <2>2, <2>3, EncodeSteps
    <2>5. \A i \in 1 .. m : Encode(u, m)[i] = b[i]
      BY <1>5, <2>1, <2>2
    <2>6. \A i \in 1 .. k : i = k \/ i \in 1 .. m
      BY <2>1
    <2>7. \A i \in 1 .. k : Encode(v, k)[i] = b[i]
      BY <2>4, <2>5, <2>6
    <2>8. k \in 0 .. n /\ f[k] = v
      BY <2>1, <2>2
    <2> QED
      BY <2>7, <2>8
  <1> HIDE DEF S
  <1>6. n \in S
    <2>1. n \in 0 .. n
      BY <1>1
    <2> QED
      BY <1>1, <1>4, <1>5, <2>1, UpTo
  <1>7. f[n] \in Nat /\ \A i \in 1 .. n : Encode(f[n], n)[i] = b[i]
    BY <1>1, <1>6, <1>2 DEF S
  <1>8. Encode(f[n], n) \in Seq(Byte) /\ Len(Encode(f[n], n)) = n
    BY <1>1, <1>7, EncodeIs
  <1>9. Encode(f[n], n) = b
    BY <1>1, <1>7, <1>8 DEF n
  <1> QED
    BY <1>3, <1>7, <1>9 DEF n

\* A number that fits its bytes is read back from them.
LEMMA PastOneByte ==
  ASSUME NEW v \in Nat, NEW w \in Nat \ {0}
  PROVE  v \div (256 * w) = (v \div w) \div 256
  <1>1. PICK b \in Nat \ {0} : b = 256
    OBVIOUS
  <1>2. v \div (b * w) = (v \div w) \div b
    BY <1>1, NestedDivision
  <1> QED
    BY <1>1, <1>2

\* What is read from the bytes of a number is that number, whatever the number of bytes.
LEMMA ReadBack ==
  ASSUME NEW n \in Nat, NEW v \in Nat, v < Weight(n), NEW f, Reads(f, Encode(v, n), n)
  PROVE  f[n] = v
  <1> DEFINE S == {k \in 0 .. n : f[k] = v \div Weight(n - k)}
  <1>1. 0 \in S
    <2>1. PICK w \in Nat \ {0} : w = Weight(n) /\ v < w
      BY WeightSteps
    <2>2. v \div w = 0
      BY <2>1
    <2>3. n - 0 = n /\ 0 \in 0 .. n
      OBVIOUS
    <2> QED
      BY <2>1, <2>2, <2>3 DEF Reads
  <1>2. ASSUME NEW k \in 1 .. n, k - 1 \in S PROVE k \in S
    <2>1. PICK m \in Nat, j \in Nat : m = n - k /\ j = k - 1 /\ n - j = m + 1 /\ k \in 0 .. n
      OBVIOUS
    <2>2. f[j] = v \div Weight(m + 1)
      BY <1>2, <2>1
    <2>3. PICK w \in Nat \ {0} : w = Weight(m) /\ Weight(m + 1) = 256 * w
      BY <2>1, WeightSteps
    <2>4. PICK u \in Nat : u = v \div w
      BY Quotients
    <2>5. f[j] = u \div 256
      <3>1. v \div (256 * w) = (v \div w) \div 256
        BY <2>3, PastOneByte
      <3> QED
        BY <2>2, <2>3, <2>4, <3>1
    <2>6. Encode(v, n)[k] = u % 256
      BY <2>1, <2>3, <2>4, EncodeIs
    <2>7. f[k] = 256 * f[j] + Encode(v, n)[k]
      BY <2>1 DEF Reads
    <2>8. f[k] = u
      BY <2>5, <2>6, <2>7
    <2> QED
      BY <2>1, <2>3, <2>4, <2>8
  <1> HIDE DEF S
  <1>3. n \in S
    <2>1. n \in 0 .. n
      OBVIOUS
    <2> QED
      BY <1>1, <1>2, <2>1, UpTo
  <1>4. n - n = 0 /\ v \div 1 = v
    OBVIOUS
  <1> QED
    BY <1>3, <1>4, WeightSteps DEF S

-----------------------------------------------------------------------------
(* Parts of sequences *)

\* What follows the first a elements, up to the b-th.
Between(s, a, b) == SubSeq(s, a + 1, b)

LEMMA BetweenIs ==
  ASSUME NEW S, NEW s \in Seq(S), NEW a \in Nat, NEW b \in Nat, a <= b, b <= Len(s)
  PROVE  /\ Between(s, a, b) \in Seq(S) /\ Len(Between(s, a, b)) = b - a
         /\ \A i \in 1 .. b - a : Between(s, a, b)[i] = s[a + i]
  BY DEF Between

LEMMA JoinBetween ==
  ASSUME NEW S, NEW s \in Seq(S), NEW a \in Nat, NEW b \in Nat, NEW c \in Nat,
         a <= b, b <= c, c <= Len(s)
  PROVE  Between(s, a, b) \o Between(s, b, c) = Between(s, a, c)
  <1>1. a + 1 \in 1 .. Len(s) + 1 /\ b \in (a + 1) - 1 .. Len(s) /\ c \in b .. Len(s)
    OBVIOUS
  <1> QED
    BY <1>1, ConcatAdjacentSubSeq DEF Between

LEMMA OneBetween ==
  ASSUME NEW S, NEW s \in Seq(S), NEW a \in Nat, NEW b \in Nat, b = a + 1, b <= Len(s)
  PROVE  Between(s, a, b) = <<s[b]>>
  <1>2. a <= b /\ b - a = 1 /\ s[b] \in S
    OBVIOUS
  <1>1. Between(s, a, b) \in Seq(S) /\ Len(Between(s, a, b)) = 1
    BY <1>2, BetweenIs
  <1>3. Between(s, a, b)[1] = s[b]
    <2>1. \A i \in 1 .. b - a : Between(s, a, b)[i] = s[a + i]
      BY BetweenIs
    <2> QED
      BY <1>2, <2>1
  <1> QED
    BY <1>1, <1>2, <1>3

LEMMA WholeBetween ==
  ASSUME NEW S, NEW s \in Seq(S)
  PROVE  Between(s, 0, Len(s)) = s
  BY SubSeqFull DEF Between

\* Sequences one after the other.
Flattens(f, seqs, n) == f[1] = seqs[1] /\ \A k \in 2 .. n : f[k] = f[k - 1] \o seqs[k]

LEMMA SameFlattens ==
  ASSUME NEW n \in Nat \ {0}, NEW seqs, NEW f, Flattens(f, seqs, n), NEW g, Flattens(g, seqs, n)
  PROVE  f[n] = g[n]
  <1> DEFINE S == {k \in 0 .. n : k >= 1 => f[k] = g[k]}
  <1>1. 0 \in S
    OBVIOUS
  <1>2. ASSUME NEW k \in 1 .. n, k - 1 \in S PROVE k \in S
    <2>1. CASE k = 1
      BY <2>1 DEF Flattens
    <2>2. CASE k # 1
      <3>1. k \in 2 .. n /\ k \in 0 .. n /\ k - 1 >= 1
        BY <2>2
      <3>2. f[k - 1] = g[k - 1]
        BY <1>2, <3>1
      <3>3. f[k] = f[k - 1] \o seqs[k] /\ g[k] = g[k - 1] \o seqs[k]
        BY <3>1 DEF Flattens
      <3> QED
        BY <3>1, <3>2, <3>3
    <2> QED
      BY <2>1, <2>2
  <1> HIDE DEF S
  <1>3. n \in S
    <2>1. n \in 0 .. n /\ n \in Nat
      OBVIOUS
    <2> QED
      BY <1>1, <1>2, <2>1, UpTo
  <1> QED
    BY <1>3 DEF S

\* FlattenSeq is the last of the sequences obtained one piece after the other.
LEMMA FlattenIs ==
  ASSUME NEW n \in Nat \ {0}, NEW seqs, Len(seqs) = n, NEW f, Flattens(f, seqs, n)
  PROVE  FlattenSeq(seqs) = f[n]
  <1> DEFINE R(v) == v = [i \in 1 .. n |-> IF i = 1 THEN seqs[i] ELSE v[i - 1] \o seqs[i]]
             u == [k \in 1 .. n |-> f[k]]
  <1>1. R(u)
    <2>1. ASSUME NEW k \in 1 .. n PROVE u[k] = IF k = 1 THEN seqs[k] ELSE u[k - 1] \o seqs[k]
      <3>1. CASE k = 1
        BY <3>1 DEF Flattens
      <3>2. CASE k # 1
        <4>1. k \in 2 .. n /\ k - 1 \in 1 .. n
          BY <3>2
        <4>2. f[k] = f[k - 1] \o seqs[k]
          BY <4>1 DEF Flattens
        <4> QED
          BY <3>2, <4>1, <4>2
      <3> QED
        BY <3>1, <3>2
    <2>2. u = [k \in 1 .. n |-> u[k]]
      OBVIOUS
    <2> HIDE DEF u
    <2> QED
      BY Zenon, <2>1, <2>2
  <1> HIDE DEF u
  <1>2. PICK v : R(v) /\ FlattenSeq(seqs) = v[n]
    <2>1. Len(seqs) # 0
      OBVIOUS
    <2> QED
      BY <1>1, <2>1 DEF FlattenSeq
  <1>3. Flattens(v, seqs, n)
    <2>1. 1 \in 1 .. n /\ \A k \in 2 .. n : k \in 1 .. n /\ k # 1
      OBVIOUS
    <2>2. \A k \in 1 .. n : v[k] = IF k = 1 THEN seqs[k] ELSE v[k - 1] \o seqs[k]
      BY Zenon, <1>2
    <2> QED
      BY <2>1, <2>2 DEF Flattens
  <1> HIDE DEF R
  <1> QED
    BY <1>2, <1>3, SameFlattens

\* Sequences that follow each other in another one, cut at cut[0], cut[1], ...
CutInto(s, cut, seqs, n) ==
    \A k \in 1 .. n : cut[k - 1] <= cut[k] /\ seqs[k] = Between(s, cut[k - 1], cut[k])

\* Where each piece of a flattened sequence lies.
LEMMA FlattenCuts ==
  ASSUME NEW s \in Seq(Byte), NEW n \in Nat, NEW cut \in [0 .. n -> 0 .. Len(s)],
         NEW seqs, Len(seqs) = n, n = 0 => seqs = <<>>,
         CutInto(s, cut, seqs, n)
  PROVE  FlattenSeq(seqs) = Between(s, cut[0], cut[n]) /\ cut[0] <= cut[n]
  <1>0. \A x, y, z \in Nat :
           x <= y /\ y <= z /\ z <= Len(s) => Between(s, x, y) \o Between(s, y, z) = Between(s, x, z)
    BY JoinBetween
  <1>1. CASE n = 0
    <2>1. FlattenSeq(seqs) = <<>>
      BY <1>1 DEF FlattenSeq
    <2>2. Between(s, cut[0], cut[0]) = <<>>
      <3>1. PICK a \in Int : a = cut[0]
        OBVIOUS
      <3> QED
        BY <3>1, SubSeqEmpty DEF Between
    <2> QED
      BY <1>1, <2>1, <2>2
  <1>2. CASE n # 0
    <2>1. /\ n \in Nat \ {0} /\ 1 \in 1 .. n /\ Len(s) \in Nat
          /\ \A k \in 0 .. n : cut[k] \in Nat /\ cut[k] <= Len(s)
      BY <1>2
    <2> DEFINE f == [k \in 1 .. n |-> Between(s, cut[0], cut[k])]
               T == {k \in 0 .. n : cut[0] <= cut[k]}
    <2>2. \A k \in T : k \in Nat /\ cut[0] <= cut[k]
      OBVIOUS
    <2>3. 0 \in T
      OBVIOUS
    <2>4. ASSUME NEW k \in 1 .. n, k - 1 \in T PROVE k \in T
      <3>1. PICK j \in 0 .. n : j = k - 1
        OBVIOUS
      <3>2. k \in 0 .. n /\ cut[0] \in Nat /\ cut[j] \in Nat /\ cut[k] \in Nat
        <4>1. 0 \in 0 .. n /\ k \in 0 .. n
          OBVIOUS
        <4> QED
          BY <2>1, <3>1, <4>1
      <3>3. cut[0] <= cut[j] /\ cut[j] <= cut[k]
        BY <2>4, <3>1 DEF CutInto
      <3>4. cut[0] <= cut[k]
        BY <3>2, <3>3
      <3> QED
        BY <3>2, <3>4
    <2> HIDE DEF T
    <2>5. \A k \in 0 .. n : k \in T
      BY <2>3, <2>4, UpTo
    <2>6. \A k \in 0 .. n : cut[0] <= cut[k]
      BY <2>5 DEF T
    <2>7. f[1] = seqs[1]
      <3>1. 1 - 1 = 0
        OBVIOUS
      <3> QED
        BY <2>1, <3>1 DEF CutInto
    <2>8. ASSUME NEW k \in 2 .. n PROVE f[k] = f[k - 1] \o seqs[k]
      <3>1. PICK j \in 1 .. n : j = k - 1 /\ k \in 1 .. n /\ j \in 0 .. n
        OBVIOUS
      <3>2. PICK x \in Nat : x = cut[0]
        BY <2>1
      <3>5. PICK y \in Nat : y = cut[j]
        BY <2>1, <3>1
      <3>6. PICK z \in Nat : z = cut[k] /\ z <= Len(s)
        BY <2>1, <3>1
      <3>3. x <= y /\ y <= z /\ seqs[k] = Between(s, y, z)
        BY <2>6, <3>1, <3>2, <3>5, <3>6 DEF CutInto
      <3>4. Between(s, x, y) \o Between(s, y, z) = Between(s, x, z)
        <4>1. x \in Nat /\ y \in Nat /\ z \in Nat /\ x <= y /\ y <= z /\ z <= Len(s)
          BY <3>2, <3>5, <3>6, <3>3
        <4> QED
          BY <1>0, <4>1
      <3> QED
        BY <3>1, <3>2, <3>3, <3>4, <3>5, <3>6
    <2>9. Flattens(f, seqs, n)
      BY <2>7, <2>8 DEF Flattens
    <2>10. f[n] = Between(s, cut[0], cut[n])
      BY <2>1
    <2> HIDE DEF f
    <2>11. FlattenSeq(seqs) = f[n]
      BY <2>1, <2>9, FlattenIs
    <2> QED
      BY <2>1, <2>6, <2>10, <2>11
  <1> QED
    BY <1>1, <1>2

\* The sequences flattened so far.
Flattening(f, seqs, n) == f[0] = <<>> /\ \A k \in 1 .. n : f[k] = f[k - 1] \o seqs[k]

LEMMA SomeFlattening ==
  ASSUME NEW S, NEW seqs \in Seq(Seq(S)), NEW n \in Nat, Len(seqs) = n
  PROVE  \E f \in [0 .. n -> Seq(S)] : Flattening(f, seqs, n) /\ FlattenSeq(seqs) = f[n]
  <1> DEFINE V == Seq(S)
             next(k, v) == v \o seqs[k]
             step == [k \in 1 .. n |-> [v \in V |-> next(k, v)]]
  <1>1. ASSUME NEW k \in 1 .. n, NEW v \in V PROVE next(k, v) \in V
    <2>1. seqs[k] \in Seq(S)
      OBVIOUS
    <2> QED
      BY <2>1
  <1>2. <<>> \in V
    OBVIOUS
  <1> HIDE DEF V, next
  <1>3. Stepping(step, n, V)
    BY <1>1 DEF Stepping
  <1>4. \A k \in 1 .. n, v \in V : step[k][v] = next(k, v)
    OBVIOUS
  <1> HIDE DEF step
  <1>5. PICK f : f \in [0 .. n -> V] /\ Follows(f, <<>>, step, n, V)
    BY <1>2, <1>3, Recursion
  <1>6. ASSUME NEW k \in 1 .. n PROVE f[k] = next(k, f[k - 1])
    <2>1. k - 1 \in 0 .. n
      OBVIOUS
    <2>2. f[k - 1] \in V
      BY <1>5, <2>1
    <2> QED
      BY <1>4, <1>5, <2>2 DEF Follows
  <1>7. Flattening(f, seqs, n)
    BY <1>5, <1>6 DEF Follows, Flattening, next
  <1>8. FlattenSeq(seqs) = f[n]
    <2>1. CASE n = 0
      <3>1. seqs = <<>>
        BY <2>1
      <3>2. FlattenSeq(seqs) = seqs
        BY <2>1 DEF FlattenSeq
      <3> QED
        BY <2>1, <3>1, <3>2, <1>7 DEF Flattening
    <2>2. CASE n # 0
      <3>1. f[1] = seqs[1]
        <4>1. 1 \in 1 .. n /\ 1 - 1 = 0
          BY <2>2
        <4>2. f[1] = f[0] \o seqs[1] /\ f[0] = <<>>
          BY <4>1, <1>7 DEF Flattening
        <4>3. seqs[1] \in Seq(S)
          BY <4>1
        <4> QED
          BY <4>2, <4>3
      <3>2. \A k \in 2 .. n : f[k] = f[k - 1] \o seqs[k]
        <4>1. \A k \in 2 .. n : k \in 1 .. n
          OBVIOUS
        <4> QED
          BY <1>7, <4>1 DEF Flattening
      <3>3. Flattens(f, seqs, n)
        BY <3>1, <3>2 DEF Flattens
      <3>4. n \in Nat \ {0}
        BY <2>2
      <3> QED
        BY <3>3, <3>4, FlattenIs
    <2> QED
      BY <2>1, <2>2
  <1> QED
    BY <1>5, <1>7, <1>8 DEF V

\* Pieces made of elements of S flatten to a sequence of S.
LEMMA FlattenTyped ==
  ASSUME NEW S, NEW seqs \in Seq(Seq(S))
  PROVE  FlattenSeq(seqs) \in Seq(S)
  <1>1. PICK n \in Nat : n = Len(seqs) /\ n \in 0 .. n
    OBVIOUS
  <1>2. PICK f \in [0 .. n -> Seq(S)] : FlattenSeq(seqs) = f[n]
    BY <1>1, SomeFlattening
  <1> QED
    BY <1>1, <1>2

\* Sequences of three elements: each is found at its multiple.
Triples(s, seqs, n) ==
    Len(s) = 3 * n /\ \A k \in 1 .. n : s[3 * k - 2] = seqs[k][1] /\ s[3 * k - 1] = seqs[k][2] /\ s[3 * k] = seqs[k][3]

\* Pieces of three bytes flatten to three bytes each.
LEMMA FlattenTriples ==
  ASSUME NEW S, NEW seqs \in Seq(Seq(S)), \A k \in 1 .. Len(seqs) : Len(seqs[k]) = 3
  PROVE  Triples(FlattenSeq(seqs), seqs, Len(seqs))
  <1>1. PICK n \in Nat : n = Len(seqs) /\ n \in 0 .. n
    OBVIOUS
  <1>2. PICK f \in [0 .. n -> Seq(S)] : Flattening(f, seqs, n) /\ FlattenSeq(seqs) = f[n]
    BY <1>1, SomeFlattening
  <1> DEFINE T == {k \in 0 .. n : Triples(f[k], seqs, k)}
  <1>3. 0 \in T
    BY <1>2 DEF Flattening, Triples
  <1>4. ASSUME NEW k \in 1 .. n, k - 1 \in T PROVE k \in T
    <2>1. PICK j \in Nat : j = k - 1 /\ k = j + 1 /\ j \in 0 .. n /\ k \in 0 .. n
      OBVIOUS
    <2>2. PICK s \in Seq(S) : s = f[j] /\ Len(s) = 3 * j /\ Triples(s, seqs, j)
      BY <1>2, <1>4, <2>1 DEF Triples
    <2>3. PICK t \in Seq(S) : t = seqs[k] /\ Len(t) = 3
      BY <1>1
    <2>4. PICK u \in Seq(S) : u = s \o t /\ u = f[k]
      <3>1. f[k] = f[k - 1] \o seqs[k]
        BY <1>2 DEF Flattening
      <3> QED
        BY <2>1, <2>2, <2>3, <3>1
    <2>5. Len(u) = 3 * k /\ (\A i \in 1 .. 3 * j : u[i] = s[i]) /\ \A i \in 1 .. 3 : u[3 * j + i] = t[i]
      <3>1. Len(s \o t) = Len(s) + Len(t)
        OBVIOUS
      <3>2. \A i \in 1 .. Len(s) : (s \o t)[i] = s[i]
        OBVIOUS
      <3>3. \A i \in 1 .. Len(t) : (s \o t)[Len(s) + i] = t[i]
        OBVIOUS
      <3> QED
        BY <2>1, <2>2, <2>3, <2>4, <3>1, <3>2, <3>3
    <2>6. u[3 * k - 2] = t[1] /\ u[3 * k - 1] = t[2] /\ u[3 * k] = t[3]
      <3>1. 3 * j + 1 = 3 * k - 2 /\ 3 * j + 2 = 3 * k - 1 /\ 3 * j + 3 = 3 * k
        BY <2>1
      <3>2. u[3 * j + 1] = t[1] /\ u[3 * j + 2] = t[2] /\ u[3 * j + 3] = t[3]
        BY <2>5
      <3> QED
        BY <3>1, <3>2
    <2>7. ASSUME NEW i \in 1 .. k
          PROVE  u[3 * i - 2] = seqs[i][1] /\ u[3 * i - 1] = seqs[i][2] /\ u[3 * i] = seqs[i][3]
      <3>1. CASE i = k
        BY <2>3, <2>6, <3>1
      <3>2. CASE i # k
        <4>1. i \in 1 .. j
          BY <2>1, <3>2
        <4>2. 3 * i - 2 \in 1 .. 3 * j /\ 3 * i - 1 \in 1 .. 3 * j /\ 3 * i \in 1 .. 3 * j
          BY <4>1
        <4>3. s[3 * i - 2] = seqs[i][1] /\ s[3 * i - 1] = seqs[i][2] /\ s[3 * i] = seqs[i][3]
          BY <2>2, <4>1 DEF Triples
        <4> QED
          BY <2>5, <4>2, <4>3
      <3> QED
        BY <3>1, <3>2
    <2>8. Triples(u, seqs, k)
      BY <2>5, <2>7 DEF Triples
    <2> QED
      BY <2>1, <2>4, <2>8
  <1> HIDE DEF T
  <1>5. n \in T
    BY <1>1, <1>3, <1>4, UpTo
  <1> QED
    BY <1>1, <1>2, <1>5 DEF T

-----------------------------------------------------------------------------
(* Elements and their bytes *)

LEMMA AddressSizeIs == AddressSize \in Nat \ {0}
  BY AddressAssumption

LEMMA EncodeAddressIs ==
  ASSUME NEW v \in Nat
  PROVE  EncodeAddress(v) \in Seq(Byte) /\ Len(EncodeAddress(v)) = AddressSize
  BY AddressSizeIs, EncodeIs DEF EncodeAddress

LEMMA OneByte ==
  ASSUME NEW b \in Byte PROVE <<b>> \in Seq(Byte) /\ Len(<<b>>) = 1 /\ <<b>>[1] = b
  OBVIOUS

LEMMA ConcatBytes ==
  ASSUME NEW s \in Seq(Byte), NEW t \in Seq(Byte)
  PROVE  s \o t \in Seq(Byte) /\ Len(s \o t) = Len(s) + Len(t)
  OBVIOUS

LEMMA ConcatAt ==
  ASSUME NEW s \in Seq(Byte), NEW t \in Seq(Byte)
  PROVE  /\ s \o t \in Seq(Byte) /\ Len(s \o t) = Len(s) + Len(t)
         /\ \A i \in 1 .. Len(s) : (s \o t)[i] = s[i]
         /\ \A i \in 1 .. Len(t) : (s \o t)[Len(s) + i] = t[i]
  OBVIOUS

LEMMA PairIs ==
  ASSUME NEW x \in Byte, NEW y \in Byte
  PROVE  <<x, y>> \in Seq(Byte) /\ Len(<<x, y>>) = 2 /\ <<x, y>>[1] = x /\ <<x, y>>[2] = y
  OBVIOUS

LEMMA TailIs ==
  ASSUME NEW b \in Seq(Byte), NEW n \in Nat, Len(b) = n + 1
  PROVE  /\ Tail(b) \in Seq(Byte) /\ Len(Tail(b)) = n /\ b[1] \in Byte
         /\ \A i \in 1 .. n : Tail(b)[i] = b[1 + i]
  <1>1. b # <<>> /\ 1 \in 1 .. Len(b)
    OBVIOUS
  <1>2. Tail(b) \in Seq(Byte) /\ Len(Tail(b)) = Len(b) - 1 /\ \A i \in 1 .. Len(Tail(b)) : Tail(b)[i] = b[i + 1]
    BY <1>1, HeadTailProperties
  <1>3. b[1] \in Byte
    BY <1>1
  <1> QED
    BY <1>2, <1>3

LEMMA SmallBytes == 0 \in Byte /\ 1 \in Byte /\ 2 \in Byte /\ 3 \in Byte
  BY DEF Byte

\* The bytes of an operand.
LEMMA EncodeOperandIs ==
  ASSUME NEW o \in OperandRecords
  PROVE  EncodeOperand(o) \in Seq(Byte)
  <1>1. CASE o \in [kind : {"Literal"}, val : Nat]
    <2>1. EncodeOperand(o) = <<0>> \o Encode(o.val, 4)
      BY <1>1 DEF EncodeOperand
    <2>2. Encode(o.val, 4) \in Seq(Byte) /\ <<0>> \in Seq(Byte)
      BY <1>1, EncodeIs, OneByte, SmallBytes
    <2> QED
      BY <2>1, <2>2, ConcatBytes
  <1>2. CASE o \in [kind : {"Rpv"}, id : Nat]
    <2>1. EncodeOperand(o) = <<3>> \o Encode(o.id, 2)
      BY <1>2 DEF EncodeOperand
    <2>2. Encode(o.id, 2) \in Seq(Byte) /\ <<3>> \in Seq(Byte)
      BY <1>2, EncodeIs, OneByte, SmallBytes
    <2> QED
      BY <2>1, <2>2, ConcatBytes
  <1>3. CASE o \in [kind : {"Var"}, datatype : Byte, addr : Nat]
    <2>1. EncodeOperand(o) = <<1, o.datatype>> \o EncodeAddress(o.addr)
      BY <1>3 DEF EncodeOperand
    <2>2. EncodeAddress(o.addr) \in Seq(Byte) /\ <<1, o.datatype>> \in Seq(Byte)
      BY <1>3, EncodeAddressIs, SmallBytes
    <2> QED
      BY <2>1, <2>2, ConcatBytes
  <1>4. CASE o \in [kind : {"VarBit"}, datatype : Byte, addr : Nat, bitoffset : Byte, bitsize : Byte]
    <2>1. EncodeOperand(o) = <<2, o.datatype>> \o EncodeAddress(o.addr) \o <<o.bitoffset, o.bitsize>>
      BY <1>4 DEF EncodeOperand
    <2>2. /\ EncodeAddress(o.addr) \in Seq(Byte) /\ <<2, o.datatype>> \in Seq(Byte)
          /\ <<o.bitoffset, o.bitsize>> \in Seq(Byte)
      BY <1>4, EncodeAddressIs, SmallBytes
    <2>3. <<2, o.datatype>> \o EncodeAddress(o.addr) \in Seq(Byte)
      BY <2>2, ConcatBytes
    <2> QED
      BY <2>1, <2>2, <2>3, ConcatBytes
  <1> QED
    BY <1>1, <1>2, <1>3, <1>4 DEF OperandRecords

\* The bytes of an item to log.
LEMMA EncodeItemIs ==
  ASSUME NEW item \in ItemRecords
  PROVE  EncodeItem(item) \in Seq(Byte)
  <1>1. CASE item \in [kind : {"Memory"}, addr : Nat, size : Byte]
    <2>1. EncodeItem(item) = <<0>> \o EncodeAddress(item.addr) \o <<item.size>>
      BY <1>1 DEF EncodeItem
    <2>2. EncodeAddress(item.addr) \in Seq(Byte) /\ <<0>> \in Seq(Byte) /\ <<item.size>> \in Seq(Byte)
      BY <1>1, EncodeAddressIs, OneByte, SmallBytes
    <2>3. <<0>> \o EncodeAddress(item.addr) \in Seq(Byte)
      BY <2>2, ConcatBytes
    <2> QED
      BY <2>1, <2>2, <2>3, ConcatBytes
  <1>2. CASE item \in [kind : {"Rpv"}, id : Nat]
    <2>1. EncodeItem(item) = <<1>> \o Encode(item.id, 2)
      BY <1>2 DEF EncodeItem
    <2>2. Encode(item.id, 2) \in Seq(Byte) /\ <<1>> \in Seq(Byte)
      BY <1>2, EncodeIs, OneByte, SmallBytes
    <2> QED
      BY <2>1, <2>2, ConcatBytes
  <1>3. CASE item \in [kind : {"Time"}]
    <2>1. EncodeItem(item) = <<2>>
      BY <1>3 DEF EncodeItem
    <2> QED
      BY <2>1, OneByte, SmallBytes
  <1> QED
    BY <1>1, <1>2, <1>3 DEF ItemRecords

\* An address read from bytes that begin with it.
LEMMA DecodeAddressIs ==
  ASSUME NEW t \in Seq(Byte), Len(t) >= AddressSize
  PROVE  DecodeAddress(t) \in Nat /\ EncodeAddress(DecodeAddress(t)) = Between(t, 0, AddressSize)
  <1>1. PICK n \in Nat : n = AddressSize /\ n <= Len(t)
    BY AddressSizeIs
  <1>2. PICK a \in Seq(Byte) : a = Between(t, 0, n) /\ Len(a) = n /\ a = SubSeq(t, 1, n)
    <2>1. 0 \in Nat /\ 0 <= n /\ n - 0 = n /\ 0 + 1 = 1
      BY <1>1
    <2>2. Between(t, 0, n) \in Seq(Byte) /\ Len(Between(t, 0, n)) = n
      BY <1>1, <2>1, BetweenIs
    <2>3. Between(t, 0, n) = SubSeq(t, 1, n)
      BY <2>1 DEF Between
    <2> QED
      BY <2>2, <2>3
  <1> QED
    BY <1>1, <1>2, Reencoded DEF DecodeAddress, EncodeAddress

\* The bytes of an element are its encoding.
LEMMA OperandKindsAre ==
  /\ OperandKinds[0] = "Literal" /\ OperandKinds[1] = "Var" /\ OperandKinds[2] = "VarBit"
  /\ OperandKinds[3] = "Rpv" /\ DOMAIN OperandKinds = 0 .. 3
  /\ ItemKinds[0] = "Memory" /\ ItemKinds[1] = "Rpv" /\ ItemKinds[2] = "Time" /\ DOMAIN ItemKinds = 0 .. 2
  BY DEF OperandKinds, ItemKinds

LEMMA OperandLengths ==
  /\ OperandLength["Literal"] = 4 /\ OperandLength["Var"] = 1 + AddressSize
  /\ OperandLength["VarBit"] = 3 + AddressSize /\ OperandLength["Rpv"] = 2
  /\ ItemLength["Memory"] = AddressSize + 1 /\ ItemLength["Rpv"] = 2 /\ ItemLength["Time"] = 0
  BY DEF OperandLength, ItemLength

\* What decode_operand() finds is written again to the bytes it was read from.
LEMMA FieldsOfOperand ==
  ASSUME NEW c \in 0 .. 3, NEW b \in Seq(Byte), Len(b) = OperandLength[OperandKinds[c]]
  PROVE  /\ OperandOf(OperandKinds[c], b) \in OperandRecords
         /\ EncodeOperand(OperandOf(OperandKinds[c], b)) = <<c>> \o b
  <1> DEFINE o == OperandOf(OperandKinds[c], b)
  <1>1. CASE c = 0
    <2>1. o = [kind |-> "Literal", val |-> Decode(b)]
      BY <1>1, OperandKindsAre DEF OperandOf
    <2>2. Decode(b) \in Nat /\ Encode(Decode(b), 4) = b
      BY <1>1, OperandKindsAre, OperandLengths, Reencoded
    <2> HIDE DEF o
    <2>3. o \in OperandRecords
      BY <2>1, <2>2 DEF OperandRecords
    <2>4. EncodeOperand(o) = <<0>> \o b
      BY <2>1, <2>2 DEF EncodeOperand
    <2> QED
      BY <1>1, <2>3, <2>4 DEF o
  <1>2. CASE c = 3
    <2>1. o = [kind |-> "Rpv", id |-> Decode(b)]
      BY <1>2, OperandKindsAre DEF OperandOf
    <2>2. Decode(b) \in Nat /\ Encode(Decode(b), 2) = b
      BY <1>2, OperandKindsAre, OperandLengths, Reencoded
    <2> HIDE DEF o
    <2>3. o \in OperandRecords
      BY <2>1, <2>2 DEF OperandRecords
    <2>4. EncodeOperand(o) = <<3>> \o b
      BY <2>1, <2>2 DEF EncodeOperand
    <2> QED
      BY <1>2, <2>3, <2>4 DEF o
  <1>3. CASE c = 1
    <2>0. PICK n \in Nat \ {0} : n = AddressSize /\ Len(b) = n + 1 /\ n >= n
      BY <1>3, OperandKindsAre, OperandLengths, AddressSizeIs
    <2>1. PICK t \in Seq(Byte) : t = Tail(b) /\ Len(t) = AddressSize
      BY <2>0, TailIs
    <2>2. b[1] \in Byte
      BY <1>3, OperandKindsAre, OperandLengths, AddressSizeIs
    <2>3. o = [kind |-> "Var", datatype |-> b[1], addr |-> DecodeAddress(t)]
      BY <1>3, <2>1, OperandKindsAre DEF OperandOf
    <2>4. DecodeAddress(t) \in Nat /\ EncodeAddress(DecodeAddress(t)) = t
      <3>1. Len(t) >= AddressSize
        BY <2>0, <2>1
      <3>2. Between(t, 0, AddressSize) = t
        BY <2>1, WholeBetween
      <3> QED
        BY <3>1, <3>2, DecodeAddressIs
    <2> HIDE DEF o
    <2>5. o \in OperandRecords
      BY <2>2, <2>3, <2>4 DEF OperandRecords
    <2>6. EncodeOperand(o) = <<1, b[1]>> \o t
      BY <2>3, <2>4 DEF EncodeOperand
    <2>7. <<1, b[1]>> \o t = <<1>> \o b
      <3>1. 1 \in Byte /\ Len(<<1, b[1]>> \o t) = Len(<<1>> \o b)
        BY <1>3, <2>1, <2>2, SmallBytes
      <3>2. \A i \in 1 .. Len(<<1>> \o b) : (<<1, b[1]>> \o t)[i] = (<<1>> \o b)[i]
        BY <1>3, <2>1, <2>2
      <3>3. <<1, b[1]>> \o t \in Seq(Byte) /\ <<1>> \o b \in Seq(Byte)
        BY <2>1, <2>2, <3>1
      <3> QED
        BY <3>1, <3>2, <3>3, SeqEqual
    <2> QED
      BY <1>3, <2>5, <2>6, <2>7 DEF o
  <1>4. CASE c = 2
    <2>0. PICK n \in Nat \ {0} : n = AddressSize /\ Len(b) = 3 + n
      BY <1>4, OperandKindsAre, OperandLengths, AddressSizeIs
    <2>1. PICK t \in Seq(Byte) : t = Tail(b) /\ Len(t) = 2 + n /\ \A i \in 1 .. 2 + n : t[i] = b[1 + i]
      <3>1. 2 + n \in Nat /\ Len(b) = (2 + n) + 1
        BY <2>0
      <3> QED
        BY <3>1, TailIs
    <2>2. b[1] \in Byte /\ b[2 + n] \in Byte /\ b[3 + n] \in Byte
      BY <2>0
    <2>3. o = [kind |-> "VarBit", datatype |-> b[1], addr |-> DecodeAddress(t),
               bitoffset |-> b[2 + n], bitsize |-> b[3 + n]]
      BY <1>4, <2>0, <2>1, OperandKindsAre DEF OperandOf
    <2>4. PICK a \in Seq(Byte) : a = Between(t, 0, n) /\ Len(a) = n /\ \A i \in 1 .. n : a[i] = t[i]
      <3>1. 0 \in Nat /\ n \in Nat /\ 0 <= n /\ n <= Len(t) /\ n - 0 = n
        BY <2>0, <2>1
      <3>2. Between(t, 0, n) \in Seq(Byte) /\ Len(Between(t, 0, n)) = n
        BY SMTT(60), <3>1, BetweenIs
      <3>3. \A i \in 1 .. n : Between(t, 0, n)[i] = t[0 + i]
        BY <3>1, BetweenIs
      <3>4. \A i \in 1 .. n : Between(t, 0, n)[i] = t[i]
        BY <3>3
      <3> QED
        BY <3>2, <3>4
    <2>5. DecodeAddress(t) \in Nat /\ EncodeAddress(DecodeAddress(t)) = a
      <3>1. Len(t) >= AddressSize
        BY <2>0, <2>1
      <3> QED
        BY <2>0, <2>4, <3>1, DecodeAddressIs
    <2> HIDE DEF o
    <2>6. o \in OperandRecords
      BY <2>2, <2>3, <2>5 DEF OperandRecords
    <2>7. EncodeOperand(o) = <<2, b[1]>> \o a \o <<b[2 + n], b[3 + n]>>
      BY <2>3, <2>5 DEF EncodeOperand
    <2>8. <<2, b[1]>> \o a \o <<b[2 + n], b[3 + n]>> = <<2>> \o b
      <3>1. PICK h \in Seq(Byte) : h = <<2, b[1]>> \o a /\ Len(h) = 2 + n /\ h[1] = 2 /\ h[2] = b[1]
                                   /\ \A i \in 1 .. n : h[2 + i] = a[i]
        <4> DEFINE x == <<2, b[1]>>
        <4>1. x \in Seq(Byte) /\ Len(x) = 2 /\ x[1] = 2 /\ x[2] = b[1]
          BY <2>2, SmallBytes, PairIs
        <4> HIDE DEF x
        <4>2. /\ x \o a \in Seq(Byte) /\ Len(x \o a) = 2 + n
              /\ \A i \in 1 .. 2 : (x \o a)[i] = x[i]
              /\ \A i \in 1 .. n : (x \o a)[2 + i] = a[i]
          <5>1. 2 \in Nat /\ n \in Nat /\ x \in Seq(Byte) /\ a \in Seq(Byte) /\ Len(x) = 2 /\ Len(a) = n
            BY <2>0, <2>4, <4>1
          <5>2. /\ x \o a \in Seq(Byte) /\ Len(x \o a) = Len(x) + Len(a)
                /\ \A i \in 1 .. Len(x) : (x \o a)[i] = x[i]
                /\ \A i \in 1 .. Len(a) : (x \o a)[Len(x) + i] = a[i]
            BY Zenon, <5>1, ConcatAt
          <5> QED
            BY <5>1, <5>2
        <4>3. (x \o a)[1] = 2 /\ (x \o a)[2] = b[1]
          BY SMTT(60), <4>1, <4>2
        <4> QED
          BY Zenon, <4>2, <4>3 DEF x
      <3>2. PICK e \in Seq(Byte) : e = <<b[2 + n], b[3 + n]>> /\ Len(e) = 2 /\ e[1] = b[2 + n] /\ e[2] = b[3 + n]
        <4>1. /\ <<b[2 + n], b[3 + n]>> \in Seq(Byte) /\ Len(<<b[2 + n], b[3 + n]>>) = 2
              /\ <<b[2 + n], b[3 + n]>>[1] = b[2 + n] /\ <<b[2 + n], b[3 + n]>>[2] = b[3 + n]
          BY <2>2, PairIs
        <4> QED
          BY Zenon, <4>1
      <3>3. PICK u \in Seq(Byte) : /\ u = h \o e /\ Len(u) = 4 + n
                                   /\ \A i \in 1 .. 2 + n : u[i] = h[i]
                                   /\ u[3 + n] = e[1] /\ u[4 + n] = e[2]
        <4>1. PICK p \in Nat : p = 2 + n /\ p + 1 = 3 + n /\ p + 2 = 4 + n
          BY <2>0
        <4>2. /\ h \o e \in Seq(Byte) /\ Len(h \o e) = p + 2
              /\ \A i \in 1 .. p : (h \o e)[i] = h[i]
              /\ \A i \in 1 .. 2 : (h \o e)[p + i] = e[i]
          <5>1. p \in Nat /\ 2 \in Nat /\ h \in Seq(Byte) /\ e \in Seq(Byte) /\ Len(h) = p /\ Len(e) = 2
            BY <3>1, <3>2, <4>1
          <5>2. /\ h \o e \in Seq(Byte) /\ Len(h \o e) = Len(h) + Len(e)
                /\ \A i \in 1 .. Len(h) : (h \o e)[i] = h[i]
                /\ \A i \in 1 .. Len(e) : (h \o e)[Len(h) + i] = e[i]
            BY Zenon, <5>1, ConcatAt
          <5> QED
            BY <5>1, <5>2
        <4>3. (h \o e)[p + 1] = e[1] /\ (h \o e)[p + 2] = e[2]
          BY <4>2
        <4> QED
          BY <4>1, <4>2, <4>3
      <3>4. PICK w \in Seq(Byte) : /\ w = <<2>> \o b /\ Len(w) = 4 + n /\ w[1] = 2
                                   /\ \A i \in 1 .. 3 + n : w[1 + i] = b[i]
        <4>1. PICK p \in Nat : p = 3 + n /\ 1 + p = 4 + n
          BY <2>0
        <4> DEFINE x == <<2>>
        <4>2. x \in Seq(Byte) /\ Len(x) = 1 /\ x[1] = 2
          BY OneByte, SmallBytes
        <4> HIDE DEF x
        <4>3. /\ x \o b \in Seq(Byte) /\ Len(x \o b) = 1 + p
              /\ \A i \in 1 .. 1 : (x \o b)[i] = x[i]
              /\ \A i \in 1 .. p : (x \o b)[1 + i] = b[i]
          <5>1. 1 \in Nat /\ p \in Nat /\ x \in Seq(Byte) /\ b \in Seq(Byte) /\ Len(x) = 1 /\ Len(b) = p
            BY <2>0, <4>1, <4>2
          <5>2. /\ x \o b \in Seq(Byte) /\ Len(x \o b) = Len(x) + Len(b)
                /\ \A i \in 1 .. Len(x) : (x \o b)[i] = x[i]
                /\ \A i \in 1 .. Len(b) : (x \o b)[Len(x) + i] = b[i]
            BY Zenon, <5>1, ConcatAt
          <5> QED
            BY <5>1, <5>2
        <4>4. (x \o b)[1] = 2 /\ Len(x \o b) = 4 + n /\ \A i \in 1 .. 3 + n : (x \o b)[1 + i] = b[i]
          <5>1. 1 \in 1 .. 1
            OBVIOUS
          <5> QED
            BY <4>1, <4>2, <4>3, <5>1
        <4> QED
          BY Zenon, <4>3, <4>4 DEF x
      <3>5. ASSUME NEW i \in 1 .. 4 + n PROVE u[i] = w[i]
        <4>1. w[1] = 2 /\ w[1 + 1] = b[1] /\ w[1 + (2 + n)] = b[2 + n] /\ w[1 + (3 + n)] = b[3 + n]
          <5>1. 1 \in 1 .. 3 + n /\ 2 + n \in 1 .. 3 + n /\ 3 + n \in 1 .. 3 + n
            BY <2>0
          <5> QED
            BY <3>4, <5>1
        <4>2. 1 + 1 = 2 /\ 1 + (2 + n) = 3 + n /\ 1 + (3 + n) = 4 + n
          BY <2>0
        <4>3. CASE i = 1 \/ i = 2
          <5>1. i \in 1 .. 2 + n
            BY <2>0, <4>3
          <5> QED
            BY SMTT(60), <3>1, <3>3, <4>1, <4>2, <4>3, <5>1
        <4>4. CASE i = 3 + n \/ i = 4 + n
          BY <3>2, <3>3, <4>1, <4>2, <4>4
        <4>5. CASE i \in 3 .. 2 + n
          <5>1. PICK k \in 1 .. n : i = 2 + k /\ 1 + k \in 1 .. 3 + n /\ i = 1 + (1 + k) /\ k \in 1 .. 2 + n
            BY <2>0, <4>5
          <5>2. u[i] = h[2 + k]
            BY <2>0, <3>3, <4>5, <5>1
          <5>3. h[2 + k] = a[k] /\ a[k] = t[k] /\ t[k] = b[1 + k]
            BY <2>1, <2>4, <3>1, <5>1
          <5>4. w[1 + (1 + k)] = b[1 + k]
            BY <3>4, <5>1
          <5> QED
            BY <5>1, <5>2, <5>3, <5>4
        <4>6. i = 1 \/ i = 2 \/ i = 3 + n \/ i = 4 + n \/ i \in 3 .. 2 + n
          BY <2>0
        <4> QED
          BY <4>3, <4>4, <4>5, <4>6
      <3>6. u = w
        BY ZenonT(60), <3>3, <3>4, <3>5, SeqEqual
      <3> QED
        BY <3>1, <3>2, <3>3, <3>4, <3>6
    <2> QED
      BY <1>4, <2>6, <2>7, <2>8 DEF o
  <1> QED
    BY <1>1, <1>2, <1>3, <1>4

\* What decode_loggable_item() finds is written again to the bytes it was read from.
LEMMA FieldsOfItem ==
  ASSUME NEW c \in 0 .. 2, NEW b \in Seq(Byte), Len(b) = ItemLength[ItemKinds[c]]
  PROVE  /\ ItemOf(ItemKinds[c], b) \in ItemRecords
         /\ EncodeItem(ItemOf(ItemKinds[c], b)) = <<c>> \o b
  <1> DEFINE o == ItemOf(ItemKinds[c], b)
  <1>1. CASE c = 0
    <2>1. PICK n \in Nat \ {0} : n = AddressSize /\ Len(b) = n + 1 /\ b[n + 1] \in Byte
      BY <1>1, OperandKindsAre, OperandLengths, AddressSizeIs
    <2>2. o = [kind |-> "Memory", addr |-> DecodeAddress(b), size |-> b[n + 1]]
      BY <1>1, <2>1, OperandKindsAre DEF ItemOf
    <2>3. PICK a \in Seq(Byte) : a = Between(b, 0, n)
      BY <2>1, BetweenIs
    <2>4. DecodeAddress(b) \in Nat /\ EncodeAddress(DecodeAddress(b)) = a
      BY <2>1, <2>3, DecodeAddressIs
    <2> HIDE DEF o
    <2>5. o \in ItemRecords
      BY <2>1, <2>2, <2>4 DEF ItemRecords
    <2>6. EncodeItem(o) = <<0>> \o a \o <<b[n + 1]>>
      BY <2>2, <2>4 DEF EncodeItem
    <2>7. a \o <<b[n + 1]>> = b
      <3>1. PICK m \in Nat : m = n + 1 /\ n <= m /\ Len(b) = m /\ 0 <= n
        BY <2>1
      <3>2. Between(b, n, m) = <<b[m]>>
        BY <2>1, <3>1, OneBetween
      <3>3. Between(b, 0, n) \o Between(b, n, m) = Between(b, 0, m)
        <4>1. n \in Nat /\ m \in Nat /\ 0 \in Nat /\ 0 <= n /\ n <= m /\ m <= Len(b)
          BY <2>1, <3>1
        <4> QED
          BY <4>1, JoinBetween
      <3> QED
        BY <2>3, <3>1, <3>2, <3>3, WholeBetween
    <2>8. <<0>> \o a \o <<b[n + 1]>> = <<0>> \o (a \o <<b[n + 1]>>)
      BY <2>1, <2>3, OneByte, SmallBytes, ConcatAssociative
    <2> QED
      BY <1>1, <2>5, <2>6, <2>7, <2>8 DEF o
  <1>2. CASE c = 1
    <2>1. o = [kind |-> "Rpv", id |-> Decode(b)]
      BY <1>2, OperandKindsAre DEF ItemOf
    <2>2. Decode(b) \in Nat /\ Encode(Decode(b), 2) = b
      BY <1>2, OperandKindsAre, OperandLengths, Reencoded
    <2> HIDE DEF o
    <2>3. o \in ItemRecords
      BY <2>1, <2>2 DEF ItemRecords
    <2>4. EncodeItem(o) = <<1>> \o b
      BY <2>1, <2>2 DEF EncodeItem
    <2> QED
      BY <1>2, <2>3, <2>4 DEF o
  <1>3. CASE c = 2
    <2>1. o = [kind |-> "Time"]
      BY <1>3, OperandKindsAre DEF ItemOf
    <2>2. b = <<>>
      BY <1>3, OperandKindsAre, OperandLengths
    <2> HIDE DEF o
    <2>3. o \in ItemRecords
      BY <2>1 DEF ItemRecords
    <2>4. EncodeItem(o) = <<2>> \o b
      BY <2>1, <2>2, SmallBytes DEF EncodeItem
    <2> QED
      BY <1>3, <2>3, <2>4 DEF o
  <1> QED
    BY <1>1, <1>2, <1>3

-----------------------------------------------------------------------------
(* Elements decoded one after the other *)

\* After k elements: is the request still good, the cursor, and the cells of the object.
ElementStep(data, ok, cur, cell, E, enc, k) ==
    ok[k] => /\ ok[k - 1] /\ cur[k - 1] <= cur[k] /\ cur[k] <= Len(data)
             /\ cell[k][k] \in E /\ Between(data, cur[k - 1], cur[k]) = enc[cell[k][k]]
             /\ \A j \in 1 .. k - 1 : cell[k][j] = cell[k - 1][j]
ElementRun(data, ok, cur, cell, E, enc, n) ==
    \A k \in 1 .. n : ElementStep(data, ok, cur, cell, E, enc, k)

\* The cells are what the bytes up to the cursor encode.
CellRead(data, cur, row, E, enc, j) ==
    /\ cur[j - 1] <= cur[j] /\ cur[j] <= Len(data)
    /\ row[j] \in E /\ Between(data, cur[j - 1], cur[j]) = enc[row[j]]
CellsRead(data, cur, row, E, enc, k) == \A j \in 1 .. k : CellRead(data, cur, row, E, enc, j)

\* Elements that each lie where the one before ends make the bytes between.
LEMMA ElementsRead ==
  ASSUME NEW data \in Seq(Byte), NEW n \in Nat, NEW ok, NEW cur \in [0 .. n -> Nat], NEW cell, NEW E, NEW enc,
         ElementRun(data, ok, cur, cell, E, enc, n), ok[n]
  PROVE  ok[0] /\ CellsRead(data, cur, cell[n], E, enc, n)
  <1> DEFINE T == {k \in 0 .. n : ok[k] => ok[0] /\ CellsRead(data, cur, cell[k], E, enc, k)}
  <1>1. 0 \in T
    BY DEF CellsRead
  <1>2. ASSUME NEW k \in 1 .. n, k - 1 \in T PROVE k \in T
    <2>1. PICK i \in 0 .. n : i = k - 1 /\ k \in 0 .. n
      OBVIOUS
    <2>2. SUFFICES ASSUME ok[k] PROVE ok[0] /\ CellsRead(data, cur, cell[k], E, enc, k)
      BY <2>1
    <2>3. ElementStep(data, ok, cur, cell, E, enc, k)
      BY DEF ElementRun
    <2>4. /\ ok[i] /\ cur[i] <= cur[k] /\ cur[k] <= Len(data)
          /\ cell[k][k] \in E /\ Between(data, cur[i], cur[k]) = enc[cell[k][k]]
          /\ \A j \in 1 .. i : cell[k][j] = cell[i][j]
      BY <2>1, <2>2, <2>3 DEF ElementStep
    <2>5. ok[0] /\ CellsRead(data, cur, cell[i], E, enc, i)
      BY <1>2, <2>1, <2>4
    <2>6. ASSUME NEW j \in 1 .. k PROVE CellRead(data, cur, cell[k], E, enc, j)
      <3>1. CASE j = k
        BY <2>1, <2>4, <3>1 DEF CellRead
      <3>2. CASE j # k
        <4>1. j \in 1 .. i
          BY <2>1, <3>2
        <4>2. CellRead(data, cur, cell[i], E, enc, j) /\ cell[k][j] = cell[i][j]
          BY <2>4, <2>5, <4>1 DEF CellsRead
        <4> QED
          BY <4>2 DEF CellRead
      <3> QED
        BY <3>1, <3>2
    <2> QED
      BY <2>5, <2>6 DEF CellsRead
  <1> HIDE DEF T
  <1>3. n \in T
    <2>1. n \in 0 .. n
      OBVIOUS
    <2> QED
      BY <1>1, <1>2, <2>1, UpTo
  <1> QED
    BY <1>3 DEF T

CellBytes(enc, row, n) == FlattenSeq([j \in 1 .. n |-> enc[row[j]]])

LEMMA CellsFlattened ==
  ASSUME NEW data \in Seq(Byte), NEW n \in Nat, NEW cur \in [0 .. n -> Nat], NEW row, NEW E, NEW enc,
         CellsRead(data, cur, row, E, enc, n), cur[0] <= Len(data)
  PROVE  /\ CellBytes(enc, row, n) = Between(data, cur[0], cur[n])
         /\ cur[0] <= cur[n] /\ cur[n] <= Len(data)
  <1> DEFINE seqs == [j \in 1 .. n |-> enc[row[j]]]
  <1>1. Len(seqs) = n /\ (n = 0 => seqs = <<>>) /\ \A j \in 1 .. n : seqs[j] = enc[row[j]]
    OBVIOUS
  <1> HIDE DEF seqs
  <1>2. Len(data) \in Nat /\ 0 \in 0 .. n /\ n \in 0 .. n
    OBVIOUS
  <1>3. ASSUME NEW j \in 0 .. n PROVE cur[j] \in 0 .. Len(data)
    <2>1. cur[j] \in Nat
      OBVIOUS
    <2>2. cur[j] <= Len(data)
      <3>1. CASE j = 0
        BY <3>1
      <3>2. CASE j # 0
        <4>1. j \in 1 .. n
          BY <3>2
        <4> QED
          BY <4>1 DEF CellsRead, CellRead
      <3> QED
        BY <3>1, <3>2
    <2> QED
      BY <1>2, <2>1, <2>2
  <1>4. cur \in [0 .. n -> 0 .. Len(data)]
    BY <1>3
  <1>5. CutInto(data, cur, seqs, n)
    <2>1. ASSUME NEW k \in 1 .. n PROVE cur[k - 1] <= cur[k] /\ seqs[k] = Between(data, cur[k - 1], cur[k])
      <3>1. CellRead(data, cur, row, E, enc, k)
        BY DEF CellsRead
      <3> QED
        BY <1>1, <3>1 DEF CellRead
    <2> QED
      BY <2>1 DEF CutInto
  <1>6. FlattenSeq(seqs) = Between(data, cur[0], cur[n]) /\ cur[0] <= cur[n]
    <2>1. data \in Seq(Byte) /\ n \in Nat /\ Len(seqs) = n /\ (n = 0 => seqs = <<>>)
      BY <1>1
    <2> QED
      BY ONLY <1>4, <1>5, <2>1, FlattenCuts
  <1>7. cur[n] <= Len(data)
    BY <1>2, <1>3
  <1> QED
    BY <1>6, <1>7 DEF seqs, CellBytes

-----------------------------------------------------------------------------
(* The object that requests are decoded into *)

OperandCells == OperandRecords \union {Unset, Torn}
ItemCells == ItemRecords \union {Unset, Torn}
Objects ==
    [decimation : Nat, probe_location : Byte, timeout : Nat, condition : Byte, hold_time : Nat,
     operand_count : Byte, operands : [1 .. MaxOperands -> OperandCells],
     items_count : Byte, items : [1 .. MaxSignal -> ItemCells]]
DecodingCodes == {"OK", "InvalidRequest", "Overflow"}
Decodings == [code : DecodingCodes, cursor : Nat, config : Objects]

SameHeader(a, b) ==
    /\ a.decimation = b.decimation /\ a.probe_location = b.probe_location /\ a.timeout = b.timeout
    /\ a.condition = b.condition /\ a.hold_time = b.hold_time /\ a.operand_count = b.operand_count

LEMMA CompleteFields ==
  ASSUME NEW data \in Seq(Byte), NEW d \in Decodings, NEW n \in Nat, Complete(data, d, n)
  PROVE  /\ Fields(data, d, n) \in Seq(Byte) /\ Len(Fields(data, d, n)) = n
         /\ data[d.cursor + 1] \in Byte
         /\ Between(data, d.cursor, d.cursor + 1 + n) = <<data[d.cursor + 1]>> \o Fields(data, d, n)
  <1>1. PICK p \in Nat, q \in Nat, r \in Nat :
             p = d.cursor /\ q = p + 1 /\ r = q + n /\ r <= Len(data) /\ r = d.cursor + 1 + n /\ r - q = n
    BY DEF Complete, Decodings
  <1>2. p <= q /\ q <= r /\ q <= Len(data) /\ q \in 1 .. Len(data) /\ q + 1 = d.cursor + 2
    <2>1. Len(data) \in Nat /\ p \in Nat /\ q \in Nat /\ r \in Nat
      BY <1>1
    <2>2. p + 2 = q + 1
      BY <1>1
    <2>4. q = p + 1 /\ r = q + n /\ r <= Len(data)
      BY <1>1
    <2>5. p <= q /\ q <= r
      BY <2>1, <2>4
    <2>6. q <= Len(data) /\ 1 <= q
      BY <2>1, <2>4
    <2>3. p <= q /\ q <= r /\ q <= Len(data) /\ q \in 1 .. Len(data)
      BY <2>1, <2>5, <2>6
    <2> QED
      BY <1>1, <2>2, <2>3
  <1>3. Fields(data, d, n) = Between(data, q, r)
    BY <1>1, <1>2 DEF Fields, Between
  <1>4. Between(data, q, r) \in Seq(Byte) /\ Len(Between(data, q, r)) = n
    <2>1. q \in Nat /\ r \in Nat /\ q <= r /\ r <= Len(data)
      BY <1>1, <1>2
    <2>2. Len(Between(data, q, r)) = r - q /\ Between(data, q, r) \in Seq(Byte)
      BY Zenon, <2>1, BetweenIs
    <2> QED
      BY <1>1, <2>2
  <1>5. Between(data, p, q) = <<data[q]>>
    BY <1>1, <1>2, OneBetween
  <1>6. Between(data, p, q) \o Between(data, q, r) = Between(data, p, r)
    <2>1. p \in Nat /\ q \in Nat /\ r \in Nat /\ p <= q /\ q <= r /\ r <= Len(data)
      BY <1>1, <1>2
    <2> QED
      BY Zenon, <2>1, JoinBetween
  <1>7. data[q] \in Byte
    BY <1>2
  <1> QED
    BY <1>1, <1>3, <1>4, <1>5, <1>6, <1>7

LEMMA RefuseIs ==
  ASSUME NEW d \in Decodings, NEW code \in DecodingCodes
  PROVE  Refuse(d, code) \in Decodings /\ Refuse(d, code).code = code
  BY DEF Refuse, Decodings

\* What a step of the decoding of operands does.
OperandStep(data, d, e, i) ==
    /\ e \in Decodings
    /\ e.code = "OK" =>
          /\ d.code = "OK" /\ d.cursor <= e.cursor /\ e.cursor <= Len(data)
          /\ e.config.operands[i] \in OperandRecords
          /\ Between(data, d.cursor, e.cursor) = EncodeOperand(e.config.operands[i])
          /\ \A j \in 1 .. i - 1 : e.config.operands[j] = d.config.operands[j]
          /\ SameHeader(e.config, d.config)

\* The operand that is decoded has the types of the code, and its bytes are those of the
\* request.
LEMMA DecodeOperandIs ==
  ASSUME NEW data \in Seq(Byte), NEW d \in Decodings, NEW i \in 1 .. MaxOperands
  PROVE  OperandStep(data, d, DecodeOperand(data, d, i), i)
  <1> DEFINE e == DecodeOperand(data, d, i)
             byte == data[d.cursor + 1]
             kind == OperandKinds[byte]
             length == OperandLength[kind]
  <1>1. CASE d.code # "OK"
    <2>1. e = d
      BY <1>1 DEF DecodeOperand
    <2> QED
      BY <1>1, <2>1 DEF OperandStep
  <1>2. CASE d.code = "OK" /\ ~Complete(data, d, 0)
    <2>1. e = Refuse(d, "InvalidRequest")
      BY <1>2 DEF DecodeOperand
    <2>2. e \in Decodings /\ e.code # "OK"
      BY <2>1, RefuseIs DEF DecodingCodes
    <2> QED
      BY <2>2 DEF OperandStep
  <1>3. CASE d.code = "OK" /\ Complete(data, d, 0)
               /\ (byte \notin DOMAIN OperandKinds \/ ~Complete(data, d, length))
    <2>1. e = [Refuse(d, "InvalidRequest") EXCEPT !.config.operands[i] = Torn]
      BY <1>3 DEF DecodeOperand
    <2>2. PICK r \in Decodings : r = Refuse(d, "InvalidRequest") /\ r.code = "InvalidRequest"
      BY RefuseIs DEF DecodingCodes
    <2>3. e = [r EXCEPT !.config = [r.config EXCEPT !.operands = [r.config.operands EXCEPT ![i] = Torn]]]
      BY <2>1, <2>2
    <2>4. PICK o \in [1 .. MaxOperands -> OperandCells] : o = [r.config.operands EXCEPT ![i] = Torn]
      BY DEF Decodings, Objects, OperandCells
    <2>5. PICK c \in Objects : c = [r.config EXCEPT !.operands = o]
      BY DEF Decodings, Objects
    <2>6. e = [r EXCEPT !.config = c]
      BY <2>3, <2>4, <2>5
    <2>7. e \in Decodings /\ e.code = "InvalidRequest"
      BY <2>2, <2>6 DEF Decodings
    <2> QED
      BY <2>7 DEF OperandStep
  <1>4. CASE d.code = "OK" /\ Complete(data, d, 0) /\ byte \in DOMAIN OperandKinds /\ Complete(data, d, length)
    <2>1. byte \in 0 .. 3
      BY <1>4, OperandKindsAre
    <2>2. PICK n \in Nat : n = length
      <3>1. AddressSize \in Nat
        BY AddressSizeIs
      <3>2. byte = 0 \/ byte = 1 \/ byte = 2 \/ byte = 3
        BY <2>1
      <3>3. length \in Nat
        BY <3>1, <3>2, OperandKindsAre, OperandLengths
      <3> QED
        BY <3>3
    <2> DEFINE b == Fields(data, d, n)
               o == OperandOf(kind, b)
    <2>3. /\ b \in Seq(Byte) /\ Len(b) = length
          /\ Between(data, d.cursor, d.cursor + 1 + n) = <<byte>> \o b
      BY <1>4, <2>2, CompleteFields
    <2>4. o \in OperandRecords /\ EncodeOperand(o) = <<byte>> \o b
      BY <2>1, <2>3, FieldsOfOperand
    <2>5. e = [d EXCEPT !.cursor = @ + 1 + n, !.config.operands[i] = o]
      BY <1>4, <2>2 DEF DecodeOperand
    <2>6. PICK p \in Nat : p = d.cursor + 1 + n /\ d.cursor <= p /\ p <= Len(data)
      BY <1>4, <2>2 DEF Complete, Decodings
    <2> HIDE DEF o
    <2> DEFINE cells == [d.config.operands EXCEPT ![i] = o]
               c == [d.config EXCEPT !.operands = cells]
    <2>7. /\ cells \in [1 .. MaxOperands -> OperandCells] /\ cells[i] = o
          /\ \A j \in 1 .. i - 1 : cells[j] = d.config.operands[j]
      <3>1. d.config.operands \in [1 .. MaxOperands -> OperandCells] /\ o \in OperandCells
        BY <2>4 DEF Decodings, Objects, OperandCells
      <3>2. \A j \in 1 .. i - 1 : j \in 1 .. MaxOperands /\ j # i
        BY ArraysAssumption
      <3> QED
        BY <3>1, <3>2
    <2> HIDE DEF cells
    <2>8. c \in Objects /\ c.operands = cells /\ SameHeader(c, d.config)
      BY <2>7 DEF Decodings, Objects, SameHeader
    <2>9. e = [d EXCEPT !.cursor = p, !.config = c]
      BY <2>5, <2>6 DEF Decodings, cells
    <2> HIDE DEF c
    <2>10. e \in Decodings /\ e.cursor = p /\ e.config = c
      BY <2>8, <2>9 DEF Decodings
    <2> QED
      BY <1>4, <2>3, <2>4, <2>6, <2>7, <2>8, <2>10 DEF OperandStep
  <1> QED
    BY <1>1, <1>2, <1>3, <1>4
\* What a step of the decoding of items does.
ItemStep(data, d, e, i) ==
    /\ e \in Decodings
    /\ e.code = "OK" =>
          /\ d.code = "OK" /\ d.cursor <= e.cursor /\ e.cursor <= Len(data)
          /\ e.config.items[i] \in ItemRecords
          /\ Between(data, d.cursor, e.cursor) = EncodeItem(e.config.items[i])
          /\ \A j \in 1 .. i - 1 : e.config.items[j] = d.config.items[j]
          /\ SameHeader(e.config, d.config) /\ e.config.operands = d.config.operands
          /\ e.config.items_count = d.config.items_count

\* The item that is decoded has the types of the code, and its bytes are those of the request.
LEMMA DecodeItemIs ==
  ASSUME NEW data \in Seq(Byte), NEW d \in Decodings, NEW i \in 1 .. MaxSignal
  PROVE  ItemStep(data, d, DecodeItem(data, d, i), i)
  <1> DEFINE e == DecodeItem(data, d, i)
             byte == data[d.cursor + 1]
             kind == ItemKinds[byte]
             length == ItemLength[kind]
  <1>1. CASE d.code # "OK"
    <2>1. e = d
      BY <1>1 DEF DecodeItem
    <2> QED
      BY <1>1, <2>1 DEF ItemStep
  <1>2. CASE d.code = "OK" /\ ~Complete(data, d, 0)
    <2>1. e = Refuse(d, "InvalidRequest")
      BY <1>2 DEF DecodeItem
    <2>2. e \in Decodings /\ e.code # "OK"
      BY <2>1, RefuseIs DEF DecodingCodes
    <2> QED
      BY <2>2 DEF ItemStep
  <1>3. CASE d.code = "OK" /\ Complete(data, d, 0)
               /\ (byte \notin DOMAIN ItemKinds \/ ~Complete(data, d, length))
    <2>1. e = [Refuse(d, "InvalidRequest") EXCEPT !.config.items[i] = Torn]
      BY <1>3 DEF DecodeItem
    <2>2. PICK r \in Decodings : r = Refuse(d, "InvalidRequest") /\ r.code = "InvalidRequest"
      BY RefuseIs DEF DecodingCodes
    <2>3. e = [r EXCEPT !.config = [r.config EXCEPT !.items = [r.config.items EXCEPT ![i] = Torn]]]
      BY <2>1, <2>2
    <2>4. PICK o \in [1 .. MaxSignal -> ItemCells] : o = [r.config.items EXCEPT ![i] = Torn]
      BY DEF Decodings, Objects, ItemCells
    <2>5. PICK c \in Objects : c = [r.config EXCEPT !.items = o]
      BY DEF Decodings, Objects
    <2>6. e = [r EXCEPT !.config = c]
      BY <2>3, <2>4, <2>5
    <2>7. e \in Decodings /\ e.code = "InvalidRequest"
      BY <2>2, <2>6 DEF Decodings
    <2> QED
      BY <2>7 DEF ItemStep
  <1>4. CASE d.code = "OK" /\ Complete(data, d, 0) /\ byte \in DOMAIN ItemKinds /\ Complete(data, d, length)
    <2>1. byte \in 0 .. 2
      BY <1>4, OperandKindsAre
    <2>2. PICK n \in Nat : n = length
      <3>1. AddressSize \in Nat
        BY AddressSizeIs
      <3>2. byte = 0 \/ byte = 1 \/ byte = 2
        BY <2>1
      <3>3. length \in Nat
        BY <3>1, <3>2, OperandKindsAre, OperandLengths
      <3> QED
        BY <3>3
    <2> DEFINE b == Fields(data, d, n)
               o == ItemOf(kind, b)
    <2>3. /\ b \in Seq(Byte) /\ Len(b) = length
          /\ Between(data, d.cursor, d.cursor + 1 + n) = <<byte>> \o b
      BY <1>4, <2>2, CompleteFields
    <2>4. o \in ItemRecords /\ EncodeItem(o) = <<byte>> \o b
      BY <2>1, <2>3, FieldsOfItem
    <2>5. e = [d EXCEPT !.cursor = @ + 1 + n, !.config.items[i] = o]
      BY <1>4, <2>2 DEF DecodeItem
    <2>6. PICK p \in Nat : p = d.cursor + 1 + n /\ d.cursor <= p /\ p <= Len(data)
      BY <1>4, <2>2 DEF Complete, Decodings
    <2> HIDE DEF o
    <2> DEFINE cells == [d.config.items EXCEPT ![i] = o]
               c == [d.config EXCEPT !.items = cells]
    <2>7. /\ cells \in [1 .. MaxSignal -> ItemCells] /\ cells[i] = o
          /\ \A j \in 1 .. i - 1 : cells[j] = d.config.items[j]
      <3>1. d.config.items \in [1 .. MaxSignal -> ItemCells] /\ o \in ItemCells
        BY <2>4 DEF Decodings, Objects, ItemCells
      <3>2. \A j \in 1 .. i - 1 : j \in 1 .. MaxSignal /\ j # i
        BY ArraysAssumption
      <3> QED
        BY <3>1, <3>2
    <2> HIDE DEF cells
    <2>8. c \in Objects /\ c.items = cells /\ SameHeader(c, d.config)
          /\ c.operands = d.config.operands /\ c.items_count = d.config.items_count
      BY <2>7 DEF Decodings, Objects, SameHeader
    <2>9. e = [d EXCEPT !.cursor = p, !.config = c]
      BY <2>5, <2>6 DEF Decodings, cells
    <2> HIDE DEF c
    <2>10. e \in Decodings /\ e.cursor = p /\ e.config = c
      BY <2>8, <2>9 DEF Decodings
    <2> QED
      BY <1>4, <2>3, <2>4, <2>6, <2>7, <2>8, <2>10 DEF ItemStep
  <1> QED
    BY <1>1, <1>2, <1>3, <1>4

LEMMA ByteIs == \A b : b \in Byte <=> b \in Nat /\ b < 256
  BY DEF Byte

LEMMA ArraysAre == /\ MaxOperands \in Nat \ {0} /\ MaxOperands < 255
                   /\ MaxSignal \in Nat \ {0} /\ MaxSignal < 255
  BY ArraysAssumption

HasHeader(data) == Len(data) >= 16

LEMMA SixteenAndMore ==
  ASSUME NEW data \in Seq(Byte), HasHeader(data), NEW config \in Objects
  PROVE  DecodeHeader(data, config) \in Objects /\ data[16] \in Byte
  <1>1. data[6] \in Byte /\ data[11] \in Byte /\ data[16] \in Byte
    <2>1. 6 \in 1 .. Len(data) /\ 11 \in 1 .. Len(data) /\ 16 \in 1 .. Len(data)
      BY DEF HasHeader
    <2> QED
      BY <2>1
  <1>2. ASSUME NEW a \in 0 .. 16, NEW b \in 0 .. 16, a <= b PROVE Decode(SubSeq(data, a + 1, b)) \in Nat
    <2>1. a \in Nat /\ b \in Nat /\ a <= b /\ b <= Len(data)
      BY <1>2 DEF HasHeader
    <2>2. Between(data, a, b) \in Seq(Byte)
      BY Zenon, <2>1, BetweenIs
    <2>3. Decode(Between(data, a, b)) \in Nat
      BY <2>2, Reencoded
    <2> QED
      BY <2>3 DEF Between
  <1>3. /\ Decode(SubSeq(data, 3 + 1, 5)) \in Nat /\ Decode(SubSeq(data, 6 + 1, 10)) \in Nat
        /\ Decode(SubSeq(data, 11 + 1, 15)) \in Nat
    BY <1>2
  <1>4. 3 + 1 = 4 /\ 6 + 1 = 7 /\ 11 + 1 = 12
    OBVIOUS
  <1>5. /\ Decode(SubSeq(data, 4, 5)) \in Nat /\ Decode(SubSeq(data, 7, 10)) \in Nat
        /\ Decode(SubSeq(data, 12, 15)) \in Nat
    BY <1>3, <1>4
  <1> QED
    BY <1>1, <1>5 DEF DecodeHeader, Objects

\* A request decoded to its operands: they are in the object, and encoded where they were read.
OperandsRead(data, d, header) ==
    /\ header.operand_count <= MaxOperands
    /\ 16 <= d.cursor /\ d.cursor <= Len(data)
    /\ SameHeader(d.config, header)
    /\ \A j \in 1 .. header.operand_count : d.config.operands[j] \in OperandRecords
    /\ FlattenSeq([j \in 1 .. header.operand_count |-> EncodeOperand(d.config.operands[j])]) = Between(data, 16, d.cursor)

OperandSteps(data, f, n) == \A k \in 1 .. n : OperandStep(data, f[k - 1], f[k], k)

OperandsBegin(f, header, n) ==
    /\ n <= MaxOperands /\ n = header.operand_count
    /\ f[0].cursor = 16 /\ f[0].config = header /\ f[n].code = "OK"

\* The cursor and the operands, one operand after the other.
LEMMA OperandRun ==
  ASSUME NEW data \in Seq(Byte), HasHeader(data), NEW n \in Nat, NEW header \in Objects,
         NEW f \in [0 .. n -> Decodings], OperandSteps(data, f, n), OperandsBegin(f, header, n)
  PROVE  OperandsRead(data, f[n], header)
  <1> DEFINE ok == [k \in 0 .. n |-> f[k].code = "OK"]
             cur == [k \in 0 .. n |-> f[k].cursor]
             cell == [k \in 0 .. n |-> f[k].config.operands]
             enc == [o \in OperandRecords |-> EncodeOperand(o)]
  <1>1. /\ \A k \in 0 .. n : ok[k] = (f[k].code = "OK") /\ cur[k] = f[k].cursor /\ cell[k] = f[k].config.operands
        /\ cur \in [0 .. n -> Nat]
    BY DEF Decodings
  <1>2. \A o \in OperandRecords : enc[o] = EncodeOperand(o)
    OBVIOUS
  <1> HIDE DEF ok, cur, cell, enc
  <1>3. ASSUME NEW k \in 1 .. n PROVE ElementStep(data, ok, cur, cell, OperandRecords, enc, k)
    <2>1. PICK i \in 0 .. n : i = k - 1 /\ k \in 0 .. n
      OBVIOUS
    <2>2. OperandStep(data, f[i], f[k], k)
      BY <2>1 DEF OperandSteps
    <2>3. /\ ok[k] = (f[k].code = "OK") /\ cur[k] = f[k].cursor /\ cell[k] = f[k].config.operands
          /\ ok[i] = (f[i].code = "OK") /\ cur[i] = f[i].cursor /\ cell[i] = f[i].config.operands
      BY <1>1, <2>1
    <2> QED
      BY <1>2, <2>1, <2>2, <2>3 DEF OperandStep, ElementStep
  <1>4. ElementRun(data, ok, cur, cell, OperandRecords, enc, n)
    BY <1>3 DEF ElementRun
  <1>5. n \in 0 .. n /\ 0 \in 0 .. n
    OBVIOUS
  <1>6. ok[n]
    BY <1>1, <1>5 DEF OperandsBegin
  <1>7. CellsRead(data, cur, cell[n], OperandRecords, enc, n)
    BY <1>1, <1>4, <1>6, ElementsRead
  <1>8. cur[0] = 16 /\ cur[n] = f[n].cursor /\ cell[n] = f[n].config.operands
    BY <1>1, <1>5 DEF OperandsBegin
  <1> DEFINE row == cell[n]
  <1>9. /\ FlattenSeq([j \in 1 .. n |-> enc[row[j]]]) = Between(data, 16, f[n].cursor)
        /\ 16 <= f[n].cursor /\ f[n].cursor <= Len(data)
    <2>1. cur[0] <= Len(data)
      BY <1>8 DEF HasHeader
    <2>2. CellsRead(data, cur, row, OperandRecords, enc, n)
      BY <1>7
    <2> HIDE DEF row
    <2>3. /\ CellBytes(enc, row, n) = Between(data, cur[0], cur[n])
          /\ cur[0] <= cur[n] /\ cur[n] <= Len(data)
      <3>1. cur \in [0 .. n -> Nat]
        BY <1>1
      <3> QED
        BY <3>1, <2>1, <2>2, CellsFlattened
    <2> QED
      BY <1>8, <2>3 DEF CellBytes
  <1>10. \A j \in 1 .. n : row[j] \in OperandRecords
    BY <1>7 DEF CellsRead, CellRead
  <1>11. [j \in 1 .. n |-> enc[row[j]]] = [j \in 1 .. n |-> EncodeOperand(row[j])]
    BY <1>2, <1>10
  <1>12. SameHeader(f[n].config, header)
    <2> DEFINE T == {k \in 0 .. n : f[k].code = "OK" => SameHeader(f[k].config, header)}
    <2>1. 0 \in T
      BY DEF SameHeader, OperandsBegin
    <2>2. ASSUME NEW k \in 1 .. n, k - 1 \in T PROVE k \in T
      <3>1. PICK i \in 0 .. n : i = k - 1 /\ k \in 0 .. n
        OBVIOUS
      <3>2. OperandStep(data, f[i], f[k], k)
        BY <3>1 DEF OperandSteps
      <3>3. f[i].code = "OK" => SameHeader(f[i].config, header)
        BY <2>2, <3>1
      <3>4. f[k].code = "OK" => SameHeader(f[k].config, header)
        BY <3>2, <3>3 DEF OperandStep, SameHeader
      <3> QED
        BY <3>1, <3>4
    <2> HIDE DEF T
    <2>3. n \in T
      BY <1>5, <2>1, <2>2, UpTo
    <2> QED
      BY <2>3 DEF T
  <1> QED
    BY <1>8, <1>9, <1>10, <1>11, <1>12 DEF OperandsRead, OperandsBegin

OperandLoop(v, data, start, n) ==
    v = [i \in 0 .. n |-> IF i = 0 THEN start ELSE DecodeOperand(data, v[i - 1], i)]

LEMMA OperandLoopIs ==
  ASSUME NEW data \in Seq(Byte), NEW n \in Nat, n <= MaxOperands, NEW start \in Decodings
  PROVE  /\ \E v : OperandLoop(v, data, start, n)
         /\ \A v : OperandLoop(v, data, start, n) =>
                      v \in [0 .. n -> Decodings] /\ v[0] = start /\ OperandSteps(data, v, n)
  <1> DEFINE V == Decodings
             step == [k \in 1 .. n |-> [v \in V |-> DecodeOperand(data, v, k)]]
  <1>1. \A k \in 1 .. n, v \in V : step[k][v] = DecodeOperand(data, v, k)
    OBVIOUS
  <1>2. ASSUME NEW k \in 1 .. n, NEW v \in V PROVE OperandStep(data, v, DecodeOperand(data, v, k), k)
    <2>1. k \in 1 .. MaxOperands
      BY ArraysAre
    <2> QED
      BY <2>1, DecodeOperandIs
  <1>3. \A k \in 1 .. n, v \in V : DecodeOperand(data, v, k) \in V
    BY <1>2 DEF OperandStep
  <1>4. Stepping(step, n, V)
    BY <1>3 DEF Stepping
  <1>5. start \in V
    OBVIOUS
  <1> HIDE DEF step, V
  <1>6. \E v : OperandLoop(v, data, start, n)
    <2>1. PICK f : f \in [0 .. n -> V] /\ Follows(f, start, step, n, V)
      BY <1>4, <1>5, Recursion
    <2>2. ASSUME NEW k \in 1 .. n PROVE f[k] = DecodeOperand(data, f[k - 1], k) /\ f[k - 1] \in V
      <3>1. k - 1 \in 0 .. n
        OBVIOUS
      <3>2. f[k - 1] \in V
        BY <2>1, <3>1
      <3> QED
        BY <1>1, <2>1, <3>2 DEF Follows
    <2>3. f[0] = start
      BY <2>1 DEF Follows
    <2>4. \A k \in 0 .. n : k = 0 \/ k \in 1 .. n
      OBVIOUS
    <2>5. \A k \in 0 .. n : f[k] = IF k = 0 THEN start ELSE DecodeOperand(data, f[k - 1], k)
      BY <2>2, <2>3, <2>4
    <2>6. f = [k \in 0 .. n |-> f[k]]
      BY <2>1
    <2>7. OperandLoop(f, data, start, n)
      BY Zenon, <2>5, <2>6 DEF OperandLoop
    <2> QED
      BY <2>7
  <1>7. ASSUME NEW v, OperandLoop(v, data, start, n)
        PROVE  v \in [0 .. n -> V] /\ v[0] = start /\ OperandSteps(data, v, n)
    <2>1. 0 \in 0 .. n /\ \A k \in 1 .. n : k \in 0 .. n /\ k # 0
      OBVIOUS
    <2>2. v[0] = start /\ \A k \in 1 .. n : v[k] = DecodeOperand(data, v[k - 1], k)
      BY Zenon, <1>7, <2>1 DEF OperandLoop
    <2> DEFINE T == {k \in 0 .. n : v[k] \in V}
    <2>3. 0 \in T
      BY <1>5, <2>2
    <2>4. ASSUME NEW k \in 1 .. n, k - 1 \in T PROVE k \in T
      BY <1>3, <2>2, <2>4
    <2> HIDE DEF T
    <2>5. \A k \in 0 .. n : k \in T
      BY <2>3, <2>4, UpTo
    <2>6. \A k \in 0 .. n : v[k] \in V
      BY <2>5 DEF T
    <2>7. v = [k \in 0 .. n |-> v[k]]
      BY Zenon, <1>7, <2>1 DEF OperandLoop
    <2>8. ASSUME NEW k \in 1 .. n PROVE OperandStep(data, v[k - 1], v[k], k)
      <3>1. k - 1 \in 0 .. n
        OBVIOUS
      <3>2. v[k - 1] \in V
        BY <2>6, <3>1
      <3> QED
        BY <1>2, <2>2, <3>2
    <2> QED
      BY <2>2, <2>6, <2>7, <2>8 DEF OperandSteps
  <1> QED
    BY <1>6, <1>7 DEF V

\* The loop over the operands: when it is not refused, the operands are those of the bytes it
\* went through.
LEMMA DecodeOperandsIs ==
  ASSUME NEW data \in Seq(Byte), HasHeader(data), NEW config \in Objects
  PROVE  /\ DecodeOperands(data, config) \in Decodings
         /\ DecodeOperands(data, config).code = "OK"
               => OperandsRead(data, DecodeOperands(data, config), DecodeHeader(data, config))
  <1> DEFINE header == DecodeHeader(data, config)
             n == header.operand_count
             start == [code |-> "OK", cursor |-> 16, config |-> header]
             d == DecodeOperands(data, config)
  <1>1. header \in Objects /\ start \in Decodings /\ n \in Byte
    BY SixteenAndMore DEF Decodings, DecodingCodes, Objects
  <1>2. CASE n > MaxOperands
    <2>1. d = Refuse(start, "Overflow")
      BY <1>2 DEF DecodeOperands
    <2> HIDE DEF start
    <2> QED
      BY <1>1, <2>1, RefuseIs DEF DecodingCodes
  <1>3. CASE ~(n > MaxOperands)
    <2>1. n \in Nat /\ MaxOperands \in Nat
      BY <1>1, ByteIs, ArraysAre
    <2> HIDE DEF n, start
    <2>2. n <= MaxOperands
      BY <1>3, <2>1
    <2>3. \E v : OperandLoop(v, data, start, n)
      BY <1>1, <2>1, <2>2, OperandLoopIs
    <2>4. PICK v : OperandLoop(v, data, start, n) /\ d = v[n]
      BY Zenon, <1>3, <2>3 DEF DecodeOperands, OperandLoop, n, start
    <2>5. v \in [0 .. n -> Decodings] /\ v[0] = start /\ OperandSteps(data, v, n)
      BY <1>1, <2>1, <2>2, <2>4, OperandLoopIs
    <2>6. d \in Decodings
      BY <2>1, <2>4, <2>5
    <2>7. d.code = "OK" => OperandsRead(data, v[n], header)
      <3>1. n = header.operand_count /\ v[0].cursor = 16 /\ v[0].config = header
        BY <2>5 DEF n, start
      <3> HIDE DEF header, d
      <3>2. d.code = "OK" => OperandsBegin(v, header, n)
        BY <2>2, <2>4, <3>1 DEF OperandsBegin
      <3> QED
        BY <1>1, <2>1, <2>5, <3>2, OperandRun
    <2> QED
      BY <2>4, <2>6, <2>7
  <1> QED
    BY <1>2, <1>3

SameObject(a, b) == SameHeader(a, b) /\ a.operands = b.operands /\ a.items_count = b.items_count

\* A request decoded to its items: they are in the object, and encoded where they were read.
ItemsRead(data, d, first) ==
    /\ first.config.items_count <= MaxSignal
    /\ first.cursor <= d.cursor /\ d.cursor <= Len(data)
    /\ SameObject(d.config, first.config)
    /\ \A j \in 1 .. first.config.items_count : d.config.items[j] \in ItemRecords
    /\ FlattenSeq([j \in 1 .. first.config.items_count |-> EncodeItem(d.config.items[j])]) = Between(data, first.cursor, d.cursor)

ItemSteps(data, f, n) == \A k \in 1 .. n : ItemStep(data, f[k - 1], f[k], k)

ItemsBegin(data, f, first, n) ==
    /\ n <= MaxSignal /\ n = first.config.items_count
    /\ f[0].cursor = first.cursor /\ f[0].config = first.config /\ first.cursor <= Len(data) /\ f[n].code = "OK"

\* The cursor and the items, one item after the other.
LEMMA ItemRun ==
  ASSUME NEW data \in Seq(Byte), NEW n \in Nat, NEW first \in Decodings,
         NEW f \in [0 .. n -> Decodings], ItemSteps(data, f, n), ItemsBegin(data, f, first, n)
  PROVE  ItemsRead(data, f[n], first)
  <1> DEFINE ok == [k \in 0 .. n |-> f[k].code = "OK"]
             cur == [k \in 0 .. n |-> f[k].cursor]
             cell == [k \in 0 .. n |-> f[k].config.items]
             enc == [o \in ItemRecords |-> EncodeItem(o)]
  <1>1. /\ \A k \in 0 .. n : ok[k] = (f[k].code = "OK") /\ cur[k] = f[k].cursor /\ cell[k] = f[k].config.items
        /\ cur \in [0 .. n -> Nat]
    BY DEF Decodings
  <1>2. \A o \in ItemRecords : enc[o] = EncodeItem(o)
    OBVIOUS
  <1> HIDE DEF ok, cur, cell, enc
  <1>3. ASSUME NEW k \in 1 .. n PROVE ElementStep(data, ok, cur, cell, ItemRecords, enc, k)
    <2>1. PICK i \in 0 .. n : i = k - 1 /\ k \in 0 .. n
      OBVIOUS
    <2>2. ItemStep(data, f[i], f[k], k)
      BY <2>1 DEF ItemSteps
    <2>3. /\ ok[k] = (f[k].code = "OK") /\ cur[k] = f[k].cursor /\ cell[k] = f[k].config.items
          /\ ok[i] = (f[i].code = "OK") /\ cur[i] = f[i].cursor /\ cell[i] = f[i].config.items
      BY <1>1, <2>1
    <2> QED
      BY <1>2, <2>1, <2>2, <2>3 DEF ItemStep, ElementStep
  <1>4. ElementRun(data, ok, cur, cell, ItemRecords, enc, n)
    BY <1>3 DEF ElementRun
  <1>5. n \in 0 .. n /\ 0 \in 0 .. n
    OBVIOUS
  <1>6. ok[n]
    BY <1>1, <1>5 DEF ItemsBegin
  <1>7. CellsRead(data, cur, cell[n], ItemRecords, enc, n)
    BY <1>1, <1>4, <1>6, ElementsRead
  <1>8. cur[0] = first.cursor /\ cur[n] = f[n].cursor /\ cell[n] = f[n].config.items
    BY <1>1, <1>5 DEF ItemsBegin
  <1> DEFINE row == cell[n]
  <1>9. /\ FlattenSeq([j \in 1 .. n |-> enc[row[j]]]) = Between(data, first.cursor, f[n].cursor)
        /\ first.cursor <= f[n].cursor /\ f[n].cursor <= Len(data)
    <2>1. cur[0] <= Len(data)
      BY <1>8 DEF ItemsBegin
    <2>2. CellsRead(data, cur, row, ItemRecords, enc, n)
      BY <1>7
    <2> HIDE DEF row
    <2>3. /\ CellBytes(enc, row, n) = Between(data, cur[0], cur[n])
          /\ cur[0] <= cur[n] /\ cur[n] <= Len(data)
      <3>1. cur \in [0 .. n -> Nat]
        BY <1>1
      <3> QED
        BY <3>1, <2>1, <2>2, CellsFlattened
    <2> QED
      BY <1>8, <2>3 DEF CellBytes
  <1>10. \A j \in 1 .. n : row[j] \in ItemRecords
    BY <1>7 DEF CellsRead, CellRead
  <1>11. [j \in 1 .. n |-> enc[row[j]]] = [j \in 1 .. n |-> EncodeItem(row[j])]
    BY <1>2, <1>10
  <1>12. SameObject(f[n].config, first.config)
    <2> DEFINE T == {k \in 0 .. n : f[k].code = "OK" => SameObject(f[k].config, first.config)}
    <2>1. 0 \in T
      BY DEF SameObject, SameHeader, ItemsBegin
    <2>2. ASSUME NEW k \in 1 .. n, k - 1 \in T PROVE k \in T
      <3>1. PICK i \in 0 .. n : i = k - 1 /\ k \in 0 .. n
        OBVIOUS
      <3>2. ItemStep(data, f[i], f[k], k)
        BY <3>1 DEF ItemSteps
      <3>3. f[i].code = "OK" => SameObject(f[i].config, first.config)
        BY <2>2, <3>1
      <3>4. f[k].code = "OK" => SameObject(f[k].config, first.config)
        BY <3>2, <3>3 DEF ItemStep, SameObject, SameHeader
      <3> QED
        BY <3>1, <3>4
    <2> HIDE DEF T
    <2>3. n \in T
      BY <1>5, <2>1, <2>2, UpTo
    <2> QED
      BY <2>3 DEF T
  <1> QED
    BY <1>8, <1>9, <1>10, <1>11, <1>12 DEF ItemsRead, ItemsBegin

ItemLoop(v, data, start, n) ==
    v = [i \in 0 .. n |-> IF i = 0 THEN start ELSE DecodeItem(data, v[i - 1], i)]

LEMMA ItemLoopIs ==
  ASSUME NEW data \in Seq(Byte), NEW n \in Nat, n <= MaxSignal, NEW start \in Decodings
  PROVE  /\ \E v : ItemLoop(v, data, start, n)
         /\ \A v : ItemLoop(v, data, start, n) =>
                      v \in [0 .. n -> Decodings] /\ v[0] = start /\ ItemSteps(data, v, n)
  <1> DEFINE V == Decodings
             step == [k \in 1 .. n |-> [v \in V |-> DecodeItem(data, v, k)]]
  <1>1. \A k \in 1 .. n, v \in V : step[k][v] = DecodeItem(data, v, k)
    OBVIOUS
  <1>2. ASSUME NEW k \in 1 .. n, NEW v \in V PROVE ItemStep(data, v, DecodeItem(data, v, k), k)
    <2>1. k \in 1 .. MaxSignal
      BY ArraysAre
    <2> QED
      BY <2>1, DecodeItemIs
  <1>3. \A k \in 1 .. n, v \in V : DecodeItem(data, v, k) \in V
    BY <1>2 DEF ItemStep
  <1>4. Stepping(step, n, V)
    BY <1>3 DEF Stepping
  <1>5. start \in V
    OBVIOUS
  <1> HIDE DEF step, V
  <1>6. \E v : ItemLoop(v, data, start, n)
    <2>1. PICK f : f \in [0 .. n -> V] /\ Follows(f, start, step, n, V)
      BY <1>4, <1>5, Recursion
    <2>2. ASSUME NEW k \in 1 .. n PROVE f[k] = DecodeItem(data, f[k - 1], k) /\ f[k - 1] \in V
      <3>1. k - 1 \in 0 .. n
        OBVIOUS
      <3>2. f[k - 1] \in V
        BY <2>1, <3>1
      <3> QED
        BY <1>1, <2>1, <3>2 DEF Follows
    <2>3. f[0] = start
      BY <2>1 DEF Follows
    <2>4. \A k \in 0 .. n : k = 0 \/ k \in 1 .. n
      OBVIOUS
    <2>5. \A k \in 0 .. n : f[k] = IF k = 0 THEN start ELSE DecodeItem(data, f[k - 1], k)
      BY <2>2, <2>3, <2>4
    <2>6. f = [k \in 0 .. n |-> f[k]]
      BY <2>1
    <2>7. ItemLoop(f, data, start, n)
      BY Zenon, <2>5, <2>6 DEF ItemLoop
    <2> QED
      BY <2>7
  <1>7. ASSUME NEW v, ItemLoop(v, data, start, n)
        PROVE  v \in [0 .. n -> V] /\ v[0] = start /\ ItemSteps(data, v, n)
    <2>1. 0 \in 0 .. n /\ \A k \in 1 .. n : k \in 0 .. n /\ k # 0
      OBVIOUS
    <2>2. v[0] = start /\ \A k \in 1 .. n : v[k] = DecodeItem(data, v[k - 1], k)
      BY Zenon, <1>7, <2>1 DEF ItemLoop
    <2> DEFINE T == {k \in 0 .. n : v[k] \in V}
    <2>3. 0 \in T
      BY <1>5, <2>2
    <2>4. ASSUME NEW k \in 1 .. n, k - 1 \in T PROVE k \in T
      BY <1>3, <2>2, <2>4
    <2> HIDE DEF T
    <2>5. \A k \in 0 .. n : k \in T
      BY <2>3, <2>4, UpTo
    <2>6. \A k \in 0 .. n : v[k] \in V
      BY <2>5 DEF T
    <2>7. v = [k \in 0 .. n |-> v[k]]
      BY Zenon, <1>7, <2>1 DEF ItemLoop
    <2>8. ASSUME NEW k \in 1 .. n PROVE ItemStep(data, v[k - 1], v[k], k)
      <3>1. k - 1 \in 0 .. n
        OBVIOUS
      <3>2. v[k - 1] \in V
        BY <2>6, <3>1
      <3> QED
        BY <1>2, <2>2, <3>2
    <2> QED
      BY <2>2, <2>6, <2>7, <2>8 DEF ItemSteps
  <1> QED
    BY <1>6, <1>7 DEF V

\* The loop over the items: when it is not refused, the items are those of the bytes it went
\* through.
LEMMA DecodeItemsIs ==
  ASSUME NEW data \in Seq(Byte), NEW d \in Decodings
  PROVE  /\ DecodeItems(data, d) \in Decodings
         /\ DecodeItems(data, d).code = "OK" =>
               /\ d.code = "OK" /\ d.cursor + 1 <= Len(data)
               /\ \E first \in Decodings :
                     /\ first.cursor = d.cursor + 1 /\ first.config.items_count = data[d.cursor + 1]
                     /\ SameHeader(first.config, d.config) /\ first.config.operands = d.config.operands
                     /\ ItemsRead(data, DecodeItems(data, d), first)
  <1> DEFINE e == DecodeItems(data, d)
             n == data[d.cursor + 1]
             start == [d EXCEPT !.cursor = @ + 1, !.config.items_count = n]
  <1>1. CASE d.code # "OK"
    <2>1. e = d
      BY <1>1 DEF DecodeItems
    <2> QED
      BY <1>1, <2>1
  <1>2. CASE d.code = "OK" /\ ~Complete(data, d, 0)
    <2>1. e = Refuse(d, "InvalidRequest")
      BY <1>2 DEF DecodeItems
    <2>2. e \in Decodings /\ e.code # "OK"
      BY <2>1, RefuseIs DEF DecodingCodes
    <2> QED
      BY <2>2
  <1>3. CASE d.code = "OK" /\ Complete(data, d, 0)
    <2>1. n \in Byte
      BY <1>3, CompleteFields
    <2>2. d.cursor \in Nat /\ d.cursor + 1 <= Len(data)
      BY <1>3 DEF Complete, Decodings
    <2>3. /\ start \in Decodings /\ start.cursor = d.cursor + 1 /\ start.config.items_count = n
          /\ SameHeader(start.config, d.config) /\ start.config.operands = d.config.operands
      <3> DEFINE c == [d.config EXCEPT !.items_count = n]
      <3>1. c \in Objects /\ c.items_count = n /\ SameHeader(c, d.config) /\ c.operands = d.config.operands
        BY <2>1 DEF Decodings, Objects, SameHeader
      <3>2. start = [d EXCEPT !.cursor = d.cursor + 1, !.config = c]
        BY DEF Decodings
      <3> HIDE DEF c, start
      <3>4. PICK p \in Nat : p = d.cursor + 1
        BY <2>2
      <3>5. start = [d EXCEPT !.cursor = p, !.config = c] /\ c \in Objects
        BY <3>1, <3>2, <3>4
      <3>6. start \in Decodings /\ start.cursor = p /\ start.config = c
        BY <3>5 DEF Decodings
      <3>3. start \in Decodings /\ start.cursor = d.cursor + 1 /\ start.config = c
        BY <3>4, <3>6
      <3> QED
        BY <3>1, <3>3
    <2>4. CASE n > MaxSignal
      <3>1. e = Refuse(start, "Overflow")
        BY <1>3, <2>4 DEF DecodeItems
      <3> HIDE DEF start
      <3>2. e \in Decodings /\ e.code # "OK"
        BY <2>3, <3>1, RefuseIs DEF DecodingCodes
      <3> QED
        BY <3>2
    <2>5. CASE ~(n > MaxSignal)
      <3>1. n \in Nat /\ MaxSignal \in Nat
        BY <2>1, ByteIs, ArraysAre
      <3> HIDE DEF n, start
      <3>2. n <= MaxSignal
        BY <2>5, <3>1
      <3>3. \E v : ItemLoop(v, data, start, n)
        BY <2>3, <3>1, <3>2, ItemLoopIs
      <3>4. PICK v : ItemLoop(v, data, start, n) /\ e = v[n]
        BY Zenon, <1>3, <2>5, <3>3 DEF DecodeItems, ItemLoop, n, start
      <3>5. v \in [0 .. n -> Decodings] /\ v[0] = start /\ ItemSteps(data, v, n)
        BY <2>3, <3>1, <3>2, <3>4, ItemLoopIs
      <3>6. e \in Decodings
        BY <3>1, <3>4, <3>5
      <3>7. e.code = "OK" => ItemsRead(data, e, start)
        <4> HIDE DEF e
        <4>1. e.code = "OK" => ItemsBegin(data, v, start, n)
          BY <2>2, <2>3, <3>2, <3>4, <3>5 DEF ItemsBegin
        <4>2. e.code = "OK" => ItemsRead(data, v[n], start)
          BY <2>3, <3>1, <3>5, <4>1, ItemRun
        <4> QED
          BY <3>4, <4>2
      <3> HIDE DEF e
      <3>8. start.config.items_count = data[d.cursor + 1]
        BY <2>3 DEF n
      <3> QED
        BY Zenon, <1>3, <2>2, <2>3, <3>6, <3>7, <3>8 DEF e
    <2> QED
      BY <2>4, <2>5
  <1> QED
    BY <1>1, <1>2, <1>3

-----------------------------------------------------------------------------
(* A request decoded *)

\* What the object holds is what the request says, element by element, to its end.
RequestRead(data, read, config) ==
    /\ HasHeader(data) /\ SameHeader(read, DecodeHeader(data, config))
    /\ read.operand_count <= MaxOperands /\ read.items_count <= MaxSignal
    /\ \A j \in 1 .. read.operand_count : read.operands[j] \in OperandRecords
    /\ \A j \in 1 .. read.items_count : read.items[j] \in ItemRecords
    /\ \E c \in Nat :
          /\ 16 <= c /\ c + 1 <= Len(data) /\ data[c + 1] = read.items_count
          /\ FlattenSeq([j \in 1 .. read.operand_count |-> EncodeOperand(read.operands[j])])
                = Between(data, 16, c)
          /\ FlattenSeq([j \in 1 .. read.items_count |-> EncodeItem(read.items[j])])
                = Between(data, c + 1, Len(data))

\* decode_datalogging_configure_request(): a request that is not refused was read to its last
\* byte, and its counts are within the arrays.
LEMMA DecodeConfigureIs ==
  ASSUME NEW data \in Seq(Byte), NEW config \in Objects
  PROVE  /\ DecodeConfigure(data, config) \in Decodings
         /\ DecodeConfigure(data, config).code = "OK" => RequestRead(data, DecodeConfigure(data, config).config, config)
  <1> DEFINE e == DecodeConfigure(data, config)
             d == DecodeOperands(data, config)
             f == DecodeItems(data, d)
             header == DecodeHeader(data, config)
  <1>1. CASE Len(data) < 16
    <2>1. e = [code |-> "InvalidRequest", cursor |-> 0, config |-> config]
      BY <1>1 DEF DecodeConfigure
    <2> QED
      BY <2>1 DEF Decodings, DecodingCodes
  <1>2. CASE ~(Len(data) < 16)
    <2>1. HasHeader(data)
      BY <1>2 DEF HasHeader
    <2>2. d \in Decodings /\ (d.code = "OK" => OperandsRead(data, d, header))
      BY <2>1, DecodeOperandsIs
    <2>3. /\ f \in Decodings
          /\ f.code = "OK" =>
               /\ d.code = "OK" /\ d.cursor + 1 <= Len(data)
               /\ \E first \in Decodings :
                     /\ first.cursor = d.cursor + 1 /\ first.config.items_count = data[d.cursor + 1]
                     /\ SameHeader(first.config, d.config) /\ first.config.operands = d.config.operands
                     /\ ItemsRead(data, f, first)
      <3> HIDE DEF d
      <3> QED
        BY <2>2, DecodeItemsIs
    <2>4. e = WholeRequest(data, f)
      BY <1>2 DEF DecodeConfigure
    <2> HIDE DEF d, f, e, header
    <2>5. e \in Decodings /\ (e.code = "OK" => e = f /\ f.cursor = Len(data))
      BY <2>3, <2>4, RefuseIs DEF WholeRequest, DecodingCodes
    <2>6. ASSUME e.code = "OK" PROVE RequestRead(data, e.config, config)
      <3>1. PICK first \in Decodings :
                /\ d.code = "OK" /\ d.cursor + 1 <= Len(data)
                /\ first.cursor = d.cursor + 1 /\ first.config.items_count = data[d.cursor + 1]
                /\ SameHeader(first.config, d.config) /\ first.config.operands = d.config.operands
                /\ ItemsRead(data, e, first)
        BY <2>3, <2>5, <2>6
      <3>2. OperandsRead(data, d, header)
        BY <2>2, <3>1
      <3>3. SameHeader(e.config, header) /\ e.config.operands = d.config.operands
            /\ e.config.operand_count = header.operand_count
        BY <3>1, <3>2 DEF ItemsRead, OperandsRead, SameObject, SameHeader
      <3>4. /\ e.config.operand_count <= MaxOperands
            /\ \A j \in 1 .. e.config.operand_count : e.config.operands[j] \in OperandRecords
            /\ FlattenSeq([j \in 1 .. e.config.operand_count |-> EncodeOperand(e.config.operands[j])])
                  = Between(data, 16, d.cursor)
            /\ 16 <= d.cursor
        BY <3>2, <3>3 DEF OperandsRead
      <3>5. e.config.items_count = first.config.items_count
        BY <3>1 DEF ItemsRead, SameObject
      <3>6. /\ e.config.items_count <= MaxSignal
            /\ \A j \in 1 .. e.config.items_count : e.config.items[j] \in ItemRecords
            /\ FlattenSeq([j \in 1 .. e.config.items_count |-> EncodeItem(e.config.items[j])])
                  = Between(data, d.cursor + 1, Len(data))
        BY <2>5, <2>6, <3>1, <3>5 DEF ItemsRead
      <3>7. d.cursor \in Nat /\ data[d.cursor + 1] = e.config.items_count
        BY <2>2, <3>1, <3>5 DEF Decodings
      <3> QED
        BY Zenon, <2>1, <3>1, <3>3, <3>4, <3>6, <3>7 DEF RequestRead, header
    <2> QED
      BY <2>5, <2>6 DEF e
  <1> QED
    BY <1>1, <1>2

-----------------------------------------------------------------------------
(* Requests are bytes *)

\* A request for a configuration is a sequence of bytes.
LEMMA EncodeConfigureIs ==
  ASSUME NEW r \in Configurations
  PROVE  EncodeConfigure(r.loop_id, r.config_id, r.config) \in Seq(Byte)
  <1> DEFINE c == r.config
             o == [i \in 1 .. c.operand_count |-> EncodeOperand(c.operands[i])]
             t == [i \in 1 .. c.items_count |-> EncodeItem(c.items[i])]
             B == Seq(Byte)
  <1>1. /\ r.loop_id \in Byte /\ r.config_id \in Nat
        /\ c \in [decimation : Nat, probe_location : Byte, timeout : Nat, condition : Byte,
                  hold_time : Nat, operand_count : Byte, operands : Seq(OperandRecords),
                  items_count : Byte, items : Seq(ItemRecords)]
        /\ c.operand_count = Len(c.operands) /\ c.items_count = Len(c.items)
    BY InputsAssumption
  <1> HIDE DEF c
  <1>2. /\ c.decimation \in Nat /\ c.probe_location \in Byte /\ c.timeout \in Nat /\ c.condition \in Byte
        /\ c.hold_time \in Nat /\ c.operand_count \in Byte /\ c.operands \in Seq(OperandRecords)
        /\ c.items_count \in Byte /\ c.items \in Seq(ItemRecords)
    BY <1>1
  <1>3. FlattenSeq(o) \in B
    <2>1. o \in Seq(Seq(Byte))
      <3>1. c.operand_count \in Nat
        BY <1>2, ByteIs
      <3>2. \A i \in 1 .. c.operand_count : EncodeOperand(c.operands[i]) \in Seq(Byte)
        BY <1>1, <1>2, EncodeOperandIs
      <3> QED
        BY <3>1, <3>2
    <2> HIDE DEF o
    <2> QED
      BY <2>1, FlattenTyped
  <1>4. FlattenSeq(t) \in B
    <2>1. t \in Seq(Seq(Byte))
      <3>1. c.items_count \in Nat
        BY <1>2, ByteIs
      <3>2. \A i \in 1 .. c.items_count : EncodeItem(c.items[i]) \in Seq(Byte)
        BY <1>1, <1>2, EncodeItemIs
      <3> QED
        BY <3>1, <3>2
    <2> HIDE DEF t
    <2> QED
      BY <2>1, FlattenTyped
  <1>5. \A x, y \in B : x \o y \in B
    BY ConcatBytes
  <1>6. \A x \in Byte : <<x>> \in B
    BY OneByte
  <1>7. \A v, n \in Nat : Encode(v, n) \in B
    BY EncodeIs
  <1>8. 2 \in Nat /\ 4 \in Nat
    OBVIOUS
  <1> HIDE DEF o, t, B
  <1>9. /\ <<r.loop_id>> \in B /\ Encode(r.config_id, 2) \in B /\ Encode(c.decimation, 2) \in B
        /\ <<c.probe_location>> \in B /\ Encode(c.timeout, 4) \in B /\ <<c.condition>> \in B
        /\ Encode(c.hold_time, 4) \in B /\ <<c.operand_count>> \in B /\ <<c.items_count>> \in B
    BY <1>1, <1>2, <1>6, <1>7, <1>8
  <1>10. <<r.loop_id>> \o Encode(r.config_id, 2) \o Encode(c.decimation, 2) \o <<c.probe_location>>
         \o Encode(c.timeout, 4) \o <<c.condition>> \o Encode(c.hold_time, 4) \o <<c.operand_count>>
         \o FlattenSeq(o) \o <<c.items_count>> \o FlattenSeq(t) \in B
    BY <1>3, <1>4, <1>5, <1>9
  <1> QED
    BY Zenon, <1>10 DEF EncodeConfigure, B, c, o, t

\* A mangled request is a sequence of bytes.
LEMMA MangledIs ==
  ASSUME NEW data \in Seq(Byte), NEW d \in Mangled(data)
  PROVE  d \in Seq(Byte)
  <1>1. data \o <<0>> \in Seq(Byte)
    BY ConcatBytes, OneByte, SmallBytes
  <1>2. SubSeq(data, 1, Len(data) - 1) \in Seq(Byte)
    <2>1. Len(data) - 1 \in Int /\ \A i \in 1 .. Len(data) - 1 : data[i] \in Byte
      OBVIOUS
    <2> QED
      BY <2>1, SubSeqProperties
  <1> QED
    BY <1>1, <1>2 DEF Mangled

-----------------------------------------------------------------------------
(* Configuring *)

Checked(d, c) == ElementsCode(d, c) = "OK" /\ ConfigValid(d, c)

\* A configuration that is accepted passed the checks of the datalogger, is in its object, and
\* came from a request read to its end.
LEMMA ConfigureIs ==
  ASSUME NEW d \in Devices, NEW data \in Seq(Byte), NEW l, l.config \in Objects
  PROVE  /\ Configure(d, data, l).config \in Objects
         /\ Configure(d, data, l).code = "OK" =>
               /\ Configure(d, data, l).state = "Configured"
               /\ RequestRead(data, Configure(d, data, l).config, l.config)
               /\ Checked(d, Configure(d, data, l).config)
  <1> DEFINE e == DecodeConfigure(data, l.config)
             out == Configure(d, data, l)
  <1>1. e \in Decodings /\ (e.code = "OK" => RequestRead(data, e.config, l.config))
    BY DecodeConfigureIs
  <1> DEFINE checks == ElementsCode(d, e.config)
  <1>2. out.config = e.config /\ (out.code = "OK" => e.code = "OK" /\ out.state = "Configured" /\ Checked(d, e.config))
    <2>1. CASE e.code # "OK"
      <3>1. out = Outcome(e.code, e.config, l.state)
        BY <2>1 DEF Configure
      <3> QED
        BY <2>1, <3>1 DEF Outcome
    <2>2. CASE e.code = "OK"
      <3>1. LoopIdOf(data) \in Int /\ Len(d.loops) \in Int
        BY <1>1, <2>2, DevicesAssumption, ByteIs DEF RequestRead, HasHeader, LoopIdOf, WellTyped
      <3>2. CASE LoopIdOf(data) >= Len(d.loops)
        <4>1. out = Outcome("FailureToProceed", e.config, l.state)
          BY <2>2, <3>1, <3>2 DEF Configure
        <4> QED
          BY <4>1 DEF Outcome
      <3>3. CASE LoopIdOf(data) < Len(d.loops)
        <4>1. out = IF ~d.loops[LoopIdOf(data) + 1].datalogging THEN Outcome("Forbidden", e.config, l.state)
                    ELSE IF checks # "OK" THEN Outcome(checks, e.config, l.state)
                    ELSE IF ConfigValid(d, e.config) THEN Outcome("OK", e.config, "Configured")
                    ELSE Outcome("InvalidRequest", e.config, "Error")
          BY <2>2, <3>1, <3>3 DEF Configure
        <4> QED
          BY <2>2, <4>1 DEF Outcome, Checked
      <3> QED
        BY <3>1, <3>2, <3>3
    <2> QED
      BY <2>1, <2>2
  <1>3. e.config \in Objects
    BY <1>1 DEF Decodings
  <1> HIDE DEF e, out, checks
  <1> QED
    BY <1>1, <1>2, <1>3 DEF out

-----------------------------------------------------------------------------
(* A request written again from the object it was read into *)

\* Two bytes, read.
LEMMA DecodeTwo ==
  ASSUME NEW b \in Seq(Byte), Len(b) = 2
  PROVE  Decode(b) = 256 * b[1] + b[2]
  <1>1. PICK n \in Nat : n = Len(b) /\ n = 2
    OBVIOUS
  <1>2. PICK f \in [0 .. n -> Nat] : Reads(f, b, n)
    <2>1. b \in [1 .. n -> Byte]
      BY <1>1
    <2> QED
      BY <2>1, SomeReads
  <1>3. f[0] = 0 /\ f[1] = 256 * f[0] + b[1] /\ f[2] = 256 * f[1] + b[2]
    <2>1. /\ f[0] = 0 /\ f[1] = 256 * f[1 - 1] + b[1]
          /\ f[2] = 256 * f[2 - 1] + b[2]
      <3>1. 1 \in 1 .. n /\ 2 \in 1 .. n
        BY <1>1
      <3> QED
        BY <1>2, <3>1 DEF Reads
    <2> QED
      BY <2>1
  <1>4. b[1] \in Nat /\ b[2] \in Nat
    <2>1. b[1] \in Byte /\ b[2] \in Byte
      <3>1. 1 \in 1 .. n /\ 2 \in 1 .. n /\ \A i \in 1 .. n : b[i] \in Byte
        BY <1>1
      <3> QED
        BY <3>1
    <2> QED
      BY <2>1, ByteIs
  <1>5. Decode(b) = f[2]
    BY <1>1, <1>2, DecodeIs
  <1> QED
    BY <1>3, <1>4, <1>5

\* What b - a bytes encode is encoded by them.
LEMMA Piece ==
  ASSUME NEW s \in Seq(Byte), NEW a \in Nat, NEW b \in Nat, NEW n \in Nat, b = a + n, b <= Len(s)
  PROVE  Encode(Decode(Between(s, a, b)), n) = Between(s, a, b)
  <1>1. a <= b /\ b - a = n
    OBVIOUS
  <1>2. Between(s, a, b) \in Seq(Byte) /\ Len(Between(s, a, b)) = n
    BY <1>1, BetweenIs
  <1> QED
    BY <1>2, Reencoded

\* The sixteen bytes before the operands are those of the object.
LEMMA HeaderRebuilt ==
  ASSUME NEW data \in Seq(Byte), HasHeader(data), NEW config \in Objects,
         NEW read, SameHeader(read, DecodeHeader(data, config))
  PROVE  <<data[1]>> \o Encode(Read16(data, 2), 2) \o Encode(read.decimation, 2) \o <<read.probe_location>>
         \o Encode(read.timeout, 4) \o <<read.condition>> \o Encode(read.hold_time, 4) \o <<read.operand_count>>
         = Between(data, 0, 16)
  <1>1. /\ 16 <= Len(data) /\ 15 <= Len(data) /\ 11 <= Len(data) /\ 10 <= Len(data)
        /\ 6 <= Len(data) /\ 5 <= Len(data) /\ 3 <= Len(data) /\ 1 <= Len(data)
    BY DEF HasHeader
  <1>2. Read16(data, 2) = Decode(Between(data, 1, 3))
    <2>1. /\ Between(data, 1, 3) \in Seq(Byte) /\ Len(Between(data, 1, 3)) = 2
          /\ Between(data, 1, 3)[1] = data[2] /\ Between(data, 1, 3)[2] = data[3]
      <3>1. 1 \in Nat /\ 3 \in Nat /\ 1 <= 3 /\ 3 - 1 = 2 /\ 1 + 1 = 2 /\ 1 + 2 = 3 /\ 1 \in 1 .. 2 /\ 2 \in 1 .. 2
        OBVIOUS
      <3>2. /\ Between(data, 1, 3) \in Seq(Byte) /\ Len(Between(data, 1, 3)) = 3 - 1
            /\ \A i \in 1 .. 3 - 1 : Between(data, 1, 3)[i] = data[1 + i]
        BY Zenon, <1>1, <3>1, BetweenIs
      <3> QED
        BY <3>1, <3>2
    <2>2. Decode(Between(data, 1, 3)) = 256 * data[2] + data[3]
      BY <2>1, DecodeTwo
    <2> QED
      BY <2>2, 2 + 1 = 3 DEF Read16
  <1>3. /\ read.decimation = Decode(Between(data, 3, 5)) /\ read.probe_location = data[6]
        /\ read.timeout = Decode(Between(data, 6, 10)) /\ read.condition = data[11]
        /\ read.hold_time = Decode(Between(data, 11, 15)) /\ read.operand_count = data[16]
    <2>1. 3 + 1 = 4 /\ 6 + 1 = 7 /\ 11 + 1 = 12
      OBVIOUS
    <2> QED
      BY <2>1 DEF SameHeader, DecodeHeader, Between, Objects
  <1>4. /\ <<data[1]>> = Between(data, 0, 1) /\ <<read.probe_location>> = Between(data, 5, 6)
        /\ <<read.condition>> = Between(data, 10, 11) /\ <<read.operand_count>> = Between(data, 15, 16)
    <2>1. 1 = 0 + 1 /\ 6 = 5 + 1 /\ 11 = 10 + 1 /\ 16 = 15 + 1
      OBVIOUS
    <2> QED
      BY <1>1, <1>3, <2>1, OneBetween
  <1>5. /\ Encode(Read16(data, 2), 2) = Between(data, 1, 3) /\ Encode(read.decimation, 2) = Between(data, 3, 5)
        /\ Encode(read.timeout, 4) = Between(data, 6, 10) /\ Encode(read.hold_time, 4) = Between(data, 11, 15)
    <2>1. 3 = 1 + 2 /\ 5 = 3 + 2 /\ 10 = 6 + 4 /\ 15 = 11 + 4
      OBVIOUS
    <2> QED
      BY <1>1, <1>2, <1>3, <2>1, Piece
  <1>6. ASSUME NEW b \in Nat, NEW c \in Nat, b <= c, c <= Len(data)
        PROVE  Between(data, 0, b) \o Between(data, b, c) = Between(data, 0, c)
    BY <1>6, JoinBetween
  <1> DEFINE J(b, c) == Between(data, 0, b) \o Between(data, b, c) = Between(data, 0, c)
  <1>7. J(1, 3) /\ J(3, 5) /\ J(5, 6) /\ J(6, 10) /\ J(10, 11) /\ J(11, 15) /\ J(15, 16)
    <2>1. /\ 1 \in Nat /\ 3 \in Nat /\ 5 \in Nat /\ 6 \in Nat /\ 10 \in Nat /\ 11 \in Nat /\ 15 \in Nat /\ 16 \in Nat
          /\ 1 <= 3 /\ 3 <= 5 /\ 5 <= 6 /\ 6 <= 10 /\ 10 <= 11 /\ 11 <= 15 /\ 15 <= 16
      OBVIOUS
    <2> QED
      BY Zenon, <1>1, <1>6, <2>1
  <1> QED
    BY Zenon, <1>4, <1>5, <1>7

\* A request read to its last byte is the encoding of what was read.
LEMMA RequestRebuilt ==
  ASSUME NEW data \in Seq(Byte), NEW config \in Objects, NEW read, RequestRead(data, read, config)
  PROVE  EncodeConfigure(data[1], Read16(data, 2), read) = data
  <1> DEFINE operands == FlattenSeq([i \in 1 .. read.operand_count |-> EncodeOperand(read.operands[i])])
             items == FlattenSeq([i \in 1 .. read.items_count |-> EncodeItem(read.items[i])])
  <1>1. PICK c \in Nat :
             /\ 16 <= c /\ c + 1 <= Len(data) /\ data[c + 1] = read.items_count
             /\ operands = Between(data, 16, c) /\ items = Between(data, c + 1, Len(data))
    BY DEF RequestRead
  <1>2. <<data[1]>> \o Encode(Read16(data, 2), 2) \o Encode(read.decimation, 2) \o <<read.probe_location>>
         \o Encode(read.timeout, 4) \o <<read.condition>> \o Encode(read.hold_time, 4) \o <<read.operand_count>>
         = Between(data, 0, 16)
    <2>1. HasHeader(data) /\ SameHeader(read, DecodeHeader(data, config))
      BY Zenon DEF RequestRead
    <2> QED
      BY Zenon, <2>1, HeaderRebuilt
  <1>3. PICK e \in Nat, n \in Nat : e = c + 1 /\ n = Len(data) /\ c <= n /\ e <= n /\ c <= e
    <2>1. c + 1 <= Len(data)
      BY Zenon, <1>1
    <2> QED
      BY <2>1
  <1>4. <<read.items_count>> = Between(data, c, e) /\ items = Between(data, e, n)
    BY <1>1, <1>3, OneBetween
  <1>5. /\ Between(data, 0, 16) \o Between(data, 16, c) = Between(data, 0, c)
        /\ Between(data, 0, c) \o Between(data, c, e) = Between(data, 0, e)
        /\ Between(data, 0, e) \o Between(data, e, n) = Between(data, 0, n)
    <2>1. 0 \in Nat /\ 16 \in Nat /\ 0 <= 16 /\ 0 <= c /\ 0 <= e
      BY <1>3
    <2>2. 16 <= c /\ c <= n /\ c <= e /\ e <= n /\ n <= Len(data) /\ c <= Len(data) /\ e <= Len(data) /\ n \in Nat
      BY <1>1, <1>3
    <2>3. /\ Between(data, 0, 16) \o Between(data, 16, c) = Between(data, 0, c)
          /\ Between(data, 0, c) \o Between(data, c, e) = Between(data, 0, e)
      BY ZenonT(60), <2>1, <2>2, JoinBetween
    <2>4. Between(data, 0, e) \o Between(data, e, n) = Between(data, 0, n)
      BY Zenon, <2>1, <2>2, JoinBetween
    <2> QED
      BY <2>3, <2>4
  <1>6. Between(data, 0, n) = data
    BY <1>3, WholeBetween
  <1> HIDE DEF operands, items
  <1> QED
    BY Zenon, <1>1, <1>2, <1>4, <1>5, <1>6 DEF EncodeConfigure, operands, items

-----------------------------------------------------------------------------
(* What a loop is given *)

\* The elements in use were all read, and the configuration passed the checks.
Ready(c) ==
    /\ \A j \in 1 .. c.operand_count : c.operands[j] \in OperandRecords
    /\ \A j \in 1 .. c.items_count : c.items[j] \in ItemRecords

ConfigureInv ==
    /\ device \in Devices
    /\ logger.config \in Objects
    /\ handed => Ready(logger.config) /\ Checked(device, logger.config)
    /\ AcceptedAsSent

LEMMA ClearedConfigIs == ClearedConfig \in Objects
  <1>1. 0 \in Byte /\ 0 \in Nat
    BY SmallBytes
  <1>2. [i \in 1 .. MaxOperands |-> Unset] \in [1 .. MaxOperands -> OperandCells]
    BY DEF OperandCells
  <1>3. [i \in 1 .. MaxSignal |-> Unset] \in [1 .. MaxSignal -> ItemCells]
    BY DEF ItemCells
  <1> QED
    BY <1>1, <1>2, <1>3 DEF ClearedConfig, Objects

\* Nothing was accepted before the first request.
LEMMA ConfigureInit == Init => ConfigureInv
  BY ClearedConfigIs DEF Init, ConfigureInv, AcceptedAsSent, Accepted, NoExchange, Refused, Answer

\* No other request touches the object or is an accepted configuration.
LEMMA OtherRequests ==
  ASSUME Next, ~AskConfigure
  PROVE  UNCHANGED <<device, logger, handed>> /\ exchange'.kind # "Configure"
  <1>1. CASE AskDiscover
    BY <1>1 DEF AskDiscover, Exchanged, Unchanged
  <1>2. CASE AskConnect
    BY <1>2 DEF AskConnect, Exchanged
  <1>3. CASE AskDisconnect
    BY <1>3 DEF AskDisconnect, Exchanged
  <1>4. CASE AskHeartbeat
    BY <1>4 DEF AskHeartbeat, Exchanged
  <1>5. CASE AskAbout
    BY <1>5 DEF AskAbout, Asks, Exchanged, Unchanged
  <1>6. CASE AskStatus
    BY <1>6 DEF AskStatus, Asks, Exchanged, Unchanged
  <1>7. CASE AskMetadata
    BY <1>7 DEF AskMetadata, Asks, Exchanged, Unchanged
  <1>8. CASE AskRegion
    BY <1>8 DEF AskRegion, Exchanged, Unchanged
  <1>9. CASE AskLoop
    BY <1>9 DEF AskLoop, Exchanged, Unchanged
  <1>10. CASE AskRpvs
    BY <1>10 DEF AskRpvs, Exchanged
  <1> QED
    BY <1>1, <1>2, <1>3, <1>4, <1>5, <1>6, <1>7, <1>8, <1>9, <1>10 DEF Next

\* Each request leaves the object as it describes it, or is refused.
LEMMA ConfigureStep == ConfigureInv /\ [Next]_vars => ConfigureInv'
  <1> SUFFICES ASSUME ConfigureInv, [Next]_vars PROVE ConfigureInv'
    OBVIOUS
  <1>1. CASE AskConfigure
    <2>1. PICK r \in Configurations :
              \E data \in Mangled(EncodeConfigure(r.loop_id, r.config_id, r.config)) :
                  IF ~DataloggingConfigured(device)
                  THEN Exchanged("Configure", data, Refused("UnsupportedFeature")) /\ UNCHANGED <<logger, handed>>
                  ELSE LET outcome == Configure(device, data, logger)
                       IN /\ Exchanged("Configure", data, Refused(outcome.code))
                          /\ logger' = [config |-> outcome.config, state |-> outcome.state]
                          /\ handed' = (outcome.code = "OK")
      BY <1>1 DEF AskConfigure
    <2>2. PICK data \in Mangled(EncodeConfigure(r.loop_id, r.config_id, r.config)) :
                  IF ~DataloggingConfigured(device)
                  THEN Exchanged("Configure", data, Refused("UnsupportedFeature")) /\ UNCHANGED <<logger, handed>>
                  ELSE LET outcome == Configure(device, data, logger)
                       IN /\ Exchanged("Configure", data, Refused(outcome.code))
                          /\ logger' = [config |-> outcome.config, state |-> outcome.state]
                          /\ handed' = (outcome.code = "OK")
      BY <2>1
    <2>3. data \in Seq(Byte)
      <3>1. EncodeConfigure(r.loop_id, r.config_id, r.config) \in Seq(Byte)
        BY EncodeConfigureIs
      <3> QED
        BY Zenon, <2>2, <3>1, MangledIs
    <2>4. UNCHANGED device /\ device \in Devices /\ logger.config \in Objects
      BY <1>1 DEF AskConfigure, ConfigureInv
    <2>5. CASE ~DataloggingConfigured(device)
      <3>1. UNCHANGED <<logger, handed>> /\ exchange'.answer.code # "OK"
        BY <2>2, <2>5 DEF Exchanged, Refused, Answer
      <3> QED
        BY <2>4, <3>1 DEF ConfigureInv, AcceptedAsSent, Accepted
    <2>6. CASE DataloggingConfigured(device)
      <3> DEFINE outcome == Configure(device, data, logger)
                 read == outcome.config
      <3>1. /\ exchange' = [kind |-> "Configure", data |-> data, answer |-> Refused(outcome.code)]
            /\ logger' = [config |-> outcome.config, state |-> outcome.state]
            /\ handed' = (outcome.code = "OK")
        BY <2>2, <2>6 DEF Exchanged
      <3>2. /\ read \in Objects
            /\ outcome.code = "OK" => /\ outcome.state = "Configured"
                                      /\ RequestRead(data, read, logger.config)
                                      /\ Checked(device, read)
        BY <2>3, <2>4, ConfigureIs
      <3>3. outcome.code = "OK" => EncodeConfigure(data[1], Read16(data, 2), read) = data
        BY <2>3, <2>4, <3>2, RequestRebuilt
      <3>4. outcome.code = "OK" => Ready(read)
        BY <3>2 DEF RequestRead, Ready
      <3>5. outcome.code = "OK" =>
                read.operand_count \in 0 .. MaxOperands /\ read.items_count \in 1 .. MaxSignal
        <4>1. read.operand_count \in Byte
          BY <3>2 DEF Objects
        <4>2. ASSUME outcome.code = "OK"
              PROVE  read.operand_count <= MaxOperands /\ read.items_count \in 1 .. MaxSignal
          BY <3>2, <4>2 DEF Checked, ConfigValid
        <4> QED
          BY <4>1, <4>2, ByteIs, ArraysAre
      <3>6. logger'.config = read /\ logger'.state = outcome.state /\ exchange'.data = data
            /\ exchange'.answer.code = outcome.code
        BY <3>1 DEF Refused, Answer
      <3> HIDE DEF outcome, read
      <3>7. AcceptedAsSent'
        BY <3>2, <3>3, <3>5, <3>6 DEF AcceptedAsSent, Accepted
      <3> QED
        BY <2>4, <3>1, <3>2, <3>4, <3>6, <3>7 DEF ConfigureInv
    <2> QED
      BY <2>5, <2>6
  <1>2. CASE Next /\ ~AskConfigure
    <2>1. UNCHANGED <<device, logger, handed>> /\ exchange'.kind # "Configure"
      BY <1>2, OtherRequests
    <2> QED
      BY <2>1 DEF ConfigureInv, AcceptedAsSent, Accepted
  <1>3. CASE UNCHANGED vars
    BY <1>3 DEF vars, ConfigureInv, AcceptedAsSent, Accepted
  <1> QED
    BY <1>1, <1>2, <1>3

\* The object that requests for a configuration are decoded into always has the types of the
\* code and as many elements as its counts say, and what a loop was given passed the checks.
THEOREM ConfigurationHeld == Spec => []ConfigureInv
  BY ConfigureInit, ConfigureStep, PTL DEF Spec

\* AcceptedAsSent: dataLogControlConfigureDatalog() accepts a configuration only from a request
\* that is its encoding to the byte, for every device, every configuration asked for, every
\* size of the arrays and every size of the addresses.
THEOREM AcceptedIsSent == Spec => []AcceptedAsSent
  <1>1. ConfigureInv => AcceptedAsSent
    BY DEF ConfigureInv
  <1> QED
    BY <1>1, ConfigurationHeld, PTL

-----------------------------------------------------------------------------
(* What the checks keep away *)

\* A configuration is accepted only when no element is refused.
LEMMA NoRefusal ==
  ASSUME NEW n \in Nat, NEW codes, DOMAIN codes = 1 .. n, NEW code, FirstRefusal(codes, code) = "OK"
  PROVE  (\A i \in 1 .. n : codes[i] = "OK") /\ code = "OK"
  <1> DEFINE refused == {i \in DOMAIN codes : codes[i] # "OK"}
  <1>1. refused = {}
    <2> SUFFICES ASSUME refused # {} PROVE FALSE
      OBVIOUS
    <2>1. refused \in SUBSET Nat
      OBVIOUS
    <2>2. \E m \in refused : \A k \in refused : m <= k
      BY <2>1, LeastNumber
    <2>3. Min(refused) \in refused
      BY Zenon, <2>2 DEF Min
    <2>4. codes[Min(refused)] = "OK"
      BY DEF FirstRefusal
    <2> QED
      BY <2>3, <2>4
  <1> QED
    BY <1>1 DEF FirstRefusal

\* Each operand and each item of an accepted configuration passed its checks.
LEMMA ElementsPass ==
  ASSUME NEW d, NEW c \in Objects, Checked(d, c)
  PROVE  /\ \A i \in 1 .. c.operand_count : OperandCode(d, c.operands[i]) = "OK" /\ ValidOperand(d, c.operands[i])
         /\ \A i \in 1 .. c.items_count : ItemCode(d, c.items[i]) = "OK" /\ ValidItem(d, c.items[i])
  <1> DEFINE n == c.operand_count
             m == c.items_count
             f == [i \in 1 .. n |-> OperandCode(d, c.operands[i])]
             g == [i \in 1 .. m |-> ItemCode(d, c.items[i])]
             before == FirstRefusal(f, "OK")
  <1>1. n \in Nat /\ m \in Nat
    BY ByteIs DEF Objects
  <1>2. FirstRefusal(g, before) = "OK"
    BY DEF Checked, ElementsCode
  <1>3. DOMAIN f = 1 .. n /\ DOMAIN g = 1 .. m
    OBVIOUS
  <1>4. /\ \A i \in 1 .. n : f[i] = OperandCode(d, c.operands[i])
        /\ \A i \in 1 .. m : g[i] = ItemCode(d, c.items[i])
    OBVIOUS
  <1> HIDE DEF n, m, f, g, before
  <1>5. (\A i \in 1 .. m : g[i] = "OK") /\ before = "OK"
    <2>1. (\A i \in DOMAIN g : g[i] = "OK") /\ before = "OK"
      BY <1>1, <1>2, <1>3, NoRefusal
    <2> QED
      BY <1>3, <2>1
  <1>6. \A i \in 1 .. n : f[i] = "OK"
    <2>1. FirstRefusal(f, "OK") = "OK"
      BY <1>5 DEF before
    <2> QED
      BY Zenon, <1>1, <1>3, <2>1, NoRefusal
  <1> QED
    BY <1>4, <1>5, <1>6 DEF Checked, ConfigValid, n, m

LEMMA AddressModulusIs == AddressModulus \in Nat \ {0}
  BY AddressSizeIs, WeightSteps DEF AddressModulus

\* Chars in a row that touches_forbidden_region() lets through are in no forbidden region.
LEMMA Untouched ==
  ASSUME NEW d \in Devices, NEW addr \in Nat, NEW size \in Nat, NEW length \in Nat, size <= length,
         addr .. addr + length - 1 \subseteq 0 .. AddressModulus - 1, ~TouchesForbidden(d, addr, length),
         NEW r \in ToSet(d.forbidden)
  PROVE  (addr .. addr + size - 1) \intersect (r.start .. r.end) = {}
  <1>1. r.start \in Nat /\ r.end \in Nat
    <2>1. r \in Ranges
      BY DevicesAssumption DEF WellTyped, ToSet
    <2> QED
      BY <2>1 DEF Ranges, Addresses
  <1>2. CASE size = 0
    BY <1>2
  <1>3. CASE size # 0
    <2>1. addr + length - 1 \in addr .. addr + length - 1
      BY <1>3
    <2>2. PICK last \in Nat : last = addr + length - 1 /\ last < AddressModulus /\ last < 2 * AddressModulus
      BY <1>3, <2>1, AddressModulusIs
    <2>3. last % AddressModulus = last
      BY <2>2, AddressModulusIs, SmallMod
    <2>4. ~(addr <= r.end /\ last >= r.start)
      BY <2>2, <2>3 DEF TouchesForbidden
    <2>5. addr + size - 1 <= last
      BY <2>2
    <2> QED
      BY <1>1, <1>3, <2>2, <2>4, <2>5
  <1> QED
    BY <1>2, <1>3

\* The types that check_trigger() supports have 1, 2, 4 or 8 chars.
LEMMA SupportedSizes ==
  ASSUME NEW type \in Byte, IsSupportedType(type)
  PROVE  TypeSize(type) \in {1, 2, 4, 8}
  <1>1. CASE type = NativeBoolean
    <2>1. NativeBoolean # UnknownType
      BY DEF NativeBoolean, UnknownType
    <2>2. TypeSize(type) = BooleanSize
      BY <1>1, <2>1 DEF TypeSize
    <2> QED
      BY <2>2 DEF BooleanSize
  <1>2. CASE type # NativeBoolean
    <2>1. TypeSize(type) \in 1 .. BiggestType
      BY <1>2 DEF IsSupportedType
    <2>2. TypeSize(type) >= 1 /\ TypeSize(type) <= 8
      <3>1. BiggestType \in {4, 8}
        BY DEF BiggestType
      <3> QED
        BY <2>1, <3>1
    <2>3. type # UnknownType
      <3>1. ASSUME type = UnknownType PROVE FALSE
        <4>1. NativeBoolean # UnknownType
          BY DEF NativeBoolean, UnknownType
        <4>2. TypeSize(type) = 0
          BY Zenon, <3>1, <4>1 DEF TypeSize
        <4> QED
          BY <2>2, <4>2
      <3> QED
        BY <3>1
    <2>4. TypeSize(type) = (2^(type % 16)) % 256
      BY <1>2, <2>3 DEF TypeSize
    <2>5. PICK k \in 0 .. 15 : k = type % 16
      <3>1. type \in Nat
        BY ByteIs
      <3> QED
        BY <3>1
    <2>6. TypeSize(type) = (2^k) % 256
      BY <2>4, <2>5
    <2>7. k \in {0, 1, 2, 3, 4, 5, 6, 7, 8, 9, 10, 11, 12, 13, 14, 15}
      BY <2>5
    <2>8. CASE k = 0
      BY <2>6, <2>8
    <2>9. CASE k = 1
      BY <2>6, <2>9
    <2>10. CASE k = 2
      BY <2>6, <2>10
    <2>11. CASE k = 3
      BY <2>6, <2>11
    <2>12. CASE k = 4
      <3>1. TypeSize(type) = (2^4) % 256
        BY <2>6, <2>12
      <3> QED
        BY <2>2, <3>1
    <2>13. CASE k = 5
      <3>1. TypeSize(type) = (2^5) % 256
        BY <2>6, <2>13
      <3> QED
        BY <2>2, <3>1
    <2>14. CASE k = 6
      <3>1. TypeSize(type) = (2^6) % 256
        BY <2>6, <2>14
      <3> QED
        BY <2>2, <3>1
    <2>15. CASE k = 7
      <3>1. TypeSize(type) = (2^7) % 256
        BY <2>6, <2>15
      <3> QED
        BY <2>2, <3>1
    <2>16. CASE k = 8
      <3>1. TypeSize(type) = (2^8) % 256
        BY <2>6, <2>16
      <3> QED
        BY <2>2, <3>1
    <2>17. CASE k = 9
      <3>1. TypeSize(type) = (2^9) % 256
        BY <2>6, <2>17
      <3> QED
        BY <2>2, <3>1
    <2>18. CASE k = 10
      <3>1. TypeSize(type) = (2^10) % 256
        BY <2>6, <2>18
      <3> QED
        BY <2>2, <3>1
    <2>19. CASE k = 11
      <3>1. TypeSize(type) = (2^11) % 256
        BY <2>6, <2>19
      <3> QED
        BY <2>2, <3>1
    <2>20. CASE k = 12
      <3>1. TypeSize(type) = (2^12) % 256
        BY <2>6, <2>20
      <3> QED
        BY <2>2, <3>1
    <2>21. CASE k = 13
      <3>1. TypeSize(type) = (2^13) % 256
        BY <2>6, <2>21
      <3> QED
        BY <2>2, <3>1
    <2>22. CASE k = 14
      <3>1. TypeSize(type) = (2^14) % 256
        BY <2>6, <2>22
      <3> QED
        BY <2>2, <3>1
    <2>23. CASE k = 15
      <3>1. TypeSize(type) = (2^15) % 256
        BY <2>6, <2>23
      <3> QED
        BY <2>2, <3>1
    <2> QED
      BY <2>7, <2>8, <2>9, <2>10, <2>11, <2>12, <2>13, <2>14, <2>15, <2>16, <2>17, <2>18, <2>19, <2>20, <2>21, <2>22, <2>23
  <1> QED
    BY <1>1, <1>2

\* A bitfield is fetched with a width that is not beyond its datatype.
LEMMA FetchedWidth ==
  ASSUME NEW size \in {1, 2, 4, 8}, NEW chars \in 1 .. size
  PROVE  /\ (CHOOSE n \in {1, 2, 4, 8, 16, 32, 64} : chars <= n /\ n < 2 * chars) \in Nat
         /\ (CHOOSE n \in {1, 2, 4, 8, 16, 32, 64} : chars <= n /\ n < 2 * chars) <= size
  <1> DEFINE width == CHOOSE n \in {1, 2, 4, 8, 16, 32, 64} : chars <= n /\ n < 2 * chars
  <1>1. chars \in {1, 2, 3, 4, 5, 6, 7, 8}
    OBVIOUS
  <1>2. \E n \in {1, 2, 4, 8, 16, 32, 64} : chars <= n /\ n < 2 * chars
    <2>1. CASE chars = 1
      BY <2>1
    <2>2. CASE chars = 2
      BY <2>2
    <2>3. CASE chars \in {3, 4}
      BY <2>3
    <2>4. CASE chars \in {5, 6, 7, 8}
      BY <2>4
    <2> QED
      BY <1>1, <2>1, <2>2, <2>3, <2>4
  <1>3. width \in {1, 2, 4, 8, 16, 32, 64} /\ chars <= width /\ width < 2 * chars
    BY Zenon, <1>2
  <1> HIDE DEF width
  <1>4. width \in Nat /\ width <= size
    BY <1>3
  <1> QED
    BY <1>4 DEF width

\* An operand that passed the checks reads no forbidden address and names a published value
\* that exists.
LEMMA OperandIsSafe ==
  ASSUME NEW d \in Devices, d = device, NEW o \in OperandRecords,
         OperandCode(d, o) = "OK", ValidOperand(d, o), InAddressSpace(o)
  PROVE  CharsRead(o) \intersect ForbiddenAddresses = {}
  <1>1. CASE o.kind \in {"Literal", "Rpv"}
    <2>1. CharsRead(o) = {}
      BY <1>1 DEF CharsRead
    <2> QED
      BY <2>1
  <1>2. CASE o.kind \in {"Var", "VarBit"}
    <2>1. o.datatype \in Byte /\ o.addr \in Nat
      BY <1>2 DEF OperandRecords
    <2>2. IsSupportedType(o.datatype)
      BY <1>2 DEF ValidOperand
    <2>3. PICK length \in {1, 2, 4, 8} : length = TypeSize(o.datatype)
      BY <2>1, <2>2, SupportedSizes
    <2>4. ~TouchesForbidden(d, o.addr, length)
      BY <1>2, <2>3 DEF OperandCode
    <2>5. o.addr .. o.addr + length - 1 \subseteq 0 .. AddressModulus - 1
      BY <1>2, <2>3 DEF InAddressSpace, CharsOf
    <2>6. ASSUME NEW size \in Nat, size <= length, CharsRead(o) = o.addr .. o.addr + size - 1
          PROVE  CharsRead(o) \intersect ForbiddenAddresses = {}
      <3>1. length \in Nat
        OBVIOUS
      <3>2. \A r \in ToSet(d.forbidden) : (o.addr .. o.addr + size - 1) \intersect (r.start .. r.end) = {}
        BY <2>1, <2>4, <2>5, <2>6, <3>1, Untouched
      <3> QED
        BY <2>6, <3>2 DEF ForbiddenAddresses
    <2>7. CASE o.kind = "Var"
      <3>1. CharsRead(o) = o.addr .. o.addr + length - 1
        BY <2>3, <2>7 DEF CharsRead
      <3> QED
        BY <2>6, <3>1
    <2>8. CASE o.kind = "VarBit" /\ ~(o.bitsize > 0)
      <3>1. CharsRead(o) = {}
        BY <2>8 DEF CharsRead
      <3> QED
        BY <3>1
    <2>9. CASE o.kind = "VarBit" /\ o.bitsize > 0
      <3>1. o.bitoffset \in Nat /\ o.bitsize \in Nat /\ o.bitoffset + o.bitsize <= 8 * length
        <4>1. o.bitoffset \in Byte /\ o.bitsize \in Byte
          BY <2>9 DEF OperandRecords
        <4>2. o.bitoffset + o.bitsize <= 8 * length
          BY <2>3, <2>9 DEF ValidOperand
        <4> QED
          BY <4>1, <4>2, ByteIs
      <3> DEFINE chars == (o.bitoffset + o.bitsize - 1) \div 8 + 1
                 width == CHOOSE n \in {1, 2, 4, 8, 16, 32, 64} : chars <= n /\ n < 2 * chars
      <3>2. chars \in 1 .. length
        <4>1. PICK b \in Nat : b = o.bitoffset + o.bitsize - 1 /\ b <= 8 * length - 1
          BY <2>9, <3>1
        <4>2. b \div 8 + 1 \in 1 .. length
          BY <4>1
        <4> QED
          BY <4>1, <4>2
      <3>3. CharsRead(o) = o.addr .. o.addr + width - 1
        BY <2>9 DEF CharsRead
      <3>4. width \in Nat /\ width <= length
        <4> HIDE DEF chars
        <4> QED
          BY <3>2, FetchedWidth
      <3> HIDE DEF width
      <3> QED
        BY <2>6, <3>3, <3>4
    <2> QED
      BY <1>2, <2>7, <2>8, <2>9
  <1> QED
    BY <1>1, <1>2 DEF OperandRecords

\* An item that passed the checks reads no forbidden address and names a published value that
\* exists.
LEMMA ItemIsSafe ==
  ASSUME NEW d \in Devices, d = device, NEW item \in ItemRecords,
         ItemCode(d, item) = "OK", InAddressSpace(item)
  PROVE  CharsRead(item) \intersect ForbiddenAddresses = {}
  <1>1. CASE item.kind \in {"Rpv", "Time"}
    <2>1. CharsRead(item) = {}
      BY <1>1 DEF CharsRead
    <2> QED
      BY <2>1
  <1>2. CASE item.kind = "Memory"
    <2>1. item.addr \in Nat /\ item.size \in Nat
      <3>1. item.addr \in Nat /\ item.size \in Byte
        BY <1>2 DEF ItemRecords
      <3> QED
        BY <3>1, ByteIs
    <2>2. CharsRead(item) = item.addr .. item.addr + item.size - 1
      BY <1>2 DEF CharsRead
    <2>3. item.addr .. item.addr + item.size - 1 \subseteq 0 .. AddressModulus - 1
      BY <1>2 DEF InAddressSpace, CharsOf
    <2>4. ~TouchesForbidden(d, item.addr, item.size)
      BY <1>2 DEF ItemCode
    <2>5. \A r \in ToSet(d.forbidden) : (item.addr .. item.addr + item.size - 1) \intersect (r.start .. r.end) = {}
      BY <2>1, <2>3, <2>4, Untouched
    <2> QED
      BY <2>2, <2>5 DEF ForbiddenAddresses
  <1> QED
    BY <1>1, <1>2 DEF ItemRecords

\* The elements of a configuration that passed the checks are safe to read.
LEMMA ReadyIsSafe == ConfigureInv => AcceptedIsSafe
  <1> SUFFICES ASSUME ConfigureInv, handed, NEW e \in UsedElements
               PROVE  /\ InAddressSpace(e) => CharsRead(e) \intersect ForbiddenAddresses = {}
                      /\ e.kind = "Rpv" => device.read_published_values /\ \E r \in ToSet(device.rpvs) : r.id = e.id
    BY DEF AcceptedIsSafe
  <1>1. /\ device \in Devices /\ logger.config \in Objects
        /\ Ready(logger.config) /\ Checked(device, logger.config)
    BY DEF ConfigureInv
  <1>2. /\ \A i \in 1 .. logger.config.operand_count :
              /\ OperandCode(device, logger.config.operands[i]) = "OK"
              /\ ValidOperand(device, logger.config.operands[i])
        /\ \A i \in 1 .. logger.config.items_count :
              /\ ItemCode(device, logger.config.items[i]) = "OK"
              /\ ValidItem(device, logger.config.items[i])
    BY <1>1, ElementsPass
  <1>3. CASE e \in {logger.config.operands[i] : i \in 1 .. logger.config.operand_count}
    <2>1. e \in OperandRecords /\ OperandCode(device, e) = "OK" /\ ValidOperand(device, e)
      BY <1>1, <1>2, <1>3 DEF Ready
    <2>2. e.kind = "Rpv" => RpvReadable(device, e.id)
      BY <2>1 DEF ValidOperand
    <2> QED
      BY <1>1, <2>1, <2>2, OperandIsSafe DEF RpvReadable, RpvExists
  <1>4. CASE e \in {logger.config.items[i] : i \in 1 .. logger.config.items_count}
    <2>1. e \in ItemRecords /\ ItemCode(device, e) = "OK" /\ ValidItem(device, e)
      BY <1>1, <1>2, <1>4 DEF Ready
    <2>2. e.kind = "Rpv" => RpvReadable(device, e.id)
      BY <2>1 DEF ValidItem
    <2> QED
      BY <1>1, <2>1, <2>2, ItemIsSafe DEF RpvReadable, RpvExists
  <1> QED
    BY <1>3, <1>4 DEF UsedElements

\* AcceptedIsSafe: what configure_datalogging() hands to a loop reads no forbidden address, with
\* the width a bitfield is fetched with, and names published values that exist, for every
\* list of regions and every element of the address space.
THEOREM AcceptedConfigurationsAreSafe == Spec => []AcceptedIsSafe
  BY ReadyIsSafe, ConfigurationHeld, PTL

-----------------------------------------------------------------------------
(* The enumeration of the published values *)

Rpvs == [id : Word16, type : Byte]
Published == {AsPublished(r) : r \in Rpvs}

\* The three bytes of a definition hold what is published.
LEMMA RpvIs ==
  ASSUME NEW rpv \in Rpvs
  PROVE  /\ EncodeRpv(rpv) \in Seq(Byte) /\ Len(EncodeRpv(rpv)) = 3
         /\ AsPublished(rpv) = [id |-> 256 * EncodeRpv(rpv)[1] + EncodeRpv(rpv)[2], type |-> EncodeRpv(rpv)[3]]
  <1> DEFINE w == Encode(rpv.id, 2)
             t == IF rpv.type = NativeBoolean THEN PlatformBoolean ELSE rpv.type
  <1>1. rpv.id \in Word16 /\ rpv.type \in Byte
    BY DEF Rpvs
  <1>2. t \in Byte
    BY <1>1, ByteIs DEF PlatformBoolean
  <1>3. w \in Seq(Byte) /\ Len(w) = 2 /\ 256 * w[1] + w[2] = rpv.id
    BY <1>1, EncodeWord16
  <1>4. EncodeRpv(rpv) = w \o <<t>>
    BY DEF EncodeRpv
  <1>5. AsPublished(rpv) = [id |-> rpv.id, type |-> t]
    BY DEF AsPublished
  <1> HIDE DEF w, t
  <1>6. /\ w \o <<t>> \in Seq(Byte) /\ Len(w \o <<t>>) = 3
        /\ (w \o <<t>>)[1] = w[1] /\ (w \o <<t>>)[2] = w[2] /\ (w \o <<t>>)[3] = t
    <2>1. <<t>> \in Seq(Byte) /\ Len(<<t>>) = 1 /\ <<t>>[1] = t
      BY <1>2, OneByte
    <2>2. PICK u \in Seq(Byte) : u = <<t>> /\ Len(u) = 1 /\ u[1] = t
      BY <2>1
    <2>3. /\ w \o u \in Seq(Byte) /\ Len(w \o u) = Len(w) + Len(u)
          /\ \A i \in 1 .. Len(w) : (w \o u)[i] = w[i]
          /\ \A i \in 1 .. Len(u) : (w \o u)[Len(w) + i] = u[i]
      BY <1>3, <2>2, ConcatAt
    <2>4. 1 \in 1 .. Len(w) /\ 2 \in 1 .. Len(w) /\ 1 \in 1 .. Len(u) /\ Len(w) + 1 = 3 /\ Len(w) + Len(u) = 3
      BY <1>3, <2>2
    <2>5. (w \o u)[1] = w[1] /\ (w \o u)[2] = w[2] /\ (w \o u)[3] = t
      BY Zenon, <2>2, <2>3, <2>4
    <2> QED
      BY <2>2, <2>3, <2>4, <2>5
  <1> QED
    BY <1>3, <1>4, <1>5, <1>6

\* The definitions of a chunk, read by the client.
LEMMA ChunkIs ==
  ASSUME NEW rpvs \in Seq(Rpvs), NEW bytes, bytes = FlattenSeq([i \in 1 .. Len(rpvs) |-> EncodeRpv(rpvs[i])])
  PROVE  /\ bytes \in Seq(Byte) /\ Len(bytes) = 3 * Len(rpvs)
         /\ DOMAIN ReadRpvs(bytes) = 1 .. Len(rpvs) /\ ReadRpvs(bytes) \in Seq(Published)
         /\ \A i \in 1 .. Len(rpvs) : ReadRpvs(bytes)[i] = AsPublished(rpvs[i])
  <1>1. PICK n \in Nat : n = Len(rpvs)
    OBVIOUS
  <1> DEFINE seqs == [i \in 1 .. n |-> EncodeRpv(rpvs[i])]
  <1>2. \A i \in 1 .. n : rpvs[i] \in Rpvs
    BY <1>1
  <1>3. seqs \in Seq(Seq(Byte)) /\ Len(seqs) = n /\ \A i \in 1 .. n : Len(seqs[i]) = 3 /\ seqs[i] = EncodeRpv(rpvs[i])
    <2>1. \A i \in 1 .. n : EncodeRpv(rpvs[i]) \in Seq(Byte) /\ Len(EncodeRpv(rpvs[i])) = 3
      BY <1>2, RpvIs
    <2> QED
      BY <2>1
  <1>4. bytes = FlattenSeq(seqs)
    BY <1>1
  <1> HIDE DEF seqs
  <1>5. bytes \in Seq(Byte) /\ Triples(bytes, seqs, n)
    BY <1>3, <1>4, FlattenTyped, FlattenTriples
  <1>6. Len(bytes) = 3 * n /\ Len(bytes) \div 3 = n
    <2>1. Len(bytes) = 3 * n
      BY Zenon, <1>5 DEF Triples
    <2>2. (3 * n) \div 3 = n
      OBVIOUS
    <2> QED
      BY <2>1, <2>2
  <1>7. ReadRpvs(bytes) = [i \in 1 .. n |-> [id |-> Read16(bytes, 3 * i - 2), type |-> bytes[3 * i]]]
    BY <1>6 DEF ReadRpvs
  <1>8. ASSUME NEW i \in 1 .. n PROVE ReadRpvs(bytes)[i] = AsPublished(rpvs[i])
    <2>1. bytes[3 * i - 2] = seqs[i][1] /\ bytes[3 * i - 1] = seqs[i][2] /\ bytes[3 * i] = seqs[i][3]
      BY <1>5 DEF Triples
    <2>2. (3 * i - 2) + 1 = 3 * i - 1
      OBVIOUS
    <2>3. Read16(bytes, 3 * i - 2) = 256 * seqs[i][1] + seqs[i][2]
      BY <2>1, <2>2 DEF Read16
    <2>4. AsPublished(rpvs[i]) = [id |-> 256 * seqs[i][1] + seqs[i][2], type |-> seqs[i][3]]
      BY <1>2, <1>3, RpvIs
    <2>5. ReadRpvs(bytes)[i] = [id |-> Read16(bytes, 3 * i - 2), type |-> bytes[3 * i]]
      BY <1>7
    <2> QED
      BY <2>1, <2>3, <2>4, <2>5
  <1>9. DOMAIN ReadRpvs(bytes) = 1 .. n
    BY <1>7
  <1>10. ReadRpvs(bytes) \in Seq(Published)
    <2>1. \A i \in 1 .. n : ReadRpvs(bytes)[i] \in Published
      BY <1>2, <1>8 DEF Published
    <2>2. ReadRpvs(bytes) \in [1 .. n -> Published]
      BY <1>7, <2>1
    <2> QED
      BY <2>2
  <1> QED
    BY <1>1, <1>5, <1>6, <1>8, <1>9, <1>10

\* The two words of a request for published values, as the device reads them.
LEMMA WordsOf ==
  ASSUME NEW data \in Seq(Byte), Len(data) = 4
  PROVE  /\ Decode(SubSeq(data, 1, 2)) = Read16(data, 1) /\ Decode(SubSeq(data, 3, 4)) = Read16(data, 3)
         /\ Read16(data, 1) \in Nat /\ Read16(data, 3) \in Nat
  <1>1. /\ SubSeq(data, 1, 2) \in Seq(Byte) /\ Len(SubSeq(data, 1, 2)) = 2
        /\ SubSeq(data, 1, 2)[1] = data[1] /\ SubSeq(data, 1, 2)[2] = data[2]
        /\ SubSeq(data, 3, 4) \in Seq(Byte) /\ Len(SubSeq(data, 3, 4)) = 2
        /\ SubSeq(data, 3, 4)[1] = data[3] /\ SubSeq(data, 3, 4)[2] = data[4]
    <2>1. PICK a \in Nat, b \in Nat, c \in Nat : a = 0 /\ b = 2 /\ c = 4
      OBVIOUS
    <2>2. a <= b /\ b <= c /\ b <= Len(data) /\ c <= Len(data) /\ b - a = 2 /\ c - b = 2
      BY <2>1
    <2>3. /\ Between(data, a, b) \in Seq(Byte) /\ Len(Between(data, a, b)) = 2
          /\ \A i \in 1 .. 2 : Between(data, a, b)[i] = data[a + i]
          /\ Between(data, b, c) \in Seq(Byte) /\ Len(Between(data, b, c)) = 2
          /\ \A i \in 1 .. 2 : Between(data, b, c)[i] = data[b + i]
      <3>1. a \in Nat /\ b \in Nat /\ c \in Nat
        BY <2>1
      <3>2. /\ Between(data, a, b) \in Seq(Byte) /\ Len(Between(data, a, b)) = b - a
            /\ \A i \in 1 .. b - a : Between(data, a, b)[i] = data[a + i]
        BY Zenon, <2>2, <3>1, BetweenIs
      <3>3. /\ Between(data, b, c) \in Seq(Byte) /\ Len(Between(data, b, c)) = c - b
            /\ \A i \in 1 .. c - b : Between(data, b, c)[i] = data[b + i]
        BY ZenonT(60), <2>2, <3>1, BetweenIs
      <3> QED
        BY Zenon, <2>2, <3>2, <3>3
    <2>4. Between(data, a, b) = SubSeq(data, 1, 2) /\ Between(data, b, c) = SubSeq(data, 3, 4)
      BY <2>1 DEF Between
    <2>5. 1 \in 1 .. 2 /\ 2 \in 1 .. 2 /\ a + 1 = 1 /\ a + 2 = 2 /\ b + 1 = 3 /\ b + 2 = 4
      BY <2>1
    <2> QED
      BY <2>3, <2>4, <2>5
  <1>2. /\ Decode(SubSeq(data, 1, 2)) = 256 * data[1] + data[2]
        /\ Decode(SubSeq(data, 3, 4)) = 256 * data[3] + data[4]
    BY <1>1, DecodeTwo
  <1>3. Decode(SubSeq(data, 1, 2)) \in Nat /\ Decode(SubSeq(data, 3, 4)) \in Nat
    BY <1>1, Reencoded
  <1> QED
    BY <1>2, <1>3, 1 + 1 = 2, 3 + 1 = 4 DEF Read16

\* GetRPVDefinition: refused, or the definitions asked for.
LEMMA GetRpvDefinitionIs ==
  ASSUME NEW d \in Devices, NEW data \in Seq(Byte), Len(data) = 4,
         NEW s, s = Read16(data, 1), NEW c, c = Read16(data, 3),
         NEW answer, answer = GetRpvDefinition(d, data)
  PROVE  /\ s \in Nat /\ c \in Nat
         /\ (s < Len(d.rpvs) /\ s + c <= Len(d.rpvs) /\ 3 * c <= d.tx_buffer_size) = (answer.code = "OK")
         /\ answer.code # "OK" => answer.data = <<>>
         /\ answer.code = "OK" =>
              /\ answer.data \in Seq(Byte) /\ Len(answer.data) = 3 * c
              /\ ReadRpvs(answer.data) \in Seq(Published) /\ Len(ReadRpvs(answer.data)) = c
              /\ \A i \in 1 .. c : ReadRpvs(answer.data)[i] = AsPublished(d.rpvs[s + i])
  <1> DEFINE rpvs == SubSeq(d.rpvs, s + 1, s + c)
             bytes == FlattenSeq([i \in 1 .. Len(rpvs) |-> EncodeRpv(rpvs[i])])
             inside == s < Len(d.rpvs) /\ s + c <= Len(d.rpvs)
  <1>1. /\ s \in Nat /\ c \in Nat
        /\ Decode(SubSeq(data, 1, 2)) = s /\ Decode(SubSeq(data, 3, 4)) = c
    BY WordsOf
  <1>2. d.rpvs \in Seq(Rpvs) /\ Len(d.rpvs) \in Nat /\ d.tx_buffer_size \in Nat
    <2>1. WellTyped(d)
      BY DevicesAssumption
    <2>2. d.rpvs \in Seq(Rpvs) /\ d.tx_buffer_size \in Word16
      BY Zenon, <2>1 DEF WellTyped, Rpvs
    <2> QED
      BY <2>2 DEF Word16
  <1>3. answer = IF s >= Len(d.rpvs) \/ s + c > Len(d.rpvs) THEN Refused("FailureToProceed")
                 ELSE StrictlyFitted(d, bytes)
    BY <1>1 DEF GetRpvDefinition
  <1>0. rpvs = SubSeq(d.rpvs, s + 1, s + c)
    OBVIOUS
  <1>6. bytes = FlattenSeq([i \in 1 .. Len(rpvs) |-> EncodeRpv(rpvs[i])])
    OBVIOUS
  <1> HIDE DEF rpvs, bytes
  <1>4. CASE ~inside
    <2>1. answer = Refused("FailureToProceed")
      BY <1>1, <1>2, <1>3, <1>4
    <2> QED
      BY <1>1, <1>4, <2>1 DEF Refused, Answer
  <1>5. CASE inside
    <2>1. answer = StrictlyFitted(d, bytes)
      BY <1>1, <1>2, <1>3, <1>5
    <2>2. PICK e \in Nat : e = s + c /\ e <= Len(d.rpvs) /\ s <= e /\ e - s = c
      <3>1. s + c \in Nat /\ s <= s + c /\ (s + c) - s = c
        BY <1>1
      <3> QED
        BY <1>5, <3>1
    <2>3. rpvs = Between(d.rpvs, s, e)
      BY <1>0, <2>2 DEF Between
    <2>4. rpvs \in Seq(Rpvs) /\ Len(rpvs) = c /\ \A i \in 1 .. c : rpvs[i] = d.rpvs[s + i]
      <3>1. /\ Between(d.rpvs, s, e) \in Seq(Rpvs) /\ Len(Between(d.rpvs, s, e)) = e - s
            /\ \A i \in 1 .. e - s : Between(d.rpvs, s, e)[i] = d.rpvs[s + i]
        <4>1. e \in Nat /\ s <= e /\ e <= Len(d.rpvs) /\ s \in Nat
          BY <1>1, <2>2
        <4>2. PICK q \in Seq(Rpvs) : q = d.rpvs
          BY <1>2
        <4>3. s \in Nat /\ e \in Nat /\ s <= e /\ e <= Len(q)
          BY <4>1, <4>2
        <4>4. /\ Between(q, s, e) \in Seq(Rpvs) /\ Len(Between(q, s, e)) = e - s
              /\ \A i \in 1 .. e - s : Between(q, s, e)[i] = q[s + i]
          BY ZenonT(60), <4>3, BetweenIs
        <4> QED
          BY <4>2, <4>4
      <3> QED
        BY Zenon, <2>2, <2>3, <3>1
    <2>5. /\ bytes \in Seq(Byte) /\ Len(bytes) = 3 * Len(rpvs)
          /\ DOMAIN ReadRpvs(bytes) = 1 .. Len(rpvs) /\ ReadRpvs(bytes) \in Seq(Published)
          /\ \A i \in 1 .. Len(rpvs) : ReadRpvs(bytes)[i] = AsPublished(rpvs[i])
      BY <1>6, <2>4, ChunkIs
    <2>6. Len(ReadRpvs(bytes)) = c
      BY <1>1, <2>4, <2>5
    <2>7. CASE 3 * c > d.tx_buffer_size
      <3>1. answer = Refused("Overflow")
        BY <2>1, <2>4, <2>5, <2>7 DEF StrictlyFitted
      <3> QED
        BY <1>1, <1>2, <2>7, <3>1 DEF Refused, Answer
    <2>8. CASE ~(3 * c > d.tx_buffer_size)
      <3>1. answer = OK(bytes)
        BY <2>1, <2>4, <2>5, <2>8 DEF StrictlyFitted
      <3>2. answer.code = "OK" /\ answer.data = bytes
        BY <3>1 DEF OK, Answer
      <3>3. 3 * c <= d.tx_buffer_size
        BY <1>1, <1>2, <2>8
      <3>4. \A i \in 1 .. c : ReadRpvs(bytes)[i] = AsPublished(d.rpvs[s + i])
        BY <2>4, <2>5
      <3> QED
        BY <1>1, <1>5, <2>4, <2>5, <2>6, <3>2, <3>3, <3>4
    <2> QED
      BY <2>7, <2>8
  <1> QED
    BY <1>4, <1>5

LEMMA RpvsRequest ==
  ASSUME NEW start \in Word16, NEW count \in Nat, NEW data \in Mangled(Encode(start, 2) \o Encode(count, 2))
  PROVE  data \in Seq(Byte) /\ (Len(data) = 4 => Read16(data, 1) = start)
  <1>1. start \in Nat
    BY DEF Word16
  <1>2. PICK u \in Seq(Byte) : u = Encode(start, 2) /\ Len(u) = 2 /\ 256 * u[1] + u[2] = start
    BY EncodeWord16
  <1>3. PICK v \in Seq(Byte) : v = Encode(count, 2) /\ Len(v) = 2
    BY TwoBytes
  <1>4. PICK w \in Seq(Byte) : w = u \o v /\ Len(w) = 4 /\ w[1] = u[1] /\ w[2] = u[2]
    <2>1. Len(u) = 2 /\ Len(v) = 2 /\ u \in Seq(Byte) /\ v \in Seq(Byte)
      BY <1>2, <1>3
    <2>2. 1 \in 1 .. Len(u) /\ 2 \in 1 .. Len(u) /\ Len(u) + Len(v) = 4
      BY <2>1
    <2>3. u \o v \in Seq(Byte) /\ Len(u \o v) = 4 /\ (u \o v)[1] = u[1] /\ (u \o v)[2] = u[2]
      BY Zenon, <2>1, <2>2, ConcatAt
    <2> QED
      BY Zenon, <2>3
  <1>5. data \in Mangled(w)
    BY <1>2, <1>3, <1>4
  <1>6. data \in Seq(Byte)
    BY <1>5, MangledIs
  <1>7. ASSUME Len(data) = 4 PROVE data = w
    <2>1. Len(w \o <<0>>) = 5
      BY <1>4
    <2>2. Len(SubSeq(w, 1, Len(w) - 1)) = 3
      BY <1>4
    <2>3. data \in {w, w \o <<0>>, SubSeq(w, 1, Len(w) - 1)}
      BY <1>5 DEF Mangled
    <2>4. data # w \o <<0>>
      <3>1. 4 # 5
        OBVIOUS
      <3> QED
        BY Zenon, <1>7, <2>1, <3>1
    <2>5. data # SubSeq(w, 1, Len(w) - 1)
      <3>1. 4 # 3
        OBVIOUS
      <3> QED
        BY Zenon, <1>7, <2>2, <3>1
    <2> QED
      BY <2>3, <2>4, <2>5
  <1>8. ASSUME Len(data) = 4 PROVE Read16(data, 1) = start
    BY <1>2, <1>4, <1>7, <1>8, 1 + 1 = 2 DEF Read16
  <1> QED
    BY <1>6, <1>8

EnumerationInv ==
    /\ device \in Devices
    /\ found \in Seq(Published)
    /\ EnumerationComplete

\* Nothing is enumerated at first.
LEMMA EnumerationInit == Init => EnumerationInv
  <1> SUFFICES ASSUME Init PROVE EnumerationInv
    OBVIOUS
  <1>1. device \in Devices /\ found = <<>> /\ exchange.kind # "Rpvs"
    BY DEF Init, NoExchange
  <1>2. Len(device.rpvs) \in Nat
    <2>1. WellTyped(device)
      BY <1>1, DevicesAssumption
    <2>2. Len(device.rpvs) \in Word16
      BY <2>1 DEF WellTyped
    <2> QED
      BY <2>2 DEF Word16
  <1> QED
    BY <1>1, <1>2 DEF EnumerationInv, EnumerationComplete

\* Only AskRpvs adds to what was enumerated; a new session starts again.
LEMMA NoEnumeration ==
  ASSUME Next, ~AskRpvs
  PROVE  UNCHANGED device /\ found' \in {found, <<>>} /\ exchange'.kind # "Rpvs"
  <1>1. CASE AskDiscover
    BY <1>1 DEF AskDiscover, Exchanged, Unchanged
  <1>2. CASE AskConnect
    BY <1>2 DEF AskConnect, Exchanged
  <1>3. CASE AskDisconnect
    BY <1>3 DEF AskDisconnect, Exchanged
  <1>4. CASE AskHeartbeat
    BY <1>4 DEF AskHeartbeat, Exchanged
  <1>5. CASE AskAbout
    BY <1>5 DEF AskAbout, Asks, Exchanged, Unchanged
  <1>6. CASE AskStatus
    BY <1>6 DEF AskStatus, Asks, Exchanged, Unchanged
  <1>7. CASE AskMetadata
    BY <1>7 DEF AskMetadata, Asks, Exchanged, Unchanged
  <1>8. CASE AskRegion
    BY <1>8 DEF AskRegion, Exchanged, Unchanged
  <1>9. CASE AskLoop
    BY <1>9 DEF AskLoop, Exchanged, Unchanged
  <1>10. CASE AskConfigure
    <2>1. UNCHANGED <<device, found>>
      BY <1>10 DEF AskConfigure
    <2>2. exchange'.kind = "Configure"
      BY <1>10 DEF AskConfigure, Exchanged
    <2> QED
      BY <2>1, <2>2
  <1> QED
    BY <1>1, <1>2, <1>3, <1>4, <1>5, <1>6, <1>7, <1>8, <1>9, <1>10 DEF Next

\* Each answer extends what was enumerated by the values that follow.
LEMMA EnumerationStep == EnumerationInv /\ [Next]_vars => EnumerationInv'
  <1> SUFFICES ASSUME EnumerationInv, [Next]_vars PROVE EnumerationInv'
    OBVIOUS
  <1>1. device \in Devices /\ found \in Seq(Published) /\ Len(device.rpvs) \in Word16 /\ Len(device.rpvs) \in Nat
    <2>1. device \in Devices
      BY DEF EnumerationInv
    <2>2. WellTyped(device)
      BY <2>1, DevicesAssumption
    <2>3. Len(device.rpvs) \in Word16
      BY <2>2 DEF WellTyped
    <2> QED
      BY <2>1, <2>3 DEF Word16, EnumerationInv
  <1>2. CASE AskRpvs
    <2>1. PICK start \in {0, Len(found), Len(device.rpvs)}, count \in 0 .. Len(device.rpvs) + 1 :
              \E data \in Mangled(Encode(start, 2) \o Encode(count, 2)) :
                  LET answer == GetRpvDefinition(device, data)
                  IN /\ Exchanged("Rpvs", data, answer)
                     /\ found' = IF answer.code = "OK" /\ start = Len(found)
                                 THEN found \o ReadRpvs(answer.data) ELSE found
      BY <1>2 DEF AskRpvs
    <2>2. PICK data \in Mangled(Encode(start, 2) \o Encode(count, 2)) :
                  LET answer == GetRpvDefinition(device, data)
                  IN /\ Exchanged("Rpvs", data, answer)
                     /\ found' = IF answer.code = "OK" /\ start = Len(found)
                                 THEN found \o ReadRpvs(answer.data) ELSE found
      BY <2>1
    <2>3. UNCHANGED device
      BY <1>2 DEF AskRpvs
    <2>4. start \in Word16 /\ count \in Nat
      <3>1. Len(found) <= Len(device.rpvs) /\ Len(found) \in Nat
        BY <1>1 DEF EnumerationInv, EnumerationComplete
      <3> QED
        BY <1>1, <2>1, <2>2, <3>1 DEF Word16
    <2>5. data \in Seq(Byte) /\ (Len(data) = 4 => Read16(data, 1) = start)
      BY <2>2, <2>4, RpvsRequest
    <2> DEFINE answer == GetRpvDefinition(device, data)
    <2>6. /\ exchange'.kind = "Rpvs" /\ exchange'.data = data /\ exchange'.answer = answer
          /\ found' = IF answer.code = "OK" /\ start = Len(found) THEN found \o ReadRpvs(answer.data) ELSE found
      BY <2>2 DEF Exchanged
    <2>7. CASE Len(data) # 4
      <3>1. answer.code # "OK"
        BY <2>7 DEF GetRpvDefinition, Refused, Answer
      <3> HIDE DEF answer
      <3> QED
        BY <1>1, <2>3, <2>6, <2>7, <3>1 DEF EnumerationInv, EnumerationComplete
    <2>8. CASE Len(data) = 4
      <3>1. PICK s, c : s = Read16(data, 1) /\ c = Read16(data, 3)
        OBVIOUS
      <3>2. /\ s \in Nat /\ c \in Nat
            /\ (s < Len(device.rpvs) /\ s + c <= Len(device.rpvs) /\ 3 * c <= device.tx_buffer_size)
                  = (answer.code = "OK")
            /\ answer.code = "OK" =>
                 /\ ReadRpvs(answer.data) \in Seq(Published) /\ Len(ReadRpvs(answer.data)) = c
                 /\ \A i \in 1 .. c : ReadRpvs(answer.data)[i] = AsPublished(device.rpvs[s + i])
        BY SMTT(60), <1>1, <2>5, <2>8, <3>1, GetRpvDefinitionIs
      <3> HIDE DEF answer
      <3>3. s = start
        BY <2>5, <2>8, <3>1
      <3>4. found' \in Seq(Published) /\ Len(found') <= Len(device.rpvs)
            /\ \A i \in DOMAIN found' : found'[i] = AsPublished(device.rpvs[i])
        <4>1. CASE answer.code = "OK" /\ start = Len(found)
          <5>1. PICK chunk \in Seq(Published) :
                    /\ chunk = ReadRpvs(answer.data) /\ Len(chunk) = c
                    /\ \A i \in 1 .. c : chunk[i] = AsPublished(device.rpvs[s + i])
            BY <3>2, <4>1
          <5>2. found' = found \o chunk /\ s + c <= Len(device.rpvs) /\ s = Len(found)
            BY <2>6, <3>2, <3>3, <4>1, <5>1
          <5>3. found \o chunk \in Seq(Published) /\ Len(found \o chunk) = s + c
            <6>1. found \o chunk \in Seq(Published) /\ Len(found \o chunk) = Len(found) + Len(chunk)
              <7>1. found \in Seq(Published) /\ chunk \in Seq(Published)
                BY <1>1, <5>1
              <7> QED
                BY <7>1
            <6> QED
              BY <5>1, <5>2, <6>1
          <5>4. ASSUME NEW i \in 1 .. s + c PROVE (found \o chunk)[i] = AsPublished(device.rpvs[i])
            <6>1. CASE i <= s
              <7>1. i \in DOMAIN found /\ (found \o chunk)[i] = found[i]
                BY <1>1, <3>2, <5>1, <5>2, <6>1
              <7> QED
                BY <7>1 DEF EnumerationInv, EnumerationComplete
            <6>2. CASE i > s
              <7>1. i - s \in 1 .. c /\ s + (i - s) = i
                BY <3>2, <6>2
              <7>2. (found \o chunk)[i] = chunk[i - s]
                BY <1>1, <5>1, <5>2, <6>2
              <7> QED
                BY <5>1, <7>1, <7>2
            <6> QED
              <7>1. s \in Nat /\ c \in Nat
                BY <3>2
              <7>2. i <= s \/ i > s
                BY <7>1
              <7> QED
                BY <6>1, <6>2, <7>2
          <5>5. DOMAIN (found \o chunk) = 1 .. s + c
            BY <5>3
          <5> QED
            BY <5>2, <5>3, <5>4, <5>5
        <4>2. CASE ~(answer.code = "OK" /\ start = Len(found))
          BY <1>1, <2>6, <4>2 DEF EnumerationInv, EnumerationComplete
        <4> QED
          BY <4>1, <4>2
      <3> QED
        BY <1>1, <2>3, <2>6, <3>1, <3>2, <3>4 DEF EnumerationInv, EnumerationComplete
    <2> QED
      BY <2>7, <2>8
  <1>3. CASE Next /\ ~AskRpvs
    <2>1. UNCHANGED device /\ found' \in {found, <<>>} /\ exchange'.kind # "Rpvs"
      BY <1>3, NoEnumeration
    <2>2. CASE found' = found
      BY <1>1, <2>1, <2>2 DEF EnumerationInv, EnumerationComplete
    <2>3. CASE found' = <<>>
      <3>1. found' \in Seq(Published) /\ Len(found') <= Len(device.rpvs) /\ DOMAIN found' = {}
        BY <1>1, <2>3
      <3> QED
        BY <1>1, <2>1, <3>1 DEF EnumerationInv, EnumerationComplete
    <2> QED
      BY <2>1, <2>2, <2>3
  <1>4. CASE UNCHANGED vars
    BY <1>4 DEF vars, EnumerationInv, EnumerationComplete
  <1> QED
    BY <1>2, <1>3, <1>4

\* EnumerationComplete: a client that asks getRpvDefinition for chunk after chunk holds the
\* first published values in order, and no chunk that exists and fits is refused, whatever
\* the number of values and the size of the transmit buffer.
THEOREM EnumerationIsComplete == Spec => []EnumerationComplete
  <1>1. EnumerationInv => EnumerationComplete
    BY DEF EnumerationInv
  <1> QED
    BY <1>1, EnumerationInit, EnumerationStep, PTL DEF Spec

-----------------------------------------------------------------------------
(* Fields of an answer *)

Holds8(s, k, v) == k \in 1 .. Len(s) /\ s[k] = v
Holds16(s, k, v) == k \in Nat \ {0} /\ k + 1 <= Len(s) /\ Read16(s, k) = v
Holds32(s, k, v) == k \in Nat \ {0} /\ k + 3 <= Len(s) /\ 65536 * Read16(s, k) + Read16(s, k + 2) = v

\* What follows leaves the fields that are there.
LEMMA Extended ==
  ASSUME NEW s \in Seq(Byte), NEW u \in Seq(Byte), NEW t, t = s \o u
  PROVE  /\ t \in Seq(Byte) /\ Len(t) = Len(s) + Len(u)
         /\ \A k, v : Holds8(s, k, v) => Holds8(t, k, v)
         /\ \A k, v : Holds16(s, k, v) => Holds16(t, k, v)
         /\ \A k, v : Holds32(s, k, v) => Holds32(t, k, v)
  <1>1. /\ t \in Seq(Byte) /\ Len(t) = Len(s) + Len(u)
        /\ \A i \in 1 .. Len(s) : t[i] = s[i]
    BY ConcatAt
  <1>2. Len(s) <= Len(t)
    BY <1>1
  <1>3. ASSUME NEW k, NEW v, Holds8(s, k, v) PROVE Holds8(t, k, v)
    BY <1>1, <1>2, <1>3 DEF Holds8
  <1>4. ASSUME NEW k \in Nat \ {0}, k + 1 <= Len(s) PROVE Read16(t, k) = Read16(s, k)
    <2>1. k \in 1 .. Len(s) /\ k + 1 \in 1 .. Len(s)
      BY <1>4
    <2> QED
      BY <1>1, <2>1 DEF Read16
  <1>5. ASSUME NEW k, NEW v, Holds16(s, k, v) PROVE Holds16(t, k, v)
    <2>1. k \in Nat \ {0} /\ k + 1 <= Len(s) /\ k + 1 <= Len(t)
      BY <1>2, <1>5 DEF Holds16
    <2> QED
      BY <1>4, <1>5, <2>1 DEF Holds16
  <1>6. ASSUME NEW k, NEW v, Holds32(s, k, v) PROVE Holds32(t, k, v)
    <2>1. /\ k \in Nat \ {0} /\ k + 2 \in Nat \ {0} /\ k + 1 <= Len(s) /\ (k + 2) + 1 <= Len(s) /\ k + 3 <= Len(t)
      BY <1>2, <1>6 DEF Holds32
    <2>2. Read16(t, k) = Read16(s, k) /\ Read16(t, k + 2) = Read16(s, k + 2)
      BY <1>4, <2>1
    <2> QED
      BY <1>6, <2>1, <2>2 DEF Holds32
  <1> QED
    BY <1>1, <1>3, <1>5, <1>6

LEMMA Appended8 ==
  ASSUME NEW s \in Seq(Byte), NEW v \in Byte, NEW t, t = s \o <<v>>, NEW k, k = Len(s) + 1
  PROVE  t \in Seq(Byte) /\ Len(t) = Len(s) + 1 /\ Holds8(t, k, v)
  <1>1. PICK u \in Seq(Byte) : u = <<v>> /\ Len(u) = 1 /\ u[1] = v
    BY OneByte
  <1>2. t \in Seq(Byte) /\ Len(t) = Len(s) + 1
    BY <1>1, ConcatBytes
  <1>3. t[Len(s) + 1] = v /\ k \in 1 .. Len(t)
    <2>1. 1 \in 1 .. Len(u)
      BY <1>1
    <2>2. (s \o u)[Len(s) + 1] = u[1]
      BY Zenon, <1>1, <2>1, ConcatAt
    <2> QED
      BY <1>1, <1>2, <2>2
  <1> QED
    BY <1>2, <1>3 DEF Holds8

LEMMA Appended16 ==
  ASSUME NEW s \in Seq(Byte), NEW v \in Word16, NEW t, t = s \o Encode(v, 2), NEW k, k = Len(s) + 1
  PROVE  t \in Seq(Byte) /\ Len(t) = Len(s) + 2 /\ Holds16(t, k, v)
  <1>1. PICK u \in Seq(Byte) : u = Encode(v, 2) /\ Len(u) = 2 /\ 256 * u[1] + u[2] = v
    BY EncodeWord16
  <1>2. t \in Seq(Byte) /\ Len(t) = Len(s) + 2
    BY ZenonT(60), <1>1, ConcatBytes
  <1>3. 1 \in 1 .. Len(u) /\ 2 \in 1 .. Len(u)
    BY <1>1
  <1>4. (s \o u)[Len(s) + 1] = u[1] /\ (s \o u)[Len(s) + 2] = u[2]
    <2>1. \A i \in 1 .. Len(u) : (s \o u)[Len(s) + i] = u[i]
      BY Zenon, <1>1, ConcatAt
    <2> QED
      BY Zenon, <1>3, <2>1
  <1>5. k \in Nat \ {0} /\ k + 1 <= Len(t) /\ k + 1 = Len(s) + 2
    BY <1>2
  <1>6. Read16(t, k) = 256 * u[1] + u[2]
    BY <1>1, <1>4, <1>5 DEF Read16
  <1> QED
    BY <1>1, <1>2, <1>5, <1>6 DEF Holds16

LEMMA Alone16 ==
  ASSUME NEW v \in Word16, NEW t, t = Encode(v, 2)
  PROVE  t \in Seq(Byte) /\ Len(t) = 2 /\ Holds16(t, 1, v)
  <1>1. t \in Seq(Byte) /\ Len(t) = 2 /\ 256 * t[1] + t[2] = v
    BY EncodeWord16
  <1>2. 1 + 1 = 2 /\ 1 \in Nat \ {0} /\ 1 + 1 <= 2
    OBVIOUS
  <1> QED
    BY <1>1, <1>2 DEF Holds16, Read16

LEMMA Alone32 ==
  ASSUME NEW v \in Word32, NEW t, t = Encode(v, 4)
  PROVE  t \in Seq(Byte) /\ Len(t) = 4 /\ Holds32(t, 1, v)
  <1>1. t \in Seq(Byte) /\ Len(t) = 4 /\ 65536 * (256 * t[1] + t[2]) + (256 * t[3] + t[4]) = v
    BY EncodeWord32
  <1>2. 1 + 1 = 2 /\ 1 \in Nat \ {0} /\ 1 + 3 <= 4 /\ 1 + 2 = 3 /\ 3 + 1 = 4
    OBVIOUS
  <1> QED
    BY <1>1, <1>2 DEF Holds32, Read16

LEMMA Appended32 ==
  ASSUME NEW s \in Seq(Byte), NEW v \in Word32, NEW t, t = s \o Encode(v, 4), NEW k, k = Len(s) + 1
  PROVE  t \in Seq(Byte) /\ Len(t) = Len(s) + 4 /\ Holds32(t, k, v)
  <1>1. PICK u \in Seq(Byte) : u = Encode(v, 4) /\ Len(u) = 4 /\ Holds32(u, 1, v)
    BY Alone32
  <1>7. u \in Seq(Byte) /\ u = Encode(v, 4) /\ Len(u) = 4
    BY <1>1
  <1>2. t \in Seq(Byte) /\ Len(t) = Len(s) + 4
    BY ZenonT(60), <1>7, ConcatBytes
  <1>3. 1 \in 1 .. Len(u) /\ 2 \in 1 .. Len(u) /\ 3 \in 1 .. Len(u) /\ 4 \in 1 .. Len(u)
    <2>1. PICK n \in Nat : n = Len(u) /\ n = 4
      BY <1>7
    <2>2. 1 \in 1 .. n /\ 2 \in 1 .. n /\ 3 \in 1 .. n /\ 4 \in 1 .. n
      BY <2>1
    <2> QED
      BY <2>1, <2>2
  <1>4. /\ (s \o u)[Len(s) + 1] = u[1] /\ (s \o u)[Len(s) + 2] = u[2]
        /\ (s \o u)[Len(s) + 3] = u[3] /\ (s \o u)[Len(s) + 4] = u[4]
    BY <1>3, ConcatAt
  <1>5. /\ k \in Nat \ {0} /\ k + 3 <= Len(t) /\ k + 1 = Len(s) + 2 /\ k + 2 = Len(s) + 3
        /\ (k + 2) + 1 = Len(s) + 4
    BY <1>2
  <1>6. Read16(t, k) = Read16(u, 1) /\ Read16(t, k + 2) = Read16(u, 1 + 2)
    <2>1. 1 + 1 = 2 /\ 1 + 2 = 3 /\ 3 + 1 = 4
      OBVIOUS
    <2> QED
      BY <1>1, <1>4, <1>5, <2>1 DEF Read16
  <1> QED
    BY <1>1, <1>2, <1>5, <1>6 DEF Holds32

\* What comes before, and what follows.
LEMMA Parts ==
  ASSUME NEW s \in Seq(Byte), NEW u \in Seq(Byte), NEW t, t = s \o u
  PROVE  SubSeq(t, 1, Len(s)) = s /\ SubSeq(t, Len(s) + 1, Len(t)) = u
  <1>1. PICK n \in Nat, m \in Nat : n = Len(s) /\ m = Len(t) /\ m = n + Len(u)
    OBVIOUS
  <1>0. PICK q \in Seq(Byte) : q = t
    BY ConcatBytes
  <1>2. /\ t \in Seq(Byte)
        /\ \A i \in 1 .. Len(s) : t[i] = s[i]
        /\ \A i \in 1 .. Len(u) : t[Len(s) + i] = u[i]
    BY ConcatAt
  <1>3. SubSeq(t, 1, n) = s
    <2>1. PICK z \in Nat : z <= n /\ n <= Len(t) /\ n - z = n /\ z + 1 = 1 /\ \A i \in 1 .. n : z + i = i
      <3>1. 0 <= n /\ n <= Len(t) /\ n - 0 = n /\ 0 + 1 = 1 /\ \A i \in 1 .. n : 0 + i = i
        BY <1>1
      <3> QED
        BY <3>1
    <2>2. /\ Between(t, z, n) \in Seq(Byte) /\ Len(Between(t, z, n)) = n - z
          /\ \A i \in 1 .. n - z : Between(t, z, n)[i] = t[z + i]
      <3>1. /\ Between(q, z, n) \in Seq(Byte) /\ Len(Between(q, z, n)) = n - z
            /\ \A i \in 1 .. n - z : Between(q, z, n)[i] = q[z + i]
        <4>1. q \in Seq(Byte) /\ n \in Nat /\ n <= Len(q) /\ z \in Nat /\ z <= n
          BY <1>0, <1>1, <2>1
        <4> QED
          BY Zenon, <4>1, BetweenIs
      <3> QED
        BY Zenon, <1>0, <3>1
    <2>3. Between(t, z, n) \in Seq(Byte) /\ Len(Between(t, z, n)) = n /\ \A i \in 1 .. n : Between(t, z, n)[i] = s[i]
      BY <1>1, <1>2, <2>1, <2>2
    <2>4. Between(t, z, n) = s
      <3> DEFINE w == Between(t, z, n)
      <3> HIDE DEF w
      <3>1. w \in Seq(Byte) /\ Len(w) = n /\ \A i \in 1 .. n : w[i] = s[i]
        BY <2>3 DEF w
      <3>2. w = s
        BY SMTT(60), <1>1, <3>1
      <3> QED
        BY <3>2 DEF w
    <2> QED
      BY <2>1, <2>4 DEF Between
  <1>4. SubSeq(t, n + 1, m) = u
    <2>1. n <= m /\ m <= Len(t) /\ m - n = Len(u)
      BY <1>1
    <2>2. /\ Between(t, n, m) \in Seq(Byte) /\ Len(Between(t, n, m)) = m - n
          /\ \A i \in 1 .. m - n : Between(t, n, m)[i] = t[n + i]
      <3>1. /\ Between(q, n, m) \in Seq(Byte) /\ Len(Between(q, n, m)) = m - n
            /\ \A i \in 1 .. m - n : Between(q, n, m)[i] = q[n + i]
        <4>1. q \in Seq(Byte) /\ n \in Nat /\ m \in Nat /\ n <= Len(q) /\ m <= Len(q)
          BY <1>0, <1>1, <2>1
        <4> QED
          BY Zenon, <2>1, <4>1, BetweenIs
      <3> QED
        BY Zenon, <1>0, <3>1
    <2>3. Between(t, n, m) = u
      <3> DEFINE w == Between(t, n, m)
      <3> HIDE DEF w
      <3>1. w \in Seq(Byte) /\ Len(w) = Len(u) /\ \A i \in 1 .. Len(u) : w[i] = u[i]
        BY <1>1, <1>2, <2>1, <2>2 DEF w
      <3>2. w = u
        BY SMTT(60), <3>1
      <3> QED
        BY <3>2 DEF w
    <2> QED
      BY <2>3 DEF Between
  <1> QED
    BY <1>1, <1>3, <1>4

-----------------------------------------------------------------------------
(* Where an answer comes from *)

Answers(kind, answer) == exchange.kind = kind /\ exchange.answer = answer

\* The last answer is that of the handler of its kind, to the request that was sent.
AnswerOfHandler ==
    \/ exchange.kind = "None" /\ exchange.answer.code # "OK" /\ exchange.answer.data = <<>>
    \/ exchange.kind = "Configure" /\ exchange.answer.data = <<>>
    \/ exchange.kind = "Disconnect" /\ exchange.answer.data = <<>>
    \/ Answers("Discover", Discover(device, exchange.data))
    \/ exchange.kind = "Connect" /\ \E id, connected :
           /\ exchange.answer = Connect(device, exchange.data, connected, id)
           /\ exchange.answer.code = "OK" => id = session
    \/ \E c : Answers("Heartbeat", Heartbeat(device, exchange.data, session, c))
    \/ Answers("ProtocolVersion", GetProtocolVersion(device))
    \/ Answers("SoftwareId", GetSoftwareId(device))
    \/ Answers("Features", GetSupportedFeatures(device))
    \/ Answers("RegionCount", GetSpecialMemoryRegionCount(device))
    \/ Answers("RpvCount", GetRpvCount(device))
    \/ Answers("LoopCount", GetLoopCount(device))
    \/ Answers("Params", GetParams(device))
    \/ Answers("UserCommand", UserCommand(device))
    \/ Answers("Setup", GetSetup(device, MaxSignal))
    \/ \E s \in Statuses : Answers("Status", GetStatus(device, s))
    \/ \E a \in Acquisitions : Answers("Metadata", GetAcquisitionMetadata(device, a))
    \/ Answers("Region", GetSpecialMemoryLocation(device, exchange.data))
    \/ exchange.kind = "Loop" /\ exchange.answer \in GetLoopDefinition(device, exchange.data)
    \/ Answers("Rpvs", GetRpvDefinition(device, exchange.data))

AnswerInv ==
    /\ device \in Devices
    /\ opened \in Nat /\ opened <= MaxSessions /\ session \in Nat /\ session <= opened
    /\ exchange.data \in Seq(Byte)
    /\ AnswerOfHandler

LEMMA SessionsAre == MaxSessions \in Nat /\ MaxSessions \in Word32
  BY IdentityAssumption DEF Word32

LEMMA MagicsAre ==
  /\ DiscoverMagic \in Seq(Byte) /\ Len(DiscoverMagic) = 4
  /\ ConnectMagic \in Seq(Byte) /\ Len(ConnectMagic) = 4
  <1>1. /\ 126 \in Byte /\ 24 \in Byte /\ 252 \in Byte /\ 104 \in Byte
        /\ 130 \in Byte /\ 144 \in Byte /\ 34 \in Byte /\ 102 \in Byte
    BY ByteIs
  <1> QED
    BY <1>1 DEF DiscoverMagic, ConnectMagic

\* No answer at first.
LEMMA AnswerInit == Init => AnswerInv
  <1> SUFFICES ASSUME Init PROVE AnswerInv
    OBVIOUS
  <1>1. /\ device \in Devices /\ session = 0 /\ opened = 0
        /\ exchange = [kind |-> "None", data |-> <<>>, answer |-> [code |-> "None", data |-> <<>>]]
    BY DEF Init, NoExchange, Refused, Answer
  <1>2. AnswerOfHandler /\ exchange.data \in Seq(Byte)
    BY <1>1 DEF AnswerOfHandler
  <1> QED
    BY <1>1, <1>2, SessionsAre DEF AnswerInv

LEMMA EmptyIs == <<>> \in Seq(Byte)
  OBVIOUS

\* The bytes of a request.
LEMMA IdentifiedIs ==
  ASSUME NEW id \in Nat, NEW extra \in {<<>>, << 0 >>}
  PROVE  Encode(id, 4) \o extra \in Seq(Byte)
  <1>1. extra \in Seq(Byte)
    BY EmptyIs, OneByte, SmallBytes
  <1> QED
    BY <1>1, ConcatBytes, FourBytes

LEMMA ChallengedIs ==
  ASSUME NEW id \in Nat, NEW c \in Nat, NEW extra \in {<<>>, << 0 >>}
  PROVE  Encode(id, 4) \o Encode(c, 2) \o extra \in Seq(Byte)
  <1>1. extra \in Seq(Byte)
    BY EmptyIs, OneByte, SmallBytes
  <1>2. Encode(id, 4) \in Seq(Byte) /\ Encode(c, 2) \in Seq(Byte)
    BY FourBytes, TwoBytes
  <1>3. Encode(id, 4) \o Encode(c, 2) \in Seq(Byte)
    BY <1>2, ConcatBytes
  <1> QED
    BY <1>1, <1>3, ConcatBytes

\* Requests with no data.
LEMMA AskedAbout ==
  ASSUME AnswerInv, NEW kind, NEW answer, Asks(kind, answer)
  PROVE  /\ UNCHANGED <<device, session, opened>> /\ exchange'.data \in Seq(Byte)
         /\ exchange'.kind = kind /\ exchange'.answer = answer
  BY EmptyIs DEF Asks, Exchanged, Unchanged

\* The requests of CommControl.
LEMMA AnswerControl ==
  ASSUME AnswerInv, AskDiscover \/ AskConnect \/ AskDisconnect \/ AskHeartbeat
  PROVE  AnswerInv'
  <1>1. /\ device \in Devices /\ opened \in Nat /\ opened <= MaxSessions
        /\ session \in Nat /\ session <= opened
    BY DEF AnswerInv
  <1>2. CASE AskDiscover
    <2>1. PICK data \in Mangled(DiscoverMagic) \union {ConnectMagic} :
              Exchanged("Discover", data, Discover(device, data)) /\ Unchanged
      BY <1>2 DEF AskDiscover
    <2>2. data \in Seq(Byte)
      BY <2>1, MagicsAre, MangledIs
    <2>3. UNCHANGED <<device, session, opened>> /\ exchange'.data = data
          /\ Answers("Discover", Discover(device, exchange.data))'
      BY <2>1 DEF Exchanged, Unchanged, Answers
    <2> QED
      BY <1>1, <2>2, <2>3 DEF AnswerInv, AnswerOfHandler
  <1>3. CASE AskConnect
    <2>1. PICK data \in Mangled(ConnectMagic) \union {DiscoverMagic} :
              LET answer == Connect(device, data, Connected, opened + 1)
              IN /\ answer.code = "OK" => opened < MaxSessions
                 /\ Exchanged("Connect", data, answer)
                 /\ IF answer.code = "OK"
                    THEN session' = opened + 1 /\ opened' = opened + 1 /\ challenge' = -1 /\ found' = <<>>
                    ELSE UNCHANGED <<session, opened, challenge, found>>
                 /\ UNCHANGED <<device, client, configures, logger, handed>>
      BY <1>3 DEF AskConnect
    <2>2. data \in Seq(Byte)
      BY <2>1, MagicsAre, MangledIs
    <2> DEFINE answer == Connect(device, data, Connected, opened + 1)
    <2>3. /\ UNCHANGED device /\ exchange'.kind = "Connect" /\ exchange'.data = data /\ exchange'.answer = answer
          /\ answer.code = "OK" => opened < MaxSessions /\ session' = opened + 1 /\ opened' = opened + 1
          /\ answer.code # "OK" => UNCHANGED <<session, opened>>
      BY <2>1 DEF Exchanged
    <2>4. \E id, connected : /\ exchange'.answer = Connect(device', exchange'.data, connected, id)
                             /\ exchange'.answer.code = "OK" => id = session'
      <3>1. /\ exchange'.answer = Connect(device', exchange'.data, Connected, opened + 1)
            /\ exchange'.answer.code = "OK" => opened + 1 = session'
        BY <2>3
      <3> QED
        BY <3>1
    <2>5. AnswerOfHandler'
      BY <2>3, <2>4 DEF AnswerOfHandler
    <2>6. opened' \in Nat /\ opened' <= MaxSessions /\ session' \in Nat /\ session' <= opened'
      <3>1. CASE answer.code = "OK"
        BY <1>1, <2>3, <3>1, SessionsAre
      <3>2. CASE answer.code # "OK"
        BY <1>1, <2>3, <3>2
      <3> QED
        BY <3>1, <3>2
    <2> QED
      BY <1>1, <2>2, <2>3, <2>5, <2>6 DEF AnswerInv
  <1>4. CASE AskDisconnect
    <2>1. PICK id \in 1 .. opened, extra \in {<<>>, <<0>>} :
              LET data == Encode(id, 4) \o extra
                  answer == Disconnect(data, session)
              IN /\ Exchanged("Disconnect", data, answer)
                 /\ session' = IF answer.code = "OK" THEN 0 ELSE session
                 /\ challenge' = IF answer.code = "OK" THEN -1 ELSE challenge
      BY <1>4 DEF AskDisconnect
    <2>2. Encode(id, 4) \o extra \in Seq(Byte)
      <3>1. id \in Nat
        BY <1>1, <2>1
      <3> QED
        BY Zenon, <2>1, <3>1, IdentifiedIs
    <2>3. /\ exchange'.kind = "Disconnect" /\ exchange'.data \in Seq(Byte) /\ exchange'.answer.data = <<>>
          /\ session' \in {0, session}
      BY <2>1, <2>2 DEF Exchanged, Disconnect, Refused, OK, Answer
    <2>4. UNCHANGED <<device, opened>>
      BY <1>4 DEF AskDisconnect
    <2>5. AnswerOfHandler'
      BY <2>3 DEF AnswerOfHandler
    <2> QED
      BY <1>1, <2>3, <2>4, <2>5 DEF AnswerInv
  <1>5. CASE AskHeartbeat
    <2>1. PICK id \in 1 .. opened, c \in Challenges, extra \in {<<>>, <<0>>} :
              LET data == Encode(id, 4) \o Encode(c, 2) \o extra
                  answer == Heartbeat(device, data, session, challenge)
              IN /\ Exchanged("Heartbeat", data, answer)
                 /\ challenge' = IF answer.code = "OK" THEN c ELSE challenge
      BY <1>5 DEF AskHeartbeat
    <2>2. Encode(id, 4) \o Encode(c, 2) \o extra \in Seq(Byte)
      <3>1. c \in Nat /\ id \in Nat
        BY <1>1, <2>1, InputsAssumption DEF Word16
      <3> QED
        BY <2>1, <3>1, ChallengedIs
    <2>3. UNCHANGED <<device, session, opened>>
      BY <1>5 DEF AskHeartbeat
    <2>4. exchange'.data \in Seq(Byte)
      BY <2>1, <2>2 DEF Exchanged
    <2>5. exchange'.kind = "Heartbeat" /\ exchange'.answer = Heartbeat(device', exchange'.data, session', challenge)
      BY <2>1, <2>3 DEF Exchanged
    <2>6. AnswerOfHandler'
      BY <2>5 DEF AnswerOfHandler, Answers
    <2> QED
      BY <1>1, <2>3, <2>4, <2>6 DEF AnswerInv
  <1> QED
    BY <1>2, <1>3, <1>4, <1>5

\* The requests that have no data.
LEMMA AnswerAbout ==
  ASSUME AnswerInv, AskAbout \/ AskStatus \/ AskMetadata
  PROVE  AnswerInv'
  <1>1. /\ device \in Devices /\ opened \in Nat /\ opened <= MaxSessions
        /\ session \in Nat /\ session <= opened
    BY DEF AnswerInv
  <1>2. PICK kind, answer : Asks(kind, answer)
    BY DEF AskAbout, AskStatus, AskMetadata
  <1>3. UNCHANGED <<device, session, opened>> /\ exchange'.data \in Seq(Byte)
    BY <1>2, AskedAbout
  <1>4. ASSUME NEW k, NEW a, Asks(k, a) PROVE exchange'.kind = k /\ exchange'.answer = a
    BY <1>4, AskedAbout
  <1>5. CASE AskAbout
    <2>1. \/ Answers("ProtocolVersion", GetProtocolVersion(device))'
          \/ Answers("SoftwareId", GetSoftwareId(device))'
          \/ Answers("Features", GetSupportedFeatures(device))'
          \/ Answers("RegionCount", GetSpecialMemoryRegionCount(device))'
          \/ Answers("RpvCount", GetRpvCount(device))'
          \/ Answers("LoopCount", GetLoopCount(device))'
          \/ Answers("Params", GetParams(device))'
          \/ Answers("UserCommand", UserCommand(device))'
          \/ Answers("Setup", GetSetup(device, MaxSignal))'
      BY <1>3, <1>4, <1>5 DEF AskAbout, Answers
    <2>2. AnswerOfHandler'
      BY <2>1 DEF AnswerOfHandler
    <2> QED
      BY <1>1, <1>3, <2>2 DEF AnswerInv
  <1>6. CASE AskStatus
    <2>1. PICK s \in Statuses : Asks("Status", GetStatus(device, s))
      BY <1>6 DEF AskStatus
    <2>2. exchange'.kind = "Status" /\ exchange'.answer = GetStatus(device', s)
      BY <1>3, <1>4, <2>1
    <2>3. AnswerOfHandler'
      BY <2>2 DEF AnswerOfHandler, Answers
    <2> QED
      BY <1>1, <1>3, <2>3 DEF AnswerInv
  <1>7. CASE AskMetadata
    <2>1. PICK a \in Acquisitions : Asks("Metadata", GetAcquisitionMetadata(device, a))
      BY <1>7 DEF AskMetadata
    <2>2. exchange'.kind = "Metadata" /\ exchange'.answer = GetAcquisitionMetadata(device', a)
      BY <1>3, <1>4, <2>1
    <2>3. AnswerOfHandler'
      BY <2>2 DEF AnswerOfHandler, Answers
    <2> QED
      BY <1>1, <1>3, <2>3 DEF AnswerInv
  <1> QED
    BY <1>5, <1>6, <1>7

\* The requests that name a region, a loop, published values, or a configuration.
LEMMA AnswerRequested ==
  ASSUME AnswerInv, EnumerationInv, AskRegion \/ AskLoop \/ AskRpvs \/ AskConfigure
  PROVE  AnswerInv'
  <1>1. /\ device \in Devices /\ opened \in Nat /\ opened <= MaxSessions
        /\ session \in Nat /\ session <= opened
    BY DEF AnswerInv
  <1>2. UNCHANGED <<device, session, opened>>
    BY DEF AskRegion, AskLoop, AskRpvs, AskConfigure, Unchanged
  <1>3. CASE AskRegion
    <2>1. PICK type \in 0 .. 2, index \in 0 .. 2 : \E data \in Mangled(<<type, index>>) :
              Exchanged("Region", data, GetSpecialMemoryLocation(device, data))
      BY <1>3 DEF AskRegion
    <2>2. PICK data \in Mangled(<<type, index>>) :
              Exchanged("Region", data, GetSpecialMemoryLocation(device, data))
      BY <2>1
    <2>3. data \in Seq(Byte)
      <3>1. type \in Byte /\ index \in Byte
        BY <2>1, SmallBytes
      <3>2. <<type, index>> \in Seq(Byte)
        BY <3>1, PairIs
      <3> QED
        BY <2>2, <3>2, MangledIs
    <2>4. exchange'.data = data /\ Answers("Region", GetSpecialMemoryLocation(device, exchange.data))'
      BY <1>2, <2>2 DEF Exchanged, Answers
    <2>5. AnswerOfHandler'
      BY <2>4 DEF AnswerOfHandler
    <2> QED
      BY <1>1, <1>2, <2>3, <2>4, <2>5 DEF AnswerInv
  <1>4. CASE AskLoop
    <2>1. PICK id \in 0 .. 2 : \E data \in Mangled(<<id>>) :
              \E answer \in GetLoopDefinition(device, data) : Exchanged("Loop", data, answer)
      BY <1>4 DEF AskLoop
    <2>2. PICK data \in Mangled(<<id>>) :
              \E answer \in GetLoopDefinition(device, data) : Exchanged("Loop", data, answer)
      BY <2>1
    <2>3. data \in Seq(Byte)
      <3>1. id \in Byte
        BY <2>1, SmallBytes
      <3>2. <<id>> \in Seq(Byte)
        BY <3>1, OneByte
      <3> QED
        BY <2>2, <3>2, MangledIs
    <2>4. exchange'.data = data /\ exchange'.kind = "Loop" /\ exchange'.answer \in GetLoopDefinition(device', exchange'.data)
      BY <1>2, <2>2 DEF Exchanged
    <2>5. AnswerOfHandler'
      BY <2>4 DEF AnswerOfHandler
    <2> QED
      BY <1>1, <1>2, <2>3, <2>4, <2>5 DEF AnswerInv
  <1>5. CASE AskRpvs
    <2>1. PICK start \in {0, Len(found), Len(device.rpvs)}, count \in 0 .. Len(device.rpvs) + 1 :
              \E data \in Mangled(Encode(start, 2) \o Encode(count, 2)) :
                  Exchanged("Rpvs", data, GetRpvDefinition(device, data))
      BY <1>5 DEF AskRpvs
    <2>2. PICK data \in Mangled(Encode(start, 2) \o Encode(count, 2)) :
              Exchanged("Rpvs", data, GetRpvDefinition(device, data))
      BY <2>1
    <2>3. data \in Seq(Byte)
      <3>1. start \in Nat /\ count \in Nat
        <4>1. Len(found) \in Nat
          BY DEF EnumerationInv
        <4>2. Len(device.rpvs) \in Nat
          <5>1. WellTyped(device)
            BY <1>1, DevicesAssumption
          <5>2. Len(device.rpvs) \in Word16
            BY <5>1 DEF WellTyped
          <5> QED
            BY <5>2 DEF Word16
        <4> QED
          BY <2>1, <4>1, <4>2
      <3>2. Encode(start, 2) \o Encode(count, 2) \in Seq(Byte)
        BY <3>1, TwoBytes, ConcatBytes
      <3> QED
        BY Zenon, <2>2, <3>2, MangledIs
    <2>4. exchange'.data = data /\ Answers("Rpvs", GetRpvDefinition(device, exchange.data))'
      BY <1>2, <2>2 DEF Exchanged, Answers
    <2>5. AnswerOfHandler'
      BY <2>4 DEF AnswerOfHandler
    <2> QED
      BY <1>1, <1>2, <2>3, <2>4, <2>5 DEF AnswerInv
  <1>6. CASE AskConfigure
    <2>1. PICK r \in Configurations : \E data \in Mangled(EncodeConfigure(r.loop_id, r.config_id, r.config)) :
              exchange'.kind = "Configure" /\ exchange'.data = data /\ exchange'.answer.data = <<>>
      BY <1>6 DEF AskConfigure, Exchanged, Refused, Answer
    <2>2. PICK data \in Mangled(EncodeConfigure(r.loop_id, r.config_id, r.config)) :
              exchange'.kind = "Configure" /\ exchange'.data = data /\ exchange'.answer.data = <<>>
      BY <2>1
    <2>3. data \in Seq(Byte)
      <3>1. EncodeConfigure(r.loop_id, r.config_id, r.config) \in Seq(Byte)
        BY EncodeConfigureIs
      <3> QED
        BY Zenon, <2>2, <3>1, MangledIs
    <2>4. AnswerOfHandler'
      BY <2>2 DEF AnswerOfHandler
    <2> QED
      BY <1>1, <1>2, <2>2, <2>3, <2>4 DEF AnswerInv
  <1> QED
    BY <1>3, <1>4, <1>5, <1>6

\* After any step the last answer is that of its handler.
LEMMA AnswerStep == AnswerInv /\ EnumerationInv /\ [Next]_vars => AnswerInv'
  <1> SUFFICES ASSUME AnswerInv, EnumerationInv, [Next]_vars PROVE AnswerInv'
    OBVIOUS
  <1>1. CASE UNCHANGED vars
    <2>1. UNCHANGED <<device, session, opened, exchange>>
      BY <1>1 DEF vars
    <2> QED
      BY <2>1 DEF AnswerInv, AnswerOfHandler, Answers
  <1> QED
    BY <1>1, AnswerControl, AnswerAbout, AnswerRequested DEF Next

-----------------------------------------------------------------------------
(* What the answers tell *)

\* The types of the configuration given to init().
LEMMA DeviceIs ==
  ASSUME NEW d \in Devices
  PROVE  /\ WellTyped(d)
         /\ d.tx_buffer_size \in Nat /\ MinTxBuffer \in Nat /\ MinTxBuffer <= d.tx_buffer_size
         /\ d.rx_buffer_size \in Word16 /\ d.tx_buffer_size \in Word16
         /\ d.max_bitrate \in Word32 /\ d.datalogging_buffer \in Word32
         /\ d.memory_write \in BOOLEAN /\ d.read_published_values \in BOOLEAN
         /\ d.readonly \in Seq(Ranges) /\ d.forbidden \in Seq(Ranges)
         /\ Len(d.readonly) \in Byte /\ Len(d.forbidden) \in Byte /\ Len(d.loops) \in Byte
         /\ Len(d.rpvs) \in Word16
         /\ d.loops \in Seq([name : Seq(Byte), timestep : Word32, datalogging : BOOLEAN])
         /\ d.display_name \in Seq(Byte) /\ d.user_command \in Seq(Seq(Byte))
  <1>1. WellTyped(d) /\ ValidDevice(d)
    BY DevicesAssumption
  <1>2. d.tx_buffer_size \in Word16 /\ MinTxBuffer \in Byte /\ MinTxBuffer <= d.tx_buffer_size
    BY <1>1, IdentityAssumption DEF WellTyped, ValidDevice
  <1>3. d.tx_buffer_size \in Nat /\ MinTxBuffer \in Nat
    BY <1>2, ByteIs DEF Word16
  <1> QED
    BY Zenon, <1>1, <1>2, <1>3 DEF WellTyped

Tells(a, d, bytes) ==
    IF a.code = "OK" THEN a.data = bytes /\ Len(bytes) <= d.tx_buffer_size ELSE a.data = <<>>

\* An answer that is sent fits the transmit buffer.
LEMMA FittedIs ==
  ASSUME NEW d \in Devices, NEW bytes \in Seq(Byte)
  PROVE  Tells(Fitted(d, bytes), d, bytes) /\ Tells(StrictlyFitted(d, bytes), d, bytes)
  <1>1. d.tx_buffer_size \in Nat /\ MinTxBuffer \in Nat /\ MinTxBuffer <= d.tx_buffer_size /\ Len(bytes) \in Nat
    BY DeviceIs
  <1>2. Tells(OK(bytes), d, bytes) <=> Len(bytes) <= d.tx_buffer_size
    BY DEF Tells, OK, Answer
  <1>3. Tells(Refused("Overflow"), d, bytes)
    BY DEF Tells, Refused, Answer
  <1> QED
    BY <1>1, <1>2, <1>3 DEF Fitted, StrictlyFitted

LEMMA Delivered ==
  ASSUME AnswerInv, NEW bytes, Tells(exchange.answer, device, bytes),
         exchange.answer.code = "OK" /\ Bytes = bytes => Told
  PROVE  AnswersTellDevice
  BY DEF Tells, AnswersTellDevice, Bytes

LEMMA RefusedIs ==
  ASSUME NEW code, code # "OK", NEW d, NEW bytes
  PROVE  Tells(Refused(code), d, bytes)
  BY DEF Tells, Refused, Answer

\* Kinds of answers with no field of the device in them.
LEMMA PlainAnswers ==
  ASSUME AnswerInv,
         \/ exchange.kind = "None" /\ exchange.answer.code # "OK" /\ exchange.answer.data = <<>>
         \/ exchange.kind = "Configure" /\ exchange.answer.data = <<>>
         \/ exchange.kind = "Disconnect" /\ exchange.answer.data = <<>>
         \/ Answers("ProtocolVersion", GetProtocolVersion(device))
         \/ Answers("SoftwareId", GetSoftwareId(device))
         \/ Answers("UserCommand", UserCommand(device))
         \/ Answers("Rpvs", GetRpvDefinition(device, exchange.data))
  PROVE  AnswersTellDevice
  <1>1. device \in Devices /\ exchange.data \in Seq(Byte)
    BY DEF AnswerInv
  <1>2. exchange.kind \in {"None", "Configure", "Disconnect", "ProtocolVersion", "SoftwareId", "UserCommand", "Rpvs"}
        => Told
    BY DEF Told
  <1>3. CASE exchange.kind \in {"None", "Configure", "Disconnect"}
    <2>1. Bytes = <<>>
      BY <1>3 DEF Bytes, Answers
    <2>2. Len(Bytes) <= device.tx_buffer_size
      BY <1>1, <2>1, DeviceIs
    <2> QED
      BY <1>2, <1>3, <2>1, <2>2 DEF AnswersTellDevice
  <1>4. CASE Answers("ProtocolVersion", GetProtocolVersion(device))
    <2>1. Tells(exchange.answer, device, ProtocolVersion)
      BY <1>1, <1>4, IdentityAssumption, FittedIs DEF GetProtocolVersion, Answers
    <2> QED
      BY <1>2, <1>4, <2>1, Delivered DEF Answers
  <1>5. CASE Answers("SoftwareId", GetSoftwareId(device))
    <2>1. Tells(exchange.answer, device, SoftwareId)
      BY <1>1, <1>5, IdentityAssumption, FittedIs DEF GetSoftwareId, Answers
    <2> QED
      BY <1>2, <1>5, <2>1, Delivered DEF Answers
  <1>6. CASE Answers("UserCommand", UserCommand(device))
    <2>1. CASE ~UserCommandSet(device)
      <3>1. Tells(exchange.answer, device, <<>>)
        BY <1>6, <2>1, RefusedIs DEF UserCommand, Answers
      <3> QED
        BY <1>2, <1>6, <3>1, Delivered DEF Answers
    <2>2. CASE UserCommandSet(device)
      <3>1. device.user_command[1] \in Seq(Byte)
        <4>1. device.user_command \in Seq(Seq(Byte)) /\ device.user_command # <<>>
          BY <1>1, <2>2, DeviceIs DEF UserCommandSet
        <4>2. PICK q \in Seq(Seq(Byte)) : q = device.user_command /\ q # <<>>
          BY <4>1
        <4>3. 1 \in 1 .. Len(q)
          BY <4>2
        <4> QED
          BY <4>2, <4>3
      <3>2. Tells(exchange.answer, device, device.user_command[1])
        BY <1>1, <1>6, <2>2, <3>1, FittedIs DEF UserCommand, Answers
      <3> QED
        BY <1>2, <1>6, <3>2, Delivered DEF Answers
    <2> QED
      BY <2>1, <2>2
  <1>7. CASE Answers("Rpvs", GetRpvDefinition(device, exchange.data))
    <2>1. CASE Len(exchange.data) # 4
      <3>1. exchange.answer = Refused("InvalidRequest")
        BY <1>7, <2>1 DEF GetRpvDefinition, Answers
      <3>2. Tells(exchange.answer, device, <<>>)
        BY <3>1, RefusedIs
      <3> QED
        BY <1>2, <1>7, <3>2, Delivered DEF Answers
    <2>2. CASE Len(exchange.data) = 4
      <3>1. PICK s, c : s = Read16(exchange.data, 1) /\ c = Read16(exchange.data, 3)
        OBVIOUS
      <3>2. /\ (s < Len(device.rpvs) /\ s + c <= Len(device.rpvs) /\ 3 * c <= device.tx_buffer_size)
                  = (exchange.answer.code = "OK")
            /\ exchange.answer.code # "OK" => exchange.answer.data = <<>>
            /\ exchange.answer.code = "OK" => Len(exchange.answer.data) = 3 * c
        <4>1. PICK data \in Seq(Byte) : data = exchange.data
          BY <1>1
        <4>3. PICK answer : answer = exchange.answer
          OBVIOUS
        <4>2. answer = GetRpvDefinition(device, data)
          BY <1>7, <4>1, <4>3 DEF Answers
        <4>4. /\ (s < Len(device.rpvs) /\ s + c <= Len(device.rpvs) /\ 3 * c <= device.tx_buffer_size)
                    = (answer.code = "OK")
              /\ answer.code # "OK" => answer.data = <<>>
              /\ answer.code = "OK" => Len(answer.data) = 3 * c
          BY <1>1, <2>2, <3>1, <4>1, <4>2, GetRpvDefinitionIs
        <4> QED
          BY Zenon, <4>3, <4>4
      <3> QED
        BY <1>2, <1>7, <3>2 DEF AnswersTellDevice, Bytes, Answers
    <2> QED
      BY <2>1, <2>2
  <1> QED
    BY <1>3, <1>4, <1>5, <1>6, <1>7

LEMMA SmallRemainder == ASSUME NEW n \in Nat, n < 256 PROVE n % 256 = n
  OBVIOUS

\* What a client reads where a field is.
LEMMA Reading ==
  ASSUME NEW k, NEW v
  PROVE  /\ Holds8(Bytes, k, v) => U8(k) = v
         /\ Holds16(Bytes, k, v) => U16(k) = v
         /\ Holds32(Bytes, k, v) => U32(k) = v
  BY DEF Holds8, Holds16, Holds32, U8, U16, U32

\* The counts of the regions, the published values and the loops.
LEMMA CountAnswers ==
  ASSUME AnswerInv,
         \/ Answers("RegionCount", GetSpecialMemoryRegionCount(device))
         \/ Answers("RpvCount", GetRpvCount(device))
         \/ Answers("LoopCount", GetLoopCount(device))
  PROVE  AnswersTellDevice
  <1>1. device \in Devices
    BY DEF AnswerInv
  <1>2. CASE Answers("RegionCount", GetSpecialMemoryRegionCount(device))
    <2>1. Len(device.readonly) \in Byte /\ Len(device.forbidden) \in Byte
      BY <1>1, DeviceIs
    <2>2. Len(device.readonly) % 256 = Len(device.readonly) /\ Len(device.forbidden) % 256 = Len(device.forbidden)
      <3>1. PICK n \in Nat, m \in Nat : n = Len(device.readonly) /\ m = Len(device.forbidden) /\ n < 256 /\ m < 256
        BY <2>1, ByteIs
      <3>2. n % 256 = n /\ m % 256 = m
        BY Zenon, <3>1, SmallRemainder
      <3> QED
        BY <3>1, <3>2
    <2> DEFINE bytes == <<Len(device.readonly), Len(device.forbidden)>>
    <2>3. bytes \in Seq(Byte)
      BY <2>1, PairIs
    <2>4. exchange.answer = Fitted(device, bytes)
      BY <1>2, <2>2 DEF GetSpecialMemoryRegionCount, Answers
    <2>5. exchange.answer.code = "OK" /\ Bytes = bytes => Told
      BY <1>2 DEF Told, Answers
    <2> HIDE DEF bytes
    <2> QED
      BY <1>1, <2>3, <2>4, <2>5, FittedIs, Delivered
  <1>3. CASE Answers("RpvCount", GetRpvCount(device))
    <2> DEFINE bytes == Encode(Len(device.rpvs), 2)
    <2>1. bytes \in Seq(Byte) /\ Holds16(bytes, 1, Len(device.rpvs))
      BY <1>1, DeviceIs, Alone16
    <2>2. exchange.answer = Fitted(device, bytes)
      BY <1>3 DEF GetRpvCount, Answers
    <2> HIDE DEF bytes
    <2>3. exchange.answer.code = "OK" /\ Bytes = bytes => Told
      BY <1>3, <2>1, Reading DEF Told, Answers
    <2> QED
      BY <1>1, <2>1, <2>2, <2>3, FittedIs, Delivered
  <1>4. CASE Answers("LoopCount", GetLoopCount(device))
    <2> DEFINE bytes == <<Len(device.loops)>>
    <2>1. bytes \in Seq(Byte)
      BY <1>1, DeviceIs, OneByte
    <2>2. exchange.answer = Fitted(device, bytes)
      BY <1>4 DEF GetLoopCount, Answers
    <2>3. exchange.answer.code = "OK" /\ Bytes = bytes => Told
      BY <1>4 DEF Told, Answers
    <2> HIDE DEF bytes
    <2> QED
      BY <1>1, <2>1, <2>2, <2>3, FittedIs, Delivered
  <1> QED
    BY <1>2, <1>3, <1>4

\* The bits of the byte of features are told apart.
LEMMA Flags ==
  ASSUME NEW a \in BOOLEAN, NEW b \in BOOLEAN, NEW c \in BOOLEAN, NEW d \in BOOLEAN,
         NEW v, v = Flag(a, 128) + Flag(b, 64) + Flag(c, 32) + Flag(d, 16)
  PROVE  /\ v \in Byte
         /\ (v \div 128 = 1) = a /\ ((v \div 64) % 2 = 1) = b
         /\ ((v \div 32) % 2 = 1) = c /\ ((v \div 16) % 2 = 1) = d
  <1>1. PICK p \in {0, 1}, q \in {0, 1}, r \in {0, 1}, s \in {0, 1} :
            /\ (p = 1) = a /\ (q = 1) = b /\ (r = 1) = c /\ (s = 1) = d
            /\ v = 128 * p + 64 * q + 32 * r + 16 * s
    <2>1. ASSUME NEW x \in BOOLEAN, NEW w \in {16, 32, 64, 128}
          PROVE  \E n \in {0, 1} : (n = 1) = x /\ Flag(x, w) = w * n
      BY DEF Flag
    <2>2. PICK p \in {0, 1} : (p = 1) = a /\ Flag(a, 128) = 128 * p
      BY <2>1
    <2>3. PICK q \in {0, 1} : (q = 1) = b /\ Flag(b, 64) = 64 * q
      BY <2>1
    <2>4. PICK r \in {0, 1} : (r = 1) = c /\ Flag(c, 32) = 32 * r
      BY <2>1
    <2>5. PICK s \in {0, 1} : (s = 1) = d /\ Flag(d, 16) = 16 * s
      BY <2>1
    <2> QED
      BY <2>2, <2>3, <2>4, <2>5
  <1>2. v \in Nat /\ v < 256
    BY <1>1
  <1>3. (v \div 128 = 1) = (p = 1) /\ ((v \div 64) % 2 = 1) = (q = 1)
    BY <1>1
  <1>4. ((v \div 32) % 2 = 1) = (r = 1) /\ ((v \div 16) % 2 = 1) = (s = 1)
    BY <1>1
  <1> QED
    BY <1>1, <1>2, <1>3, <1>4, ByteIs

\* The flags of the supported features.
LEMMA FeaturesAnswer ==
  ASSUME AnswerInv, Answers("Features", GetSupportedFeatures(device))
  PROVE  AnswersTellDevice
  <1> DEFINE write == device.memory_write
             log == DataloggingConfigured(device) /\ HasLoopWithDatalogging(device)
             user == UserCommandSet(device)
             v == Flag(write, 128) + Flag(log, 64) + Flag(user, 32) + Flag(Supports64Bits, 16)
  <1>1. device \in Devices /\ WellTyped(device) /\ write \in BOOLEAN
    BY DeviceIs DEF AnswerInv
  <1>2. log \in BOOLEAN /\ user \in BOOLEAN /\ Supports64Bits \in BOOLEAN
    <2>1. log \in BOOLEAN
      BY Zenon DEF DataloggingConfigured, HasLoopWithDatalogging
    <2>2. user \in BOOLEAN
      BY Zenon DEF UserCommandSet
    <2> QED
      BY <2>1, <2>2, AddressAssumption
  <1>3. user = (device.user_command # <<>>)
    BY DEF UserCommandSet
  <1>4. log = (device.datalogging_buffer > 0 /\ \E loop \in ToSet(device.loops) : loop.datalogging)
    BY DEF DataloggingConfigured, HasLoopWithDatalogging, ToSet
  <1>5. exchange.answer = Fitted(device, <<v>>)
    BY DEF GetSupportedFeatures, EncodeFeatures, Answers
  <1> HIDE DEF write, log, user, v
  <1>6. /\ v \in Byte
        /\ (v \div 128 = 1) = write /\ ((v \div 64) % 2 = 1) = log
        /\ ((v \div 32) % 2 = 1) = user /\ ((v \div 16) % 2 = 1) = Supports64Bits
    BY <1>1, <1>2, Flags DEF v
  <1>7. ASSUME exchange.answer.code = "OK", Bytes = <<v>> PROVE Told
    <2>1. U8(1) = v
      BY <1>7 DEF U8
    <2>2. FeaturesTold
      BY Zenon, <1>3, <1>4, <1>6, <2>1 DEF FeaturesTold, write
    <2> QED
      BY <2>2 DEF Told, Answers
  <1>8. Tells(exchange.answer, device, <<v>>)
    BY <1>1, <1>5, <1>6, OneByte, FittedIs
  <1> QED
    BY <1>7, <1>8, Delivered

\* The parameters of the communication.
LEMMA ParamsAnswer ==
  ASSUME AnswerInv, Answers("Params", GetParams(device))
  PROVE  AnswersTellDevice
  <1>1. device \in Devices
    BY DEF AnswerInv
  <1>2. /\ device.rx_buffer_size \in Word16 /\ device.tx_buffer_size \in Word16 /\ device.max_bitrate \in Word32
        /\ HeartbeatTimeout \in Word32 /\ RxTimeout \in Word32 /\ AddressSize \in Byte /\ 8 \in Byte
    <2>1. HeartbeatTimeout \in Word32 /\ RxTimeout \in Word32
      BY IdentityAssumption
    <2>2. AddressSize \in Byte /\ 8 \in Byte
      BY AddressAssumption, ByteIs
    <2> QED
      BY <1>1, <2>1, <2>2, DeviceIs
  <1> DEFINE s1 == Encode(device.rx_buffer_size, 2)
             s2 == s1 \o Encode(device.tx_buffer_size, 2)
             s3 == s2 \o Encode(device.max_bitrate, 4)
             s4 == s3 \o Encode(HeartbeatTimeout, 4)
             s5 == s4 \o Encode(RxTimeout, 4)
             bytes == s5 \o <<AddressSize, 8>>
  <1>3. s1 \in Seq(Byte) /\ Len(s1) = 2 /\ Holds16(s1, 1, device.rx_buffer_size)
    BY <1>2, Alone16
  <1>4. exchange.answer = Fitted(device, bytes)
    BY DEF GetParams, EncodeParams, Answers
  <1> HIDE DEF s1
  <1>5. s2 \in Seq(Byte) /\ Len(s2) = 4 /\ Holds16(s2, 3, device.tx_buffer_size)
    <2>1. 3 = Len(s1) + 1 /\ Len(s1) + 2 = 4
      BY <1>3
    <2>2. s2 \in Seq(Byte) /\ Len(s2) = Len(s1) + 2 /\ Holds16(s2, 3, device.tx_buffer_size)
      BY Zenon, <1>2, <1>3, <2>1, Appended16
    <2> QED
      BY Zenon, <2>1, <2>2
  <1>6. Holds16(s2, 1, device.rx_buffer_size)
    <2>1. PICK u \in Seq(Byte) : u = Encode(device.tx_buffer_size, 2)
      BY <1>2, EncodeWord16
    <2>2. s2 = s1 \o u
      BY Zenon, <2>1
    <2> HIDE DEF s2
    <2> QED
      BY Zenon, <1>3, <2>2, Extended
  <1> HIDE DEF s2
  <1>7. s3 \in Seq(Byte) /\ Len(s3) = 8 /\ Holds32(s3, 5, device.max_bitrate)
    <2>1. 5 = Len(s2) + 1 /\ Len(s2) + 4 = 8
      BY <1>5
    <2>2. s3 \in Seq(Byte) /\ Len(s3) = Len(s2) + 4 /\ Holds32(s3, 5, device.max_bitrate)
      BY Zenon, <1>2, <1>5, <2>1, Appended32
    <2> QED
      BY Zenon, <2>1, <2>2
  <1>8. Holds16(s3, 1, device.rx_buffer_size) /\ Holds16(s3, 3, device.tx_buffer_size)
    <2>1. PICK u \in Seq(Byte) : u = Encode(device.max_bitrate, 4)
      BY <1>2, Alone32
    <2>2. s3 = s2 \o u
      BY Zenon, <2>1
    <2> HIDE DEF s3
    <2> QED
      BY Zenon, <1>5, <1>6, <2>2, Extended
  <1> HIDE DEF s3
  <1>9. s4 \in Seq(Byte) /\ Len(s4) = 12 /\ Holds32(s4, 9, HeartbeatTimeout)
    <2>1. 9 = Len(s3) + 1 /\ Len(s3) + 4 = 12
      BY <1>7
    <2>2. s4 \in Seq(Byte) /\ Len(s4) = Len(s3) + 4 /\ Holds32(s4, 9, HeartbeatTimeout)
      BY Zenon, <1>2, <1>7, <2>1, Appended32
    <2> QED
      BY Zenon, <2>1, <2>2
  <1>10. Holds16(s4, 1, device.rx_buffer_size) /\ Holds16(s4, 3, device.tx_buffer_size)
         /\ Holds32(s4, 5, device.max_bitrate)
    <2>1. PICK u \in Seq(Byte) : u = Encode(HeartbeatTimeout, 4)
      BY <1>2, Alone32
    <2>2. s4 = s3 \o u
      BY Zenon, <2>1
    <2> HIDE DEF s4
    <2> QED
      BY Zenon, <1>7, <1>8, <2>2, Extended
  <1> HIDE DEF s4
  <1>11. s5 \in Seq(Byte) /\ Len(s5) = 16 /\ Holds32(s5, 13, RxTimeout)
    <2>1. 13 = Len(s4) + 1 /\ Len(s4) + 4 = 16
      BY <1>9
    <2>2. s5 \in Seq(Byte) /\ Len(s5) = Len(s4) + 4 /\ Holds32(s5, 13, RxTimeout)
      BY Zenon, <1>2, <1>9, <2>1, Appended32
    <2> QED
      BY Zenon, <2>1, <2>2
  <1>12. Holds16(s5, 1, device.rx_buffer_size) /\ Holds16(s5, 3, device.tx_buffer_size)
         /\ Holds32(s5, 5, device.max_bitrate) /\ Holds32(s5, 9, HeartbeatTimeout)
    <2>1. PICK u \in Seq(Byte) : u = Encode(RxTimeout, 4)
      BY <1>2, Alone32
    <2>2. s5 = s4 \o u
      BY Zenon, <2>1
    <2> HIDE DEF s5
    <2> QED
      BY ZenonT(60), <1>9, <1>10, <2>2, Extended
  <1> HIDE DEF s5
  <1>13. PICK tail \in Seq(Byte) : tail = <<AddressSize, 8>> /\ Len(tail) = 2 /\ tail[1] = AddressSize
    BY ZenonT(60), <1>2, PairIs
  <1>14. /\ bytes \in Seq(Byte) /\ Len(bytes) = 18 /\ bytes[17] = AddressSize
         /\ Holds16(bytes, 1, device.rx_buffer_size) /\ Holds16(bytes, 3, device.tx_buffer_size)
         /\ Holds32(bytes, 5, device.max_bitrate) /\ Holds32(bytes, 9, HeartbeatTimeout)
         /\ Holds32(bytes, 13, RxTimeout)
    <2>1. Len(s5) + Len(tail) = 18 /\ Len(s5) + 1 = 17 /\ 1 \in 1 .. Len(tail)
      BY <1>11, <1>13
    <2>2. bytes = s5 \o tail
      BY Zenon, <1>13
    <2> HIDE DEF bytes
    <2>3. bytes \in Seq(Byte) /\ Len(bytes) = Len(s5) + Len(tail) /\ bytes[Len(s5) + 1] = tail[1]
      BY ZenonT(60), <1>11, <2>1, <2>2, ConcatAt
    <2>4. /\ Holds16(bytes, 1, device.rx_buffer_size) /\ Holds16(bytes, 3, device.tx_buffer_size)
          /\ Holds32(bytes, 5, device.max_bitrate) /\ Holds32(bytes, 9, HeartbeatTimeout)
          /\ Holds32(bytes, 13, RxTimeout)
      BY ZenonT(60), <1>11, <1>12, <2>2, Extended
    <2> QED
      BY Zenon, <1>13, <2>1, <2>3, <2>4
  <1> HIDE DEF bytes
  <1>15. ASSUME exchange.answer.code = "OK", Bytes = bytes PROVE Told
    <2>1. /\ U16(1) = device.rx_buffer_size /\ U16(3) = device.tx_buffer_size /\ U32(5) = device.max_bitrate
          /\ U32(9) = HeartbeatTimeout /\ U32(13) = RxTimeout
      BY Zenon, <1>14, <1>15, Reading
    <2>2. Len(Bytes) = 18 /\ U8(17) = AddressSize
      BY <1>14, <1>15 DEF U8
    <2>3. exchange.kind = "Params"
      BY DEF Answers
    <2> QED
      BY <2>1, <2>2, <2>3 DEF Told
  <1> QED
    BY <1>1, <1>4, <1>14, <1>15, FittedIs, Delivered

\* The setup of the datalogger.
LEMMA SetupAnswer ==
  ASSUME AnswerInv, Answers("Setup", GetSetup(device, MaxSignal))
  PROVE  AnswersTellDevice
  <1>1. device \in Devices
    BY DEF AnswerInv
  <1> DEFINE s1 == Encode(device.datalogging_buffer, 4)
             bytes == s1 \o <<0, MaxSignal>>
  <1>2. s1 \in Seq(Byte) /\ Len(s1) = 4 /\ Holds32(s1, 1, device.datalogging_buffer)
    BY <1>1, DeviceIs, Alone32
  <1>3. exchange.kind = "Setup" /\ exchange.answer \in {Fitted(device, bytes), Refused("UnsupportedFeature")}
    BY DEF GetSetup, EncodeSetup, WhenDatalogging, Answers
  <1> HIDE DEF s1
  <1>4. PICK tail \in Seq(Byte) : tail = <<0, MaxSignal>> /\ Len(tail) = 2 /\ tail[2] = MaxSignal
    <2>1. 0 \in Byte /\ MaxSignal \in Byte
      BY ArraysAre, ByteIs
    <2> QED
      BY <2>1, PairIs
  <1>5. bytes \in Seq(Byte) /\ Len(bytes) = 6 /\ bytes[6] = MaxSignal /\ Holds32(bytes, 1, device.datalogging_buffer)
    <2>1. Len(s1) + Len(tail) = 6 /\ Len(s1) + 2 = 6 /\ 2 \in 1 .. Len(tail)
      BY <1>2, <1>4
    <2>2. bytes = s1 \o tail
      BY Zenon, <1>4
    <2> HIDE DEF bytes
    <2>3. bytes \in Seq(Byte) /\ Len(bytes) = Len(s1) + Len(tail) /\ bytes[Len(s1) + 2] = tail[2]
      BY Zenon, <1>2, <2>1, <2>2, ConcatAt
    <2>4. Holds32(bytes, 1, device.datalogging_buffer)
      BY Zenon, <1>2, <2>2, Extended
    <2> QED
      BY Zenon, <1>4, <2>1, <2>3, <2>4
  <1> HIDE DEF bytes
  <1>6. ASSUME exchange.answer.code = "OK" /\ Bytes = bytes PROVE Told
    <2>1. U32(1) = device.datalogging_buffer /\ U8(6) = MaxSignal
      BY <1>5, <1>6, Reading DEF U8
    <2> QED
      BY <1>3, <2>1 DEF Told
  <1>7. Tells(exchange.answer, device, bytes)
    BY <1>1, <1>3, <1>5, FittedIs, RefusedIs
  <1> QED
    BY <1>6, <1>7, Delivered

\* The status of the datalogger.
LEMMA StatusAnswer ==
  ASSUME AnswerInv, NEW s \in Statuses, Answers("Status", GetStatus(device, s))
  PROVE  AnswersTellDevice
  <1>1. device \in Devices
    BY DEF AnswerInv
  <1>2. s \in [state : Byte, bytes_to_acquire : Word32, write_counter : Word32]
    BY InputsAssumption
  <1>3. s.state \in Byte /\ s.bytes_to_acquire \in Word32 /\ s.write_counter \in Word32
    BY <1>2
  <1> DEFINE s1 == <<s.state>>
             s2 == s1 \o Encode(s.bytes_to_acquire, 4)
             bytes == s2 \o Encode(s.write_counter, 4)
  <1>4. s1 \in Seq(Byte) /\ Len(s1) = 1 /\ Holds8(s1, 1, s.state)
    <2>1. s1 \in Seq(Byte) /\ Len(s1) = 1 /\ s1[1] = s.state
      BY <1>3, OneByte
    <2> HIDE DEF s1
    <2> QED
      BY <2>1 DEF Holds8
  <1>5. exchange.kind = "Status" /\ exchange.answer \in {Fitted(device, bytes), Refused("UnsupportedFeature")}
    BY DEF GetStatus, EncodeStatus, WhenDatalogging, Answers
  <1> HIDE DEF s1
  <1>6. s2 \in Seq(Byte) /\ Len(s2) = 5 /\ Holds32(s2, 2, s.bytes_to_acquire)
    <2>1. 2 = Len(s1) + 1 /\ Len(s1) + 4 = 5
      BY <1>4
    <2>2. s2 \in Seq(Byte) /\ Len(s2) = Len(s1) + 4 /\ Holds32(s2, 2, s.bytes_to_acquire)
      BY Zenon, <1>3, <1>4, <2>1, Appended32
    <2> QED
      BY Zenon, <2>1, <2>2
  <1>7. Holds8(s2, 1, s.state)
    <2>1. PICK u \in Seq(Byte) : u = Encode(s.bytes_to_acquire, 4)
      BY <1>3, Alone32
    <2>2. s2 = s1 \o u
      BY Zenon, <2>1
    <2> HIDE DEF s2
    <2> QED
      BY Zenon, <1>4, <2>2, Extended
  <1> HIDE DEF s2
  <1>8. bytes \in Seq(Byte) /\ Len(bytes) = 9 /\ Holds32(bytes, 6, s.write_counter)
    <2>1. 6 = Len(s2) + 1 /\ Len(s2) + 4 = 9
      BY <1>6
    <2>2. bytes \in Seq(Byte) /\ Len(bytes) = Len(s2) + 4 /\ Holds32(bytes, 6, s.write_counter)
      BY Zenon, <1>3, <1>6, <2>1, Appended32
    <2> QED
      BY Zenon, <2>1, <2>2
  <1>9. Holds8(bytes, 1, s.state)
         /\ Holds32(bytes, 2, s.bytes_to_acquire)
    <2>1. PICK u \in Seq(Byte) : u = Encode(s.write_counter, 4)
      BY <1>3, Alone32
    <2>2. bytes = s2 \o u
      BY Zenon, <2>1
    <2> HIDE DEF bytes
    <2> QED
      BY Zenon, <1>6, <1>7, <2>2, Extended
  <1> HIDE DEF bytes
  <1>10. ASSUME exchange.answer.code = "OK" /\ Bytes = bytes PROVE Told
    <2>1. U8(1) = s.state /\ U32(2) = s.bytes_to_acquire /\ U32(6) = s.write_counter
      BY Zenon, <1>8, <1>9, <1>10, Reading
    <2>2. s = [state |-> U8(1), bytes_to_acquire |-> U32(2), write_counter |-> U32(6)]
      BY <1>2, <2>1
    <2> QED
      BY <1>5, <2>2 DEF Told
  <1>11. Tells(exchange.answer, device, bytes)
    BY <1>1, <1>5, <1>8, FittedIs, RefusedIs
  <1> QED
    BY <1>10, <1>11, Delivered

\* The fields of the metadata of an acquisition.
LEMMA MetadataTold ==
  ASSUME AnswerInv, NEW a, <<a>> \in Acquisitions,
         a \in [acquisition_id : Word16, config_id : Word16, points : Word32,
                data_size : Word32, points_after_trigger : Word32],
         exchange.kind = "Metadata",
         exchange.answer \in {Fitted(device, EncodeMetadata(a)), Refused("UnsupportedFeature")}
  PROVE  AnswersTellDevice
  <1>1. device \in Devices
    BY DEF AnswerInv
  <1>2. /\ a.acquisition_id \in Word16 /\ a.config_id \in Word16 /\ a.points \in Word32
        /\ a.data_size \in Word32 /\ a.points_after_trigger \in Word32
    OBVIOUS
  <1> DEFINE s1 == Encode(a.acquisition_id, 2)
             s2 == s1 \o Encode(a.config_id, 2)
             s3 == s2 \o Encode(a.points, 4)
             s4 == s3 \o Encode(a.data_size, 4)
             bytes == s4 \o Encode(a.points_after_trigger, 4)
  <1>3. s1 \in Seq(Byte) /\ Len(s1) = 2 /\ Holds16(s1, 1, a.acquisition_id)
    BY <1>2, Alone16
  <1>4. exchange.answer \in {Fitted(device, bytes), Refused("UnsupportedFeature")}
    BY DEF EncodeMetadata
  <1> HIDE DEF s1
  <1>5. s2 \in Seq(Byte) /\ Len(s2) = 4 /\ Holds16(s2, 3, a.config_id)
    <2>1. 3 = Len(s1) + 1 /\ Len(s1) + 2 = 4
      BY <1>3
    <2>2. s2 \in Seq(Byte) /\ Len(s2) = Len(s1) + 2 /\ Holds16(s2, 3, a.config_id)
      BY Zenon, <1>2, <1>3, <2>1, Appended16
    <2> QED
      BY Zenon, <2>1, <2>2
  <1>6. Holds16(s2, 1, a.acquisition_id)
    <2>1. PICK u \in Seq(Byte) : u = Encode(a.config_id, 2)
      BY <1>2, EncodeWord16
    <2>2. s2 = s1 \o u
      BY Zenon, <2>1
    <2> HIDE DEF s2
    <2> QED
      BY Zenon, <1>3, <2>2, Extended
  <1> HIDE DEF s2
  <1>7. s3 \in Seq(Byte) /\ Len(s3) = 8 /\ Holds32(s3, 5, a.points)
    <2>1. 5 = Len(s2) + 1 /\ Len(s2) + 4 = 8
      BY <1>5
    <2>2. s3 \in Seq(Byte) /\ Len(s3) = Len(s2) + 4 /\ Holds32(s3, 5, a.points)
      BY Zenon, <1>2, <1>5, <2>1, Appended32
    <2> QED
      BY Zenon, <2>1, <2>2
  <1>8. Holds16(s3, 1, a.acquisition_id)
         /\ Holds16(s3, 3, a.config_id)
    <2>1. PICK u \in Seq(Byte) : u = Encode(a.points, 4)
      BY <1>2, Alone32
    <2>2. s3 = s2 \o u
      BY Zenon, <2>1
    <2> HIDE DEF s3
    <2> QED
      BY Zenon, <1>5, <1>6, <2>2, Extended
  <1> HIDE DEF s3
  <1>9. s4 \in Seq(Byte) /\ Len(s4) = 12 /\ Holds32(s4, 9, a.data_size)
    <2>1. 9 = Len(s3) + 1 /\ Len(s3) + 4 = 12
      BY <1>7
    <2>2. s4 \in Seq(Byte) /\ Len(s4) = Len(s3) + 4 /\ Holds32(s4, 9, a.data_size)
      BY Zenon, <1>2, <1>7, <2>1, Appended32
    <2> QED
      BY Zenon, <2>1, <2>2
  <1>10. Holds16(s4, 1, a.acquisition_id)
         /\ Holds16(s4, 3, a.config_id)
         /\ Holds32(s4, 5, a.points)
    <2>1. PICK u \in Seq(Byte) : u = Encode(a.data_size, 4)
      BY <1>2, Alone32
    <2>2. s4 = s3 \o u
      BY Zenon, <2>1
    <2> HIDE DEF s4
    <2> QED
      BY Zenon, <1>7, <1>8, <2>2, Extended
  <1> HIDE DEF s4
  <1>11. bytes \in Seq(Byte) /\ Len(bytes) = 16 /\ Holds32(bytes, 13, a.points_after_trigger)
    <2>1. 13 = Len(s4) + 1 /\ Len(s4) + 4 = 16
      BY <1>9
    <2>2. bytes \in Seq(Byte) /\ Len(bytes) = Len(s4) + 4 /\ Holds32(bytes, 13, a.points_after_trigger)
      BY Zenon, <1>2, <1>9, <2>1, Appended32
    <2> QED
      BY Zenon, <2>1, <2>2
  <1>12. Holds16(bytes, 1, a.acquisition_id)
         /\ Holds16(bytes, 3, a.config_id)
         /\ Holds32(bytes, 5, a.points)
         /\ Holds32(bytes, 9, a.data_size)
    <2>1. PICK u \in Seq(Byte) : u = Encode(a.points_after_trigger, 4)
      BY <1>2, Alone32
    <2>2. bytes = s4 \o u
      BY Zenon, <2>1
    <2> HIDE DEF bytes
    <2> QED
      BY ZenonT(60), <1>9, <1>10, <2>2, Extended
  <1> HIDE DEF bytes
  <1>13. ASSUME exchange.answer.code = "OK" /\ Bytes = bytes PROVE Told
    <2>1. /\ U16(1) = a.acquisition_id /\ U16(3) = a.config_id /\ U32(5) = a.points
          /\ U32(9) = a.data_size /\ U32(13) = a.points_after_trigger
      BY Zenon, <1>11, <1>12, <1>13, Reading
    <2>2. a = [acquisition_id |-> U16(1), config_id |-> U16(3), points |-> U32(5), data_size |-> U32(9),
               points_after_trigger |-> U32(13)]
      BY <2>1
    <2> QED
      BY <2>2 DEF Told
  <1>14. Tells(exchange.answer, device, bytes)
    BY <1>1, <1>4, <1>11, FittedIs, RefusedIs
  <1> QED
    BY <1>13, <1>14, Delivered

\* The metadata of an acquisition.
LEMMA MetadataAnswer ==
  ASSUME AnswerInv, NEW acquisition \in Acquisitions,
         Answers("Metadata", GetAcquisitionMetadata(device, acquisition))
  PROVE  AnswersTellDevice
  <1>1. device \in Devices
    BY DEF AnswerInv
  <1>2. CASE acquisition = <<>>
    <2>1. Tells(exchange.answer, device, <<>>) /\ exchange.answer.code # "OK"
      BY <1>2, RefusedIs DEF GetAcquisitionMetadata, WhenDatalogging, Answers, Refused, Answer
    <2> QED
      BY <2>1, Delivered
  <1>3. CASE acquisition # <<>>
    <2> DEFINE R == [acquisition_id : Word16, config_id : Word16, points : Word32,
                     data_size : Word32, points_after_trigger : Word32]
    <2>3. acquisition \in Seq(R) /\ Len(acquisition) \in {0, 1}
      BY InputsAssumption
    <2>4. ASSUME NEW S, NEW q \in Seq(S), Len(q) \in {0, 1}, q # <<>>
          PROVE  q = <<q[1]>> /\ q[1] \in S
      <3>1. Len(q) = 1 /\ q[1] \in S
        BY <2>4
      <3> DEFINE w == <<q[1]>>
      <3>2. w \in Seq(S) /\ Len(w) = 1 /\ w[1] = q[1]
        BY <3>1
      <3> HIDE DEF w
      <3>3. q = w
        BY <2>4, <3>1, <3>2
      <3> QED
        BY <3>1, <3>3 DEF w
    <2> HIDE DEF R
    <2>5. acquisition = <<acquisition[1]>> /\ acquisition[1] \in R
      BY <1>3, <2>3, <2>4
    <2>1. PICK a : acquisition = <<a>> /\ a = acquisition[1]
              /\ a \in [acquisition_id : Word16, config_id : Word16, points : Word32,
                         data_size : Word32, points_after_trigger : Word32]
      BY Zenon, <2>5 DEF R
    <2>2. GetAcquisitionMetadata(device, acquisition) \in {Fitted(device, EncodeMetadata(a)), Refused("UnsupportedFeature")}
      BY <1>3, <2>1 DEF GetAcquisitionMetadata, WhenDatalogging
    <2> QED
      BY <2>1, <2>2, MetadataTold DEF Answers
  <1> QED
    BY <1>2, <1>3

LEMMA SessionIs == AnswerInv => session \in Word32
  <1> SUFFICES ASSUME AnswerInv PROVE session \in Word32
    OBVIOUS
  <1>1. PICK m \in Nat, n \in Nat : m = session /\ n = MaxSessions /\ m <= n /\ n \div 65536 < 65536
    BY SessionsAre DEF AnswerInv, Word32
  <1>2. m \div 65536 < 65536
    BY <1>1
  <1> QED
    BY <1>1, <1>2 DEF Word32

LEMMA ByteAt == ASSUME NEW s \in Seq(Byte), NEW i \in 1 .. Len(s) PROVE s[i] \in Byte
  OBVIOUS

\* The heartbeat: the session, and the complement of the challenge.
LEMMA HeartbeatAnswer ==
  ASSUME AnswerInv, NEW c, Answers("Heartbeat", Heartbeat(device, exchange.data, session, c))
  PROVE  AnswersTellDevice
  <1>1. device \in Devices /\ exchange.data \in Seq(Byte) /\ session \in Word32 /\ exchange.kind = "Heartbeat"
    BY SessionIs DEF AnswerInv, Answers
  <1> DEFINE received == Decode(SubSeq(exchange.data, 5, 6))
             s1 == Encode(session, 4)
             bytes == s1 \o Encode(65535 - received, 2)
  <1>2. CASE Len(exchange.data) # 6
    <2>1. exchange.answer = Refused("InvalidRequest")
      BY <1>2 DEF Heartbeat, Answers
    <2>2. Tells(exchange.answer, device, <<>>) /\ exchange.answer.code # "OK"
      BY <2>1, RefusedIs DEF Refused, Answer
    <2> QED
      BY <2>2, Delivered
  <1>3. CASE Len(exchange.data) = 6
    <2>1. received = Read16(exchange.data, 5) /\ received \in Nat /\ received <= 65535
      <3>1. PICK data \in Seq(Byte), p \in Nat, q \in Nat :
                data = exchange.data /\ Len(data) = 6 /\ p = 4 /\ q = 6
        BY <1>1, <1>3
      <3>2. p <= q /\ q <= Len(data) /\ q - p = 2 /\ p + 1 = 5 /\ p + 2 = 6 /\ 1 \in 1 .. 2 /\ 2 \in 1 .. 2
        BY <3>1
      <3>3. /\ Between(data, p, q) \in Seq(Byte) /\ Len(Between(data, p, q)) = q - p
            /\ \A i \in 1 .. q - p : Between(data, p, q)[i] = data[p + i]
        <4>1. data \in Seq(Byte) /\ p \in Nat /\ q \in Nat /\ p <= q /\ q <= Len(data)
          BY <3>1, <3>2
        <4> QED
          BY Zenon, <4>1, BetweenIs
      <3>4. PICK w \in Seq(Byte) : w = SubSeq(exchange.data, 5, 6) /\ Len(w) = 2
                /\ w[1] = exchange.data[5] /\ w[2] = exchange.data[6]
        <4>1. Between(data, p, q) = SubSeq(exchange.data, 5, 6)
          BY <3>1, <3>2 DEF Between
        <4>2. Between(data, p, q)[1] = data[5] /\ Between(data, p, q)[2] = data[6]
          BY <3>2, <3>3
        <4> QED
          BY Zenon, <3>1, <3>2, <3>3, <4>1, <4>2
      <3>5. received = 256 * w[1] + w[2]
        BY <3>4, DecodeTwo
      <3>6. PICK x \in Nat, y \in Nat : x = w[1] /\ y = w[2] /\ x < 256 /\ y < 256
        <4>1. w \in Seq(Byte) /\ Len(w) = 2
          BY <3>4
        <4>2. w[1] \in Byte /\ w[2] \in Byte
          <5>1. PICK n \in Nat : n = Len(w) /\ n = 2
            BY <4>1
          <5>2. 1 \in 1 .. n /\ 2 \in 1 .. n
            BY <5>1
          <5> QED
            BY Zenon, <4>1, <5>1, <5>2, ByteAt
        <4> QED
          BY <4>2, ByteIs
      <3>7. Read16(exchange.data, 5) = 256 * w[1] + w[2]
        BY <3>4, 5 + 1 = 6 DEF Read16
      <3> HIDE DEF received
      <3> QED
        BY SMTT(60), <3>5, <3>6, <3>7
    <2>2. exchange.answer \in {Fitted(device, bytes), Refused("InvalidRequest")}
      BY <1>3 DEF Heartbeat, Answers
    <2> HIDE DEF received
    <2>3. PICK v \in Word16 : v = 65535 - received /\ v + received = 65535
      BY <2>1 DEF Word16
    <2>4. s1 \in Seq(Byte) /\ Len(s1) = 4 /\ Holds32(s1, 1, session)
      BY <1>1, Alone32
    <2>5. PICK u \in Seq(Byte) : u = Encode(v, 2)
      BY EncodeWord16
    <2>6. bytes = s1 \o u /\ bytes = s1 \o Encode(v, 2)
      BY <2>3, <2>5
    <2> HIDE DEF s1, bytes
    <2>7. bytes \in Seq(Byte) /\ Holds16(bytes, 5, v) /\ Holds32(bytes, 1, session)
      <3>1. 5 = Len(s1) + 1
        BY <2>4
      <3>2. bytes \in Seq(Byte) /\ Holds16(bytes, 5, v)
        BY Zenon, <2>4, <2>6, <3>1, Appended16
      <3>3. Holds32(bytes, 1, session)
        BY Zenon, <2>4, <2>6, Extended
      <3> QED
        BY <3>2, <3>3
    <2>8. ASSUME exchange.answer.code = "OK" /\ Bytes = bytes PROVE Told
      <3>1. U32(1) = session /\ U16(5) = v
        BY Zenon, <2>7, <2>8, Reading
      <3>2. U16(5) + Read16(exchange.data, 5) = 65535
        BY <2>1, <2>3, <3>1
      <3> QED
        BY <1>1, <3>1, <3>2 DEF Told
    <2>9. Tells(exchange.answer, device, bytes)
      BY <1>1, <2>2, <2>7, FittedIs, RefusedIs
    <2> QED
      BY <2>8, <2>9, Delivered
  <1> QED
    BY <1>2, <1>3

\* The answer to a connection.
LEMMA ConnectAnswer ==
  ASSUME AnswerInv, exchange.kind = "Connect", NEW id, NEW connected,
         exchange.answer = Connect(device, exchange.data, connected, id),
         exchange.answer.code = "OK" => id = session
  PROVE  AnswersTellDevice
  <1>1. device \in Devices /\ session \in Word32
    BY SessionIs DEF AnswerInv
  <1>2. CASE exchange.answer.code # "OK"
    <2>1. exchange.answer \in {Refused("InvalidRequest"), Refused("Busy"), Refused("Overflow")}
      BY <1>2 DEF Connect, Fitted, OK, Answer
    <2>2. Tells(exchange.answer, device, <<>>)
      BY <2>1, RefusedIs
    <2> QED
      BY <1>2, <2>2, Delivered
  <1>3. CASE exchange.answer.code = "OK"
    <2> DEFINE bytes == ConnectMagic \o Encode(session, 4)
    <2>1. exchange.answer = Fitted(device, bytes)
      BY <1>3 DEF Connect, Refused, Answer
    <2>2. PICK u \in Seq(Byte) : u = Encode(session, 4) /\ Len(u) = 4
      BY <1>1, Alone32
    <2>3. PICK s \in Seq(Byte) : s = ConnectMagic /\ Len(s) = 4 /\ 5 = Len(s) + 1
      <3>1. ConnectMagic \in Seq(Byte) /\ Len(ConnectMagic) = 4
        BY MagicsAre
      <3>2. 5 = Len(ConnectMagic) + 1
        BY <3>1
      <3> QED
        BY Zenon, <3>1, <3>2
    <2>4. bytes = s \o u /\ bytes = s \o Encode(session, 4)
      BY Zenon, <2>2, <2>3
    <2> HIDE DEF bytes
    <2>5. bytes \in Seq(Byte) /\ Holds32(bytes, 5, session)
      BY Zenon, <1>1, <2>3, <2>4, Appended32
    <2>6. SubSeq(bytes, 1, 4) = ConnectMagic
      <3>1. SubSeq(bytes, 1, Len(s)) = s
        BY ZenonT(60), <2>4, Parts
      <3> QED
        BY Zenon, <2>3, <3>1
    <2>7. ASSUME Bytes = bytes PROVE Told
      <3>1. U32(5) = session /\ SubSeq(Bytes, 1, 4) = ConnectMagic
        BY Zenon, <2>5, <2>6, <2>7, Reading
      <3> QED
        BY <3>1 DEF Told
    <2>8. Tells(exchange.answer, device, bytes)
      BY <1>1, <2>1, <2>5, FittedIs
    <2> QED
      BY <2>7, <2>8, Delivered
  <1> QED
    BY <1>2, <1>3

\* s lies in t, after its first bytes.
Lies(t, after, s) ==
    /\ after \in Nat /\ s \in Seq(Byte) /\ after + Len(s) <= Len(t)
    /\ \A i \in 1 .. Len(s) : t[after + i] = s[i]

LEMMA LiesIs ==
  ASSUME NEW t \in Seq(Byte), NEW after \in Nat, NEW s, Lies(t, after, s)
  PROVE  SubSeq(t, after + 1, after + Len(s)) = s
  <1>1. PICK n \in Nat : n = after + Len(s) /\ after <= n /\ n <= Len(t) /\ n - after = Len(s)
    BY DEF Lies
  <1>2. /\ Between(t, after, n) \in Seq(Byte) /\ Len(Between(t, after, n)) = n - after
        /\ \A i \in 1 .. n - after : Between(t, after, n)[i] = t[after + i]
    <2>1. n \in Nat /\ after <= n /\ n <= Len(t)
      BY <1>1
    <2> QED
      BY Zenon, <2>1, BetweenIs
  <1> DEFINE w == Between(t, after, n)
  <1> HIDE DEF w
  <1>3. w \in Seq(Byte) /\ Len(w) = Len(s) /\ s \in Seq(Byte) /\ \A i \in 1 .. Len(s) : w[i] = s[i]
    BY <1>1, <1>2 DEF Lies, w
  <1>4. w = s
    BY <1>3
  <1> QED
    BY <1>1, <1>4 DEF w, Between

LEMMA LiesFirst ==
  ASSUME NEW s \in Seq(Byte), NEW u \in Seq(Byte), NEW t, t = s \o u
  PROVE  t \in Seq(Byte) /\ Lies(t, 0, s) /\ Lies(t, Len(s), u)
  <1>1. /\ t \in Seq(Byte) /\ Len(t) = Len(s) + Len(u)
        /\ \A i \in 1 .. Len(s) : t[i] = s[i]
        /\ \A i \in 1 .. Len(u) : t[Len(s) + i] = u[i]
    BY ConcatAt
  <1>2. \A i \in 1 .. Len(s) : 0 + i = i
    OBVIOUS
  <1>3. Lies(t, 0, s)
    <2>1. 0 \in Nat /\ 0 + Len(s) <= Len(t)
      BY <1>1
    <2> QED
      BY <1>1, <1>2, <2>1 DEF Lies
  <1>4. Lies(t, Len(s), u)
    BY <1>1 DEF Lies
  <1> QED
    BY <1>1, <1>3, <1>4

LEMMA LiesStill ==
  ASSUME NEW s \in Seq(Byte), NEW u \in Seq(Byte), NEW t, t = s \o u, NEW after, NEW w, Lies(s, after, w)
  PROVE  Lies(t, after, w)
  <1>1. /\ t \in Seq(Byte) /\ Len(t) = Len(s) + Len(u)
        /\ \A i \in 1 .. Len(s) : t[i] = s[i]
    BY ConcatAt
  <1>2. after \in Nat /\ w \in Seq(Byte) /\ after + Len(w) <= Len(s)
    BY DEF Lies
  <1>3. ASSUME NEW i \in 1 .. Len(w) PROVE t[after + i] = w[i]
    <2>1. after + i \in 1 .. Len(s)
      BY <1>2
    <2>2. t[after + i] = s[after + i]
      BY <1>1, <2>1
    <2>3. s[after + i] = w[i]
      BY DEF Lies
    <2> QED
      BY <2>2, <2>3
  <1>4. after + Len(w) <= Len(t)
    BY <1>1, <1>2
  <1> QED
    BY <1>2, <1>3, <1>4 DEF Lies

\* An address is read as it was written.
LEMMA AddressRead ==
  ASSUME NEW v \in Addresses, NEW after \in Nat, Lies(Bytes, after, EncodeAddress(v)), NEW i, i = after + 1
  PROVE  Address(i) = v
  <1> DEFINE n == AddressSize
             e == Encode(v, n)
             R(g) == g = [k \in 0 .. n |-> IF k = 0 THEN 0 ELSE 256 * g[k - 1] + Bytes[i + k - 1]]
  <1>1. n \in Nat /\ v \in Nat /\ v < Weight(n)
    BY AddressSizeIs DEF Addresses, AddressModulus
  <1>2. e \in Seq(Byte) /\ Len(e) = n
    BY <1>1, EncodeIs
  <1>3. ASSUME NEW k \in 1 .. n PROVE Bytes[i + k - 1] = e[k]
    <2>1. Bytes[after + k] = EncodeAddress(v)[k]
      BY <1>2 DEF Lies, EncodeAddress
    <2>2. i + k - 1 = after + k
      BY <1>1
    <2> QED
      BY <2>1, <2>2 DEF EncodeAddress
  <1> HIDE DEF e
  <1>4. PICK f \in [0 .. n -> Nat] : Reads(f, e, n)
    <2>1. e \in [1 .. n -> Byte]
      BY <1>2
    <2> HIDE DEF n
    <2> QED
      BY <1>1, <2>1, SomeReads
  <1>5. R([k \in 0 .. n |-> f[k]])
    <2>1. f[0] = 0 /\ \A k \in 1 .. n : f[k] = 256 * f[k - 1] + e[k]
      BY <1>4 DEF Reads
    <2>2. \A k \in 1 .. n : k - 1 \in 0 .. n
      BY <1>1
    <2>3. \A k \in 0 .. n : k # 0 => k \in 1 .. n
      BY <1>1
    <2>4. 0 \in 0 .. n
      BY <1>1
    <2> QED
      BY <1>3, <2>1, <2>2, <2>3, <2>4
  <1>6. PICK g : R(g) /\ Address(i) = g[n]
    BY <1>5 DEF Address
  <1>7. Reads(g, e, n)
    <2>1. ASSUME NEW k \in 1 .. n PROVE g[k] = 256 * g[k - 1] + e[k]
      <3>1. k \in 0 .. n /\ k # 0
        BY <1>1
      <3>2. PICK b : b = Bytes
        OBVIOUS
      <3>3. g = [j \in 0 .. n |-> IF j = 0 THEN 0 ELSE 256 * g[j - 1] + b[i + j - 1]]
        BY ZenonT(60), <1>6, <3>2
      <3>4. g[k] = 256 * g[k - 1] + b[i + k - 1]
        BY <3>1, <3>3
      <3> QED
        BY <1>3, <3>2, <3>4
    <2>2. g[0] = 0
      BY <1>1, <1>6
    <2> QED
      BY <2>1, <2>2 DEF Reads
  <1> HIDE DEF n, R
  <1>8. g[n] = v
    BY <1>1, <1>7, ReadBack DEF e
  <1> QED
    BY <1>6, <1>8

\* A name that is capped.
LEMMA CappedIs ==
  ASSUME NEW name \in Seq(Byte), NEW limit \in Byte, NEW c, c = Capped(name, limit)
  PROVE  c \in Seq(Byte) /\ Len(c) \in Byte /\ IsCapOf(c, name, limit)
  <1>1. limit \in Nat /\ limit < 256
    BY ByteIs
  <1>2. PICK m \in Nat : m = IF Len(name) <= limit THEN Len(name) ELSE limit
    BY <1>1
  <1>3. c = SubSeq(name, 1, m) /\ m <= Len(name) /\ m <= limit /\ (m = Len(name) \/ m = limit)
    BY <1>1, <1>2 DEF Capped
  <1>4. c \in Seq(Byte) /\ Len(c) = m
    <2>1. \A i \in 1 .. m : name[i] \in Byte
      BY <1>3
    <2> QED
      BY <1>3
  <1>5. SubSeq(c, 1, Len(c)) = c
    BY <1>4, SubSeqFull
  <1>6. IsPrefix(c, name)
    BY <1>3, <1>4, <1>5 DEF IsPrefix
  <1>7. c = name \/ Len(c) = limit
    <2>1. m = Len(name) => c = name
      BY <1>3, SubSeqFull
    <2> QED
      BY <1>3, <1>4, <2>1
  <1>8. Len(c) \in Byte
    BY <1>1, <1>3, <1>4, ByteIs
  <1> QED
    BY <1>4, <1>6, <1>7, <1>8 DEF IsCapOf

\* A name is read after its length.
LEMMA NameRead ==
  ASSUME NEW s \in Seq(Byte), NEW name \in Seq(Byte), NEW m \in Byte, m = Len(name),
         NEW q, q = s \o <<m>>, NEW t, t = q \o name, NEW at, at = Len(s) + 1
  PROVE  /\ t \in Seq(Byte) /\ SubSeq(t, at + 1, Len(t)) = name /\ t[at] = Len(name)
  <1>1. PICK s1 \in Seq(Byte) : s1 = q /\ s1 = s \o <<m>> /\ Len(s1) = at /\ Holds8(s1, at, m)
    BY Appended8
  <1>2. t = s1 \o name
    BY <1>1
  <1>5. t \in Seq(Byte) /\ Holds8(t, at, m)
    BY Zenon, <1>1, <1>2, Extended
  <1>6. SubSeq(t, at + 1, Len(t)) = name
    <2>1. SubSeq(t, Len(s1) + 1, Len(t)) = name
      BY <1>1, <1>2, Parts
    <2> QED
      BY Zenon, <1>1, <2>1
  <1>7. t[at] = Len(name)
    BY <1>5 DEF Holds8
  <1> QED
    BY Zenon, <1>5, <1>6, <1>7

\* A name appended with its length leaves what comes before.
LEMMA NameKeeps ==
  ASSUME NEW s \in Seq(Byte), NEW name \in Seq(Byte), NEW m \in Byte,
         NEW q, q = s \o <<m>>, NEW t, t = q \o name
  PROVE  /\ \A k, v : Holds8(s, k, v) => Holds8(t, k, v)
         /\ \A k, v : Holds32(s, k, v) => Holds32(t, k, v)
         /\ \A after, w : Lies(s, after, w) => Lies(t, after, w)
  <1>3. PICK u \in Seq(Byte) : u = <<m>>
    BY OneByte
  <1>4. q = s \o u
    BY <1>3
  <1>5. q \in Seq(Byte)
    BY Zenon, <1>3, <1>4, Extended
  <1>8. ASSUME NEW k, NEW v, Holds8(s, k, v) PROVE Holds8(t, k, v)
    <2>1. Holds8(q, k, v)
      BY Zenon, <1>3, <1>4, <1>8, Extended
    <2> QED
      BY Zenon, <1>5, <2>1, Extended
  <1>9. ASSUME NEW k, NEW v, Holds32(s, k, v) PROVE Holds32(t, k, v)
    <2>1. Holds32(q, k, v)
      BY Zenon, <1>3, <1>4, <1>9, Extended
    <2> QED
      BY Zenon, <1>5, <2>1, Extended
  <1>10. ASSUME NEW after, NEW w, Lies(s, after, w) PROVE Lies(t, after, w)
    <2>1. Lies(q, after, w)
      BY Zenon, <1>3, <1>4, <1>10, LiesStill
    <2> QED
      BY Zenon, <1>5, <2>1, LiesStill
  <1> QED
    BY Zenon, <1>8, <1>9, <1>10

\* The answer to Discover.
LEMMA DiscoverAnswer ==
  ASSUME AnswerInv, Answers("Discover", Discover(device, exchange.data))
  PROVE  AnswersTellDevice
  <1>1. device \in Devices /\ device.display_name \in Seq(Byte) /\ exchange.kind = "Discover"
    BY DeviceIs DEF AnswerInv, Answers
  <1>2. /\ ProtocolVersion \in Seq(Byte) /\ Len(ProtocolVersion) = 2 /\ SoftwareId \in Seq(Byte)
        /\ MaxDisplayName \in Byte
    BY IdentityAssumption
  <1>3. PICK name \in Seq(Byte) : /\ name = Capped(device.display_name, MaxDisplayName) /\ Len(name) \in Byte
                                  /\ IsCapOf(name, device.display_name, MaxDisplayName)
    BY <1>1, <1>2, CappedIs
  <1> DEFINE s == ProtocolVersion \o SoftwareId
             at == 3 + Len(SoftwareId)
             bytes == s \o <<Len(name)>> \o name
  <1>4. exchange.answer \in {Refused("InvalidRequest"), Fitted(device, bytes)}
    BY <1>3 DEF Discover, EncodeDiscover, Answers
  <1>5. /\ s \in Seq(Byte) /\ Len(s) = 2 + Len(SoftwareId)
        /\ Lies(s, 0, ProtocolVersion) /\ Lies(s, 2, SoftwareId)
    <2>1. Lies(s, Len(ProtocolVersion), SoftwareId) /\ s \in Seq(Byte) /\ Lies(s, 0, ProtocolVersion)
      BY Zenon, <1>2, LiesFirst
    <2>2. Len(s) = Len(ProtocolVersion) + Len(SoftwareId)
      BY Zenon, <1>2, ConcatAt
    <2> QED
      BY <1>2, <2>1, <2>2
  <1> HIDE DEF s
  <1>6. at = Len(s) + 1
    BY <1>2, <1>5
  <1> HIDE DEF at
  <1>13. s \in Seq(Byte) /\ name \in Seq(Byte) /\ Len(name) \in Byte /\ at = Len(s) + 1
    BY Zenon, <1>3, <1>5, <1>6
  <1>15. PICK m \in Byte : m = Len(name)
    BY Zenon, <1>13
  <1>14. PICK q, t : q = s \o <<m>> /\ t = bytes /\ t = q \o name
    BY Zenon, <1>15
  <1> HIDE DEF bytes
  <1>7. /\ bytes \in Seq(Byte) /\ SubSeq(bytes, at + 1, Len(bytes)) = name /\ bytes[at] = Len(name)
        /\ Lies(bytes, 0, ProtocolVersion) /\ Lies(bytes, 2, SoftwareId)
    <2>4. t \in Seq(Byte) /\ SubSeq(t, at + 1, Len(t)) = name /\ t[at] = Len(name)
      BY <1>13, <1>14, <1>15, NameRead
    <2>5. Lies(t, 0, ProtocolVersion) /\ Lies(t, 2, SoftwareId)
      BY Zenon, <1>5, <1>13, <1>14, <1>15, NameKeeps
    <2> QED
      BY Zenon, <1>5, <1>14, <2>4, <2>5
  <1>8. SubSeq(bytes, 0 + 1, 0 + Len(ProtocolVersion)) = ProtocolVersion
    BY <1>7, LiesIs
  <1>9. SubSeq(bytes, 2 + 1, 2 + Len(SoftwareId)) = SoftwareId
    BY <1>7, LiesIs
  <1>10. 0 + 1 = 1 /\ 0 + Len(ProtocolVersion) = 2 /\ 2 + 1 = 3
    BY <1>2
  <1>11. ASSUME exchange.answer.code = "OK" /\ Bytes = bytes PROVE Told
    <2>1. SubSeq(Bytes, 1, 2) = ProtocolVersion /\ SubSeq(Bytes, 3, 2 + Len(SoftwareId)) = SoftwareId
      BY Zenon, <1>8, <1>9, <1>10, <1>11
    <2>2. U8(at) = Len(From(at + 1)) /\ IsCapOf(From(at + 1), device.display_name, MaxDisplayName)
      BY Zenon, <1>3, <1>7, <1>11 DEF U8, From
    <2>3. DiscoverTold
      BY Zenon, <2>1, <2>2 DEF DiscoverTold, at
    <2> QED
      BY <1>1, <2>3 DEF Told
  <1>12. Tells(exchange.answer, device, bytes)
    BY <1>1, <1>4, <1>7, FittedIs, RefusedIs
  <1> QED
    BY <1>11, <1>12, Delivered

\* The bounds of a memory region.
LEMMA RegionAnswer ==
  ASSUME AnswerInv, Answers("Region", GetSpecialMemoryLocation(device, exchange.data))
  PROVE  AnswersTellDevice
  <1> DEFINE data == exchange.data
             ranges == IF data[1] = 0 THEN device.readonly ELSE device.forbidden
             range == ranges[data[2] + 1]
             s1 == <<data[1], data[2]>>
             s2 == s1 \o EncodeAddress(range.start)
             bytes == s2 \o EncodeAddress(range.end)
  <1>1. /\ device \in Devices /\ data \in Seq(Byte) /\ exchange.kind = "Region"
        /\ device.readonly \in Seq(Ranges) /\ device.forbidden \in Seq(Ranges)
    BY DeviceIs DEF AnswerInv, Answers
  <1>2. \/ exchange.answer \in {Refused("InvalidRequest"), Refused("FailureToProceed")}
        \/ /\ Len(data) = 2 /\ data[1] \in {0, 1} /\ ~(data[2] >= Len(ranges))
           /\ exchange.answer = Fitted(device, bytes)
    BY DEF GetSpecialMemoryLocation, EncodeRegion, Answers
  <1>3. CASE exchange.answer \in {Refused("InvalidRequest"), Refused("FailureToProceed")}
    <2>1. Tells(exchange.answer, device, <<>>) /\ exchange.answer.code # "OK"
      BY <1>3, RefusedIs DEF Refused, Answer
    <2> QED
      BY <2>1, Delivered
  <1>4. CASE /\ Len(data) = 2 /\ data[1] \in {0, 1} /\ ~(data[2] >= Len(ranges))
             /\ exchange.answer = Fitted(device, bytes)
    <2>1. /\ data[1] \in Byte /\ data[2] \in Byte /\ s1 = data /\ s1 \in Seq(Byte) /\ Len(s1) = 2
          /\ s1[1] = data[1] /\ s1[2] = data[2]
      <3>1. PICK q \in Seq(Byte) : q = data /\ Len(q) = 2
        BY <1>1, <1>4
      <3>2. 1 \in 1 .. Len(q) /\ 2 \in 1 .. Len(q)
        BY <3>1
      <3>3. q[1] \in Byte /\ q[2] \in Byte
        BY <3>1, <3>2, ByteAt
      <3>4. q = <<q[1], q[2]>>
        BY <3>1
      <3> QED
        BY Zenon, <3>1, <3>3, <3>4
    <2>2. /\ data[2] < Len(ranges) /\ range \in Ranges
      <3>1. PICK q \in Seq(Ranges), k \in Nat : q = ranges /\ k = data[2] /\ k < Len(q)
        <4>1. data[2] \in Nat /\ ranges \in Seq(Ranges)
          BY <1>1, <2>1, ByteIs
        <4> QED
          BY <1>4, <4>1
      <3>2. k + 1 \in 1 .. Len(q)
        BY <3>1
      <3>3. q[k + 1] \in Ranges
        BY <3>2
      <3> QED
        BY <3>1, <3>3
    <2> HIDE DEF range, s1
    <2>3. /\ range.start \in Addresses /\ range.end \in Addresses
          /\ range = [start |-> range.start, end |-> range.end]
      BY <2>2 DEF Ranges
    <2>4. PICK a \in Seq(Byte), b \in Seq(Byte) : /\ a = EncodeAddress(range.start) /\ Len(a) = AddressSize
                                                  /\ b = EncodeAddress(range.end) /\ Len(b) = AddressSize
      <3>1. range.start \in Nat /\ range.end \in Nat
        BY <2>3 DEF Addresses
      <3> QED
        BY <3>1, EncodeAddressIs
    <2>5. s2 = s1 \o a /\ bytes = s2 \o b
      BY Zenon, <2>4
    <2> HIDE DEF s2, bytes
    <2>6. s2 \in Seq(Byte) /\ Len(s2) = 2 + AddressSize /\ Lies(s2, 2, a) /\ Holds8(s2, 1, data[1]) /\ Holds8(s2, 2, data[2])
      <3>1. s2 \in Seq(Byte) /\ Lies(s2, Len(s1), a)
        BY Zenon, <2>1, <2>4, <2>5, LiesFirst
      <3>2. 1 \in 1 .. Len(s1) /\ 2 \in 1 .. Len(s1)
        BY <2>1
      <3>3. Holds8(s1, 1, data[1]) /\ Holds8(s1, 2, data[2])
        BY Zenon, <2>1, <3>2 DEF Holds8
      <3>4. /\ Holds8(s2, 1, data[1]) /\ Holds8(s2, 2, data[2]) /\ Len(s2) = Len(s1) + Len(a)
        BY ZenonT(60), <2>1, <2>4, <2>5, <3>3, Extended
      <3> QED
        BY Zenon, <2>1, <2>4, <3>1, <3>4
    <2>7. /\ bytes \in Seq(Byte) /\ Len(bytes) = 2 + AddressSize + AddressSize
          /\ Lies(bytes, 2, a) /\ Lies(bytes, 2 + AddressSize, b)
          /\ Holds8(bytes, 1, data[1]) /\ Holds8(bytes, 2, data[2])
      <3>1. bytes \in Seq(Byte) /\ Lies(bytes, Len(s2), b)
        BY Zenon, <2>4, <2>5, <2>6, LiesFirst
      <3>2. Lies(bytes, 2, a)
        <4>1. bytes = s2 \o b /\ s2 \in Seq(Byte) /\ b \in Seq(Byte) /\ Lies(s2, 2, a)
          BY Zenon, <2>4, <2>5, <2>6
        <4> QED
          BY <4>1, LiesStill
      <3>3. Holds8(bytes, 1, data[1]) /\ Holds8(bytes, 2, data[2]) /\ Len(bytes) = Len(s2) + Len(b)
        BY ZenonT(60), <2>4, <2>5, <2>6, Extended
      <3> QED
        BY Zenon, <2>4, <2>6, <3>1, <3>2, <3>3
    <2>8. ASSUME exchange.answer.code = "OK" /\ Bytes = bytes PROVE Told
      <3>1. U8(1) = data[1] /\ U8(2) = data[2]
        BY Zenon, <2>7, <2>8, Reading
      <3>2. 2 \in Nat /\ 2 + AddressSize \in Nat /\ 3 = 2 + 1 /\ 3 + AddressSize = (2 + AddressSize) + 1
        BY AddressSizeIs
      <3>3. Address(3) = range.start /\ Address(3 + AddressSize) = range.end
        <4>1. /\ Lies(Bytes, 2, EncodeAddress(range.start))
              /\ Lies(Bytes, 2 + AddressSize, EncodeAddress(range.end))
          BY Zenon, <2>4, <2>7, <2>8
        <4> QED
          BY <2>3, <3>2, <4>1, AddressRead
      <3>4. Len(Bytes) = 2 + 2 * AddressSize
        BY <2>7, <2>8, AddressSizeIs
      <3>5. <<U8(1), U8(2)>> = data
        BY Zenon, <2>1, <3>1 DEF s1
      <3>6. range = (IF U8(1) = 0 THEN device.readonly ELSE device.forbidden)[U8(2) + 1]
        BY Zenon, <3>1 DEF range
      <3>7. U8(2) < Len(IF U8(1) = 0 THEN device.readonly ELSE device.forbidden)
        BY <2>2, <3>1
      <3>8. RegionTold
        BY Zenon, <2>3, <3>3, <3>4, <3>5, <3>6, <3>7 DEF RegionTold
      <3> QED
        BY <1>1, <3>8 DEF Told
    <2>9. Tells(exchange.answer, device, bytes)
      BY <1>1, <1>4, <2>7, FittedIs
    <2> QED
      BY <2>8, <2>9, Delivered
  <1> QED
    BY <1>2, <1>3, <1>4

LEMMA ElementOf == ASSUME NEW S, NEW s \in Seq(S), NEW i \in 1 .. Len(s) PROVE s[i] \in S
  OBVIOUS

LEMMA TimestepAppended ==
  ASSUME NEW h \in Seq(Byte), Len(h) = 3, NEW step \in Word32, NEW s, s = h \o Encode(step, 4)
  PROVE  /\ s \in Seq(Byte) /\ Len(s) = 7 /\ Holds32(s, 4, step)
         /\ \A k, v : Holds8(h, k, v) => Holds8(s, k, v)
  <1>1. PICK u \in Seq(Byte) : u = Encode(step, 4) /\ Len(u) = 4
    BY Alone32
  <1>2. s = h \o u
    BY Zenon, <1>1
  <1>3. s \in Seq(Byte) /\ Len(s) = Len(h) + Len(u) /\ \A k, v : Holds8(h, k, v) => Holds8(s, k, v)
    BY Zenon, <1>1, <1>2, Extended
  <1>4. 4 = Len(h) + 1 /\ Len(h) + Len(u) = 7
    <2>1. 4 = 3 + 1 /\ 3 + 4 = 7
      OBVIOUS
    <2> QED
      BY Zenon, <1>1, <2>1
  <1>5. Holds32(s, 4, step)
    BY Zenon, <1>4, Appended32
  <1> QED
    BY Zenon, <1>3, <1>4, <1>5

\* What comes before the name of a loop.
HeadOfLoop(s, id, type, f, step) ==
    /\ s \in Seq(Byte) /\ Len(s) = (IF type = 0 THEN 8 ELSE 4) - 1
    /\ Holds8(s, 1, id) /\ Holds8(s, 2, type) /\ Holds8(s, 3, f)
    /\ type = 0 => Holds32(s, 4, step)

LEMMA LoopHead ==
  ASSUME NEW id \in Byte, NEW type \in {0, 1}, NEW f \in Byte, NEW step \in Word32,
         NEW head, head = <<id, type, f>>, NEW tail, tail = IF type = 0 THEN Encode(step, 4) ELSE <<>>
  PROVE  HeadOfLoop(head \o tail, id, type, f, step)
  <1>1. PICK h \in Seq(Byte) : /\ h = head /\ Len(h) = 3
                               /\ Holds8(h, 1, id) /\ Holds8(h, 2, type) /\ Holds8(h, 3, f)
    <2>1. type \in Byte
      BY ByteIs
    <2>2. <<id, type, f>> \in Seq(Byte) /\ Len(<<id, type, f>>) = 3
      BY <2>1
    <2>3. PICK h \in Seq(Byte) : h = head /\ Len(h) = 3 /\ h[1] = id /\ h[2] = type /\ h[3] = f
      BY <2>2
    <2>4. 1 \in 1 .. Len(h) /\ 2 \in 1 .. Len(h) /\ 3 \in 1 .. Len(h)
      BY <2>3
    <2> QED
      BY Zenon, <2>3, <2>4 DEF Holds8
  <1>2. CASE type = 0
    <2>1. PICK s : s = head \o tail /\ s = h \o Encode(step, 4)
      BY <1>1, <1>2
    <2>2. /\ s \in Seq(Byte) /\ Len(s) = 7 /\ Holds32(s, 4, step)
          /\ Holds8(s, 1, id) /\ Holds8(s, 2, type) /\ Holds8(s, 3, f)
      BY Zenon, <1>1, <2>1, TimestepAppended
    <2>3. (IF type = 0 THEN 8 ELSE 4) - 1 = 7
      BY <1>2
    <2> QED
      BY Zenon, <1>2, <2>1, <2>2, <2>3 DEF HeadOfLoop
  <1>3. CASE type # 0
    <2>1. PICK s : s = head \o tail /\ s = h
      BY <1>1, <1>3
    <2>2. (IF type = 0 THEN 8 ELSE 4) - 1 = 3
      BY <1>3
    <2> QED
      BY Zenon, <1>1, <1>3, <2>1, <2>2 DEF HeadOfLoop
  <1> QED
    BY <1>2, <1>3

LEMMA LoopHeadIs ==
  ASSUME NEW id \in Byte, NEW type \in {0, 1}, NEW f \in Byte, NEW step \in Word32
  PROVE  HeadOfLoop(<<id, type, f>> \o (IF type = 0 THEN Encode(step, 4) ELSE <<>>), id, type, f, step)
  <1>1. PICK head, tail : head = <<id, type, f>> /\ tail = IF type = 0 THEN Encode(step, 4) ELSE <<>>
    OBVIOUS
  <1>2. HeadOfLoop(head \o tail, id, type, f, step)
    BY Zenon, <1>1, LoopHead
  <1> QED
    BY Zenon, <1>1, <1>2

\* What a client reads in the definition of a loop.
ReadsAsLoop(bytes, id, loop) ==
    /\ bytes \in Seq(Byte) /\ Holds8(bytes, 1, id)
    /\ \E type, f, at :
          /\ Holds8(bytes, 2, type) /\ (type = 0) = (loop.timestep > 0)
          /\ Holds8(bytes, 3, f) /\ (f = 128) = loop.datalogging
          /\ type = 0 => Holds32(bytes, 4, loop.timestep)
          /\ at = IF type = 0 THEN 8 ELSE 4
          /\ bytes[at] = Len(SubSeq(bytes, at + 1, Len(bytes)))
          /\ IsCapOf(SubSeq(bytes, at + 1, Len(bytes)), loop.name, MaxLoopName)

IsLoop(loop) == loop \in [name : Seq(Byte), timestep : Word32, datalogging : BOOLEAN]

LEMMA Flag128 == ASSUME NEW b PROVE Flag(b, 128) \in Byte /\ (b \in BOOLEAN => (Flag(b, 128) = 128) = b)
  <1>1. 128 \in Byte /\ 0 \in Byte
    BY ByteIs
  <1> QED
    BY <1>1 DEF Flag

\* A client reads the attributes, the timestep and the name of a loop, whatever the place of
\* the name.
LEMMA LoopRead ==
  ASSUME NEW id \in Byte, NEW loop, IsLoop(loop)
  PROVE  ReadsAsLoop(EncodeLoop(id, loop), id, loop)
  <1>1. loop.name \in Seq(Byte) /\ loop.timestep \in Word32 /\ loop.datalogging \in BOOLEAN
    BY DEF IsLoop
  <1>2. PICK name \in Seq(Byte), m \in Byte : /\ name = Capped(loop.name, MaxLoopName) /\ m = Len(name)
                                              /\ IsCapOf(name, loop.name, MaxLoopName)
    BY <1>1, IdentityAssumption, CappedIs
  <1>3. PICK f \in Byte : f = Flag(loop.datalogging, 128) /\ (f = 128) = loop.datalogging
    BY <1>1, Flag128
  <1>4. PICK type \in {0, 1}, at \in Nat, step \in Word32 :
            /\ step = loop.timestep /\ (type = 0) = (loop.timestep > 0)
            /\ type = (IF loop.timestep > 0 THEN 0 ELSE 1) /\ at = IF type = 0 THEN 8 ELSE 4
    BY <1>1
  <1>5. HeadOfLoop(<<id, type, f>> \o (IF type = 0 THEN Encode(step, 4) ELSE <<>>), id, type, f, step)
    BY ZenonT(60), <1>3, <1>4, LoopHeadIs
  <1>6. PICK s, h, bytes : /\ s = <<id, type, f>> \o (IF type = 0 THEN Encode(step, 4) ELSE <<>>)
                           /\ h = s \o <<m>> /\ bytes = h \o name
    OBVIOUS
  <1>7. bytes = EncodeLoop(id, loop)
    BY <1>2, <1>3, <1>4, <1>6 DEF EncodeLoop
  <1>8. /\ s \in Seq(Byte) /\ Len(s) = (IF type = 0 THEN 8 ELSE 4) - 1
        /\ Holds8(s, 1, id) /\ Holds8(s, 2, type) /\ Holds8(s, 3, f)
        /\ type = 0 => Holds32(s, 4, step)
    BY Zenon, <1>5, <1>6 DEF HeadOfLoop
  <1>9. at = Len(s) + 1
    BY <1>4, <1>6, <1>8
  <1>10. /\ s \in Seq(Byte) /\ name \in Seq(Byte) /\ m \in Byte /\ m = Len(name)
         /\ h = s \o <<m>> /\ bytes = h \o name /\ at = Len(s) + 1
    BY Zenon, <1>2, <1>6, <1>8, <1>9
  <1>11. bytes \in Seq(Byte) /\ SubSeq(bytes, at + 1, Len(bytes)) = name /\ bytes[at] = Len(name)
    BY <1>10, NameRead
  <1>12. /\ Holds8(bytes, 1, id) /\ Holds8(bytes, 2, type) /\ Holds8(bytes, 3, f)
         /\ type = 0 => Holds32(bytes, 4, step)
    <2>1. /\ Holds8(s, 1, id) /\ Holds8(s, 2, type) /\ Holds8(s, 3, f)
          /\ type = 0 => Holds32(s, 4, step)
      BY Zenon, <1>6, <1>8
    <2> QED
      BY Zenon, <1>10, <2>1, NameKeeps
  <1>13. /\ bytes[at] = Len(SubSeq(bytes, at + 1, Len(bytes)))
         /\ IsCapOf(SubSeq(bytes, at + 1, Len(bytes)), loop.name, MaxLoopName)
    BY Zenon, <1>2, <1>11
  <1>14. ReadsAsLoop(bytes, id, loop)
    <2>1. /\ Holds8(bytes, 2, type) /\ (type = 0) = (loop.timestep > 0)
          /\ Holds8(bytes, 3, f) /\ (f = 128) = loop.datalogging
          /\ type = 0 => Holds32(bytes, 4, loop.timestep)
          /\ at = IF type = 0 THEN 8 ELSE 4
      BY Zenon, <1>3, <1>4, <1>12
    <2> QED
      BY Zenon, <1>11, <1>12, <1>13, <2>1 DEF ReadsAsLoop
  <1> QED
    BY Zenon, <1>7, <1>14

\* The definition of a loop.
LEMMA LoopAnswer ==
  ASSUME AnswerInv, exchange.kind = "Loop", exchange.answer \in GetLoopDefinition(device, exchange.data)
  PROVE  AnswersTellDevice
  <1> DEFINE data == exchange.data
  <1>1. /\ device \in Devices /\ data \in Seq(Byte) /\ Len(device.loops) \in Byte
        /\ device.loops \in Seq([name : Seq(Byte), timestep : Word32, datalogging : BOOLEAN])
    BY DeviceIs DEF AnswerInv
  <1>2. PICK id \in LoopIds(data) :
            exchange.answer = IF id >= Len(device.loops) THEN Refused("FailureToProceed")
                              ELSE StrictlyFitted(device, EncodeLoop(id, device.loops[id + 1]))
    BY DEF GetLoopDefinition
  <1>3. id \in Byte /\ id \in Nat /\ Len(device.loops) \in Nat /\ (Len(data) = 1 => id = data[1])
    <2>1. CASE Len(data) = 1
      <3>1. PICK q \in Seq(Byte) : q = data /\ Len(q) = 1
        BY <1>1, <2>1
      <3>2. 1 \in 1 .. Len(q)
        BY <3>1
      <3>3. q[1] \in Byte
        BY <3>2, ByteAt
      <3>4. id = data[1]
        BY <2>1 DEF LoopIds
      <3> QED
        BY <1>1, <3>1, <3>3, <3>4, ByteIs
    <2>2. CASE Len(data) # 1
      BY <1>1, <2>2, ByteIs DEF LoopIds
    <2> QED
      BY <2>1, <2>2
  <1>4. CASE id >= Len(device.loops)
    <2>1. exchange.answer = Refused("FailureToProceed")
      BY <1>2, <1>4
    <2>2. Tells(exchange.answer, device, <<>>) /\ exchange.answer.code # "OK"
      BY <2>1, RefusedIs DEF Refused, Answer
    <2> QED
      BY <2>2, Delivered
  <1>5. CASE id < Len(device.loops)
    <2> DEFINE loop == device.loops[id + 1]
    <2>1. loop \in [name : Seq(Byte), timestep : Word32, datalogging : BOOLEAN]
      <3>1. PICK q \in Seq([name : Seq(Byte), timestep : Word32, datalogging : BOOLEAN]) :
                q = device.loops /\ id < Len(q)
        BY <1>1, <1>5
      <3>2. id + 1 \in 1 .. Len(q)
        BY <1>3, <3>1
      <3>3. q[id + 1] \in [name : Seq(Byte), timestep : Word32, datalogging : BOOLEAN]
        BY <3>2, ElementOf
      <3> QED
        BY <3>1, <3>3
    <2>2. exchange.answer = StrictlyFitted(device, EncodeLoop(id, loop))
      BY <1>2, <1>3, <1>5
    <2> HIDE DEF loop
    <2>3. ReadsAsLoop(EncodeLoop(id, loop), id, loop)
      BY Zenon, <1>3, <2>1, LoopRead DEF IsLoop
    <2>4. PICK bytes \in Seq(Byte) : bytes = EncodeLoop(id, loop) /\ ReadsAsLoop(bytes, id, loop)
      BY Zenon, <2>3 DEF ReadsAsLoop
    <2>5. PICK type, f, at :
              /\ Holds8(bytes, 2, type) /\ (type = 0) = (loop.timestep > 0)
              /\ Holds8(bytes, 3, f) /\ (f = 128) = loop.datalogging
              /\ type = 0 => Holds32(bytes, 4, loop.timestep)
              /\ at = IF type = 0 THEN 8 ELSE 4
              /\ bytes[at] = Len(SubSeq(bytes, at + 1, Len(bytes)))
              /\ IsCapOf(SubSeq(bytes, at + 1, Len(bytes)), loop.name, MaxLoopName)
      BY Zenon, <2>4 DEF ReadsAsLoop
    <2>6. Holds8(bytes, 1, id)
      BY Zenon, <2>4 DEF ReadsAsLoop
    <2>12. ASSUME exchange.answer.code = "OK" /\ Bytes = bytes PROVE Told
      <3>1. U8(1) = id /\ U8(2) = type /\ U8(3) = f /\ (type = 0 => U32(4) = loop.timestep)
        BY ZenonT(60), <2>5, <2>6, <2>12, Reading
      <3>2. U8(at) = Len(From(at + 1)) /\ IsCapOf(From(at + 1), loop.name, MaxLoopName)
        BY Zenon, <2>5, <2>12 DEF U8, From
      <3>3. /\ (U8(2) = 0) = (loop.timestep > 0) /\ (U8(3) = 128) = loop.datalogging
            /\ U8(2) = 0 => U32(4) = loop.timestep
        BY Zenon, <2>5, <3>1
      <3>4. at = IF U8(2) = 0 THEN 8 ELSE 4
        BY Zenon, <2>5, <3>1
      <3>5. loop = device.loops[U8(1) + 1]
        BY Zenon, <3>1 DEF loop
      <3>6. U8(1) < Len(device.loops) /\ (Len(exchange.data) = 1 => U8(1) = exchange.data[1])
        BY <1>3, <1>5, <3>1
      <3>7. LoopTold
        BY Zenon, <3>2, <3>3, <3>4, <3>5, <3>6 DEF LoopTold
      <3> QED
        BY <3>7 DEF Told
    <2>13. Tells(exchange.answer, device, bytes)
      BY <1>1, <2>2, <2>4, FittedIs
    <2> QED
      BY <2>12, <2>13, Delivered
  <1> QED
    BY <1>3, <1>4, <1>5

\* The answer of a handler tells what the device is.
LEMMA AnswersTell == AnswerInv => AnswersTellDevice
  <1> SUFFICES ASSUME AnswerInv PROVE AnswersTellDevice
    OBVIOUS
  <1>1. CASE \/ exchange.kind = "None" /\ exchange.answer.code # "OK" /\ exchange.answer.data = <<>>
             \/ exchange.kind = "Configure" /\ exchange.answer.data = <<>>
             \/ exchange.kind = "Disconnect" /\ exchange.answer.data = <<>>
             \/ Answers("ProtocolVersion", GetProtocolVersion(device))
             \/ Answers("SoftwareId", GetSoftwareId(device))
             \/ Answers("UserCommand", UserCommand(device))
             \/ Answers("Rpvs", GetRpvDefinition(device, exchange.data))
    BY Zenon, <1>1, PlainAnswers
  <1>2. CASE Answers("Discover", Discover(device, exchange.data))
    BY Zenon, <1>2, DiscoverAnswer
  <1>3. CASE exchange.kind = "Connect" /\ \E id, connected :
                 /\ exchange.answer = Connect(device, exchange.data, connected, id)
                 /\ exchange.answer.code = "OK" => id = session
    BY Zenon, <1>3, ConnectAnswer
  <1>4. CASE \E c : Answers("Heartbeat", Heartbeat(device, exchange.data, session, c))
    BY Zenon, <1>4, HeartbeatAnswer
  <1>5. CASE \/ Answers("RegionCount", GetSpecialMemoryRegionCount(device))
             \/ Answers("RpvCount", GetRpvCount(device))
             \/ Answers("LoopCount", GetLoopCount(device))
    BY Zenon, <1>5, CountAnswers
  <1>6. CASE Answers("Features", GetSupportedFeatures(device))
    BY Zenon, <1>6, FeaturesAnswer
  <1>7. CASE Answers("Params", GetParams(device))
    BY Zenon, <1>7, ParamsAnswer
  <1>8. CASE Answers("Setup", GetSetup(device, MaxSignal))
    BY Zenon, <1>8, SetupAnswer
  <1>9. CASE \E s \in Statuses : Answers("Status", GetStatus(device, s))
    BY Zenon, <1>9, StatusAnswer
  <1>10. CASE \E a \in Acquisitions : Answers("Metadata", GetAcquisitionMetadata(device, a))
    BY Zenon, <1>10, MetadataAnswer
  <1>11. CASE Answers("Region", GetSpecialMemoryLocation(device, exchange.data))
    BY Zenon, <1>11, RegionAnswer
  <1>12. CASE exchange.kind = "Loop" /\ exchange.answer \in GetLoopDefinition(device, exchange.data)
    BY Zenon, <1>12, LoopAnswer
  <1>13. AnswerOfHandler
    BY Zenon DEF AnswerInv
  <1> QED
    BY Zenon, <1>1, <1>2, <1>3, <1>4, <1>5, <1>6, <1>7, <1>8, <1>9, <1>10, <1>11, <1>12, <1>13 DEF AnswerOfHandler

\* AnswersTellDevice: every answer of the handlers fits the transmit buffer and, read with the
\* layout a client documents, gives the regions, the loops, the sizes and the identifiers
\* of the device; a refusal has no data.
THEOREM AnswersAreOfTheDevice == Spec => []AnswersTellDevice
  <1>1. Init => AnswerInv /\ EnumerationInv
    BY AnswerInit, EnumerationInit
  <1>2. AnswerInv /\ EnumerationInv /\ [Next]_vars => AnswerInv' /\ EnumerationInv'
    BY AnswerStep, EnumerationStep
  <1>3. AnswerInv => AnswersTellDevice
    BY AnswersTell
  <1> QED
    BY <1>1, <1>2, <1>3, PTL DEF Spec
=============================================================================
