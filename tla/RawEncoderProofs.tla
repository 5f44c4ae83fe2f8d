---------------------------- MODULE RawEncoderProofs ----------------------------
(***************************************************************************)
(* Proofs about RawEncoder, for every buffer, entry size and response      *)
(* size: the cursors of the writer and the reader stay inside the buffer,  *)
(* the ring remembers the latest entries in order, and the reader gives    *)
(* their chars in that order.                                              *)
(***************************************************************************)
EXTENDS RawEncoder, Integers, TLAPS, SequenceTheorems

-----------------------------------------------------------------------------
(* Counters that wrap, quotients, slots and the pieces of the buffer *)

\* A counter that goes around once at most.
LEMMA SmallMod ==
  ASSUME NEW n \in Nat, NEW m \in Nat \ {0}, n < 2 * m
  PROVE  n % m = IF n < m THEN n ELSE n - m
  <1>1. CASE n < m
    BY <1>1
  <1>2. CASE n >= m
    <2>1. (n - m) % m = n - m
      BY <1>2
    <2>2. n % m = (n - m) % m
      BY <1>2
    <2> QED
      BY <1>2, <2>1, <2>2
  <1> QED
    BY <1>1, <1>2

LEMMA CounterWraps == ASSUME NEW n \in Nat, NEW m \in Nat \ {0} PROVE n % m \in 0 .. m - 1
  OBVIOUS

LEMMA Quotients == ASSUME NEW n \in Nat, NEW m \in Nat \ {0} PROVE n \div m \in Nat
  OBVIOUS

\* Slot j ends where slot j + 1 begins, and slots do not overlap.
LEMMA SlotsApart ==
  ASSUME NEW i \in Nat, NEW j \in Nat, NEW size \in Nat, i < j
  PROVE  /\ i * size \in Nat /\ j * size \in Nat
         /\ i * size + size <= j * size
  <1>1. (i + 1) * size = i * size + size
    OBVIOUS
  <1>2. PICK k \in Nat : j = i + 1 + k
    <2>1. j - (i + 1) \in Nat /\ j = i + 1 + (j - (i + 1))
      OBVIOUS
    <2> QED
      BY <2>1
  <1>3. j * size = (i + 1) * size + k * size
    BY <1>2
  <1>4. k * size \in Nat /\ i * size \in Nat /\ j * size \in Nat
    OBVIOUS
  <1> QED
    BY <1>1, <1>3, <1>4

\* The quotient and the remainder.
LEMMA Division ==
  ASSUME NEW p \in Nat, NEW size \in Nat \ {0}
  PROVE  \E q \in Nat, r \in 0 .. size - 1 : q = p \div size /\ r = p % size /\ p = q * size + r
  <1>1. PICK q \in Nat : q = p \div size
    BY Quotients
  <1>2. p % size \in 0 .. size - 1
    BY CounterWraps
  <1>3. PICK r \in 0 .. size - 1 : r = p % size
    BY <1>2
  <1>4. p = size * q + r
    BY <1>1, <1>3
  <1>5. p = q * size + r
    BY <1>3, <1>4
  <1> QED
    BY <1>1, <1>3, <1>5

\* What lies in n pieces of size chars lies in one of them.
LEMMA PieceOf ==
  ASSUME NEW size \in Nat \ {0}, NEW n \in Nat, NEW p \in Nat, p < n * size
  PROVE  \E q \in Nat, r \in 0 .. size - 1 :
            q < n /\ q = p \div size /\ r = p % size /\ p = q * size + r
  <1>1. PICK q \in Nat, r \in 0 .. size - 1 : q = p \div size /\ r = p % size /\ p = q * size + r
    BY Division
  <1>2. ASSUME n <= q PROVE FALSE
    <2>1. n * size \in Nat /\ q * size \in Nat
      OBVIOUS
    <2>2. CASE n = q
      BY <1>1, <2>1, <2>2
    <2>3. CASE n < q
      <3>1. n * size + size <= q * size
        BY <2>3, SlotsApart
      <3> QED
        BY <1>1, <2>1, <3>1
    <2> QED
      BY <1>2, <2>2, <2>3
  <1>3. q < n
    BY <1>2
  <1> QED
    BY <1>1, <1>3

-----------------------------------------------------------------------------
(* The encoder *)

Encoders ==
    [entry_size : Nat, max_entries : Nat, next : Nat, first : Nat, full : BOOLEAN,
     counter : 0 .. SizeModulus - 1]

\* The indices of the encoder are inside the buffer.
Inside(e) ==
    /\ EncoderError(e) => e.next = 0 /\ e.first = 0
    /\ ~EncoderError(e) => e.next < e.max_entries /\ e.first < e.max_entries

LEMMA Sizes == ASSUME NEW size \in Nat PROVE EncoderReset(size) \in Encoders /\ Inside(EncoderReset(size))
  <1>1. size > 0 => BufferSize \div size \in Nat
    BY BufferAssumption
  <1>2. 0 \in 0 .. SizeModulus - 1
    BY BufferAssumption
  <1> QED
    BY <1>1, <1>2 DEF EncoderReset, Encoders, Inside, EncoderError

\* encode_next_entry() keeps its indices inside the buffer.
LEMMA EncodeFacts ==
  ASSUME NEW e \in Encoders, Inside(e), ~EncoderError(e)
  PROVE  EncodeNextEntry(e) \in Encoders /\ Inside(EncodeNextEntry(e)) /\ ~EncoderError(EncodeNextEntry(e))
  <1>1. (e.counter + 1) % SizeModulus \in 0 .. SizeModulus - 1
    <2>1. e.counter + 1 \in Nat /\ SizeModulus \in Nat \ {0}
      BY BufferAssumption DEF Encoders
    <2> DEFINE n == e.counter + 1
    <2> HIDE DEF n
    <2>2. n \in Nat
      BY <2>1 DEF n
    <2>3. n % SizeModulus \in 0 .. SizeModulus - 1
      BY <2>1, <2>2, CounterWraps
    <2> QED
      BY <2>3 DEF n
  <1>2. \A i \in Nat : NextIndex(e, i) \in Nat /\ NextIndex(e, i) < e.max_entries
    BY DEF NextIndex, Encoders, EncoderError
  <1>3. EncodeNextEntry(e) = [e EXCEPT !.first = EncodeNextEntry(e).first,
                                       !.next = EncodeNextEntry(e).next,
                                       !.full = EncodeNextEntry(e).full,
                                       !.counter = EncodeNextEntry(e).counter]
    BY DEF EncodeNextEntry, Encoders
  <1>4. /\ EncodeNextEntry(e).first \in Nat /\ EncodeNextEntry(e).first < e.max_entries
        /\ EncodeNextEntry(e).next \in Nat /\ EncodeNextEntry(e).next < e.max_entries
        /\ EncodeNextEntry(e).full \in BOOLEAN
        /\ EncodeNextEntry(e).counter \in 0 .. SizeModulus - 1
        /\ EncodeNextEntry(e).max_entries = e.max_entries
    <2>1. e.first \in Nat /\ e.next \in Nat /\ e.first < e.max_entries /\ e.full \in BOOLEAN
      BY DEF Encoders, Inside
    <2>2. /\ EncodeNextEntry(e).first \in {e.first, NextIndex(e, e.first)}
          /\ EncodeNextEntry(e).next = NextIndex(e, e.next)
      BY DEF EncodeNextEntry, Encoders
    <2>3. /\ EncodeNextEntry(e).full = (e.full \/ e.next + 1 >= e.max_entries)
          /\ EncodeNextEntry(e).counter = (e.counter + 1) % SizeModulus
          /\ EncodeNextEntry(e).max_entries = e.max_entries
      BY DEF EncodeNextEntry, Encoders
    <2> QED
      BY <1>1, <1>2, <2>1, <2>2, <2>3
  <1> QED
    BY <1>3, <1>4 DEF Encoders, Inside, EncoderError

\* The slots of a configuration lie in the buffer.
LEMMA SlotsFit ==
  ASSUME NEW size \in Nat \ {0}
  PROVE  size * (BufferSize \div size) <= BufferSize
  <1>1. BufferSize \in Nat
    BY BufferAssumption
  <1> QED
    BY <1>1

-----------------------------------------------------------------------------
(* Type correctness *)

Chars == (Samples \X (0 .. BufferSize)) \union {Garbage}

\* The slots lie in the buffer; the oldest entry is in slot 0 until the ring is full, and
\* from then on in the slot that is written next.
Ring(e) ==
    /\ e \in Encoders /\ Inside(e)
    /\ GetBufferEffectiveSize(e) <= BufferSize
    /\ ~EncoderError(e) => e.entry_size > 0
    /\ e.first = IF e.full THEN e.next ELSE 0

IInv ==
    /\ Ring(enc)
    /\ buffer \in [Cells -> Chars]
    /\ reader.cursor \in 0 .. GetBufferEffectiveSize(enc)
    /\ reading \in {"no", "yes", "complete"}
    /\ entries \in Seq(Samples) /\ Len(entries) <= enc.max_entries

LEMMA EntriesFit ==
  ASSUME NEW e, Ring(e)
  PROVE  /\ e.max_entries <= BufferSize /\ BufferSize \in Nat
         /\ GetBufferEffectiveSize(e) \in Nat /\ GetBufferEffectiveSize(e) <= BufferSize
  <1>1. e.max_entries \in Nat /\ e.entry_size \in Nat /\ (e.max_entries # 0 => e.entry_size > 0)
        /\ e.entry_size * e.max_entries <= BufferSize /\ BufferSize \in Nat
    BY BufferAssumption DEF Ring, Encoders, EncoderError, GetBufferEffectiveSize
  <1>2. e.entry_size * e.max_entries \in Nat
    BY <1>1
  <1>3. e.max_entries # 0 => e.max_entries <= e.entry_size * e.max_entries
    BY <1>1
  <1> QED
    BY <1>1, <1>2, <1>3 DEF GetBufferEffectiveSize

LEMMA InvariantIsStronger == IInv => TypeOK
  <1> SUFFICES ASSUME IInv PROVE TypeOK
    OBVIOUS
  <1>1. /\ enc \in Encoders /\ Inside(enc) /\ enc.max_entries <= BufferSize /\ BufferSize \in Nat
        /\ GetBufferEffectiveSize(enc) \in Nat /\ GetBufferEffectiveSize(enc) <= BufferSize
    BY EntriesFit DEF IInv, Ring
  <1>2. reader.cursor \in 0 .. BufferSize
    BY <1>1 DEF IInv
  <1>3. Len(entries) <= BufferSize
    <2>1. Len(entries) \in Nat /\ enc.max_entries \in Nat /\ Len(entries) <= enc.max_entries
      BY <1>1 DEF IInv, Encoders
    <2> QED
      BY <1>1, <2>1
  <1>4. \A i \in Cells : buffer[i] = Garbage \/ buffer[i] \in Samples \X (0 .. BufferSize)
    BY DEF IInv, Chars
  <1> QED
    BY <1>1, <1>2, <1>3, <1>4 DEF IInv, TypeOK, Encoders, Inside, EncoderError

-----------------------------------------------------------------------------
(* The ring *)

LEMMA ResetRing ==
  ASSUME NEW size \in Nat
  PROVE  Ring(EncoderReset(size)) /\ GetReadCursor(EncoderReset(size)) = 0
  <1> DEFINE e == EncoderReset(size)
  <1>1. e \in Encoders /\ Inside(e)
    BY Sizes
  <1>2. /\ e.entry_size = size /\ e.first = 0 /\ e.next = 0 /\ e.full = FALSE
        /\ e.max_entries = IF size > 0 THEN BufferSize \div size ELSE 0
    BY DEF EncoderReset
  <1>3. e.entry_size * e.max_entries <= BufferSize
    <2>1. CASE size > 0
      BY <1>2, <2>1, SlotsFit
    <2>2. CASE size = 0
      BY <1>2, <2>2, BufferAssumption
    <2> QED
      BY <2>1, <2>2
  <1>4. 0 * size = 0
    OBVIOUS
  <1> QED
    BY <1>1, <1>2, <1>3, <1>4 DEF Ring, EncoderError, GetBufferEffectiveSize, GetReadCursor

LEMMA EncodeRing ==
  ASSUME NEW e, Ring(e), ~EncoderError(e)
  PROVE  LET f == EncodeNextEntry(e) IN
         /\ Ring(f) /\ f.max_entries = e.max_entries /\ f.entry_size = e.entry_size
         /\ f.next = NextIndex(e, e.next)
         /\ f.full = (e.full \/ e.next + 1 >= e.max_entries)
         /\ f.first = IF f.full THEN f.next ELSE 0
  <1> DEFINE f == EncodeNextEntry(e)
  <1>1. f \in Encoders /\ Inside(f) /\ ~EncoderError(f)
    BY EncodeFacts DEF Ring
  <1>2. /\ f.max_entries = e.max_entries /\ f.entry_size = e.entry_size
        /\ f.next = NextIndex(e, e.next)
        /\ f.full = (e.full \/ e.next + 1 >= e.max_entries)
        /\ f.first = IF e.next = e.first /\ e.full THEN NextIndex(e, e.first) ELSE e.first
    BY DEF EncodeNextEntry, Ring, Encoders
  <1>3. f.first = IF f.full THEN f.next ELSE 0
    BY <1>2 DEF Ring, NextIndex, Encoders
  <1> HIDE DEF f
  <1> QED
    BY <1>1, <1>2, <1>3 DEF Ring, EncoderError, GetBufferEffectiveSize, f

\* Every slot is a piece of the buffer, apart from the others.
LEMMA SlotCells ==
  ASSUME NEW e, Ring(e), NEW j \in Nat, j < e.max_entries
  PROVE  /\ j * e.entry_size \in Nat
         /\ j * e.entry_size + e.entry_size <= GetBufferEffectiveSize(e)
         /\ j * e.entry_size \in Cells
         /\ e.entry_size \in Nat \ {0} /\ e.entry_size <= BufferSize
  <1>1. /\ e.max_entries \in Nat /\ e.entry_size \in Nat \ {0} /\ BufferSize \in Nat
        /\ e.max_entries * e.entry_size = GetBufferEffectiveSize(e)
        /\ GetBufferEffectiveSize(e) <= BufferSize
    BY BufferAssumption DEF Ring, Encoders, EncoderError, GetBufferEffectiveSize
  <1>2. /\ j * e.entry_size \in Nat /\ e.max_entries * e.entry_size \in Nat
        /\ j * e.entry_size + e.entry_size <= e.max_entries * e.entry_size
    BY <1>1, SlotsApart
  <1> QED
    BY <1>1, <1>2 DEF Cells

\* An entry goes to its slot, in the buffer, and to no other.
LEMMA WriteFacts ==
  ASSUME Ring(enc), ~EncoderError(enc), buffer \in [Cells -> Chars], NEW s \in Samples
  PROVE  /\ WriteEntry(s) \in [Cells -> Chars]
         /\ \A j \in Nat : j < enc.max_entries =>
              WriteEntry(s)[j * enc.entry_size] =
                IF j = enc.next THEN <<s, 0>> ELSE buffer[j * enc.entry_size]
  <1> DEFINE W == GetWriteCursor(enc)
             size == enc.entry_size
  <1>1. /\ enc.next \in Nat /\ enc.next < enc.max_entries
        /\ W = enc.next * size /\ W \in Nat
        /\ size \in Nat \ {0} /\ size <= BufferSize /\ BufferSize \in Nat
    <2>1. enc.next \in Nat /\ enc.next < enc.max_entries
      BY DEF Ring, Inside, Encoders
    <2> QED
      BY <2>1, SlotCells, BufferAssumption DEF GetWriteCursor
  <1>2. WriteEntry(s) = [i \in Cells |-> IF W <= i /\ i < W + size THEN <<s, i - W>> ELSE buffer[i]]
    BY DEF WriteEntry
  <1>3. ASSUME NEW i \in Cells, W <= i, i < W + size
        PROVE  <<s, i - W>> \in Chars
    <2>1. i - W \in 0 .. BufferSize
      BY <1>1, <1>3 DEF Cells
    <2> QED
      BY <2>1 DEF Chars
  <1>4. WriteEntry(s) \in [Cells -> Chars]
    BY <1>2, <1>3
  <1>5. ASSUME NEW j \in Nat, j < enc.max_entries
        PROVE  WriteEntry(s)[j * size] = IF j = enc.next THEN <<s, 0>> ELSE buffer[j * size]
    <2>1. j * size \in Cells /\ j * size \in Nat
      BY <1>5, SlotCells
    <2>2. CASE j = enc.next
      <3>1. j * size = W
        BY <1>1, <2>2
      <3>2. W \in Cells /\ W <= W /\ W < W + size /\ W - W = 0
        BY <1>1, <2>1, <3>1
      <3>3. WriteEntry(s)[W] = <<s, 0>>
        BY <1>2, <3>2
      <3> QED
        BY <2>2, <3>1, <3>3
    <2>3. CASE j < enc.next
      <3>1. j * size + size <= W
        BY <1>1, <2>3, SlotsApart
      <3>2. ~(W <= j * size)
        BY <1>1, <2>1, <3>1
      <3> QED
        BY <1>2, <2>1, <2>3, <3>2
    <2>4. CASE j > enc.next
      <3>1. W + size <= j * size
        BY <1>1, <2>4, SlotsApart
      <3>2. ~(j * size < W + size)
        BY <1>1, <2>1, <3>1
      <3> QED
        BY <1>2, <2>1, <2>4, <3>2
    <2> QED
      BY <1>1, <2>2, <2>3, <2>4
  <1> QED
    BY <1>4, <1>5

-----------------------------------------------------------------------------
(* The reader *)

\* One iteration of read_dilate_8bits() stays before the end of the ring.
LEMMA CursorFacts ==
  ASSUME Ring(enc), NEW c \in 0 .. GetBufferEffectiveSize(enc), NEW n \in Nat
  PROVE  /\ CopySize(c, n) \in Nat /\ CopySize(c, n) <= n
         /\ c + CopySize(c, n) \in 0 .. GetBufferEffectiveSize(enc)
         /\ NextCursor(c + CopySize(c, n)) \in 0 .. GetBufferEffectiveSize(enc)
         /\ NextCursor(c) \in 0 .. GetBufferEffectiveSize(enc)
  <1> DEFINE end == GetBufferEffectiveSize(enc)
             W == GetWriteCursor(enc)
  <1>1. end \in Nat
    BY EntriesFit
  <1>2. W \in 0 .. end
    <2>1. CASE EncoderError(enc)
      <3>1. enc.next = 0 /\ enc.entry_size \in Nat
        BY <2>1 DEF Ring, Inside, Encoders
      <3>2. W = 0
        BY <3>1 DEF GetWriteCursor
      <3> QED
        BY <1>1, <3>2
    <2>2. CASE ~EncoderError(enc)
      <3>1. enc.next \in Nat /\ enc.next < enc.max_entries
        BY <2>2 DEF Ring, Inside, Encoders
      <3>2. W \in Nat /\ W + enc.entry_size <= end /\ enc.entry_size \in Nat
        BY <3>1, SlotCells DEF GetWriteCursor
      <3> QED
        BY <1>1, <3>2
    <2> QED
      BY <2>1, <2>2
  <1>3. CopySize(c, n) = (LET stop == IF W > c THEN W ELSE end IN IF stop - c < n THEN stop - c ELSE n)
    BY DEF CopySize
  <1>4. \A d \in 0 .. end : NextCursor(d) = IF d > W /\ d >= end THEN d - end ELSE d
    BY DEF NextCursor
  <1> HIDE DEF end, W
  <1>5. /\ CopySize(c, n) \in Nat /\ CopySize(c, n) <= n /\ c + CopySize(c, n) \in 0 .. end
    BY <1>1, <1>2, <1>3 DEF end
  <1>6. \A d \in 0 .. end : NextCursor(d) \in 0 .. end
    BY <1>1, <1>2, <1>4
  <1> QED
    BY <1>5, <1>6 DEF end

LEMMA ReadStep ==
  ASSUME IInv, NEW n \in ReadSizes, Read(n)
  PROVE  IInv'
  <1> DEFINE nothing_left == reader.cursor = GetWriteCursor(enc) /\ reader.started
             k1 == IF nothing_left THEN 0 ELSE CopySize(reader.cursor, n)
             c1 == NextCursor(reader.cursor + k1)
             again == ~nothing_left /\ c1 # GetWriteCursor(enc) /\ k1 < n
             k2 == IF again THEN CopySize(c1, n - k1) ELSE 0
             c2 == IF again THEN NextCursor(c1 + k2) ELSE c1
             end == GetBufferEffectiveSize(enc)
  <1>1. reader'.cursor = c2 /\ reading' \in {"no", "yes", "complete"} /\ UNCHANGED <<enc, buffer, entries>>
    BY DEF Read
  <1>2. n \in Nat /\ reader.cursor \in 0 .. end /\ Ring(enc) /\ end \in Nat
    BY EncoderAssumption, EntriesFit DEF IInv
  <1>3. k1 \in Nat /\ k1 <= n /\ c1 \in 0 .. end
    <2>1. CASE nothing_left
      <3>1. k1 = 0 /\ reader.cursor + 0 = reader.cursor
        BY <1>2, <2>1
      <3>2. NextCursor(reader.cursor) \in 0 .. end
        BY <1>2, CursorFacts
      <3>3. c1 = NextCursor(reader.cursor)
        <4> HIDE DEF k1
        <4> QED
          BY <3>1
      <3> QED
        BY <1>2, <3>1, <3>2, <3>3
    <2>2. CASE ~nothing_left
      BY <1>2, <2>2, CursorFacts
    <2> QED
      BY <2>1, <2>2
  <1>4. c2 \in 0 .. end
    <2> HIDE DEF c1, k1
    <2>1. CASE again
      <3>1. n - k1 \in Nat
        BY <1>2, <1>3
      <3> QED
        BY <1>2, <1>3, <2>1, <3>1, CursorFacts
    <2>2. CASE ~again
      BY <1>3, <2>2
    <2> QED
      BY <2>1, <2>2
  <1> HIDE DEF c2
  <1> QED
    BY <1>1, <1>4 DEF IInv

-----------------------------------------------------------------------------
(* Every step *)

LEMMA ResetStep ==
  ASSUME IInv, NEW size \in EntrySizes, Reset(size)
  PROVE  IInv'
  <1>1. size \in Nat
    BY EncoderAssumption
  <1>2. Ring(enc') /\ GetReadCursor(enc') = 0
    BY <1>1, ResetRing DEF Reset
  <1>3. GetBufferEffectiveSize(enc') \in Nat /\ enc'.max_entries \in Nat
    BY <1>2, EntriesFit DEF Ring, Encoders
  <1>4. reader'.cursor = 0 /\ reading' = "no" /\ entries' = << >> /\ buffer' = buffer
    BY <1>2 DEF Reset, ReaderReset
  <1> QED
    BY <1>2, <1>3, <1>4 DEF IInv

LEMMA EncodeStep ==
  ASSUME IInv, NEW s \in Samples, Encode(s)
  PROVE  IInv'
  <1>1. /\ Ring(enc) /\ ~EncoderError(enc) /\ enc' = EncodeNextEntry(enc) /\ reader' = reader
        /\ reading' = "no" /\ buffer' = WriteEntry(s)
    BY DEF IInv, Encode
  <1>2. Ring(enc') /\ enc'.max_entries = enc.max_entries /\ enc'.entry_size = enc.entry_size
    BY <1>1, EncodeRing
  <1>3. buffer' \in [Cells -> Chars]
    BY <1>1, WriteFacts DEF IInv
  <1>4. GetBufferEffectiveSize(enc') = GetBufferEffectiveSize(enc)
    BY <1>2 DEF GetBufferEffectiveSize
  <1>5. entries' \in Seq(Samples) /\ Len(entries') <= enc.max_entries
    <2>1. entries \in Seq(Samples) /\ Len(entries) <= enc.max_entries /\ enc.max_entries \in Nat \ {0}
      BY <1>1 DEF IInv, Ring, Encoders, EncoderError
    <2>2. entries' = Append(IF Len(entries) < enc.max_entries THEN entries ELSE Tail(entries), s)
      BY DEF Encode
    <2>3. CASE Len(entries) < enc.max_entries
      BY <2>1, <2>2, <2>3
    <2>4. CASE Len(entries) >= enc.max_entries
      <3>1. entries # << >> /\ Len(entries) = enc.max_entries
        BY <2>1, <2>4
      <3>2. Tail(entries) \in Seq(Samples) /\ Len(Tail(entries)) = enc.max_entries - 1
        BY <2>1, <3>1
      <3> QED
        BY <2>1, <2>2, <2>4, <3>2
    <2> QED
      BY <2>1, <2>3, <2>4
  <1> QED
    BY <1>1, <1>2, <1>3, <1>4, <1>5 DEF IInv

LEMMA StartStep ==
  ASSUME IInv, StartReading
  PROVE  IInv'
  <1>1. /\ Ring(enc) /\ ~EncoderError(enc) /\ UNCHANGED <<enc, buffer, entries>>
        /\ reader'.cursor = enc.first * enc.entry_size /\ reading' = "yes"
    BY DEF IInv, StartReading, ReaderReset, GetReadCursor
  <1>2. enc.first \in Nat /\ enc.first < enc.max_entries
    BY <1>1 DEF Ring, Inside, Encoders
  <1>3. reader'.cursor \in 0 .. GetBufferEffectiveSize(enc)
    <2>1. /\ reader'.cursor \in Nat /\ enc.entry_size \in Nat /\ GetBufferEffectiveSize(enc) \in Nat
          /\ reader'.cursor + enc.entry_size <= GetBufferEffectiveSize(enc)
      BY <1>1, <1>2, SlotCells, EntriesFit
    <2> QED
      BY <2>1
  <1> QED
    BY <1>1, <1>3 DEF IInv

LEMMA InductiveStep ==
  ASSUME IInv, [Next]_vars
  PROVE  IInv'
  <1>1. CASE UNCHANGED vars
    BY <1>1 DEF vars, IInv
  <1>2. CASE Next
    BY <1>2, ResetStep, EncodeStep, StartStep, ReadStep DEF Next
  <1> QED
    BY <1>1, <1>2

THEOREM InductiveInvariant == Spec => []IInv
  <1>1. Init => IInv
    <2> SUFFICES ASSUME Init PROVE IInv
      OBVIOUS
    <2>1. Ring(EncoderReset(0)) /\ GetReadCursor(EncoderReset(0)) = 0
      BY ResetRing
    <2>2. /\ Ring(enc) /\ reader.cursor = 0 /\ GetBufferEffectiveSize(enc) \in Nat
          /\ enc.max_entries \in Nat
      BY <2>1, EntriesFit DEF Init, ReaderReset, Ring, Encoders
    <2>3. buffer \in [Cells -> Chars]
      BY DEF Init, Chars
    <2>4. entries \in Seq(Samples) /\ Len(entries) = 0 /\ reading = "no"
      BY DEF Init
    <2> QED
      BY <2>2, <2>3, <2>4 DEF IInv
  <1> QED
    BY <1>1, InductiveStep, PTL DEF Spec

\* The indices of RawFormatEncoder and the cursor of RawFormatReader stay inside the
\* buffer, and only samples are written to it.
THEOREM CursorsInside == Spec => []TypeOK
  BY InductiveInvariant, InvariantIsStronger, PTL

-----------------------------------------------------------------------------
(* The window *)

Values == Samples \union {0}

\* The slot of the k-th entry of the ring e, the oldest being the first, and the entries.
Slot(e, k) == (e.first + k - 1) % e.max_entries
StoredIn(e, b) == [k \in 1 .. GetEntryCount(e) |-> b[Slot(e, k) * e.entry_size][1]]

LEMMA SlotAt ==
  ASSUME NEW e, Ring(e), ~EncoderError(e), NEW k \in 1 .. e.max_entries,
         NEW n \in Nat, e.first + k - 1 = n
  PROVE  /\ Slot(e, k) = IF n < e.max_entries THEN n ELSE n - e.max_entries
         /\ Slot(e, k) \in Nat /\ Slot(e, k) < e.max_entries
  <1>1. /\ e.first \in Nat /\ e.max_entries \in Nat \ {0} /\ e.first < e.max_entries
        /\ k \in Nat /\ k <= e.max_entries
    BY DEF Ring, Inside, Encoders, EncoderError
  <1>2. n < 2 * e.max_entries
    BY <1>1
  <1>3. n % e.max_entries = IF n < e.max_entries THEN n ELSE n - e.max_entries
    BY <1>1, <1>2, SmallMod
  <1>4. Slot(e, k) = n % e.max_entries
    BY DEF Slot
  <1> QED
    BY <1>1, <1>2, <1>3, <1>4

LEMMA CountFacts ==
  ASSUME NEW e, Ring(e)
  PROVE  /\ GetEntryCount(e) \in Nat /\ GetEntryCount(e) <= e.max_entries
         /\ GetEntryCount(e) = IF e.full THEN e.max_entries ELSE e.next
  BY DEF Ring, Inside, Encoders, EncoderError, GetEntryCount

LEMMA StoredIs ==
  ASSUME NEW e, NEW b, Ring(e), b \in [Cells -> Chars]
  PROVE  /\ StoredIn(e, b) \in Seq(Values) /\ Len(StoredIn(e, b)) = GetEntryCount(e)
         /\ \A k \in 1 .. GetEntryCount(e) : StoredIn(e, b)[k] = b[Slot(e, k) * e.entry_size][1]
  <1> DEFINE n == GetEntryCount(e)
             stored == StoredIn(e, b)
  <1>1. n \in Nat /\ n <= e.max_entries /\ e.max_entries \in Nat
    BY CountFacts DEF Ring, Encoders
  <1>2. stored = [k \in 1 .. n |-> b[Slot(e, k) * e.entry_size][1]]
    BY DEF StoredIn
  <1>3. ASSUME NEW k \in 1 .. n
        PROVE  b[Slot(e, k) * e.entry_size][1] \in Values
    <2>1. ~EncoderError(e) /\ k \in 1 .. e.max_entries
      BY <1>1 DEF EncoderError
    <2>2. Slot(e, k) \in Nat /\ Slot(e, k) < e.max_entries
      <3> DEFINE place == e.first + k - 1
      <3>1. place \in Nat
        BY <2>1 DEF Ring, Encoders
      <3> QED
        BY <2>1, <3>1, SlotAt
    <2>3. Slot(e, k) * e.entry_size \in Cells
      BY <2>2, SlotCells
    <2>4. b[Slot(e, k) * e.entry_size] \in Chars
      BY <2>3
    <2> QED
      BY <2>4 DEF Chars, Garbage, Values
  <1> HIDE DEF n, stored
  <1>4. stored \in [1 .. n -> Values]
    BY <1>2, <1>3
  <1>5. stored \in Seq(Values) /\ Len(stored) = n
    BY <1>1, <1>4, SeqDef
  <1> QED
    BY <1>2, <1>5 DEF n, stored

\* encode_next_entry() leaves the entries in their slots, but for the oldest one of a full
\* ring, which gives its slot to the new one.
LEMMA EncodeSlots ==
  ASSUME NEW e, Ring(e), ~EncoderError(e)
  PROVE  LET f == EncodeNextEntry(e)
             kept == IF e.full THEN e.max_entries - 1 ELSE e.next
             drop == GetEntryCount(e) - kept
         IN /\ kept \in Nat /\ kept < e.max_entries /\ drop \in Nat
            /\ GetEntryCount(f) = kept + 1
            /\ Slot(f, kept + 1) = e.next
            /\ \A k \in 1 .. kept : /\ Slot(f, k) = Slot(e, k + drop)
                                    /\ Slot(f, k) # e.next
                                    /\ k + drop \in 1 .. GetEntryCount(e)
  <1> DEFINE f == EncodeNextEntry(e)
             m == e.max_entries
             kept == IF e.full THEN m - 1 ELSE e.next
             drop == GetEntryCount(e) - kept
  <1>1. /\ Ring(f) /\ f.max_entries = m /\ f.entry_size = e.entry_size
        /\ f.next = NextIndex(e, e.next)
        /\ f.full = (e.full \/ e.next + 1 >= m)
        /\ f.first = IF f.full THEN f.next ELSE 0
    BY EncodeRing
  <1>2. /\ m \in Nat \ {0} /\ e.next \in Nat /\ e.next < m /\ e.full \in BOOLEAN
        /\ e.first = IF e.full THEN e.next ELSE 0
        /\ NextIndex(e, e.next) = IF e.next + 1 >= m THEN 0 ELSE e.next + 1
    BY DEF Ring, Inside, Encoders, EncoderError, NextIndex
  <1>3. GetEntryCount(e) = (IF e.full THEN m ELSE e.next) /\ GetEntryCount(f) = IF f.full THEN m ELSE f.next
    BY <1>1, CountFacts
  <1>4. ~EncoderError(f)
    BY <1>1, <1>2 DEF EncoderError
  <1> HIDE DEF f, m
  <1>5. /\ kept \in Nat /\ kept < m /\ kept = IF e.full THEN m - 1 ELSE e.next
        /\ drop = IF e.full THEN 1 ELSE 0
    BY <1>2, <1>3
  <1> HIDE DEF kept, drop
  <1>6. GetEntryCount(f) = kept + 1
    <2>1. CASE e.full
      <3>1. f.full /\ kept = m - 1
        BY <1>1, <1>5, <2>1
      <3> QED
        BY <1>2, <1>3, <3>1
    <2>2. CASE ~e.full /\ e.next + 1 >= m
      <3>1. f.full /\ kept = e.next /\ e.next + 1 = m
        <4>1. f.full
          BY <1>1, <2>2
        <4>2. kept = e.next
          BY <1>5, <2>2
        <4>3. e.next + 1 = m
          BY <1>2, <2>2
        <4> QED
          BY <4>1, <4>2, <4>3
      <3> QED
        BY <1>2, <1>3, <3>1
    <2>3. CASE ~e.full /\ e.next + 1 < m
      BY <1>1, <1>2, <1>3, <1>5, <2>3
    <2> QED
      BY <1>2, <2>1, <2>2, <2>3
  <1>7. ASSUME NEW k \in 1 .. m, NEW n \in Nat
        PROVE  /\ e.first + k - 1 = n => Slot(e, k) = IF n < m THEN n ELSE n - m
               /\ f.first + k - 1 = n => Slot(f, k) = IF n < m THEN n ELSE n - m
    <2>1. k \in 1 .. e.max_entries /\ m = e.max_entries /\ f.max_entries = e.max_entries
      BY <1>1 DEF m
    <2>2. ASSUME e.first + k - 1 = n
          PROVE  Slot(e, k) = IF n < m THEN n ELSE n - m
      BY <2>1, <2>2, SlotAt
    <2>3. ASSUME f.first + k - 1 = n
          PROVE  Slot(f, k) = IF n < m THEN n ELSE n - m
      BY <1>1, <1>4, <2>1, <2>3, SlotAt
    <2> QED
      BY <2>2, <2>3
  <1>8. Slot(f, kept + 1) = e.next
    <2>1. kept + 1 \in 1 .. m
      BY <1>2, <1>5
    <2>2. f.first = 0 => Slot(f, kept + 1) = kept
      <3>1. 0 + (kept + 1) - 1 = kept /\ kept \in Nat
        BY <1>5
      <3> QED
        BY <1>5, <1>7, <2>1, <3>1
    <2>3. ASSUME f.first \in Nat, f.first + kept = e.next + m
          PROVE  Slot(f, kept + 1) = e.next
      <3>1. f.first + (kept + 1) - 1 = e.next + m /\ e.next + m \in Nat
        BY <1>2, <1>5, <2>3
      <3>2. ~(e.next + m < m) /\ e.next + m - m = e.next
        BY <1>2
      <3>3. Slot(f, kept + 1) = IF e.next + m < m THEN e.next + m ELSE e.next + m - m
        <4> DEFINE n == e.next + m
        <4> HIDE DEF n
        <4>1. n \in Nat /\ f.first + (kept + 1) - 1 = n
          BY <3>1 DEF n
        <4>2. Slot(f, kept + 1) = IF n < m THEN n ELSE n - m
          BY <1>7, <2>1, <4>1
        <4> QED
          BY <1>2, <4>2 DEF n
      <3> QED
        BY <3>2, <3>3
    <2>4. CASE e.full
      <3>1. kept = m - 1 /\ f.first = IF e.next + 1 >= m THEN 0 ELSE e.next + 1
        BY <1>1, <1>2, <1>5, <2>4
      <3>2. CASE e.next + 1 >= m
        <4>1. f.first = 0 /\ e.next = m - 1
          BY <1>2, <3>1, <3>2
        <4> QED
          BY <2>2, <3>1, <4>1
      <3>3. CASE e.next + 1 < m
        <4>1. f.first \in Nat /\ f.first + kept = e.next + m
          BY <1>2, <3>1, <3>3
        <4> QED
          BY <2>3, <4>1
      <3> QED
        BY <1>2, <3>2, <3>3
    <2>5. CASE ~e.full
      <3>1. kept = e.next /\ f.first = 0
        BY <1>1, <1>2, <1>5, <2>5
      <3> QED
        BY <2>2, <3>1
    <2> QED
      BY <2>4, <2>5
  <1>9. ASSUME NEW k \in 1 .. kept
        PROVE  Slot(f, k) = Slot(e, k + drop) /\ Slot(f, k) # e.next /\ k + drop \in 1 .. GetEntryCount(e)
    <2>1. CASE e.full
      <3>1. kept = m - 1 /\ drop = 1 /\ k \in 1 .. m /\ k + 1 \in 1 .. m /\ k \in Nat /\ k < m /\ k > 0
        BY <1>2, <1>5, <2>1
      <3>2. f.first = (IF e.next + 1 >= m THEN 0 ELSE e.next + 1) /\ e.first = e.next
        BY <1>1, <1>2, <2>1
      <3>3. /\ Slot(e, k + 1) = IF e.next + k < m THEN e.next + k ELSE e.next + k - m
            /\ Slot(f, k) = IF f.first + k - 1 < m THEN f.first + k - 1 ELSE f.first + k - 1 - m
        <4>1. e.first + (k + 1) - 1 = e.next + k /\ e.next + k \in Nat /\ f.first + k - 1 \in Nat
          BY <1>2, <3>1, <3>2
        <4> DEFINE n == e.next + k
                   o == f.first + k - 1
        <4>2. n \in Nat /\ o \in Nat /\ e.first + (k + 1) - 1 = n /\ f.first + k - 1 = o
          BY <4>1
        <4> HIDE DEF n, o
        <4>3. /\ Slot(e, k + 1) = IF n < m THEN n ELSE n - m
              /\ Slot(f, k) = IF o < m THEN o ELSE o - m
          BY <1>7, <3>1, <4>2
        <4>4. e.next \in Nat /\ m \in Nat /\ k \in Nat /\ f.first \in Nat
          BY <1>2, <3>1, <3>2
        <4> QED
          BY <4>3, <4>4 DEF n, o
      <3> QED
        BY <1>2, <1>3, <2>1, <3>1, <3>2, <3>3
    <2>2. CASE ~e.full
      <3>1. kept = e.next /\ drop = 0 /\ k \in 1 .. m /\ k + 0 = k /\ k \in Nat /\ k <= e.next /\ k > 0
        BY <1>2, <1>5, <2>2
      <3>2. f.first = 0 /\ e.first = 0
        BY <1>1, <1>2, <2>2
      <3>3. Slot(e, k) = k - 1 /\ Slot(f, k) = k - 1
        <4>1. 0 + k - 1 = k - 1 /\ k - 1 < m /\ k - 1 \in Nat
          BY <1>2, <3>1
        <4>2. /\ Slot(e, k) = IF k - 1 < m THEN k - 1 ELSE k - 1 - m
              /\ Slot(f, k) = IF k - 1 < m THEN k - 1 ELSE k - 1 - m
          BY <1>7, <3>1, <3>2, <4>1
        <4> QED
          BY <4>1, <4>2
      <3> QED
        BY <1>2, <1>3, <2>2, <3>1, <3>3
    <2> QED
      BY <2>1, <2>2
  <1>10. drop \in Nat
    BY <1>5
  <1>11. /\ kept \in Nat /\ kept < m /\ drop \in Nat
         /\ GetEntryCount(f) = kept + 1 /\ Slot(f, kept + 1) = e.next
         /\ \A k \in 1 .. kept : /\ Slot(f, k) = Slot(e, k + drop) /\ Slot(f, k) # e.next
                                 /\ k + drop \in 1 .. GetEntryCount(e)
    BY <1>5, <1>6, <1>8, <1>9, <1>10
  <1> QED
    BY <1>11 DEF f, m, kept, drop

\* An entry is added to the window at its end, and a full one forgets its first.
LEMMA EncodeRemembers ==
  ASSUME IInv, NEW s \in Samples, Encode(s)
  PROVE  /\ enc.max_entries > 0 /\ enc'.max_entries = enc.max_entries
         /\ Stored' = IF Len(Stored) < enc.max_entries THEN Append(Stored, s) ELSE Append(Tail(Stored), s)
  <1> DEFINE m == enc.max_entries
             kept == IF enc.full THEN m - 1 ELSE enc.next
             drop == GetEntryCount(enc) - kept
             S == StoredIn(enc, buffer)
             T == StoredIn(enc', buffer')
  <1>1. /\ Ring(enc) /\ ~EncoderError(enc) /\ enc' = EncodeNextEntry(enc) /\ buffer' = WriteEntry(s)
        /\ buffer \in [Cells -> Chars]
    BY DEF IInv, Encode
  <1>2. /\ Ring(enc') /\ enc'.max_entries = m /\ enc'.entry_size = enc.entry_size
        /\ buffer' \in [Cells -> Chars]
    BY <1>1, EncodeRing, WriteFacts
  <1>3. /\ kept \in Nat /\ kept < m /\ drop \in Nat
        /\ GetEntryCount(enc') = kept + 1
        /\ Slot(enc', kept + 1) = enc.next
        /\ \A k \in 1 .. kept : /\ Slot(enc', k) = Slot(enc, k + drop)
                                /\ Slot(enc', k) # enc.next
                                /\ k + drop \in 1 .. GetEntryCount(enc)
    BY <1>1, EncodeSlots
  <1>4. m \in Nat \ {0} /\ enc.next \in Nat /\ GetEntryCount(enc) = IF enc.full THEN m ELSE enc.next
    BY <1>1, CountFacts DEF Ring, Encoders, EncoderError
  <1>5. /\ kept = (IF enc.full THEN m - 1 ELSE enc.next) /\ drop = GetEntryCount(enc) - kept
    OBVIOUS
  <1> HIDE DEF kept, drop, m
  <1>6. /\ S \in Seq(Values) /\ Len(S) = GetEntryCount(enc)
        /\ \A k \in 1 .. GetEntryCount(enc) : S[k] = buffer[Slot(enc, k) * enc.entry_size][1]
    BY <1>1, StoredIs
  <1>7. /\ T \in Seq(Values) /\ Len(T) = kept + 1
        /\ \A k \in 1 .. kept + 1 : T[k] = buffer'[Slot(enc', k) * enc.entry_size][1]
    BY <1>2, <1>3, StoredIs
  <1>8. ASSUME NEW k \in 1 .. kept + 1
        PROVE  Slot(enc', k) \in Nat /\ Slot(enc', k) < m
    <2> DEFINE n == enc'.first + k - 1
    <2>1. n \in Nat /\ k \in 1 .. enc'.max_entries /\ ~EncoderError(enc')
      BY <1>2, <1>3, <1>4 DEF Ring, Encoders, EncoderError
    <2> QED
      BY <1>2, <2>1, SlotAt
  <1>9. T[kept + 1] = s
    <2>1. kept + 1 \in 1 .. kept + 1
      BY <1>3
    <2>2. buffer'[enc.next * enc.entry_size] = <<s, 0>>
      BY <1>1, <1>3, <1>8, <2>1, WriteFacts DEF m
    <2> QED
      BY <1>3, <1>7, <2>1, <2>2
  <1>10. ASSUME NEW k \in 1 .. kept
         PROVE  T[k] = S[k + drop]
    <2>1. k \in 1 .. kept + 1
      BY <1>3
    <2>2. buffer'[Slot(enc', k) * enc.entry_size] = buffer[Slot(enc', k) * enc.entry_size]
      BY <1>1, <1>3, <1>8, <2>1, WriteFacts DEF m
    <2> QED
      BY <1>3, <1>6, <1>7, <2>1, <2>2
  <1>11. Stored = S /\ Stored' = T
    BY DEF Stored, StoredIn, Slot
  <1> HIDE DEF S, T
  <1>12. CASE ~enc.full
    <2>1. kept = Len(S) /\ drop = 0 /\ Len(S) < m
      BY <1>3, <1>4, <1>5, <1>6, <1>12
    <2>2. \A k \in 1 .. kept : T[k] = S[k]
      <3>1. \A k \in 1 .. kept : k + drop = k
        BY <1>3, <2>1
      <3> QED
        BY <1>10, <3>1
    <2>3. T = Append(S, s)
      <3>1. Append(S, s) \in Seq(Values) /\ Len(Append(S, s)) = kept + 1
        BY <1>6, <2>1 DEF Values
      <3>2. \A k \in 1 .. kept + 1 : T[k] = Append(S, s)[k]
        BY <1>3, <1>6, <1>9, <2>1, <2>2
      <3> QED
        BY <1>7, <3>1, <3>2, SeqEqual
    <2> QED
      BY <1>2, <1>4, <1>11, <2>1, <2>3 DEF m
  <1>13. CASE enc.full
    <2>1. kept = m - 1 /\ drop = 1 /\ Len(S) = m /\ S # << >>
      BY <1>3, <1>4, <1>5, <1>6, <1>13
    <2>2. /\ Tail(S) \in Seq(Values) /\ Len(Tail(S)) = kept
          /\ \A k \in 1 .. kept : Tail(S)[k] = S[k + 1]
      BY <1>4, <1>6, <2>1, HeadTailProperties
    <2>3. T = Append(Tail(S), s)
      <3>1. Append(Tail(S), s) \in Seq(Values) /\ Len(Append(Tail(S), s)) = kept + 1
        BY <2>2 DEF Values
      <3>2. \A k \in 1 .. kept + 1 : T[k] = Append(Tail(S), s)[k]
        BY <1>3, <1>9, <1>10, <2>1, <2>2
      <3> QED
        BY <1>7, <3>1, <3>2, SeqEqual
    <2> QED
      BY <1>2, <1>4, <1>11, <2>1, <2>3 DEF m
  <1> QED
    BY <1>12, <1>13

\* A ring that was just reset remembers nothing.
LEMMA EmptyWindow ==
  ASSUME NEW size \in Nat, NEW b \in [Cells -> Chars]
  PROVE  StoredIn(EncoderReset(size), b) = << >> /\ EncoderReset(size).max_entries \in Nat
  <1> DEFINE e == EncoderReset(size)
  <1>1. Ring(e) /\ GetEntryCount(e) = 0 /\ e.max_entries \in Nat
    BY ResetRing DEF Ring, Encoders, EncoderReset, GetEntryCount
  <1> HIDE DEF e
  <1>2. StoredIn(e, b) \in Seq(Values) /\ Len(StoredIn(e, b)) = 0
    BY <1>1, StoredIs
  <1>3. StoredIn(e, b) = << >>
    BY <1>2, EmptySeq
  <1> QED
    BY <1>1, <1>3 DEF e

\* The bookkeeping of RawFormatEncoder implements the abstract window: whatever the sizes
\* of the buffer and of the entries, the slots from the first valid one hold the latest
\* entries in order, and only encode_next_entry() and reset() change them.
THEOREM WindowImplemented == Spec => ImplementsWindow
  <1> DEFINE WNext == Window!WindowNext
             wvars == Window!windowVars
  <1>1. Init => Window!WindowInit
    <2> SUFFICES ASSUME Init PROVE Window!WindowInit
      OBVIOUS
    <2>1. buffer \in [Cells -> Chars] /\ enc = EncoderReset(0)
      BY DEF Init, Chars
    <2>2. StoredIn(enc, buffer) = << >> /\ enc.max_entries = 0
      <3>1. EncoderReset(0).max_entries = 0
        BY DEF EncoderReset
      <3> QED
        BY <2>1, <3>1, EmptyWindow
    <2>3. Stored = StoredIn(enc, buffer)
      BY DEF Stored, StoredIn, Slot
    <2> QED
      BY <2>2, <2>3 DEF Window!WindowInit
  <1>2. IInv /\ [Next]_vars => [Window!WindowNext]_(Window!windowVars)
    <2> SUFFICES ASSUME IInv, [Next]_vars PROVE WNext \/ UNCHANGED wvars
      OBVIOUS
    <2>1. UNCHANGED <<enc, buffer>> => UNCHANGED wvars
      BY DEF Window!windowVars, Stored, GetEntryCount
    <2>2. CASE UNCHANGED vars
      BY <2>1, <2>2 DEF vars
    <2>3. ASSUME NEW size \in EntrySizes, Reset(size)
          PROVE  WNext
      <3>1. size \in Nat /\ buffer' \in [Cells -> Chars] /\ enc' = EncoderReset(size)
        BY <2>3, EncoderAssumption DEF IInv, Reset
      <3>2. StoredIn(enc', buffer') = << >> /\ enc'.max_entries \in Nat
        BY <3>1, EmptyWindow
      <3>3. Stored' = StoredIn(enc', buffer')
        BY DEF Stored, StoredIn, Slot
      <3> QED
        BY <3>2, <3>3 DEF Window!WindowNext, Window!Clear
    <2>4. ASSUME NEW s \in Samples, Encode(s)
          PROVE  WNext
      BY <2>4, EncodeRemembers DEF Window!WindowNext, Window!Remember
    <2>5. CASE StartReading \/ \E n \in ReadSizes : Read(n)
      BY <2>1, <2>5 DEF StartReading, Read
    <2> QED
      BY <2>2, <2>3, <2>4, <2>5 DEF Next
  <1> QED
    BY <1>1, <1>2, InductiveInvariant, PTL DEF Spec, ImplementsWindow, Window!WindowSpec

-----------------------------------------------------------------------------
(* The chars of the entries *)

\* Every char of the entries is in its place in the slots.
Holds(e, b, ss) ==
    /\ Len(ss) = GetEntryCount(e)
    /\ \A k \in 1 .. GetEntryCount(e), o \in 0 .. e.entry_size - 1 :
          b[Slot(e, k) * e.entry_size + o] = <<ss[k], o>>

Total(e) == GetEntryCount(e) * e.entry_size

\* Where the reader finds the p-th char (from 0), and what it should find.
Place(e, p) ==
    IF GetReadCursor(e) + p < GetBufferEffectiveSize(e)
    THEN GetReadCursor(e) + p ELSE (GetReadCursor(e) + p) - GetBufferEffectiveSize(e)
CharAt(ss, size, p) == <<ss[(p \div size) + 1], p % size>>

LEMMA Cursors ==
  ASSUME NEW e, Ring(e), ~EncoderError(e)
  PROVE  /\ e.entry_size \in Nat \ {0} /\ e.max_entries \in Nat \ {0}
         /\ GetReadCursor(e) \in Nat /\ GetReadCursor(e) + e.entry_size <= GetBufferEffectiveSize(e)
         /\ GetWriteCursor(e) \in Nat /\ GetWriteCursor(e) + e.entry_size <= GetBufferEffectiveSize(e)
         /\ GetBufferEffectiveSize(e) \in Nat /\ GetBufferEffectiveSize(e) <= BufferSize
         /\ GetBufferEffectiveSize(e) = e.max_entries * e.entry_size
         /\ Total(e) = IF e.full THEN GetBufferEffectiveSize(e) ELSE GetWriteCursor(e)
         /\ GetReadCursor(e) = IF e.full THEN GetWriteCursor(e) ELSE 0
         /\ e.full \in BOOLEAN
  <1>1. /\ e.next \in Nat /\ e.next < e.max_entries /\ e.first \in Nat /\ e.first < e.max_entries
        /\ e.max_entries \in Nat \ {0} /\ e.entry_size \in Nat \ {0} /\ e.full \in BOOLEAN
        /\ e.first = IF e.full THEN e.next ELSE 0
    BY DEF Ring, Inside, Encoders, EncoderError
  <1>2. GetBufferEffectiveSize(e) = e.max_entries * e.entry_size
    BY <1>1 DEF GetBufferEffectiveSize
  <1>3. /\ GetReadCursor(e) \in Nat /\ GetReadCursor(e) + e.entry_size <= GetBufferEffectiveSize(e)
        /\ GetWriteCursor(e) \in Nat /\ GetWriteCursor(e) + e.entry_size <= GetBufferEffectiveSize(e)
    BY <1>1, SlotCells DEF GetReadCursor, GetWriteCursor
  <1>4. 0 * e.entry_size = 0
    BY <1>1
  <1>5. GetReadCursor(e) = IF e.full THEN GetWriteCursor(e) ELSE 0
    BY <1>1, <1>4 DEF GetReadCursor, GetWriteCursor
  <1>6. Total(e) = IF e.full THEN GetBufferEffectiveSize(e) ELSE GetWriteCursor(e)
    BY <1>1, <1>2 DEF Total, GetEntryCount, GetWriteCursor
  <1> QED
    BY <1>1, <1>2, <1>3, <1>5, <1>6, EntriesFit

\* What the ring holds is found by going around it from the read cursor.
LEMMA CharsInPlace ==
  ASSUME NEW e, Ring(e), ~EncoderError(e), NEW b, NEW ss, Holds(e, b, ss), NEW p \in Nat, p < Total(e)
  PROVE  b[Place(e, p)] = CharAt(ss, e.entry_size, p)
  <1> DEFINE m == e.max_entries
             size == e.entry_size
  <1>1. /\ size \in Nat \ {0} /\ m \in Nat \ {0} /\ e.first \in Nat /\ e.first < m
        /\ GetEntryCount(e) \in Nat /\ GetEntryCount(e) <= m
        /\ GetBufferEffectiveSize(e) = m * size /\ GetReadCursor(e) = e.first * size
    BY Cursors, CountFacts DEF Ring, Inside, Encoders, EncoderError, GetReadCursor
  <1>2. PICK q \in Nat, r \in 0 .. size - 1 :
           q < GetEntryCount(e) /\ q = p \div size /\ r = p % size /\ p = q * size + r
    BY <1>1, PieceOf DEF Total
  <1> DEFINE n == e.first + q
  <1>3. n \in Nat /\ e.first + (q + 1) - 1 = n /\ q + 1 \in 1 .. m /\ q + 1 \in 1 .. GetEntryCount(e)
    <2> HIDE DEF m, size
    <2> QED
      BY <1>1, <1>2
  <1>4. Slot(e, q + 1) = IF n < m THEN n ELSE n - m
    BY <1>3, SlotAt
  <1>5. b[Slot(e, q + 1) * size + r] = <<ss[q + 1], r>>
    BY <1>2, <1>3 DEF Holds
  <1>6. GetReadCursor(e) + p = n * size + r
    <2>1. n * size = e.first * size + q * size
      BY <1>1
    <2>2. e.first * size \in Nat /\ q * size \in Nat
      BY <1>1
    <2> QED
      BY <1>1, <1>2, <2>1, <2>2
  <1>7. Place(e, p) = Slot(e, q + 1) * size + r
    <2>1. Place(e, p) = IF n * size + r < m * size THEN n * size + r ELSE n * size + r - m * size
      BY <1>1, <1>6 DEF Place
    <2>2. n * size \in Nat /\ m * size \in Nat
      BY <1>1, <1>3
    <2> HIDE DEF n, m, size
    <2>3. CASE n < m
      <3>1. n * size + size <= m * size
        BY <1>1, <1>3, <2>3, SlotsApart
      <3>2. n * size + r < m * size
        BY <1>1, <1>2, <2>2, <3>1
      <3> QED
        BY <1>4, <2>1, <2>3, <3>2
    <2>4. CASE n >= m
      <3>1. PICK d \in Nat : d = n - m /\ n = m + d
        BY <1>1, <1>3, <2>4
      <3>2. n * size = m * size + d * size /\ d * size \in Nat
        BY <1>1, <3>1
      <3>3. ~(n * size + r < m * size) /\ n * size + r - m * size = d * size + r
        BY <1>1, <1>2, <2>2, <3>2
      <3> QED
        BY <1>1, <1>3, <1>4, <2>1, <2>4, <3>1, <3>3
    <2> QED
      BY <1>1, <1>3, <2>3, <2>4
  <1> QED
    BY <1>2, <1>5, <1>7 DEF CharAt

\* The write cursor is where all has been read.
LEMMA LastPlace ==
  ASSUME NEW e, Ring(e), ~EncoderError(e), NEW p \in 1 .. Total(e)
  PROVE  Place(e, p) = GetWriteCursor(e) <=> p = Total(e)
  BY Cursors DEF Place

\* One iteration of read_dilate_8bits() copies the chars of consecutive places.
LEMMA Iteration ==
  ASSUME Ring(enc), ~EncoderError(enc), NEW p \in Nat, p < Total(enc), NEW n \in Nat \ {0},
         NEW c, c = Place(enc, p)
  PROVE  /\ CopySize(c, n) \in 1 .. n /\ p + CopySize(c, n) <= Total(enc)
         /\ \A i \in 1 .. CopySize(c, n) : c + i - 1 = Place(enc, p + i - 1)
         /\ NextCursor(c + CopySize(c, n)) = Place(enc, p + CopySize(c, n))
  <1> DEFINE R == GetReadCursor(enc)
             W == GetWriteCursor(enc)
             end == GetBufferEffectiveSize(enc)
             total == Total(enc)
             k == CopySize(c, n)
             stop == IF W > c THEN W ELSE end
  <1>1. /\ R \in Nat /\ R < end /\ W \in Nat /\ W < end /\ end \in Nat /\ enc.full \in BOOLEAN
        /\ total = (IF enc.full THEN end ELSE W) /\ R = IF enc.full THEN W ELSE 0
    BY Cursors
  <1>2. \A i \in Nat : Place(enc, i) = IF R + i < end THEN R + i ELSE (R + i) - end
    BY DEF Place
  <1>3. k = IF stop - c < n THEN stop - c ELSE n
    BY DEF CopySize
  <1>4. \A d \in Nat : NextCursor(d) = IF d > W /\ d >= end THEN d - end ELSE d
    BY DEF NextCursor
  <1>5. p < total
    OBVIOUS
  <1> HIDE DEF R, W, end, total, k
  <1>6. c \in Nat /\ c < end /\ c = IF R + p < end THEN R + p ELSE (R + p) - end
    BY <1>1, <1>2, <1>5
  <1>7. stop \in Nat /\ c < stop /\ p + (stop - c) <= total /\ stop <= end
        /\ (R + p >= end => stop = W)
    BY <1>1, <1>5, <1>6
  <1> HIDE DEF stop
  <1>8. k \in 1 .. n /\ k <= stop - c
    BY <1>3, <1>6, <1>7
  <1>9. p + k <= total /\ c + k <= end
    BY <1>1, <1>6, <1>7, <1>8
  <1>10. ASSUME NEW i \in 1 .. k PROVE c + i - 1 = Place(enc, p + i - 1)
    <2> DEFINE q == p + i - 1
    <2>1. q \in Nat /\ q = p + i - 1
      BY <1>8
    <2> HIDE DEF q
    <2>2. Place(enc, q) = IF R + q < end THEN R + q ELSE (R + q) - end
      BY <1>2, <2>1
    <2>3. Place(enc, q) = c + i - 1
      BY <1>1, <1>5, <1>6, <1>8, <1>9, <2>1, <2>2
    <2> QED
      BY <2>3 DEF q
  <1>11. NextCursor(c + k) = Place(enc, p + k)
    <2>1. c + k \in Nat /\ p + k \in Nat
      BY <1>6, <1>8
    <2>2. /\ Place(enc, p + k) = IF R + (p + k) < end THEN R + (p + k) ELSE (R + (p + k)) - end
          /\ NextCursor(c + k) = IF c + k > W /\ c + k >= end THEN (c + k) - end ELSE c + k
      <3> DEFINE d == c + k
                 q == p + k
      <3>1. d \in Nat /\ q \in Nat
        BY <2>1
      <3> HIDE DEF d, q
      <3>2. Place(enc, q) = IF R + q < end THEN R + q ELSE (R + q) - end
        BY <1>2, <3>1
      <3>3. NextCursor(d) = IF d > W /\ d >= end THEN d - end ELSE d
        BY <1>4, <3>1
      <3> QED
        BY <3>2, <3>3 DEF d, q
    <2>3. CASE R + p < end
      <3>1. c + k = R + (p + k)
        BY <1>1, <1>6, <1>8, <2>3
      <3>2. c + k >= end => c + k > W
        BY <1>1, <1>6, <1>8
      <3> QED
        BY <1>1, <1>6, <1>8, <2>1, <2>2, <3>1, <3>2
    <2>4. CASE R + p >= end
      <3>1. c + k = R + (p + k) - end /\ R + (p + k) >= end
        BY <1>1, <1>6, <1>8, <2>4
      <3>2. c + k <= W /\ c + k < end
        BY <1>1, <1>6, <1>7, <1>8, <2>4
      <3> QED
        BY <1>1, <1>6, <1>8, <2>1, <2>2, <3>1, <3>2
    <2>5. R + p < end \/ R + p >= end
      BY <1>1
    <2> QED
      BY <2>3, <2>4, <2>5
  <1> QED
    BY <1>8, <1>9, <1>10, <1>11 DEF k, total

\* An entry goes to the chars of its slot, and to no others.
LEMMA WriteChars ==
  ASSUME Ring(enc), ~EncoderError(enc), NEW s, NEW j \in Nat, j < enc.max_entries,
         NEW o \in 0 .. enc.entry_size - 1
  PROVE  WriteEntry(s)[j * enc.entry_size + o] =
            IF j = enc.next THEN <<s, o>> ELSE buffer[j * enc.entry_size + o]
  <1> DEFINE size == enc.entry_size
             W == GetWriteCursor(enc)
             i == j * size + o
  <1>1. /\ size \in Nat \ {0} /\ j * size \in Nat /\ j * size + size <= BufferSize /\ BufferSize \in Nat
        /\ enc.next \in Nat /\ enc.next < enc.max_entries /\ W = enc.next * size /\ W \in Nat
    BY SlotCells, EntriesFit, BufferAssumption DEF Ring, Inside, Encoders, GetWriteCursor
  <1>2. WriteEntry(s) = [d \in Cells |-> IF W <= d /\ d < W + size THEN <<s, d - W>> ELSE buffer[d]]
    BY DEF WriteEntry
  <1>3. o \in Nat /\ o < size
    BY <1>1
  <1> HIDE DEF size, W
  <1>4. i \in Cells /\ i \in Nat
    BY <1>1, <1>3 DEF Cells
  <1>5. WriteEntry(s)[i] = IF W <= i /\ i < W + size THEN <<s, i - W>> ELSE buffer[i]
    <2> HIDE DEF i
    <2> QED
      BY <1>2, <1>4
  <1>6. CASE j = enc.next
    <2>1. W <= i /\ i < W + size /\ i - W = o
      BY <1>1, <1>3, <1>6
    <2> QED
      BY <1>5, <1>6, <2>1 DEF size
  <1>7. CASE j < enc.next
    <2>1. j * size + size <= W
      BY <1>1, <1>7, SlotsApart
    <2>2. ~(W <= i)
      BY <1>1, <1>3, <2>1
    <2> QED
      BY <1>1, <1>5, <1>7, <2>2 DEF size
  <1>8. CASE j > enc.next
    <2>1. W + size <= j * size
      BY <1>1, <1>8, SlotsApart
    <2>2. ~(i < W + size)
      BY <1>1, <1>3, <2>1
    <2> QED
      BY <1>1, <1>5, <1>8, <2>2 DEF size
  <1> QED
    BY <1>1, <1>6, <1>7, <1>8

\* An entry that is written does not disturb those that are kept.
LEMMA EncodeHolds ==
  ASSUME IInv, Holds(enc, buffer, entries), NEW s \in Samples, Encode(s)
  PROVE  Holds(enc, buffer, entries)'
  <1> DEFINE m == enc.max_entries
             size == enc.entry_size
             kept == IF enc.full THEN m - 1 ELSE enc.next
             drop == GetEntryCount(enc) - kept
  <1>1. /\ Ring(enc) /\ ~EncoderError(enc) /\ enc' = EncodeNextEntry(enc) /\ buffer' = WriteEntry(s)
        /\ entries \in Seq(Samples) /\ Len(entries) = GetEntryCount(enc)
        /\ entries' = Append(IF Len(entries) < m THEN entries ELSE Tail(entries), s)
    BY DEF IInv, Encode, Holds
  <1>2. Ring(enc') /\ enc'.max_entries = m /\ enc'.entry_size = size
    BY <1>1, EncodeRing
  <1>3. /\ kept \in Nat /\ kept < m /\ drop \in Nat
        /\ GetEntryCount(enc') = kept + 1
        /\ Slot(enc', kept + 1) = enc.next
        /\ \A k \in 1 .. kept : /\ Slot(enc', k) = Slot(enc, k + drop)
                                /\ Slot(enc', k) # enc.next
                                /\ k + drop \in 1 .. GetEntryCount(enc)
    BY <1>1, EncodeSlots
  <1>4. /\ m \in Nat \ {0} /\ enc.next \in Nat /\ enc.next < m
        /\ GetEntryCount(enc) = IF enc.full THEN m ELSE enc.next
    BY <1>1, CountFacts DEF Ring, Inside, Encoders, EncoderError
  <1>5. /\ kept = (IF enc.full THEN m - 1 ELSE enc.next) /\ drop = GetEntryCount(enc) - kept
    OBVIOUS
  <1> HIDE DEF kept, drop, m
  <1>6. /\ Len(entries') = kept + 1 /\ entries'[kept + 1] = s
        /\ \A k \in 1 .. kept : entries'[k] = entries[k + drop]
    <2>1. CASE ~enc.full
      <3>1. kept = Len(entries) /\ drop = 0 /\ Len(entries) < m
        BY <1>1, <1>3, <1>4, <1>5, <2>1
      <3>2. entries' = Append(entries, s) /\ s \in Samples
        BY <1>1, <3>1
      <3>3. \A k \in 1 .. kept : k + drop = k
        BY <1>3, <3>1
      <3> QED
        BY <1>1, <3>1, <3>2, <3>3
    <2>2. CASE enc.full
      <3>1. kept = m - 1 /\ drop = 1 /\ Len(entries) = m /\ entries # << >>
        BY <1>1, <1>3, <1>4, <1>5, <2>2
      <3>2. entries' = Append(Tail(entries), s)
        BY <1>1, <1>4, <3>1
      <3>3. /\ Tail(entries) \in Seq(Samples) /\ Len(Tail(entries)) = kept
            /\ \A k \in 1 .. kept : Tail(entries)[k] = entries[k + 1]
        BY <1>1, <1>4, <3>1, HeadTailProperties
      <3> QED
        BY <1>3, <3>1, <3>2, <3>3
    <2> QED
      BY <2>1, <2>2
  <1>7. ASSUME NEW k \in 1 .. kept + 1
        PROVE  Slot(enc', k) \in Nat /\ Slot(enc', k) < m
    <2> DEFINE n == enc'.first + k - 1
    <2>1. n \in Nat /\ k \in 1 .. enc'.max_entries /\ ~EncoderError(enc')
      BY <1>2, <1>3, <1>4, <1>7 DEF Ring, Encoders, EncoderError
    <2> QED
      BY <1>2, <2>1, SlotAt
  <1>8. ASSUME NEW k \in 1 .. kept + 1, NEW o \in 0 .. size - 1
        PROVE  buffer'[Slot(enc', k) * size + o] = <<entries'[k], o>>
    <2>1. buffer'[Slot(enc', k) * size + o] =
             IF Slot(enc', k) = enc.next THEN <<s, o>> ELSE buffer[Slot(enc', k) * size + o]
      BY <1>1, <1>7, WriteChars DEF m
    <2>2. CASE k = kept + 1
      BY <1>3, <1>6, <2>1, <2>2
    <2>3. CASE k \in 1 .. kept
      <3>1. buffer[Slot(enc, k + drop) * size + o] = <<entries[k + drop], o>>
        BY <1>3, <2>3 DEF Holds
      <3> QED
        BY <1>3, <1>6, <2>1, <2>3, <3>1
    <2>4. k = kept + 1 \/ k \in 1 .. kept
      BY <1>3
    <2> QED
      BY <2>2, <2>3, <2>4
  <1> QED
    BY <1>2, <1>3, <1>6, <1>8 DEF Holds

\* How far a reading has come.
Progress ==
    reading # "no" /\ GetEntryCount(enc) > 0 =>
       /\ Len(output) <= Total(enc)
       /\ \A i \in 1 .. Len(output) : output[i] = CharAt(entries, enc.entry_size, i - 1)
       /\ reader.cursor = Place(enc, Len(output))
       /\ reader.started <=> Len(output) > 0
       /\ reader.finished <=> Len(output) = Total(enc)
       /\ reading = "complete" => reader.finished

ReadInv ==
    /\ IInv
    /\ Holds(enc, buffer, entries)
    /\ output \in Seq(Chars)
    /\ Progress

LEMMA CopiedIs ==
  ASSUME IInv, NEW c \in Nat, NEW k \in Nat, c + k <= GetBufferEffectiveSize(enc)
  PROVE  /\ Copied(c, k) \in Seq(Chars) /\ Len(Copied(c, k)) = k
         /\ \A i \in 1 .. k : Copied(c, k)[i] = buffer[c + i - 1]
  <1>1. Copied(c, k) = [i \in 1 .. k |-> buffer[c + i - 1]]
    BY DEF Copied
  <1>2. BufferSize \in Nat /\ GetBufferEffectiveSize(enc) \in Nat /\ GetBufferEffectiveSize(enc) <= BufferSize
    BY EntriesFit DEF IInv
  <1>3. ASSUME NEW i \in 1 .. k PROVE buffer[c + i - 1] \in Chars
    <2>1. c + i - 1 \in Cells
      BY <1>2 DEF Cells
    <2> QED
      BY <2>1 DEF IInv
  <1> HIDE DEF Copied
  <1>4. Copied(c, k) \in [1 .. k -> Chars]
    BY <1>1, <1>3
  <1>5. Copied(c, k) \in Seq(Chars) /\ Len(Copied(c, k)) = k
    BY <1>4, SeqDef
  <1> QED
    BY <1>1, <1>5

LEMMA Concatenation ==
  ASSUME NEW S, NEW s \in Seq(S), NEW t \in Seq(S)
  PROVE  /\ s \o t \in Seq(S) /\ Len(s \o t) = Len(s) + Len(t) /\ Len(s) \in Nat /\ Len(t) \in Nat
         /\ \A i \in 1 .. Len(s) : (s \o t)[i] = s[i]
         /\ \A i \in 1 .. Len(t) : (s \o t)[Len(s) + i] = t[i]
  <1>1. Len(s) \in Nat /\ Len(t) \in Nat
    OBVIOUS
  <1>2. \A i \in 1 .. Len(s) + Len(t) : (s \o t)[i] = IF i <= Len(s) THEN s[i] ELSE t[i - Len(s)]
    BY ConcatProperties
  <1>3. ASSUME NEW i \in 1 .. Len(s) PROVE (s \o t)[i] = s[i]
    <2>1. i \in 1 .. Len(s) + Len(t) /\ i <= Len(s)
      BY <1>1
    <2> QED
      BY <1>2, <2>1
  <1>4. ASSUME NEW i \in 1 .. Len(t) PROVE (s \o t)[Len(s) + i] = t[i]
    <2>1. Len(s) + i \in 1 .. Len(s) + Len(t) /\ ~(Len(s) + i <= Len(s)) /\ (Len(s) + i) - Len(s) = i
      BY <1>1
    <2> QED
      BY <1>2, <2>1
  <1> QED
    BY <1>1, <1>3, <1>4, ConcatProperties

\* A response continues where the one before it stopped, whether or not it goes around
\* the end of the ring.
LEMMA ReadContinues ==
  ASSUME ReadInv, NEW n \in ReadSizes, Read(n)
  PROVE  ReadInv'
  <1> DEFINE nothing_left == reader.cursor = GetWriteCursor(enc) /\ reader.started
             c == reader.cursor
             k1 == IF nothing_left THEN 0 ELSE CopySize(c, n)
             c1 == NextCursor(c + k1)
             again == ~nothing_left /\ c1 # GetWriteCursor(enc) /\ k1 < n
             k2 == IF again THEN CopySize(c1, n - k1) ELSE 0
             c2 == IF again THEN NextCursor(c1 + k2) ELSE c1
             finished == reader.finished \/ c2 = GetWriteCursor(enc)
             end == GetBufferEffectiveSize(enc)
             p == Len(output)
             q == p + k1
             total == Total(enc)
  <1>1. /\ output' = output \o Copied(c, k1) \o Copied(c1, k2)
        /\ reader' = [cursor |-> c2, started |-> TRUE, finished |-> finished]
        /\ reading = "yes" /\ reading' = IF finished /\ CrcFits(k1 + k2, n) THEN "complete" ELSE "yes"
        /\ UNCHANGED <<enc, buffer, entries>>
    BY DEF Read
  <1>2. IInv' /\ IInv /\ Ring(enc) /\ Holds(enc, buffer, entries) /\ Holds(enc, buffer, entries)'
    BY <1>1, ReadStep DEF ReadInv, IInv, Holds
  <1>3. /\ n \in Nat \ {0} /\ end \in Nat /\ c \in 0 .. end /\ output \in Seq(Chars) /\ p \in Nat
    <2>1. n \in Nat /\ n >= CrcSize /\ CrcSize \in Nat \ {0}
      BY EncoderAssumption
    <2>2. end \in Nat /\ c \in 0 .. end
      BY <1>2, EntriesFit DEF IInv
    <2> QED
      BY <2>1, <2>2 DEF ReadInv
  <1>4. k1 \in Nat /\ k1 <= n /\ c + k1 \in 0 .. end /\ c1 \in 0 .. end
    <2>1. CASE nothing_left
      <3>1. k1 = 0 /\ c + 0 = c
        BY <1>3, <2>1
      <3>2. c1 = NextCursor(c)
        <4> HIDE DEF k1
        <4> QED
          BY <3>1
      <3>3. NextCursor(c) \in 0 .. end
        BY <1>2, <1>3, CursorFacts
      <3> HIDE DEF c1, k1
      <3> QED
        BY <1>3, <3>1, <3>2, <3>3
    <2>2. CASE ~nothing_left
      BY <1>2, <1>3, <2>2, CursorFacts
    <2> QED
      BY <2>1, <2>2
  <1> HIDE DEF c1, k1
  <1>5. k2 \in Nat /\ c1 + k2 <= end
    <2>1. CASE again
      <3>1. n - k1 \in Nat
        BY <1>3, <1>4
      <3> QED
        BY <1>2, <1>4, <2>1, <3>1, CursorFacts
    <2>2. CASE ~again
      BY <1>3, <1>4, <2>2
    <2> QED
      BY <2>1, <2>2
  <1> HIDE DEF k2, c2, finished
  <1> DEFINE A == Copied(c, k1)
             B == Copied(c1, k2)
  <1>6. /\ A \in Seq(Chars) /\ Len(A) = k1 /\ \A i \in 1 .. k1 : A[i] = buffer[c + i - 1]
        /\ B \in Seq(Chars) /\ Len(B) = k2 /\ \A i \in 1 .. k2 : B[i] = buffer[c1 + i - 1]
    <2>1. c \in Nat /\ c + k1 <= end /\ c1 \in Nat
      BY <1>3, <1>4
    <2> QED
      BY <1>2, <1>4, <1>5, <2>1, CopiedIs
  <1> HIDE DEF A, B
  <1>7. /\ output' \in Seq(Chars) /\ Len(output') = p + k1 + k2
        /\ \A i \in 1 .. p : output'[i] = output[i]
        /\ \A i \in 1 .. k1 : output'[p + i] = A[i]
        /\ \A i \in 1 .. k2 : output'[p + k1 + i] = B[i]
    <2> DEFINE X == output \o A
    <2>1. X \in Seq(Chars) /\ Len(X) = p + k1
          /\ (\A i \in 1 .. p : X[i] = output[i]) /\ \A i \in 1 .. k1 : X[p + i] = A[i]
      <3>1. output \in Seq(Chars) /\ A \in Seq(Chars)
        BY <1>3, <1>6
      <3>2. /\ X \in Seq(Chars) /\ Len(X) = p + Len(A)
            /\ \A i \in 1 .. p : X[i] = output[i]
            /\ \A i \in 1 .. Len(A) : X[p + i] = A[i]
        BY <3>1, Concatenation
      <3> QED
        BY <1>6, <3>2
    <2>2. output' = X \o B
      BY <1>1 DEF A, B
    <2> HIDE DEF X
    <2>3. output' \in Seq(Chars) /\ Len(output') = p + k1 + k2
          /\ (\A i \in 1 .. p + k1 : output'[i] = X[i]) /\ \A i \in 1 .. k2 : output'[p + k1 + i] = B[i]
      <3>1. /\ X \o B \in Seq(Chars) /\ Len(X \o B) = Len(X) + Len(B)
            /\ \A i \in 1 .. Len(X) : (X \o B)[i] = X[i]
            /\ \A i \in 1 .. Len(B) : (X \o B)[Len(X) + i] = B[i]
        <4>1. X \in Seq(Chars) /\ B \in Seq(Chars)
          BY <1>6, <2>1
        <4> QED
          BY <4>1, Concatenation
      <3>2. Len(X) = p + k1 /\ Len(B) = k2
        BY <1>6, <2>1
      <3> QED
        BY <2>2, <3>1, <3>2
    <2>4. (\A i \in 1 .. p : i \in 1 .. p + k1) /\ \A i \in 1 .. k1 : p + i \in 1 .. p + k1
      BY <1>3, <1>4
    <2> QED
      BY <2>1, <2>3, <2>4
  <1>8. ASSUME GetEntryCount(enc) > 0
        PROVE  /\ Len(output') <= total
               /\ \A i \in 1 .. Len(output') : output'[i] = CharAt(entries, enc.entry_size, i - 1)
               /\ c2 = Place(enc, Len(output'))
               /\ Len(output') > 0
               /\ finished <=> Len(output') = total
    <2>1. /\ p <= total /\ (\A i \in 1 .. p : output[i] = CharAt(entries, enc.entry_size, i - 1))
          /\ c = Place(enc, p) /\ (reader.started <=> p > 0) /\ (reader.finished <=> p = total)
      BY <1>1, <1>8 DEF ReadInv, Progress
    <2>2. ~EncoderError(enc)
      BY <1>2, <1>8, CountFacts DEF EncoderError
    <2>3. total \in Nat /\ total > 0
      <3>1. GetEntryCount(enc) \in Nat \ {0} /\ enc.entry_size \in Nat \ {0}
        BY <1>2, <1>8, <2>2, CountFacts, Cursors
      <3> QED
        BY <3>1 DEF Total
    <2>4. \A i \in 0 .. total - 1 : buffer[Place(enc, i)] = CharAt(entries, enc.entry_size, i)
      BY <1>2, <2>2, <2>3, CharsInPlace
    <2>5. \A i \in 1 .. total : Place(enc, i) = GetWriteCursor(enc) <=> i = total
      BY <1>2, <2>2, LastPlace
    <2> HIDE DEF total, p
    <2>6. CASE nothing_left
      <3>1. p = total
        <4>1. p > 0 /\ c = GetWriteCursor(enc)
          BY <2>1, <2>6
        <4>2. p \in 1 .. total
          BY <1>3, <2>1, <2>3, <4>1
        <4> QED
          BY <2>1, <2>5, <4>1, <4>2
      <3>2. k1 = 0 /\ ~again
        BY <2>6 DEF k1
      <3>3. k2 = 0 /\ c2 = c1
        BY <3>2 DEF k2, c2
      <3>4. c1 = c
        <4>1. GetWriteCursor(enc) < end /\ GetWriteCursor(enc) \in Nat
          BY <1>2, <2>2, Cursors
        <4>2. c + k1 = c
          BY <1>3, <3>2
        <4>3. c1 = NextCursor(c)
          BY <4>2 DEF c1
        <4> QED
          BY <2>6, <4>1, <4>3 DEF NextCursor
      <3>5. Len(output') = p
        BY <1>3, <1>7, <3>2, <3>3
      <3>6. finished
        BY <2>1, <3>1 DEF finished
      <3> QED
        BY <1>7, <2>1, <2>3, <3>1, <3>3, <3>4, <3>5, <3>6
    <2>7. CASE ~nothing_left
      <3>1. k1 = CopySize(c, n)
        BY <2>7 DEF k1
      <3>2. p < total
        <4>1. p # total
          BY <1>3, <2>1, <2>3, <2>5, <2>7
        <4> QED
          BY <1>3, <2>1, <2>3, <4>1
      <3>3. /\ k1 \in 1 .. n /\ q <= total
            /\ \A i \in 1 .. k1 : c + i - 1 = Place(enc, p + i - 1)
            /\ c1 = Place(enc, q)
        BY <1>2, <1>3, <2>1, <2>2, <3>1, <3>2, Iteration DEF c1, total
      <3>4. q \in 1 .. total
        BY <1>3, <2>3, <3>3
      <3>5. \A i \in 1 .. k1 : output'[p + i] = CharAt(entries, enc.entry_size, p + i - 1)
        <4>1. SUFFICES ASSUME NEW i \in 1 .. k1
                       PROVE  output'[p + i] = CharAt(entries, enc.entry_size, p + i - 1)
          OBVIOUS
        <4>2. p + i - 1 \in 0 .. total - 1
          BY <1>3, <2>3, <3>3
        <4>3. output'[p + i] = buffer[c + i - 1] /\ c + i - 1 = Place(enc, p + i - 1)
          BY <1>6, <1>7, <3>3
        <4> QED
          BY <2>4, <4>2, <4>3
      <3> HIDE DEF q
      <3>6. /\ k2 \in Nat /\ q + k2 \in 1 .. total /\ c2 = Place(enc, q + k2)
            /\ \A i \in 1 .. k2 : c1 + i - 1 = Place(enc, q + i - 1)
        <4>1. CASE again
          <5>1. q < total
            BY <2>3, <2>5, <3>3, <3>4, <4>1
          <5>2. n - k1 \in Nat \ {0} /\ q \in Nat
            BY <1>3, <3>3, <3>4, <4>1
          <5>3. k2 = CopySize(c1, n - k1) /\ c2 = NextCursor(c1 + k2)
            BY <4>1 DEF k2, c2
          <5>4. /\ k2 \in 1 .. n - k1 /\ q + k2 <= total
                /\ \A i \in 1 .. k2 : c1 + i - 1 = Place(enc, q + i - 1)
                /\ c2 = Place(enc, q + k2)
            BY <1>2, <2>2, <3>3, <5>1, <5>2, <5>3, Iteration DEF total
          <5> QED
            BY <2>3, <3>4, <5>2, <5>4
        <4>2. CASE ~again
          <5>1. k2 = 0 /\ c2 = c1
            BY <4>2 DEF k2, c2
          <5>2. q + k2 = q
            BY <3>4, <5>1
          <5> QED
            BY <3>3, <3>4, <5>1, <5>2
        <4> QED
          BY <4>1, <4>2
      <3>7. \A i \in 1 .. k2 : output'[q + i] = CharAt(entries, enc.entry_size, q + i - 1)
        <4>1. SUFFICES ASSUME NEW i \in 1 .. k2
                       PROVE  output'[q + i] = CharAt(entries, enc.entry_size, q + i - 1)
          OBVIOUS
        <4>2. q + i - 1 \in 0 .. total - 1
          BY <2>3, <3>4, <3>6
        <4>3. output'[q + i] = buffer[c1 + i - 1] /\ c1 + i - 1 = Place(enc, q + i - 1)
          BY <1>6, <1>7, <3>6 DEF q
        <4> QED
          BY <2>4, <4>2, <4>3
      <3>8. Len(output') = q + k2 /\ q = p + k1
        BY <1>7 DEF q
      <3>9. ASSUME NEW i \in 1 .. q + k2 PROVE output'[i] = CharAt(entries, enc.entry_size, i - 1)
        <4>1. CASE i <= p
          <5>1. i \in 1 .. p
            BY <1>3, <3>4, <3>6, <4>1
          <5> QED
            BY <1>7, <2>1, <5>1
        <4>2. CASE i > p /\ i <= q
          <5>1. i - p \in 1 .. k1 /\ p + (i - p) = i
            BY <1>3, <3>4, <3>6, <3>8, <1>4, <4>2
          <5>2. output'[p + (i - p)] = CharAt(entries, enc.entry_size, p + (i - p) - 1)
            BY <3>5, <5>1
          <5>3. p + (i - p) - 1 = i - 1
            BY <1>3, <3>4, <3>6
          <5> QED
            BY <5>1, <5>2, <5>3
        <4>3. CASE i > q
          <5>1. i - q \in 1 .. k2 /\ q + (i - q) = i
            BY <3>4, <3>6, <4>3
          <5>2. output'[q + (i - q)] = CharAt(entries, enc.entry_size, q + (i - q) - 1)
            BY <3>7, <5>1
          <5>3. q + (i - q) - 1 = i - 1
            BY <1>3, <3>4, <3>6
          <5> QED
            BY <5>1, <5>2, <5>3
        <4> QED
          BY <1>3, <3>4, <3>6, <4>1, <4>2, <4>3
      <3>10. finished <=> q + k2 = total
        BY <2>1, <2>3, <2>5, <3>2, <3>6, <1>3 DEF finished
      <3> QED
        BY <2>3, <3>6, <3>8, <3>9, <3>10
    <2> QED
      BY <2>6, <2>7
  <1>9. Progress'
    <2> SUFFICES ASSUME GetEntryCount(enc') > 0 PROVE Progress'
      BY DEF Progress
    <2>1. GetEntryCount(enc) > 0
      BY <1>1
    <2>2. /\ reader'.cursor = c2 /\ reader'.started = TRUE /\ reader'.finished = finished
          /\ (reading' = "complete" => finished)
      BY <1>1
    <2> QED
      BY <1>1, <1>8, <2>1, <2>2 DEF Progress, total
  <1> QED
    BY <1>2, <1>7, <1>9 DEF ReadInv

LEMMA ReadInvariantStep ==
  ASSUME ReadInv, [Next]_vars
  PROVE  ReadInv'
  <1>1. IInv /\ IInv'
    BY InductiveStep DEF ReadInv
  <1>2. CASE UNCHANGED vars
    BY <1>1, <1>2 DEF vars, ReadInv, Holds, Progress
  <1>3. ASSUME NEW size \in EntrySizes, Reset(size) PROVE ReadInv'
    <2>1. /\ reading' = "no" /\ output' = << >> /\ entries' = << >> /\ GetEntryCount(enc') = 0
      BY <1>3 DEF Reset, EncoderReset, GetEntryCount
    <2> QED
      BY <1>1, <2>1 DEF ReadInv, Holds, Progress
  <1>4. ASSUME NEW s \in Samples, Encode(s) PROVE ReadInv'
    <2>1. Holds(enc, buffer, entries)'
      BY <1>1, <1>4, EncodeHolds DEF ReadInv
    <2>2. reading' = "no" /\ output' = output
      BY <1>4 DEF Encode
    <2> QED
      BY <1>1, <2>1, <2>2 DEF ReadInv, Progress
  <1>5. CASE StartReading
    <2>1. /\ reading' = "yes" /\ output' = << >> /\ UNCHANGED <<enc, buffer, entries>>
          /\ reader'.cursor = GetReadCursor(enc) /\ reader'.started = FALSE /\ reader'.finished = FALSE
          /\ ~EncoderError(enc)
      BY <1>5 DEF StartReading, ReaderReset
    <2>2. Holds(enc, buffer, entries)'
      BY <2>1 DEF ReadInv, Holds
    <2>3. Place(enc, 0) = GetReadCursor(enc)
      BY <1>1, <2>1, Cursors DEF Place, IInv
    <2>4. GetEntryCount(enc) > 0 => Total(enc) \in Nat \ {0}
      <3>1. GetEntryCount(enc) \in Nat /\ enc.entry_size \in Nat \ {0}
        BY <1>1, <2>1, CountFacts, Cursors DEF IInv
      <3> QED
        BY <3>1 DEF Total
    <2> QED
      BY <1>1, <2>1, <2>2, <2>3, <2>4 DEF ReadInv, Progress
  <1>6. ASSUME NEW n \in ReadSizes, Read(n) PROVE ReadInv'
    BY <1>6, ReadContinues
  <1> QED
    BY <1>2, <1>3, <1>4, <1>5, <1>6 DEF Next

LEMMA ReadInvariantInit == Init => ReadInv
  <1> SUFFICES ASSUME Init PROVE ReadInv
    OBVIOUS
  <1>1. Ring(EncoderReset(0)) /\ GetReadCursor(EncoderReset(0)) = 0
    BY ResetRing
  <1>2. /\ Ring(enc) /\ reader.cursor = 0 /\ GetBufferEffectiveSize(enc) \in Nat
        /\ enc.max_entries \in Nat /\ GetEntryCount(enc) = 0
    BY <1>1, EntriesFit DEF Init, ReaderReset, Ring, Encoders, EncoderReset, GetEntryCount
  <1>3. buffer \in [Cells -> Chars] /\ output = << >> /\ entries = << >> /\ reading = "no"
    BY DEF Init, Chars
  <1>4. IInv
    BY <1>2, <1>3 DEF IInv
  <1> QED
    BY <1>2, <1>3, <1>4 DEF ReadInv, Holds, Progress

LEMMA ReadInvariantIsStronger == ReadInv => ReadsTheEntries
  <1> SUFFICES ASSUME ReadInv, reading # "no", GetEntryCount(enc) > 0 PROVE
       /\ output = SubSeq(CharsOf(entries), 1, Len(output))
       /\ Len(output) <= Len(CharsOf(entries))
       /\ reader.finished <=> Len(output) = Len(CharsOf(entries))
       /\ reading = "complete" => reader.finished
    BY DEF ReadsTheEntries
  <1> DEFINE size == enc.entry_size
             n == Len(output)
             all == CharsOf(entries)
  <1>1. /\ Ring(enc) /\ n <= Total(enc)
        /\ \A i \in 1 .. n : output[i] = CharAt(entries, size, i - 1)
        /\ (reader.finished <=> n = Total(enc)) /\ (reading = "complete" => reader.finished)
    BY DEF ReadInv, Progress, IInv
  <1>2. ~EncoderError(enc)
    BY <1>1, CountFacts DEF EncoderError
  <1>3. size \in Nat \ {0} /\ Len(entries) \in Nat /\ Len(entries) * size = Total(enc) /\ n \in Nat
        /\ Total(enc) \in Nat
    <2>1. size \in Nat \ {0} /\ Len(entries) = GetEntryCount(enc) /\ Len(entries) \in Nat /\ n \in Nat
      BY <1>1, <1>2, Cursors, CountFacts DEF ReadInv, Holds
    <2> QED
      BY <2>1 DEF Total
  <1>4. all = [i \in 1 .. Total(enc) |-> CharAt(entries, size, i - 1)]
    BY <1>3 DEF CharsOf, CharAt
  <1> DEFINE V == {all[i] : i \in 1 .. Total(enc)} \union Chars
  <1> HIDE DEF all, size
  <1>5. all \in Seq(V) /\ Len(all) = Total(enc)
    <2>1. all \in [1 .. Total(enc) -> V]
      BY <1>4
    <2> HIDE DEF V
    <2> QED
      BY <1>3, <2>1, SeqDef
  <1>6. output \in Seq(V)
    BY DEF ReadInv
  <1> HIDE DEF V
  <1>7. /\ SubSeq(all, 1, n) \in Seq(V) /\ Len(SubSeq(all, 1, n)) = n
        /\ \A i \in 1 .. n : SubSeq(all, 1, n)[i] = all[i]
    BY <1>1, <1>3, <1>5, SubSeqProperties
  <1>8. \A i \in 1 .. n : output[i] = all[i]
    BY <1>1, <1>3, <1>4
  <1>9. output = SubSeq(all, 1, n)
    BY <1>6, <1>7, <1>8, SeqEqual
  <1> QED
    BY <1>1, <1>5, <1>9 DEF all

\* Whatever the room in each ReadAcquisition response, read_dilate_8bits() gives the chars
\* of the latest entries in order, each once, across the end of the ring, and the reader
\* finishes exactly with the last of them.
THEOREM EntriesAreRead == Spec => []ReadsTheEntries
  <1>1. Spec => []ReadInv
    BY ReadInvariantInit, ReadInvariantStep, PTL DEF Spec
  <1> QED
    BY <1>1, ReadInvariantIsStronger, PTL
=============================================================================
