------------------------ MODULE MemoryControlProofs ------------------------
(***************************************************************************)
(* For every memory, configuration and set of requests: no char of a       *)
(* forbidden or read-only region is written, none of a forbidden region is *)
(* sent (first part); reads, writes and published values are served as     *)
(* requested and no 16-bit count wraps (second part, from the sums over    *)
(* the items on).                                                          *)
(***************************************************************************)
EXTENDS MemoryControl, Integers, TLAPS, WellFoundedInduction

-----------------------------------------------------------------------------
(* Induction, and functions defined by recursion.  The induction is over a *)
(* set of numbers and the steps of a recursion are a function, so that     *)
(* first-order provers can use both.                                       *)

LEMMA LeastNumber ==
  ASSUME NEW T \in SUBSET Nat, T # {}
  PROVE  \E m \in T : \A k \in T : m <= k
  <1> DEFINE R == OpToRel(<, Nat)
  <1>1. \E x \in T : \A y \in T : ~ (<<y, x>> \in R)
    BY NatLessThanWellFounded, WFMin
  <1>2. \A x, y \in Nat : y < x => <<y, x>> \in R
    BY DEF OpToRel
  <1> HIDE DEF R
  <1>3. PICK m \in T : \A k \in T : ~ (<<k, m>> \in R)
    BY <1>1
  <1>4. \A k \in T : ~(k < m)
    BY <1>2, <1>3
  <1> QED
    BY <1>4

\* Induction from 0 up to m.
LEMMA UpTo ==
  ASSUME NEW m \in Nat, NEW S, 0 \in S, \A n \in 1 .. m : n - 1 \in S => n \in S
  PROVE  \A n \in 0 .. m : n \in S
  <1> DEFINE T == {n \in 0 .. m : n \notin S}
  <1>1. SUFFICES ASSUME T # {} PROVE FALSE
    OBVIOUS
  <1>2. PICK n \in T : \A k \in T : n <= k
    <2>1. T \in SUBSET Nat
      OBVIOUS
    <2> HIDE DEF T
    <2> QED
      BY <1>1, <2>1, LeastNumber
  <1>3. n \in 1 .. m /\ n \notin S
    BY <1>2
  <1>4. n - 1 \in 0 .. m /\ n - 1 \notin T
    BY <1>2, <1>3
  <1> QED
    BY <1>3, <1>4

\* step[n] makes the value at n of the one at n - 1.
Stepping(step, m, V) == step \in [1 .. m -> [V -> V]]

\* f is computed by these steps up to n, as long as its values are in V.
Follows(f, base, step, n, V) ==
    f[0] = base /\ \A k \in 1 .. n : f[k - 1] \in V => f[k] = step[k][f[k - 1]]

Iterate(base, step, n) ==
    LET f[k \in 0 .. n] == IF k = 0 THEN base ELSE step[k][f[k - 1]] IN f[n]

LEMMA Recursion ==
  ASSUME NEW m \in Nat, NEW V, NEW base \in V, NEW step, Stepping(step, m, V)
  PROVE  \E f : f \in [0 .. m -> V] /\ Follows(f, base, step, m, V)
  <1> DEFINE S == {k \in 0 .. m : \E f \in [0 .. k -> V] : Follows(f, base, step, k, V)}
  <1>1. 0 \in S
    <2> DEFINE g == [n \in 0 .. 0 |-> base]
    <2>1. g \in [0 .. 0 -> V] /\ Follows(g, base, step, 0, V)
      BY DEF Follows
    <2> HIDE DEF g
    <2>2. \E f \in [0 .. 0 -> V] : Follows(f, base, step, 0, V)
      BY <2>1
    <2> QED
      BY <2>2
  <1>2. ASSUME NEW k \in 1 .. m, k - 1 \in S PROVE k \in S
    <2>1. PICK f \in [0 .. k - 1 -> V] : Follows(f, base, step, k - 1, V)
      BY <1>2
    <2> DEFINE g == [n \in 0 .. k |-> IF n = k THEN step[k][f[k - 1]] ELSE f[n]]
    <2>2. k - 1 \in 0 .. k - 1 /\ f[k - 1] \in V /\ step[k] \in [V -> V]
      BY DEF Stepping
    <2>3. g \in [0 .. k -> V]
      BY <2>2
    <2>4. ASSUME NEW n \in 1 .. k PROVE g[n] = step[n][g[n - 1]]
      <3>1. CASE n = k
        BY <2>2, <3>1
      <3>2. CASE n # k
        <4>1. n \in 1 .. k - 1 /\ n - 1 \in 0 .. k /\ n - 1 # k /\ n - 1 \in 0 .. k - 1
          BY <3>2
        <4> QED
          BY <2>1, <4>1 DEF Follows
      <3> QED
        BY <3>1, <3>2
    <2>5. g[0] = base
      BY <2>1 DEF Follows
    <2> HIDE DEF g
    <2>6. Follows(g, base, step, k, V)
      BY <2>4, <2>5 DEF Follows
    <2>7. \E h \in [0 .. k -> V] : Follows(h, base, step, k, V)
      BY <2>3, <2>6
    <2> QED
      BY <2>7
  <1>3. m \in S
    <2> HIDE DEF S
    <2>1. \A n \in 0 .. m : n \in S
      BY <1>1, <1>2, UpTo
    <2> QED
      BY <2>1
  <1> QED
    BY <1>3

\* Whatever is computed by the same steps is the same.
LEMMA SameSteps ==
  ASSUME NEW m \in Nat, NEW V, NEW base \in V, NEW step, Stepping(step, m, V), NEW n \in 0 .. m,
         NEW f, Follows(f, base, step, n, V), NEW g, Follows(g, base, step, n, V)
  PROVE  \A k \in 0 .. n : f[k] = g[k] /\ f[k] \in V
  <1> DEFINE S == {k \in 0 .. n : f[k] = g[k] /\ f[k] \in V}
  <1>1. 0 \in S
    BY DEF Follows
  <1>2. ASSUME NEW k \in 1 .. n, k - 1 \in S PROVE k \in S
    <2>1. f[k] = step[k][f[k - 1]] /\ g[k] = step[k][f[k - 1]]
      BY <1>2 DEF Follows
    <2>2. k \in 1 .. m /\ f[k - 1] \in V
      BY <1>2
    <2>3. step[k][f[k - 1]] \in V
      BY <2>2 DEF Stepping
    <2> QED
      BY <2>1, <2>3
  <1>3. n \in Nat
    OBVIOUS
  <1> HIDE DEF S
  <1>4. \A k \in 0 .. n : k \in S
    BY <1>1, <1>2, <1>3, UpTo
  <1> QED
    BY <1>4 DEF S

LEMMA IterateIs ==
  ASSUME NEW m \in Nat, NEW V, NEW base \in V, NEW step, Stepping(step, m, V), NEW n \in 0 .. m,
         NEW f, Follows(f, base, step, n, V)
  PROVE  f[n] = Iterate(base, step, n)
  <1> DEFINE R(h) == h = [k \in 0 .. n |-> IF k = 0 THEN base ELSE step[k][h[k - 1]]]
  <1>1. PICK h : h \in [0 .. m -> V] /\ Follows(h, base, step, m, V)
    BY Recursion
  <1>2. R([k \in 0 .. n |-> h[k]])
    BY <1>1 DEF Follows
  <1>3. PICK g : R(g) /\ Iterate(base, step, n) = g[n]
    BY <1>2 DEF Iterate
  <1>4. Follows(g, base, step, n, V)
    BY <1>3 DEF Follows
  <1> HIDE DEF R
  <1>5. \A k \in 0 .. n : f[k] = g[k] /\ f[k] \in V
    BY <1>4, SameSteps
  <1>6. n \in 0 .. n
    OBVIOUS
  <1> QED
    BY <1>3, <1>5, <1>6

LEMMA IterateSteps ==
  ASSUME NEW m \in Nat, NEW V, NEW base \in V, NEW step, Stepping(step, m, V)
  PROVE  /\ Iterate(base, step, 0) = base
         /\ \A n \in 1 .. m : Iterate(base, step, n) = step[n][Iterate(base, step, n - 1)]
         /\ \A n \in 0 .. m : Iterate(base, step, n) \in V
  <1>1. PICK f : f \in [0 .. m -> V] /\ Follows(f, base, step, m, V)
    BY Recursion
  <1>2. f[0] = base /\ \A k \in 1 .. m : f[k] = step[k][f[k - 1]]
    BY <1>1 DEF Follows
  <1>3. ASSUME NEW n \in 0 .. m PROVE f[n] = Iterate(base, step, n)
    <2>1. Follows(f, base, step, n, V)
      BY <1>2 DEF Follows
    <2> QED
      BY <2>1, IterateIs
  <1>4. ASSUME NEW n \in 1 .. m PROVE Iterate(base, step, n) = step[n][Iterate(base, step, n - 1)]
    <2>1. n \in 0 .. m /\ n - 1 \in 0 .. m
      OBVIOUS
    <2>2. f[n] = Iterate(base, step, n) /\ f[n - 1] = Iterate(base, step, n - 1)
      BY <1>3, <2>1
    <2> QED
      BY <1>2, <2>2
  <1>5. 0 \in 0 .. m
    OBVIOUS
  <1> QED
    BY <1>1, <1>2, <1>3, <1>4, <1>5

-----------------------------------------------------------------------------
\* Whatever the requests, the loops only run on an item of a valid request.
ServingInv ==
    code = "Serving" =>
        /\ request \in Requests
        /\ ~parser.finished /\ ~parser.invalid
        /\ parser.count \in Nat /\ parser.count <= Len(request.items)

\* A sum that goes around once at most.
LEMMA SmallMod ==
    ASSUME NEW n \in Nat, NEW m \in Nat \ {0}, n < 2 * m
    PROVE  n % m = IF n < m THEN n ELSE n - m
<1>1. CASE n < m
    BY <1>1
<1>2. CASE n >= m
    <2>1. (n - m) % m = n - m
        BY <1>2
    <2>2. n % m = (n - m) % m
        BY <1>2
    <2> QED  BY <1>2, <2>1, <2>2
<1> QED  BY <1>1, <1>2

\* The chars of a block: up to the last address, then from 0 on.
LEMMA CharAddressIs ==
    ASSUME NEW b, IsBlock(b), NEW i \in 0 .. b.length - 1
    PROVE  /\ CharAddress(b, i) = IF b.addr + i < AddressSpace THEN b.addr + i
                                  ELSE b.addr + i - AddressSpace
           /\ CharAddress(b, i) \in Addresses
<1> DEFINE n == b.addr + i
<1>1. AddressSpace \in Nat \ {0} /\ b.addr \in 0 .. AddressSpace - 1 /\ n \in Nat /\ n < 2 * AddressSpace
    BY SizesAssumption DEF IsBlock, Addresses
<1>2. n % AddressSpace = IF n < AddressSpace THEN n ELSE n - AddressSpace
    <2> HIDE DEF n
    <2> QED  BY <1>1, SmallMod
<1> QED  BY <1>1, <1>2 DEF CharAddress, Addresses

LEMMA CharIndexIs ==
    ASSUME NEW b, IsBlock(b), NEW a \in Addresses
    PROVE  /\ CharIndex(b, a) = IF a < b.addr THEN a + AddressSpace - b.addr ELSE a - b.addr
           /\ CharIndex(b, a) \in Nat
<1> DEFINE n == a + AddressSpace - b.addr
<1>1. AddressSpace \in Nat \ {0} /\ b.addr \in 0 .. AddressSpace - 1 /\ a \in 0 .. AddressSpace - 1
      /\ n \in Nat /\ n < 2 * AddressSpace
    BY SizesAssumption DEF IsBlock, Addresses
<1>2. n % AddressSpace = IF n < AddressSpace THEN n ELSE n - AddressSpace
    <2> HIDE DEF n
    <2> QED  BY <1>1, SmallMod
<1> QED  BY <1>1, <1>2 DEF CharIndex

\* An address is in a block when its index there is.
LEMMA CellsOffset ==
    ASSUME NEW b, IsBlock(b), NEW a \in Addresses
    PROVE  CharIndex(b, a) < b.length <=> a \in Cells(b)
<1>1. /\ AddressSpace \in Nat \ {0} /\ b.addr \in 0 .. AddressSpace - 1
      /\ b.length \in Nat /\ b.length < AddressSpace /\ a \in 0 .. AddressSpace - 1
    BY SizesAssumption DEF IsBlock, Addresses
<1>2. ASSUME CharIndex(b, a) < b.length PROVE a \in Cells(b)
    <2>1. PICK i \in 0 .. b.length - 1 : i = CharIndex(b, a)
        BY <1>1, <1>2, CharIndexIs
    <2>2. CharAddress(b, i) = a
        BY <1>1, <2>1, CharIndexIs, CharAddressIs
    <2> QED  BY <2>2 DEF Cells
<1>3. ASSUME a \in Cells(b) PROVE CharIndex(b, a) < b.length
    <2>1. PICK i \in 0 .. b.length - 1 : a = CharAddress(b, i)
        BY <1>3 DEF Cells
    <2>2. a = IF b.addr + i < AddressSpace THEN b.addr + i ELSE b.addr + i - AddressSpace
        BY <2>1, CharAddressIs
    <2>3. CharIndex(b, a) = IF a < b.addr THEN a + AddressSpace - b.addr ELSE a - b.addr
        BY CharIndexIs
    <2> QED  BY <1>1, <2>2, <2>3
<1> QED  BY <1>2, <1>3

\* A block that ends inside the address space and outside the protected ranges by the test
\* of the code has no char in them.
LEMMA UntouchedCells ==
    ASSUME NEW b, IsBlock(b), InAddressSpace(b), NEW ranges \in SUBSET Ranges, ~Touches(b, ranges)
    PROVE  Cells(b) \intersect RangeCells(ranges) = {}
<1> SUFFICES ASSUME NEW r \in ranges, NEW a \in Cells(b), a \in r.start .. r.end
             PROVE  FALSE
    BY DEF RangeCells
<1>1. /\ AddressSpace \in Nat \ {0} /\ b.addr \in 0 .. AddressSpace - 1
      /\ b.length \in Nat /\ b.addr + b.length <= AddressSpace
      /\ r.start \in Nat /\ r.end \in Nat
    BY SizesAssumption DEF IsBlock, InAddressSpace, Addresses, Ranges
<1>2. PICK i \in 0 .. b.length - 1 : a = b.addr + i
    <2>1. PICK i \in 0 .. b.length - 1 : a = CharAddress(b, i)
        BY DEF Cells
    <2> QED  BY <1>1, <2>1, CharAddressIs
<1>3. /\ a \in Int /\ b.addr <= a /\ a <= b.addr + b.length - 1
      /\ r.start <= a /\ a <= r.end
    BY <1>1, <1>2
<1>4. (b.addr + b.length - 1) % AddressSpace = b.addr + b.length - 1
    <2> DEFINE e == b.addr + b.length - 1
    <2>1. e \in Int /\ 0 <= e /\ e < AddressSpace
        BY <1>1, <1>3
    <2> HIDE DEF e
    <2>2. e % AddressSpace = e
        BY <1>1, <2>1
    <2> QED  BY <2>2 DEF e
<1>5. b.addr <= r.end /\ b.addr + b.length - 1 >= r.start
    BY <1>1, <1>3
<1> QED  BY <1>4, <1>5 DEF Touches

\* The entries of a read: their contents are chars, of memory outside the forbidden ranges
\* if the block ends inside the address space.
Contents == UNION {[0 .. n - 1 -> SUBSET Bits] : n \in Nat}
SafeEntries ==
    {e \in [addr : Addresses, length : Nat, data : Contents] :
        InAddressSpace(e) => Cells(e) \intersect RangeCells(ForbiddenRanges) = {}}

\* What ProtectedUntouched says of a step.
ProtectedKept ==
    \A a \in Protected : memory'[a] # memory[a] => ~InAddressSpace(request.items[parser'.count])

MemoryInv == memory \in [Addresses -> SUBSET Bits]
EntriesInv == request.subfunction = "Read" => response.entries \in Seq(SafeEntries)

IInv == MemoryInv /\ ServingInv /\ EntriesInv

-----------------------------------------------------------------------------

LEMMA ConstantsType ==
    /\ ForbiddenRanges \in SUBSET Ranges /\ ReadonlyRanges \in SUBSET Ranges
BY ConfigAssumption

\* An item that the parser takes is one of the request.
LEMMA NextItem ==
    ASSUME ServingInv, code = "Serving", NEW n, NEW p,
           ~Lacks(request, parser, Header), p = Advance(request, parser, n)
    PROVE  /\ p.count \in Nat /\ p.count <= Len(request.items)
           /\ IsItem(request.subfunction, request.items[p.count])
<1>1. /\ request \in Requests
      /\ parser.count \in Nat /\ parser.count <= Len(request.items)
      /\ parser.count # Len(request.items)
    BY DEF ServingInv, Lacks
<1>2. p.count = parser.count + 1
    BY DEF Advance
<1>3. /\ Len(request.items) \in Nat
      /\ \A i \in 1 .. Len(request.items) : IsItem(request.subfunction, request.items[i])
    BY <1>1, RequestsAssumption
<1>4. p.count \in 1 .. Len(request.items)
    BY <1>1, <1>2, <1>3
<1> QED  BY <1>3, <1>4

LEMMA ReadItem ==
    ASSUME ServingInv, code = "Serving", request.subfunction = "Read",
           NEW p, p = ReadMemoryNext(request, parser), ~p.invalid
    PROVE  /\ p.count \in Nat /\ p.count <= Len(request.items)
           /\ IsBlock(request.items[p.count])
<1>1. ~parser.finished /\ ~parser.invalid
    BY DEF ServingInv
<1>2. Fail(parser).invalid = TRUE
    BY DEF Fail
<1>3. ~Lacks(request, parser, Header) /\ p = Advance(request, parser, Header)
    BY <1>1, <1>2 DEF ReadMemoryNext
<1>4. /\ p.count \in Nat /\ p.count <= Len(request.items)
      /\ IsItem(request.subfunction, request.items[p.count])
    BY <1>3, NextItem
<1> QED  BY <1>4 DEF IsItem

LEMMA WriteItem ==
    ASSUME ServingInv, code = "Serving", request.subfunction \in {"Write", "WriteMasked"},
           NEW p, p = WriteMemoryNext(request, parser), ~p.invalid
    PROVE  LET b == request.items[p.count] IN
           /\ p.count \in Nat /\ p.count <= Len(request.items)
           /\ IsBlock(b) /\ IsData(b.source, b)
           /\ Masked(request) => IsData(b.mask, b)
<1>1. ~parser.finished /\ ~parser.invalid
    BY DEF ServingInv
<1>2. Fail(parser).invalid = TRUE
    BY DEF Fail
<1>3. /\ ~Lacks(request, parser, Header)
      /\ \E n : p = Advance(request, parser, n)
    BY <1>1, <1>2 DEF WriteMemoryNext
<1>4. /\ p.count \in Nat /\ p.count <= Len(request.items)
      /\ IsItem(request.subfunction, request.items[p.count])
    BY <1>3, NextItem
<1> QED  BY <1>4 DEF IsItem, Masked

\* What an iteration leaves to the next one: an unfinished, valid parser.
LEMMA ServedKeepsServing ==
    ASSUME NEW c, NEW p, NEW r, Served(c, p, r), request \in Requests,
           c = "Serving" => /\ c = Progress(p) /\ ~p.invalid
                            /\ p.count \in Nat /\ p.count <= Len(request.items)
    PROVE  ServingInv'
BY DEF Served, ServingInv, Progress

\* A block written leaves chars in memory, and those outside it alone.
LEMMA BlockWritten ==
    ASSUME MemoryInv, NEW b, IsBlock(b), IsData(b.source, b),
           Masked(request) => IsData(b.mask, b)
    PROVE  /\ WriteBlock(b) \in [Addresses -> SUBSET Bits]
           /\ \A a \in Addresses \ Cells(b) : WriteBlock(b)[a] = memory[a]
<1>1. ASSUME NEW a \in Addresses
      PROVE  /\ CharIndex(b, a) < b.length <=> a \in Cells(b)
             /\ CharIndex(b, a) \in Nat /\ b.length \in Nat
    BY <1>1, CellsOffset, CharIndexIs DEF IsBlock
<1>2. ASSUME NEW a \in Addresses PROVE WriteBlock(b)[a] \in SUBSET Bits
    <2>1. memory[a] \in SUBSET Bits
        BY <1>2 DEF MemoryInv
    <2>2. CASE CharIndex(b, a) >= b.length
        BY <1>2, <2>1, <2>2 DEF WriteBlock
    <2>3. CASE CharIndex(b, a) < b.length
        <3>1. CharIndex(b, a) \in 0 .. b.length - 1 /\ ~(CharIndex(b, a) >= b.length)
            BY <1>1, <1>2, <2>3
        <3>2. b.source[CharIndex(b, a)] \in SUBSET Bits
            BY <3>1 DEF IsData
        <3>3. MaskedChar(memory[a], b.source[CharIndex(b, a)], b.mask[CharIndex(b, a)]) \in SUBSET Bits
            BY <2>1, <3>2 DEF MaskedChar
        <3> QED  BY <1>2, <2>3, <3>1, <3>2, <3>3 DEF WriteBlock
    <2> QED  BY <1>1, <1>2, <2>2, <2>3
<1>3. ASSUME NEW a \in Addresses \ Cells(b) PROVE WriteBlock(b)[a] = memory[a]
    <2>1. CharIndex(b, a) >= b.length
        BY <1>1, <1>3
    <2> QED  BY <1>3, <2>1 DEF WriteBlock
<1>4. WriteBlock(b) = [a \in Addresses |-> WriteBlock(b)[a]]
    BY DEF WriteBlock
<1> QED  BY <1>2, <1>3, <1>4

\* The entry of a readable block.
LEMMA EntryIsSafe ==
    ASSUME MemoryInv, NEW b, IsBlock(b), ~Touches(b, ForbiddenRanges)
    PROVE  [addr |-> b.addr, length |-> b.length,
            data |-> [i \in 0 .. b.length - 1 |-> memory[CharAddress(b, i)]]] \in SafeEntries
<1> DEFINE e == [addr |-> b.addr, length |-> b.length,
                 data |-> [i \in 0 .. b.length - 1 |-> memory[CharAddress(b, i)]]]
<1>1. b.addr \in Addresses /\ b.length \in Nat
    BY DEF IsBlock
<1>2. ASSUME NEW i \in 0 .. b.length - 1 PROVE memory[CharAddress(b, i)] \in SUBSET Bits
    <2>1. CharAddress(b, i) \in Addresses
        BY <1>2, CharAddressIs
    <2> QED  BY <2>1 DEF MemoryInv
<1>3. e.data \in Contents
    BY <1>1, <1>2 DEF Contents
<1>4. Cells(e) = Cells(b) /\ (InAddressSpace(e) <=> InAddressSpace(b))
    BY DEF Cells, CharAddress, InAddressSpace
<1>5. InAddressSpace(b) => Cells(b) \intersect RangeCells(ForbiddenRanges) = {}
    BY UntouchedCells, ConstantsType
<1> QED  BY <1>1, <1>3, <1>4, <1>5 DEF SafeEntries

-----------------------------------------------------------------------------

LEMMA InitEstablishes == Init => IInv
<1> SUFFICES ASSUME Init PROVE IInv
    OBVIOUS
<1>1. MemoryInv
    BY DEF Init, MemoryInv
<1>2. ServingInv /\ EntriesInv
    BY DEF Init, ServingInv, EntriesInv, NoRequest
<1> QED  BY <1>1, <1>2 DEF IInv

\* The first traversal leaves a parser at the first item; Serving means it was valid.
LEMMA ValidatedParser ==
    ASSUME NEW req
    PROVE  /\ Validated(req).count = 0 /\ Validated(req).finished = FALSE
           /\ Verdict(Validated(req)) = "Serving" => ~Validated(req).invalid
<1>1. /\ Validated(req).count = 0 /\ Validated(req).finished = FALSE
    BY DEF Validated, ParserReset
<1>2. Verdict(Validated(req)) = "Serving" => ~Validated(req).invalid
    BY DEF Verdict
<1> QED  BY <1>1, <1>2

LEMMA StartPreserves ==
    ASSUME IInv, NEW req \in Requests, NEW c, NEW p, Start(req, c, p),
           c = "Serving" => p.count = 0 /\ ~p.finished /\ ~p.invalid
    PROVE  IInv' /\ memory' = memory
<1>1. /\ request' = req /\ parser' = p /\ code' = c /\ response' = EncoderInit
      /\ memory' = memory
    BY DEF Start
<1>2. Len(req.items) \in Nat
    BY RequestsAssumption
<1>3. MemoryInv'
    BY <1>1 DEF IInv, MemoryInv
<1>4. ServingInv'
    BY <1>1, <1>2 DEF ServingInv
<1>5. EntriesInv'
    BY <1>1 DEF EntriesInv, EncoderInit
<1> QED  BY <1>1, <1>3, <1>4, <1>5 DEF IInv

LEMMA ServeReadPreserves == IInv /\ ServeRead => IInv' /\ memory' = memory
<1> SUFFICES ASSUME IInv, ServeRead PROVE IInv' /\ memory' = memory
    OBVIOUS
<1> DEFINE p == ReadMemoryNext(request, parser)
           b == request.items[p.count]
           r == ReadMemoryWrite(response, b)
           c == IF p.invalid THEN "InvalidRequest"
                ELSE IF Touches(b, ForbiddenRanges) THEN "Forbidden"
                ELSE IF r.overflow THEN "Overflow" ELSE Progress(p)
<1>1. /\ code = "Serving" /\ request.subfunction = "Read" /\ memory' = memory
      /\ Served(c, p, r) /\ request \in Requests /\ request' = request
    BY DEF ServeRead, IInv, ServingInv, Served
<1>2. ASSUME ~p.invalid
      PROVE  /\ p.count \in Nat /\ p.count <= Len(request.items) /\ IsBlock(b)
    <2> HIDE DEF p
    <2>1. ASSUME NEW q, q = ReadMemoryNext(request, parser), ~q.invalid
          PROVE  /\ q.count \in Nat /\ q.count <= Len(request.items)
                 /\ IsBlock(request.items[q.count])
        BY <1>1, <2>1, ReadItem DEF IInv
    <2> QED  BY <1>2, <2>1 DEF p
<1>3. c \in {"OK", "Serving"} =>
         ~p.invalid /\ ~Touches(b, ForbiddenRanges) /\ ~r.overflow /\ c = Progress(p)
    BY DEF Progress
<1> HIDE DEF c, p
<1>4. ServingInv'
    BY <1>1, <1>2, <1>3, ServedKeepsServing
<1>5. EntriesInv'
    <2>1. CASE Going(c)
        <3>1. /\ r.entries = Append(response.entries,
                   [addr |-> b.addr, length |-> b.length,
                    data |-> [i \in 0 .. b.length - 1 |-> memory[CharAddress(b, i)]]])
            BY <1>3, <2>1 DEF Going, ReadMemoryWrite, EncodeEntry, Overflowed
        <3>2. response.entries \in Seq(SafeEntries)
            BY <1>1 DEF IInv, EntriesInv
        <3>3. [addr |-> b.addr, length |-> b.length,
               data |-> [i \in 0 .. b.length - 1 |-> memory[CharAddress(b, i)]]] \in SafeEntries
            BY <1>2, <1>3, <2>1, EntryIsSafe DEF Going, IInv
        <3>4. r.entries \in Seq(SafeEntries)
            BY <3>1, <3>2, <3>3
        <3> QED  BY <1>1, <2>1, <3>4 DEF Served, EntriesInv
    <2>2. CASE ~Going(c)
        BY <1>1, <2>2 DEF Served, EntriesInv, EncoderInit
    <2> QED  BY <2>1, <2>2
<1>6. MemoryInv'
    BY <1>1 DEF IInv, MemoryInv
<1> QED  BY <1>1, <1>4, <1>5, <1>6 DEF IInv

\* The block written is the one that the tests of both kinds of region let through.
LEMMA ServeWritePreserves ==
    IInv /\ ServeWrite => IInv' /\ ProtectedKept
<1> SUFFICES ASSUME IInv, ServeWrite
             PROVE  IInv' /\ ProtectedKept
    OBVIOUS
<1> DEFINE p == WriteMemoryNext(request, parser)
           b == request.items[p.count]
           c == IF p.invalid THEN "InvalidRequest"
                ELSE IF Touches(b, ForbiddenRanges) \/ Touches(b, ReadonlyRanges)
                     THEN "Forbidden" ELSE Progress(p)
<1>1. /\ code = "Serving" /\ request.subfunction \in {"Write", "WriteMasked"}
      /\ Served(c, p, WriteMemoryWrite(response, b))
      /\ memory' = IF Going(c) THEN WriteBlock(b) ELSE memory
      /\ request \in Requests /\ request' = request
    BY DEF ServeWrite, IInv, ServingInv, Served
<1>2. ASSUME ~p.invalid
      PROVE  /\ p.count \in Nat /\ p.count <= Len(request.items)
             /\ IsBlock(b) /\ IsData(b.source, b) /\ (Masked(request) => IsData(b.mask, b))
    <2> HIDE DEF p
    <2>1. ASSUME NEW q, q = WriteMemoryNext(request, parser), ~q.invalid
          PROVE  LET i == request.items[q.count] IN
                 /\ q.count \in Nat /\ q.count <= Len(request.items)
                 /\ IsBlock(i) /\ IsData(i.source, i) /\ (Masked(request) => IsData(i.mask, i))
        BY <1>1, <2>1, WriteItem DEF IInv
    <2> QED  BY <1>2, <2>1 DEF p
<1>3. c \in {"OK", "Serving"} =>
         /\ ~p.invalid /\ c = Progress(p)
         /\ ~Touches(b, ForbiddenRanges) /\ ~Touches(b, ReadonlyRanges)
    BY DEF Progress
<1> HIDE DEF c, p
<1>4. ServingInv'
    BY <1>1, <1>2, <1>3, ServedKeepsServing
<1>5. EntriesInv'
    BY <1>1 DEF EntriesInv
<1>6. MemoryInv' /\ (InAddressSpace(b) => \A a \in Protected : memory'[a] = memory[a])
    <2>1. CASE Going(c)
        <3> HIDE DEF b
        <3>1. /\ WriteBlock(b) \in [Addresses -> SUBSET Bits]
              /\ \A a \in Addresses \ Cells(b) : WriteBlock(b)[a] = memory[a]
            BY <1>2, <1>3, <2>1, BlockWritten DEF IInv, Going, b
        <3>2. InAddressSpace(b) => Cells(b) \intersect Protected = {}
            <4> SUFFICES ASSUME InAddressSpace(b) PROVE Cells(b) \intersect Protected = {}
                OBVIOUS
            <4>1. Cells(b) \intersect RangeCells(ForbiddenRanges) = {}
                BY <1>2, <1>3, <2>1, UntouchedCells, ConstantsType DEF Going
            <4>2. Cells(b) \intersect RangeCells(ReadonlyRanges) = {}
                BY <1>2, <1>3, <2>1, UntouchedCells, ConstantsType DEF Going
            <4> QED  BY <4>1, <4>2 DEF Protected
        <3>3. Protected \subseteq Addresses
            <4>1. ASSUME NEW ranges \in SUBSET Ranges PROVE RangeCells(ranges) \subseteq Addresses
                BY SizesAssumption DEF RangeCells, Ranges, Addresses
            <4> QED  BY <4>1, ConstantsType DEF Protected
        <3>4. memory' = WriteBlock(b)
            BY <1>1, <2>1 DEF b
        <3> QED  BY <3>1, <3>2, <3>3, <3>4 DEF MemoryInv
    <2>2. CASE ~Going(c)
        BY <1>1, <2>2 DEF IInv, MemoryInv
    <2> QED  BY <2>1, <2>2
<1>7. b = request.items[parser'.count]
    BY <1>1 DEF Served, b
<1> QED  BY <1>4, <1>5, <1>6, <1>7 DEF IInv, ProtectedKept

\* The published values: no memory, no block in the response.
LEMMA RpvPreserves ==
    ASSUME NEW ok \in BOOLEAN, IInv, ServeReadRpv(ok) \/ ServeWriteRpv(ok)
    PROVE  IInv' /\ memory' = memory
<1>1. /\ request \in Requests /\ request' = request /\ memory' = memory
      /\ request.subfunction # "Read" /\ ~parser.invalid
      /\ parser.count \in Nat /\ parser.count <= Len(request.items)
      /\ Len(request.items) \in Nat
    BY RequestsAssumption DEF ServeReadRpv, ServeWriteRpv, Served, IInv, ServingInv
<1>2. ASSUME NEW n, ~Lacks(request, parser, 2)
      PROVE  /\ Advance(request, parser, n).count \in Nat
             /\ Advance(request, parser, n).count <= Len(request.items)
             /\ ~Advance(request, parser, n).invalid
    BY <1>1, <1>2 DEF Lacks, Advance
<1>3. Fail(parser).invalid = TRUE
    BY DEF Fail
<1>4. ServingInv'
    <2>1. CASE ServeReadRpv(ok)
        <3> DEFINE p == ReadRpvNext(request, parser)
        <3>1. ~p.invalid => p.count \in Nat /\ p.count <= Len(request.items)
            BY <1>2, <1>3 DEF ReadRpvNext
        <3>2. /\ request' = request /\ parser' = p
              /\ code' = "Serving" => ~p.invalid /\ ~p.finished
            BY <2>1 DEF ServeReadRpv, Served, Progress
        <3> QED  BY <1>1, <3>1, <3>2 DEF ServingInv
    <2>2. CASE ServeWriteRpv(ok)
        <3> DEFINE p == WriteRpvNext(request, parser)
        <3>1. ~p.invalid => p.count \in Nat /\ p.count <= Len(request.items)
            BY <1>2, <1>3 DEF WriteRpvNext
        <3>2. /\ request' = request /\ parser' = p
              /\ code' = "Serving" => ~p.invalid /\ ~p.finished
            BY <2>2 DEF ServeWriteRpv, Served, Progress
        <3> QED  BY <1>1, <3>1, <3>2 DEF ServingInv
    <2> QED  BY <2>1, <2>2
<1>5. MemoryInv' /\ EntriesInv'
    BY <1>1 DEF IInv, MemoryInv, EntriesInv
<1> QED  BY <1>1, <1>4, <1>5 DEF IInv

LEMMA RequestStarts ==
    ASSUME IInv, NEW req \in Requests,
           StartRead(req) \/ StartWrite(req) \/ StartReadRpv(req)
             \/ StartWriteRpv(req) \/ StartUnknown(req)
    PROVE  IInv' /\ memory' = memory
<1>1. ParserReset.count = 0 /\ ~ParserReset.finished /\ ~ParserReset.invalid
    BY DEF ParserReset
<1>2. ASSUME NEW c, Start(req, c, ParserReset) PROVE IInv' /\ memory' = memory
    BY <1>1, <1>2, StartPreserves
<1>3. ASSUME Start(req, Verdict(Validated(req)), Validated(req))
      PROVE  IInv' /\ memory' = memory
    <2>1. Verdict(Validated(req)) = "Serving" =>
             /\ Validated(req).count = 0
             /\ ~Validated(req).finished /\ ~Validated(req).invalid
        BY ValidatedParser
    <2> QED  BY <1>3, <2>1, StartPreserves
<1> QED  BY <1>2, <1>3 DEF StartRead, StartWrite, StartReadRpv, StartWriteRpv, StartUnknown

LEMMA RespondPreserves == IInv /\ Respond => IInv' /\ memory' = memory
BY DEF IInv, Respond, MemoryInv, ServingInv, EntriesInv, NoRequest

LEMMA NextPreserves ==
    IInv /\ [Next]_vars => IInv' /\ ProtectedKept
<1> SUFFICES ASSUME IInv, [Next]_vars
             PROVE  IInv' /\ ProtectedKept
    OBVIOUS
<1>1. ASSUME NEW req \in Requests,
             StartRead(req) \/ StartWrite(req) \/ StartReadRpv(req)
               \/ StartWriteRpv(req) \/ StartUnknown(req)
      PROVE  IInv' /\ ProtectedKept
    BY <1>1, RequestStarts DEF ProtectedKept
<1>2. CASE ServeRead
    BY <1>2, ServeReadPreserves DEF ProtectedKept
<1>3. CASE ServeWrite
    BY <1>3, ServeWritePreserves
<1>4. ASSUME NEW ok \in BOOLEAN, ServeReadRpv(ok) \/ ServeWriteRpv(ok)
      PROVE  IInv' /\ ProtectedKept
    BY <1>4, RpvPreserves DEF ProtectedKept
<1>5. CASE Respond
    BY <1>5, RespondPreserves DEF ProtectedKept
<1>6. CASE UNCHANGED vars
    BY <1>6 DEF vars, IInv, MemoryInv, ServingInv, EntriesInv, ProtectedKept
<1> QED  BY <1>1, <1>2, <1>3, <1>4, <1>5, <1>6 DEF Next

\* Memory holds chars, the loops run on items of the request and the entries of a read
\* stay clear of the forbidden regions.
THEOREM MemoryInvariant == Spec => []IInv
<1> QED  BY InitEstablishes, NextPreserves, PTL DEF Spec

\* process_memory_control() never writes a char of a forbidden or read-only region for a
\* block that ends inside the address space, whatever else was requested before it.
THEOREM ProtectedNeverWritten == Spec => ProtectedUntouched
<1>1. IInv /\ [Next]_vars => [ProtectedKept]_vars
    BY NextPreserves
<1> QED  BY <1>1, MemoryInvariant, PTL DEF Spec, ProtectedUntouched, ProtectedKept

\* ... and never sends one of a forbidden region for such a block.
THEOREM ForbiddenNeverRead == Spec => []ForbiddenNotRead
<1>1. IInv => ForbiddenNotRead
    <2> SUFFICES ASSUME IInv, request.subfunction = "Read",
                        NEW i \in 1 .. Len(response.entries)
                 PROVE  InAddressSpace(response.entries[i]) =>
                            Cells(response.entries[i]) \intersect RangeCells(ForbiddenRanges) = {}
        BY DEF ForbiddenNotRead
    <2>1. response.entries \in Seq(SafeEntries)
        BY DEF IInv, EntriesInv
    <2>2. response.entries[i] \in SafeEntries
        BY <2>1
    <2> QED  BY <2>2 DEF SafeEntries
<1> QED  BY <1>1, MemoryInvariant, PTL

-----------------------------------------------------------------------------
(* Sums over the items of a request *)

\* f is the sum of the sizes, one by one.
Adds(f, size, n) == f[0] = 0 /\ \A k \in 1 .. n : f[k] = f[k - 1] + size[k]

LEMMA SumItemsAdds ==
    ASSUME NEW m \in Nat, NEW size, \A k \in 1 .. m : size[k] \in Nat
    PROVE  /\ SumItems(0, size) = 0
           /\ \A n \in 0 .. m : SumItems(n, size) \in Nat
           /\ \A n \in 1 .. m : SumItems(n, size) = SumItems(n - 1, size) + size[n]
<1> DEFINE step == [k \in 1 .. m |-> [v \in Nat |-> v + size[k]]]
           R(n, g) == g = [k \in 0 .. n |-> IF k = 0 THEN 0 ELSE g[k - 1] + size[k]]
<1>1. Stepping(step, m, Nat)
    BY DEF Stepping
<1>2. PICK f : f \in [0 .. m -> Nat] /\ Follows(f, 0, step, m, Nat)
    <2> HIDE DEF step
    <2> QED  BY <1>1, Recursion
<1>3. f[0] = 0 /\ \A k \in 1 .. m : f[k] = f[k - 1] + size[k] /\ k - 1 \in 0 .. m
    <2>1. SUFFICES ASSUME NEW k \in 1 .. m PROVE f[k] = f[k - 1] + size[k]
        BY <1>2 DEF Follows
    <2>2. f[k - 1] \in Nat
        BY <1>2
    <2>3. f[k] = step[k][f[k - 1]]
        BY <1>2, <2>2 DEF Follows
    <2> QED  BY <2>2, <2>3
<1>4. ASSUME NEW n \in 0 .. m PROVE SumItems(n, size) = f[n]
    <2>1. R(n, [k \in 0 .. n |-> f[k]])
        BY <1>3
    <2>2. \E g : R(n, g) /\ SumItems(n, size) = g[n]
        BY <2>1 DEF SumItems
    <2>3. PICK g : R(n, g) /\ SumItems(n, size) = g[n]
        BY <2>2
    <2> DEFINE S == {k \in 0 .. n : g[k] = f[k]}
    <2>4. 0 \in S
        BY <1>3, <2>3
    <2>5. ASSUME NEW k \in 1 .. n, k - 1 \in S PROVE k \in S
        <3>1. g[k] = g[k - 1] + size[k] /\ k \in 1 .. m
            BY <2>3
        <3> QED  BY <1>3, <2>5, <3>1
    <2>6. n \in Nat /\ n \in 0 .. n
        OBVIOUS
    <2> HIDE DEF S
    <2>7. \A k \in 0 .. n : k \in S
        BY <2>4, <2>5, <2>6, UpTo
    <2> QED  BY <2>3, <2>6, <2>7 DEF S
<1>5. ASSUME NEW n \in 1 .. m PROVE SumItems(n, size) = SumItems(n - 1, size) + size[n]
    <2>1. n \in 0 .. m /\ n - 1 \in 0 .. m
        OBVIOUS
    <2>2. SumItems(n, size) = f[n] /\ SumItems(n - 1, size) = f[n - 1]
        BY <1>4, <2>1
    <2> QED  BY <1>3, <2>2
<1>6. 0 \in 0 .. m
    OBVIOUS
<1>7. SumItems(0, size) = 0
    BY <1>3, <1>4, <1>6
<1>8. \A n \in 0 .. m : SumItems(n, size) \in Nat
    BY <1>2, <1>4
<1> QED  BY <1>5, <1>7, <1>8

\* Longer sums are larger.
LEMMA SumItemsGrows ==
    ASSUME NEW m \in Nat, NEW size, \A k \in 1 .. m : size[k] \in Nat, NEW i \in 0 .. m
    PROVE  \A n \in i .. m : SumItems(i, size) <= SumItems(n, size)
<1> DEFINE S == {k \in 0 .. m - i : SumItems(i, size) <= SumItems(i + k, size)}
<1>1. /\ \A n \in 0 .. m : SumItems(n, size) \in Nat
      /\ \A n \in 1 .. m : SumItems(n, size) = SumItems(n - 1, size) + size[n]
    BY SumItemsAdds
<1>2. 0 \in S
    BY <1>1
<1>3. ASSUME NEW k \in 1 .. m - i, k - 1 \in S PROVE k \in S
    <2>1. i + k \in 1 .. m /\ i + k - 1 \in 0 .. m /\ i + (k - 1) = i + k - 1
        OBVIOUS
    <2>2. SumItems(i + k, size) = SumItems(i + k - 1, size) + size[i + k]
        BY <1>1, <2>1
    <2>3. SumItems(i, size) <= SumItems(i + k - 1, size)
        BY <1>3, <2>1
    <2>4. SumItems(i, size) \in Nat /\ SumItems(i + k - 1, size) \in Nat /\ size[i + k] \in Nat
        BY <1>1, <2>1
    <2> QED  BY <2>1, <2>2, <2>3, <2>4
<1> HIDE DEF S
<1>4. m - i \in Nat
    OBVIOUS
<1>5. \A k \in 0 .. m - i : k \in S
    BY <1>2, <1>3, <1>4, UpTo
<1> SUFFICES ASSUME NEW n \in i .. m PROVE SumItems(i, size) <= SumItems(n, size)
    OBVIOUS
<1>6. n - i \in 0 .. m - i /\ i + (n - i) = n
    OBVIOUS
<1>7. SumItems(i, size) <= SumItems(i + (n - i), size)
    BY <1>5, <1>6 DEF S
<1> QED  BY <1>6, <1>7

\* What the first n items ask of the transmit buffer.
Needs(req) == [k \in 1 .. Len(req.items) |-> Required(req, req.items[k])]
Need(req, n) == SumItems(n, Needs(req))

MemoryRequests == {req \in Requests : req.subfunction \in MemorySubfunctions}

LEMMA ItemTypes ==
    ASSUME NEW req \in Requests, NEW k \in 1 .. Len(req.items)
    PROVE  /\ ItemSize(req, req.items[k]) \in Nat \ {0}
           /\ req \in MemoryRequests =>
                 /\ IsBlock(req.items[k]) /\ req.items[k].length \in Nat
                 /\ Header <= ItemSize(req, req.items[k])
                 /\ Required(req, req.items[k]) \in Nat
                 /\ req.subfunction # "Read" =>
                        Required(req, req.items[k]) <= ItemSize(req, req.items[k])
<1>1. Header \in Nat \ {0}
    BY SizesAssumption DEF Header
<1>2. IsItem(req.subfunction, req.items[k])
    BY RequestsAssumption
<1>3. CASE req.subfunction \in MemorySubfunctions
    <2>1. IsBlock(req.items[k]) /\ req.items[k].length \in Nat
        BY <1>2, <1>3 DEF IsItem, MemorySubfunctions, IsBlock
    <2> HIDE DEF Header
    <2>2. CASE req.subfunction = "Read"
        <3>1. /\ ItemSize(req, req.items[k]) = Header
              /\ Required(req, req.items[k]) = Header + req.items[k].length
            BY <2>2 DEF ItemSize, Required
        <3> QED  BY <1>1, <2>1, <2>2, <3>1
    <2>3. CASE req.subfunction = "Write"
        <3>1. /\ ItemSize(req, req.items[k]) = Header + req.items[k].length
              /\ Required(req, req.items[k]) = Header
            BY <2>3 DEF ItemSize, Required
        <3> QED  BY <1>1, <2>1, <3>1
    <2>4. CASE req.subfunction = "WriteMasked"
        <3>1. /\ ItemSize(req, req.items[k]) = Header + 2 * req.items[k].length
              /\ Required(req, req.items[k]) = Header
            BY <2>4 DEF ItemSize, Required
        <3> QED  BY <1>1, <2>1, <3>1
    <2> QED  BY <1>3, <2>2, <2>3, <2>4 DEF MemorySubfunctions
<1>4. CASE req.subfunction \notin MemorySubfunctions
    <2>1. req \notin MemoryRequests
        BY <1>4 DEF MemoryRequests
    <2>2. ItemSize(req, req.items[k]) \in Nat \ {0}
        BY <1>4, ConfigAssumption DEF ItemSize, MemorySubfunctions
    <2> QED  BY <2>1, <2>2
<1> QED  BY <1>3, <1>4

\* The sizes of the items add up to a sum that grows with each item.
LEMMA SizesAdd ==
    ASSUME NEW req \in Requests
    PROVE  LET m == Len(req.items) IN
           /\ m \in Nat /\ SizeOf(req, 0) = 0
           /\ \A n \in 0 .. m : SizeOf(req, n) \in Nat
           /\ \A n \in 1 .. m : SizeOf(req, n) = SizeOf(req, n - 1) + ItemSize(req, req.items[n])
           /\ \A i \in 0 .. m : \A n \in i .. m :
                 /\ SizeOf(req, i) <= SizeOf(req, n)
                 /\ SizeOf(req, i) = SizeOf(req, n) => i = n
<1> DEFINE m == Len(req.items)
           size == [k \in 1 .. m |-> ItemSize(req, req.items[k])]
<1>1. m \in Nat
    BY RequestsAssumption
<1>2. \A k \in 1 .. m : size[k] \in Nat \ {0}
    BY ItemTypes
<1>3. \A n : SizeOf(req, n) = SumItems(n, size)
    BY DEF SizeOf
<1>4. \A k \in 1 .. m : size[k] = ItemSize(req, req.items[k])
    OBVIOUS
<1> HIDE DEF size, m
<1>5. /\ SumItems(0, size) = 0
      /\ \A n \in 0 .. m : SumItems(n, size) \in Nat
      /\ \A n \in 1 .. m : SumItems(n, size) = SumItems(n - 1, size) + size[n]
    BY <1>1, <1>2, SumItemsAdds
<1>6. ASSUME NEW i \in 0 .. m, NEW n \in i .. m
      PROVE  /\ SizeOf(req, i) <= SizeOf(req, n)
             /\ SizeOf(req, i) = SizeOf(req, n) => i = n
    <2>1. SizeOf(req, i) <= SizeOf(req, n)
        BY <1>1, <1>2, <1>3, SumItemsGrows
    <2>2. ASSUME i # n PROVE SizeOf(req, i) # SizeOf(req, n)
        <3>1. n \in 1 .. m /\ n - 1 \in i .. m /\ n - 1 \in 0 .. m /\ n \in 0 .. m
            BY <1>1, <2>2
        <3>2. SumItems(i, size) <= SumItems(n - 1, size)
            BY <1>1, <1>2, <3>1, SumItemsGrows
        <3>3. SumItems(n, size) = SumItems(n - 1, size) + size[n] /\ size[n] \in Nat \ {0}
            BY <1>2, <1>5, <3>1
        <3>4. SumItems(i, size) \in Nat /\ SumItems(n - 1, size) \in Nat
            BY <1>5, <3>1
        <3>5. SumItems(i, size) # SumItems(n, size)
            BY <3>2, <3>3, <3>4
        <3> QED  BY <1>3, <3>5
    <2> QED  BY <2>1, <2>2
<1>7. /\ SizeOf(req, 0) = 0 /\ \A n \in 0 .. m : SizeOf(req, n) \in Nat
      /\ \A n \in 1 .. m : SizeOf(req, n) = SizeOf(req, n - 1) + ItemSize(req, req.items[n])
    BY <1>3, <1>4, <1>5
<1> QED  BY <1>1, <1>6, <1>7 DEF m

\* So do their needs.
LEMMA NeedsAdd ==
    ASSUME NEW req \in MemoryRequests
    PROVE  LET m == Len(req.items) IN
           /\ m \in Nat /\ Need(req, 0) = 0
           /\ \A n \in 0 .. m : Need(req, n) \in Nat
           /\ \A n \in 1 .. m : Need(req, n) = Need(req, n - 1) + Required(req, req.items[n])
           /\ \A i \in 0 .. m : \A n \in i .. m : Need(req, i) <= Need(req, n)
           /\ req.subfunction # "Read" => \A n \in 0 .. m : Need(req, n) <= SizeOf(req, n)
<1> DEFINE m == Len(req.items)
<1>1. m \in Nat /\ req \in Requests
    BY RequestsAssumption DEF MemoryRequests
<1>2. \A k \in 1 .. m : /\ Needs(req)[k] = Required(req, req.items[k])
                        /\ Required(req, req.items[k]) \in Nat
    BY <1>1, ItemTypes DEF Needs
<1> HIDE DEF m
<1>3. /\ SumItems(0, Needs(req)) = 0
      /\ \A n \in 0 .. m : SumItems(n, Needs(req)) \in Nat
      /\ \A n \in 1 .. m : SumItems(n, Needs(req)) = SumItems(n - 1, Needs(req)) + Needs(req)[n]
    BY <1>1, <1>2, SumItemsAdds
<1>4. \A i \in 0 .. m : \A n \in i .. m : Need(req, i) <= Need(req, n)
    BY <1>1, <1>2, SumItemsGrows DEF Need
<1>5. /\ Need(req, 0) = 0 /\ \A n \in 0 .. m : Need(req, n) \in Nat
      /\ \A n \in 1 .. m : Need(req, n) = Need(req, n - 1) + Required(req, req.items[n])
    BY <1>2, <1>3 DEF Need
<1>6. ASSUME req.subfunction # "Read", NEW n \in 0 .. m PROVE Need(req, n) <= SizeOf(req, n)
    <2> DEFINE S == {k \in 0 .. m : Need(req, k) <= SizeOf(req, k)}
    <2>1. /\ SizeOf(req, 0) = 0
          /\ \A k \in 0 .. m : SizeOf(req, k) \in Nat
          /\ \A k \in 1 .. m : SizeOf(req, k) = SizeOf(req, k - 1) + ItemSize(req, req.items[k])
        BY <1>1, SizesAdd DEF m
    <2>2. 0 \in S
        BY <1>1, <1>5, <2>1
    <2>3. ASSUME NEW k \in 1 .. m, k - 1 \in S PROVE k \in S
        <3>1. /\ ItemSize(req, req.items[k]) \in Nat /\ Required(req, req.items[k]) \in Nat
              /\ Required(req, req.items[k]) <= ItemSize(req, req.items[k])
            BY <1>1, <1>6, ItemTypes DEF m
        <3>2. /\ Need(req, k) = Need(req, k - 1) + Required(req, req.items[k])
              /\ SizeOf(req, k) = SizeOf(req, k - 1) + ItemSize(req, req.items[k])
            BY <1>5, <2>1
        <3>3. k - 1 \in 0 .. m /\ Need(req, k - 1) <= SizeOf(req, k - 1)
            BY <2>3
        <3>4. Need(req, k - 1) \in Nat /\ SizeOf(req, k - 1) \in Nat
            BY <1>5, <2>1, <3>3
        <3> QED  BY <3>1, <3>2, <3>3, <3>4
    <2> HIDE DEF S
    <2>4. \A k \in 0 .. m : k \in S
        BY <1>1, <2>2, <2>3, UpTo
    <2> QED  BY <2>4 DEF S
<1> QED  BY <1>1, <1>4, <1>5, <1>6 DEF m

-----------------------------------------------------------------------------
(* The parser of blocks *)

LEMMA U16Small == ASSUME NEW n \in Nat, n < 65536 PROVE U16(n) = n
BY DEF U16

\* next() refuses an item: its bytes are not all there, or it is too large.
BlockTooLarge(req, p) ==
    /\ req.subfunction = "Read"
    /\ Header + req.items[p.count + 1].length > U16(MaxTxBufferSize - p.required)
BlockRefused(req, p) ==
    \/ Lacks(req, p, Header)
    \/ BlockTooLarge(req, p)
    \/ /\ req.subfunction # "Read"
       /\ ~PayloadFits(req, req.items[p.count + 1].length, Rest(req, p) - Header)

LEMMA MemoryNextIs ==
    ASSUME NEW req \in MemoryRequests, NEW p, ~(p.finished \/ p.invalid)
    PROVE  MemoryNext(req, p) = IF BlockRefused(req, p) THEN Fail(p)
                                ELSE Advance(req, p, ItemSize(req, req.items[p.count + 1]))
<1>1. CASE req.subfunction = "Read"
    BY <1>1 DEF MemoryNext, ReadMemoryNext, BlockRefused, BlockTooLarge, ItemSize
<1>2. CASE req.subfunction = "Write"
    BY <1>2 DEF MemoryNext, WriteMemoryNext, BlockRefused, BlockTooLarge, ItemSize, Masked
<1>3. CASE req.subfunction = "WriteMasked"
    BY <1>3 DEF MemoryNext, WriteMemoryNext, BlockRefused, BlockTooLarge, ItemSize, Masked
<1> QED  BY <1>1, <1>2, <1>3 DEF MemoryRequests, MemorySubfunctions

\* The parser has taken the first n items.
At(req, n, p) ==
    /\ n \in 0 .. Len(req.items) /\ p.count = n
    /\ p.bytes_read = SizeOf(req, n) /\ SizeOf(req, n) <= req.data_length

\* An item is there if and only if the request is long enough.
LEMMA RefusedOrThere ==
    ASSUME NEW req \in MemoryRequests, NEW n, NEW p, At(req, n, p)
    PROVE  /\ ~BlockRefused(req, p) =>
                 /\ n + 1 \in 1 .. Len(req.items) /\ SizeOf(req, n + 1) <= req.data_length
                 /\ ~BlockTooLarge(req, p)
           /\ n < Len(req.items) /\ SizeOf(req, n + 1) <= req.data_length =>
                 (BlockRefused(req, p) => BlockTooLarge(req, p))
<1> DEFINE m == Len(req.items)
           rest == req.data_length - SizeOf(req, n)
           len == req.items[n + 1].length
<1>1. /\ req \in Requests /\ req.data_length \in Nat /\ req.data_length < 65536
      /\ req.subfunction \in MemorySubfunctions
    BY RequestsAssumption DEF MemoryRequests
<1>2. /\ m \in Nat /\ \A k \in 0 .. m : SizeOf(req, k) \in Nat
      /\ \A k \in 1 .. m : SizeOf(req, k) = SizeOf(req, k - 1) + ItemSize(req, req.items[k])
    BY <1>1, SizesAdd
<1>3. n \in 0 .. m /\ rest \in Nat /\ rest < 65536 /\ p.count = n
    BY <1>1, <1>2 DEF At
<1>4. Rest(req, p) = rest
    BY <1>3, U16Small DEF Rest, At
<1>5. Lacks(req, p, Header) <=> n = m \/ Header > rest
    BY <1>3, <1>4 DEF Lacks
<1>6. Header \in Nat
    BY SizesAssumption DEF Header
<1>7. ASSUME n < m
      PROVE  /\ len \in Nat /\ n + 1 \in 1 .. m
             /\ SizeOf(req, n + 1) = SizeOf(req, n) + ItemSize(req, req.items[n + 1])
    <2>1. n + 1 \in 1 .. m /\ (n + 1) - 1 = n
        BY <1>2, <1>3, <1>7
    <2>2. len \in Nat
        BY <1>1, <2>1, ItemTypes
    <2>3. SizeOf(req, n + 1) = SizeOf(req, (n + 1) - 1) + ItemSize(req, req.items[n + 1])
        BY <1>2, <2>1
    <2> QED  BY <2>1, <2>2, <2>3
<1>8. ASSUME n < m
      PROVE  SizeOf(req, n + 1) <= req.data_length <=> ItemSize(req, req.items[n + 1]) <= rest
    <2>1. ItemSize(req, req.items[n + 1]) \in Nat /\ SizeOf(req, n) \in Nat
        BY <1>1, <1>2, <1>3, <1>7, <1>8, ItemTypes
    <2> HIDE DEF m
    <2> QED  BY <1>1, <1>7, <1>8, <2>1
<1> HIDE DEF rest, m, len
<1>9. ASSUME n < m, Header <= rest
      PROVE  /\ req.subfunction = "Read" => ItemSize(req, req.items[n + 1]) = Header
             /\ req.subfunction # "Read" =>
                  (ItemSize(req, req.items[n + 1]) <= rest <=> PayloadFits(req, len, rest - Header))
    <2> DEFINE payload == rest - Header
    <2>1. len \in Nat /\ payload \in Nat /\ rest = payload + Header
        BY <1>3, <1>6, <1>7, <1>9
    <2> HIDE DEF payload
    <2>2. 2 * len <= payload <=> len <= payload \div 2
        BY <2>1
    <2>3. CASE req.subfunction = "Read"
        BY <2>3 DEF ItemSize
    <2>4. CASE req.subfunction = "Write"
        <3>1. ItemSize(req, req.items[n + 1]) = Header + len
            BY <2>4 DEF ItemSize, len
        <3>2. PayloadFits(req, len, payload) <=> len <= payload
            BY <2>4 DEF PayloadFits, Masked
        <3>3. Header + len <= rest <=> len <= payload
            BY <1>6, <2>1
        <3> QED  BY <2>4, <3>1, <3>2, <3>3 DEF payload
    <2>5. CASE req.subfunction = "WriteMasked"
        <3>1. ItemSize(req, req.items[n + 1]) = Header + 2 * len
            BY <2>5 DEF ItemSize, len
        <3>2. PayloadFits(req, len, payload) <=> len <= payload /\ len <= payload \div 2
            BY <2>5 DEF PayloadFits, Masked
        <3>3. Header + 2 * len <= rest <=> 2 * len <= payload
            BY <1>6, <2>1
        <3>4. 2 * len <= payload => len <= payload
            BY <2>1
        <3> QED  BY <2>2, <2>5, <3>1, <3>2, <3>3, <3>4 DEF payload
    <2> QED  BY <1>1, <2>3, <2>4, <2>5 DEF MemorySubfunctions
<1>10. BlockRefused(req, p) <=> \/ n = m \/ Header > rest \/ BlockTooLarge(req, p)
                                \/ /\ req.subfunction # "Read"
                                   /\ ~PayloadFits(req, len, rest - Header)
    BY <1>3, <1>4, <1>5 DEF BlockRefused, len
<1>11. ASSUME n < m PROVE Header <= ItemSize(req, req.items[n + 1]) /\ ItemSize(req, req.items[n + 1]) \in Nat
    BY <1>1, <1>7, <1>11, ItemTypes DEF m, MemoryRequests
<1>12. ASSUME ~BlockRefused(req, p)
       PROVE  /\ n + 1 \in 1 .. m /\ SizeOf(req, n + 1) <= req.data_length
              /\ ~BlockTooLarge(req, p)
    <2>1. n < m /\ Header <= rest
        BY <1>2, <1>3, <1>6, <1>10, <1>12
    <2>2. ItemSize(req, req.items[n + 1]) <= rest
        BY <1>9, <1>10, <1>12, <2>1
    <2> QED  BY <1>7, <1>8, <1>10, <1>12, <2>1, <2>2
<1>13. ASSUME n < m, SizeOf(req, n + 1) <= req.data_length, BlockRefused(req, p)
       PROVE  BlockTooLarge(req, p)
    <2>1. ItemSize(req, req.items[n + 1]) <= rest
        BY <1>8, <1>13
    <2>2. Header <= rest /\ n # m
        BY <1>3, <1>6, <1>11, <1>13, <2>1
    <2> QED  BY <1>3, <1>6, <1>9, <1>10, <1>13, <2>1, <2>2
<1> QED  BY <1>12, <1>13 DEF m

-----------------------------------------------------------------------------
(* The first traversal of the parser *)

Parsers == [bytes_read : Int, count : Int, required : Int, invalid : BOOLEAN, finished : BOOLEAN]

\* One step of the traversal.
Traverse(req, p) ==
    LET q == MemoryNext(req, p) IN
    IF q.invalid \/ q.finished THEN q
    ELSE [q EXCEPT !.required = @ + Required(req, req.items[q.count])]

\* A whole request that this parser has to refuse: it is too large to be answered.
TooLarge(req, n) == req.subfunction = "Read" /\ Need(req, n) > MaxTxBufferSize

\* After n steps: the first n items are taken, or the traversal has ended.
Running(req, n, p) ==
    /\ ~p.invalid /\ ~p.finished /\ At(req, n, p)
    /\ n > 0 => SizeOf(req, n) # req.data_length
    /\ p.required = Need(req, n) /\ Need(req, n) <= RequiredLimit(req)
Failed(req, p) ==
    /\ p.invalid /\ p.required \in 0 .. RequiredLimit(req)
    /\ \A w \in Whole(req) : TooLarge(req, w)
Done(req, p) ==
    /\ ~p.invalid /\ p.finished /\ p.required \in 0 .. RequiredLimit(req)
    /\ \E w \in Whole(req) : p.required = Need(req, w - 1) /\ ~TooLarge(req, w)
Traversed(req, n, p) == p \in Parsers /\ (Running(req, n, p) \/ Failed(req, p) \/ Done(req, p))

LEMMA LimitTypes ==
    ASSUME NEW req \in MemoryRequests
    PROVE  /\ req \in Requests /\ req.data_length \in Nat /\ req.data_length < 65536
           /\ MaxTxBufferSize \in Nat /\ MaxTxBufferSize < 65536
           /\ RequiredLimit(req) \in Nat /\ RequiredLimit(req) < 65536
BY RequestsAssumption, SizesAssumption DEF MemoryRequests, RequiredLimit

\* A block that next() takes.
LEMMA Takes ==
    ASSUME NEW req \in MemoryRequests, NEW n, NEW p \in Parsers, Running(req, n, p),
           ~BlockRefused(req, p)
    PROVE  Traversed(req, n + 1, Traverse(req, p))
<1> DEFINE item == req.items[n + 1]
           q == [bytes_read |-> p.bytes_read + ItemSize(req, item), count |-> p.count + 1,
                 required |-> p.required, invalid |-> p.invalid,
                 finished |-> p.bytes_read + ItemSize(req, item) = req.data_length]
           t == [q EXCEPT !.required = @ + Required(req, item)]
<1>1. /\ At(req, n, p) /\ ~p.finished /\ p.invalid = FALSE /\ p.count = n
      /\ p.required = Need(req, n) /\ p.bytes_read = SizeOf(req, n)
      /\ n \in 0 .. Len(req.items)
    BY DEF Running, At, Parsers
<1>2. /\ n + 1 \in 1 .. Len(req.items) /\ SizeOf(req, n + 1) <= req.data_length
      /\ ~BlockTooLarge(req, p)
    BY <1>1, RefusedOrThere
<1>3. MemoryNext(req, p) = q
    BY <1>1, MemoryNextIs DEF Advance
<1>4. /\ req \in Requests /\ req.data_length \in Nat
      /\ MaxTxBufferSize \in Nat /\ MaxTxBufferSize < 65536
    BY LimitTypes
<1>5. /\ Len(req.items) \in Nat /\ n + 1 \in 0 .. Len(req.items) /\ (n + 1) - 1 = n
    BY <1>1, <1>2, SizesAdd, LimitTypes
<1>6. /\ SizeOf(req, n + 1) = SizeOf(req, n) + ItemSize(req, item)
      /\ SizeOf(req, n) \in Nat /\ SizeOf(req, n + 1) \in Nat
      /\ ItemSize(req, item) \in Nat
    BY <1>1, <1>2, <1>4, <1>5, SizesAdd, ItemTypes
<1>7. /\ Need(req, n + 1) = Need(req, n) + Required(req, item)
      /\ Need(req, n) \in Nat /\ Need(req, n + 1) \in Nat
      /\ Required(req, item) \in Nat
    BY <1>1, <1>2, <1>4, <1>5, NeedsAdd, ItemTypes
<1>8. Need(req, n + 1) <= RequiredLimit(req) /\ Need(req, n) <= RequiredLimit(req)
    <2>1. CASE req.subfunction = "Read"
        <3>1. U16(MaxTxBufferSize - p.required) = MaxTxBufferSize - p.required
            BY <1>1, <1>4, <1>7, <2>1, U16Small DEF Running, RequiredLimit
        <3>2. Required(req, item) <= MaxTxBufferSize - Need(req, n)
            <4>1. Required(req, item) \in Nat /\ Required(req, item) = Header + item.length
                BY <1>7, <2>1 DEF Required
            <4>2. ~(Header + item.length > MaxTxBufferSize - Need(req, n))
                BY <1>1, <1>2, <2>1, <3>1 DEF BlockTooLarge
            <4> HIDE DEF item
            <4> QED  BY <1>4, <1>7, <4>1, <4>2
        <3> HIDE DEF item
        <3> QED  BY <1>4, <1>7, <2>1, <3>2 DEF RequiredLimit
    <2>2. CASE req.subfunction # "Read"
        <3>1. Need(req, n + 1) <= SizeOf(req, n + 1)
            BY <1>5, <2>2, NeedsAdd
        <3> HIDE DEF item
        <3> QED  BY <1>2, <1>4, <1>6, <1>7, <2>2, <3>1 DEF RequiredLimit
    <2> QED  BY <2>1, <2>2
<1>9. CASE q.finished
    <2>1. Traverse(req, p) = q
        BY <1>3, <1>9 DEF Traverse
    <2>2. SizeOf(req, n + 1) = req.data_length
        BY <1>1, <1>6, <1>9
    <2>3. n + 1 \in Whole(req)
        BY <1>2, <2>2 DEF Whole
    <2>4. q.required = Need(req, (n + 1) - 1) /\ q.required \in 0 .. RequiredLimit(req)
        BY <1>1, <1>5, <1>7, <1>8, LimitTypes
    <2>5. ~TooLarge(req, n + 1)
        BY <1>4, <1>7, <1>8 DEF TooLarge, RequiredLimit
    <2>6. ~q.invalid /\ q \in Parsers
        BY <1>1, <1>5, <1>6, <1>7 DEF Parsers
    <2> HIDE DEF q
    <2>7. Done(req, q)
        BY <1>9, <2>3, <2>4, <2>5, <2>6 DEF Done
    <2> QED  BY <2>1, <2>6, <2>7 DEF Traversed
<1>10. CASE ~q.finished
    <2>1. q.count = n + 1 /\ ~q.invalid
        BY <1>1
    <2>2. Traverse(req, p) = t
        <3> HIDE DEF q
        <3> QED  BY <1>3, <1>10, <2>1 DEF Traverse
    <2>3. t = [bytes_read |-> SizeOf(req, n + 1), count |-> n + 1,
               required |-> Need(req, n + 1), invalid |-> FALSE, finished |-> FALSE]
        <3>1. (p.bytes_read + ItemSize(req, item) = req.data_length) = FALSE
            BY <1>10
        <3>2. q = [bytes_read |-> SizeOf(req, n + 1), count |-> n + 1,
                   required |-> Need(req, n), invalid |-> FALSE, finished |-> FALSE]
            BY <1>1, <1>6, <3>1
        <3>3. t = [[bytes_read |-> SizeOf(req, n + 1), count |-> n + 1, required |-> Need(req, n),
                    invalid |-> FALSE, finished |-> FALSE]
                       EXCEPT !.required = @ + Required(req, item)]
            BY <3>2
        <3> HIDE DEF t
        <3> QED  BY <1>7, <3>3
    <2>4. SizeOf(req, n + 1) # req.data_length
        BY <1>1, <1>6, <1>10
    <2> HIDE DEF t, q
    <2>5. t \in Parsers /\ At(req, n + 1, t)
        BY <1>2, <1>5, <1>6, <1>7, <2>3 DEF Parsers, At
    <2>6. Running(req, n + 1, t)
        BY <1>8, <2>3, <2>4, <2>5 DEF Running
    <2> QED  BY <2>2, <2>5, <2>6 DEF Traversed
<1> QED  BY <1>9, <1>10

\* A block that next() refuses: if the request is whole, it is too large.
LEMMA Refuses ==
    ASSUME NEW req \in MemoryRequests, NEW n, NEW p \in Parsers, Running(req, n, p),
           BlockRefused(req, p)
    PROVE  Traversed(req, n + 1, Traverse(req, p))
<1> DEFINE q == [bytes_read |-> p.bytes_read, count |-> p.count, required |-> p.required,
                 invalid |-> TRUE, finished |-> TRUE]
           m == Len(req.items)
<1>1. /\ At(req, n, p) /\ ~p.invalid /\ ~p.finished /\ p.count = n
      /\ p.required = Need(req, n) /\ n \in 0 .. m
      /\ Need(req, n) <= RequiredLimit(req)
    BY DEF Running, At
<1>2. MemoryNext(req, p) = q
    BY <1>1, MemoryNextIs DEF Fail
<1>3. Traverse(req, p) = q
    BY <1>2 DEF Traverse
<1>4. /\ req \in Requests /\ req.data_length \in Nat /\ RequiredLimit(req) \in Nat
      /\ MaxTxBufferSize \in Nat /\ MaxTxBufferSize < 65536
    BY LimitTypes
<1>5. ASSUME NEW w \in Whole(req) PROVE TooLarge(req, w)
    <2>1. /\ w \in 1 .. m /\ SizeOf(req, w) = req.data_length /\ m \in Nat
        BY <1>4, SizesAdd DEF Whole
    <2>2. n < w
        <3>1. n # w
            BY <1>1, <2>1 DEF Running
        <3>2. CASE w < n
            <4>1. n \in w .. m /\ w \in 0 .. m
                BY <1>1, <2>1, <3>2
            <4>2. SizeOf(req, w) <= SizeOf(req, n) /\ (SizeOf(req, w) = SizeOf(req, n) => w = n)
                BY <1>4, <4>1, SizesAdd
            <4>3. SizeOf(req, n) <= req.data_length /\ SizeOf(req, n) \in Nat
                BY <1>1, <1>4, SizesAdd DEF At
            <4> QED  BY <1>4, <2>1, <3>1, <4>2, <4>3
        <3> QED  BY <1>1, <2>1, <3>1, <3>2
    <2>3. n + 1 \in 0 .. m /\ w \in n + 1 .. m /\ n < m /\ n + 1 \in 1 .. m /\ (n + 1) - 1 = n
        BY <1>1, <2>1, <2>2
    <2>4. SizeOf(req, n + 1) <= req.data_length
        BY <1>4, <2>1, <2>3, SizesAdd
    <2>5. BlockTooLarge(req, p)
        BY <1>1, <2>3, <2>4, RefusedOrThere
    <2>6. req.subfunction = "Read"
        BY <2>5 DEF BlockTooLarge
    <2>7. /\ Need(req, n) \in Nat /\ Need(req, w) \in Nat /\ Need(req, n + 1) <= Need(req, w)
          /\ Need(req, n + 1) = Need(req, n) + Required(req, req.items[n + 1])
          /\ Required(req, req.items[n + 1]) \in Nat
        BY <1>1, <1>4, <2>1, <2>3, NeedsAdd, ItemTypes
    <2>8. U16(MaxTxBufferSize - p.required) = MaxTxBufferSize - Need(req, n)
        BY <1>1, <1>4, <2>6, <2>7, U16Small DEF RequiredLimit
    <2>9. Required(req, req.items[n + 1]) > MaxTxBufferSize - Need(req, n)
        BY <1>1, <2>5, <2>6, <2>8 DEF BlockTooLarge, Required
    <2>10. Need(req, w) > MaxTxBufferSize
        BY <1>4, <2>7, <2>9
    <2> QED  BY <2>6, <2>10 DEF TooLarge
<1>6. Need(req, n) \in Nat
    BY <1>1, NeedsAdd
<1>7. q \in Parsers /\ q.invalid /\ q.required \in 0 .. RequiredLimit(req)
    BY <1>1, <1>4, <1>6 DEF Parsers
<1> HIDE DEF q
<1>8. Failed(req, q)
    BY <1>5, <1>7 DEF Failed
<1> QED  BY <1>3, <1>7, <1>8 DEF Traversed

LEMMA TraverseSteps ==
    ASSUME NEW req \in MemoryRequests, NEW n, NEW p, Traversed(req, n, p)
    PROVE  Traversed(req, n + 1, Traverse(req, p))
<1>1. CASE Running(req, n, p)
    BY <1>1, Takes, Refuses DEF Traversed
<1>2. CASE Failed(req, p) \/ Done(req, p)
    <2>1. p.finished \/ p.invalid
        BY <1>2 DEF Failed, Done
    <2>2. MemoryNext(req, p) = p
        BY <2>1 DEF MemoryNext, ReadMemoryNext, WriteMemoryNext
    <2>3. Traverse(req, p) = p
        BY <2>1, <2>2 DEF Traverse
    <2> QED  BY <1>2, <2>3 DEF Traversed
<1> QED  BY <1>1, <1>2 DEF Traversed

\* init() finds a request invalid only if it is not whole or too large for the reads.
LEMMA ValidatedIs ==
    ASSUME NEW req \in MemoryRequests
    PROVE  LET v == Validated(req) IN
           /\ v \in Parsers /\ v.bytes_read = 0 /\ v.count = 0 /\ ~v.finished
           /\ v.required \in 0 .. RequiredLimit(req)
           /\ v.invalid => \A w \in Whole(req) : TooLarge(req, w)
           /\ ~v.invalid =>
                 \E w \in Whole(req) : v.required = Need(req, w - 1) /\ ~TooLarge(req, w)
<1> DEFINE m == Len(req.items) + 1
           Reached == {p \in Parsers : \E n \in Nat : Traversed(req, n, p)}
           step == [k \in 1 .. m |-> [p \in Reached |-> Traverse(req, p)]]
           R(g) == g = [n \in 0 .. Len(req.items) + 1 |->
                          IF n = 0 THEN ParserReset
                          ELSE LET p == MemoryNext(req, g[n - 1]) IN
                               IF p.invalid \/ p.finished THEN p
                               ELSE [p EXCEPT !.required = @ + Required(req, req.items[p.count])]]
<1>1. /\ req \in Requests /\ Len(req.items) \in Nat /\ m \in Nat
      /\ SizeOf(req, 0) = 0 /\ Need(req, 0) = 0
      /\ req.data_length \in Nat /\ RequiredLimit(req) \in Nat
    BY SizesAdd, NeedsAdd, LimitTypes
<1>2. Traversed(req, 0, ParserReset)
    <2>1. ParserReset \in Parsers
        BY DEF ParserReset, Parsers
    <2>2. /\ ParserReset.count = 0 /\ ParserReset.bytes_read = 0 /\ ParserReset.required = 0
          /\ ~ParserReset.invalid /\ ~ParserReset.finished
        BY DEF ParserReset
    <2>3. At(req, 0, ParserReset)
        BY <1>1, <2>2 DEF At
    <2>4. Running(req, 0, ParserReset)
        BY <1>1, <2>2, <2>3 DEF Running
    <2> QED  BY <2>1, <2>4 DEF Traversed
<1>3. ParserReset \in Reached
    BY <1>2 DEF Traversed
<1>4. ASSUME NEW p \in Reached PROVE Traverse(req, p) \in Reached
    <2>1. PICK n \in Nat : Traversed(req, n, p)
        OBVIOUS
    <2>2. Traversed(req, n + 1, Traverse(req, p))
        BY <2>1, TraverseSteps
    <2>3. Traverse(req, p) \in Parsers /\ n + 1 \in Nat
        BY <2>2 DEF Traversed
    <2> QED  BY <2>2, <2>3
<1> HIDE DEF Reached
<1>5. Stepping(step, m, Reached)
    BY <1>4 DEF Stepping
<1>6. PICK f : f \in [0 .. m -> Reached] /\ Follows(f, ParserReset, step, m, Reached)
    <2> HIDE DEF step, m
    <2> QED  BY <1>1, <1>3, <1>5, Recursion
<1>7. f[0] = ParserReset /\ \A k \in 1 .. m : f[k] = Traverse(req, f[k - 1])
    <2>1. SUFFICES ASSUME NEW k \in 1 .. m PROVE f[k] = Traverse(req, f[k - 1])
        BY <1>6 DEF Follows
    <2>2. k - 1 \in 0 .. m
        BY <1>1
    <2>3. f[k - 1] \in Reached
        BY <1>6, <2>2
    <2>4. f[k] = step[k][f[k - 1]]
        BY <1>6, <2>3 DEF Follows
    <2> QED  BY <2>3, <2>4
<1>8. R(f)
    <2>1. f = [n \in 0 .. m |-> f[n]]
        BY <1>6
    <2>2. \A n \in 0 .. m : n # 0 => f[n] = Traverse(req, f[n - 1])
        BY <1>1, <1>7
    <2>3. \A n \in 0 .. m : n = 0 => f[n] = ParserReset
        BY <1>7
    <2> QED  BY <2>1, <2>2, <2>3 DEF Traverse
<1>9. PICK g : /\ R(g)
               /\ Validated(req) = [ParserReset EXCEPT !.required = g[Len(req.items) + 1].required,
                                                      !.invalid = g[Len(req.items) + 1].invalid]
    BY <1>8 DEF Validated
<1>10. g[0] = ParserReset /\ \A k \in 1 .. m : g[k] = Traverse(req, g[k - 1])
    <2>1. g[0] = ParserReset
        <3>1. 0 \in 0 .. Len(req.items) + 1
            BY <1>1
        <3> QED  BY <1>9, <3>1
    <2>2. ASSUME NEW k \in 1 .. m PROVE g[k] = Traverse(req, g[k - 1])
        <3>1. k \in 0 .. Len(req.items) + 1 /\ k # 0
            BY <1>1
        <3> QED  BY <1>9, <3>1 DEF Traverse
    <2> QED  BY <2>1, <2>2
<1> DEFINE S == {n \in 0 .. m : Traversed(req, n, g[n])}
<1>11. 0 \in S
    BY <1>1, <1>2, <1>10
<1>12. ASSUME NEW n \in 1 .. m, n - 1 \in S PROVE n \in S
    <2>1. Traversed(req, (n - 1) + 1, Traverse(req, g[n - 1])) /\ (n - 1) + 1 = n
        BY <1>12, TraverseSteps
    <2> QED  BY <1>10, <2>1
<1>13. \A n \in 0 .. m : n \in S
    <2> HIDE DEF S, m
    <2> QED  BY <1>1, <1>11, <1>12, UpTo
<1> DEFINE last == g[m]
<1>14. Traversed(req, m, last)
    BY <1>1, <1>13
<1>15. ~Running(req, m, last)
    BY <1>1 DEF Running, At
<1>16. /\ Validated(req).required = last.required /\ Validated(req).invalid = last.invalid
       /\ Validated(req).count = 0 /\ Validated(req).bytes_read = 0
       /\ Validated(req).finished = FALSE
       /\ Validated(req) = [bytes_read |-> 0, count |-> 0, required |-> last.required,
                            invalid |-> last.invalid, finished |-> FALSE]
    BY <1>9 DEF ParserReset
<1> HIDE DEF last
<1>17. /\ last \in Parsers /\ last.required \in 0 .. RequiredLimit(req)
       /\ last.invalid => \A w \in Whole(req) : TooLarge(req, w)
       /\ ~last.invalid =>
             \E w \in Whole(req) : last.required = Need(req, w - 1) /\ ~TooLarge(req, w)
    BY <1>14, <1>15 DEF Traversed, Failed, Done
<1>18. Validated(req) \in Parsers
    BY <1>1, <1>16, <1>17 DEF Parsers
<1> QED  BY <1>16, <1>17, <1>18

-----------------------------------------------------------------------------
(* What the blocks of a write make of memory *)

Memories == [Addresses -> SUBSET Bits]
WriteRequests == {req \in Requests : req.subfunction \in {"Write", "WriteMasked"}}

\* The reference for one block.
Applied(req, b, before) ==
    [a \in Addresses |-> IF a \in Cells(b) THEN NewChar(req, b, CharIndex(b, a), before[a])
                         ELSE before[a]]

LEMMA WriteTypes ==
    ASSUME NEW req \in WriteRequests
    PROVE  /\ req \in Requests /\ req \in MemoryRequests /\ Len(req.items) \in Nat
           /\ \A k \in 1 .. Len(req.items) :
                 LET b == req.items[k] IN
                 IsBlock(b) /\ IsData(b.source, b) /\ (Masked(req) => IsData(b.mask, b))
<1>1. /\ req \in Requests /\ req \in MemoryRequests /\ Len(req.items) \in Nat
    BY RequestsAssumption DEF WriteRequests, MemoryRequests, MemorySubfunctions
<1>2. ASSUME NEW k \in 1 .. Len(req.items)
      PROVE  LET b == req.items[k] IN
             IsBlock(b) /\ IsData(b.source, b) /\ (Masked(req) => IsData(b.mask, b))
    <2>1. IsItem(req.subfunction, req.items[k])
        BY <1>1, RequestsAssumption
    <2> QED  BY <2>1 DEF IsItem, Masked, WriteRequests
<1> QED  BY <1>1, <1>2

LEMMA CharIndexInside ==
    ASSUME NEW b, IsBlock(b), NEW a \in Addresses, a \in Cells(b)
    PROVE  CharIndex(b, a) \in 0 .. b.length - 1 /\ ~(CharIndex(b, a) >= b.length)
<1>1. CharIndex(b, a) < b.length /\ CharIndex(b, a) \in Nat /\ b.length \in Nat
    BY CellsOffset, CharIndexIs DEF IsBlock
<1> QED  BY <1>1

LEMMA AppliedType ==
    ASSUME NEW req \in WriteRequests, NEW k \in 1 .. Len(req.items), NEW before \in Memories
    PROVE  Applied(req, req.items[k], before) \in Memories
<1> DEFINE b == req.items[k]
<1>1. IsBlock(b) /\ IsData(b.source, b) /\ (Masked(req) => IsData(b.mask, b))
    BY WriteTypes
<1> HIDE DEF b
<1>2. ASSUME NEW a \in Addresses, a \in Cells(b)
      PROVE  NewChar(req, b, CharIndex(b, a), before[a]) \in SUBSET Bits
    <2>1. before[a] \in SUBSET Bits /\ b.source[CharIndex(b, a)] \in SUBSET Bits
        BY <1>1, <1>2, CharIndexInside DEF Memories, IsData
    <2> QED  BY <2>1 DEF NewChar
<1>3. Applied(req, b, before) \in Memories
    BY <1>2 DEF Applied, Memories
<1> QED  BY <1>3 DEF b

LEMMA ResultIs ==
    ASSUME NEW req \in WriteRequests, NEW before \in Memories
    PROVE  /\ Result(req, before, 0) = before
           /\ \A n \in 1 .. Len(req.items) :
                 Result(req, before, n) = Applied(req, req.items[n], Result(req, before, n - 1))
           /\ \A n \in 0 .. Len(req.items) : Result(req, before, n) \in Memories
<1> DEFINE m == Len(req.items)
           step == [k \in 1 .. m |-> [x \in Memories |-> Applied(req, req.items[k], x)]]
           R(n, g) == g = [k \in 0 .. n |->
                IF k = 0 THEN before
                ELSE [a \in Addresses |->
                        IF a \in Cells(req.items[k])
                        THEN NewChar(req, req.items[k], CharIndex(req.items[k], a), g[k - 1][a])
                        ELSE g[k - 1][a]]]
<1>1. m \in Nat
    BY WriteTypes
<1>2. Stepping(step, m, Memories)
    BY AppliedType DEF Stepping
<1>3. /\ Iterate(before, step, 0) = before
      /\ \A n \in 1 .. m : Iterate(before, step, n) = step[n][Iterate(before, step, n - 1)]
      /\ \A n \in 0 .. m : Iterate(before, step, n) \in Memories
    <2> HIDE DEF step, m
    <2> QED  BY <1>1, <1>2, IterateSteps
<1>4. PICK f : f \in [0 .. m -> Memories] /\ Follows(f, before, step, m, Memories)
    <2> HIDE DEF step, m
    <2> QED  BY <1>1, <1>2, Recursion
<1>5. f[0] = before /\ \A k \in 1 .. m : f[k] = Applied(req, req.items[k], f[k - 1])
    <2>1. SUFFICES ASSUME NEW k \in 1 .. m PROVE f[k] = Applied(req, req.items[k], f[k - 1])
        BY <1>4 DEF Follows
    <2>2. k - 1 \in 0 .. m
        BY <1>1
    <2>3. f[k - 1] \in Memories
        BY <1>4, <2>2
    <2>4. f[k] = step[k][f[k - 1]]
        BY <1>4, <2>3 DEF Follows
    <2> QED  BY <2>3, <2>4
<1>6. ASSUME NEW n \in 0 .. m PROVE Result(req, before, n) = Iterate(before, step, n)
    <2>1. R(n, [k \in 0 .. n |-> f[k]])
        <3>1. \A k \in 0 .. n : /\ k = 0 => f[k] = before
                                /\ k # 0 => f[k] = Applied(req, req.items[k], f[k - 1])
                                            /\ k - 1 \in 0 .. n
            BY <1>1, <1>5
        <3> QED  BY <3>1 DEF Applied
    <2>2. PICK g : R(n, g) /\ Result(req, before, n) = g[n]
        BY <2>1 DEF Result
    <2>3. g[0] = before
        <3>1. 0 \in 0 .. n
            BY <1>1
        <3> QED  BY <2>2, <3>1
    <2>4. ASSUME NEW k \in 1 .. n, g[k - 1] \in Memories PROVE g[k] = step[k][g[k - 1]]
        <3>1. k \in 0 .. n /\ k # 0 /\ k \in 1 .. m
            BY <1>1
        <3>2. g[k] = Applied(req, req.items[k], g[k - 1])
            BY <2>2, <3>1 DEF Applied
        <3> QED  BY <2>4, <3>1, <3>2
    <2>5. Follows(g, before, step, n, Memories)
        BY <2>3, <2>4 DEF Follows
    <2> HIDE DEF step, m, R
    <2>6. g[n] = Iterate(before, step, n)
        BY <1>1, <1>2, <2>5, IterateIs
    <2> QED  BY <2>2, <2>6
<1>7. ASSUME NEW n \in 1 .. m
      PROVE  Result(req, before, n) = Applied(req, req.items[n], Result(req, before, n - 1))
    <2>1. n \in 0 .. m /\ n - 1 \in 0 .. m
        BY <1>1
    <2>2. /\ Result(req, before, n) = Iterate(before, step, n)
          /\ Result(req, before, n - 1) = Iterate(before, step, n - 1)
        BY <1>6, <2>1
    <2>3. Iterate(before, step, n - 1) \in Memories
        BY <1>3, <2>1
    <2>4. Iterate(before, step, n) = step[n][Iterate(before, step, n - 1)]
        BY <1>3
    <2> QED  BY <2>2, <2>3, <2>4
<1>8. 0 \in 0 .. m
    BY <1>1
<1> HIDE DEF step
<1> QED  BY <1>3, <1>6, <1>7, <1>8

\* WriteBlock() does what the reference says.
LEMMA BlockApplied ==
    ASSUME memory \in Memories, request \in WriteRequests, NEW k \in 1 .. Len(request.items)
    PROVE  WriteBlock(request.items[k]) = Applied(request, request.items[k], memory)
<1> DEFINE b == request.items[k]
<1>1. IsBlock(b) /\ IsData(b.source, b) /\ (Masked(request) => IsData(b.mask, b))
    BY WriteTypes
<1> HIDE DEF b
<1>2. ASSUME NEW a \in Addresses
      PROVE  WriteBlock(b)[a] = IF a \in Cells(b) THEN NewChar(request, b, CharIndex(b, a), memory[a])
                                ELSE memory[a]
    <2>1. CASE a \notin Cells(b)
        <3>1. CharIndex(b, a) >= b.length
            BY <1>1, <2>1, CellsOffset, CharIndexIs DEF IsBlock
        <3> QED  BY <2>1, <3>1 DEF WriteBlock
    <2>2. CASE a \in Cells(b)
        <3>1. CharIndex(b, a) \in 0 .. b.length - 1 /\ ~(CharIndex(b, a) >= b.length)
            BY <1>1, <2>2, CharIndexInside
        <3>2. memory[a] \in SUBSET Bits /\ b.source[CharIndex(b, a)] \in SUBSET Bits
            BY <1>1, <3>1 DEF Memories, IsData
        <3>3. Masked(request) =>
                 MaskedChar(memory[a], b.source[CharIndex(b, a)], b.mask[CharIndex(b, a)])
                   = NewChar(request, b, CharIndex(b, a), memory[a])
            BY <3>2 DEF MaskedChar, NewChar
        <3>4. ~Masked(request) => NewChar(request, b, CharIndex(b, a), memory[a]) = b.source[CharIndex(b, a)]
            BY DEF NewChar
        <3>5. WriteBlock(b)[a] =
                 IF Masked(request)
                 THEN MaskedChar(memory[a], b.source[CharIndex(b, a)], b.mask[CharIndex(b, a)])
                 ELSE b.source[CharIndex(b, a)]
            BY <1>1, <3>1, CharIndexIs DEF WriteBlock, IsBlock
        <3> QED  BY <2>2, <3>3, <3>4, <3>5
    <2> QED  BY <2>1, <2>2
<1>3. WriteBlock(b) = [a \in Addresses |-> WriteBlock(b)[a]]
    BY DEF WriteBlock
<1>4. WriteBlock(b) = Applied(request, b, memory)
    BY <1>2, <1>3 DEF Applied
<1> QED  BY <1>4 DEF b

-----------------------------------------------------------------------------
(* The invariant of the loops *)

\* The callback was given the first items, in order.
Accepted == \E n \in 0 .. parser.count : published = [k \in 1 .. n |-> request.items[k]]

Types ==
    /\ config \in Configs /\ memory \in Memories /\ start \in Memories /\ code \in Codes
    /\ IF code = "Idle" THEN request = NoRequest /\ start = memory ELSE request \in Requests
    /\ parser \in Parsers
    /\ parser.bytes_read \in 0 .. request.data_length
    /\ parser.count \in 0 .. Len(request.items)
    /\ parser.required \in 0 .. RequiredLimit(request)
    /\ response.cursor \in 0 .. config.tx /\ response.overflow \in BOOLEAN
    /\ ~Going(code) => response = EncoderInit
    /\ Accepted
    /\ request.subfunction # "WriteRPV" => published = << >>

\* The loops follow the items; a request of blocks was found whole by init().
Loops ==
    Going(code) =>
        /\ request.subfunction \in MemorySubfunctions \union RpvSubfunctions
        /\ At(request, parser.count, parser) /\ ~parser.invalid
        /\ code = "OK" => parser.count \in Whole(request)
        /\ code = "Serving" =>
              ~parser.finished /\ (parser.count > 0 => parser.bytes_read # request.data_length)
        /\ request \in MemoryRequests =>
              /\ parser.required <= config.tx
              /\ \E w \in Whole(request) : parser.required = Need(request, w - 1)

Reads ==
    request.subfunction = "Read" =>
        /\ Going(code) => /\ ~response.overflow /\ response.cursor = Need(request, parser.count)
                          /\ response.entries = [k \in 1 .. parser.count |-> ReadEntry(request.items[k])]
        /\ Answered /\ code # "OK" /\ 2 * config.tx <= MaxTxBufferSize =>
              \A n \in Whole(request) : ~Readable(n)

Writes ==
    IsWrite =>
        /\ Going(code) => config.memory_write /\ memory = Written(parser.count)
        /\ code = "Forbidden" /\ config.memory_write =>
              parser.count > 0 /\ memory = Written(parser.count - 1)
        /\ code \in {"InvalidRequest", "Overflow"} \/ ~config.memory_write => memory = start

Ack(b) == [addr |-> b.addr, length |-> b.length]

\* Only the last block of a write may find the response full.
Acks ==
    IsWrite /\ Going(code) =>
        \E n \in 0 .. parser.count :
            /\ n = parser.count \/ (n = parser.count - 1 /\ code = "OK")
            /\ response.cursor = Need(request, n)
            /\ response.entries = [k \in 1 .. n |-> Ack(request.items[k])]

Values ==
    Going(code) /\ request.subfunction \in RpvSubfunctions =>
        /\ ~response.overflow
        /\ response.entries = [k \in 1 .. parser.count |-> request.items[k].id]
        /\ request.subfunction = "WriteRPV" =>
              published = [k \in 1 .. parser.count |-> request.items[k]]

LoopInv == Types /\ Loops /\ Reads /\ Writes /\ Acks /\ Values

LEMMA AppendOne ==
    ASSUME NEW n \in Nat, NEW f
    PROVE  Append([k \in 1 .. n |-> f[k]], f[n + 1]) = [k \in 1 .. n + 1 |-> f[k]]
OBVIOUS

\* Sums of the same sizes.
LEMMA SameSums ==
    ASSUME NEW m \in Nat, NEW f, NEW g, \A k \in 1 .. m : f[k] = g[k] /\ g[k] \in Nat
    PROVE  SumItems(m, f) = SumItems(m, g)
<1>1. /\ SumItems(0, f) = 0 /\ SumItems(0, g) = 0
      /\ \A n \in 1 .. m : SumItems(n, f) = SumItems(n - 1, f) + f[n]
      /\ \A n \in 1 .. m : SumItems(n, g) = SumItems(n - 1, g) + g[n]
    <2>1. (\A k \in 1 .. m : f[k] \in Nat) /\ (\A k \in 1 .. m : g[k] \in Nat)
        OBVIOUS
    <2> QED  BY <2>1, SumItemsAdds
<1> DEFINE S == {n \in 0 .. m : SumItems(n, f) = SumItems(n, g)}
<1>2. 0 \in S
    BY <1>1
<1>3. ASSUME NEW n \in 1 .. m, n - 1 \in S PROVE n \in S
    BY <1>1, <1>3
<1>4. m \in 0 .. m
    OBVIOUS
<1> HIDE DEF S
<1>5. \A n \in 0 .. m : n \in S
    BY <1>2, <1>3, UpTo
<1> QED  BY <1>4, <1>5 DEF S

\* A block with a char in no range passes the test of the code.
LEMMA ApartNotTouched ==
    ASSUME NEW b, IsBlock(b), b.length > 0, NEW ranges \in SUBSET Ranges,
           Cells(b) \intersect RangeCells(ranges) = {}
    PROVE  ~Touches(b, ranges)
<1> SUFFICES ASSUME Touches(b, ranges) PROVE FALSE
    OBVIOUS
<1> DEFINE e == b.addr + b.length - 1
           end == e % AddressSpace
<1>1. /\ AddressSpace \in Nat \ {0} /\ b.addr \in 0 .. AddressSpace - 1
      /\ b.length \in Nat /\ b.length < AddressSpace
    BY SizesAssumption DEF IsBlock, Addresses
<1>2. e \in Nat /\ e < 2 * AddressSpace /\ b.addr <= e
    BY <1>1
<1>3. end = IF e < AddressSpace THEN e ELSE e - AddressSpace
    <2> HIDE DEF e
    <2> QED  BY <1>1, <1>2, SmallMod
<1>4. PICK r \in ranges : b.addr <= r.end /\ end >= r.start
    BY DEF Touches
<1>5. r.start \in Nat /\ r.end \in 0 .. AddressSpace - 1 /\ r.start <= r.end
    BY <1>1 DEF Ranges, Addresses
<1> HIDE DEF end
\* The first char is in the range, or the range begins further in the block.
<1> DEFINE i == IF b.addr >= r.start THEN 0 ELSE r.start - b.addr
<1>6. i \in 0 .. b.length - 1 /\ b.addr + i < AddressSpace /\ b.addr + i \in r.start .. r.end
    BY <1>1, <1>2, <1>3, <1>4, <1>5
<1> HIDE DEF i
<1>7. CharAddress(b, i) = b.addr + i
    BY <1>6, CharAddressIs
<1>8. CharAddress(b, i) \in Cells(b) /\ CharAddress(b, i) \in RangeCells(ranges)
    BY <1>6, <1>7 DEF Cells, RangeCells
<1> QED  BY <1>8

\* Only one number of items makes a request whole.
LEMMA WholeUnique ==
    ASSUME NEW req \in Requests, NEW n \in Whole(req), NEW w \in Whole(req)
    PROVE  n = w
<1>1. /\ n \in 1 .. Len(req.items) /\ w \in 1 .. Len(req.items)
      /\ SizeOf(req, n) = SizeOf(req, w) /\ Len(req.items) \in Nat
    BY SizesAdd DEF Whole
<1>2. \/ n \in 0 .. Len(req.items) /\ w \in n .. Len(req.items)
      \/ w \in 0 .. Len(req.items) /\ n \in w .. Len(req.items)
    BY <1>1
<1> QED  BY <1>1, <1>2, SizesAdd

\* A request that can be served fits, block by block, and touches no forbidden region.
CanRead(req, tx, n) ==
    /\ \A k \in 1 .. n : /\ req.items[k].length > 0
                         /\ Cells(req.items[k]) \intersect RangeCells(ForbiddenRanges) = {}
    /\ SumItems(n, [k \in 1 .. n |-> Header + req.items[k].length]) <= tx

LEMMA ReadableFits ==
    ASSUME NEW req \in Requests, req.subfunction = "Read", NEW tx \in Nat,
           NEW n \in Whole(req), CanRead(req, tx, n)
    PROVE  \A k \in 1 .. n :
              /\ Need(req, k) <= tx
              /\ Header + req.items[k].length <= tx
              /\ ~Touches(req.items[k], ForbiddenRanges)
<1> DEFINE m == Len(req.items)
<1>1. req \in MemoryRequests
    BY DEF MemoryRequests, MemorySubfunctions
<1>2. /\ m \in Nat /\ n \in 1 .. m /\ Need(req, 0) = 0
      /\ \A k \in 0 .. m : Need(req, k) \in Nat
      /\ \A k \in 1 .. m : Need(req, k) = Need(req, k - 1) + Required(req, req.items[k])
      /\ \A i \in 0 .. m : \A k \in i .. m : Need(req, i) <= Need(req, k)
    BY <1>1, NeedsAdd DEF Whole
<1>3. \A k \in 1 .. m : /\ IsBlock(req.items[k])
                        /\ Required(req, req.items[k]) = Header + req.items[k].length
                        /\ Required(req, req.items[k]) \in Nat
    BY <1>1, ItemTypes DEF Required
<1>4. Need(req, n) <= tx
    <2> DEFINE sizes == [k \in 1 .. n |-> Header + req.items[k].length]
    <2>1. \A k \in 1 .. n : sizes[k] = Needs(req)[k] /\ Needs(req)[k] \in Nat
        BY <1>2, <1>3 DEF Needs
    <2>2. SumItems(n, sizes) <= tx
        BY DEF CanRead
    <2> HIDE DEF sizes
    <2>3. SumItems(n, sizes) = SumItems(n, Needs(req))
        <3>1. n \in Nat
            BY <1>2
        <3> QED  BY <2>1, <3>1, SameSums
    <2> QED  BY <2>2, <2>3 DEF Need
<1>5. tx \in Nat
    OBVIOUS
<1> HIDE DEF m
<1> SUFFICES ASSUME NEW k \in 1 .. n
             PROVE  /\ Need(req, k) <= tx
                    /\ Header + req.items[k].length <= tx
                    /\ ~Touches(req.items[k], ForbiddenRanges)
    OBVIOUS
<1>6. k \in 0 .. m /\ k \in 1 .. m /\ n \in k .. m /\ k - 1 \in 0 .. m /\ n \in 0 .. m
    BY <1>2
<1>7. Need(req, k) <= tx
    <2>1. Need(req, k) <= Need(req, n) /\ Need(req, k) \in Nat /\ Need(req, n) \in Nat
        BY <1>2, <1>6
    <2> QED  BY <1>4, <1>5, <2>1
<1>8. Header + req.items[k].length <= tx
    <2>1. /\ Need(req, k) = Need(req, k - 1) + Required(req, req.items[k])
          /\ Need(req, k) \in Nat /\ Need(req, k - 1) \in Nat
          /\ Required(req, req.items[k]) \in Nat
        BY <1>2, <1>3, <1>6
    <2>2. Required(req, req.items[k]) <= tx
        BY <1>5, <1>7, <2>1
    <2> QED  BY <1>3, <1>6, <2>2
<1>9. ~Touches(req.items[k], ForbiddenRanges)
    <2>1. /\ req.items[k].length > 0
          /\ Cells(req.items[k]) \intersect RangeCells(ForbiddenRanges) = {}
        BY DEF CanRead
    <2>2. IsBlock(req.items[k])
        BY <1>3, <1>6
    <2> QED  BY <2>1, <2>2, ApartNotTouched, ConstantsType
<1> QED  BY <1>7, <1>8, <1>9

LEMMA SizesTypes ==
    /\ MaxTxBufferSize \in Nat /\ MaxTxBufferSize < 65536
    /\ \A c \in Configs : c.tx \in Nat /\ c.tx <= MaxTxBufferSize
BY SizesAssumption, ConfigAssumption

LEMMA ResetTypes ==
    /\ ParserReset \in Parsers /\ ParserReset.bytes_read = 0 /\ ParserReset.count = 0
    /\ ParserReset.required = 0 /\ ~ParserReset.invalid /\ ~ParserReset.finished
    /\ EncoderInit.cursor = 0 /\ EncoderInit.overflow = FALSE /\ EncoderInit.entries = << >>
    /\ NoRequest.subfunction = "None" /\ NoRequest.data_length = 0 /\ NoRequest.items = << >>
BY DEF ParserReset, Parsers, EncoderInit, NoRequest

\* Between two requests nothing is going on.
LEMMA IdleInv ==
    ASSUME config \in Configs, memory \in Memories, request = NoRequest, parser = ParserReset,
           response = EncoderInit, code = "Idle", start = memory, published = << >>
    PROVE  LoopInv
<1>1. config.tx \in Nat
    BY SizesTypes
<1>2. Len(request.items) = 0 /\ request.data_length = 0 /\ RequiredLimit(request) = 0
    BY ResetTypes DEF RequiredLimit
<1>3. Accepted
    <2>1. 0 \in 0 .. parser.count /\ published = [k \in 1 .. 0 |-> request.items[k]]
        BY ResetTypes
    <2> QED  BY <2>1 DEF Accepted
<1>4. Types
    <2>1. /\ parser.bytes_read \in 0 .. request.data_length
          /\ parser.count \in 0 .. Len(request.items)
          /\ parser.required \in 0 .. RequiredLimit(request)
        BY <1>1, <1>2, ResetTypes
    <2>3. response.cursor \in 0 .. config.tx
        BY <1>1, <1>2, ResetTypes
    <2>4. response.overflow \in BOOLEAN
        BY <1>1, ResetTypes
    <2>2. code \in Codes
        BY DEF Codes
    <2> QED  BY <1>3, <2>1, <2>2, <2>3, <2>4, ResetTypes DEF Types
<1>5. /\ ~Going(code) /\ request.subfunction \notin {"Read", "Write", "WriteMasked"}
    BY ResetTypes DEF Going
<1>6. Loops /\ Reads /\ Writes /\ Acks /\ Values
    BY <1>5 DEF Loops, Reads, Writes, Acks, Values, IsWrite
<1> QED  BY <1>4, <1>6 DEF LoopInv

LEMMA InitLoops == Init => LoopInv
<1> SUFFICES ASSUME Init PROVE LoopInv
    OBVIOUS
<1>1. memory \in Memories
    BY DEF Init, Memories
<1> QED  BY <1>1, IdleInv DEF Init

LEMMA RespondLoops == ASSUME LoopInv, Respond PROVE LoopInv'
<1>1. /\ config' \in Configs /\ memory' \in Memories /\ request' = NoRequest
      /\ parser' = ParserReset /\ response' = EncoderInit /\ code' = "Idle"
      /\ start' = memory' /\ published' = << >>
    BY DEF LoopInv, Types, Respond
<1>2. config'.tx \in Nat
    BY <1>1, SizesTypes
<1>3. Len(request'.items) = 0 /\ request'.data_length = 0 /\ RequiredLimit(request') = 0
    BY <1>1, ResetTypes DEF RequiredLimit
<1>4. Accepted'
    <2>1. 0 \in 0 .. parser'.count /\ published' = [k \in 1 .. 0 |-> request'.items[k]]
        BY <1>1, ResetTypes
    <2> QED  BY <2>1 DEF Accepted
<1>5. Types'
    <2>1. /\ parser'.bytes_read \in 0 .. request'.data_length
          /\ parser'.count \in 0 .. Len(request'.items)
          /\ parser'.required \in 0 .. RequiredLimit(request')
        BY <1>1, <1>2, <1>3, ResetTypes
    <2>3. response'.cursor \in 0 .. config'.tx
        BY <1>1, <1>2, <1>3, ResetTypes
    <2>4. response'.overflow \in BOOLEAN
        BY <1>1, ResetTypes
    <2>2. code' \in Codes
        BY <1>1 DEF Codes
    <2> QED  BY <1>1, <1>4, <2>1, <2>2, <2>3, <2>4, ResetTypes DEF Types
<1>6. ~Going(code') /\ request'.subfunction \notin {"Read", "Write", "WriteMasked"}
    BY <1>1, ResetTypes DEF Going
<1>7. Loops' /\ Reads' /\ Writes' /\ Acks' /\ Values'
    BY <1>6 DEF Loops, Reads, Writes, Acks, Values, IsWrite
<1> QED  BY <1>5, <1>7 DEF LoopInv

\* A request arrives: the parser is at its first item, memory as it was.
LEMMA StartTypes ==
    ASSUME LoopInv, NEW req \in Requests, NEW c \in Codes \ {"Idle"}, NEW p \in Parsers,
           Start(req, c, p), p.bytes_read = 0, p.count = 0, p.required \in 0 .. RequiredLimit(req)
    PROVE  /\ Types' /\ request' = req /\ parser' = p /\ code' = c /\ response' = EncoderInit
           /\ config' = config /\ memory' = memory /\ start' = memory /\ published' = << >>
<1>1. /\ code = "Idle" /\ request' = req /\ parser' = p /\ code' = c /\ response' = EncoderInit
      /\ config' = config /\ memory' = memory /\ start' = start /\ published' = published
    BY DEF Start
<1>2. /\ config \in Configs /\ memory \in Memories /\ start = memory /\ request = NoRequest
    BY <1>1 DEF LoopInv, Types
<1>3. published = << >>
    BY <1>2, ResetTypes DEF LoopInv, Types
<1>4. req.data_length \in Nat /\ Len(req.items) \in Nat /\ config.tx \in Nat
    BY <1>2, RequestsAssumption, SizesTypes
<1>5. Accepted'
    <2>1. 0 \in 0 .. p.count /\ published' = [k \in 1 .. 0 |-> req.items[k]]
        BY <1>1, <1>3
    <2> QED  BY <1>1, <2>1 DEF Accepted
<1>6. Types'
    <2>1. /\ parser'.bytes_read \in 0 .. request'.data_length
          /\ parser'.count \in 0 .. Len(request'.items)
          /\ parser'.required \in 0 .. RequiredLimit(request')
        BY <1>1, <1>4, ResetTypes
    <2>3. response'.cursor \in 0 .. config'.tx
        BY <1>1, <1>4, ResetTypes
    <2>4. response'.overflow \in BOOLEAN
        BY <1>1, ResetTypes
    <2> QED  BY <1>1, <1>2, <1>3, <1>5, <2>1, <2>3, <2>4 DEF Types
<1> QED  BY <1>1, <1>2, <1>3, <1>6

\* Refused by the tests before the loop that do not look at the items.
LEMMA Refused ==
    ASSUME LoopInv, NEW req \in Requests, req.subfunction # "Read",
           req \in WriteRequests => ~config.memory_write,
           NEW c \in {"InvalidRequest", "Forbidden", "UnsupportedFeature"},
           Start(req, c, ParserReset)
    PROVE  LoopInv'
<1>1. 0 \in 0 .. RequiredLimit(req)
    BY RequestsAssumption, SizesTypes DEF RequiredLimit
<1>2. c \in Codes \ {"Idle"} /\ ~Going(c)
    BY DEF Codes, Going
<1>3. /\ Types' /\ request' = req /\ code' = c /\ config' = config
      /\ memory' = memory /\ start' = memory
    BY <1>1, <1>2, StartTypes, ResetTypes
<1>4. Loops' /\ Reads' /\ Acks' /\ Values'
    BY <1>2, <1>3 DEF Loops, Reads, Acks, Values
<1>5. Writes'
    BY <1>2, <1>3 DEF Writes, IsWrite, WriteRequests
<1> QED  BY <1>3, <1>4, <1>5 DEF LoopInv

\* A request about published values is served item by item.
LEMMA ValuesStart ==
    ASSUME LoopInv, NEW req \in Requests, req.subfunction \in RpvSubfunctions,
           Start(req, "Serving", ParserReset)
    PROVE  LoopInv'
<1>1. 0 \in 0 .. RequiredLimit(req)
    BY RequestsAssumption, SizesTypes DEF RequiredLimit
<1>2. "Serving" \in Codes \ {"Idle"}
    BY DEF Codes
<1>3. /\ Types' /\ request' = req /\ parser' = ParserReset /\ code' = "Serving"
      /\ response' = EncoderInit /\ published' = << >>
    BY <1>1, <1>2, StartTypes, ResetTypes
<1>4. req \notin MemoryRequests /\ ~(req.subfunction \in {"Read", "Write", "WriteMasked"})
    BY DEF RpvSubfunctions, MemorySubfunctions, MemoryRequests
<1>5. At(req, 0, ParserReset)
    BY SizesAdd, ResetTypes, RequestsAssumption DEF At
<1>6. Loops'
    BY <1>3, <1>4, <1>5, ResetTypes DEF Loops
<1>7. Reads' /\ Writes' /\ Acks'
    BY <1>3, <1>4 DEF Reads, Writes, Acks, IsWrite
<1>8. Values'
    BY <1>3, ResetTypes DEF Values
<1> QED  BY <1>3, <1>6, <1>7, <1>8 DEF LoopInv

\* A request of blocks, after init().
LEMMA BlocksStart ==
    ASSUME LoopInv, NEW req \in MemoryRequests, req \in WriteRequests => config.memory_write,
           Start(req, Verdict(Validated(req)), Validated(req))
    PROVE  LoopInv'
<1> DEFINE v == Validated(req)
           c == Verdict(v)
<1>1. /\ v \in Parsers /\ v.bytes_read = 0 /\ v.count = 0 /\ ~v.finished
      /\ v.required \in 0 .. RequiredLimit(req)
      /\ v.invalid => \A w \in Whole(req) : TooLarge(req, w)
      /\ ~v.invalid => \E w \in Whole(req) : v.required = Need(req, w - 1) /\ ~TooLarge(req, w)
    BY ValidatedIs
<1> HIDE DEF v
<1>2. /\ c \in {"InvalidRequest", "Overflow", "Serving"}
      /\ c = "InvalidRequest" => v.invalid
      /\ c = "Overflow" => ~v.invalid /\ v.required > config.tx
      /\ c = "Serving" => ~v.invalid /\ ~(v.required > config.tx)
    BY DEF Verdict
<1>3. req \in Requests /\ c \in Codes \ {"Idle"} /\ Start(req, c, v)
    BY <1>2 DEF Codes, MemoryRequests, v
<1> HIDE DEF c
<1>4. /\ Types' /\ request' = req /\ parser' = v /\ code' = c
      /\ response' = EncoderInit /\ config' = config /\ memory' = memory /\ start' = memory
    BY <1>1, <1>3, StartTypes
<1>5. config \in Configs /\ config.tx \in Nat /\ memory \in Memories /\ v.required \in Nat
    BY <1>1, <1>3, SizesTypes, LimitTypes DEF LoopInv, Types
<1>6. At(req, 0, v) /\ Need(req, 0) = 0
    BY <1>1, <1>3, SizesAdd, NeedsAdd, LimitTypes DEF At
<1>7. Loops'
    <2>1. SUFFICES ASSUME c = "Serving" PROVE Loops'
        BY <1>2, <1>4 DEF Loops, Going
    <2>2. /\ v.required <= config.tx
          /\ \E w \in Whole(req) : v.required = Need(req, w - 1)
        BY <1>1, <1>2, <1>5, <2>1
    <2>3. req.subfunction \in MemorySubfunctions
        BY DEF MemoryRequests
    <2> QED  BY <1>1, <1>2, <1>4, <1>6, <2>1, <2>2, <2>3 DEF Loops
<1>8. Reads'
    <2>1. SUFFICES ASSUME req.subfunction = "Read" PROVE Reads'
        BY <1>4 DEF Reads
    <2>2. /\ ~response'.overflow /\ response'.cursor = Need(req, parser'.count)
          /\ response'.entries = [k \in 1 .. parser'.count |-> ReadEntry(request.items[k])']
        BY <1>1, <1>4, <1>6, ResetTypes
    <2>3. ASSUME c \in {"InvalidRequest", "Overflow"}, 2 * config.tx <= MaxTxBufferSize,
                 NEW n \in Whole(req)
          PROVE  ~Readable(n)'
        <3>1. SUFFICES ASSUME Readable(n)' PROVE FALSE
            OBVIOUS
        <3>2. n \in 1 .. n /\ n - 1 \in 0 .. n /\ n \in 1 .. Len(req.items)
            BY DEF Whole
        <3>3. Need(req, n) <= config.tx
            <4>1. CanRead(req, config.tx, n)
                BY <1>4, <3>1 DEF Readable, CanRead
            <4> QED  BY <1>3, <1>5, <2>1, <3>2, <4>1, ReadableFits
        <3>4. /\ Need(req, n) \in Nat /\ Need(req, n - 1) \in Nat /\ Need(req, n - 1) <= Need(req, n)
            BY <3>2, NeedsAdd
        <3>5. CASE c = "InvalidRequest"
            <4>1. Need(req, n) > MaxTxBufferSize
                BY <1>1, <1>2, <3>5 DEF TooLarge
            <4> QED  BY <1>5, <3>3, <3>4, <4>1, SizesTypes
        <3>6. CASE c = "Overflow"
            <4>1. PICK w \in Whole(req) : v.required = Need(req, w - 1)
                BY <1>1, <1>2, <3>6
            <4>2. w = n
                BY <1>3, WholeUnique
            <4> QED  BY <1>2, <1>5, <3>3, <3>4, <3>6, <4>1, <4>2
        <3> QED  BY <2>3, <3>5, <3>6
    <2> QED  BY <1>2, <1>4, <2>2, <2>3 DEF Reads, Answered
<1>9. Writes' /\ Acks'
    <2>1. SUFFICES ASSUME req.subfunction \in {"Write", "WriteMasked"} PROVE Writes' /\ Acks'
        BY <1>4 DEF Writes, Acks, IsWrite
    <2>2. req \in WriteRequests /\ config.memory_write
        BY <1>3, <2>1 DEF WriteRequests
    <2>3. Result(req, memory, 0) = memory
        BY <1>5, <2>2, ResultIs
    <2>4. Written(parser.count)' = memory'
        BY <1>1, <1>4, <2>3 DEF Written
    <2>5. Writes'
        BY <1>2, <1>4, <2>2, <2>4 DEF Writes
    <2>6. /\ 0 \in 0 .. parser'.count /\ 0 = parser'.count
          /\ response'.cursor = Need(request', 0)
          /\ response'.entries = [k \in 1 .. 0 |-> Ack(request'.items[k])]
        BY <1>1, <1>4, <1>6, ResetTypes
    <2>7. Acks'
        BY <2>6 DEF Acks
    <2> QED  BY <2>5, <2>7
<1>10. Values'
    BY <1>4 DEF Values, MemoryRequests, MemorySubfunctions, RpvSubfunctions
<1> QED  BY <1>4, <1>7, <1>8, <1>9, <1>10 DEF LoopInv

-----------------------------------------------------------------------------
(* One iteration of a loop *)

\* The parser gave the next item...
Moved(p) ==
    /\ p \in Parsers /\ ~p.invalid /\ p.count = parser.count + 1 /\ At(request, p.count, p)
    /\ p.required = parser.required
    /\ p.finished <=> p.bytes_read = request.data_length
\* ... or found the request invalid.
Stuck(p) ==
    /\ p \in Parsers /\ p.invalid /\ p.count = parser.count
    /\ p.bytes_read = parser.bytes_read /\ p.required = parser.required

LEMMA LoopTypes ==
    ASSUME LoopInv, code = "Serving"
    PROVE  /\ request \in Requests /\ Len(request.items) \in Nat
           /\ request.data_length \in Nat /\ request.data_length < 65536
           /\ config \in Configs /\ config.tx \in Nat /\ config.tx < 65536
           /\ memory \in Memories /\ start \in Memories /\ parser \in Parsers
           /\ parser.count \in 0 .. Len(request.items)
           /\ parser.required \in 0 .. RequiredLimit(request) /\ RequiredLimit(request) \in Nat
           /\ RequiredLimit(request) < 65536
           /\ ~parser.invalid /\ ~parser.finished /\ At(request, parser.count, parser)
           /\ parser.bytes_read = SizeOf(request, parser.count)
           /\ parser.count > 0 => parser.bytes_read # request.data_length
<1>1. /\ request \in Requests /\ config \in Configs /\ memory \in Memories /\ start \in Memories
      /\ parser \in Parsers /\ parser.count \in 0 .. Len(request.items)
      /\ parser.required \in 0 .. RequiredLimit(request)
    BY DEF LoopInv, Types
<1>2. /\ Len(request.items) \in Nat /\ request.data_length \in Nat /\ request.data_length < 65536
    BY <1>1, RequestsAssumption
<1>3. config.tx \in Nat /\ config.tx < 65536
    BY <1>1, SizesTypes
<1>4. RequiredLimit(request) \in Nat /\ RequiredLimit(request) < 65536
    BY <1>2, SizesTypes DEF RequiredLimit
<1>5. /\ ~parser.invalid /\ ~parser.finished /\ At(request, parser.count, parser)
      /\ parser.count > 0 => parser.bytes_read # request.data_length
    BY DEF LoopInv, Loops, Going
<1> QED  BY <1>1, <1>2, <1>3, <1>4, <1>5 DEF At

LEMMA FailIsStuck == ASSUME LoopInv, code = "Serving" PROVE Stuck(Fail(parser))
<1>1. parser \in Parsers
    BY LoopTypes
<1>2. Fail(parser) = [bytes_read |-> parser.bytes_read, count |-> parser.count,
                      required |-> parser.required, invalid |-> TRUE, finished |-> TRUE]
    BY DEF Fail
<1> QED  BY <1>1, <1>2 DEF Stuck, Parsers

\* Taking the next item of a request long enough.
LEMMA AdvanceMoves ==
    ASSUME LoopInv, code = "Serving", parser.count + 1 \in 1 .. Len(request.items),
           SizeOf(request, parser.count + 1) <= request.data_length
    PROVE  Moved(Advance(request, parser, ItemSize(request, request.items[parser.count + 1])))
<1> DEFINE n == parser.count + 1
           size == ItemSize(request, request.items[n])
           p == Advance(request, parser, size)
<1>1. /\ request \in Requests /\ parser \in Parsers /\ parser.count \in Nat
      /\ parser.invalid = FALSE /\ Len(request.items) \in Nat
      /\ parser.bytes_read = SizeOf(request, parser.count)
    BY LoopTypes DEF Parsers
<1>2. n \in 0 .. Len(request.items) /\ n - 1 = parser.count
    BY <1>1
<1>3. SizeOf(request, n) = SizeOf(request, parser.count) + size
    BY <1>1, <1>2, SizesAdd
<1>4. SizeOf(request, n) \in Nat
    BY <1>1, <1>2, SizesAdd
<1> HIDE DEF size
<1>5. /\ p.bytes_read = SizeOf(request, n) /\ p.count = n /\ p.required = parser.required
      /\ p.invalid = FALSE
    BY <1>1, <1>3 DEF Advance
<1>6. p.finished \in BOOLEAN /\ (p.finished <=> p.bytes_read = request.data_length)
    BY DEF Advance
<1>7. p \in Parsers
    <2>1. p = [bytes_read |-> p.bytes_read, count |-> p.count, required |-> p.required,
               invalid |-> p.invalid, finished |-> p.finished]
        BY DEF Advance
    <2>2. p.bytes_read \in Int /\ p.count \in Int /\ p.required \in Int
        BY <1>1, <1>2, <1>4, <1>5 DEF Parsers
    <2> HIDE DEF p, n
    <2> QED  BY <1>5, <1>6, <2>1, <2>2 DEF Parsers
<1>8. At(request, p.count, p)
    <2> HIDE DEF p
    <2> QED  BY <1>2, <1>5 DEF At
<1> HIDE DEF p
<1>9. Moved(p)
    BY <1>5, <1>6, <1>7, <1>8 DEF Moved
<1> QED  BY <1>9 DEF p, size

\* What an iteration leaves, whatever the item.
LEMMA ServedTypes ==
    ASSUME LoopInv, code = "Serving", NEW c \in Codes \ {"Idle"}, NEW p, NEW r, Served(c, p, r),
           Moved(p) \/ Stuck(p), memory' \in Memories,
           Going(c) => r.cursor \in 0 .. config.tx /\ r.overflow \in BOOLEAN,
           Accepted', request.subfunction # "WriteRPV" => published' = published
    PROVE  /\ Types' /\ request' = request /\ config' = config /\ start' = start
           /\ parser' = p /\ code' = c /\ (Going(c) => response' = r)
<1>1. /\ request' = request /\ config' = config /\ start' = start /\ parser' = p /\ code' = c
      /\ response' = IF Going(c) THEN r ELSE EncoderInit
    BY DEF Served
<1>2. /\ request \in Requests /\ config \in Configs /\ start \in Memories /\ config.tx \in Nat
      /\ parser.bytes_read \in 0 .. request.data_length
      /\ parser.count \in 0 .. Len(request.items) /\ Len(request.items) \in Nat
      /\ parser.required \in 0 .. RequiredLimit(request)
      /\ request.subfunction # "WriteRPV" => published = << >>
    BY LoopTypes DEF LoopInv, Types
<1>3. /\ p \in Parsers /\ p.count \in 0 .. Len(request.items)
      /\ p.bytes_read \in 0 .. request.data_length
      /\ p.required \in 0 .. RequiredLimit(request)
    <2>1. CASE Stuck(p)
        BY <1>2, <2>1 DEF Stuck
    <2>2. CASE Moved(p)
        <3>1. /\ p \in Parsers /\ p.required = parser.required
              /\ p.count \in 0 .. Len(request.items)
              /\ p.bytes_read = SizeOf(request, p.count)
              /\ SizeOf(request, p.count) <= request.data_length
            BY <2>2 DEF Moved, At
        <3>2. SizeOf(request, p.count) \in Nat /\ request.data_length \in Nat
            BY <1>2, <3>1, SizesAdd, LoopTypes
        <3> QED  BY <1>2, <3>1, <3>2
    <2> QED  BY <2>1, <2>2
<1>4. response'.cursor \in 0 .. config.tx
    BY <1>1, <1>2, ResetTypes
<1>5. response'.overflow \in BOOLEAN
    BY <1>1, ResetTypes
<1>6. ~Going(c) => response' = EncoderInit
    BY <1>1
<1>7. Types'
    BY <1>1, <1>2, <1>3, <1>4, <1>5, <1>6 DEF Types
<1> QED  BY <1>1, <1>7

LEMMA ServedLoops ==
    ASSUME LoopInv, code = "Serving", NEW c, NEW p, NEW r, Served(c, p, r),
           Going(c) => Moved(p) /\ c = Progress(p)
    PROVE  Loops'
<1>1. /\ request' = request /\ config' = config /\ parser' = p /\ code' = c
    BY DEF Served
<1> SUFFICES ASSUME Going(c) PROVE Loops'
    BY <1>1 DEF Loops
<1>2. /\ ~p.invalid /\ p.count = parser.count + 1 /\ At(request, p.count, p)
      /\ p.required = parser.required /\ (p.finished <=> p.bytes_read = request.data_length)
      /\ c = Progress(p)
    BY DEF Moved
<1>3. parser.count \in Nat
    BY LoopTypes
<1>4. c = "OK" => p.count \in Whole(request)
    BY <1>2, <1>3 DEF Progress, At, Whole
<1>5. c = "Serving" => ~p.finished /\ p.bytes_read # request.data_length
    BY <1>2 DEF Progress
<1>6. /\ request.subfunction \in MemorySubfunctions \union RpvSubfunctions
      /\ request \in MemoryRequests =>
            /\ parser.required <= config.tx
            /\ \E w \in Whole(request) : parser.required = Need(request, w - 1)
    BY DEF LoopInv, Loops, Going
<1> QED  BY <1>1, <1>2, <1>4, <1>5, <1>6 DEF Loops

LEMMA Encoded ==
    ASSUME LoopInv, code = "Serving", NEW n \in Nat, NEW entry
    PROVE  LET q == EncodeEntry(response, n, entry) IN
           /\ response.cursor + n <= config.tx =>
                 q.cursor = response.cursor + n /\ q.overflow = response.overflow
                   /\ q.entries = Append(response.entries, entry)
           /\ ~(response.cursor + n <= config.tx) =>
                 q.cursor = response.cursor /\ q.overflow = TRUE /\ q.entries = response.entries
           /\ q.cursor \in 0 .. config.tx /\ q.overflow \in BOOLEAN
<1>1. /\ response.cursor \in 0 .. config.tx /\ response.overflow \in BOOLEAN
      /\ config.tx \in Nat /\ config.tx < 65536
    BY LoopTypes DEF LoopInv, Types
<1>2. U16(config.tx - response.cursor) = config.tx - response.cursor
    BY <1>1, U16Small
<1>3. CASE response.cursor + n <= config.tx
    <2>1. ~(n > U16(config.tx - response.cursor))
        BY <1>1, <1>2, <1>3
    <2>2. /\ EncodeEntry(response, n, entry).cursor = response.cursor + n
          /\ EncodeEntry(response, n, entry).overflow = response.overflow
          /\ EncodeEntry(response, n, entry).entries = Append(response.entries, entry)
        BY <2>1 DEF EncodeEntry
    <2> QED  BY <1>1, <1>3, <2>2
<1>4. CASE ~(response.cursor + n <= config.tx)
    <2>1. n > U16(config.tx - response.cursor)
        BY <1>1, <1>2, <1>4
    <2>2. /\ EncodeEntry(response, n, entry).cursor = response.cursor
          /\ EncodeEntry(response, n, entry).overflow = TRUE
          /\ EncodeEntry(response, n, entry).entries = response.entries
        BY <2>1 DEF EncodeEntry, Overflowed
    <2>3. EncodeEntry(response, n, entry).overflow \in BOOLEAN
        BY <2>2
    <2>4. EncodeEntry(response, n, entry).cursor \in 0 .. config.tx
        BY <1>1, <2>2
    <2> QED  BY Zenon, <1>4, <2>2, <2>3, <2>4
<1> QED  BY <1>3, <1>4

\* The parser of blocks moves, or finds the request invalid.
LEMMA BlockStep ==
    ASSUME LoopInv, code = "Serving", request \in MemoryRequests
    PROVE  LET p == MemoryNext(request, parser) IN
           \/ Moved(p) /\ p.count \in 1 .. Len(request.items)
           \/ Stuck(p) /\ BlockRefused(request, parser)
<1>1. /\ ~parser.invalid /\ ~parser.finished /\ At(request, parser.count, parser)
    BY LoopTypes
<1>2. CASE BlockRefused(request, parser)
    BY <1>1, <1>2, MemoryNextIs, FailIsStuck
<1>3. CASE ~BlockRefused(request, parser)
    <2>1. /\ parser.count + 1 \in 1 .. Len(request.items)
          /\ SizeOf(request, parser.count + 1) <= request.data_length
        BY <1>1, <1>3, RefusedOrThere
    <2>2. Moved(Advance(request, parser, ItemSize(request, request.items[parser.count + 1])))
        BY <2>1, AdvanceMoves
    <2> QED  BY <1>1, <1>3, <2>1, <2>2, MemoryNextIs DEF Moved
<1> QED  BY <1>2, <1>3

\* The loop has not reached the end of a whole request.
LEMMA BeforeEnd ==
    ASSUME LoopInv, code = "Serving", NEW n \in Whole(request)
    PROVE  /\ parser.count + 1 \in 1 .. n /\ n \in 1 .. Len(request.items)
           /\ SizeOf(request, parser.count + 1) <= request.data_length
<1> DEFINE k == parser.count
           m == Len(request.items)
<1>1. /\ request \in Requests /\ m \in Nat /\ k \in 0 .. m /\ n \in 1 .. m
      /\ SizeOf(request, n) = request.data_length /\ request.data_length \in Nat
      /\ SizeOf(request, k) <= request.data_length
      /\ k > 0 => SizeOf(request, k) # request.data_length
    BY LoopTypes DEF Whole, At
<1>2. /\ \A i \in 0 .. m : SizeOf(request, i) \in Nat
      /\ \A i \in 0 .. m : \A j \in i .. m : SizeOf(request, i) <= SizeOf(request, j)
    BY <1>1, SizesAdd
<1> HIDE DEF k, m
<1>3. k < n
    <2>1. ASSUME n <= k PROVE FALSE
        <3>1. n \in 0 .. m /\ k \in n .. m /\ k > 0
            BY <1>1, <2>1
        <3>2. SizeOf(request, n) <= SizeOf(request, k) /\ SizeOf(request, k) \in Nat
            BY <1>1, <1>2, <3>1
        <3> QED  BY <1>1, <3>1, <3>2
    <2> QED  BY <1>1, <2>1
<1>4. k + 1 \in 1 .. n /\ k + 1 \in 0 .. m /\ n \in k + 1 .. m
    BY <1>1, <1>3
<1>5. SizeOf(request, k + 1) <= SizeOf(request, n)
    BY <1>2, <1>4
<1> QED  BY <1>1, <1>4, <1>5 DEF k, m

\* The needs of the next block.
LEMMA NextNeed ==
    ASSUME LoopInv, code = "Serving", request \in MemoryRequests,
           parser.count + 1 \in 1 .. Len(request.items)
    PROVE  LET b == request.items[parser.count + 1] IN
           /\ IsBlock(b) /\ b.length \in Nat /\ Required(request, b) \in Nat
           /\ Need(request, parser.count) \in Nat /\ Need(request, parser.count + 1) \in Nat
           /\ Need(request, parser.count + 1) = Need(request, parser.count) + Required(request, b)
<1>1. /\ request \in Requests /\ parser.count \in 0 .. Len(request.items)
      /\ Len(request.items) \in Nat
    BY LoopTypes
<1>2. parser.count + 1 \in 0 .. Len(request.items) /\ (parser.count + 1) - 1 = parser.count
    BY <1>1
<1>3. LET b == request.items[parser.count + 1] IN
      IsBlock(b) /\ b.length \in Nat /\ Required(request, b) \in Nat
    BY <1>1, ItemTypes
<1>4. /\ Need(request, parser.count) \in Nat /\ Need(request, parser.count + 1) \in Nat
      /\ Need(request, parser.count + 1)
           = Need(request, parser.count) + Required(request, request.items[parser.count + 1])
    BY <1>1, <1>2, NeedsAdd
<1> QED  BY <1>3, <1>4

\* The entry of a read is written if and only if the response has room for it.
LEMMA ReadEncoded ==
    ASSUME LoopInv, code = "Serving", request \in MemoryRequests, request.subfunction = "Read",
           parser.count + 1 \in 1 .. Len(request.items)
    PROVE  LET b == request.items[parser.count + 1]
               r == ReadMemoryWrite(response, b) IN
           /\ Need(request, parser.count + 1) <= config.tx =>
                 /\ ~r.overflow /\ r.cursor = Need(request, parser.count + 1)
                 /\ r.cursor \in 0 .. config.tx /\ r.overflow \in BOOLEAN
                 /\ r.entries = Append(response.entries, ReadEntry(b))
           /\ ~(Need(request, parser.count + 1) <= config.tx) => r.overflow
<1> DEFINE n == parser.count + 1
           b == request.items[n]
           r == ReadMemoryWrite(response, b)
           q == EncodeEntry(response, Header + b.length, ReadEntry(b))
<1>1. /\ Need(request, n) = Need(request, parser.count) + (Header + b.length)
      /\ Need(request, n) \in Nat /\ Need(request, parser.count) \in Nat
      /\ Header + b.length \in Nat /\ b.length \in Nat /\ Header \in Nat
    <2>1. Header \in Nat
        BY SizesAssumption DEF Header
    <2> QED  BY <2>1, NextNeed DEF Required
<1>2. response.cursor = Need(request, parser.count) /\ ~response.overflow
    BY DEF LoopInv, Reads, Going
<1>3. config.tx \in Nat /\ config.tx <= MaxTxBufferSize /\ MaxTxBufferSize \in Nat
    BY LoopTypes, SizesTypes
<1>4. MaxTxBufferSize - AddrSize - 2 = MaxTxBufferSize - Header
    BY SizesAssumption DEF Header
<1>5. r = IF b.length > MaxTxBufferSize - Header THEN Overflowed(response) ELSE q
    BY <1>4 DEF ReadMemoryWrite, ReadEntry
<1>6. /\ response.cursor + (Header + b.length) <= config.tx =>
            q.cursor = response.cursor + (Header + b.length) /\ q.overflow = response.overflow
              /\ q.entries = Append(response.entries, ReadEntry(b))
      /\ ~(response.cursor + (Header + b.length) <= config.tx) => q.overflow = TRUE
      /\ q.cursor \in 0 .. config.tx /\ q.overflow \in BOOLEAN
    BY <1>1, Encoded
<1> HIDE DEF q, r, b, n
<1>7. CASE Need(request, n) <= config.tx
    <2>1. ~(b.length > MaxTxBufferSize - Header)
        BY <1>1, <1>3, <1>7
    <2>2. r = q
        BY <1>5, <2>1
    <2>3. response.cursor + (Header + b.length) <= config.tx
          /\ response.cursor + (Header + b.length) = Need(request, n)
        BY <1>1, <1>2, <1>7
    <2> QED  BY <1>2, <1>6, <1>7, <2>2, <2>3 DEF r, b, n
<1>8. CASE ~(Need(request, n) <= config.tx)
    <2>1. q.overflow = TRUE
        BY <1>1, <1>2, <1>6, <1>8
    <2>2. Overflowed(response).overflow = TRUE
        BY DEF Overflowed
    <2>3. r.overflow = TRUE
        BY <1>5, <2>1, <2>2
    <2> QED  BY <1>8, <2>3 DEF r, b, n
<1> QED  BY <1>7, <1>8 DEF r, b, n

LEMMA ServeReadLoops == ASSUME LoopInv, ServeRead PROVE LoopInv'
<1> DEFINE p == ReadMemoryNext(request, parser)
           b == request.items[p.count]
           r == ReadMemoryWrite(response, b)
           c == IF p.invalid THEN "InvalidRequest"
                ELSE IF Touches(b, ForbiddenRanges) THEN "Forbidden"
                ELSE IF r.overflow THEN "Overflow" ELSE Progress(p)
           k == parser.count + 1
<1>1. /\ code = "Serving" /\ request.subfunction = "Read" /\ Served(c, p, r)
      /\ memory' = memory /\ published' = published
    BY DEF ServeRead
<1>2. /\ request \in Requests /\ request \in MemoryRequests /\ memory \in Memories
      /\ config \in Configs /\ config.tx \in Nat /\ parser.required \in Nat
      /\ parser.count \in Nat /\ MaxTxBufferSize \in Nat /\ MaxTxBufferSize < 65536
      /\ parser.required <= MaxTxBufferSize
    BY <1>1, LoopTypes, SizesTypes DEF MemoryRequests, MemorySubfunctions, RequiredLimit
<1>3. \/ Moved(p) /\ p.count \in 1 .. Len(request.items)
      \/ Stuck(p) /\ BlockRefused(request, parser)
    BY <1>1, <1>2, BlockStep DEF MemoryNext
<1> HIDE DEF p
<1>4. Moved(p) => p.count = k /\ ~p.invalid
    BY DEF Moved
<1>5. /\ c \in Codes \ {"Idle"}
      /\ Stuck(p) => c = "InvalidRequest"
      /\ Moved(p) => c \in {"Forbidden", "Overflow", "OK", "Serving"}
      /\ Moved(p) /\ c = "Forbidden" => Touches(b, ForbiddenRanges)
      /\ Moved(p) /\ c = "Overflow" => r.overflow
      /\ Going(c) => ~p.invalid /\ ~r.overflow /\ c = Progress(p)
    BY <1>4 DEF Progress, Codes, Going, Stuck
<1> HIDE DEF c
<1>6. Going(c) => /\ Moved(p) /\ c = Progress(p) /\ Need(request, k) <= config.tx
                  /\ ~r.overflow /\ r.overflow \in BOOLEAN /\ r.cursor \in 0 .. config.tx
                  /\ r.cursor = Need(request, k)
                  /\ r.entries = Append(response.entries, ReadEntry(request.items[k]))
    <2>1. SUFFICES ASSUME Going(c) PROVE
                  /\ Moved(p) /\ c = Progress(p) /\ Need(request, k) <= config.tx
                  /\ ~r.overflow /\ r.overflow \in BOOLEAN /\ r.cursor \in 0 .. config.tx
                  /\ r.cursor = Need(request, k)
                  /\ r.entries = Append(response.entries, ReadEntry(request.items[k]))
        OBVIOUS
    <2>2. Moved(p) /\ c = Progress(p) /\ ~r.overflow
        BY <1>3, <1>5, <2>1 DEF Stuck
    <2>3. k \in 1 .. Len(request.items) /\ p.count = k
        BY <1>3, <1>4, <2>2 DEF Stuck
    <2> QED  BY <1>1, <1>2, <2>2, <2>3, ReadEncoded
<1>7. Accepted'
    <2>1. published' = << >>
        BY <1>1 DEF LoopInv, Types
    <2>2. p.count \in Nat
        BY <1>2, <1>3, <1>4 DEF Stuck
    <2>3. 0 \in 0 .. parser'.count /\ published' = [i \in 1 .. 0 |-> request'.items[i]]
        BY <1>1, <2>1, <2>2 DEF Served
    <2> QED  BY <2>3 DEF Accepted
<1>8. /\ Types' /\ request' = request /\ config' = config
      /\ parser' = p /\ code' = c /\ (Going(c) => response' = r)
    <2>1. Moved(p) \/ Stuck(p)
        BY <1>3
    <2>2. memory' \in Memories /\ Accepted' /\ published' = published
        BY <1>1, <1>2, <1>7
    <2>3. Going(c) => r.cursor \in 0 .. config.tx /\ r.overflow \in BOOLEAN
        BY <1>6
    <2> HIDE DEF r
    <2> QED  BY <1>1, <1>5, <2>1, <2>2, <2>3, ServedTypes
<1>9. Loops'
    BY <1>1, <1>6, ServedLoops
<1>10. ASSUME Going(c)
       PROVE  response'.entries = [i \in 1 .. parser'.count |-> ReadEntry(request.items[i])']
    <2> DEFINE f == [i \in 1 .. k |-> ReadEntry(request.items[i])]
    <2>1. response.entries = [i \in 1 .. parser.count |-> f[i]]
        <3>1. response.entries = [i \in 1 .. parser.count |-> ReadEntry(request.items[i])]
            BY <1>1 DEF LoopInv, Reads, Going
        <3>2. \A i \in 1 .. parser.count : f[i] = ReadEntry(request.items[i])
            BY <1>2
        <3> HIDE DEF f
        <3> QED  BY <3>1, <3>2
    <2>2. f[parser.count + 1] = ReadEntry(request.items[k]) /\ f = [i \in 1 .. k |-> f[i]]
        BY <1>2
    <2> HIDE DEF f
    <2>3. response'.entries = Append(response.entries, f[parser.count + 1])
        BY <1>6, <1>8, <1>10, <2>2
    <2>4. response'.entries = f
        BY <1>2, <2>1, <2>2, <2>3, AppendOne
    <2>5. \A i \in 1 .. k : ReadEntry(request.items[i])' = ReadEntry(request.items[i])
        BY <1>1, <1>8 DEF ReadEntry
    <2>6. parser'.count = k
        BY <1>4, <1>6, <1>8, <1>10
    <2> QED  BY <2>4, <2>5, <2>6 DEF f
<1>11. ASSUME ~Going(c), 2 * config.tx <= MaxTxBufferSize, NEW n \in Whole(request), Readable(n)'
       PROVE  FALSE
    <2>1. CanRead(request, config.tx, n)
        BY <1>8, <1>11 DEF Readable, CanRead
    <2>2. /\ k \in 1 .. n /\ n \in 1 .. Len(request.items) /\ k \in 1 .. Len(request.items)
          /\ SizeOf(request, k) <= request.data_length /\ parser.count < Len(request.items)
        <3>1. /\ k \in 1 .. n /\ n \in 1 .. Len(request.items)
              /\ SizeOf(request, k) <= request.data_length
            BY <1>1, BeforeEnd
        <3> QED  BY <1>2, <3>1, RequestsAssumption
    <2>3. /\ Need(request, k) <= config.tx /\ Header + request.items[k].length <= config.tx
          /\ ~Touches(request.items[k], ForbiddenRanges)
        BY <1>1, <1>2, <2>1, <2>2, ReadableFits
    <2>4. CASE Stuck(p) /\ BlockRefused(request, parser)
        <3>1. BlockTooLarge(request, parser)
            BY <1>1, <1>2, <2>2, <2>4, LoopTypes, RefusedOrThere
        <3>2. U16(MaxTxBufferSize - parser.required) = MaxTxBufferSize - parser.required
            BY <1>2, U16Small
        <3>3. parser.required <= config.tx
            BY <1>1, <1>2 DEF LoopInv, Loops, Going
        <3>4. Header + request.items[k].length \in Nat
            BY <1>1, <1>2, <2>2, NextNeed DEF Required
        <3> QED  BY <1>2, <1>11, <2>3, <3>1, <3>2, <3>3, <3>4 DEF BlockTooLarge
    <2>5. CASE Moved(p)
        <3>1. b = request.items[k] /\ c \in {"Forbidden", "Overflow"}
            BY <1>4, <1>5, <1>11, <2>5 DEF Going
        <3>2. ~r.overflow
            BY <1>1, <1>2, <2>2, <2>3, <3>1, ReadEncoded
        <3> QED  BY <1>5, <2>3, <2>5, <3>1, <3>2
    <2> QED  BY <1>3, <2>4, <2>5
<1>12. Reads'
    <2>1. Going(c) => /\ ~response'.overflow /\ response'.cursor = Need(request', parser'.count)
                      /\ response'.entries = [i \in 1 .. parser'.count |-> ReadEntry(request.items[i])']
        BY <1>4, <1>6, <1>8, <1>10
    <2>2. ASSUME ~Going(c), 2 * config.tx <= MaxTxBufferSize
          PROVE  \A n \in Whole(request) : ~Readable(n)'
        BY <1>11, <2>2
    <2>3. code' # "OK" /\ Answered' => ~Going(c)
        BY <1>8 DEF Going, Answered
    <2> QED  BY <1>8, <2>1, <2>2, <2>3 DEF Reads
<1>13. Writes' /\ Acks' /\ Values'
    BY <1>1, <1>8 DEF Writes, Acks, Values, IsWrite, RpvSubfunctions
<1> QED  BY <1>8, <1>9, <1>12, <1>13 DEF LoopInv

\* init() found the request whole: the parser gives all its blocks.
LEMMA WriteStep ==
    ASSUME LoopInv, code = "Serving", request \in WriteRequests
    PROVE  LET p == WriteMemoryNext(request, parser)
               k == parser.count + 1 IN
           /\ Moved(p) /\ ~p.invalid /\ p.count = k /\ k \in 1 .. Len(request.items)
           /\ \E w \in Whole(request) : parser.required = Need(request, w - 1) /\ k \in 1 .. w
           /\ parser.required <= config.tx
<1>1. request \in MemoryRequests /\ request.subfunction \in {"Write", "WriteMasked"}
    BY WriteTypes DEF WriteRequests
<1>2. /\ parser.required <= config.tx
      /\ \E w \in Whole(request) : parser.required = Need(request, w - 1)
    BY <1>1 DEF LoopInv, Loops, Going
<1>3. PICK w \in Whole(request) : parser.required = Need(request, w - 1)
    BY <1>2
<1>4. /\ parser.count + 1 \in 1 .. w /\ w \in 1 .. Len(request.items)
      /\ SizeOf(request, parser.count + 1) <= request.data_length
    BY BeforeEnd
<1>5. parser.count < Len(request.items) /\ parser.count + 1 \in 1 .. Len(request.items)
    BY <1>4, LoopTypes
<1>6. ~BlockRefused(request, parser)
    <2>1. At(request, parser.count, parser)
        BY LoopTypes
    <2>2. BlockRefused(request, parser) => BlockTooLarge(request, parser)
        BY <1>1, <1>4, <1>5, <2>1, RefusedOrThere
    <2> QED  BY <1>1, <2>2 DEF BlockTooLarge
<1>7. MemoryNext(request, parser) = WriteMemoryNext(request, parser)
    BY <1>1 DEF MemoryNext
<1>8. Moved(WriteMemoryNext(request, parser))
    BY <1>1, <1>6, <1>7, BlockStep
<1> QED  BY <1>2, <1>3, <1>4, <1>5, <1>8 DEF Moved

\* One block more is written.
LEMMA WrittenNext ==
    ASSUME LoopInv, code = "Serving", request \in WriteRequests,
           parser.count + 1 \in 1 .. Len(request.items)
    PROVE  /\ WriteBlock(request.items[parser.count + 1]) = Written(parser.count + 1)
           /\ Written(parser.count + 1) \in Memories
           /\ memory = Written(parser.count)
<1>1. /\ memory \in Memories /\ start \in Memories /\ Len(request.items) \in Nat
      /\ parser.count \in 0 .. Len(request.items)
    BY LoopTypes
<1>2. memory = Written(parser.count)
    BY DEF LoopInv, Writes, IsWrite, WriteRequests, Going
<1>3. (parser.count + 1) - 1 = parser.count /\ parser.count + 1 \in 0 .. Len(request.items)
    BY <1>1
<1>4. Result(request, start, parser.count + 1)
        = Applied(request, request.items[parser.count + 1], Result(request, start, parser.count))
    BY <1>1, <1>3, ResultIs
<1>5. Result(request, start, parser.count + 1) \in Memories
    BY <1>1, <1>3, ResultIs
<1>6. WriteBlock(request.items[parser.count + 1])
        = Applied(request, request.items[parser.count + 1], memory)
    BY <1>1, BlockApplied
<1> QED  BY <1>2, <1>4, <1>5, <1>6 DEF Written

LEMMA ServeWriteLoops == ASSUME LoopInv, ServeWrite PROVE LoopInv'
<1> DEFINE p == WriteMemoryNext(request, parser)
           b == request.items[p.count]
           r == WriteMemoryWrite(response, b)
           c == IF p.invalid THEN "InvalidRequest"
                ELSE IF Touches(b, ForbiddenRanges) \/ Touches(b, ReadonlyRanges)
                     THEN "Forbidden" ELSE Progress(p)
           k == parser.count + 1
<1>1. /\ code = "Serving" /\ request.subfunction \in {"Write", "WriteMasked"} /\ Served(c, p, r)
      /\ memory' = (IF Going(c) THEN WriteBlock(b) ELSE memory) /\ published' = published
    BY DEF ServeWrite
<1>2. /\ request \in Requests /\ request \in MemoryRequests /\ request \in WriteRequests
      /\ memory \in Memories /\ config.tx \in Nat
      /\ parser.count \in Nat /\ Len(request.items) \in Nat
    BY <1>1, LoopTypes DEF MemoryRequests, MemorySubfunctions, WriteRequests
<1>3. /\ Moved(p) /\ ~p.invalid /\ p.count = k /\ k \in 1 .. Len(request.items)
      /\ \E w \in Whole(request) : parser.required = Need(request, w - 1) /\ k \in 1 .. w
      /\ parser.required <= config.tx
    BY <1>1, <1>2, WriteStep
<1> HIDE DEF p
<1>4. /\ c \in {"Forbidden", "OK", "Serving"} /\ c \in Codes \ {"Idle"}
      /\ Going(c) => c = Progress(p)
    BY <1>3 DEF Progress, Codes, Going
<1> HIDE DEF c
<1>5. b = request.items[k] /\ r = EncodeEntry(response, Header, Ack(request.items[k]))
    BY <1>3 DEF WriteMemoryWrite, Ack
<1>6. Header \in Nat
    BY SizesAssumption DEF Header
<1>7. /\ response.cursor + Header <= config.tx =>
            r.cursor = response.cursor + Header
              /\ r.entries = Append(response.entries, Ack(request.items[k]))
      /\ ~(response.cursor + Header <= config.tx) =>
            r.cursor = response.cursor /\ r.entries = response.entries
      /\ r.cursor \in 0 .. config.tx /\ r.overflow \in BOOLEAN
    <2> DEFINE q == EncodeEntry(response, Header, Ack(request.items[k]))
    <2>1. /\ response.cursor + Header <= config.tx =>
                q.cursor = response.cursor + Header
                  /\ q.entries = Append(response.entries, Ack(request.items[k]))
          /\ ~(response.cursor + Header <= config.tx) =>
                q.cursor = response.cursor /\ q.entries = response.entries
          /\ q.cursor \in 0 .. config.tx /\ q.overflow \in BOOLEAN
        BY <1>1, <1>6, Encoded
    <2>2. r = q
        BY <1>5
    <2> HIDE DEF q, r
    <2> QED  BY <2>1, <2>2
<1> HIDE DEF r
<1>8. /\ memory' = (IF Going(c) THEN Written(k) ELSE Written(parser.count))
      /\ memory' \in Memories /\ memory = Written(parser.count)
    BY <1>1, <1>2, <1>3, <1>5, WrittenNext
<1>9. Accepted'
    <2>1. published' = << >>
        BY <1>1 DEF LoopInv, Types
    <2>2. 0 \in 0 .. parser'.count /\ published' = [i \in 1 .. 0 |-> request'.items[i]]
        BY <1>1, <1>2, <1>3, <2>1 DEF Served
    <2> QED  BY <2>2 DEF Accepted
<1>10. /\ Types' /\ request' = request /\ config' = config /\ start' = start
       /\ parser' = p /\ code' = c /\ (Going(c) => response' = r)
    BY <1>1, <1>3, <1>4, <1>7, <1>8, <1>9, ServedTypes
<1>11. Loops'
    BY <1>1, <1>3, <1>4, ServedLoops
<1>12. Writes'
    <2>1. config.memory_write
        BY <1>1 DEF LoopInv, Writes, IsWrite, Going
    <2>2. parser'.count = k /\ k - 1 = parser.count /\ k > 0
        BY <1>2, <1>3, <1>10
    <2>3. Written(parser.count)' = Written(k) /\ Written(parser.count - 1)' = Written(parser.count)
        BY <1>10, <2>2 DEF Written
    <2> QED  BY <1>4, <1>8, <1>10, <2>1, <2>2, <2>3 DEF Writes, Going
<1>13. Acks'
    <2>1. SUFFICES ASSUME Going(c) PROVE Acks'
        BY <1>10 DEF Acks
    <2>2. /\ response.cursor = Need(request, parser.count)
          /\ response.entries = [i \in 1 .. parser.count |-> Ack(request.items[i])]
        BY <1>1, <1>2 DEF LoopInv, Acks, IsWrite, Going
    <2>3. Need(request, k) = Need(request, parser.count) + Header
        BY <1>1, <1>2, <1>3, NextNeed DEF Required
    <2>4. CASE response.cursor + Header <= config.tx
        <3> DEFINE f == [i \in 1 .. k |-> Ack(request.items[i])]
        <3>1. response.entries = [i \in 1 .. parser.count |-> f[i]] /\ f = [i \in 1 .. k |-> f[i]]
              /\ f[parser.count + 1] = Ack(request.items[k])
            <4>1. \A i \in 1 .. parser.count : f[i] = Ack(request.items[i])
                BY <1>2
            <4>2. f[parser.count + 1] = Ack(request.items[k]) /\ f = [i \in 1 .. k |-> f[i]]
                BY <1>2
            <4> HIDE DEF f
            <4> QED  BY <2>2, <4>1, <4>2
        <3> HIDE DEF f
        <3>2. response'.entries = f
            <4>1. response'.entries = Append(response.entries, f[parser.count + 1])
                BY <1>7, <1>10, <2>1, <2>4, <3>1
            <4> QED  BY <1>2, <3>1, <4>1, AppendOne
        <3>3. response'.cursor = Need(request', k)
            BY <1>7, <1>10, <2>1, <2>2, <2>3, <2>4
        <3>4. k \in 0 .. parser'.count /\ k = parser'.count
            BY <1>2, <1>3, <1>10
        <3>5. response'.entries = [i \in 1 .. k |-> Ack(request'.items[i])]
            BY <1>10, <3>2 DEF f
        <3> QED  BY <3>3, <3>4, <3>5 DEF Acks
    <2>5. CASE ~(response.cursor + Header <= config.tx)
        <3>1. PICK w \in Whole(request) : parser.required = Need(request, w - 1) /\ k \in 1 .. w
            BY <1>3
        <3>2. w \in 1 .. Len(request.items) /\ w - 1 \in 0 .. Len(request.items)
              /\ SizeOf(request, w) = request.data_length
            BY <1>2 DEF Whole
        <3>3. k = w
            <4>1. ASSUME k # w PROVE FALSE
                <5>1. k \in 0 .. Len(request.items) /\ w - 1 \in k .. Len(request.items)
                    BY <1>2, <3>1, <3>2, <4>1
                <5>2. Need(request, k) <= Need(request, w - 1)
                    BY <1>2, <5>1, NeedsAdd
                <5>3. Need(request, k) \in Nat /\ Need(request, w - 1) \in Nat
                    BY <1>2, <3>2, <5>1, NeedsAdd
                <5> QED  BY <1>2, <1>3, <2>2, <2>3, <2>5, <3>1, <5>2, <5>3
            <4> QED  BY <4>1
        <3>4. p.finished
            BY <1>3, <3>2, <3>3 DEF Moved, At
        <3>5. c = "OK"
            BY <1>4, <2>1, <3>4 DEF Progress
        <3>6. parser.count \in 0 .. parser'.count /\ parser.count = parser'.count - 1
            BY <1>2, <1>3, <1>10
        <3>7. /\ response'.cursor = Need(request', parser.count)
              /\ response'.entries = [i \in 1 .. parser.count |-> Ack(request'.items[i])]
            BY <1>7, <1>10, <2>1, <2>2, <2>5
        <3> QED  BY <1>10, <3>5, <3>6, <3>7 DEF Acks
    <2> QED  BY <2>4, <2>5
<1>14. Reads' /\ Values'
    BY <1>1, <1>10 DEF Reads, Values, RpvSubfunctions
<1> QED  BY <1>10, <1>11, <1>12, <1>13, <1>14 DEF LoopInv

LEMMA RpvSizes == \A x \in RpvIds : RpvSize[x] \in Nat
<1>1. \A x \in RpvIds : RpvSize[x] \in {1, 2, 4, 8}
    BY ConfigAssumption
<1> QED  BY <1>1

LEMMA ReadValueStep ==
    ASSUME LoopInv, code = "Serving", request.subfunction = "ReadRPV"
    PROVE  LET p == ReadRpvNext(request, parser) IN
           \/ Moved(p) /\ p.count \in 1 .. Len(request.items)
           \/ Stuck(p)
<1>1. /\ request \in Requests /\ Len(request.items) \in Nat /\ parser.count \in 0 .. Len(request.items)
      /\ At(request, parser.count, parser)
      /\ request.data_length \in Nat /\ request.data_length < 65536
    BY LoopTypes
<1>2. CASE Lacks(request, parser, 2)
    BY <1>2, FailIsStuck DEF ReadRpvNext
<1>3. CASE ~Lacks(request, parser, 2)
    <2>1. parser.count + 1 \in 1 .. Len(request.items) /\ (parser.count + 1) - 1 = parser.count
          /\ 2 <= Rest(request, parser)
        <3>1. ~(2 > Rest(request, parser)) /\ parser.count # Len(request.items)
            BY <1>3 DEF Lacks
        <3>2. Rest(request, parser) \in Int
            BY <1>1, SizesAdd DEF Rest, At, U16
        <3> QED  BY <1>1, <3>1, <3>2
    <2>2. /\ SizeOf(request, parser.count) \in Nat
          /\ SizeOf(request, parser.count + 1)
               = SizeOf(request, parser.count) + ItemSize(request, request.items[parser.count + 1])
        BY <1>1, <2>1, SizesAdd
    <2>3. ItemSize(request, request.items[parser.count + 1]) = 2
        BY DEF ItemSize
    <2>4. Rest(request, parser) = request.data_length - SizeOf(request, parser.count)
        BY <1>1, <2>2, U16Small DEF Rest, At
    <2>5. SizeOf(request, parser.count + 1) <= request.data_length
        BY <1>1, <2>1, <2>2, <2>3, <2>4
    <2>6. Moved(Advance(request, parser, 2))
        BY <2>1, <2>3, <2>5, AdvanceMoves
    <2> QED  BY <1>3, <2>1, <2>6 DEF ReadRpvNext, Moved
<1> QED  BY <1>2, <1>3

LEMMA WriteValueStep ==
    ASSUME LoopInv, code = "Serving", request.subfunction = "WriteRPV"
    PROVE  LET p == WriteRpvNext(request, parser) IN
           \/ Moved(p) /\ p.count \in 1 .. Len(request.items)
           \/ Stuck(p)
<1> DEFINE id == request.items[parser.count + 1].id
           refused == Lacks(request, parser, 2) \/ id \notin RpvIds \/ RpvSize[id] > Rest(request, parser) - 2
<1>1. /\ request \in Requests /\ Len(request.items) \in Nat /\ parser.count \in 0 .. Len(request.items)
      /\ At(request, parser.count, parser)
      /\ request.data_length \in Nat /\ request.data_length < 65536
    BY LoopTypes
<1>2. CASE refused
    BY <1>2, FailIsStuck DEF WriteRpvNext
<1>3. CASE ~refused
    <2>1. parser.count + 1 \in 1 .. Len(request.items) /\ (parser.count + 1) - 1 = parser.count
        BY <1>1, <1>3 DEF Lacks
    <2>2. id \in RpvIds /\ RpvSize[id] \in Nat
        BY <1>3, RpvSizes
    <2>3. ItemSize(request, request.items[parser.count + 1]) = 2 + RpvSize[id]
        BY <2>2 DEF ItemSize
    <2>4. /\ SizeOf(request, parser.count) \in Nat
          /\ SizeOf(request, parser.count + 1)
               = SizeOf(request, parser.count) + ItemSize(request, request.items[parser.count + 1])
        BY <1>1, <2>1, SizesAdd
    <2>5. Rest(request, parser) = request.data_length - SizeOf(request, parser.count)
        BY <1>1, <2>4, U16Small DEF Rest, At
    <2>6. ~(RpvSize[id] > Rest(request, parser) - 2)
        BY <1>3
    <2> HIDE DEF id
    <2>7. SizeOf(request, parser.count + 1) <= request.data_length
        BY <1>1, <2>2, <2>3, <2>4, <2>5, <2>6
    <2>8. Moved(Advance(request, parser, 2 + RpvSize[id]))
        BY <2>1, <2>3, <2>7, AdvanceMoves
    <2> QED  BY <1>3, <2>1, <2>8 DEF WriteRpvNext, Moved, id
<1> QED  BY <1>2, <1>3

\* The ids already answered, and the one of this iteration.
LEMMA NextId ==
    ASSUME LoopInv, code = "Serving", request.subfunction \in RpvSubfunctions
    PROVE  /\ Append(response.entries, request.items[parser.count + 1].id)
                = [i \in 1 .. parser.count + 1 |-> request.items[i].id]
           /\ request.subfunction = "WriteRPV" =>
                Append(published, request.items[parser.count + 1])
                  = [i \in 1 .. parser.count + 1 |-> request.items[i]]
<1> DEFINE f == [i \in 1 .. parser.count + 1 |-> request.items[i].id]
           g == [i \in 1 .. parser.count + 1 |-> request.items[i]]
<1>1. parser.count \in Nat
    BY LoopTypes
<1>2. /\ response.entries = [i \in 1 .. parser.count |-> request.items[i].id]
      /\ request.subfunction = "WriteRPV" =>
            published = [i \in 1 .. parser.count |-> request.items[i]]
    BY DEF LoopInv, Values, Going
<1>3. /\ f[parser.count + 1] = request.items[parser.count + 1].id
      /\ f = [i \in 1 .. parser.count + 1 |-> f[i]]
      /\ [i \in 1 .. parser.count |-> f[i]] = [i \in 1 .. parser.count |-> request.items[i].id]
    BY <1>1
<1>4. /\ g[parser.count + 1] = request.items[parser.count + 1]
      /\ g = [i \in 1 .. parser.count + 1 |-> g[i]]
      /\ [i \in 1 .. parser.count |-> g[i]] = [i \in 1 .. parser.count |-> request.items[i]]
    BY <1>1
<1> HIDE DEF f, g
<1>5. Append([i \in 1 .. parser.count |-> f[i]], f[parser.count + 1]) = f
    BY <1>1, <1>3, AppendOne
<1>6. Append([i \in 1 .. parser.count |-> g[i]], g[parser.count + 1]) = g
    BY <1>1, <1>4, AppendOne
<1> QED  BY <1>2, <1>3, <1>4, <1>5, <1>6 DEF f, g

LEMMA ReadValueLoops ==
    ASSUME LoopInv, NEW ok \in BOOLEAN, ServeReadRpv(ok) PROVE LoopInv'
<1> DEFINE p == ReadRpvNext(request, parser)
           id == request.items[p.count].id
           r == ReadRpvWrite(response, id)
           c == IF p.invalid THEN "InvalidRequest"
                ELSE IF id \notin RpvIds \/ ~ok THEN "FailureToProceed"
                ELSE IF r.overflow THEN "Overflow" ELSE Progress(p)
           k == parser.count + 1
<1>1. /\ code = "Serving" /\ request.subfunction = "ReadRPV" /\ Served(c, p, r)
      /\ memory' = memory /\ published' = published
    BY DEF ServeReadRpv
<1>2. /\ request \in Requests /\ memory \in Memories /\ config.tx \in Nat
      /\ parser.count \in Nat /\ Len(request.items) \in Nat
    BY <1>1, LoopTypes
<1>3. (Moved(p) /\ p.count \in 1 .. Len(request.items)) \/ Stuck(p)
    BY <1>1, ReadValueStep
<1> HIDE DEF p
<1>4. Moved(p) => p.count = k /\ ~p.invalid
    BY DEF Moved
<1>5. /\ c \in Codes \ {"Idle"}
      /\ Going(c) => ~p.invalid /\ ~r.overflow /\ c = Progress(p) /\ id \in RpvIds
    BY DEF Progress, Codes, Going
<1> HIDE DEF c
<1>6. Going(c) => /\ Moved(p) /\ c = Progress(p) /\ p.count = k /\ ~r.overflow
                  /\ r.overflow \in BOOLEAN /\ r.cursor \in 0 .. config.tx
                  /\ r.entries = Append(response.entries, request.items[k].id)
    <2>1. SUFFICES ASSUME Going(c)
                   PROVE  /\ Moved(p) /\ c = Progress(p) /\ p.count = k /\ ~r.overflow
                          /\ r.overflow \in BOOLEAN /\ r.cursor \in 0 .. config.tx
                          /\ r.entries = Append(response.entries, request.items[k].id)
        OBVIOUS
    <2>2. Moved(p) /\ c = Progress(p) /\ ~r.overflow /\ id \in RpvIds
        BY <1>3, <1>5, <2>1 DEF Stuck
    <2>3. p.count = k
        BY <1>4, <2>2
    <2> DEFINE n == 2 + RpvSize[id]
               q == EncodeEntry(response, n, id)
    <2>4. n \in Nat
        BY <2>2, RpvSizes
    <2>5. r = q
        BY DEF ReadRpvWrite
    <2> HIDE DEF n, r
    <2>6. /\ response.cursor + n <= config.tx => q.entries = Append(response.entries, id)
          /\ ~(response.cursor + n <= config.tx) => q.overflow = TRUE
          /\ q.cursor \in 0 .. config.tx /\ q.overflow \in BOOLEAN
        BY <1>1, <2>4, Encoded
    <2> HIDE DEF q
    <2>7. response.cursor + n <= config.tx
        BY <2>2, <2>5, <2>6
    <2>8. id = request.items[k].id
        BY <2>3
    <2> HIDE DEF id
    <2> QED  BY <2>2, <2>3, <2>5, <2>6, <2>7, <2>8
<1>7. Accepted'
    <2>1. published' = << >>
        BY <1>1 DEF LoopInv, Types
    <2>2. p.count \in Nat
        BY <1>2, <1>3, <1>4 DEF Stuck
    <2>3. 0 \in 0 .. parser'.count /\ published' = [i \in 1 .. 0 |-> request'.items[i]]
        BY <1>1, <2>1, <2>2 DEF Served
    <2> QED  BY <2>3 DEF Accepted
<1>8. /\ Types' /\ request' = request /\ config' = config
      /\ parser' = p /\ code' = c /\ (Going(c) => response' = r)
    <2> HIDE DEF r
    <2> QED  BY <1>1, <1>2, <1>3, <1>5, <1>6, <1>7, ServedTypes
<1>9. Loops'
    BY <1>1, <1>6, ServedLoops
<1>10. Values'
    <2>1. SUFFICES ASSUME Going(c) PROVE Values'
        BY <1>8 DEF Values
    <2>2. request.subfunction \in RpvSubfunctions
        BY <1>1 DEF RpvSubfunctions
    <2>3. response'.entries = [i \in 1 .. k |-> request.items[i].id]
        BY <1>1, <1>6, <1>8, <2>1, <2>2, NextId
    <2> QED  BY <1>1, <1>6, <1>8, <2>1, <2>3 DEF Values
<1>11. Reads' /\ Writes' /\ Acks'
    BY <1>1, <1>8 DEF Reads, Writes, Acks, IsWrite
<1> QED  BY <1>8, <1>9, <1>10, <1>11 DEF LoopInv

LEMMA WriteValueLoops ==
    ASSUME LoopInv, NEW ok \in BOOLEAN, ServeWriteRpv(ok) PROVE LoopInv'
<1> DEFINE p == WriteRpvNext(request, parser)
           item == request.items[p.count]
           r == WriteRpvWrite(response, item.id)
           c == IF p.invalid THEN "InvalidRequest"
                ELSE IF ~ok THEN "FailureToProceed"
                ELSE IF r.overflow THEN "Overflow" ELSE Progress(p)
           k == parser.count + 1
<1>1. /\ code = "Serving" /\ request.subfunction = "WriteRPV" /\ Served(c, p, r)
      /\ memory' = memory
      /\ published' = (IF ~p.invalid /\ ok THEN Append(published, item) ELSE published)
      /\ request.subfunction \in RpvSubfunctions
    BY DEF ServeWriteRpv, RpvSubfunctions
<1>2. /\ request \in Requests /\ memory \in Memories /\ config.tx \in Nat
      /\ parser.count \in Nat /\ Len(request.items) \in Nat
    BY <1>1, LoopTypes
<1>3. (Moved(p) /\ p.count \in 1 .. Len(request.items)) \/ Stuck(p)
    BY <1>1, WriteValueStep
<1> HIDE DEF p
<1>4. Moved(p) => p.count = k /\ ~p.invalid
    BY DEF Moved
<1>5. /\ c \in Codes \ {"Idle"}
      /\ Going(c) => ~p.invalid /\ ~r.overflow /\ c = Progress(p) /\ ok
    BY DEF Progress, Codes, Going
<1> HIDE DEF c
<1>6. Going(c) => /\ Moved(p) /\ c = Progress(p) /\ p.count = k /\ ~r.overflow /\ ok
                  /\ r.overflow \in BOOLEAN /\ r.cursor \in 0 .. config.tx
                  /\ r.entries = Append(response.entries, request.items[k].id)
    <2>1. SUFFICES ASSUME Going(c)
                   PROVE  /\ Moved(p) /\ c = Progress(p) /\ p.count = k /\ ~r.overflow /\ ok
                          /\ r.overflow \in BOOLEAN /\ r.cursor \in 0 .. config.tx
                          /\ r.entries = Append(response.entries, request.items[k].id)
        OBVIOUS
    <2>2. Moved(p) /\ c = Progress(p) /\ ~r.overflow /\ ok
        BY <1>3, <1>5, <2>1 DEF Stuck
    <2>3. p.count = k
        BY <1>4, <2>2
    <2> DEFINE q == EncodeEntry(response, 3, item.id)
    <2>4. r = q
        BY DEF WriteRpvWrite
    <2> HIDE DEF r
    <2>5. /\ response.cursor + 3 <= config.tx => q.entries = Append(response.entries, item.id)
          /\ ~(response.cursor + 3 <= config.tx) => q.overflow = TRUE
          /\ q.cursor \in 0 .. config.tx /\ q.overflow \in BOOLEAN
        BY <1>1, Encoded
    <2> HIDE DEF q
    <2>6. response.cursor + 3 <= config.tx
        BY <2>2, <2>4, <2>5
    <2>7. item = request.items[k]
        BY <2>3
    <2> HIDE DEF item
    <2> QED  BY <2>2, <2>3, <2>4, <2>5, <2>6, <2>7
<1>7. /\ Append(response.entries, request.items[k].id) = [i \in 1 .. k |-> request.items[i].id]
      /\ Append(published, request.items[k]) = [i \in 1 .. k |-> request.items[i]]
      /\ published = [i \in 1 .. parser.count |-> request.items[i]]
    <2>1. published = [i \in 1 .. parser.count |-> request.items[i]]
        BY <1>1 DEF LoopInv, Values, Going
    <2> QED  BY <1>1, <2>1, NextId
<1>8. Accepted'
    <2>1. request' = request /\ parser' = p
        BY <1>1 DEF Served
    <2>2. CASE ~p.invalid /\ ok
        <3>1. p.count = k
            BY <1>3, <1>4, <2>2 DEF Stuck
        <3>2. k \in 0 .. parser'.count /\ published' = [i \in 1 .. k |-> request'.items[i]]
            BY <1>1, <1>2, <1>7, <2>1, <2>2, <3>1
        <3> QED  BY <3>2 DEF Accepted
    <2>3. CASE ~(~p.invalid /\ ok)
        <3>1. parser.count \in 0 .. p.count
            BY <1>2, <1>3, <1>4 DEF Stuck
        <3>2. published' = [i \in 1 .. parser.count |-> request'.items[i]]
            BY <1>1, <1>7, <2>1, <2>3
        <3> QED  BY <2>1, <3>1, <3>2 DEF Accepted
    <2> QED  BY <2>2, <2>3
<1>9. /\ Types' /\ request' = request /\ config' = config
      /\ parser' = p /\ code' = c /\ (Going(c) => response' = r)
    <2> HIDE DEF r
    <2> QED  BY <1>1, <1>2, <1>3, <1>5, <1>6, <1>8, ServedTypes
<1>10. Loops'
    BY <1>1, <1>6, ServedLoops
<1>11. Values'
    <2>1. SUFFICES ASSUME Going(c) PROVE Values'
        BY <1>9 DEF Values
    <2>2. response'.entries = [i \in 1 .. k |-> request.items[i].id]
        BY <1>6, <1>7, <1>9, <2>1
    <2>3. published' = [i \in 1 .. k |-> request.items[i]]
        BY <1>1, <1>4, <1>6, <1>7, <2>1
    <2> QED  BY <1>6, <1>9, <2>1, <2>2, <2>3 DEF Values
<1>12. Reads' /\ Writes' /\ Acks'
    BY <1>1, <1>9 DEF Reads, Writes, Acks, IsWrite
<1> QED  BY <1>9, <1>10, <1>11, <1>12 DEF LoopInv

-----------------------------------------------------------------------------

LEMMA StartLoops ==
    ASSUME LoopInv, NEW req \in Requests,
           StartRead(req) \/ StartWrite(req) \/ StartReadRpv(req)
             \/ StartWriteRpv(req) \/ StartUnknown(req)
    PROVE  LoopInv'
<1>1. CASE StartRead(req)
    <2>1. req \in MemoryRequests /\ req \notin WriteRequests
        BY <1>1 DEF StartRead, MemoryRequests, MemorySubfunctions, WriteRequests
    <2> QED  BY <1>1, <2>1, BlocksStart DEF StartRead
<1>2. CASE StartWrite(req)
    <2>1. req \in MemoryRequests /\ req.subfunction # "Read"
        BY <1>2 DEF StartWrite, MemoryRequests, MemorySubfunctions
    <2>2. CASE ~config.memory_write /\ Start(req, "Forbidden", ParserReset)
        BY <2>1, <2>2, Refused
    <2>3. CASE config.memory_write /\ Start(req, Verdict(Validated(req)), Validated(req))
        BY <2>1, <2>3, BlocksStart
    <2> QED  BY <1>2, <2>2, <2>3 DEF StartWrite
<1>3. CASE StartReadRpv(req) \/ StartWriteRpv(req)
    <2>1. /\ req.subfunction \in RpvSubfunctions /\ req.subfunction # "Read"
          /\ req \notin WriteRequests
        BY <1>3 DEF StartReadRpv, StartWriteRpv, RpvSubfunctions, WriteRequests
    <2>2. \E c \in {"InvalidRequest", "UnsupportedFeature", "Serving"} : Start(req, c, ParserReset)
        BY <1>3 DEF StartReadRpv, StartWriteRpv
    <2> QED  BY <2>1, <2>2, Refused, ValuesStart
<1>4. CASE StartUnknown(req)
    <2>1. /\ req.subfunction # "Read" /\ req \notin WriteRequests
          /\ Start(req, "UnsupportedFeature", ParserReset)
        BY <1>4 DEF StartUnknown, MemorySubfunctions, WriteRequests
    <2> QED  BY <2>1, Refused
<1> QED  BY <1>1, <1>2, <1>3, <1>4

LEMMA StutterLoops == ASSUME LoopInv, UNCHANGED vars PROVE LoopInv'
<1>1. /\ config' = config /\ memory' = memory /\ request' = request /\ parser' = parser
      /\ response' = response /\ code' = code /\ start' = start /\ published' = published
    BY DEF vars
<1>2. Types'
    BY <1>1 DEF LoopInv, Types, Accepted
<1>3. Loops'
    BY <1>1 DEF LoopInv, Loops
<1>4. Reads'
    <2>1. (\A b : ReadEntry(b)' = ReadEntry(b)) /\ (\A n : Readable(n)' <=> Readable(n))
        BY <1>1 DEF ReadEntry, Readable
    <2> QED  BY <1>1, <2>1 DEF LoopInv, Reads, Answered
<1>5. Writes'
    <2>1. \A n : Written(n)' = Written(n)
        BY <1>1 DEF Written
    <2> QED  BY <1>1, <2>1 DEF LoopInv, Writes, IsWrite
<1>6. Acks'
    BY <1>1 DEF LoopInv, Acks, IsWrite
<1>7. Values'
    BY <1>1 DEF LoopInv, Values
<1> QED  BY <1>2, <1>3, <1>4, <1>5, <1>6, <1>7 DEF LoopInv

LEMMA NextLoops == ASSUME LoopInv, [Next]_vars PROVE LoopInv'
<1>1. ASSUME NEW req \in Requests,
             StartRead(req) \/ StartWrite(req) \/ StartReadRpv(req)
               \/ StartWriteRpv(req) \/ StartUnknown(req)
      PROVE  LoopInv'
    BY <1>1, StartLoops
<1>2. ASSUME NEW ok \in BOOLEAN, ServeReadRpv(ok) \/ ServeWriteRpv(ok) PROVE LoopInv'
    BY <1>2, ReadValueLoops, WriteValueLoops
<1> QED  BY <1>1, <1>2, ServeReadLoops, ServeWriteLoops, RespondLoops, StutterLoops DEF Next

\* The loops follow the items of the request: what is written, answered and published is
\* a function of the items taken so far.
THEOREM LoopInvariant == Spec => []LoopInv
<1>1. LoopInv /\ [Next]_vars => LoopInv'
    BY NextLoops
<1> QED  BY <1>1, InitLoops, PTL DEF Spec

\* No 16-bit cursor or counter of the parsers and the encoders passes its limit.
THEOREM TypesHold == Spec => []TypeOK
<1>1. LoopInv => TypeOK
    <2> SUFFICES ASSUME LoopInv PROVE TypeOK
        OBVIOUS
    <2>1. /\ config \in Configs /\ memory \in [Addresses -> SUBSET Bits]
          /\ start \in [Addresses -> SUBSET Bits] /\ request \in Requests \union {NoRequest}
          /\ parser.bytes_read \in 0 .. request.data_length
          /\ parser.count \in 0 .. Len(request.items)
          /\ parser.required \in 0 .. RequiredLimit(request)
          /\ response.cursor \in 0 .. config.tx /\ code \in Codes
        BY DEF LoopInv, Types, Memories
    <2>2. {parser.invalid, parser.finished, response.overflow} \subseteq BOOLEAN
        <3>1. parser.invalid \in BOOLEAN /\ parser.finished \in BOOLEAN
            BY DEF LoopInv, Types, Parsers
        <3>2. response.overflow \in BOOLEAN
            BY DEF LoopInv, Types
        <3> QED  BY Zenon, <3>1, <3>2
    <2>3. parser.count \in Nat
        <3>1. parser.count \in Int /\ 0 <= parser.count
            BY <2>1 DEF LoopInv, Types, Parsers
        <3> QED  BY <3>1
    <2>4. Len(published) \in 0 .. parser.count
        <3>1. PICK n \in 0 .. parser.count : published = [k \in 1 .. n |-> request.items[k]]
            BY DEF LoopInv, Types, Accepted
        <3>2. Len(published) = n
            BY <2>3, <3>1
        <3> QED  BY <3>2
    <2>5. Len(response.entries) \in 0 .. parser.count
        <3>1. CASE ~Going(code)
            <4>1. response.entries = << >>
                BY <3>1, ResetTypes DEF LoopInv, Types
            <4> QED  BY <2>3, <4>1
        <3>2. CASE Going(code) /\ request.subfunction \in RpvSubfunctions
            <4>1. response.entries = [k \in 1 .. parser.count |-> request.items[k].id]
                BY <3>2 DEF LoopInv, Values
            <4> QED  BY <2>3, <4>1
        <3>3. CASE Going(code) /\ request.subfunction = "Read"
            <4>1. response.entries = [k \in 1 .. parser.count |-> ReadEntry(request.items[k])]
                BY <3>3 DEF LoopInv, Reads
            <4> QED  BY <2>3, <4>1
        <3>4. CASE Going(code) /\ IsWrite
            <4>1. PICK n \in 0 .. parser.count :
                     response.entries = [k \in 1 .. n |-> Ack(request.items[k])]
                BY <3>4 DEF LoopInv, Acks
            <4>2. Len(response.entries) = n
                BY <2>3, <4>1
            <4> QED  BY <4>2
        <3> QED  BY <3>1, <3>2, <3>3, <3>4 DEF LoopInv, Loops, IsWrite, MemorySubfunctions
    <2> QED  BY <2>1, <2>2, <2>4, <2>5 DEF TypeOK
<1> QED  BY <1>1, LoopInvariant, PTL

\* A read answered OK gives all the blocks of a whole request; with a transmit buffer of at
\* most half of the maximum, a read that can be served is.
THEOREM ReadsAreServed == Spec => []ReadServed
<1>1. LoopInv => ReadServed
    <2> SUFFICES ASSUME LoopInv, Answered, request.subfunction = "Read"
                 PROVE  /\ code = "OK" => \E n \in Whole(request) :
                              response.entries = [k \in 1 .. n |-> ReadEntry(request.items[k])]
                        /\ 2 * config.tx <= MaxTxBufferSize =>
                              \A n \in Whole(request) : Readable(n) => code = "OK"
        BY DEF ReadServed
    <2>1. code = "OK" =>
             /\ parser.count \in Whole(request)
             /\ response.entries = [k \in 1 .. parser.count |-> ReadEntry(request.items[k])]
        BY DEF LoopInv, Loops, Reads, Going
    <2>2. code # "OK" /\ 2 * config.tx <= MaxTxBufferSize => \A n \in Whole(request) : ~Readable(n)
        BY DEF LoopInv, Reads
    <2> QED  BY <2>1, <2>2
<1> QED  BY <1>1, LoopInvariant, PTL

\* A write changes memory as its blocks say, in order, and stops only at a protected one.
THEOREM WritesAreDone == Spec => []WritesAsRequested
<1>1. LoopInv => WritesAsRequested
    BY DEF LoopInv, Loops, Writes, WritesAsRequested, Going
<1> QED  BY <1>1, LoopInvariant, PTL

\* At most the last block of a write answered OK is not acknowledged.
THEOREM WritesAreAcknowledged == Spec => []LastMayBeUnacknowledged
<1>1. LoopInv => LastMayBeUnacknowledged
    <2> SUFFICES ASSUME LoopInv, IsWrite, code = "OK"
                 PROVE  \E n \in Whole(request) :
                          /\ Len(response.entries) \in {n - 1, n}
                          /\ \A k \in 1 .. Len(response.entries) :
                                response.entries[k] = [addr |-> request.items[k].addr,
                                                       length |-> request.items[k].length]
        BY DEF LastMayBeUnacknowledged
    <2>1. parser.count \in Whole(request)
        BY DEF LoopInv, Loops, Going
    <2>2. PICK n \in 0 .. parser.count :
             /\ n = parser.count \/ n = parser.count - 1
             /\ response.entries = [k \in 1 .. n |-> Ack(request.items[k])]
        BY DEF LoopInv, Acks, Going
    <2>3. parser.count \in Nat
        <3>1. parser.count \in Int /\ parser.count \in 0 .. Len(request.items)
            BY DEF LoopInv, Types, Parsers
        <3> QED  BY <3>1
    <2>4. Len(response.entries) = n
        BY <2>2, <2>3
    <2>5. \A k \in 1 .. n : response.entries[k] = Ack(request.items[k])
        BY <2>2
    <2> QED  BY <2>1, <2>2, <2>4, <2>5 DEF Ack
<1> QED  BY <1>1, LoopInvariant, PTL

LEMMA FirstOnes ==
    ASSUME NEW m \in Nat, NEW n \in 0 .. m, NEW f, f = [k \in 1 .. m |-> f[k]]
    PROVE  SubSeq(f, 1, n) = [k \in 1 .. n |-> f[k]]
OBVIOUS

\* A request about published values answered OK was served to its last item.
THEOREM ValuesAreAnswered == Spec => []PublishedAnswered
<1>1. LoopInv => PublishedAnswered
    <2> SUFFICES ASSUME LoopInv, code = "OK", request.subfunction \in RpvSubfunctions
                 PROVE  \E n \in Whole(request) :
                          /\ response.entries = [k \in 1 .. n |-> request.items[k].id]
                          /\ request.subfunction = "WriteRPV" =>
                                published = SubSeq(request.items, 1, n)
        BY DEF PublishedAnswered
    <2>1. /\ parser.count \in Whole(request)
          /\ response.entries = [k \in 1 .. parser.count |-> request.items[k].id]
          /\ request.subfunction = "WriteRPV" =>
                published = [k \in 1 .. parser.count |-> request.items[k]]
        BY DEF LoopInv, Loops, Values, Going
    <2>2. request \in Requests
        BY DEF LoopInv, Types
    <2>3. Len(request.items) \in Nat /\ parser.count \in 0 .. Len(request.items)
        BY <2>1, <2>2, RequestsAssumption DEF Whole
    <2>4. request.items = [k \in 1 .. Len(request.items) |-> request.items[k]]
        BY <2>2, ItemsAssumption
    <2>5. SubSeq(request.items, 1, parser.count) = [k \in 1 .. parser.count |-> request.items[k]]
        BY <2>3, <2>4, FirstOnes
    <2> QED  BY <2>1, <2>5
<1> QED  BY <1>1, LoopInvariant, PTL
=============================================================================
