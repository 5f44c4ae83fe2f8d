--------------------------- MODULE MemoryControl ---------------------------
(***************************************************************************)
(* process_memory_control(): reads, writes and masked writes of memory     *)
(* blocks, reads and writes of runtime published values (RPV), with the    *)
(* parsers and encoders of CodecV1_0 that it drives item by item.          *)
(*                                                                         *)
(* A request is a sequence of items cut after data_length bytes: a cut     *)
(* inside an item, or bytes left after the last one, are the malformed     *)
(* requests.  A char of memory is the set of its bits (CHAR_BIT = 8).      *)
(***************************************************************************)
EXTENDS Integers, Sequences

CONSTANTS AddrSize,         \* sizeof(void *)
          AddressSpace,     \* number of addresses
          MaxTxBufferSize,  \* MAXIMUM_TX_BUFFER_SIZE
          Bits,             \* the bits of a char
          ForbiddenRanges,  \* m_config.forbidden_ranges(), [start, end] with both ends in
          ReadonlyRanges,   \* m_config.readonly_ranges()
          RpvSize,          \* m_config.get_rpvs_array(): from ids to sizes in bytes
          Configs,          \* the other settings: memory_write, read_rpv, write_rpv, tx
          Requests          \* the requests received

Addresses == 0 .. AddressSpace - 1
RpvIds == DOMAIN RpvSize
Ranges == {r \in [start : Addresses, end : Addresses] : r.start <= r.end}
MemorySubfunctions == {"Read", "Write", "WriteMasked"}
RpvSubfunctions == {"ReadRPV", "WriteRPV"}

\* The parsers take any address and any length of 16 bits, which addresses have at least:
\* a block may go past the last address.
IsBlock(b) == b.addr \in Addresses /\ b.length \in Nat /\ b.length < AddressSpace

IsData(d, b) == d \in [0 .. b.length - 1 -> SUBSET Bits]

IsItem(subfunction, item) ==
    CASE subfunction = "Read"        -> IsBlock(item)
      [] subfunction = "Write"       -> IsBlock(item) /\ IsData(item.source, item)
      [] subfunction = "WriteMasked" -> /\ IsBlock(item)
                                        /\ IsData(item.source, item) /\ IsData(item.mask, item)
      [] OTHER                       -> item.id \in Nat

ASSUME SizesAssumption ==
    /\ AddrSize \in Nat \ {0} /\ AddressSpace \in Nat \ {0}
    /\ MaxTxBufferSize \in AddrSize + 2 .. 65535

\* check_config() refuses other RPV types; their ids are unique.
ASSUME ConfigAssumption ==
    /\ ForbiddenRanges \subseteq Ranges /\ ReadonlyRanges \subseteq Ranges
    /\ RpvIds \subseteq Nat /\ \A id \in RpvIds : RpvSize[id] \in {1, 2, 4, 8}
    /\ \A c \in Configs : /\ {c.memory_write, c.read_rpv, c.write_rpv} \subseteq BOOLEAN
                          /\ c.tx \in 0 .. MaxTxBufferSize

ASSUME RequestsAssumption ==
    \A req \in Requests :
        /\ req.data_length \in Nat /\ req.data_length < 65536
        /\ Len(req.items) \in Nat
        /\ \A i \in 1 .. Len(req.items) : IsItem(req.subfunction, req.items[i])

\* The items are a sequence.
ASSUME ItemsAssumption ==
    \A req \in Requests : req.items = [i \in 1 .. Len(req.items) |-> req.items[i]]

VARIABLES config,           \* m_config, fixed
          memory,           \* from addresses to chars
          request,          \* the request being served
          parser,           \* its parser; count is the number of items taken from it
          response,         \* m_cursor and m_overflow of the encoder, the entries written
          code,             \* "Idle", "Serving" (in the loop) or the ResponseCode
          start,            \* history: memory when the request arrived
          published         \* history: items the RPV write callback accepted

vars == <<config, memory, request, parser, response, code, start, published>>

NoRequest == [subfunction |-> "None", items |-> << >>, data_length |-> 0]
ParserReset == [bytes_read |-> 0, count |-> 0, required |-> 0,
                invalid |-> FALSE, finished |-> FALSE]
EncoderInit == [cursor |-> 0, overflow |-> FALSE, entries |-> << >>]
Going(c) == c \in {"Serving", "OK"}

-----------------------------------------------------------------------------
(* Parsers: init() and next() *)

Header == AddrSize + 2                                 \* address and length of a block
U16(n) == n % 65536                                    \* static_cast<uint16_t>
Rest(req, p) == U16(req.data_length - p.bytes_read)
Masked(req) == req.subfunction = "WriteMasked"

Fail(p) ==
    [bytes_read |-> p.bytes_read, count |-> p.count, required |-> p.required,
     invalid |-> TRUE, finished |-> TRUE]

Advance(req, p, n) ==
    [bytes_read |-> p.bytes_read + n, count |-> p.count + 1, required |-> p.required,
     invalid |-> p.invalid, finished |-> p.bytes_read + n = req.data_length]

\* Fewer than n bytes remain; items are all those that the bytes hold.
Lacks(req, p, n) == p.count = Len(req.items) \/ n > Rest(req, p)

ReadMemoryNext(req, p) ==
    CASE p.finished \/ p.invalid -> p
      [] ~(p.finished \/ p.invalid) ->
         IF \/ Lacks(req, p, Header)
            \/ Header + req.items[p.count + 1].length > U16(MaxTxBufferSize - p.required)
         THEN Fail(p) ELSE Advance(req, p, Header)

\* The source data, and the mask of the same length, follow the header.
PayloadFits(req, length, rest) ==
    length <= rest /\ (Masked(req) => length <= rest \div 2)

WriteMemoryNext(req, p) ==
    LET length == req.items[p.count + 1].length IN
    CASE p.finished \/ p.invalid -> p
      [] ~(p.finished \/ p.invalid) ->
         IF Lacks(req, p, Header) \/ ~PayloadFits(req, length, Rest(req, p) - Header)
         THEN Fail(p)
         ELSE Advance(req, p, Header + (IF Masked(req) THEN 2 * length ELSE length))

MemoryNext(req, p) ==
    IF req.subfunction = "Read" THEN ReadMemoryNext(req, p) ELSE WriteMemoryNext(req, p)

\* Faulty variants (names starting with Faulty) are not part of the model: each is
\* a slip that the properties are sensitive to.
FaultyRequiredNothing(req, b) == 0

\* What a block adds to m_required_tx_buffer_size.
Required(req, b) == IF req.subfunction = "Read" THEN Header + b.length ELSE Header

FaultyValidatedNot(req) == ParserReset

\* init(): a first traversal for validation.  The block that finishes it is not added
\* to m_required_tx_buffer_size, which the second traversal keeps.
Validated(req) ==
    LET traverse[n \in 0 .. Len(req.items) + 1] ==
            IF n = 0 THEN ParserReset
            ELSE LET p == MemoryNext(req, traverse[n - 1]) IN
                 IF p.invalid \/ p.finished THEN p
                 ELSE [p EXCEPT !.required = @ + Required(req, req.items[p.count])]
        last == traverse[Len(req.items) + 1]
    IN  [ParserReset EXCEPT !.required = last.required, !.invalid = last.invalid]

ReadRpvNext(req, p) == IF Lacks(req, p, 2) THEN Fail(p) ELSE Advance(req, p, 2)

\* An unknown id ends the parsing: the size of its value is unknown.
WriteRpvNext(req, p) ==
    LET id == req.items[p.count + 1].id IN
    IF Lacks(req, p, 2) \/ id \notin RpvIds \/ RpvSize[id] > Rest(req, p) - 2
    THEN Fail(p) ELSE Advance(req, p, 2 + RpvSize[id])

-----------------------------------------------------------------------------
(* Encoders: write() *)

FaultyEncodeEntrySilently(r, n, entry) ==
    IF n > U16(config.tx - r.cursor) THEN r
    ELSE [r EXCEPT !.cursor = @ + n, !.entries = Append(@, entry)]

FaultyEncodeEntryOneMore(r, n, entry) ==
    IF n - 1 > U16(config.tx - r.cursor) THEN [r EXCEPT !.overflow = TRUE]
    ELSE [r EXCEPT !.cursor = @ + n, !.entries = Append(@, entry)]

FaultyEncodeEntryStrict(r, n, entry) ==
    IF n >= U16(config.tx - r.cursor) THEN [r EXCEPT !.overflow = TRUE]
    ELSE [r EXCEPT !.cursor = @ + n, !.entries = Append(@, entry)]

\* start_address + i, past the last address from 0 on (the language leaves it undefined).
CharAddress(b, i) == (b.addr + i) % AddressSpace

Overflowed(r) == [cursor |-> r.cursor, overflow |-> TRUE, entries |-> r.entries]

\* Append an entry of n bytes, or raise m_overflow when it does not fit.
EncodeEntry(r, n, entry) ==
    IF n > U16(config.tx - r.cursor) THEN Overflowed(r)
    ELSE [cursor |-> r.cursor + n, overflow |-> r.overflow, entries |-> Append(r.entries, entry)]

ReadMemoryWrite(r, b) ==
    IF b.length > MaxTxBufferSize - AddrSize - 2 THEN Overflowed(r)
    ELSE EncodeEntry(r, Header + b.length,
                     [addr |-> b.addr, length |-> b.length,
                      data |-> [i \in 0 .. b.length - 1 |-> memory[CharAddress(b, i)]]])

WriteMemoryWrite(r, b) == EncodeEntry(r, Header, [addr |-> b.addr, length |-> b.length])
ReadRpvWrite(r, id) == EncodeEntry(r, 2 + RpvSize[id], id)
WriteRpvWrite(r, id) == EncodeEntry(r, 3, id)

-----------------------------------------------------------------------------
(* Memory *)

FaultyTouchesStrict(b, ranges) ==
    LET block_end == (b.addr + b.length - 1) % AddressSpace IN
    \E r \in ranges : b.addr <= r.end /\ block_end > r.start

\* touches_forbidden_region() and touches_readonly_region(): block_end is a uintptr_t,
\* that of an empty block, or of one that goes past the last address, is before its start.
Touches(b, ranges) ==
    LET block_end == (b.addr + b.length - 1) % AddressSpace IN
    \E r \in ranges : b.addr <= r.end /\ block_end >= r.start

\* Masked: the bits to set are set, then the bits to clear are cleared.
MaskedChar(old, source, mask) == (old \union (source \intersect mask))
                                 \intersect (source \union (Bits \ mask))

\* Where an address is in a block; at b.length or more, it is not in it.
CharIndex(b, a) == (a + AddressSpace - b.addr) % AddressSpace

WriteBlock(b) ==
    [a \in Addresses |->
        LET i == CharIndex(b, a) IN
        IF i >= b.length THEN memory[a]
        ELSE IF Masked(request) THEN MaskedChar(memory[a], b.source[i], b.mask[i])
        ELSE b.source[i]]

-----------------------------------------------------------------------------
(* Actions *)

Init ==
    /\ config \in Configs
    /\ memory = [a \in Addresses |-> {}]
    /\ request = NoRequest /\ parser = ParserReset /\ response = EncoderInit
    /\ code = "Idle" /\ start = memory /\ published = << >>

\* The tests made before the loop: the request is answered with c, or served.
Start(req, c, p) ==
    /\ code = "Idle"
    /\ request' = req /\ parser' = p /\ code' = c /\ response' = EncoderInit
    /\ UNCHANGED <<config, memory, start, published>>

Verdict(p) ==
    CASE p.invalid -> "InvalidRequest"
      [] ~p.invalid /\ p.required > config.tx -> "Overflow"
      [] OTHER -> "Serving"

StartRead(req) ==
    /\ req.subfunction = "Read"
    /\ Start(req, Verdict(Validated(req)), Validated(req))

StartWrite(req) ==
    /\ req.subfunction \in {"Write", "WriteMasked"}
    /\ \/ ~config.memory_write /\ Start(req, "Forbidden", ParserReset)
       \/ config.memory_write /\ Start(req, Verdict(Validated(req)), Validated(req))

StartReadRpv(req) ==
    /\ req.subfunction = "ReadRPV"
    /\ \/ ~config.read_rpv /\ Start(req, "UnsupportedFeature", ParserReset)
       \/ config.read_rpv /\ Start(req, IF req.data_length % 2 # 0 THEN "InvalidRequest"
                                        ELSE "Serving", ParserReset)

StartWriteRpv(req) ==
    /\ req.subfunction = "WriteRPV"
    /\ \/ ~config.write_rpv /\ Start(req, "UnsupportedFeature", ParserReset)
       \/ config.write_rpv /\ Start(req, "Serving", ParserReset)

StartUnknown(req) ==
    /\ req.subfunction \notin MemorySubfunctions \union RpvSubfunctions
    /\ Start(req, "UnsupportedFeature", ParserReset)

\* The code after an item is served: the loop runs until the parser has finished.
Progress(p) == IF p.finished THEN "OK" ELSE "Serving"

\* process_request() empties the response of a request that failed.
Served(c, p, r) ==
    /\ code' = c /\ parser' = p
    /\ response' = IF Going(c) THEN r ELSE EncoderInit
    /\ UNCHANGED <<config, request, start>>

ServeRead ==
    /\ code = "Serving" /\ request.subfunction = "Read"
    /\ LET p == ReadMemoryNext(request, parser)
           b == request.items[p.count]
           r == ReadMemoryWrite(response, b)
           c == IF p.invalid THEN "InvalidRequest"
                ELSE IF Touches(b, ForbiddenRanges) THEN "Forbidden"
                ELSE IF r.overflow THEN "Overflow" ELSE Progress(p)
       IN  Served(c, p, r)
    /\ UNCHANGED <<memory, published>>

\* The overflow of the response is not looked at.
ServeWrite ==
    /\ code = "Serving" /\ request.subfunction \in {"Write", "WriteMasked"}
    /\ LET p == WriteMemoryNext(request, parser)
           b == request.items[p.count]
           c == IF p.invalid THEN "InvalidRequest"
                ELSE IF Touches(b, ForbiddenRanges) \/ Touches(b, ReadonlyRanges)
                     THEN "Forbidden" ELSE Progress(p)
       IN  /\ Served(c, p, WriteMemoryWrite(response, b))
           /\ memory' = IF Going(c) THEN WriteBlock(b) ELSE memory
    /\ UNCHANGED published

\* ok: what the callback of the integrator returns.
ServeReadRpv(ok) ==
    /\ code = "Serving" /\ request.subfunction = "ReadRPV"
    /\ LET p == ReadRpvNext(request, parser)
           id == request.items[p.count].id
           r == ReadRpvWrite(response, id)
           c == IF p.invalid THEN "InvalidRequest"
                ELSE IF id \notin RpvIds \/ ~ok THEN "FailureToProceed"
                ELSE IF r.overflow THEN "Overflow" ELSE Progress(p)
       IN  Served(c, p, r)
    /\ UNCHANGED <<memory, published>>

ServeWriteRpv(ok) ==
    /\ code = "Serving" /\ request.subfunction = "WriteRPV"
    /\ LET p == WriteRpvNext(request, parser)
           item == request.items[p.count]
           r == WriteRpvWrite(response, item.id)
           c == IF p.invalid THEN "InvalidRequest"
                ELSE IF ~ok THEN "FailureToProceed"
                ELSE IF r.overflow THEN "Overflow" ELSE Progress(p)
       IN  /\ Served(c, p, r)
           /\ published' = IF ~p.invalid /\ ok THEN Append(published, item) ELSE published
    /\ UNCHANGED memory

\* The response leaves; the next request finds the handler idle.
Respond ==
    /\ code \notin {"Idle", "Serving"}
    /\ request' = NoRequest /\ parser' = ParserReset /\ response' = EncoderInit
    /\ code' = "Idle" /\ start' = memory /\ published' = << >>
    /\ UNCHANGED <<config, memory>>

Next ==
    \/ \E req \in Requests :
          StartRead(req) \/ StartWrite(req) \/ StartReadRpv(req)
            \/ StartWriteRpv(req) \/ StartUnknown(req)
    \/ ServeRead
    \/ ServeWrite
    \/ \E ok \in BOOLEAN : ServeReadRpv(ok) \/ ServeWriteRpv(ok)
    \/ Respond

Spec == Init /\ [][Next]_vars

-----------------------------------------------------------------------------
(* Properties *)

Cells(b) == {CharAddress(b, i) : i \in 0 .. b.length - 1}
InAddressSpace(b) == b.addr + b.length <= AddressSpace
RangeCells(ranges) == UNION {r.start .. r.end : r \in ranges}
Protected == RangeCells(ForbiddenRanges) \union RangeCells(ReadonlyRanges)

Codes == {"Idle", "Serving", "OK", "InvalidRequest", "Overflow", "Forbidden",
          "UnsupportedFeature", "FailureToProceed"}

\* A read asks for no more than the largest response; a write, a header per block, for no
\* more than it holds itself.
RequiredLimit(req) == IF req.subfunction = "Read" THEN MaxTxBufferSize ELSE req.data_length

\* Types, and the bounds the 16-bit counters of the parsers and encoders rely on: no
\* cursor passes its limit, so that no difference of the code wraps.
TypeOK ==
    /\ config \in Configs
    /\ memory \in [Addresses -> SUBSET Bits] /\ start \in [Addresses -> SUBSET Bits]
    /\ request \in Requests \union {NoRequest}
    /\ parser.bytes_read \in 0 .. request.data_length
    /\ parser.count \in 0 .. Len(request.items)
    /\ parser.required \in 0 .. RequiredLimit(request)
    /\ {parser.invalid, parser.finished, response.overflow} \subseteq BOOLEAN
    /\ response.cursor \in 0 .. config.tx
    /\ Len(response.entries) \in 0 .. parser.count
    /\ code \in Codes
    /\ Len(published) \in 0 .. parser.count

(* The reference: the items that make a request whole. *)

ItemSize(req, item) ==
    CASE req.subfunction = "Read"        -> Header
      [] req.subfunction = "Write"       -> Header + item.length
      [] req.subfunction = "WriteMasked" -> Header + 2 * item.length
      [] req.subfunction = "ReadRPV"     -> 2
      [] OTHER -> 2 + (IF item.id \in RpvIds THEN RpvSize[item.id] ELSE 0)

\* Sum of the first n sizes.
SumItems(n, size) ==
    LET sum[k \in 0 .. n] == IF k = 0 THEN 0 ELSE sum[k - 1] + size[k] IN sum[n]

SizeOf(req, n) == SumItems(n, [k \in 1 .. Len(req.items) |-> ItemSize(req, req.items[k])])
Whole(req) == {n \in 1 .. Len(req.items) : SizeOf(req, n) = req.data_length}

Answered == code \notin {"Idle", "Serving"}
ReadEntry(b) == [addr |-> b.addr, length |-> b.length,
                 data |-> [i \in 0 .. b.length - 1 |-> memory[CharAddress(b, i)]]]

\* "A forbidden range is never read or written by Scrutiny", "a read-only range is never
\* written" (scrutiny_config.hpp), for every block that ends inside the address space: a
\* char of a protected region changes only when the block that is served goes past the
\* last address, where block_end wraps and the code does not see the region...
ProtectedUntouched ==
    [][\A a \in Protected :
          memory'[a] # memory[a] => ~InAddressSpace(request.items[parser'.count])]_vars

\* ... and none of a forbidden region leaves in the entry of such a block.
ForbiddenNotRead ==
    request.subfunction = "Read" =>
        \A i \in 1 .. Len(response.entries) :
            InAddressSpace(response.entries[i]) =>
                Cells(response.entries[i]) \intersect RangeCells(ForbiddenRanges) = {}

\* The blocks of the whole request can be read and their contents fit the response.
Readable(n) ==
    /\ \A k \in 1 .. n : /\ request.items[k].length > 0
                         /\ Cells(request.items[k]) \intersect RangeCells(ForbiddenRanges) = {}
    /\ SumItems(n, [k \in 1 .. n |-> Header + request.items[k].length]) <= config.tx

\* A read answered OK was a whole request and gives all its blocks, in order; a read that
\* can be served is never refused.  (With a transmit buffer above half of the maximum it
\* can be: the second traversal of the parser starts with the size counted by the first
\* and finds a large block too large, InvalidRequest.)
ReadServed ==
    Answered /\ request.subfunction = "Read" =>
        /\ code = "OK" => \E n \in Whole(request) :
               response.entries = [k \in 1 .. n |-> ReadEntry(request.items[k])]
        /\ 2 * config.tx <= MaxTxBufferSize =>
               \A n \in Whole(request) : Readable(n) => code = "OK"

\* A char of a write: a masked write replaces the bits of the mask by those of the source.
NewChar(req, b, i, old) ==
    IF Masked(req) THEN (old \ b.mask[i]) \union (b.source[i] \intersect b.mask[i])
    ELSE b.source[i]

\* What the first n blocks of a write make of the memory found by the request.
Result(req, before, n) ==
    LET after[k \in 0 .. n] ==
            IF k = 0 THEN before
            ELSE [a \in Addresses |->
                    IF a \in Cells(req.items[k])
                    THEN NewChar(req, req.items[k], CharIndex(req.items[k], a), after[k - 1][a])
                    ELSE after[k - 1][a]]
    IN  after[n]

Written(n) == Result(request, start, n)

IsWrite == request.subfunction \in {"Write", "WriteMasked"}

\* A write does its blocks in order: all of them when it is answered OK, those before the
\* protected one when it is Forbidden, none when it is refused for its form or its size:
\* the parser validates the whole request before the first block is written.
WritesAsRequested ==
    IsWrite =>
        /\ code = "Serving" => memory = Written(parser.count)
        /\ code = "OK" => \E n \in Whole(request) : memory = Written(n)
        /\ code = "Forbidden" /\ config.memory_write =>
               parser.count > 0 /\ memory = Written(parser.count - 1)
        /\ code \in {"InvalidRequest", "Overflow"} \/ ~config.memory_write => memory = start

\* A write answered OK acknowledges its blocks in order, the last one at most missing.
LastMayBeUnacknowledged ==
    IsWrite /\ code = "OK" =>
        \E n \in Whole(request) :
            /\ Len(response.entries) \in {n - 1, n}
            /\ \A k \in 1 .. Len(response.entries) :
                   response.entries[k] = [addr |-> request.items[k].addr,
                                          length |-> request.items[k].length]

\* A request about published values answered OK was whole, and each of its ids is in the
\* response, in order; for a write, each value was accepted by the callback.
PublishedAnswered ==
    code = "OK" /\ request.subfunction \in RpvSubfunctions =>
        \E n \in Whole(request) :
            /\ response.entries = [k \in 1 .. n |-> request.items[k].id]
            /\ request.subfunction = "WriteRPV" => published = SubSeq(request.items, 1, n)
=============================================================================
