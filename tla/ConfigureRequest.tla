--------------------------- MODULE ConfigureRequest ---------------------------
(***************************************************************************)
(* The ConfigureDatalog request: the bytes it is decoded from, into the    *)
(* configuration object that the datalogger uses, and the checks that the  *)
(* decoded configuration goes through, in MainHandler and in               *)
(* DataLogger::configure().                                                *)
(*                                                                         *)
(* Decoding writes the object as it goes: a request refused half way       *)
(* leaves the fields and the elements it had decoded.                      *)
(***************************************************************************)
EXTENDS BinaryCodecs

\* Faulty variants (names starting with Faulty) are not part of the model: each is a slip
\* that the properties of Requests are sensitive to.

CONSTANTS
    MaxOperands,    \* MAX_OPERANDS (3)
    MaxSignal       \* SCRUTINY_DATALOGGING_MAX_SIGNAL

ASSUME ArraysAssumption == MaxOperands \in 1 .. 254 /\ MaxSignal \in 1 .. 254

OperandKinds == [n \in 0 .. 3 |-> <<"Literal", "Var", "VarBit", "Rpv">>[n + 1]]
OperandLength ==
    [Literal |-> 4, Var |-> 1 + AddressSize, VarBit |-> 3 + AddressSize, Rpv |-> 2]
ItemKinds == [n \in 0 .. 2 |-> <<"Memory", "Rpv", "Time">>[n + 1]]
ItemLength == [Memory |-> AddressSize + 1, Rpv |-> 2, Time |-> 0]

\* The elements of a configuration.
OperandRecords ==
    [kind : {"Literal"}, val : Nat] \union [kind : {"Rpv"}, id : Nat]
    \union [kind : {"Var"}, datatype : Byte, addr : Nat]
    \union [kind : {"VarBit"}, datatype : Byte, addr : Nat, bitoffset : Byte, bitsize : Byte]
ItemRecords ==
    [kind : {"Memory"}, addr : Nat, size : Byte] \union [kind : {"Rpv"}, id : Nat] \union [kind : {"Time"}]

Unset == [kind |-> "Unset"]
ClearedConfig ==
    [decimation |-> 0, probe_location |-> 0, timeout |-> 0, condition |-> 0, hold_time |-> 0,
     operand_count |-> 0, operands |-> [i \in 1 .. MaxOperands |-> Unset],
     items_count |-> 0, items |-> [i \in 1 .. MaxSignal |-> Unset]]

\* The fields of an element, once the length of the request is known to be enough.
OperandOf(kind, b) ==
    CASE kind = "Literal" -> [kind |-> kind, val |-> Decode(b)]
      [] kind = "Rpv" -> [kind |-> kind, id |-> Decode(b)]
      [] kind = "Var" -> [kind |-> kind, datatype |-> b[1], addr |-> DecodeAddress(Tail(b))]
      [] kind = "VarBit" -> [kind |-> kind, datatype |-> b[1], addr |-> DecodeAddress(Tail(b)),
                             bitoffset |-> b[2 + AddressSize], bitsize |-> b[3 + AddressSize]]
ItemOf(kind, b) ==
    CASE kind = "Memory" -> [kind |-> kind, addr |-> DecodeAddress(b), size |-> b[AddressSize + 1]]
      [] kind = "Rpv" -> [kind |-> kind, id |-> Decode(b)]
      [] kind = "Time" -> [kind |-> kind]

\* The decoding under way: code, cursor, and the object.
Refuse(d, code) == [d EXCEPT !.code = code]

\* An element refused after its kind: that was written, its fields are the old ones.
Torn == [kind |-> "Torn"]

\* The bytes of an element whose kind byte is at the cursor.
Complete(data, d, length) == Len(data) >= d.cursor + 1 + length
Fields(data, d, length) == SubSeq(data, d.cursor + 2, d.cursor + 1 + length)

DecodeOperand(data, d, i) ==
    IF d.code # "OK" THEN d
    ELSE IF ~Complete(data, d, 0) THEN Refuse(d, "InvalidRequest")
    ELSE LET byte == data[d.cursor + 1]
             kind == OperandKinds[byte]
             length == OperandLength[kind]
         IN IF byte \notin DOMAIN OperandKinds \/ ~Complete(data, d, length)
            THEN [Refuse(d, "InvalidRequest") EXCEPT !.config.operands[i] = Torn]
            ELSE [d EXCEPT !.cursor = @ + 1 + length,
                           !.config.operands[i] = OperandOf(kind, Fields(data, d, length))]

DecodeItem(data, d, i) ==
    IF d.code # "OK" THEN d
    ELSE IF ~Complete(data, d, 0) THEN Refuse(d, "InvalidRequest")
    ELSE LET byte == data[d.cursor + 1]
             kind == ItemKinds[byte]
             length == ItemLength[kind]
         IN IF byte \notin DOMAIN ItemKinds \/ ~Complete(data, d, length)
            THEN [Refuse(d, "InvalidRequest") EXCEPT !.config.items[i] = Torn]
            ELSE [d EXCEPT !.cursor = @ + 1 + length,
                           !.config.items[i] = ItemOf(kind, Fields(data, d, length))]

\* The sixteen bytes that come first.
DecodeHeader(data, config) ==
    [config EXCEPT !.decimation = Decode(SubSeq(data, 4, 5)),
                   !.probe_location = data[6],
                   !.timeout = Decode(SubSeq(data, 7, 10)),
                   !.condition = data[11],
                   !.hold_time = Decode(SubSeq(data, 12, 15)),
                   !.operand_count = data[16]]

DecodeOperands(data, config) ==
    LET header == DecodeHeader(data, config)
        start == [code |-> "OK", cursor |-> 16, config |-> header]
        decoded[i \in 0 .. header.operand_count] ==
            IF i = 0 THEN start ELSE DecodeOperand(data, decoded[i - 1], i)
    IN IF header.operand_count > MaxOperands THEN Refuse(start, "Overflow")
       ELSE decoded[header.operand_count]

DecodeItems(data, d) ==
    IF d.code # "OK" THEN d
    ELSE IF ~Complete(data, d, 0) THEN Refuse(d, "InvalidRequest")
    ELSE LET count == data[d.cursor + 1]
             start == [d EXCEPT !.cursor = @ + 1, !.config.items_count = count]
             decoded[i \in 0 .. count] ==
                 IF i = 0 THEN start ELSE DecodeItem(data, decoded[i - 1], i)
         IN IF count > MaxSignal THEN Refuse(start, "Overflow") ELSE decoded[count]

FaultyWholeRequest(data, d) == d
WholeRequest(data, d) ==
    IF d.code = "OK" /\ d.cursor # Len(data) THEN Refuse(d, "InvalidRequest") ELSE d

\* decode_datalogging_configure_request()
DecodeConfigure(data, config) ==
    IF Len(data) < 16 THEN [code |-> "InvalidRequest", cursor |-> 0, config |-> config]
    ELSE WholeRequest(data, DecodeItems(data, DecodeOperands(data, config)))

LoopIdOf(data) == data[1]
ConfigIdOf(data) == Decode(SubSeq(data, 2, 3))

-----------------------------------------------------------------------------
(* The checks of process_datalog_control().  A device is the configuration  *)
(* given to MainHandler::init().                                            *)

AddressModulus == Weight(AddressSize)

\* touches_forbidden_region()
TouchesForbidden(device, addr, length) ==
    \E r \in ToSet(device.forbidden) :
        addr <= r.end /\ (addr + length - 1) % AddressModulus >= r.start

RpvExists(device, id) == \E r \in ToSet(device.rpvs) : r.id = id
RpvReadable(device, id) == device.read_published_values /\ RpvExists(device, id)

OperandCode(device, o) ==
    CASE o.kind \in {"Var", "VarBit"} /\ TouchesForbidden(device, o.addr, TypeSize(o.datatype)) -> "Forbidden"
      [] o.kind = "Rpv" /\ ~RpvReadable(device, o.id) -> "FailureToProceed"
      [] OTHER -> "OK"
ItemCode(device, item) ==
    CASE item.kind = "Memory" /\ TouchesForbidden(device, item.addr, item.size) -> "Forbidden"
      [] item.kind = "Rpv" /\ ~RpvReadable(device, item.id) -> "FailureToProceed"
      [] OTHER -> "OK"

\* The code of the first element that is refused, or the code there was before.
FirstRefusal(codes, code) ==
    LET refused == {i \in DOMAIN codes : codes[i] # "OK"}
    IN IF refused = {} THEN code ELSE codes[Min(refused)]

\* Both loops run; the items have the last word.
ElementsCode(device, config) ==
    FirstRefusal([i \in 1 .. config.items_count |-> ItemCode(device, config.items[i])],
        FirstRefusal([i \in 1 .. config.operand_count |-> OperandCode(device, config.operands[i])], "OK"))

-----------------------------------------------------------------------------
(* DataLogger::configure() *)

\* CONDITION_CONFIG_LUT: how many operands each condition has.
ConditionOperands == [n \in 0 .. 8 |-> CASE n = 0 -> 0 [] n = 8 -> 3 [] n \in 1 .. 7 -> 2]

BiggestBits == 8 * BiggestType
FaultyValidOperand(device, o) ==
    CASE o.kind = "Literal" -> IsFinite(o.val)
      [] o.kind = "Rpv" -> RpvReadable(device, o.id)
      [] o.kind = "Var" -> IsSupportedType(o.datatype)
      [] o.kind = "VarBit" -> /\ o.bitoffset <= BiggestBits - 1 /\ o.bitsize <= BiggestBits
                              /\ IsSupportedType(o.datatype)
ValidOperand(device, o) ==
    CASE o.kind = "Literal" -> IsFinite(o.val)
      [] o.kind = "Rpv" -> RpvReadable(device, o.id)
      [] o.kind = "Var" -> IsSupportedType(o.datatype)
      [] o.kind = "VarBit" -> /\ o.bitoffset <= BiggestBits - 1 /\ o.bitsize <= BiggestBits
                              /\ IsSupportedType(o.datatype)
                              /\ o.bitoffset + o.bitsize <= 8 * TypeSize(o.datatype)
ValidItem(device, item) == item.kind = "Rpv" => RpvReadable(device, item.id)

ConfigValid(device, config) ==
    /\ config.items_count \in 1 .. MaxSignal
    /\ config.operand_count <= MaxOperands
    /\ config.condition \in DOMAIN ConditionOperands
    /\ config.operand_count = ConditionOperands[config.condition]
    /\ config.decimation # 0
    /\ \A i \in 1 .. config.operand_count : ValidOperand(device, config.operands[i])
    /\ \A i \in 1 .. config.items_count : ValidItem(device, config.items[i])

\* What the datalogger becomes: its object, and its state.
Outcome(code, config, state) == [code |-> code, config |-> config, state |-> state]

\* ConfigureDatalog, of a datalogger that has no owner.  Before configure() is called, a
\* refusal leaves the state of the datalogger as it was.
Configure(device, data, logger) ==
    LET decoded == DecodeConfigure(data, logger.config)
        config == decoded.config
        checks == ElementsCode(device, config)
    IN CASE decoded.code # "OK" -> Outcome(decoded.code, config, logger.state)
         [] decoded.code = "OK" /\ LoopIdOf(data) >= Len(device.loops) ->
                Outcome("FailureToProceed", config, logger.state)
         [] decoded.code = "OK" /\ LoopIdOf(data) < Len(device.loops) ->
                IF ~device.loops[LoopIdOf(data) + 1].datalogging THEN Outcome("Forbidden", config, logger.state)
                ELSE IF checks # "OK" THEN Outcome(checks, config, logger.state)
                ELSE IF ConfigValid(device, config) THEN Outcome("OK", config, "Configured")
                ELSE Outcome("InvalidRequest", config, "Error")
=============================================================================
