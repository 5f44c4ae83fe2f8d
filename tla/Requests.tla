-------------------------------- MODULE Requests --------------------------------
(***************************************************************************)
(* A client and the handlers of MainHandler, one request and its answer at *)
(* a time: it connects, learns what the device is, enumerates its          *)
(* published values by chunks, and configures the datalogger, with         *)
(* requests that are also truncated, extended or out of range.             *)
(*                                                                         *)
(* How requests travel, time out and wait for a loop is in CommSession,    *)
(* FrameReception and DatalogOwnership: here an exchange is a step.  What  *)
(* a client learns and what it configures do not meet in the handlers: a   *)
(* bound of the model is that a client does one or the other.              *)
(***************************************************************************)
EXTENDS Discovery, ConfigureRequest

CONSTANTS
    Devices,        \* configurations given to init()
    Configurations, \* what a client may ask the datalogger: [loop_id, config_id, config]
    Statuses,       \* what the datalogger may publish
    Acquisitions,   \* acquisitions that may be available, and <<>>
    Challenges,     \* of heartbeats
    MaxSessions,    \* bound: sessions opened
    MaxConfigures   \* bound: configurations asked for

VARIABLES
    device,
    client,     \* what the client wants of the device: "learns" or "configures"
    session,    \* m_session_id, 0 when no session is active
    opened,     \* sessions opened so far
    challenge,  \* last challenge of a heartbeat, -1 before the first
    configures, \* configurations asked for so far
    logger,     \* config() and state of the datalogger
    handed,     \* the configuration was accepted and given to a loop
    exchange,   \* history: last request, and its answer
    found       \* history: published values enumerated by the client

vars == <<device, client, session, opened, challenge, configures, logger, handed, exchange, found>>

\* check_config(): a device whose MainHandler is enabled.
ValidDevice(d) ==
    /\ d.tx_buffer_size >= MinTxBuffer /\ d.rx_buffer_size > 0
    /\ \A i \in DOMAIN d.rpvs : IsSupportedType(d.rpvs[i].type)

\* The types of the code: counts, sizes, identifiers and timesteps have 8, 16 or 32 bits,
\* ranges are pairs of pointers.
Word16 == {n \in Nat : n < 65536}
Word32 == {n \in Nat : n \div 65536 < 65536}
Addresses == {a \in Nat : a < AddressModulus}
Ranges == [start : Addresses, end : Addresses]
WellTyped(d) ==
    /\ {d.rx_buffer_size, d.tx_buffer_size} \subseteq Word16
    /\ {d.max_bitrate, d.datalogging_buffer} \subseteq Word32
    /\ {d.memory_write, d.read_published_values} \subseteq BOOLEAN
    /\ {d.readonly, d.forbidden} \subseteq Seq(Ranges)
    /\ {Len(d.readonly), Len(d.forbidden), Len(d.loops)} \subseteq Byte
    /\ d.rpvs \in Seq([id : Word16, type : Byte]) /\ Len(d.rpvs) \in Word16
    /\ d.loops \in Seq([name : Seq(Byte), timestep : Word32, datalogging : BOOLEAN])
    /\ d.display_name \in Seq(Byte) /\ d.user_command \in Seq(Seq(Byte))
ASSUME DevicesAssumption == \A d \in Devices : ValidDevice(d) /\ WellTyped(d)

ASSUME IdentityAssumption ==
    /\ ProtocolVersion \in Seq(Byte) /\ Len(ProtocolVersion) = 2 /\ SoftwareId \in Seq(Byte)
    /\ {MaxDisplayName, MaxLoopName, MinTxBuffer} \subseteq Byte
    /\ {RxTimeout, HeartbeatTimeout, MaxSessions} \subseteq Word32

\* What the server and the datalogger hand to the handlers.
ASSUME InputsAssumption ==
    /\ Challenges \subseteq Word16
    /\ Statuses \subseteq [state : Byte, bytes_to_acquire : Word32, write_counter : Word32]
    /\ Acquisitions \subseteq Seq([acquisition_id : Word16, config_id : Word16, points : Word32,
                               data_size : Word32, points_after_trigger : Word32])
    /\ \A a \in Acquisitions : Len(a) \in {0, 1}
    /\ \A r \in Configurations :
          /\ r.loop_id \in Byte /\ r.config_id \in Nat
          /\ r.config \in [decimation : Nat, probe_location : Byte, timeout : Nat, condition : Byte,
                           hold_time : Nat, operand_count : Byte, operands : Seq(OperandRecords),
                           items_count : Byte, items : Seq(ItemRecords)]
          /\ r.config.operand_count = Len(r.config.operands) /\ r.config.items_count = Len(r.config.items)

NoExchange == [kind |-> "None", data |-> <<>>, answer |-> Refused("None")]
Exchanged(kind, data, answer) == exchange' = [kind |-> kind, data |-> data, answer |-> answer]

Init ==
    /\ device \in Devices /\ client \in {"learns", "configures"}
    /\ session = 0 /\ opened = 0 /\ challenge = -1 /\ configures = 0
    /\ logger = [config |-> ClearedConfig, state |-> "Idle"]
    /\ handed = FALSE /\ exchange = NoExchange /\ found = <<>>

Connected == session # 0
Learning == Connected /\ client = "learns"
Unchanged == UNCHANGED <<device, client, session, opened, challenge, configures, logger, handed, found>>

\* Requests as a client that makes mistakes builds them.
Mangled(data) ==
    {data, data \o <<0>>, SubSeq(data, 1, Len(data) - 1)}

AskDiscover ==
    \E data \in Mangled(DiscoverMagic) \union {ConnectMagic} :
        Exchanged("Discover", data, Discover(device, data)) /\ Unchanged

AskConnect ==
    \E data \in Mangled(ConnectMagic) \union {DiscoverMagic} :
        LET answer == Connect(device, data, Connected, opened + 1)
        IN /\ answer.code = "OK" => opened < MaxSessions
           /\ Exchanged("Connect", data, answer)
           /\ IF answer.code = "OK"
              THEN session' = opened + 1 /\ opened' = opened + 1 /\ challenge' = -1 /\ found' = <<>>
              ELSE UNCHANGED <<session, opened, challenge, found>>
           /\ UNCHANGED <<device, client, configures, logger, handed>>

\* The session ends once the answer is sent.
AskDisconnect ==
    /\ Connected
    /\ \E id \in 1 .. opened, extra \in {<<>>, <<0>>} :
          LET data == Encode(id, 4) \o extra
              answer == Disconnect(data, session)
          IN /\ Exchanged("Disconnect", data, answer)
             /\ session' = IF answer.code = "OK" THEN 0 ELSE session
             /\ challenge' = IF answer.code = "OK" THEN -1 ELSE challenge
    /\ UNCHANGED <<device, client, opened, configures, logger, handed, found>>

AskHeartbeat ==
    /\ Learning
    /\ \E id \in 1 .. opened, c \in Challenges, extra \in {<<>>, <<0>>} :
          LET data == Encode(id, 4) \o Encode(c, 2) \o extra
              answer == Heartbeat(device, data, session, challenge)
          IN /\ Exchanged("Heartbeat", data, answer)
             /\ challenge' = IF answer.code = "OK" THEN c ELSE challenge
    /\ UNCHANGED <<device, client, session, opened, configures, logger, handed, found>>

\* Requests that have no data.
Asks(kind, answer) == Learning /\ Exchanged(kind, <<>>, answer) /\ Unchanged

AskAbout ==
    \/ Asks("ProtocolVersion", GetProtocolVersion(device))
    \/ Asks("SoftwareId", GetSoftwareId(device))
    \/ Asks("Features", GetSupportedFeatures(device))
    \/ Asks("RegionCount", GetSpecialMemoryRegionCount(device))
    \/ Asks("RpvCount", GetRpvCount(device))
    \/ Asks("LoopCount", GetLoopCount(device))
    \/ Asks("Params", GetParams(device))
    \/ Asks("UserCommand", UserCommand(device))
    \/ Asks("Setup", GetSetup(device, MaxSignal))

AskStatus ==
    \E s \in Statuses : Asks("Status", GetStatus(device, s))
AskMetadata ==
    \E a \in Acquisitions : Asks("Metadata", GetAcquisitionMetadata(device, a))

AskRegion ==
    /\ Learning
    /\ \E type \in 0 .. 2, index \in 0 .. 2 : \E data \in Mangled(<<type, index>>) :
          Exchanged("Region", data, GetSpecialMemoryLocation(device, data))
    /\ Unchanged

AskLoop ==
    /\ Learning
    /\ \E id \in 0 .. 2 : \E data \in Mangled(<<id>>) :
       \E answer \in GetLoopDefinition(device, data) : Exchanged("Loop", data, answer)
    /\ Unchanged

\* Published values as a client reads them.
Read16(bytes, i) == 256 * bytes[i] + bytes[i + 1]
ReadRpvs(bytes) ==
    [i \in 1 .. Len(bytes) \div 3 |-> [id |-> Read16(bytes, 3 * i - 2), type |-> bytes[3 * i]]]

\* The client keeps the definitions that follow those it has.
AskRpvs ==
    /\ Learning
    /\ \E start \in {0, Len(found), Len(device.rpvs)}, count \in 0 .. Len(device.rpvs) + 1 :
       \E data \in Mangled(Encode(start, 2) \o Encode(count, 2)) :
          LET answer == GetRpvDefinition(device, data)
          IN /\ Exchanged("Rpvs", data, answer)
             /\ found' = IF answer.code = "OK" /\ start = Len(found) THEN found \o ReadRpvs(answer.data) ELSE found
    /\ UNCHANGED <<device, client, session, opened, challenge, configures, logger, handed>>

-----------------------------------------------------------------------------
(* ConfigureDatalog *)

EncodeOperand(o) ==
    CASE o.kind = "Literal" -> <<0>> \o Encode(o.val, 4)
      [] o.kind = "Var" -> <<1, o.datatype>> \o EncodeAddress(o.addr)
      [] o.kind = "VarBit" -> <<2, o.datatype>> \o EncodeAddress(o.addr) \o <<o.bitoffset, o.bitsize>>
      [] o.kind = "Rpv" -> <<3>> \o Encode(o.id, 2)
EncodeItem(item) ==
    CASE item.kind = "Memory" -> <<0>> \o EncodeAddress(item.addr) \o <<item.size>>
      [] item.kind = "Rpv" -> <<1>> \o Encode(item.id, 2)
      [] item.kind = "Time" -> <<2>>

\* The request for a configuration, as a client writes it.
EncodeConfigure(loop_id, config_id, c) ==
    <<loop_id>> \o Encode(config_id, 2) \o Encode(c.decimation, 2) \o <<c.probe_location>>
    \o Encode(c.timeout, 4) \o <<c.condition>> \o Encode(c.hold_time, 4) \o <<c.operand_count>>
    \o FlattenSeq([i \in 1 .. c.operand_count |-> EncodeOperand(c.operands[i])])
    \o <<c.items_count>> \o FlattenSeq([i \in 1 .. c.items_count |-> EncodeItem(c.items[i])])

AskConfigure ==
    /\ Connected /\ client = "configures"
    /\ configures < MaxConfigures /\ configures' = configures + 1
    /\ \E r \in Configurations :
       \E data \in Mangled(EncodeConfigure(r.loop_id, r.config_id, r.config)) :
          IF ~DataloggingConfigured(device)
          THEN Exchanged("Configure", data, Refused("UnsupportedFeature")) /\ UNCHANGED <<logger, handed>>
          ELSE LET outcome == Configure(device, data, logger)
               IN /\ Exchanged("Configure", data, Refused(outcome.code))
                  /\ logger' = [config |-> outcome.config, state |-> outcome.state]
                  /\ handed' = (outcome.code = "OK")
    /\ UNCHANGED <<device, client, session, opened, challenge, found>>

Next ==
    \/ AskDiscover \/ AskConnect \/ AskDisconnect \/ AskHeartbeat
    \/ AskAbout \/ AskStatus \/ AskMetadata
    \/ AskRegion \/ AskLoop \/ AskRpvs
    \/ AskConfigure

Spec == Init /\ [][Next]_vars

-----------------------------------------------------------------------------
(* Properties *)

\* An answer as a client reads it: fields of 1, 2 and 4 bytes, addresses, and names.
Bytes == exchange.answer.data
U8(i) == Bytes[i]
U16(i) == Read16(Bytes, i)
U32(i) == 65536 * U16(i) + U16(i + 2)
Address(i) ==
    LET number[n \in 0 .. AddressSize] == IF n = 0 THEN 0 ELSE 256 * number[n - 1] + Bytes[i + n - 1]
    IN number[AddressSize]
From(i) == SubSeq(Bytes, i, Len(Bytes))

\* A native boolean is published with the size it has.
AsPublished(rpv) == [id |-> rpv.id, type |-> IF rpv.type = NativeBoolean THEN PlatformBoolean ELSE rpv.type]
IsCapOf(name, whole, limit) == IsPrefix(name, whole) /\ (name = whole \/ Len(name) = limit)

RegionTold ==
    LET ranges == IF U8(1) = 0 THEN device.readonly ELSE device.forbidden
    IN /\ <<U8(1), U8(2)>> = exchange.data
       /\ Len(Bytes) = 2 + 2 * AddressSize
       /\ U8(2) < Len(ranges)
       /\ ranges[U8(2) + 1] = [start |-> Address(3), end |-> Address(3 + AddressSize)]
LoopTold ==
    LET loop == device.loops[U8(1) + 1]
        at == IF U8(2) = 0 THEN 8 ELSE 4
    IN /\ U8(1) < Len(device.loops)
       /\ Len(exchange.data) = 1 => U8(1) = exchange.data[1]
       /\ (U8(2) = 0) = (loop.timestep > 0)
       /\ U8(2) = 0 => U32(4) = loop.timestep
       /\ (U8(3) = 128) = loop.datalogging
       /\ U8(at) = Len(From(at + 1))
       /\ IsCapOf(From(at + 1), loop.name, MaxLoopName)
DiscoverTold ==
    /\ SubSeq(Bytes, 1, 2) = ProtocolVersion
    /\ SubSeq(Bytes, 3, 2 + Len(SoftwareId)) = SoftwareId
    /\ LET at == 3 + Len(SoftwareId)
       IN /\ U8(at) = Len(From(at + 1))
          /\ IsCapOf(From(at + 1), device.display_name, MaxDisplayName)
FeaturesTold ==
    /\ (U8(1) \div 128 = 1) = device.memory_write
    /\ ((U8(1) \div 64) % 2 = 1) =
           (device.datalogging_buffer > 0 /\ \E loop \in ToSet(device.loops) : loop.datalogging)
    /\ ((U8(1) \div 32) % 2 = 1) = (device.user_command # <<>>)
    /\ ((U8(1) \div 16) % 2 = 1) = Supports64Bits

Told ==
    CASE exchange.kind = "Region" -> RegionTold
      [] exchange.kind = "Loop" -> LoopTold
      [] exchange.kind = "Discover" -> DiscoverTold
      [] exchange.kind = "Features" -> FeaturesTold
      [] exchange.kind = "RegionCount" -> Bytes = <<Len(device.readonly), Len(device.forbidden)>>
      [] exchange.kind = "RpvCount" -> U16(1) = Len(device.rpvs)
      [] exchange.kind = "LoopCount" -> Bytes = <<Len(device.loops)>>
      [] exchange.kind = "Params" ->
            /\ <<U16(1), U16(3), U32(5), U32(9), U32(13)>> =
                  <<device.rx_buffer_size, device.tx_buffer_size, device.max_bitrate, HeartbeatTimeout, RxTimeout>>
            /\ Len(Bytes) = 18 /\ U8(17) = AddressSize
      [] exchange.kind = "Heartbeat" ->
            U32(1) = session /\ U16(5) + Read16(exchange.data, 5) = 65535
      [] exchange.kind = "Connect" -> SubSeq(Bytes, 1, 4) = ConnectMagic /\ U32(5) = session
      [] exchange.kind = "Setup" -> U32(1) = device.datalogging_buffer /\ U8(6) = MaxSignal
      [] exchange.kind = "Status" ->
            [state |-> U8(1), bytes_to_acquire |-> U32(2), write_counter |-> U32(6)] \in Statuses
      [] exchange.kind = "Metadata" ->
            <<[acquisition_id |-> U16(1), config_id |-> U16(3), points |-> U32(5), data_size |-> U32(9),
               points_after_trigger |-> U32(13)]>> \in Acquisitions
      [] OTHER -> TRUE

\* An answer fits the transmit buffer, and a client that reads it with the layout the
\* server documents finds what the device is: its regions, its loops whatever the length
\* of their names, its sizes and identifiers.  Nothing is said with a refusal.
AnswersTellDevice ==
    IF exchange.answer.code = "OK" THEN Len(Bytes) <= device.tx_buffer_size /\ Told ELSE Bytes = <<>>

\* A client that asks for the published values chunk after chunk holds the first of them
\* in order, and a chunk that exists and fits the transmit buffer is not refused.
EnumerationComplete ==
    /\ Len(found) <= Len(device.rpvs)
    /\ \A i \in DOMAIN found : found[i] = AsPublished(device.rpvs[i])
    /\ exchange.kind = "Rpvs" /\ Len(exchange.data) = 4 =>
        LET start == Read16(exchange.data, 1)
            count == Read16(exchange.data, 3)
        IN (start < Len(device.rpvs) /\ start + count <= Len(device.rpvs)
            /\ 3 * count <= device.tx_buffer_size) = (exchange.answer.code = "OK")

Accepted == exchange.kind = "Configure" /\ exchange.answer.code = "OK"

\* A configuration is accepted only from a request that is its encoding, to the byte:
\* none is cut, none has bytes left, and nothing of the object remains from the requests
\* refused before.
AcceptedAsSent ==
    Accepted =>
        /\ logger.state = "Configured"
        /\ logger.config.operand_count \in 0 .. MaxOperands /\ logger.config.items_count \in 1 .. MaxSignal
        /\ EncodeConfigure(exchange.data[1], Read16(exchange.data, 2), logger.config) = exchange.data

\* The addresses a trigger or an entry reads for an element.
CharsRead(e) ==
    CASE e.kind = "Memory" -> e.addr .. e.addr + e.size - 1
      [] e.kind = "Var" -> e.addr .. e.addr + TypeSize(e.datatype) - 1
      [] e.kind = "VarBit" /\ e.bitsize > 0 ->
            LET chars == (e.bitoffset + e.bitsize - 1) \div 8 + 1
            IN e.addr .. e.addr + (CHOOSE n \in {1, 2, 4, 8, 16, 32, 64} : chars <= n /\ n < 2 * chars) - 1
      [] OTHER -> {}
ForbiddenAddresses == UNION {r.start .. r.end : r \in ToSet(device.forbidden)}
UsedElements ==
    {logger.config.operands[i] : i \in 1 .. logger.config.operand_count}
    \union {logger.config.items[i] : i \in 1 .. logger.config.items_count}

\* The chars of an element, which belong to the address space.
CharsOf(e) ==
    CASE e.kind = "Memory" -> e.addr .. e.addr + e.size - 1
      [] e.kind \in {"Var", "VarBit"} -> e.addr .. e.addr + TypeSize(e.datatype) - 1
      [] OTHER -> {}
InAddressSpace(e) == CharsOf(e) \subseteq 0 .. AddressModulus - 1

\* What a loop is given to execute reads no forbidden address of an element of the address
\* space, with the width a bitfield is fetched with, and only published values that exist
\* and can be read.
AcceptedIsSafe ==
    handed => \A e \in UsedElements :
        /\ InAddressSpace(e) => CharsRead(e) \intersect ForbiddenAddresses = {}
        /\ e.kind = "Rpv" => device.read_published_values /\ \E r \in ToSet(device.rpvs) : r.id = e.id
=============================================================================
