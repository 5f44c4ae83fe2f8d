------------------------------- MODULE Discovery -------------------------------
(***************************************************************************)
(* What a client learns of a device: the answers to GetInfo, to Discover,  *)
(* GetParams and Heartbeat of CommControl, to UserCommand, and to the      *)
(* requests of DataLogControl about the setup, the status and the metadata *)
(* of an acquisition.                                                      *)
(*                                                                         *)
(* A handler is the answer to the data of a request: a response code, and  *)
(* bytes.  device is the configuration given to MainHandler::init(), which *)
(* does not change afterwards.                                             *)
(***************************************************************************)
EXTENDS BinaryCodecs

\* Faulty variants (names starting with Faulty) are not part of the model: each is a slip
\* that the properties of Requests are sensitive to.

CONSTANTS
    ProtocolVersion,    \* <<major, minor>>
    SoftwareId,         \* bytes of scrutiny::software_id
    MaxDisplayName,     \* MAX_DISPLAY_NAME_LENGTH (64)
    MaxLoopName,        \* MAX_LOOP_NAME_LENGTH (32)
    MinTxBuffer,        \* MINIMUM_TX_BUFFER_SIZE (32)
    RxTimeout,          \* SCRUTINY_COMM_RX_TIMEOUT_US
    HeartbeatTimeout    \* SCRUTINY_COMM_HEARTBEAT_TIMEOUT_US

DiscoverMagic == <<126, 24, 252, 104>>
ConnectMagic == <<130, 144, 34, 102>>

Answer(code, bytes) == [code |-> code, data |-> bytes]

\* process_request(): an answer that is not OK has no data.
Refused(code) == Answer(code, <<>>)
OK(bytes) == Answer("OK", bytes)

\* What most encoders check of the transmit buffer of the device.
Fitted(device, bytes) ==
    IF Len(bytes) > MinTxBuffer /\ Len(bytes) > device.tx_buffer_size THEN Refused("Overflow") ELSE OK(bytes)
StrictlyFitted(device, bytes) ==
    IF Len(bytes) > device.tx_buffer_size THEN Refused("Overflow") ELSE OK(bytes)

\* strnlen(): names are sequences of characters.
Capped(name, length) == SubSeq(name, 1, IF Len(name) <= length THEN Len(name) ELSE length)
Flag(condition, bit) == IF condition THEN bit ELSE 0
-----------------------------------------------------------------------------
(* GetInfo *)

GetProtocolVersion(device) == Fitted(device, ProtocolVersion)
GetSoftwareId(device) == Fitted(device, SoftwareId)

\* is_datalogging_configured()
DataloggingConfigured(device) == device.datalogging_buffer > 0
HasLoopWithDatalogging(device) == \E i \in DOMAIN device.loops : device.loops[i].datalogging
UserCommandSet(device) == device.user_command # <<>>

EncodeFeatures(write, datalogging, user_command) ==
    <<Flag(write, 128) + Flag(datalogging, 64) + Flag(user_command, 32) + Flag(Supports64Bits, 16)>>
GetSupportedFeatures(device) ==
    Fitted(device, EncodeFeatures(device.memory_write,
                                  DataloggingConfigured(device) /\ HasLoopWithDatalogging(device),
                                  UserCommandSet(device)))

GetSpecialMemoryRegionCount(device) ==
    Fitted(device, <<Len(device.readonly) % 256, Len(device.forbidden) % 256>>)

EncodeRegion(type, index, range) ==
    <<type, index>> \o EncodeAddress(range.start) \o EncodeAddress(range.end)

\* An array that is not set has no range.
FaultyGetSpecialMemoryLocation(device, data) ==
    IF Len(data) # 2 \/ data[1] \notin {0, 1} THEN Refused("InvalidRequest")
    ELSE LET ranges == device.readonly
         IN IF data[2] >= Len(ranges) THEN Refused("FailureToProceed")
            ELSE Fitted(device, EncodeRegion(data[1], data[2], ranges[data[2] + 1]))
GetSpecialMemoryLocation(device, data) ==
    IF Len(data) # 2 \/ data[1] \notin {0, 1} THEN Refused("InvalidRequest")
    ELSE LET ranges == IF data[1] = 0 THEN device.readonly ELSE device.forbidden
         IN IF data[2] >= Len(ranges) THEN Refused("FailureToProceed")
            ELSE Fitted(device, EncodeRegion(data[1], data[2], ranges[data[2] + 1]))

GetRpvCount(device) == Fitted(device, Encode(Len(device.rpvs), 2))

\* GetRPVDefinitionResponseEncoder::write(); a native bool is given its size.
FaultyEncodeRpv(rpv) == Encode(rpv.id, 2) \o <<rpv.type>>
EncodeRpv(rpv) ==
    Encode(rpv.id, 2) \o <<IF rpv.type = NativeBoolean THEN PlatformBoolean ELSE rpv.type>>

\* The encoder stops at the definition that does not fit, which refuses them all.
GetRpvDefinition(device, data) ==
    IF Len(data) # 4 THEN Refused("InvalidRequest")
    ELSE LET start == Decode(SubSeq(data, 1, 2))
             count == Decode(SubSeq(data, 3, 4))
             rpvs == SubSeq(device.rpvs, start + 1, start + count)
         IN IF start >= Len(device.rpvs) \/ start + count > Len(device.rpvs)
            THEN Refused("FailureToProceed")
            ELSE StrictlyFitted(device, FlattenSeq([i \in 1 .. Len(rpvs) |-> EncodeRpv(rpvs[i])]))

GetLoopCount(device) == Fitted(device, <<Len(device.loops)>>)

\* The timestep of a loop of fixed frequency comes between the attributes and the name.
EncodeLoop(id, loop) ==
    LET name == Capped(loop.name, MaxLoopName)
        step == IF loop.timestep > 0 THEN Encode(loop.timestep, 4) ELSE <<>>
    IN <<id, IF loop.timestep > 0 THEN 0 ELSE 1, Flag(loop.datalogging, 128)>>
       \o step \o <<Len(name)>> \o name

\* The outcome of the decoding is not looked at: for a request of another length,
\* loop_id is what the stack held.
LoopIds(data) == IF Len(data) = 1 THEN {data[1]} ELSE Byte
GetLoopDefinition(device, data) ==
    {IF id >= Len(device.loops) THEN Refused("FailureToProceed")
     ELSE StrictlyFitted(device, EncodeLoop(id, device.loops[id + 1])) : id \in LoopIds(data)}

-----------------------------------------------------------------------------
(* CommControl *)

EncodeDiscover(name) == ProtocolVersion \o SoftwareId \o <<Len(name)>> \o name
Discover(device, data) ==
    IF data # DiscoverMagic THEN Refused("InvalidRequest")
    ELSE Fitted(device, EncodeDiscover(Capped(device.display_name, MaxDisplayName)))

EncodeParams(device) ==
    Encode(device.rx_buffer_size, 2) \o Encode(device.tx_buffer_size, 2) \o Encode(device.max_bitrate, 4)
    \o Encode(HeartbeatTimeout, 4) \o Encode(RxTimeout, 4) \o <<AddressSize, 8>>
GetParams(device) == Fitted(device, EncodeParams(device))

\* heartbeat() of CommHandler refuses a challenge that repeats; challenge is the last one,
\* -1 before the first.
Heartbeat(device, data, session, challenge) ==
    LET received == Decode(SubSeq(data, 5, 6))
    IN IF Len(data) # 6 \/ Decode(SubSeq(data, 1, 4)) # session \/ received = challenge
       THEN Refused("InvalidRequest")
       ELSE Fitted(device, Encode(session, 4) \o Encode(65535 - received, 2))

\* The magic of Connect is copied and not compared.
Connect(device, data, connected, session) ==
    IF Len(data) # 4 THEN Refused("InvalidRequest")
    ELSE IF connected THEN Refused("Busy")
    ELSE Fitted(device, ConnectMagic \o Encode(session, 4))

Disconnect(data, session) ==
    IF Len(data) # 4 \/ Decode(data) # session THEN Refused("InvalidRequest") ELSE OK(<<>>)

-----------------------------------------------------------------------------
(* UserCommand: the answer of the callback, a sequence that holds its bytes. *)

UserCommand(device) ==
    IF ~UserCommandSet(device) THEN Refused("UnsupportedFeature")
    ELSE StrictlyFitted(device, device.user_command[1])

-----------------------------------------------------------------------------
(* DataLogControl *)

WhenDatalogging(device, answer) ==
    IF DataloggingConfigured(device) THEN answer ELSE Refused("UnsupportedFeature")

EncodeSetup(device, max_signal) == Encode(device.datalogging_buffer, 4) \o <<0, max_signal>>
GetSetup(device, max_signal) ==
    WhenDatalogging(device, Fitted(device, EncodeSetup(device, max_signal)))

EncodeStatus(s) == <<s.state>> \o Encode(s.bytes_to_acquire, 4) \o Encode(s.write_counter, 4)
GetStatus(device, status) == WhenDatalogging(device, Fitted(device, EncodeStatus(status)))

EncodeMetadata(a) ==
    Encode(a.acquisition_id, 2) \o Encode(a.config_id, 2) \o Encode(a.points, 4)
    \o Encode(a.data_size, 4) \o Encode(a.points_after_trigger, 4)
\* acquisition holds the acquisition that is available, if one is.
GetAcquisitionMetadata(device, acquisition) ==
    WhenDatalogging(device, IF acquisition = <<>> THEN Refused("FailureToProceed")
                            ELSE Fitted(device, EncodeMetadata(acquisition[1])))
=============================================================================
