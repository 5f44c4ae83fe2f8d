---------------------------- MODULE FrameReception ----------------------------
(***************************************************************************)
(* The CommHandler byte by byte.  Requests: a stream of bytes is given to  *)
(* receive_data() in chunks cut anywhere; each turn of its loop is a step. *)
(* Responses: send_response() and pop_data(), which hands the bytes of the *)
(* response out in chunks cut anywhere.  The session and the execution of  *)
(* the requests are those of CommSession, reduced here to when they touch  *)
(* the link.                                                               *)
(***************************************************************************)
EXTENDS Timebase, Integers, Sequences, Crc32

CONSTANTS
    RxBufferSize, TxBufferSize,
    RxTimeout,      \* SCRUTINY_COMM_RX_TIMEOUT_US
    Timesteps,      \* given to process()
    ChunkSizes,     \* sizes of the chunks given to receive_data(), when there is that much
    PopSizes,       \* sizes asked of pop_data()
    Bursts,         \* what the server may send at once: sequences of wire bytes
    Responses       \* the responses MainHandler may give

Byte == 0 .. 255

\* A request as the device holds it; command 128 does not exist.
NoRequest == [command |-> 128, subfunction |-> 0, data |-> <<>>]

Requests == [command : 0 .. 127, subfunction : Byte, data : Seq(Byte)]

\* A byte on the wire carries, for the properties, the request whose frame it ends.
WireByte(b, r) == [value |-> b, ends |-> r]

CommControl == 2
Discover == 1
ConnectFunction == 4
DiscoverMagic == <<\h7E, \h18, \hFC, \h68>>

WireBytes == [value : Byte, ends : Requests \union {NoRequest}]
Answers == [command : 0 .. 127, subfunction : Byte, code : Byte, data : Seq(Byte)]

ASSUME ChunksAssumption ==
    ChunkSizes \subseteq Nat \ {0} /\ PopSizes \subseteq Nat \ {0}
ASSUME BuffersAssumption ==
    /\ RxBufferSize \in Nat /\ RxBufferSize < 65536
    /\ TxBufferSize \in Nat /\ TxBufferSize < 65536
ASSUME TimesAssumption == RxTimeout \in Nat \ {0} /\ Timesteps \subseteq Nat \ {0}
ASSUME BurstsAssumption == Bursts \subseteq Seq(WireBytes)
ASSUME ResponsesAssumption == Responses \subseteq Answers

VARIABLES
    now,
    last_rx_timestamp,
    state,              \* m_state
    session_active,
    rx,                 \* the reception: m_rx_state, m_active_request, m_crc, the union of counters
    rx_buffer,          \* its RxBufferSize bytes
    tx,                 \* the transmission: m_active_response, its CRC, the two counters
    chunk,              \* what receive_data() has yet to look at
    wire,               \* bytes sent by the server, not yet given to receive_data()
    taken,              \* history: bytes that were read since m_rx_state left WaitForCommand
    silence,            \* history: time since the last chunk, up to ClockModulus
    fresh,              \* history: the burst in progress came after a silence, without a gap
    burst,              \* history: that burst, or one that waits on the wire
    popped              \* history: the bytes of the response handed out

receiver == <<last_rx_timestamp, state, rx, rx_buffer, taken>>
histories == <<silence, fresh, burst>>
vars == <<now, receiver, session_active, tx, chunk, wire, histories, popped>>

-----------------------------------------------------------------------------
Values(bytes) == [k \in 1 .. Len(bytes) |-> bytes[k].value]

\* The request in m_active_request, whose data is in the buffer.
ActiveRequest ==
    [command |-> rx.command, subfunction |-> rx.subfunction,
     data |-> [k \in 1 .. rx.data_length |-> rx_buffer[k - 1]]]

NoReception == [state |-> "WaitForCommand", command |-> 0, subfunction |-> 0, data_length |-> 0,
                count |-> 0, m_crc |-> {}, crc |-> <<0, 0, 0, 0>>, request_received |-> FALSE]
NoAnswer == [response |-> <<>>, bytes |-> <<>>]
NoTransmission == [response |-> <<>>, crc |-> {}, nbytes_to_send |-> 0, nbytes_sent |-> 0]

\* reset_rx(), but for the state of the link: Receiving becomes Idle.
ResetRx ==
    /\ rx' = NoReception
    /\ last_rx_timestamp' = now
    /\ taken' = <<>>

Init ==
    /\ now = 0 /\ last_rx_timestamp = 0
    /\ state = "Idle" /\ session_active = FALSE
    /\ rx = NoReception /\ rx_buffer = [k \in 0 .. RxBufferSize - 1 |-> 0]
    /\ tx = NoTransmission
    /\ chunk = <<>> /\ wire = <<>>
    /\ taken = <<>> /\ silence = 0 /\ fresh = FALSE /\ burst = <<>> /\ popped = NoAnswer

\* receive_data() has returned: the thread may do something else.
Returned == chunk = <<>>

\* The server sends, when what it had sent was delivered.
SendBurst(b) ==
    /\ Returned /\ wire = <<>>
    /\ wire' = b /\ burst' = b /\ fresh' = FALSE
    /\ popped' = IF state = "Transmitting" THEN popped ELSE NoAnswer
    /\ UNCHANGED <<now, receiver, session_active, tx, chunk, silence>>

-----------------------------------------------------------------------------
(* receive_data() *)

\* Faulty variants (names starting with Faulty) are not part of the model: each is a slip
\* that the properties are sensitive to.
FaultyReceptionExpired == HasExpired(now, last_rx_timestamp, RxTimeout + 1)
ReceptionExpired == HasExpired(now, last_rx_timestamp, RxTimeout)

\* The call, up to its loop.  A half-duplex link discards what comes while it transmits.
ReceiveData(n) ==
    /\ Returned /\ n \in 1 .. Len(wire)
    /\ wire' = SubSeq(wire, n + 1, Len(wire))
    /\ IF state = "Transmitting"
       THEN UNCHANGED <<receiver, chunk>>
       ELSE /\ chunk' = SubSeq(wire, 1, n)
            /\ last_rx_timestamp' = now
            /\ state' = IF ReceptionExpired \/ state = "Idle" THEN "Receiving" ELSE state
            /\ IF ReceptionExpired THEN rx' = NoReception /\ taken' = <<>> ELSE UNCHANGED <<rx, taken>>
            /\ UNCHANGED rx_buffer
    /\ silence' = 0
    /\ fresh' = /\ state # "Transmitting"
                /\ IF wire = burst THEN silence \in RxTimeout .. ClockModulus - 1
                                   ELSE fresh /\ silence < RxTimeout
    /\ burst' = IF fresh' THEN burst ELSE <<>>
    /\ UNCHANGED <<now, session_active, tx, popped>>

Reading(s) == chunk # <<>> /\ ~rx.request_received /\ rx.state = s

\* The n next bytes were read.
Take(n) ==
    /\ chunk' = SubSeq(chunk, n + 1, Len(chunk))
    /\ taken' = taken \o Values(SubSeq(chunk, 1, n))

Outside == UNCHANGED <<now, session_active, tx, wire, histories, popped>>
BufferKept == UNCHANGED <<last_rx_timestamp, state, rx_buffer>>

CrcOf(n) == Crc(Values(SubSeq(chunk, 1, n)), rx.m_crc)

ReadCommand ==
    /\ Reading("WaitForCommand")
    /\ IF chunk[1].value >= 128
       THEN rx' = [rx EXCEPT !.state = "Error", !.m_crc = {}] /\ UNCHANGED <<chunk, taken>>
       ELSE /\ rx' = [rx EXCEPT !.state = "WaitForSubfunction", !.command = chunk[1].value,
                                !.m_crc = Crc(<<chunk[1].value>>, {})]
            /\ Take(1)
    /\ BufferKept /\ Outside

ReadSubfunction ==
    /\ Reading("WaitForSubfunction")
    /\ rx' = [rx EXCEPT !.state = "WaitForLength", !.subfunction = chunk[1].value,
                        !.m_crc = CrcOf(1), !.count = 0]
    /\ Take(1) /\ BufferKept /\ Outside

\* The state once both bytes of the length are known.
LengthRead(r, length) ==
    [r EXCEPT !.data_length = length, !.state = IF length = 0 THEN "WaitForCRC" ELSE "WaitForData",
              !.count = 0]

\* Both bytes of the length at once, the first one alone, then the second one.
FaultySecondLengthByte == chunk[1].value
SecondLengthByte == rx.data_length + chunk[1].value

ReadLength ==
    /\ Reading("WaitForLength")
    /\ \/ /\ rx.count = 0 /\ Len(chunk) >= 2
          /\ rx' = LengthRead([rx EXCEPT !.m_crc = CrcOf(2)], 256 * chunk[1].value + chunk[2].value)
          /\ Take(2)
       \/ /\ rx.count = 0 /\ Len(chunk) = 1
          /\ rx' = [rx EXCEPT !.data_length = 256 * chunk[1].value, !.m_crc = CrcOf(1), !.count = 1]
          /\ Take(1)
       \/ /\ rx.count # 0
          /\ rx' = LengthRead([rx EXCEPT !.m_crc = CrcOf(1)], SecondLengthByte)
          /\ Take(1)
    /\ BufferKept /\ Outside

TooLong(length) == length > RxBufferSize

ReadData ==
    /\ Reading("WaitForData")
    /\ IF TooLong(rx.data_length)
       THEN rx' = [rx EXCEPT !.state = "Error"] /\ UNCHANGED <<chunk, taken, rx_buffer>>
       ELSE LET missing == rx.data_length - rx.count
                n == IF Len(chunk) >= missing THEN missing ELSE Len(chunk)
            IN /\ rx_buffer' = [k \in DOMAIN rx_buffer |->
                                   IF k \in rx.count .. rx.count + n - 1
                                   THEN chunk[k - rx.count + 1].value ELSE rx_buffer[k]]
               /\ rx' = [rx EXCEPT !.m_crc = CrcOf(n),
                                   !.count = IF n = missing THEN 0 ELSE rx.count + n,
                                   !.state = IF n = missing THEN "WaitForCRC" ELSE "WaitForData"]
               /\ Take(n)
    /\ UNCHANGED <<last_rx_timestamp, state>> /\ Outside

\* received_discover_request() and received_connect_request()
AcceptedWithoutSession(r) ==
    /\ r.command = CommControl
    /\ \/ r.subfunction = Discover /\ Len(r.data) >= 4 /\ SubSeq(r.data, 1, 4) = DiscoverMagic
       \/ r.subfunction = ConnectFunction

FaultyCrcMatches(received) == TRUE
\* The CRC just completed is the one computed.
CrcMatches(received) == received = WordBytes(rx.m_crc)

\* One byte of the CRC; the fourth one ends the frame: process_active_request() or reset_rx().
ReadCrc ==
    /\ Reading("WaitForCRC")
    /\ chunk' = Tail(chunk)
    /\ LET received == Append(Tail(rx.crc), chunk[1].value) IN
         IF rx.count < 3
         THEN /\ rx' = [rx EXCEPT !.crc = received, !.count = rx.count + 1]
              /\ taken' = Append(taken, chunk[1].value)
              /\ UNCHANGED <<last_rx_timestamp, state>>
         ELSE IF CrcMatches(received) /\ (session_active \/ AcceptedWithoutSession(ActiveRequest))
              THEN /\ rx' = [rx EXCEPT !.crc = received, !.count = 4, !.state = "WaitForProcess",
                                       !.request_received = TRUE]
                   /\ taken' = Append(taken, chunk[1].value)
                   /\ state' = "Idle"
                   /\ UNCHANGED last_rx_timestamp
              ELSE ResetRx /\ state' = "Idle"
    /\ UNCHANGED rx_buffer /\ Outside

\* The loop stops on a received request or an error: the rest of the chunk is dropped.
DropRest ==
    /\ chunk # <<>> /\ (rx.request_received \/ rx.state = "Error")
    /\ chunk' = <<>>
    /\ UNCHANGED receiver /\ Outside

ReadByte == ReadCommand \/ ReadSubfunction \/ ReadLength \/ ReadData \/ ReadCrc \/ DropRest

-----------------------------------------------------------------------------
(* The rest of the thread: process() and pop_data() *)

\* add_crc(): the header, then the data.
ResponseHeader(r) == <<r.command + 128, r.subfunction, r.code, Len(r.data) \div 256, Len(r.data) % 256>>
ResponseCrc(r) == Crc(r.data, Crc(ResponseHeader(r), {}))

\* A burst that was partly given to receive_data() is no longer followed.
Unfresh == fresh' = FALSE /\ burst' = IF wire = burst THEN burst ELSE <<>>

\* process() executes the request held.  Connect opens a session, which resets the
\* reception.  send_response() refuses when the link is not idle (bytes came after the
\* request) or when the response is too long; check_finished_sending() then ends the request.
Serve(r) ==
    LET connects == ~session_active /\ rx.command = CommControl /\ rx.subfunction = ConnectFunction
        sends == (connects \/ state = "Idle") /\ Len(r.data) <= TxBufferSize
    IN /\ Returned /\ rx.request_received /\ state # "Transmitting"
       /\ session_active' = (session_active \/ connects)
       /\ IF connects \/ ~sends THEN ResetRx ELSE UNCHANGED <<rx, last_rx_timestamp, taken>>
       /\ state' = IF sends THEN "Transmitting" ELSE "Idle"
       /\ tx' = IF sends THEN [response |-> <<r>>, crc |-> ResponseCrc(r),
                               nbytes_to_send |-> 9 + Len(r.data), nbytes_sent |-> 0]
                         ELSE NoTransmission
       /\ popped' = IF sends THEN [response |-> <<r>>, bytes |-> <<>>] ELSE NoAnswer
       /\ Unfresh
       /\ UNCHANGED <<now, rx_buffer, chunk, wire, silence>>

\* What pop_data() writes for the byte at position k of the response: five bytes of
\* header, the data, four bytes of CRC.
FaultyResponseByte(k) ==
    LET r == tx.response[1] IN
    IF k < 5 THEN ResponseHeader(r)[k + 1]
    ELSE IF k <= 5 + Len(r.data) /\ k - 4 \in DOMAIN r.data THEN r.data[k - 4]
    ELSE WordBytes(tx.crc)[((k - 5) % 4) + 1]
ResponseByte(k) ==
    LET r == tx.response[1]
        crc_position == 5 + Len(r.data)
    IN IF k < 5 THEN ResponseHeader(r)[k + 1]
       ELSE IF k < crc_position THEN r.data[k - 4]
       ELSE WordBytes(tx.crc)[k - crc_position + 1]

\* pop_data() with room for n bytes; after the last one, the next request is waited for.
PopData(n) ==
    LET left == tx.nbytes_to_send - tx.nbytes_sent
        len == IF n > left THEN left ELSE n
    IN /\ Returned /\ state = "Transmitting"
       /\ popped' = [popped EXCEPT !.bytes =
                        @ \o [k \in 1 .. len |-> ResponseByte(tx.nbytes_sent + k - 1)]]
       /\ IF len = left THEN ResetRx /\ state' = "Idle" /\ tx' = NoTransmission
          ELSE /\ tx' = [tx EXCEPT !.nbytes_sent = @ + len]
               /\ UNCHANGED <<rx, last_rx_timestamp, taken, state>>
       /\ UNCHANGED <<now, rx_buffer, session_active, chunk, wire, histories>>

\* process() finds the heartbeat missing: reset().  An answered Disconnect does the same
\* when its response is gone.
Expire ==
    /\ Returned /\ session_active
    /\ session_active' = FALSE
    /\ ResetRx /\ state' = "Idle" /\ tx' = NoTransmission
    /\ Unfresh /\ popped' = NoAnswer
    /\ UNCHANGED <<now, rx_buffer, chunk, wire, silence>>

\* process() steps the clock.
Tick(dt) ==
    /\ Returned
    /\ now' = Step(now, dt)
    /\ silence' = IF silence + dt > ClockModulus THEN ClockModulus ELSE silence + dt
    /\ UNCHANGED <<receiver, session_active, tx, chunk, wire, fresh, burst, popped>>

Send == \E b \in Bursts : SendBurst(b)
Receive == \E n \in ChunkSizes : ReceiveData(n)
DoServe == \E r \in Responses : Serve(r)
Pop == \E n \in PopSizes : PopData(n)
DoTick == \E dt \in Timesteps : Tick(dt)

Next == Send \/ Receive \/ ReadByte \/ DoServe \/ Pop \/ Expire \/ DoTick

Spec == Init /\ [][Next]_vars

-----------------------------------------------------------------------------
(* Properties *)

\* The bytes of frames, with the reference CRC.
BigEndian16(n) == <<n \div 256, n % 256>>
Protected(bytes) == bytes \o WordBytes(ReferenceCrc(bytes, {}))
RequestFrame(r) == Protected(<<r.command, r.subfunction>> \o BigEndian16(Len(r.data)) \o r.data)
ResponseFrame(r) ==
    Protected(<<r.command + 128, r.subfunction, r.code>> \o BigEndian16(Len(r.data)) \o r.data)

\* The length a reception that has taken these bytes must have found.
TakenLength == 256 * taken[3] + taken[4]
ReferenceState ==
    LET n == Len(taken) IN
    CASE n = 0 -> "WaitForCommand"
      [] n = 1 -> "WaitForSubfunction"
      [] n \in 2 .. 3 -> "WaitForLength"
      [] n >= 4 /\ n < 4 + TakenLength -> "WaitForData"
      [] n >= 4 /\ n \in 4 + TakenLength .. 7 + TakenLength -> "WaitForCRC"
      [] n >= 4 /\ n = 8 + TakenLength -> "WaitForProcess"

\* Wherever receive_data() was cut (in the two bytes of the length, in the data, in the
\* CRC), the reception is the parse of the bytes taken since the frame began: its state,
\* the data in the buffer, the running CRC; an error is one that the bytes explain, and a
\* request is only held when its frame was taken, whole and with the right CRC.
ReceptionIsParse ==
    LET n == Len(taken) IN
    /\ rx.state = "Error" => n = 0 \/ (n = 4 /\ TakenLength > RxBufferSize)
    /\ rx.state # "Error" => rx.state = ReferenceState
    /\ rx.request_received <=> rx.state = "WaitForProcess"
    /\ rx.request_received => taken = RequestFrame(ActiveRequest)
    /\ rx.state \in {"WaitForData", "WaitForCRC"} /\ n > 4 =>
          LET header_and_data == SubSeq(taken, 1, IF n < 4 + TakenLength THEN n ELSE 4 + TakenLength) IN
          /\ TakenLength <= RxBufferSize
          /\ rx.m_crc = ReferenceCrc(header_and_data, {})
          /\ \A k \in 5 .. Len(header_and_data) : rx_buffer[k - 5] = taken[k]

\* The requests whose last byte is still to be read.
Unread == LET marked == SelectSeq(chunk \o wire, LAMBDA w : w.ends # NoRequest)
          IN [k \in 1 .. Len(marked) |-> marked[k].ends]
MessagesSent ==
    {LET marked == SelectSeq(b, LAMBDA w : w.ends # NoRequest)
     IN [k \in 1 .. Len(marked) |-> marked[k].ends] : b \in Bursts}

Link == INSTANCE FrameLink
        WITH Messages <- MessagesSent, pending <- Unread,
             heard <- IF rx.request_received THEN ActiveRequest ELSE NoRequest

\* The reception implements the abstract link: a request is heard only if it was sent
\* intact, in the order of sending, and not twice, whatever was cut, dropped by a timeout
\* or discarded while a response was transmitted.
ImplementsFrameLink == Link!Spec

\* After a silence longer than the timeout, a frame that comes without a gap, while no
\* response is transmitted, is heard: whatever came before (half a frame, an invalid
\* byte, a request still held) leaves no trace.
FreshBurstHeard ==
    fresh /\ Returned =>
        \A k \in 1 .. Len(burst) - Len(wire) :
            LET r == burst[k].ends IN
            (/\ r # NoRequest /\ Len(r.data) <= RxBufferSize
             /\ Values(SubSeq(burst, 1, k)) = RequestFrame(r)
             /\ session_active \/ AcceptedWithoutSession(r))
               => rx.request_received /\ ActiveRequest = r

\* However pop_data() is cut, the bytes handed out are those of the frame of the response
\* given to send_response(), and the link listens again only when all of them are out.
AnswerInOnePiece ==
    popped # NoAnswer =>
        LET frame == ResponseFrame(popped.response[1]) IN
        /\ popped.bytes = SubSeq(frame, 1, Len(popped.bytes))
        /\ state = "Transmitting" <=> Len(popped.bytes) < Len(frame)
=============================================================================
