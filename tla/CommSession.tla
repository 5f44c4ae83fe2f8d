----------------------------- MODULE CommSession -----------------------------
(***************************************************************************)
(* The life of a request: reception by the CommHandler, execution by       *)
(* MainHandler::process(), transmission of the response, and the session   *)
(* around it (connect, heartbeat, disconnect), with the three timeouts     *)
(* that race with it.  receive_data(), process() and pop_data() are called *)
(* by one thread, in any order: each call is one step.                     *)
(*                                                                         *)
(* A chunk of received bytes is abstracted to what it does to the receive  *)
(* state machine; a request to the branch of process_request() it takes.   *)
(* Time only advances in process(), on the modular clock of Timebase.      *)
(***************************************************************************)
EXTENDS Timebase

CONSTANTS
    MaxStep,            \* largest timestep given to process()
    RxTimeout,          \* SCRUTINY_COMM_RX_TIMEOUT_US
    HeartbeatTimeout,   \* SCRUTINY_COMM_HEARTBEAT_TIMEOUT_US
    RequestTimeout,     \* SCRUTINY_REQUEST_MAX_PROCESS_TIME_US
    SessionModulus,     \* session ids are modulo this (2^32 in the code)
    Challenges,         \* heartbeat challenges the server uses
    TxLength            \* bytes of a response on the wire

ASSUME ClockAssumption ==
    /\ MaxStep \in Nat \ {0}
    /\ RxTimeout \in Nat \ {0} /\ HeartbeatTimeout \in Nat \ {0} /\ RequestTimeout \in Nat \ {0}
    /\ HeartbeatTimeout + MaxStep <= ClockModulus
    /\ RequestTimeout + MaxStep <= ClockModulus
ASSUME SizesAssumption ==
    /\ SessionModulus \in Nat \ {0} /\ TxLength \in Nat \ {0}
    /\ Challenges \subseteq Nat /\ 0 \in Challenges

SessionIds == 0 .. SessionModulus - 1

\* Requests: those of CommControl, one that is answered at once ("Work": GetInfo,
\* MemoryControl, UserCommand...), one that may need ProcessAgain ("Slow":
\* ConfigureDatalog or ResetDatalogger while a loop owns the datalogger).
Requests ==
    [kind : {"Discover", "Connect", "Work", "Slow"}, session_id : {0}, challenge : {0}]
    \cup [kind : {"Heartbeat"}, session_id : SessionIds, challenge : Challenges]
    \cup [kind : {"Disconnect"}, session_id : SessionIds, challenge : {0}]
NoRequest == [kind |-> "none", session_id |-> 0, challenge |-> 0]

VARIABLES
    now,        \* MainHandler::m_timebase
    comm,       \* the CommHandler
    main,       \* the request-related members of MainHandler
    session_counter     \* CommHandler::s_session_counter

vars == <<now, comm, main, session_counter>>

-----------------------------------------------------------------------------
(* CommHandler, as functions of its state c at time t *)

\* Faulty variants (names starting with Faulty) are not part of the model: each is
\* a slip that the properties are sensitive to.
FaultyResetRxKeepsFlag(c, t) ==
    [c EXCEPT !.request = NoRequest, !.rx_state = "WaitForCommand", !.last_rx_timestamp = t,
              !.state = IF c.state = "Receiving" THEN "Idle" ELSE c.state]

ResetRx(c, t) ==
    [c EXCEPT !.request = NoRequest, !.rx_state = "WaitForCommand", !.request_received = FALSE,
              !.last_rx_timestamp = t,
              !.state = IF c.state = "Receiving" THEN "Idle" ELSE c.state]

ResetTx(c) ==
    [c EXCEPT !.to_send = 0, !.state = IF c.state = "Transmitting" THEN "Idle" ELSE c.state]

Reset(c, t) ==
    ResetTx(ResetRx([c EXCEPT !.state = "Idle", !.session_active = FALSE, !.session_id = 0,
                              !.first_heartbeat_received = FALSE, !.last_challenge = 0,
                              !.heartbeat_timestamp = t], t))

Connect(c, t) ==
    ResetRx([c EXCEPT !.session_id = session_counter, !.session_active = TRUE,
                      !.first_heartbeat_received = FALSE, !.heartbeat_timestamp = t], t)

Disconnect(c, t) ==
    ResetTx(ResetRx([c EXCEPT !.session_id = 0, !.session_active = FALSE,
                              !.first_heartbeat_received = FALSE], t))

\* heartbeat(): the challenge must differ from the previous one.
HeartbeatAccepted(c, challenge) ==
    c.session_active /\ (challenge # c.last_challenge \/ ~c.first_heartbeat_received)

Heartbeat(c, challenge, t) ==
    [c EXCEPT !.first_heartbeat_received = TRUE, !.last_challenge = challenge,
              !.heartbeat_timestamp = t]

\* send_response(): refused (TxError::Busy) unless the link is idle.
SendResponse(c) ==
    IF c.state = "Idle" THEN [c EXCEPT !.to_send = TxLength, !.state = "Transmitting"] ELSE c

\* process(): the session dies of a missing heartbeat.
CommProcess(c, t) ==
    IF c.session_active /\ HasExpired(t, c.heartbeat_timestamp, HeartbeatTimeout)
    THEN Reset(c, t) ELSE c

FaultyProcessAnyRequest(c, r, t) ==
    [c EXCEPT !.request = r, !.rx_state = "WaitForProcess", !.request_received = TRUE]

\* process_active_request(): without a session only Discover and Connect count.
ProcessActiveRequest(c, r, t) ==
    IF c.session_active \/ r.kind \in {"Discover", "Connect"}
    THEN [c EXCEPT !.request = r, !.rx_state = "WaitForProcess", !.request_received = TRUE]
    ELSE ResetRx(c, t)

\* The start of receive_data(): a chunk that comes too late starts a new reception.
StartReception(c, t) ==
    LET d == IF HasExpired(t, c.last_rx_timestamp, RxTimeout)
             THEN [ResetRx(c, t) EXCEPT !.state = "Idle"] ELSE c
    IN [d EXCEPT !.last_rx_timestamp = t, !.state = IF d.state = "Idle" THEN "Receiving" ELSE d.state]

Parsing(c) == c.rx_state \in {"WaitForCommand", "InFrame"}

-----------------------------------------------------------------------------
Init ==
    /\ now = 0
    /\ comm = [state |-> "Idle", session_active |-> FALSE, session_id |-> 0,
               heartbeat_timestamp |-> 0, first_heartbeat_received |-> FALSE, last_challenge |-> 0,
               request |-> NoRequest, request_received |-> FALSE, rx_state |-> "WaitForCommand",
               last_rx_timestamp |-> 0, to_send |-> 0]
    /\ main = [processing_request |-> FALSE, disconnect_pending |-> FALSE,
               process_again_taken |-> FALSE, process_again_timestamp |-> 0]
    /\ session_counter \in SessionIds                  \* session_counter_seed

\* receive_data() with a chunk that completes a frame whose CRC is right.
ReceiveRequest(r) ==
    /\ comm.state # "Transmitting"
    /\ LET c == StartReception(comm, now) IN
         /\ Parsing(c)
         /\ comm' = ProcessActiveRequest([c EXCEPT !.state = "Idle"], r, now)
    /\ UNCHANGED <<now, main, session_counter>>

\* receive_data() with any other chunk: the frame goes on, ends with a wrong CRC,
\* ends so and is followed by the start of another one, or is invalid (unknown
\* command byte, length larger than the buffer).
ReceiveOther(chunk) ==
    /\ comm.state # "Transmitting"
    /\ LET c == StartReception(comm, now) IN
         comm' = CASE ~Parsing(c) -> c
                   [] Parsing(c) /\ chunk = "part" -> [c EXCEPT !.rx_state = "InFrame"]
                   [] Parsing(c) /\ chunk = "bad_crc" -> ResetRx([c EXCEPT !.state = "Idle"], now)
                   [] Parsing(c) /\ chunk = "bad_crc_part" ->
                        [ResetRx([c EXCEPT !.state = "Idle"], now) EXCEPT !.rx_state = "InFrame"]
                   [] Parsing(c) /\ chunk = "invalid" -> [c EXCEPT !.rx_state = "Error"]
    /\ UNCHANGED <<now, main, session_counter>>

\* receive_data() while transmitting discards the data: no step.

FaultyCheckKeepsDisconnect(c, m, t) ==
    IF m.processing_request /\ c.state # "Transmitting"
    THEN LET d == ResetRx(c, t) IN
         [comm |-> IF m.disconnect_pending THEN Disconnect(d, t) ELSE d,
          main |-> [m EXCEPT !.processing_request = FALSE, !.process_again_taken = FALSE]]
    ELSE [comm |-> c, main |-> m]

\* check_finished_sending(), as the pair [comm, main] it leaves.
CheckFinishedSending(c, m, t) ==
    IF m.processing_request /\ c.state # "Transmitting"
    THEN LET d == ResetRx(c, t) IN
         [comm |-> IF m.disconnect_pending THEN Disconnect(d, t) ELSE d,
          main |-> [m EXCEPT !.processing_request = FALSE, !.process_again_taken = FALSE,
                             !.disconnect_pending = FALSE]]
    ELSE [comm |-> c, main |-> m]

FaultyPopDataWithoutReset(n) ==
    /\ comm.state = "Transmitting"
    /\ LET left == IF n < comm.to_send THEN comm.to_send - n ELSE 0
           after == CheckFinishedSending([comm EXCEPT !.to_send = left], main, now)
       IN comm' = after.comm /\ main' = after.main
    /\ UNCHANGED <<now, session_counter>>

\* pop_data() by the integration layer, n bytes at most.
PopData(n) ==
    /\ comm.state = "Transmitting"
    /\ LET left == IF n < comm.to_send THEN comm.to_send - n ELSE 0
           c == IF left = 0 THEN ResetRx(ResetTx(comm), now) ELSE [comm EXCEPT !.to_send = left]
           after == CheckFinishedSending(c, main, now)
       IN comm' = after.comm /\ main' = after.main
    /\ UNCHANGED <<now, session_counter>>

-----------------------------------------------------------------------------
(* MainHandler::process() *)

FaultyConnectInSession(c, r, t) ==
    CASE r.kind = "Connect" -> Connect(c, t)
      [] r.kind = "Heartbeat" /\ r.session_id = c.session_id /\ HeartbeatAccepted(c, r.challenge)
           -> Heartbeat(c, r.challenge, t)
      [] OTHER -> c

\* process_comm_control() and the rest of process_request(): the comm handler and
\* the disconnect flag after the execution of request r.
ExecutedComm(c, r, t) ==
    CASE r.kind = "Connect" /\ ~c.session_active -> Connect(c, t)
      [] r.kind = "Heartbeat" /\ r.session_id = c.session_id /\ HeartbeatAccepted(c, r.challenge)
           -> Heartbeat(c, r.challenge, t)
      [] OTHER -> c

AsksDisconnect(c, r) ==
    r.kind = "Disconnect" /\ c.session_active /\ r.session_id = c.session_id

\* The response is ready: send it.
Respond(c, t) ==
    LET m == [main EXCEPT !.processing_request = TRUE,
                          !.disconnect_pending = main.disconnect_pending \/ AsksDisconnect(c, c.request)]
        after == CheckFinishedSending(SendResponse(ExecutedComm(c, c.request, t)), m, t)
    IN /\ comm' = after.comm /\ main' = after.main
       /\ session_counter' = IF c.request.kind = "Connect" /\ ~c.session_active
                             THEN (session_counter + 1) % SessionModulus ELSE session_counter

\* ProcessAgain: the request stays.  Its time is measured from the first one.
Postpone(c, t) ==
    /\ c.request.kind = "Slow"
    /\ IF ~main.process_again_taken
       THEN main' = [main EXCEPT !.process_again_taken = TRUE, !.process_again_timestamp = t]
       ELSE ~HasExpired(t, main.process_again_timestamp, RequestTimeout) /\ UNCHANGED main
    /\ comm' = c
    /\ UNCHANGED session_counter

\* ProcessAgain for too long: FailureToProceed is sent instead.
GiveUp(c, t) ==
    /\ c.request.kind = "Slow"
    /\ main.process_again_taken
    /\ HasExpired(t, main.process_again_timestamp, RequestTimeout)
    /\ Respond(c, t)

\* Nothing to execute: check_finished_sending() still runs.
NothingToExecute(c, t) ==
    /\ LET after == CheckFinishedSending(c, main, t)
       IN comm' = after.comm /\ main' = after.main
    /\ UNCHANGED session_counter

Process(dt) ==
    LET t == Step(now, dt)
        c == CommProcess(comm, t)
    IN /\ now' = t
       /\ IF c.request_received /\ ~main.processing_request
          THEN \/ Respond(c, t)
               \/ Postpone(c, t)
               \/ GiveUp(c, t)
          ELSE NothingToExecute(c, t)

Receive == \/ \E r \in Requests : ReceiveRequest(r)
           \/ \E chunk \in {"part", "bad_crc", "bad_crc_part", "invalid"} : ReceiveOther(chunk)
Pop == \E n \in 1 .. TxLength : PopData(n)
DoProcess == \E dt \in 1 .. MaxStep : Process(dt)

Next == Receive \/ Pop \/ DoProcess

Spec == Init /\ [][Next]_vars

\* The integration code calls process() and sends what there is to send, again
\* and again; nothing is assumed of the server.
FairSpec == Spec /\ WF_vars(DoProcess) /\ WF_vars(Pop)

-----------------------------------------------------------------------------
(* Properties *)

CommStates ==
    [state : {"Idle", "Receiving", "Transmitting"}, session_active : BOOLEAN,
     session_id : SessionIds, heartbeat_timestamp : Times, first_heartbeat_received : BOOLEAN,
     last_challenge : Challenges, request : Requests \cup {NoRequest}, request_received : BOOLEAN,
     rx_state : {"WaitForCommand", "InFrame", "WaitForProcess", "Error"},
     last_rx_timestamp : Times, to_send : 0 .. TxLength]
MainStates ==
    [processing_request : BOOLEAN, disconnect_pending : BOOLEAN, process_again_taken : BOOLEAN,
     process_again_timestamp : Times]

\* Type correctness of the state.
TypeOK ==
    /\ now \in Times /\ comm \in CommStates /\ main \in MainStates
    /\ session_counter \in SessionIds

\* m_processing_request and the comm handler agree between two calls: a request
\* is "being processed" exactly while its response is being transmitted, the
\* bytes left to send are those of that response, and a pending disconnection
\* waits for that transmission only.  Otherwise a response would be cut or the
\* handler would never listen again.
ProcessingIffTransmitting ==
    /\ main.processing_request <=> comm.state = "Transmitting"
    /\ comm.to_send > 0 <=> comm.state = "Transmitting"
    /\ main.disconnect_pending => main.processing_request

\* The receive state machine and the request flag agree; a request is executed
\* at most once, since nothing but the next reception sets the flag again.
ReceptionConsistent ==
    /\ comm.request_received <=> comm.rx_state = "WaitForProcess"
    /\ comm.request_received <=> comm.request # NoRequest
    /\ comm.rx_state \in {"InFrame", "Error"} => comm.state \in {"Idle", "Receiving"}

\* This step of process() executes the request held (to the end or to a refusal).
Executes ==
    \E dt \in 1 .. MaxStep :
       LET t == Step(now, dt)
           c == CommProcess(comm, t)
       IN /\ now' = t
          /\ c.request_received /\ ~main.processing_request
          /\ Respond(c, t) \/ GiveUp(c, t)

\* A command other than Discover and Connect is executed only inside a session that
\* is alive at that moment, even if it was received before its session ended.
ExecutedInSession ==
    [][Executes => \/ comm.request.kind \in {"Discover", "Connect"}
                   \/ /\ comm.session_active
                      /\ ~HasExpired(now', comm.heartbeat_timestamp, HeartbeatTimeout)]_vars

\* A session that lives has heard a heartbeat (or was opened) less than the
\* heartbeat timeout ago: the watchdog cannot be missed, even across the
\* wrap-around of the clock.
SessionIsAlive == comm.session_active => ~HasExpired(now, comm.heartbeat_timestamp, HeartbeatTimeout)

\* The state of the two components as one inductive invariant: what the integration
\* code may rely on between any two calls.
CommInv == TypeOK /\ ProcessingIffTransmitting /\ ReceptionConsistent /\ SessionIsAlive

\* A session ends only because its heartbeat expired or because its own
\* Disconnect was answered; it is never replaced by another one directly.
SessionEndsForCause ==
    [][/\ comm.session_active /\ ~comm'.session_active =>
            \/ HasExpired(now', comm.heartbeat_timestamp, HeartbeatTimeout)
            \/ main.disconnect_pending
            \/ AsksDisconnect(comm, comm.request)
       /\ comm.session_active /\ comm'.session_active => comm'.session_id = comm.session_id]_vars

\* A request that was received is not held for ever: process() answers it, refuses
\* it after the processing timeout, or the link drops it.
RequestResolved == comm.request_received ~> ~comm.request_received

\* A response is always transmitted to the end, or dropped with its session.
TransmissionEnds == comm.state = "Transmitting" ~> comm.state # "Transmitting"
=============================================================================
