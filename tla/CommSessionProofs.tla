--------------------------- MODULE CommSessionProofs ---------------------------
(***************************************************************************)
(* Proofs about CommSession, for every value of its constants: the states  *)
(* of CommHandler and MainHandler agree between two calls, the heartbeat   *)
(* watchdog is never missed, requests are executed inside a live session   *)
(* and sessions end for a cause.                                           *)
(*                                                                         *)
(* The operations of CommHandler are functions of its record, so each has  *)
(* a lemma about the record; the proof of a step puts them together.       *)
(***************************************************************************)
EXTENDS CommSession, TLAPS

\* What holds of the record of the CommHandler at any time ...
Sound(c) ==
    /\ c \in CommStates
    /\ c.to_send > 0 <=> c.state = "Transmitting"
    /\ c.request_received <=> c.rx_state = "WaitForProcess"
    /\ c.request_received <=> c.request # NoRequest
    /\ c.rx_state \in {"InFrame", "Error"} => c.state \in {"Idle", "Receiving"}
    /\ c.request_received => c.session_active \/ c.request.kind \in {"Discover", "Connect"}
Alive(c, t) == c.session_active => ~HasExpired(t, c.heartbeat_timestamp, HeartbeatTimeout)

\* ... and of the flags of MainHandler next to it, between two calls.
InStep(c, m) ==
    /\ m \in MainStates
    /\ m.processing_request <=> c.state = "Transmitting"
    /\ m.disconnect_pending => m.processing_request

\* The inductive invariant: CommInv, and a request held outside a session is one that
\* does without.
IInv ==
    /\ now \in Times /\ session_counter \in SessionIds
    /\ Sound(comm) /\ InStep(comm, main) /\ Alive(comm, now)

LEMMA InvariantIsStronger == IInv => CommInv
  BY DEF IInv, Sound, InStep, Alive, CommInv, TypeOK, ProcessingIffTransmitting, ReceptionConsistent,
       SessionIsAlive

-----------------------------------------------------------------------------
(* The clock *)

LEMMA ClockAdvances == ASSUME NEW t \in Times, NEW dt \in Nat PROVE Step(t, dt) \in Times
  BY ModulusAssumption DEF Step, Times

\* A timestamp that was just taken has not expired.
LEMMA JustNow == ASSUME NEW t \in Times PROVE ~HasExpired(t, t, HeartbeatTimeout)
  <1>1. (t + ClockModulus - t) % ClockModulus = 0
    <2>1. t + ClockModulus - t = ClockModulus
      BY ModulusAssumption DEF Times
    <2>2. ClockModulus % ClockModulus = 0
      BY ModulusAssumption
    <2> QED
      BY <2>1, <2>2
  <1> QED
    BY <1>1, ClockAssumption DEF HasExpired, Elapsed

LEMMA Zeros == 0 \in 0 .. TxLength /\ 0 \in SessionIds /\ 0 \in Challenges /\ 0 \in Times
  BY SizesAssumption, ModulusAssumption DEF SessionIds, Times

-----------------------------------------------------------------------------
(* The operations of CommHandler *)

\* reset_rx() forgets the request, and touches neither the session nor a transmission.
LEMMA ResetRxFacts ==
  ASSUME NEW c \in CommStates, NEW t \in Times
  PROVE  LET d == ResetRx(c, t) IN
         /\ d \in CommStates
         /\ d.request = NoRequest /\ ~d.request_received /\ d.rx_state = "WaitForCommand"
         /\ d.state = IF c.state = "Receiving" THEN "Idle" ELSE c.state
         /\ d.to_send = c.to_send
         /\ d.session_active = c.session_active /\ d.session_id = c.session_id
         /\ d.heartbeat_timestamp = c.heartbeat_timestamp
  BY DEF ResetRx, CommStates

\* reset_tx() ends a transmission, and touches neither the session nor a reception.
LEMMA ResetTxFacts ==
  ASSUME NEW c \in CommStates
  PROVE  LET d == ResetTx(c) IN
         /\ d \in CommStates
         /\ d.to_send = 0
         /\ d.state = IF c.state = "Transmitting" THEN "Idle" ELSE c.state
         /\ d.request = c.request /\ d.request_received = c.request_received /\ d.rx_state = c.rx_state
         /\ d.session_active = c.session_active /\ d.session_id = c.session_id
         /\ d.heartbeat_timestamp = c.heartbeat_timestamp
  BY Zeros DEF ResetTx, CommStates

LEMMA ResetRxSound == ASSUME NEW c, Sound(c), NEW t \in Times PROVE Sound(ResetRx(c, t))
  BY ResetRxFacts DEF Sound

\* disconnect() leaves no session and nothing to execute, and ends a transmission.
LEMMA DisconnectFacts ==
  ASSUME NEW c, Sound(c), NEW t \in Times
  PROVE  LET d == Disconnect(c, t) IN
         Sound(d) /\ ~d.session_active /\ d.state # "Transmitting" /\ ~d.request_received
  <1> DEFINE closed == [c EXCEPT !.session_id = 0, !.session_active = FALSE,
                                 !.first_heartbeat_received = FALSE]
             listening == ResetRx(closed, t)
  <1>1. /\ closed \in CommStates /\ ~closed.session_active
        /\ closed.to_send = c.to_send /\ closed.state = c.state
    BY Zeros DEF Sound, CommStates
  <1>2. /\ listening \in CommStates /\ ~listening.session_active
        /\ listening.request = NoRequest /\ ~listening.request_received
        /\ listening.rx_state = "WaitForCommand"
    BY <1>1, ResetRxFacts
  <1> HIDE DEF listening
  <1>3. /\ ResetTx(listening) \in CommStates
        /\ ~ResetTx(listening).session_active
        /\ ResetTx(listening).to_send = 0
        /\ ResetTx(listening).state # "Transmitting"
        /\ ResetTx(listening).request = NoRequest /\ ~ResetTx(listening).request_received
        /\ ResetTx(listening).rx_state = "WaitForCommand"
    BY <1>2, ResetTxFacts
  <1>4. Disconnect(c, t) = ResetTx(listening)
    BY DEF Disconnect, listening
  <1> QED
    BY <1>3, <1>4 DEF Sound

\* reset() does the same.
LEMMA ResetFacts ==
  ASSUME NEW c, Sound(c), NEW t \in Times
  PROVE  LET d == Reset(c, t) IN
         Sound(d) /\ ~d.session_active /\ d.state # "Transmitting" /\ ~d.request_received
  <1> DEFINE closed == [c EXCEPT !.state = "Idle", !.session_active = FALSE, !.session_id = 0,
                                 !.first_heartbeat_received = FALSE, !.last_challenge = 0,
                                 !.heartbeat_timestamp = t]
             listening == ResetRx(closed, t)
  <1>1. closed \in CommStates /\ ~closed.session_active /\ closed.state = "Idle"
    BY Zeros DEF Sound, CommStates
  <1>2. /\ listening \in CommStates /\ ~listening.session_active
        /\ listening.request = NoRequest /\ ~listening.request_received
        /\ listening.rx_state = "WaitForCommand"
    BY <1>1, ResetRxFacts
  <1> HIDE DEF listening
  <1>3. /\ ResetTx(listening) \in CommStates
        /\ ~ResetTx(listening).session_active
        /\ ResetTx(listening).to_send = 0
        /\ ResetTx(listening).state # "Transmitting"
        /\ ResetTx(listening).request = NoRequest /\ ~ResetTx(listening).request_received
        /\ ResetTx(listening).rx_state = "WaitForCommand"
    BY <1>2, ResetTxFacts
  <1>4. Reset(c, t) = ResetTx(listening)
    BY DEF Reset, listening
  <1> QED
    BY <1>3, <1>4 DEF Sound

\* process() of the CommHandler: what it leaves is alive, and only an expired session
\* is changed.
LEMMA CommProcessFacts ==
  ASSUME NEW c, Sound(c), NEW t \in Times
  PROVE  LET d == CommProcess(c, t) IN
         /\ Sound(d) /\ Alive(d, t)
         /\ d = c \/ /\ c.session_active /\ HasExpired(t, c.heartbeat_timestamp, HeartbeatTimeout)
                     /\ ~d.session_active /\ ~d.request_received /\ d.state # "Transmitting"
  BY ResetFacts DEF CommProcess, Alive

\* connect() drops the request it executes, and starts the watchdog.
LEMMA ConnectFacts ==
  ASSUME NEW c, Sound(c), NEW t \in Times, session_counter \in SessionIds
  PROVE  LET d == Connect(c, t) IN
         /\ Sound(d) /\ Alive(d, t)
         /\ d.state = IF c.state = "Receiving" THEN "Idle" ELSE c.state
  <1> DEFINE opened == [c EXCEPT !.session_id = session_counter, !.session_active = TRUE,
                                 !.first_heartbeat_received = FALSE, !.heartbeat_timestamp = t]
  <1>1. /\ opened \in CommStates /\ opened.heartbeat_timestamp = t
        /\ opened.to_send = c.to_send /\ opened.state = c.state
    BY DEF Sound, CommStates
  <1> HIDE DEF opened
  <1>2. /\ ResetRx(opened, t) \in CommStates
        /\ ResetRx(opened, t).request = NoRequest /\ ~ResetRx(opened, t).request_received
        /\ ResetRx(opened, t).rx_state = "WaitForCommand"
        /\ ResetRx(opened, t).to_send = c.to_send
        /\ ResetRx(opened, t).state = IF c.state = "Receiving" THEN "Idle" ELSE c.state
        /\ ResetRx(opened, t).heartbeat_timestamp = t
    BY <1>1, ResetRxFacts
  <1>3. Connect(c, t) = ResetRx(opened, t)
    BY DEF Connect, opened
  <1> QED
    BY <1>2, <1>3, JustNow DEF Sound, Alive

\* heartbeat() restarts the watchdog, send_response() starts a transmission or refuses.
LEMMA HeartbeatFacts ==
  ASSUME NEW c, Sound(c), NEW t \in Times, NEW challenge \in Challenges
  PROVE  LET d == Heartbeat(c, challenge, t) IN
         /\ Sound(d) /\ Alive(d, t) /\ d.state = c.state
         /\ d.session_active = c.session_active /\ d.session_id = c.session_id
  BY JustNow DEF Heartbeat, Sound, Alive, CommStates

LEMMA SendResponseFacts ==
  ASSUME NEW c, Sound(c), NEW t \in Times, Alive(c, t), c.rx_state \notin {"InFrame", "Error"}
  PROVE  LET d == SendResponse(c) IN
         /\ Sound(d) /\ Alive(d, t)
         /\ d.session_active = c.session_active /\ d.session_id = c.session_id
  <1>1. TxLength \in 0 .. TxLength /\ TxLength > 0
    BY SizesAssumption
  <1> QED
    BY <1>1 DEF SendResponse, Sound, Alive, CommStates

\* check_finished_sending(), after whatever the link did: the two components agree again.
LEMMA CheckFinishedSendingFacts ==
  ASSUME NEW c, Sound(c), NEW m \in MainStates, NEW t \in Times, Alive(c, t),
         c.state = "Transmitting" => m.processing_request,
         m.disconnect_pending => m.processing_request
  PROVE  LET after == CheckFinishedSending(c, m, t) IN
         /\ Sound(after.comm) /\ Alive(after.comm, t) /\ InStep(after.comm, after.main)
         /\ \/ /\ after.comm.session_active = c.session_active
               /\ after.comm.session_id = c.session_id
            \/ m.disconnect_pending /\ ~after.comm.session_active
  <1>1. CASE m.processing_request /\ c.state # "Transmitting"
    <2> DEFINE d == ResetRx(c, t)
               n == [m EXCEPT !.processing_request = FALSE, !.process_again_taken = FALSE,
                              !.disconnect_pending = FALSE]
    <2>1. /\ Sound(d) /\ Alive(d, t) /\ d.state # "Transmitting"
          /\ d.session_active = c.session_active /\ d.session_id = c.session_id
      BY <1>1, ResetRxSound, ResetRxFacts DEF Sound, Alive
    <2>2. n \in MainStates /\ ~n.processing_request /\ ~n.disconnect_pending
      BY DEF MainStates
    <2> HIDE DEF d, n
    <2>3. CheckFinishedSending(c, m, t) =
            [comm |-> IF m.disconnect_pending THEN Disconnect(d, t) ELSE d, main |-> n]
      BY <1>1 DEF CheckFinishedSending, d, n
    <2>4. CASE m.disconnect_pending
      BY <2>1, <2>2, <2>3, <2>4, DisconnectFacts DEF InStep, Alive
    <2>5. CASE ~m.disconnect_pending
      BY <2>1, <2>2, <2>3, <2>5 DEF InStep
    <2> QED
      BY <2>4, <2>5
  <1>2. CASE ~(m.processing_request /\ c.state # "Transmitting")
    BY <1>2 DEF CheckFinishedSending, InStep, MainStates
  <1> QED
    BY <1>1, <1>2

-----------------------------------------------------------------------------
(* The steps *)

\* The start of receive_data(), when the link does not transmit.
LEMMA StartReceptionFacts ==
  ASSUME NEW c, Sound(c), NEW t \in Times, c.state # "Transmitting"
  PROVE  LET d == StartReception(c, t) IN
         /\ Sound(d) /\ d.state = "Receiving"
         /\ d.session_active = c.session_active /\ d.session_id = c.session_id
         /\ d.heartbeat_timestamp = c.heartbeat_timestamp
  <1> DEFINE e == IF HasExpired(t, c.last_rx_timestamp, RxTimeout)
                  THEN [ResetRx(c, t) EXCEPT !.state = "Idle"] ELSE c
  <1>1. /\ Sound(e) /\ e.state \in {"Idle", "Receiving"}
        /\ e.session_active = c.session_active /\ e.session_id = c.session_id
        /\ e.heartbeat_timestamp = c.heartbeat_timestamp
    <2>1. CASE HasExpired(t, c.last_rx_timestamp, RxTimeout)
      BY <2>1, ResetRxFacts DEF Sound, CommStates
    <2>2. CASE ~HasExpired(t, c.last_rx_timestamp, RxTimeout)
      BY <2>2 DEF Sound, CommStates
    <2> QED
      BY <2>1, <2>2
  <1> HIDE DEF e
  <1>2. StartReception(c, t) = [e EXCEPT !.last_rx_timestamp = t,
                                         !.state = IF e.state = "Idle" THEN "Receiving" ELSE e.state]
    BY DEF StartReception, e
  <1> QED
    BY <1>1, <1>2 DEF Sound, CommStates

\* What every step keeps, and what it does to the session.
SessionKept(t) ==
    /\ comm.session_active /\ ~comm'.session_active =>
          \/ HasExpired(t, comm.heartbeat_timestamp, HeartbeatTimeout)
          \/ main.disconnect_pending
          \/ AsksDisconnect(comm, comm.request)
    /\ comm.session_active /\ comm'.session_active => comm'.session_id = comm.session_id

LEMMA ReceiveRequestStep ==
  ASSUME IInv, NEW r \in Requests, ReceiveRequest(r) PROVE IInv' /\ SessionKept(now)
  <1> DEFINE started == StartReception(comm, now)
             c == [started EXCEPT !.state = "Idle"]
  <1>1. /\ Sound(started) /\ started.state = "Receiving" /\ Parsing(started)
        /\ started.session_active = comm.session_active /\ started.session_id = comm.session_id
        /\ started.heartbeat_timestamp = comm.heartbeat_timestamp
        /\ comm' = ProcessActiveRequest(c, r, now)
    BY StartReceptionFacts DEF ReceiveRequest, IInv
  <1> HIDE DEF started
  <1>2. /\ Sound(c) /\ c.state = "Idle" /\ c.session_active = comm.session_active
        /\ c.session_id = comm.session_id /\ c.heartbeat_timestamp = comm.heartbeat_timestamp
    BY <1>1 DEF Sound, CommStates
  <1> HIDE DEF c
  <1>3. /\ Sound(comm') /\ comm'.state = "Idle" /\ comm'.session_active = comm.session_active
        /\ comm'.session_id = comm.session_id /\ comm'.heartbeat_timestamp = comm.heartbeat_timestamp
    <2>1. CASE c.session_active \/ r.kind \in {"Discover", "Connect"}
      <3>1. r # NoRequest
        BY DEF Requests, NoRequest
      <3> QED
        BY <1>1, <1>2, <2>1, <3>1 DEF ProcessActiveRequest, Sound, CommStates
    <2>2. CASE ~(c.session_active \/ r.kind \in {"Discover", "Connect"})
      <3>1. comm' = ResetRx(c, now)
        BY <1>1, <2>2 DEF ProcessActiveRequest
      <3> QED
        BY <1>2, <3>1, ResetRxFacts, ResetRxSound DEF IInv, Sound
    <2> QED
      BY <2>1, <2>2
  <1> QED
    BY <1>3 DEF ReceiveRequest, IInv, InStep, Alive, SessionKept

LEMMA ReceiveOtherStep ==
  ASSUME IInv, NEW chunk \in {"part", "bad_crc", "bad_crc_part", "invalid"}, ReceiveOther(chunk)
  PROVE  IInv' /\ SessionKept(now)
  <1> DEFINE c == StartReception(comm, now)
             idle == [c EXCEPT !.state = "Idle"]
  <1>1. /\ Sound(c) /\ c.state = "Receiving"
        /\ c.session_active = comm.session_active /\ c.session_id = comm.session_id
        /\ c.heartbeat_timestamp = comm.heartbeat_timestamp
    BY StartReceptionFacts DEF ReceiveOther, IInv
  <1>2. comm' = CASE ~Parsing(c) -> c
                  [] Parsing(c) /\ chunk = "part" -> [c EXCEPT !.rx_state = "InFrame"]
                  [] Parsing(c) /\ chunk = "bad_crc" -> ResetRx(idle, now)
                  [] Parsing(c) /\ chunk = "bad_crc_part" ->
                       [ResetRx(idle, now) EXCEPT !.rx_state = "InFrame"]
                  [] Parsing(c) /\ chunk = "invalid" -> [c EXCEPT !.rx_state = "Error"]
    BY DEF ReceiveOther
  <1> HIDE DEF c
  <1>3. /\ Sound(idle) /\ idle.state = "Idle" /\ idle.session_active = comm.session_active
        /\ idle.session_id = comm.session_id /\ idle.heartbeat_timestamp = comm.heartbeat_timestamp
    BY <1>1 DEF Sound, CommStates
  <1> HIDE DEF idle
  <1>4. LET d == ResetRx(idle, now) IN
        /\ Sound(d) /\ d.state = "Idle" /\ d.session_active = comm.session_active /\ ~d.request_received
        /\ d.session_id = comm.session_id /\ d.heartbeat_timestamp = comm.heartbeat_timestamp
    BY <1>3, ResetRxFacts, ResetRxSound DEF IInv, Sound
  <1>5. /\ Sound(comm') /\ comm'.state # "Transmitting" /\ comm'.session_active = comm.session_active
        /\ comm'.session_id = comm.session_id /\ comm'.heartbeat_timestamp = comm.heartbeat_timestamp
    <2>1. CASE ~Parsing(c)
      BY <1>1, <1>2, <2>1
    <2>2. CASE Parsing(c) /\ chunk = "part"
      BY <1>1, <1>2, <2>2 DEF Sound, CommStates, Parsing
    <2>3. CASE Parsing(c) /\ chunk = "bad_crc"
      BY <1>2, <1>4, <2>3
    <2>4. CASE Parsing(c) /\ chunk = "bad_crc_part"
      BY <1>2, <1>4, <2>4 DEF Sound, CommStates
    <2>5. CASE Parsing(c) /\ chunk = "invalid"
      BY <1>1, <1>2, <2>5 DEF Sound, CommStates, Parsing
    <2> QED
      BY <2>1, <2>2, <2>3, <2>4, <2>5
  <1> QED
    BY <1>5 DEF ReceiveOther, IInv, InStep, Alive, SessionKept

LEMMA PopDataStep ==
  ASSUME IInv, NEW n \in 1 .. TxLength, PopData(n) PROVE IInv' /\ SessionKept(now)
  <1> DEFINE left == IF n < comm.to_send THEN comm.to_send - n ELSE 0
             c == IF left = 0 THEN ResetRx(ResetTx(comm), now) ELSE [comm EXCEPT !.to_send = left]
  <1>1. /\ Sound(c) /\ Alive(c, now)
        /\ c.session_active = comm.session_active /\ c.session_id = comm.session_id
    <2>1. CASE left = 0
      <3> DEFINE d == ResetTx(comm)
      <3>1. /\ d \in CommStates /\ d.to_send = 0 /\ d.state = "Idle"
            /\ d.session_active = comm.session_active /\ d.session_id = comm.session_id
            /\ d.heartbeat_timestamp = comm.heartbeat_timestamp
        BY ResetTxFacts DEF PopData, IInv, Sound
      <3> HIDE DEF d
      <3>2. c = ResetRx(d, now)
        BY <2>1 DEF d
      <3> HIDE DEF c
      <3> QED
        BY <3>1, <3>2, ResetRxFacts DEF IInv, Sound, Alive
    <2>2. CASE left # 0
      <3>1. left \in 0 .. TxLength /\ left > 0
        BY <2>2, SizesAssumption DEF IInv, Sound, CommStates
      <3> HIDE DEF left
      <3> QED
        BY <2>2, <3>1 DEF PopData, IInv, Sound, CommStates, Alive
    <2> QED
      BY <2>1, <2>2
  <1>2. /\ comm' = CheckFinishedSending(c, main, now).comm
        /\ main' = CheckFinishedSending(c, main, now).main
    BY DEF PopData
  <1>3. main.processing_request /\ UNCHANGED <<now, session_counter>>
    BY DEF PopData, IInv, InStep
  <1> HIDE DEF c
  <1> QED
    BY <1>1, <1>2, <1>3, CheckFinishedSendingFacts DEF IInv, InStep, SessionKept

\* A response, or a refusal: c is what process() of the CommHandler left.
LEMMA RespondStep ==
  ASSUME IInv, NEW t \in Times, NEW c, Sound(c), Alive(c, t), c.request_received,
         c.state # "Transmitting", now' = t, Respond(c, t)
  PROVE  /\ IInv'
         /\ c.session_active /\ ~comm'.session_active =>
               main.disconnect_pending \/ AsksDisconnect(c, c.request)
         /\ c.session_active /\ comm'.session_active => comm'.session_id = c.session_id
  <1> DEFINE m == [main EXCEPT !.processing_request = TRUE,
                     !.disconnect_pending = main.disconnect_pending \/ AsksDisconnect(c, c.request)]
             executed == ExecutedComm(c, c.request, t)
             sent == SendResponse(executed)
  <1>1. /\ Sound(executed) /\ Alive(executed, t) /\ executed.rx_state \notin {"InFrame", "Error"}
        /\ c.session_active => executed.session_active /\ executed.session_id = c.session_id
    <2>1. CASE c.request.kind = "Connect" /\ ~c.session_active
      <3>1. executed = Connect(c, t)
        BY <2>1 DEF ExecutedComm
      <3>2. Connect(c, t).rx_state = "WaitForCommand"
        BY DEF Connect, ResetRx, Sound, CommStates
      <3> QED
        BY <2>1, <3>1, <3>2, ConnectFacts DEF IInv
    <2>2. CASE /\ ~(c.request.kind = "Connect" /\ ~c.session_active)
               /\ c.request.kind = "Heartbeat" /\ c.request.session_id = c.session_id
               /\ HeartbeatAccepted(c, c.request.challenge)
      <3>1. executed = Heartbeat(c, c.request.challenge, t)
        BY <2>2 DEF ExecutedComm
      <3>2. c.request.challenge \in Challenges
        BY <2>2, Zeros DEF Sound, CommStates, Requests, NoRequest
      <3>3. Heartbeat(c, c.request.challenge, t).rx_state = "WaitForProcess"
        BY DEF Heartbeat, Sound, CommStates
      <3> QED
        BY <3>1, <3>2, <3>3, HeartbeatFacts
    <2>3. CASE /\ ~(c.request.kind = "Connect" /\ ~c.session_active)
               /\ ~(/\ c.request.kind = "Heartbeat" /\ c.request.session_id = c.session_id
                    /\ HeartbeatAccepted(c, c.request.challenge))
      <3>1. executed = c
        BY <2>3 DEF ExecutedComm
      <3> QED
        BY <3>1 DEF Sound
    <2> QED
      BY <2>1, <2>2, <2>3
  <1> HIDE DEF executed
  <1>2. /\ Sound(sent) /\ Alive(sent, t)
        /\ c.session_active => sent.session_active /\ sent.session_id = c.session_id
    BY <1>1, SendResponseFacts
  <1>3. /\ m \in MainStates /\ m.processing_request
        /\ m.disconnect_pending => main.disconnect_pending \/ AsksDisconnect(c, c.request)
    BY DEF IInv, InStep, MainStates, AsksDisconnect
  <1>4. /\ comm' = CheckFinishedSending(sent, m, t).comm
        /\ main' = CheckFinishedSending(sent, m, t).main
    BY DEF Respond, executed
  <1>5. session_counter' \in SessionIds
    BY SizesAssumption DEF Respond, IInv, SessionIds
  <1> HIDE DEF sent, m
  <1> QED
    BY <1>2, <1>3, <1>4, <1>5, CheckFinishedSendingFacts DEF IInv

LEMMA ProcessStep ==
  ASSUME IInv, NEW dt \in 1 .. MaxStep, Process(dt) PROVE IInv' /\ SessionKept(now')
  <1> DEFINE t == Step(now, dt)
             c == CommProcess(comm, t)
  <1>1. t \in Times /\ now' = t
    BY ClockAdvances, ClockAssumption DEF Process, IInv
  <1> HIDE DEF t
  <1>2. /\ Sound(c) /\ Alive(c, t)
        /\ c = comm \/ /\ comm.session_active /\ HasExpired(t, comm.heartbeat_timestamp, HeartbeatTimeout)
                       /\ ~c.session_active /\ ~c.request_received /\ c.state # "Transmitting"
    BY <1>1, CommProcessFacts DEF IInv
  <1> HIDE DEF c
  <1>3. CASE c.request_received /\ ~main.processing_request
    <2>1. c = comm /\ c.state # "Transmitting"
      BY <1>2, <1>3 DEF IInv, InStep
    <2>2. CASE Respond(c, t) \/ GiveUp(c, t)
      BY <1>1, <1>2, <1>3, <2>1, <2>2, RespondStep DEF GiveUp, SessionKept
    <2>3. CASE Postpone(c, t)
      <3>1. main' \in MainStates /\ main'.processing_request = main.processing_request
            /\ main'.disconnect_pending = main.disconnect_pending
        BY <1>1, <2>3 DEF Postpone, IInv, InStep, MainStates
      <3> QED
        BY <1>1, <1>2, <2>1, <2>3, <3>1 DEF Postpone, IInv, InStep, SessionKept
    <2> QED
      BY <1>3, <2>2, <2>3 DEF Process, c, t
  <1>4. CASE ~(c.request_received /\ ~main.processing_request)
    <2>1. /\ comm' = CheckFinishedSending(c, main, t).comm
          /\ main' = CheckFinishedSending(c, main, t).main
          /\ session_counter' = session_counter
      BY <1>4 DEF Process, NothingToExecute, c, t
    <2>2. c.state = "Transmitting" => main.processing_request
      BY <1>2 DEF IInv, InStep
    <2> QED
      BY <1>1, <1>2, <2>1, <2>2, CheckFinishedSendingFacts DEF IInv, InStep, SessionKept
  <1> QED
    BY <1>3, <1>4

LEMMA InductiveStep == IInv /\ [Next]_vars => IInv' /\ (UNCHANGED vars \/ SessionKept(now'))
  <1> SUFFICES ASSUME IInv, [Next]_vars PROVE IInv' /\ (UNCHANGED vars \/ SessionKept(now'))
    OBVIOUS
  <1>1. CASE UNCHANGED vars
    BY <1>1 DEF vars, IInv
  <1>2. CASE Receive
    BY <1>2, ReceiveRequestStep, ReceiveOtherStep DEF Receive, ReceiveRequest, ReceiveOther
  <1>3. CASE Pop
    BY <1>3, PopDataStep DEF Pop, PopData
  <1>4. CASE DoProcess
    BY <1>4, ProcessStep DEF DoProcess
  <1> QED
    BY <1>1, <1>2, <1>3, <1>4 DEF Next

THEOREM InductiveInvariant == Spec => []IInv
  <1>1. Init => IInv
    <2> SUFFICES ASSUME Init PROVE IInv
      OBVIOUS
    <2>1. /\ comm.state = "Idle" /\ comm.to_send = 0 /\ ~comm.request_received
          /\ comm.request = NoRequest /\ comm.rx_state = "WaitForCommand" /\ ~comm.session_active
      BY DEF Init
    <2>2. comm \in CommStates
      BY Zeros DEF Init, CommStates
    <2>3. main \in MainStates /\ ~main.processing_request /\ ~main.disconnect_pending
      BY Zeros DEF Init, MainStates
    <2>4. now \in Times /\ session_counter \in SessionIds
      BY Zeros DEF Init
    <2> QED
      BY <2>1, <2>2, <2>3, <2>4 DEF IInv, Sound, InStep, Alive
  <1> QED
    BY <1>1, InductiveStep, PTL DEF Spec

\* Between two calls of the integration code, the flags of MainHandler and CommHandler
\* agree, a held request is one whose frame was received, and a live session has heard a
\* heartbeat in time.
THEOREM SessionConsistent == Spec => []CommInv
  BY InductiveInvariant, InvariantIsStronger, PTL

\* A session ends by its heartbeat or its own Disconnect, and is never replaced directly.
THEOREM SessionsEndForCause == Spec => SessionEndsForCause
  <1>1. IInv /\ [Next]_vars =>
          [/\ comm.session_active /\ ~comm'.session_active =>
                 \/ HasExpired(now', comm.heartbeat_timestamp, HeartbeatTimeout)
                 \/ main.disconnect_pending
                 \/ AsksDisconnect(comm, comm.request)
           /\ comm.session_active /\ comm'.session_active => comm'.session_id = comm.session_id]_vars
    BY InductiveStep DEF SessionKept
  <1> QED
    BY <1>1, InductiveInvariant, PTL DEF Spec, SessionEndsForCause

\* What process() executes, but Discover and Connect, it executes in a live session.
THEOREM ExecutionInSession == Spec => ExecutedInSession
  <1>1. IInv /\ [Next]_vars =>
          [Executes => \/ comm.request.kind \in {"Discover", "Connect"}
                       \/ /\ comm.session_active
                          /\ ~HasExpired(now', comm.heartbeat_timestamp, HeartbeatTimeout)]_vars
    <2> SUFFICES ASSUME IInv, NEW dt \in 1 .. MaxStep, now' = Step(now, dt),
                        CommProcess(comm, Step(now, dt)).request_received
                 PROVE  \/ comm.request.kind \in {"Discover", "Connect"}
                        \/ /\ comm.session_active
                           /\ ~HasExpired(now', comm.heartbeat_timestamp, HeartbeatTimeout)
      BY DEF Executes
    <2>1. Step(now, dt) \in Times
      BY ClockAdvances, ClockAssumption DEF IInv
    <2>2. CommProcess(comm, Step(now, dt)) = comm /\ Alive(comm, now')
      BY <2>1, CommProcessFacts DEF IInv
    <2> QED
      BY <2>2 DEF IInv, Sound, Alive
  <1> QED
    BY <1>1, InductiveInvariant, PTL DEF Spec, ExecutedInSession
=============================================================================
