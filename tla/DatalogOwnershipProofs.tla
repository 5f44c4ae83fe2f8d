----------------------- MODULE DatalogOwnershipProofs -----------------------
(***************************************************************************)
(* Proofs about DatalogOwnership, for any number of loops and any          *)
(* behaviour of the server: type correctness always, and mutual exclusion  *)
(* on the DataLogger when the loops keep up with the hand-overs.           *)
(***************************************************************************)
EXTENDS DatalogOwnership, TLAPS

\* The type invariant survives each iteration of process_loops().
LEMMA ProcessLoopsType == TypeOK /\ ProcessLoops => TypeOK'
  <1> USE LoopCountAssumption DEF Loops, NULL
  <1> SUFFICES ASSUME TypeOK, ProcessLoops PROVE TypeOK'
    OBVIOUS
  <1>1. mi' \in Loops
    BY DEF TypeOK, ProcessLoops
  <1>2. loop2main' \in [Loops -> [id : Loop2MainMessages, state : DataloggerStates]]
    BY DEF TypeOK, ProcessLoops, Empty, Loop2MainMessages, DataloggerStates
  <1>3. mpc' \in {"logic1", "logic2", "loops1", "loops2"}
    BY DEF ProcessLoops
  <1> USE DEF ProcessLoops, reqVars, loopVars, flags, mainVars, dlVars
  <1>4. CASE HandleTaken(mi)
    BY <1>1, <1>2, <1>3, <1>4 DEF TypeOK, HandleTaken
  <1>5. CASE HandleReleased(mi)
    <2>1. dl_state' \in DataloggerStates
      BY <1>5 DEF HandleReleased, DataloggerStates
    <2> QED
      BY <1>1, <1>2, <1>3, <1>5, <2>1 DEF TypeOK, HandleReleased
  <1>6. CASE HandleStatusUpdate(mi)
    <2>1. loop2main[mi].state \in DataloggerStates
      BY DEF TypeOK
    <2>2. ts_state' \in DataloggerStates
      BY <1>6, <2>1 DEF HandleStatusUpdate
    <2>3. reading_in_progress' \in BOOLEAN
      BY <1>6 DEF TypeOK, HandleStatusUpdate
    <2>4. UNCHANGED <<owner, new_owner, flags, error, dlVars, reqVars, main2loop, loopVars>>
      BY <1>6 DEF HandleStatusUpdate
    <2> QED
      BY <1>1, <1>2, <1>3, <2>2, <2>3, <2>4 DEF TypeOK
  <1>7. CASE HandleNothing(mi)
    BY <1>1, <1>2, <1>3, <1>7 DEF TypeOK, HandleNothing
  <1> QED
    BY <1>4, <1>5, <1>6, <1>7

\* The type invariant survives process_datalogging_logic().
LEMMA LogicType == TypeOK /\ ProcessDataloggingLogic => TypeOK'
  <1> USE LoopCountAssumption DEF Loops, NULL
  <1> SUFFICES ASSUME TypeOK, ProcessDataloggingLogic PROVE TypeOK'
    OBVIOUS
  <1> USE DEF ProcessDataloggingLogic, reqVars, loopVars, flags, mainVars, dlVars,
              Main2LoopMessages, Send, TypeOK
  <1>1. CASE LogicNoOwner
    BY <1>1 DEF LogicNoOwner
  <1>2. CASE LogicOwned
    BY <1>2 DEF LogicOwned, LogicRelease, LogicArm, LogicDisarm
  <1>3. CASE LogicIdle
    BY <1>3 DEF LogicIdle
  <1> QED
    BY <1>1, <1>2, <1>3

\* The type invariant survives the handling of a request.
LEMMA RequestType == TypeOK /\ ProcessRequest => TypeOK'
  <1> SUFFICES ASSUME TypeOK, ProcessRequest PROVE TypeOK'
    OBVIOUS
  <1> USE DEF reqVars, loopVars, flags, mainVars, dlVars, ipcVars, Answer, ProcessAgain, NULL
  <1>0. "Configured" \in DataloggerStates /\ "Idle" \in DataloggerStates
    BY DEF DataloggerStates
  <1>1. CASE ConfigureDatalog
    <2>1. req \in Requests
      BY <1>1 DEF ConfigureDatalog, NoRequest, None, TypeOK
    <2>2. req.loop \in Loops
      BY <2>1, <1>1 DEF Requests, ConfigureDatalog
    <2>3. CASE AskRelease
      BY <1>1, <2>3 DEF ConfigureDatalog, AskRelease, ProcessRequest, TypeOK
    <2>4. CASE ~AskRelease
      BY <1>0, <1>1, <2>2, <2>4 DEF ConfigureDatalog, ProcessRequest, TypeOK
    <2> QED
      BY <2>3, <2>4
  <1>2. CASE ResetDatalogger
    <2>1. CASE AskRelease
      BY <1>2, <2>1 DEF ResetDatalogger, AskRelease, ProcessRequest, TypeOK
    <2>2. CASE ~AskRelease
      BY <1>0, <1>2, <2>2 DEF ResetDatalogger, ProcessRequest, TypeOK
    <2> QED
      BY <2>1, <2>2
  <1>3. CASE ArmTrigger
    BY <1>3 DEF ArmTrigger, ProcessRequest, TypeOK
  <1>4. CASE DisarmTrigger
    BY <1>4 DEF DisarmTrigger, ProcessRequest, TypeOK
  <1>5. CASE ReadAcquisition
    BY <1>5 DEF ReadAcquisition, ProcessRequest, TypeOK
  <1>6. CASE NoRequestToProcess
    BY <1>6 DEF NoRequestToProcess, ProcessRequest, TypeOK
  <1> QED
    BY <1>1, <1>2, <1>3, <1>4, <1>5, <1>6 DEF ProcessRequest

\* The type invariant survives every step of a loop.
LEMMA LoopType == ASSUME TypeOK, NEW l \in Loops, LoopNext(l) PROVE TypeOK'
  <1> USE DEF reqVars, loopVars, flags, mainVars, dlVars, ipcVars
  <1>0. /\ None \in Main2LoopMessages
        /\ {"Idle", "Armed", "Configured"} \subseteq DataloggerStates
    BY DEF Main2LoopMessages, DataloggerStates
  <1>1. ASSUME NEW id \in Loop2MainMessages, NEW state \in DataloggerStates, Report(l, id, state)
        PROVE  loop2main' \in [Loops -> [id : Loop2MainMessages, state : DataloggerStates]]
    BY <1>1 DEF Report, TypeOK
  <1>2. CASE LoopReceive(l)
    <2>1. main2loop' \in [Loops -> Main2LoopMessages]
      BY <1>0, <1>2 DEF LoopReceive, TypeOK
    <2>2. loop2main' \in [Loops -> [id : Loop2MainMessages, state : DataloggerStates]]
      <3>1. {"DATALOGGER_OWNERSHIP_TAKEN", "DATALOGGER_OWNERSHIP_RELEASED"} \subseteq Loop2MainMessages
        BY DEF Loop2MainMessages
      <3>2. CASE UNCHANGED loop2main
        BY <3>2 DEF TypeOK
      <3>3. CASE Report(l, "DATALOGGER_OWNERSHIP_TAKEN", "Idle")
        BY <1>0, <1>1, <3>1, <3>3
      <3>4. CASE Report(l, "DATALOGGER_OWNERSHIP_RELEASED", "Idle")
        BY <1>0, <1>1, <3>1, <3>4
      <3> QED
        BY <1>2, <3>2, <3>3, <3>4 DEF LoopReceive, TakeOwnership, ReleaseOwnership, ArmOrDisarm
    <2>3. /\ dl_state' \in DataloggerStates
          /\ dl_owner' \in Loops \cup {NULL}
          /\ data_acquired' \in [Loops -> BOOLEAN]
      BY <1>0, <1>2 DEF LoopReceive, TakeOwnership, ReleaseOwnership, ArmOrDisarm, TypeOK,
                        ArmedFrom, DisarmedFrom
    <2>4. UNCHANGED dl_timebase
      BY <1>2 DEF LoopReceive, TakeOwnership, ReleaseOwnership, ArmOrDisarm
    <2> QED
      BY <1>2, <2>1, <2>2, <2>3, <2>4 DEF LoopReceive, TypeOK
  <1>3. CASE LoopNoMessage(l)
    BY <1>3 DEF LoopNoMessage, TypeOK
  <1>4. CASE LoopCheckOwner(l)
    BY <1>4 DEF LoopCheckOwner, TypeOK
  <1>5. CASE LoopProcessDatalogger(l)
    BY <1>5 DEF LoopProcessDatalogger, ProcessOutcomes, DataloggerStates, TypeOK
  <1>6. CASE LoopReport(l)
    <2>1. loop2main' \in [Loops -> [id : Loop2MainMessages, state : DataloggerStates]]
      <3>1. {"DATALOGGER_DATA_ACQUIRED", "DATALOGGER_STATUS_UPDATE"} \subseteq Loop2MainMessages
        BY DEF Loop2MainMessages
      <3>2. CASE UNCHANGED loop2main
        BY <3>2 DEF TypeOK
      <3>3. CASE Report(l, "DATALOGGER_DATA_ACQUIRED", "Idle")
        BY <1>0, <1>1, <3>1, <3>3
      <3>4. CASE Report(l, "DATALOGGER_STATUS_UPDATE", dl_state)
        BY <1>1, <3>1, <3>4 DEF TypeOK
      <3> QED
        BY <1>6, <3>2, <3>3, <3>4 DEF LoopReport
    <2>2. data_acquired' \in [Loops -> BOOLEAN]
      BY <1>6 DEF LoopReport, TypeOK
    <2>3. lpc' \in [Loops -> {"idle", "check", "process", "report"}]
      BY <1>6 DEF LoopReport, TypeOK
    <2>4. UNCHANGED <<mpc, mi, mainVars, reqVars, main2loop, dlVars>>
      BY <1>6 DEF LoopReport
    <2> QED
      BY <2>1, <2>2, <2>3, <2>4 DEF TypeOK
  <1> QED
    BY <1>2, <1>3, <1>4, <1>5, <1>6 DEF LoopNext

\* Every variable of the main handler, the loops, the IPC slots and the DataLogger
\* keeps its type, whatever the server sends and however the threads interleave.
THEOREM TypeCorrect == Spec => []TypeOK
  <1>1. Init => TypeOK
    <2> SUFFICES ASSUME Init PROVE TypeOK
      OBVIOUS
    <2>1. 1 \in Loops
      BY LoopCountAssumption DEF Loops
    <2>2. "Idle" \in DataloggerStates /\ None \in Main2LoopMessages /\ None \in Loop2MainMessages
      BY DEF DataloggerStates, Main2LoopMessages, Loop2MainMessages
    <2>3. /\ main2loop \in [Loops -> Main2LoopMessages]
          /\ loop2main \in [Loops -> [id : Loop2MainMessages, state : DataloggerStates]]
      BY <2>2 DEF Init, Empty
    <2> QED
      BY <2>1, <2>2, <2>3 DEF Init, TypeOK, NULL
  <1>2. TypeOK /\ [Next]_vars => TypeOK'
    <2> SUFFICES ASSUME TypeOK, [Next]_vars PROVE TypeOK'
      OBVIOUS
    <2>1. CASE ClientRequest \/ RequestDropped \/ BeginProcess
      BY <2>1 DEF ClientRequest, RequestDropped, BeginProcess, TypeOK, mainVars, ipcVars,
                  dlVars, loopVars, reqVars
    <2>2. CASE UNCHANGED vars
      BY <2>2 DEF TypeOK, vars, mainVars, ipcVars, dlVars, loopVars, reqVars
    <2> QED
      BY <2>1, <2>2, ProcessLoopsType, LogicType, RequestType, LoopType DEF Next, MainNext
  <1> QED
    BY <1>1, <1>2, PTL DEF Spec

-----------------------------------------------------------------------------
(* The inductive invariant. *)

\* The part of the state that OwnershipInv is about.
protocolVars == <<owner, new_owner, request_ownership_release, pending_ownership_release,
                  error, req, main2loop, loop2main, dl_owner, dl_state, dl_timebase, lpc>>

\* A step that leaves the protocol's state alone keeps the invariant.
LEMMA ProtocolUnchanged == OwnershipInv /\ UNCHANGED protocolVars => OwnershipInv'
  BY DEF protocolVars, OwnershipInv, NoOwnershipError, ConfiguredPhase, TakePhase, TakenPhase,
         OwnedPhase, ReleasePhase, PendingReleaseInFlight, RequestPhase, HandoverInFlight,
         ReadyFor, NoneTaking, NoneTaken, NoneReleased, Inside

\* Popping DATALOGGER_OWNERSHIP_TAKEN keeps the invariant.
LEMMA TakenInv ==
    ASSUME TypeOK, OwnershipInv, ProcessLoops, HandleTaken(mi)
    PROVE  OwnershipInv'
  <1> USE DEF TypeOK, OwnershipInv, ProcessLoops, HandleTaken, flags, dlVars, reqVars, loopVars,
              NULL, Loops, Empty, None, ReadyFor, NoneTaking, NoneTaken, NoneReleased
  <1>1. NoOwnershipError'
    BY DEF NoOwnershipError, TakenPhase
  <1>2. ConfiguredPhase'
    BY DEF ConfiguredPhase, TakenPhase
  <1>3. TakePhase' /\ TakenPhase'
    BY DEF TakePhase, TakenPhase
  <1>4. OwnedPhase'
    BY DEF OwnedPhase, TakenPhase
  <1>5. ReleasePhase'
    BY DEF ReleasePhase, TakenPhase
  <1>6. PendingReleaseInFlight'
    BY DEF PendingReleaseInFlight, TakenPhase
  <1>7. RequestPhase'
    BY DEF RequestPhase, HandoverInFlight
  <1>8. (\A l \in Loops : Inside(l) => dl_owner = l)'
    BY DEF Inside
  <1> QED
    BY <1>1, <1>2, <1>3, <1>4, <1>5, <1>6, <1>7, <1>8

\* Popping DATALOGGER_OWNERSHIP_RELEASED, which resets the DataLogger, keeps it.
LEMMA ReleasedInv ==
    ASSUME TypeOK, OwnershipInv, ProcessLoops, HandleReleased(mi)
    PROVE  OwnershipInv'
  <1> USE DEF TypeOK, OwnershipInv, ProcessLoops, HandleReleased, reqVars, loopVars,
              NULL, Loops, Empty, None, ReadyFor, NoneTaking, NoneTaken, NoneReleased
  <1>1. NoOwnershipError'
    BY DEF NoOwnershipError, ReleasePhase
  <1>2. ConfiguredPhase'
    BY DEF ConfiguredPhase
  <1>3. TakePhase' /\ TakenPhase'
    BY DEF TakePhase, TakenPhase
  <1>4. OwnedPhase'
    BY DEF ReleasePhase, OwnedPhase
  <1>5. ReleasePhase'
    BY DEF ReleasePhase
  <1>6. PendingReleaseInFlight'
    BY DEF PendingReleaseInFlight
  <1>7. RequestPhase'
    BY DEF RequestPhase, HandoverInFlight
  <1>8. (\A l \in Loops : Inside(l) => dl_owner = l)'
    BY DEF Inside
  <1> QED
    BY <1>1, <1>2, <1>3, <1>4, <1>5, <1>6, <1>7, <1>8

\* Popping any other message keeps it.
LEMMA OtherMessageInv ==
    ASSUME TypeOK, OwnershipInv, ProcessLoops, HandleStatusUpdate(mi) \/ HandleNothing(mi)
    PROVE  OwnershipInv'
  <1>1. /\ UNCHANGED <<owner, new_owner, flags, error, req, main2loop, dlVars, lpc>>
        /\ loop2main' = [loop2main EXCEPT ![mi] = Empty]
        /\ loop2main[mi].id \in {None, "DATALOGGER_STATUS_UPDATE", "DATALOGGER_DATA_ACQUIRED"}
    BY DEF ProcessLoops, HandleStatusUpdate, HandleNothing, mainVars, flags, dlVars, reqVars, loopVars
  <1>2. \A l \in Loops : /\ (loop2main[l].id = "DATALOGGER_OWNERSHIP_TAKEN")'
                              <=> loop2main[l].id = "DATALOGGER_OWNERSHIP_TAKEN"
                         /\ (loop2main[l].id = "DATALOGGER_OWNERSHIP_RELEASED")'
                              <=> loop2main[l].id = "DATALOGGER_OWNERSHIP_RELEASED"
    BY <1>1 DEF TypeOK, Empty, None
  <1> QED
    BY <1>1, <1>2 DEF TypeOK, OwnershipInv, NoOwnershipError, ConfiguredPhase, TakePhase, TakenPhase,
         OwnedPhase, ReleasePhase, PendingReleaseInFlight, RequestPhase, HandoverInFlight,
         ReadyFor, NoneTaking, NoneTaken, NoneReleased, Inside, flags, dlVars

\* process_datalogging_logic() without an owner keeps it: at most a TAKE is sent.
LEMMA NoOwnerLogicInv ==
    ASSUME TypeOK, OwnershipInv, ProcessDataloggingLogic, LogicNoOwner
    PROVE  OwnershipInv'
  <1>0. UNCHANGED <<owner, request_ownership_release, pending_ownership_release, error, req,
                    loop2main, dl_owner, dl_state, dl_timebase, lpc>>
    BY DEF ProcessDataloggingLogic, LogicNoOwner, dlVars, reqVars, loopVars
  <1>1. CASE UNCHANGED <<main2loop, new_owner>>
    BY <1>0, <1>1, ProtocolUnchanged DEF protocolVars
  <1>2. CASE /\ new_owner # NULL /\ main2loop[new_owner] = None
             /\ Send(new_owner, "TAKE_DATALOGGER_OWNERSHIP") /\ new_owner' = NULL
    <2> USE <1>0, <1>2 DEF LogicNoOwner, Send, TypeOK, OwnershipInv, NULL, None, ReadyFor, NoneTaking,
                           NoneTaken, NoneReleased, Loops
    <2>1. NoOwnershipError' /\ ConfiguredPhase'
      BY DEF NoOwnershipError, ConfiguredPhase
    <2>2. TakePhase' /\ TakenPhase'
      BY DEF TakePhase, TakenPhase, ConfiguredPhase
    <2>3. OwnedPhase'
      BY DEF OwnedPhase
    <2>4. ReleasePhase' /\ PendingReleaseInFlight'
      BY DEF ReleasePhase, PendingReleaseInFlight
    <2>5. RequestPhase'
      BY DEF RequestPhase, HandoverInFlight
    <2>6. (\A l \in Loops : Inside(l) => dl_owner = l)'
      BY DEF Inside
    <2> QED
      BY <2>1, <2>2, <2>3, <2>4, <2>5, <2>6
  <1> QED
    BY <1>1, <1>2 DEF LogicNoOwner

\* process_datalogging_logic() with an owner keeps it: one message to the owner.
LEMMA OwnedLogicInv ==
    ASSUME TypeOK, OwnershipInv, ProcessDataloggingLogic, LogicOwned
    PROVE  OwnershipInv'
  <1>0. /\ UNCHANGED <<owner, new_owner, error, req, loop2main, dl_owner, dl_state, dl_timebase, lpc>>
        /\ owner # NULL /\ main2loop[owner] = None
    BY DEF ProcessDataloggingLogic, LogicOwned, dlVars, reqVars, loopVars
  <1> USE <1>0 DEF Send, TypeOK, OwnershipInv, NULL, None, ReadyFor, NoneTaking,
                   NoneTaken, NoneReleased, Loops
  <1>1. \E m \in {"RELEASE_DATALOGGER_OWNERSHIP", "DATALOGGER_ARM_TRIGGER", "DATALOGGER_DISARM_TRIGGER"} :
           Send(owner, m)
    BY DEF LogicOwned, LogicRelease, LogicArm, LogicDisarm
  <1>2. NoOwnershipError' /\ ConfiguredPhase'
    BY DEF NoOwnershipError, ConfiguredPhase
  <1>3. TakePhase' /\ TakenPhase'
    BY <1>1 DEF TakePhase, TakenPhase
  <1>4. OwnedPhase'
    BY DEF OwnedPhase
  <1>5. RequestPhase'
    BY <1>1 DEF RequestPhase, HandoverInFlight
  <1>6. ReleasePhase' /\ PendingReleaseInFlight'
    <2>1. CASE LogicRelease
      BY <2>1 DEF ReleasePhase, PendingReleaseInFlight, LogicRelease, OwnedPhase
    <2>2. CASE LogicArm
      BY <2>2 DEF ReleasePhase, PendingReleaseInFlight, LogicArm
    <2>3. CASE LogicDisarm
      BY <2>3 DEF ReleasePhase, PendingReleaseInFlight, LogicDisarm
    <2> QED
      BY <2>1, <2>2, <2>3 DEF LogicOwned
  <1>7. (\A l \in Loops : Inside(l) => dl_owner = l)'
    BY DEF Inside
  <1> QED
    BY <1>2, <1>3, <1>4, <1>5, <1>6, <1>7

\* A Configure or Reset that finds an owner keeps it: it asks for the release.
LEMMA AskReleaseInv ==
    ASSUME TypeOK, OwnershipInv, ProcessRequest, ConfigureDatalog \/ ResetDatalogger, AskRelease
    PROVE  OwnershipInv'
  <1>0. /\ UNCHANGED <<owner, new_owner, pending_ownership_release, error, main2loop, loop2main,
                       dl_owner, dl_state, dl_timebase, lpc>>
        /\ owner # NULL
    BY DEF ProcessRequest, ConfigureDatalog, ResetDatalogger, AskRelease, ipcVars, dlVars, loopVars
  <1>1. req' \in {req, NoRequest}
    BY DEF AskRelease, ProcessAgain, Answer
  <1> USE <1>0 DEF OwnershipInv
  <1>2. NoOwnershipError' /\ ConfiguredPhase' /\ TakePhase' /\ TakenPhase' /\ OwnedPhase'
    BY DEF NoOwnershipError, ConfiguredPhase, TakePhase, TakenPhase, OwnedPhase, ReadyFor,
           NoneTaking, NoneTaken, NoneReleased
  <1>3. ReleasePhase'
    BY DEF ReleasePhase, AskRelease, TypeOK
  <1>4. PendingReleaseInFlight'
    BY DEF PendingReleaseInFlight
  <1>5. RequestPhase'
    BY <1>1 DEF RequestPhase, HandoverInFlight, NoRequest, None
  <1>6. (\A l \in Loops : Inside(l) => dl_owner = l)'
    BY DEF Inside
  <1> QED
    BY <1>2, <1>3, <1>4, <1>5, <1>6

\* A Configure or Reset that finds no owner keeps it: no loop holds the DataLogger
\* and none is being given it.
LEMMA MainWriteInv ==
    ASSUME TypeOK, OwnershipInv, ProcessRequest, ConfigureDatalog \/ ResetDatalogger, ~AskRelease
    PROVE  OwnershipInv'
  <1>0. /\ UNCHANGED <<owner, request_ownership_release, pending_ownership_release, error,
                       main2loop, loop2main, dl_owner, lpc>>
        /\ owner = NULL /\ req' = NoRequest
    BY DEF ProcessRequest, ConfigureDatalog, ResetDatalogger, ipcVars, dlVars, loopVars, Answer
  <1>1. /\ new_owner = NULL /\ NoneTaking /\ NoneTaken
        /\ req.sub \in {"ConfigureDatalog", "ResetDatalogger"}
    BY DEF OwnershipInv, RequestPhase, HandoverInFlight, NoneTaking, NoneTaken,
           ConfigureDatalog, ResetDatalogger
  <1>2. dl_owner = NULL /\ NoneReleased
    BY <1>0, <1>1 DEF OwnershipInv, OwnedPhase, ReleasePhase, NoneTaken, NoneReleased, TypeOK, NULL, Loops
  <1>3. \/ new_owner' = NULL /\ dl_state' \in {"Idle", "Configured"}
        \/ new_owner' # NULL /\ dl_state' = "Configured" /\ dl_timebase' = new_owner'
    BY <1>0, <1>1 DEF ConfigureDatalog, ResetDatalogger
  <1> USE <1>0, <1>1, <1>2, <1>3 DEF OwnershipInv, NoneTaking, NoneTaken, NoneReleased
  <1>4. NoOwnershipError' /\ ConfiguredPhase' /\ TakePhase' /\ TakenPhase' /\ OwnedPhase'
    BY DEF NoOwnershipError, ConfiguredPhase, TakePhase, TakenPhase, OwnedPhase, ReadyFor
  <1>5. ReleasePhase' /\ PendingReleaseInFlight'
    BY DEF ReleasePhase, PendingReleaseInFlight
  <1>6. RequestPhase'
    BY DEF RequestPhase, NoRequest, None
  <1>7. (\A l \in Loops : Inside(l) => dl_owner = l)'
    BY DEF Inside
  <1> QED
    BY <1>4, <1>5, <1>6, <1>7

\* The requests that only set a flag or read keep it.
LEMMA OtherRequestInv ==
    ASSUME OwnershipInv, ProcessRequest,
           ArmTrigger \/ DisarmTrigger \/ ReadAcquisition \/ NoRequestToProcess
    PROVE  OwnershipInv'
  <1>1. UNCHANGED <<owner, new_owner, request_ownership_release, pending_ownership_release,
                    error, main2loop, loop2main, dl_owner, dl_state, dl_timebase, lpc>>
    BY DEF ProcessRequest, ArmTrigger, DisarmTrigger, ReadAcquisition, NoRequestToProcess,
           ipcVars, dlVars, loopVars, flags, mainVars
  <1>2. req' = NoRequest
    BY DEF ArmTrigger, DisarmTrigger, ReadAcquisition, NoRequestToProcess, Answer, reqVars
  <1> QED
    BY <1>1, <1>2 DEF OwnershipInv, NoOwnershipError, ConfiguredPhase, TakePhase, TakenPhase,
         OwnedPhase, ReleasePhase, PendingReleaseInFlight, RequestPhase, NoRequest, None,
         ReadyFor, NoneTaking, NoneTaken, NoneReleased, Inside

\* A loop that handles TAKE keeps it.
LEMMA TakeOwnershipInv ==
    ASSUME TypeOK, OwnershipInv, NEW l \in Loops, LoopReceive(l), TakeOwnership(l)
    PROVE  OwnershipInv'
  <1>0. /\ UNCHANGED <<owner, new_owner, request_ownership_release, pending_ownership_release,
                       error, req, dl_state, dl_timebase>>
        /\ dl_owner' = l
        /\ lpc' = [lpc EXCEPT ![l] = "check"]
        /\ main2loop' = [main2loop EXCEPT ![l] = None]
        /\ loop2main' = [loop2main EXCEPT ![l] = [id |-> "DATALOGGER_OWNERSHIP_TAKEN", state |-> "Idle"]]
    BY DEF LoopReceive, TakeOwnership, Report, mainVars, reqVars
  <1>1. /\ owner = NULL /\ new_owner = NULL /\ ReadyFor(l) /\ NoneTaken /\ NoneReleased
        /\ \A k \in Loops \ {l} : main2loop[k] # "TAKE_DATALOGGER_OWNERSHIP"
    BY DEF OwnershipInv, TakePhase, ReadyFor, TakeOwnership
  <1> USE <1>0, <1>1 DEF OwnershipInv, ReadyFor, NoneTaking, NoneTaken, NoneReleased, None, NULL, TypeOK, Loops
  <1>2. NoOwnershipError' /\ ConfiguredPhase' /\ TakePhase'
    BY DEF NoOwnershipError, ConfiguredPhase, TakePhase
  <1>3. TakenPhase'
    BY DEF TakenPhase
  <1>4. OwnedPhase'
    BY DEF OwnedPhase
  <1>5. ReleasePhase' /\ PendingReleaseInFlight'
    BY DEF ReleasePhase, PendingReleaseInFlight
  <1>6. RequestPhase'
    BY DEF RequestPhase, HandoverInFlight, TakeOwnership
  <1>7. (\A k \in Loops : Inside(k) => dl_owner = k)'
    BY DEF Inside
  <1> QED
    BY <1>2, <1>3, <1>4, <1>5, <1>6, <1>7

\* A loop that handles RELEASE keeps it: it does own, so it answers.
LEMMA ReleaseOwnershipInv ==
    ASSUME TypeOK, OwnershipInv, NEW l \in Loops, LoopReceive(l), ReleaseOwnership(l)
    PROVE  OwnershipInv'
  <1>1. owner = l /\ dl_owner = l /\ pending_ownership_release /\ NoneTaken
    BY DEF OwnershipInv, ReleasePhase, TakenPhase, ReleaseOwnership, NoneTaken, NULL, Loops
  <1>2. /\ UNCHANGED <<owner, new_owner, request_ownership_release, pending_ownership_release,
                       error, req, dl_state, dl_timebase>>
        /\ dl_owner' = NULL
        /\ lpc' = [lpc EXCEPT ![l] = "check"]
        /\ main2loop' = [main2loop EXCEPT ![l] = None]
        /\ loop2main' = [loop2main EXCEPT ![l] = [id |-> "DATALOGGER_OWNERSHIP_RELEASED", state |-> "Idle"]]
    BY <1>1 DEF LoopReceive, ReleaseOwnership, OwnsDatalogger, Report, mainVars, reqVars
  <1>3. lpc[l] = "idle"
    BY DEF LoopReceive
  <1> USE <1>1, <1>2 DEF OwnershipInv, ReadyFor, NoneTaking, NoneTaken, NoneReleased, None, NULL, TypeOK, Loops
  <1>4. NoOwnershipError' /\ ConfiguredPhase' /\ TakePhase'
    BY DEF NoOwnershipError, ConfiguredPhase, TakePhase
  <1>5. TakenPhase'
    BY DEF TakenPhase
  <1>6. OwnedPhase'
    BY DEF OwnedPhase
  <1>7. ReleasePhase' /\ PendingReleaseInFlight'
    BY DEF ReleasePhase, PendingReleaseInFlight
  <1>8. RequestPhase'
    BY DEF RequestPhase, HandoverInFlight
  <1>9. (\A k \in Loops : Inside(k) => dl_owner = k)'
    BY <1>3 DEF Inside
  <1> QED
    BY <1>4, <1>5, <1>6, <1>7, <1>8, <1>9

\* A loop that handles ARM or DISARM keeps it: if it owns, so does the main
\* handler think.
LEMMA ArmOrDisarmInv ==
    ASSUME TypeOK, OwnershipInv, NEW l \in Loops, LoopReceive(l), ArmOrDisarm(l)
    PROVE  OwnershipInv'
  <1>0. /\ UNCHANGED <<owner, new_owner, request_ownership_release, pending_ownership_release,
                       error, req, dl_owner, dl_timebase, loop2main>>
        /\ lpc' = [lpc EXCEPT ![l] = "check"]
        /\ main2loop' = [main2loop EXCEPT ![l] = None]
        /\ main2loop[l] \in {"DATALOGGER_ARM_TRIGGER", "DATALOGGER_DISARM_TRIGGER"}
    BY DEF LoopReceive, ArmOrDisarm, Report, mainVars, reqVars
  <1>1. \/ dl_owner # l /\ dl_state' = dl_state
        \/ dl_owner = l /\ owner = l /\ dl_state # "Idle" /\ dl_state' # "Idle"
    <2>1. dl_owner = l => owner = l /\ dl_state # "Idle"
      BY <1>0 DEF OwnershipInv, OwnedPhase, TakenPhase, None, NULL, Loops
    <2>2. dl_owner # l => dl_state' = dl_state
      BY DEF ArmOrDisarm, OwnsDatalogger
    <2>3. dl_state # "Idle" => dl_state' # "Idle"
      BY DEF ArmOrDisarm, ArmedFrom, DisarmedFrom
    <2> QED
      BY <2>1, <2>2, <2>3
  <1> USE <1>0, <1>1 DEF OwnershipInv, ReadyFor, NoneTaking, NoneTaken, NoneReleased, None, NULL, TypeOK, Loops
  <1>4. NoOwnershipError' /\ ConfiguredPhase' /\ TakePhase'
    BY DEF NoOwnershipError, ConfiguredPhase, TakePhase
  <1>5. TakenPhase'
    BY DEF TakenPhase
  <1>6. OwnedPhase'
    BY DEF OwnedPhase
  <1>7. ReleasePhase' /\ PendingReleaseInFlight'
    BY DEF ReleasePhase, PendingReleaseInFlight
  <1>8. RequestPhase'
    BY DEF RequestPhase, HandoverInFlight
  <1>9. (\A k \in Loops : Inside(k) => dl_owner = k)'
    BY DEF Inside
  <1>10. (owner = NULL => dl_state \in {"Idle", "Configured", "Error"})'
    OBVIOUS
  <1> QED
    BY <1>4, <1>5, <1>6, <1>7, <1>8, <1>9, <1>10

\* The rest of a loop's pass keeps it.
LEMMA LoopPassInv ==
    ASSUME TypeOK, OwnershipInv, NEW l \in Loops,
           LoopNoMessage(l) \/ LoopCheckOwner(l) \/ LoopProcessDatalogger(l) \/ LoopReport(l)
    PROVE  OwnershipInv'
  <1>0. UNCHANGED <<owner, new_owner, request_ownership_release, pending_ownership_release,
                    error, req, dl_owner, dl_timebase, main2loop>>
    BY DEF LoopNoMessage, LoopCheckOwner, LoopProcessDatalogger, LoopReport, mainVars, reqVars,
           ipcVars, dlVars
  <1>1. \/ dl_state' = dl_state
        \/ /\ dl_owner = l /\ dl_state' # "Idle"
           /\ owner = NULL => dl_state' \in {"Configured", "Error"}
    <2>1. CASE LoopProcessDatalogger(l)
      <3>1. dl_owner = l /\ dl_state # "Idle"
        BY <2>1 DEF OwnershipInv, OwnedPhase, LoopProcessDatalogger, Inside, NULL, Loops
      <3>2. dl_state' # "Idle"
        BY <2>1, <3>1 DEF LoopProcessDatalogger, ProcessOutcomes
      <3>3. owner = NULL => dl_state' \in {"Configured", "Error"}
        BY <2>1, <3>1 DEF LoopProcessDatalogger, ProcessOutcomes, OwnershipInv
      <3> QED
        BY <3>1, <3>2, <3>3
    <2> QED
      BY <2>1 DEF LoopNoMessage, LoopCheckOwner, LoopReport, dlVars
  <1>2. \A k \in Loops : /\ (loop2main[k].id = "DATALOGGER_OWNERSHIP_TAKEN")'
                              <=> loop2main[k].id = "DATALOGGER_OWNERSHIP_TAKEN"
                         /\ (loop2main[k].id = "DATALOGGER_OWNERSHIP_RELEASED")'
                              <=> loop2main[k].id = "DATALOGGER_OWNERSHIP_RELEASED"
    BY DEF LoopNoMessage, LoopCheckOwner, LoopProcessDatalogger, LoopReport, Report, ipcVars,
           TypeOK, None
  <1>3. (\A k \in Loops : Inside(k) => dl_owner = k)'
    BY <1>0 DEF OwnershipInv, Inside, LoopNoMessage, LoopCheckOwner, LoopProcessDatalogger, LoopReport,
                OwnsDatalogger, TypeOK
  <1> USE <1>0, <1>1, <1>2 DEF OwnershipInv, ReadyFor, NoneTaking, NoneTaken, NoneReleased, NULL, TypeOK, Loops
  <1>4. NoOwnershipError' /\ ConfiguredPhase' /\ TakePhase'
    BY DEF NoOwnershipError, ConfiguredPhase, TakePhase
  <1>5. TakenPhase'
    BY DEF TakenPhase
  <1>6. OwnedPhase'
    BY DEF OwnedPhase
  <1>7. ReleasePhase' /\ PendingReleaseInFlight'
    BY DEF ReleasePhase, PendingReleaseInFlight
  <1>8. RequestPhase'
    BY DEF RequestPhase, HandoverInFlight
  <1>10. (owner = NULL => dl_state \in {"Idle", "Configured", "Error"})'
    OBVIOUS
  <1> QED
    BY <1>3, <1>4, <1>5, <1>6, <1>7, <1>8, <1>10

\* The steps between two calls of process() keep it; this is the only place where
\* it matters that the loops keep up.
LEMMA PollInv ==
    ASSUME OwnershipInv, LoopsKeepUp, ClientRequest \/ RequestDropped \/ BeginProcess
    PROVE  OwnershipInv'
  <1>1. UNCHANGED <<owner, new_owner, request_ownership_release, pending_ownership_release,
                    error, main2loop, loop2main, dl_owner, dl_state, dl_timebase, lpc>>
    BY DEF ClientRequest, RequestDropped, BeginProcess, mainVars, ipcVars, dlVars, loopVars
  <1>2. RequestPhase'
    BY <1>1 DEF ClientRequest, RequestDropped, BeginProcess, OwnershipInv, RequestPhase,
                HandoverInFlight, NoRequest, None, reqVars
  <1> QED
    BY <1>1, <1>2 DEF OwnershipInv, NoOwnershipError, ConfiguredPhase, TakePhase, TakenPhase,
         OwnedPhase, ReleasePhase, PendingReleaseInFlight,
         ReadyFor, NoneTaking, NoneTaken, NoneReleased, Inside

\* Every step keeps the invariant.
LEMMA OwnershipInvStep ==
    ASSUME LoopsKeepUp, TypeOK, OwnershipInv, [Next]_vars
    PROVE  OwnershipInv'
  <1>1. CASE UNCHANGED vars
    BY <1>1, ProtocolUnchanged DEF vars, protocolVars, mainVars, reqVars, ipcVars, dlVars, loopVars
  <1>2. CASE ClientRequest \/ RequestDropped \/ BeginProcess
    BY <1>2, PollInv
  <1>3. CASE ProcessLoops
    BY <1>3, TakenInv, ReleasedInv, OtherMessageInv DEF ProcessLoops
  <1>4. CASE ProcessDataloggingLogic
    <2>1. CASE LogicIdle
      BY <1>4, <2>1, ProtocolUnchanged DEF ProcessDataloggingLogic, LogicIdle, protocolVars,
         mainVars, reqVars, dlVars, loopVars
    <2> QED
      BY <1>4, <2>1, NoOwnerLogicInv, OwnedLogicInv DEF ProcessDataloggingLogic
  <1>5. CASE ProcessRequest
    BY <1>5, AskReleaseInv, MainWriteInv, OtherRequestInv DEF ProcessRequest
  <1>6. CASE \E l \in Loops : LoopNext(l)
    <2>1. PICK l \in Loops : LoopNext(l)
      BY <1>6
    <2>2. CASE LoopReceive(l)
      BY <2>2, TakeOwnershipInv, ReleaseOwnershipInv, ArmOrDisarmInv DEF LoopReceive
    <2> QED
      BY <2>1, <2>2, LoopPassInv DEF LoopNext
  <1> QED
    BY <1>1, <1>2, <1>3, <1>4, <1>5, <1>6 DEF Next, MainNext

\* When the loops keep up, the phases of the hand-over exclude one another.
THEOREM OwnershipInvariant == ASSUME LoopsKeepUp PROVE Spec => []OwnershipInv
  <1>1. Init => OwnershipInv
    BY DEF Init, OwnershipInv, NoOwnershipError, ConfiguredPhase, TakePhase, TakenPhase,
         OwnedPhase, ReleasePhase, PendingReleaseInFlight, RequestPhase, NoRequest, None, NULL, Empty,
         ReadyFor, NoneTaking, NoneTaken, NoneReleased, Inside
  <1>2. TypeOK /\ OwnershipInv /\ [Next]_vars => OwnershipInv'
    BY OwnershipInvStep
  <1> QED
    BY <1>1, <1>2, TypeCorrect, PTL DEF Spec

\* While the main handler rewrites or resets the DataLogger, no loop uses it and
\* none is about to take it.
THEOREM MainExclusion == ASSUME LoopsKeepUp PROVE Spec => []MainWritesAlone
  <1>1. TypeOK /\ OwnershipInv => MainWritesAlone
    <2> SUFFICES ASSUME TypeOK, OwnershipInv, MainWrites
                 PROVE  /\ dl_owner = NULL
                        /\ \A l \in Loops : ~Inside(l) /\ main2loop[l] # "TAKE_DATALOGGER_OWNERSHIP"
      BY DEF MainWritesAlone
    <2>1. dl_owner = NULL /\ NoneTaking
      <3>1. CASE mpc = "request" /\ owner = NULL /\ req.sub \in {"ConfigureDatalog", "ResetDatalogger"}
        BY <3>1 DEF OwnershipInv, RequestPhase, HandoverInFlight, OwnedPhase, NoneTaking, TypeOK, NULL
      <3>2. CASE loop2main[mi].id = "DATALOGGER_OWNERSHIP_RELEASED"
        BY <3>2 DEF OwnershipInv, ReleasePhase, TakePhase, NoneTaking, NoneReleased, TypeOK
      <3> QED
        BY <3>1, <3>2 DEF MainWrites
    <2> QED
      BY <2>1 DEF OwnershipInv, NoneTaking, NULL, Loops
  <1> QED
    BY <1>1, TypeCorrect, OwnershipInvariant, PTL

\* Only the owning loop, for which the DataLogger was configured, runs it.
THEOREM LoopExclusion == ASSUME LoopsKeepUp PROVE Spec => []OwnLoopOnly
  <1>1. OwnershipInv => OwnLoopOnly
    BY DEF OwnershipInv, OwnLoopOnly, OwnedPhase, NULL, Loops
  <1> QED
    BY <1>1, OwnershipInvariant, PTL

\* Arm, disarm and release messages act only on the ownership they were sent for.
THEOREM CommandsSafe == ASSUME LoopsKeepUp PROVE Spec => []CommandsForThisOwnership
  <1>1. OwnershipInv => CommandsForThisOwnership
    BY DEF OwnershipInv, CommandsForThisOwnership, OwnedPhase, ReleasePhase, TakenPhase, NULL, Loops, None
  <1> QED
    BY <1>1, OwnershipInvariant, PTL

\* Once the messages of a hand-over are delivered, MainHandler and DataLogger agree
\* on the owner.
THEOREM OwnersAgreement == ASSUME LoopsKeepUp PROVE Spec => []OwnersAgree
  <1>1. TypeOK /\ OwnershipInv => OwnersAgree
    BY DEF OwnershipInv, OwnersAgree, NoHandoverMessage, ConfiguredPhase, TakePhase, TakenPhase, OwnedPhase,
         ReleasePhase, TypeOK, NULL, Loops, None, NoneTaking, NoneTaken, NoneReleased
  <1> QED
    BY <1>1, TypeCorrect, OwnershipInvariant, PTL

\* A release the main handler waits for is on its way, and the state it reads without
\* a message while it has no owner is not one that an acquisition is moving on from.
THEOREM ReleaseInFlight == ASSUME LoopsKeepUp PROVE Spec => [](PendingReleaseInFlight /\ DirectReadSettled)
  <1>1. OwnershipInv => PendingReleaseInFlight /\ DirectReadSettled
    BY DEF OwnershipInv, DirectReadSettled
  <1> QED
    BY <1>1, OwnershipInvariant, PTL

\* Main handler and loops together implement the lease: the DataLogger is used by
\* one party at a time and changes hands as DataloggerLease says.
THEOREM LeaseImplemented == ASSUME LoopsKeepUp PROVE Spec => ImplementsLease
  <1> DEFINE LNext == Lease!LeaseNext
             lvars == <<dl_owner, dl_state, dl_timebase>>
  <1>1. Init => Lease!LeaseInit
    BY DEF Init, Lease!LeaseInit, NULL
  <1>2. TypeOK /\ OwnershipInv /\ [Next]_vars => [LNext]_lvars
    <2> SUFFICES ASSUME TypeOK, OwnershipInv, [Next]_vars PROVE LNext \/ UNCHANGED lvars
      OBVIOUS
    <2> USE DEF Lease!LeaseNext, Lease!LeaseLoops, Loops
    <2>1. CASE UNCHANGED vars
      BY <2>1 DEF vars, dlVars
    <2>2. CASE ClientRequest \/ RequestDropped \/ BeginProcess \/ ProcessDataloggingLogic
      BY <2>2 DEF ClientRequest, RequestDropped, BeginProcess, ProcessDataloggingLogic, dlVars
    <2>3. CASE ProcessLoops
      <3>1. CASE HandleReleased(mi)
        BY <3>1 DEF HandleReleased, OwnershipInv, ReleasePhase, TypeOK, NULL, Lease!MainResets
      <3> QED
        BY <2>3, <3>1 DEF ProcessLoops, HandleTaken, HandleStatusUpdate, HandleNothing, dlVars
    <2>4. CASE ProcessRequest
      <3>1. CASE (ConfigureDatalog \/ ResetDatalogger) /\ ~AskRelease
        <4>1. dl_owner = 0 /\ dl_owner' = dl_owner
          BY <3>1 DEF OwnershipInv, OwnedPhase, RequestPhase, HandoverInFlight, TypeOK, NULL,
                      ConfigureDatalog, ResetDatalogger
        <4>2. CASE ResetDatalogger
          BY <3>1, <4>1, <4>2 DEF ResetDatalogger, Lease!MainResets
        <4>3. CASE ConfigureDatalog
          <5>1. req.loop \in Loops
            BY <4>3 DEF ConfigureDatalog, TypeOK, NoRequest, None, Requests, NULL
          <5>2. CASE req.outcome = "OK"
            BY <3>1, <4>1, <4>3, <5>1, <5>2 DEF ConfigureDatalog, Lease!MainConfigures
          <5>3. CASE req.outcome # "OK"
            BY <3>1, <4>1, <4>3, <5>1, <5>3 DEF ConfigureDatalog, Lease!MainResets
          <5> QED
            BY <5>2, <5>3
        <4> QED
          BY <3>1, <4>2, <4>3
      <3>2. CASE (ConfigureDatalog \/ ResetDatalogger) /\ AskRelease
        BY <3>2 DEF AskRelease, dlVars
      <3> QED
        BY <2>4, <3>1, <3>2 DEF ProcessRequest, ArmTrigger, DisarmTrigger, ReadAcquisition,
           NoRequestToProcess, dlVars
    <2>5. ASSUME NEW l \in Loops, LoopNext(l) PROVE LNext \/ UNCHANGED lvars
      <3>1. CASE LoopReceive(l) /\ TakeOwnership(l)
        BY <3>1 DEF TakeOwnership, OwnershipInv, TakePhase, ReadyFor, NULL, Lease!Grant
      <3>2. CASE LoopReceive(l) /\ ReleaseOwnership(l)
        BY <3>2 DEF ReleaseOwnership, OwnsDatalogger, NULL, Lease!GiveBack
      <3>3. CASE LoopReceive(l) /\ ArmOrDisarm(l)
        <4>1. CASE OwnsDatalogger(l)
          <5>1. dl_state' \in {"Configured", "Armed", "Triggered", "AcquisitionCompleted", "Error"}
            BY <3>3, <4>1 DEF ArmOrDisarm, ArmedFrom, DisarmedFrom, OwnsDatalogger, OwnershipInv,
                              OwnedPhase, TypeOK, DataloggerStates, NULL
          <5> QED
            BY <3>3, <4>1, <5>1 DEF ArmOrDisarm, OwnsDatalogger, Lease!LoopWorks
        <4> QED
          BY <3>3, <4>1 DEF ArmOrDisarm
      <3>4. CASE LoopProcessDatalogger(l)
        <4>1. dl_owner = l /\ dl_state # "Idle"
          BY <3>4 DEF OwnershipInv, OwnedPhase, LoopProcessDatalogger, Inside, NULL
        <4>2. dl_state' \in {"Configured", "Armed", "Triggered", "AcquisitionCompleted", "Error"}
          BY <3>4, <4>1 DEF LoopProcessDatalogger, ProcessOutcomes, TypeOK, DataloggerStates
        <4> QED
          BY <3>4, <4>1, <4>2 DEF LoopProcessDatalogger, Lease!LoopWorks
      <3> QED
        BY <2>5, <3>1, <3>2, <3>3, <3>4 DEF LoopNext, LoopReceive, LoopNoMessage, LoopCheckOwner,
           LoopReport, dlVars
    <2> QED
      BY <2>1, <2>2, <2>3, <2>4, <2>5 DEF Next, MainNext
  <1> QED
    BY <1>1, <1>2, TypeCorrect, OwnershipInvariant, PTL
       DEF Spec, ImplementsLease, Lease!LeaseSpec, Lease!leaseVars

\* The DataLogger is never taken from a loop that has not given it back.
THEOREM NeverTakenAway == ASSUME LoopsKeepUp PROVE Spec => NeverStolen
  <1>1. [Lease!LeaseNext]_(Lease!leaseVars)
           => [dl_owner' # dl_owner => dl_owner = NULL \/ dl_owner' = NULL]_vars
    BY DEF Lease!LeaseNext, Lease!leaseVars, Lease!MainResets, Lease!MainConfigures, Lease!Grant,
         Lease!LoopWorks, Lease!GiveBack, NULL
  <1> QED
    BY <1>1, LeaseImplemented, PTL DEF ImplementsLease, Lease!LeaseSpec, NeverStolen
=============================================================================
