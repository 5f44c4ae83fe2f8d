-------------------------- MODULE DatalogOwnership --------------------------
(***************************************************************************)
(* The hand-over of the DataLogger between the thread of the MainHandler   *)
(* and the threads (or interrupts) of the LoopHandlers, through two        *)
(* single-slot IPC messages per loop.                                      *)
(*                                                                         *)
(* One step of the model is one stretch of code between two accesses to    *)
(* shared state that another thread can observe:                           *)
(*   main:  poll -> loops1 (one step per loop) -> logic1 -> request        *)
(*               -> loops2 (one step per loop) -> logic2 -> poll           *)
(*   loop:  idle -> check -> process -> report -> idle                     *)
(* which is the order of MainHandler::process() and of                     *)
(* LoopHandler::process_common().                                          *)
(***************************************************************************)
EXTENDS Naturals

CONSTANTS
    LoopCount,    \* m_config.m_loop_count
    LoopsKeepUp,  \* TRUE: the server's next Configure or Reset comes only after
                  \* the loop has run and reported the previous hand-over
    Preemptive,   \* TRUE: a pass of a loop (an interrupt) is not interleaved
                  \* with steps of the main thread
    ClientUses,   \* the DataLogControl subfunctions the server sends
    ConfigOutcomes \* the outcomes that its Configure requests can have

ASSUME LoopCountAssumption == LoopCount \in Nat \ {0}
ASSUME SchedulingAssumption == LoopsKeepUp \in BOOLEAN /\ Preemptive \in BOOLEAN

Loops == 1 .. LoopCount
NULL == 0                  \* the null LoopHandler pointer

DataloggerStates ==
    {"Idle", "Configured", "Armed", "Triggered", "AcquisitionCompleted", "Error"}

\* DataLogger states in which DataLogger::process() does something.
AcquiringStates == {"Configured", "Armed", "Triggered"}

None == "none"             \* an IPC slot whose has_content() is false
Main2LoopMessages ==
    {None, "TAKE_DATALOGGER_OWNERSHIP", "RELEASE_DATALOGGER_OWNERSHIP",
     "DATALOGGER_ARM_TRIGGER", "DATALOGGER_DISARM_TRIGGER"}
Loop2MainMessages ==
    {None, "DATALOGGER_OWNERSHIP_TAKEN", "DATALOGGER_OWNERSHIP_RELEASED",
     "DATALOGGER_STATUS_UPDATE", "DATALOGGER_DATA_ACQUIRED"}

\* Outcomes of the checks on a Configure request: accepted, refused before
\* DataLogger::configure() is called, or refused by it.
Outcomes == {"OK", "Refused", "InvalidRequest"}
Subfunctions == {"ConfigureDatalog", "ResetDatalogger", "ArmTrigger",
                 "DisarmTrigger", "ReadAcquisition"}
ASSUME ClientAssumption == ClientUses \subseteq Subfunctions /\ ConfigOutcomes \subseteq Outcomes

Requests ==
    {r \in [sub : ClientUses, loop : Loops \cup {NULL}, outcome : ConfigOutcomes \cup {"OK"}] :
        IF r.sub = "ConfigureDatalog" THEN r.loop # NULL /\ r.outcome \in ConfigOutcomes
                                      ELSE r.loop = NULL /\ r.outcome = "OK"}
NoRequest == [sub |-> None, loop |-> NULL, outcome |-> "OK"]

VARIABLES
    \* main handler
    mpc,                        \* where the main thread is in process()
    mi,                         \* the loop index of process_loops()
    owner,                      \* m_datalogging.owner
    new_owner,                  \* m_datalogging.new_owner
    request_arm_trigger,
    request_disarm_trigger,
    request_ownership_release,
    pending_ownership_release,
    error,                      \* m_datalogging.error
    ts_state,                   \* m_datalogging.threadsafe_data.datalogger_state
    reading_in_progress,
    req,                        \* the request held by the comm handler
    again,                      \* m_process_again_timestamp_taken
    \* IPC slots
    main2loop,                  \* main2loop[l]: message id, or None
    loop2main,                  \* loop2main[l]: [id, state]
    \* the shared DataLogger
    dl_owner,                   \* DataLogger::m_owner
    dl_state,                   \* DataLogger::m_state
    dl_timebase,                \* DataLogger::m_timebase, as the loop it belongs to
    \* loops
    lpc,                        \* where each loop is in process_common()
    data_acquired               \* LoopHandler::m_datalogger_data_acquired

mainVars == <<owner, new_owner, request_arm_trigger, request_disarm_trigger,
              request_ownership_release, pending_ownership_release, error,
              ts_state, reading_in_progress>>
flags == <<request_arm_trigger, request_disarm_trigger,
           request_ownership_release, pending_ownership_release>>
reqVars == <<req, again>>
ipcVars == <<main2loop, loop2main>>
dlVars == <<dl_owner, dl_state, dl_timebase>>
loopVars == <<lpc, data_acquired>>
vars == <<mpc, mi, mainVars, reqVars, ipcVars, dlVars, loopVars>>

Empty == [id |-> None, state |-> "Idle"]

-----------------------------------------------------------------------------
\* MainHandler::init, LoopHandler::init and DataLogger::init.
Init ==
    /\ mpc = "poll" /\ mi = 1
    /\ owner = NULL /\ new_owner = NULL
    /\ request_arm_trigger = FALSE /\ request_disarm_trigger = FALSE
    /\ request_ownership_release = FALSE /\ pending_ownership_release = FALSE
    /\ error = "NoError" /\ ts_state = "Idle" /\ reading_in_progress = FALSE
    /\ req = NoRequest /\ again = FALSE
    /\ main2loop = [l \in Loops |-> None]
    /\ loop2main = [l \in Loops |-> Empty]
    /\ dl_owner = NULL /\ dl_state = "Idle" /\ dl_timebase = NULL
    /\ lpc = [l \in Loops |-> "idle"]
    /\ data_acquired = [l \in Loops |-> FALSE]

-----------------------------------------------------------------------------
(* The main thread *)

\* With Preemptive loops the main thread only runs while no loop does.
MainMayRun == Preemptive => \A l \in Loops : lpc[l] = "idle"

\* A hand-over to a loop has been decided and not yet confirmed by that loop.
HandoverInFlight ==
    \/ new_owner # NULL
    \/ \E l \in Loops : \/ main2loop[l] = "TAKE_DATALOGGER_OWNERSHIP"
                        \/ loop2main[l].id = "DATALOGGER_OWNERSHIP_TAKEN"

\* Between two calls of process(), a complete request has been received.
ClientRequest ==
    /\ mpc = "poll" /\ MainMayRun
    /\ req = NoRequest
    /\ \E r \in Requests :
          /\ (LoopsKeepUp /\ r.sub \in {"ConfigureDatalog", "ResetDatalogger"}) => ~HandoverInFlight
          /\ req' = r
    /\ UNCHANGED <<mpc, mi, mainVars, again, ipcVars, dlVars, loopVars>>

\* Between two calls of process(), the comm handler drops the request it holds
\* (reset_rx on a timeout, reset on a lost heartbeat); the main handler is not told.
RequestDropped ==
    /\ mpc = "poll" /\ MainMayRun
    /\ req # NoRequest
    /\ req' = NoRequest
    /\ UNCHANGED <<mpc, mi, mainVars, again, ipcVars, dlVars, loopVars>>

BeginProcess ==
    /\ mpc = "poll" /\ MainMayRun
    /\ mpc' = "loops1"
    /\ UNCHANGED <<mi, mainVars, reqVars, ipcVars, dlVars, loopVars>>

\* process_datalogging_loop_msg, by message id.
HandleTaken(l) ==
    /\ loop2main[l].id = "DATALOGGER_OWNERSHIP_TAKEN"
    /\ error' = IF owner # NULL THEN "UnexpectedClaim" ELSE error
    /\ owner' = l
    /\ UNCHANGED <<new_owner, flags, ts_state, reading_in_progress, dlVars>>

\* Faulty variants (names starting with Faulty) are not part of the model: each is
\* a slip that the properties are sensitive to.
HandleReleased(l) ==
    /\ loop2main[l].id = "DATALOGGER_OWNERSHIP_RELEASED"
    /\ error' = IF owner # l THEN "UnexpectedRelease" ELSE error
    /\ owner' = NULL
    /\ dl_state' = "Idle"                              \* datalogger.reset()
    /\ pending_ownership_release' = FALSE
    /\ UNCHANGED <<new_owner, request_arm_trigger, request_disarm_trigger,
                   request_ownership_release, ts_state, reading_in_progress,
                   dl_owner, dl_timebase>>

HandleStatusUpdate(l) ==
    /\ loop2main[l].id = "DATALOGGER_STATUS_UPDATE"
    /\ ts_state' = loop2main[l].state
    /\ reading_in_progress' =
          IF loop2main[l].state # "AcquisitionCompleted" THEN FALSE ELSE reading_in_progress
    /\ UNCHANGED <<owner, new_owner, flags, error, dlVars>>

\* DATA_ACQUIRED is popped and ignored; an empty slot is skipped.
HandleNothing(l) ==
    /\ loop2main[l].id \in {None, "DATALOGGER_DATA_ACQUIRED"}
    /\ UNCHANGED <<mainVars, dlVars>>

FaultyProcessLoopsPastEnd ==
    /\ mpc \in {"loops1", "loops2"} /\ MainMayRun
    /\ \/ HandleTaken(mi) \/ HandleReleased(mi) \/ HandleStatusUpdate(mi) \/ HandleNothing(mi)
    /\ loop2main' = [loop2main EXCEPT ![mi] = Empty]
    /\ IF mi <= LoopCount
       THEN mi' = mi + 1 /\ mpc' = mpc
       ELSE mi' = 1 /\ mpc' = IF mpc = "loops1" THEN "logic1" ELSE "logic2"
    /\ UNCHANGED <<reqVars, main2loop, loopVars>>

\* One iteration of process_loops(): pop the message of loop mi and handle it.
ProcessLoops ==
    /\ mpc \in {"loops1", "loops2"} /\ MainMayRun
    /\ \/ HandleTaken(mi)
       \/ HandleReleased(mi)
       \/ HandleStatusUpdate(mi)
       \/ HandleNothing(mi)
    /\ loop2main' = [loop2main EXCEPT ![mi] = Empty]
    /\ IF mi < LoopCount
       THEN mi' = mi + 1 /\ mpc' = mpc
       ELSE mi' = 1 /\ mpc' = IF mpc = "loops1" THEN "logic1" ELSE "logic2"
    /\ UNCHANGED <<reqVars, main2loop, loopVars>>

Send(l, msg) == main2loop' = [main2loop EXCEPT ![l] = msg]

FaultyLogicNoOwnerKeepsNewOwner ==
    /\ error = "NoError" /\ owner = NULL
    /\ ts_state' = dl_state
    /\ IF new_owner # NULL /\ main2loop[new_owner] = None
       THEN Send(new_owner, "TAKE_DATALOGGER_OWNERSHIP")
       ELSE UNCHANGED main2loop
    /\ request_arm_trigger' = FALSE
    /\ request_disarm_trigger' = FALSE
    /\ UNCHANGED <<owner, new_owner, request_ownership_release, pending_ownership_release,
                   error, reading_in_progress>>

\* process_datalogging_logic() when no loop owns the DataLogger.
LogicNoOwner ==
    /\ error = "NoError" /\ owner = NULL
    /\ ts_state' = dl_state                            \* read directly
    /\ IF new_owner # NULL /\ main2loop[new_owner] = None
       THEN Send(new_owner, "TAKE_DATALOGGER_OWNERSHIP") /\ new_owner' = NULL
       ELSE UNCHANGED <<main2loop, new_owner>>
    /\ request_arm_trigger' = FALSE
    /\ request_disarm_trigger' = FALSE
    /\ UNCHANGED <<owner, request_ownership_release, pending_ownership_release,
                   error, reading_in_progress>>

\* process_datalogging_logic() when a loop owns it: one message at most, the
\* release before the arm, the arm before the disarm.
LogicRelease ==
    /\ request_ownership_release
    /\ Send(owner, "RELEASE_DATALOGGER_OWNERSHIP")
    /\ request_ownership_release' = FALSE
    /\ pending_ownership_release' = TRUE
    /\ UNCHANGED <<request_arm_trigger, request_disarm_trigger>>

LogicArm ==
    /\ ~request_ownership_release /\ request_arm_trigger
    /\ Send(owner, "DATALOGGER_ARM_TRIGGER")
    /\ request_arm_trigger' = FALSE
    /\ UNCHANGED <<request_ownership_release, pending_ownership_release, request_disarm_trigger>>

LogicDisarm ==
    /\ ~request_ownership_release /\ ~request_arm_trigger /\ request_disarm_trigger
    /\ Send(owner, "DATALOGGER_DISARM_TRIGGER")
    /\ request_disarm_trigger' = FALSE
    /\ UNCHANGED <<request_ownership_release, pending_ownership_release, request_arm_trigger>>

LogicOwned ==
    /\ error = "NoError" /\ owner # NULL
    /\ main2loop[owner] = None
    /\ LogicRelease \/ LogicArm \/ LogicDisarm
    /\ UNCHANGED <<owner, new_owner, error, ts_state, reading_in_progress>>

\* An ownership error, a full slot or nothing to send.
LogicIdle ==
    /\ \/ error # "NoError"
       \/ /\ owner # NULL
          /\ \/ main2loop[owner] # None
             \/ ~(request_ownership_release \/ request_arm_trigger \/ request_disarm_trigger)
    /\ UNCHANGED <<mainVars, main2loop>>

ProcessDataloggingLogic ==
    /\ mpc \in {"logic1", "logic2"} /\ MainMayRun
    /\ LogicNoOwner \/ LogicOwned \/ LogicIdle
    /\ mpc' = IF mpc = "logic1" THEN "request" ELSE "poll"
    /\ UNCHANGED <<mi, reqVars, loop2main, dlVars, loopVars>>

\* A response other than ProcessAgain: it is sent and check_finished_sending()
\* lets the comm handler wait for the next request.
Answer == req' = NoRequest /\ again' = FALSE

\* A ProcessAgain response: the request stays for the next call of process(),
\* unless the time since the first ProcessAgain has expired.
ProcessAgain ==
    \/ req' = req /\ again' = TRUE
    \/ again /\ Answer

FaultyAskReleaseTwice ==
    /\ owner # NULL
    /\ request_ownership_release' = TRUE
    /\ ProcessAgain
    /\ UNCHANGED <<new_owner, dlVars>>

FaultyAskReleaseNever ==
    /\ owner # NULL
    /\ ProcessAgain
    /\ UNCHANGED <<request_ownership_release, new_owner, dlVars>>

\* Configure and Reset first get the DataLogger back from the loop that owns it.
AskRelease ==
    /\ owner # NULL
    /\ request_ownership_release' =
          IF pending_ownership_release THEN request_ownership_release ELSE TRUE
    /\ ProcessAgain
    /\ UNCHANGED <<new_owner, dlVars>>

FaultyConfigureWithoutRelease ==
    /\ req.sub = "ConfigureDatalog"
    /\ reading_in_progress' = FALSE
    /\ dl_state' = IF req.outcome = "OK" THEN "Configured" ELSE "Idle"
    /\ dl_timebase' = IF req.outcome = "Refused" THEN dl_timebase ELSE req.loop
    /\ new_owner' = IF req.outcome = "OK" THEN req.loop ELSE new_owner
    /\ Answer
    /\ UNCHANGED <<owner, flags, dl_owner, error, ts_state>>

ConfigureDatalog ==
    /\ req.sub = "ConfigureDatalog"
    /\ reading_in_progress' = FALSE
    /\ \/ AskRelease
       \/ /\ owner = NULL
          /\ dl_state' = IF req.outcome = "OK" THEN "Configured" ELSE "Idle"
          /\ dl_timebase' = IF req.outcome = "Refused" THEN dl_timebase ELSE req.loop
          /\ new_owner' = IF req.outcome = "OK" THEN req.loop ELSE new_owner
          /\ Answer
          /\ UNCHANGED <<request_ownership_release, dl_owner>>
    /\ UNCHANGED <<owner, request_arm_trigger, request_disarm_trigger,
                   pending_ownership_release, error, ts_state>>

ResetDatalogger ==
    /\ req.sub = "ResetDatalogger"
    /\ \/ AskRelease
       \/ /\ owner = NULL
          /\ dl_state' = "Idle"
          /\ Answer
          /\ UNCHANGED <<request_ownership_release, new_owner, dl_owner, dl_timebase>>
    /\ UNCHANGED <<owner, request_arm_trigger, request_disarm_trigger,
                   pending_ownership_release, error, ts_state, reading_in_progress>>

\* Refused (FailureToProceed) without an owner or with a release under way.
CommandsAccepted == owner # NULL /\ ~pending_ownership_release

ArmTrigger ==
    /\ req.sub = "ArmTrigger"
    /\ request_arm_trigger' = IF CommandsAccepted THEN TRUE ELSE request_arm_trigger
    /\ Answer
    /\ UNCHANGED <<owner, new_owner, request_disarm_trigger, request_ownership_release,
                   pending_ownership_release, error, ts_state, reading_in_progress, dlVars>>

DisarmTrigger ==
    /\ req.sub = "DisarmTrigger"
    /\ request_disarm_trigger' = IF CommandsAccepted THEN TRUE ELSE request_disarm_trigger
    /\ Answer
    /\ UNCHANGED <<owner, new_owner, request_arm_trigger, request_ownership_release,
                   pending_ownership_release, error, ts_state, reading_in_progress, dlVars>>

DataAvailable == ts_state = "AcquisitionCompleted"   \* datalogging_data_available()

\* The response takes the next part of the acquisition; the last part (or an
\* encoding failure) ends the reading.
ReadAcquisition ==
    /\ req.sub = "ReadAcquisition"
    /\ reading_in_progress' \in
          CASE owner = NULL -> {reading_in_progress}
            [] owner # NULL /\ DataAvailable -> BOOLEAN
            [] OTHER -> {FALSE}
    /\ Answer
    /\ UNCHANGED <<owner, new_owner, flags, error, ts_state, dlVars>>

NoRequestToProcess ==
    /\ req = NoRequest
    /\ UNCHANGED <<mainVars, reqVars, dlVars>>

\* The part of process() that answers the request held by the comm handler.
ProcessRequest ==
    /\ mpc = "request" /\ MainMayRun
    /\ \/ ConfigureDatalog
       \/ ResetDatalogger
       \/ ArmTrigger
       \/ DisarmTrigger
       \/ ReadAcquisition
       \/ NoRequestToProcess
    /\ mpc' = "loops2"
    /\ UNCHANGED <<mi, ipcVars, loopVars>>

MainNext ==
    \/ ClientRequest
    \/ RequestDropped
    \/ BeginProcess
    \/ ProcessLoops
    \/ ProcessDataloggingLogic
    \/ ProcessRequest
-----------------------------------------------------------------------------
(* The loops *)

OwnsDatalogger(l) == dl_owner = l

Report(l, id, state) == loop2main' = [loop2main EXCEPT ![l] = [id |-> id, state |-> state]]

ArmedFrom(s) == IF s \in {"Configured", "AcquisitionCompleted", "Triggered"} THEN "Armed" ELSE s
DisarmedFrom(s) == IF s \in {"Armed", "AcquisitionCompleted", "Triggered"} THEN "Configured" ELSE s

FaultyTakeOwnershipSilently(l) ==
    /\ main2loop[l] = "TAKE_DATALOGGER_OWNERSHIP"
    /\ dl_owner' = l
    /\ data_acquired' = [data_acquired EXCEPT ![l] = FALSE]
    /\ UNCHANGED <<dl_state, dl_timebase, loop2main>>

\* The message handlers of process_common().
TakeOwnership(l) ==
    /\ main2loop[l] = "TAKE_DATALOGGER_OWNERSHIP"
    /\ dl_owner' = l
    /\ data_acquired' = [data_acquired EXCEPT ![l] = FALSE]
    /\ Report(l, "DATALOGGER_OWNERSHIP_TAKEN", "Idle")
    /\ UNCHANGED <<dl_state, dl_timebase>>

FaultyReleaseOwnershipKeepsIt(l) ==
    /\ main2loop[l] = "RELEASE_DATALOGGER_OWNERSHIP"
    /\ IF OwnsDatalogger(l)
       THEN Report(l, "DATALOGGER_OWNERSHIP_RELEASED", "Idle")
       ELSE UNCHANGED loop2main
    /\ UNCHANGED <<dlVars, data_acquired>>

ReleaseOwnership(l) ==
    /\ main2loop[l] = "RELEASE_DATALOGGER_OWNERSHIP"
    /\ IF OwnsDatalogger(l)
       THEN dl_owner' = NULL /\ Report(l, "DATALOGGER_OWNERSHIP_RELEASED", "Idle")
       ELSE UNCHANGED <<dl_owner, loop2main>>
    /\ UNCHANGED <<dl_state, dl_timebase, data_acquired>>

ArmOrDisarm(l) ==
    /\ \/ /\ main2loop[l] = "DATALOGGER_ARM_TRIGGER"
          /\ dl_state' = IF OwnsDatalogger(l) THEN ArmedFrom(dl_state) ELSE dl_state
       \/ /\ main2loop[l] = "DATALOGGER_DISARM_TRIGGER"
          /\ dl_state' = IF OwnsDatalogger(l) THEN DisarmedFrom(dl_state) ELSE dl_state
    /\ UNCHANGED <<dl_owner, dl_timebase, data_acquired, loop2main>>

\* A message is popped only when the answer has room.
MessageToHandle(l) == main2loop[l] # None /\ loop2main[l].id = None

LoopReceive(l) ==
    /\ lpc[l] = "idle"
    /\ MessageToHandle(l)
    /\ TakeOwnership(l) \/ ReleaseOwnership(l) \/ ArmOrDisarm(l)
    /\ main2loop' = [main2loop EXCEPT ![l] = None]
    /\ lpc' = [lpc EXCEPT ![l] = "check"]
    /\ UNCHANGED <<mpc, mi, mainVars, reqVars>>

LoopNoMessage(l) ==
    /\ lpc[l] = "idle"
    /\ ~MessageToHandle(l)
    /\ lpc' = [lpc EXCEPT ![l] = "check"]
    /\ UNCHANGED <<mpc, mi, mainVars, reqVars, ipcVars, dlVars, data_acquired>>

FaultyLoopCheckOwnerSkipped(l) ==
    /\ lpc[l] = "check"
    /\ lpc' = [lpc EXCEPT ![l] = "process"]
    /\ UNCHANGED <<mpc, mi, mainVars, reqVars, ipcVars, dlVars, data_acquired>>

\* The second owns_datalogger() test of the pass.
LoopCheckOwner(l) ==
    /\ lpc[l] = "check"
    /\ lpc' = [lpc EXCEPT ![l] = IF OwnsDatalogger(l) THEN "process" ELSE "idle"]
    /\ UNCHANGED <<mpc, mi, mainVars, reqVars, ipcVars, dlVars, data_acquired>>

\* Where one call of DataLogger::process() may leave the state: the trigger and
\* the completion can happen in the same call; the encoder may be in error.
ProcessOutcomes(s) ==
    CASE s = "Configured" -> {"Configured", "Error"}
      [] s = "Armed" -> {"Armed", "Triggered", "AcquisitionCompleted", "Error"}
      [] s = "Triggered" -> {"Triggered", "AcquisitionCompleted", "Error"}
      [] OTHER -> {s}

LoopProcessDatalogger(l) ==
    /\ lpc[l] = "process"
    /\ dl_state' \in ProcessOutcomes(dl_state)
    /\ lpc' = [lpc EXCEPT ![l] = "report"]
    /\ UNCHANGED <<mpc, mi, mainVars, reqVars, ipcVars, dl_owner, dl_timebase, data_acquired>>

\* The end of the pass: tell the main handler, if the slot has room.
LoopReport(l) ==
    /\ lpc[l] = "report"
    /\ \/ /\ loop2main[l].id # None
          /\ UNCHANGED <<loop2main, data_acquired>>
       \/ /\ loop2main[l].id = None
          /\ dl_state = "AcquisitionCompleted" /\ ~data_acquired[l]
          /\ Report(l, "DATALOGGER_DATA_ACQUIRED", "Idle")
          /\ data_acquired' = [data_acquired EXCEPT ![l] = TRUE]
       \/ /\ loop2main[l].id = None
          /\ dl_state # "AcquisitionCompleted" \/ data_acquired[l]
          /\ Report(l, "DATALOGGER_STATUS_UPDATE", dl_state)
          /\ UNCHANGED data_acquired
    /\ lpc' = [lpc EXCEPT ![l] = "idle"]
    /\ UNCHANGED <<mpc, mi, mainVars, reqVars, main2loop, dlVars>>

LoopNext(l) ==
    \/ LoopReceive(l)
    \/ LoopNoMessage(l)
    \/ LoopCheckOwner(l)
    \/ LoopProcessDatalogger(l)
    \/ LoopReport(l)

-----------------------------------------------------------------------------
Next == MainNext \/ \E l \in Loops : LoopNext(l)

\* process() and every loop's process() are called again and again.  The main
\* thread needs strong fairness only with Preemptive loops: the interrupts leave
\* it some time between two of their passes.
MainStep == BeginProcess \/ ProcessLoops \/ ProcessDataloggingLogic \/ ProcessRequest
Fairness ==
    /\ SF_vars(MainStep)
    /\ \A l \in Loops : WF_vars(LoopNext(l))

Spec == Init /\ [][Next]_vars
FairSpec == Spec /\ Fairness

-----------------------------------------------------------------------------
(* Properties *)

\* Type correctness of every variable.
TypeOK ==
    /\ mpc \in {"poll", "loops1", "logic1", "request", "loops2", "logic2"}
    /\ mi \in Loops
    /\ owner \in Loops \cup {NULL} /\ new_owner \in Loops \cup {NULL}
    /\ request_arm_trigger \in BOOLEAN /\ request_disarm_trigger \in BOOLEAN
    /\ request_ownership_release \in BOOLEAN /\ pending_ownership_release \in BOOLEAN
    /\ error \in {"NoError", "UnexpectedRelease", "UnexpectedClaim"}
    /\ ts_state \in DataloggerStates
    /\ reading_in_progress \in BOOLEAN
    /\ req \in Requests \cup {NoRequest} /\ again \in BOOLEAN
    /\ main2loop \in [Loops -> Main2LoopMessages]
    /\ loop2main \in [Loops -> [id : Loop2MainMessages, state : DataloggerStates]]
    /\ dl_owner \in Loops \cup {NULL}
    /\ dl_state \in DataloggerStates
    /\ dl_timebase \in Loops \cup {NULL}
    /\ lpc \in [Loops -> {"idle", "check", "process", "report"}]
    /\ data_acquired \in [Loops -> BOOLEAN]

\* Loop l is between its owns_datalogger() test and the end of its pass.
Inside(l) == lpc[l] \in {"process", "report"}

\* The main thread's next step writes the DataLogger or its Configuration.
MainWrites ==
    \/ mpc = "request" /\ owner = NULL /\ req.sub \in {"ConfigureDatalog", "ResetDatalogger"}
    \/ mpc \in {"loops1", "loops2"} /\ loop2main[mi].id = "DATALOGGER_OWNERSHIP_RELEASED"

\* While the main handler rewrites the configuration or resets the DataLogger, no
\* loop is using it and none has been told to take it (the race that
\* process_datalog_control means to avoid by releasing first).
MainWritesAlone ==
    MainWrites => /\ dl_owner = NULL
                  /\ \A l \in Loops : ~Inside(l) /\ main2loop[l] # "TAKE_DATALOGGER_OWNERSHIP"

\* Two loops never run the DataLogger at the same time, and the one that runs it
\* is the one whose timebase it was configured with: hold times and timeouts are
\* measured on the right clock.
OwnLoopOnly ==
    \A l \in Loops : Inside(l) => /\ dl_owner = l /\ dl_timebase = l
                                  /\ dl_state # "Idle"

\* The error that stops process_datalogging_logic() for good is never raised.
NoOwnershipError == error = "NoError"

\* A release on its way to a loop is for the owner both sides agree on: it is
\* never silently ignored.  An arm or disarm may overtake the answer to a release,
\* but then the loop that gets it does not own: a command accepted for one
\* configuration never acts on a later one.
CommandsForThisOwnership ==
    \A l \in Loops :
       /\ main2loop[l] = "RELEASE_DATALOGGER_OWNERSHIP" => owner = l /\ dl_owner = l
       /\ main2loop[l] \in {"DATALOGGER_ARM_TRIGGER", "DATALOGGER_DISARM_TRIGGER"} /\ dl_owner = l
            => owner = l /\ loop2main[l].id # "DATALOGGER_OWNERSHIP_TAKEN"

NoHandoverMessage ==
    \A l \in Loops :
       /\ main2loop[l] # "TAKE_DATALOGGER_OWNERSHIP"
       /\ loop2main[l].id \notin {"DATALOGGER_OWNERSHIP_TAKEN", "DATALOGGER_OWNERSHIP_RELEASED"}

\* DataLogger::m_owner reflects MainHandler::m_datalogging.owner once the messages
\* of a hand-over have been delivered.
OwnersAgree == NoHandoverMessage => dl_owner = owner

\* A release that is awaited is really under way; if the loop could have ignored
\* it, every later Configure would end in a timeout.
PendingReleaseInFlight ==
    pending_ownership_release =>
       /\ owner # NULL
       /\ \/ main2loop[owner] = "RELEASE_DATALOGGER_OWNERSHIP"
          \/ loop2main[owner].id = "DATALOGGER_OWNERSHIP_RELEASED"

\* The state the main handler reads directly, without an IPC message, while it
\* believes that there is no owner is one that the acquisition cannot be moving
\* on from: a loop that has taken the DataLogger meanwhile cannot be armed yet.
DirectReadSettled ==
    (mpc \in {"logic1", "logic2"} /\ owner = NULL) => dl_state \in {"Idle", "Configured", "Error"}

\* Ownership is never taken over from a loop that has not given it back.
NeverStolen == [][dl_owner' # dl_owner => dl_owner = NULL \/ dl_owner' = NULL]_vars

\* Hand-overs complete in both directions: the main handler gets the DataLogger back
\* after it asked for its release, and a loop chosen by an accepted Configure ends up
\* owning it.
HandoverCompletes ==
    /\ request_ownership_release ~> owner = NULL
    /\ \A l \in Loops : new_owner = l ~> (owner = l /\ dl_owner = l)

\* Every request gets out of the ProcessAgain cycle.
RequestAnswered == req # NoRequest ~> req = NoRequest

-----------------------------------------------------------------------------
(***************************************************************************)
(* The inductive invariant behind these properties.  A hand-over goes      *)
(* through the phases: configured (new_owner set), TAKE sent, TAKEN sent,  *)
(* owned, RELEASE sent, RELEASED sent; each conjunct says what one piece   *)
(* of the protocol's state excludes of all the others.                     *)
(***************************************************************************)
ReadyFor(l) == dl_owner = NULL /\ dl_state = "Configured" /\ dl_timebase = l

NoneTaking == \A l \in Loops : main2loop[l] # "TAKE_DATALOGGER_OWNERSHIP"
NoneTaken == \A l \in Loops : loop2main[l].id # "DATALOGGER_OWNERSHIP_TAKEN"
NoneReleased == \A l \in Loops : loop2main[l].id # "DATALOGGER_OWNERSHIP_RELEASED"

ConfiguredPhase ==
    new_owner # NULL => /\ owner = NULL /\ ReadyFor(new_owner)
                        /\ NoneTaking /\ NoneTaken /\ NoneReleased

TakePhase ==
    \A l \in Loops : main2loop[l] = "TAKE_DATALOGGER_OWNERSHIP" =>
       /\ owner = NULL /\ new_owner = NULL /\ ReadyFor(l)
       /\ NoneTaken /\ NoneReleased

TakenPhase ==
    \A l \in Loops : loop2main[l].id = "DATALOGGER_OWNERSHIP_TAKEN" =>
       /\ owner = NULL /\ new_owner = NULL /\ dl_owner = l
       /\ main2loop[l] = None /\ NoneTaking /\ NoneReleased

OwnedPhase ==
    /\ owner # NULL => \/ dl_owner = owner
                       \/ loop2main[owner].id = "DATALOGGER_OWNERSHIP_RELEASED"
    /\ dl_owner # NULL => /\ \/ owner = dl_owner
                             \/ loop2main[dl_owner].id = "DATALOGGER_OWNERSHIP_TAKEN"
                          /\ dl_timebase = dl_owner /\ dl_state # "Idle"

ReleasePhase ==
    /\ request_ownership_release => owner # NULL /\ ~pending_ownership_release
    /\ \A l \in Loops :
          /\ main2loop[l] = "RELEASE_DATALOGGER_OWNERSHIP" =>
                owner = l /\ dl_owner = l /\ pending_ownership_release
          /\ loop2main[l].id = "DATALOGGER_OWNERSHIP_RELEASED" =>
                /\ owner = l /\ dl_owner = NULL /\ pending_ownership_release
                /\ main2loop[l] # "RELEASE_DATALOGGER_OWNERSHIP"

\* The request that would disturb a hand-over comes only when none is in flight.
RequestPhase ==
    req.sub \in {"ConfigureDatalog", "ResetDatalogger"} => ~HandoverInFlight

\* The phases of the hand-over between the main handler and the loops exclude one
\* another as process_datalogging_logic(), process_datalogging_loop_msg() and
\* process_common() need it.
OwnershipInv ==
    /\ NoOwnershipError
    /\ ConfiguredPhase /\ TakePhase /\ TakenPhase /\ OwnedPhase /\ ReleasePhase
    /\ PendingReleaseInFlight
    /\ RequestPhase
    /\ owner = NULL => dl_state \in {"Idle", "Configured", "Error"}
    /\ \A l \in Loops : Inside(l) => dl_owner = l

\* The abstract view: a lease on the DataLogger, held by one party at a time.
Lease == INSTANCE DataloggerLease
            WITH holder <- dl_owner, state <- dl_state, timebase <- dl_timebase
ImplementsLease == Lease!LeaseSpec
=============================================================================
