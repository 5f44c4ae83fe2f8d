------------------------------ MODULE DataLogger ------------------------------
(***************************************************************************)
(* DataLogger: the acquisition state machine, its trigger (condition, hold *)
(* time, manual trigger) and the end of an acquisition (probe location,    *)
(* timeout), on top of the bookkeeping of the encoder.  The loop that owns *)
(* the datalogger steps its timebase and then calls process(); the         *)
(* commands of the server come in between.  The outcome of evaluating the  *)
(* trigger condition, fetching its operands included, is an input.         *)
(***************************************************************************)
EXTENDS RawFormat, Timebase

CONSTANTS
    Steps,          \* timesteps of the owning loop
    Decimations, Probes, HoldTimes, Timeouts, EntrySizes,  \* of the configurations
    Evaluations,    \* outcomes of the trigger condition: "true", "false", "failed"
    ProbeRange,     \* 2^8: probe_location is a uint8_t
    IdModulus       \* 2^16: m_acquisition_id is a uint16_t

ASSUME StepsAssumption ==
    /\ Steps \subseteq Nat \ {0} /\ Steps # {}
    /\ \A t \in Timeouts \cup HoldTimes, dt \in Steps : t \in Nat /\ t + dt < ClockModulus
ASSUME ConfigAssumption ==
    /\ Decimations \subseteq Nat /\ EntrySizes \subseteq Nat
    /\ {} \notin {Decimations, Probes, HoldTimes, Timeouts, EntrySizes}
    /\ Evaluations \subseteq {"true", "false", "failed"}
    /\ ProbeRange \in Nat \ {0} /\ IdModulus \in Nat \ {0} /\ Probes \subseteq 0 .. ProbeRange - 1

Configurations ==
    [decimation : Decimations, probe_location : Probes, hold_time : HoldTimes,
     timeout : Timeouts, size : EntrySizes]

States == {"Idle", "Configured", "Armed", "Triggered", "AcquisitionCompleted", "Error"}

VARIABLES
    dl,         \* the DataLogger
    enc,        \* its RawFormatEncoder
    now,        \* the timebase of the owning loop
    hist        \* history, see below

vars == <<dl, enc, now, hist>>

\* History: armings counts the effective arm_trigger() since configure(), up to
\* 2; while armed, seen tells whether the last evaluation found the condition true
\* and true_for for how long no evaluation has found it false; fired tells what
\* made the last trigger; since is the time and acquired the chars encoded since
\* that trigger; timed_out whether its acquisition ended by the timeout.
\* Durations and sizes saturate.
Horizon == ClockModulus
SizeHorizon == SizeModulus
Capped(n, cap) == IF n > cap THEN cap ELSE n
NoHistory ==
    [armings |-> 0, seen |-> FALSE, true_for |-> 0,
     fired |-> [manual |-> FALSE, held |-> 0], since |-> 0, acquired |-> 0,
     timed_out |-> FALSE]

-----------------------------------------------------------------------------
(* The operations, as functions of the DataLogger d *)

ResetDataLogger(d) ==
    [d EXCEPT !.state = "Idle", !.previous_val = FALSE, !.rising_edge_timestamp = 0,
              !.trigger_timestamp = 0, !.remaining_data_to_write = 0, !.config_valid = FALSE,
              !.manual_trigger = FALSE, !.decimation_counter = 0, !.log_points_after_trigger = 0]

\* Faulty variants (names starting with Faulty) are not part of the model: each is
\* a slip that the properties are sensitive to.
FaultyRemainingProbeOnly(d, e) ==
    (BufferSize * (ProbeRange - 1 - d.config.probe_location)) \div ProbeRange

\* stamp_trigger_point(): the share of the buffer after the probe location is still
\* to be written, and at least what is missing to fill it.
RemainingDataToWrite(d, e) ==
    LET share == (BufferSize * (ProbeRange - 1 - d.config.probe_location)) \div ProbeRange
        missing == RemainingBytesToFull(e)
    IN  Capped(IF ~e.full /\ missing > share THEN missing ELSE share, BufferSize)

StampTriggerPoint(d, e, t) ==
    [d EXCEPT !.state = "Triggered", !.trigger_timestamp = t,
              !.remaining_data_to_write = RemainingDataToWrite(d, e)]

\* process_acquisition(): one entry every decimation calls.
EntryIsDue(d) == d.decimation_counter + 1 >= d.config.decimation
FaultyDecimationAlwaysReset(d) == [d EXCEPT !.decimation_counter = 0]

ProcessAcquisition(d) ==
    [d EXCEPT !.decimation_counter = IF EntryIsDue(d) THEN 0 ELSE @ + 1]

FaultyRisingEdgeNotTaken(d, t) == d.rising_edge_timestamp

\* check_trigger(), for an evaluation that gives "true", "false" or "failed" (an
\* operand could not be fetched): what it leaves in the trigger, and its result.
RisingEdge(d, t) == IF d.previous_val THEN d.rising_edge_timestamp ELSE t
CheckTrigger(d, t, eval) ==
    CASE d.manual_trigger ->
            [result |-> TRUE, next |-> [d EXCEPT !.manual_trigger = FALSE, !.previous_val = TRUE]]
      [] ~d.manual_trigger /\ eval = "failed" -> [result |-> FALSE, next |-> d]
      [] ~d.manual_trigger /\ eval = "false" ->
            [result |-> FALSE, next |-> [d EXCEPT !.previous_val = FALSE]]
      [] ~d.manual_trigger /\ eval = "true" ->
            [result |-> HasExpired(t, RisingEdge(d, t), d.config.hold_time),
             next |-> [d EXCEPT !.previous_val = TRUE, !.rising_edge_timestamp = RisingEdge(d, t)]]

FaultyTimedOutLate(d, t) == d.config.timeout > 0 /\ Elapsed(t, d.trigger_timestamp) > d.config.timeout

\* acquisition_completed() in state Triggered.
TimedOut(d, t) == d.config.timeout > 0 /\ HasExpired(t, d.trigger_timestamp, d.config.timeout)
FaultyCompletedOneLate(d, e, t) ==
    TimedOut(d, t) \/ GetDataWriteCounter(e) > d.remaining_data_to_write

AcquisitionCompleted(d, e, t) ==
    TimedOut(d, t) \/ GetDataWriteCounter(e) >= d.remaining_data_to_write

\* The end of process().
CompleteIfAcquired(d, e, t) ==
    IF d.state = "Triggered" /\ AcquisitionCompleted(d, e, t)
      THEN [d EXCEPT !.state = "AcquisitionCompleted",
                     !.acquisition_id = (@ + 1) % IdModulus,
                     !.log_points_after_trigger = e.counter]
      ELSE d

-----------------------------------------------------------------------------
(* Actions *)

Init ==
    /\ dl = [state |-> "Idle", config |-> CHOOSE c \in Configurations : TRUE, config_valid |-> FALSE,
             previous_val |-> FALSE, rising_edge_timestamp |-> 0, manual_trigger |-> FALSE,
             trigger_timestamp |-> 0, remaining_data_to_write |-> 0, decimation_counter |-> 0,
             log_points_after_trigger |-> 0, acquisition_id |-> 0]
    /\ enc = EncoderReset(0)
    /\ now = 0
    /\ hist = NoHistory

\* configure(), after the configuration c has been written in config(); valid is
\* the outcome of its validation.
Configure(c, valid) ==
    /\ valid => c.decimation > 0
    /\ dl' = [ResetDataLogger(dl) EXCEPT !.config = c, !.config_valid = valid,
                                        !.state = IF valid THEN "Configured" ELSE "Error"]
    /\ enc' = IF valid THEN EncoderReset(c.size) ELSE enc
    /\ hist' = NoHistory
    /\ UNCHANGED now

\* reset(), for the request ResetDatalogger
Reset ==
    /\ dl' = ResetDataLogger(dl)
    /\ hist' = NoHistory
    /\ UNCHANGED <<enc, now>>

ArmTrigger ==
    /\ dl.state \in {"Configured", "AcquisitionCompleted", "Triggered"}
    /\ dl' = [dl EXCEPT !.state = "Armed"]
    /\ hist' = [NoHistory EXCEPT !.armings = Capped(hist.armings + 1, 2)]
    /\ UNCHANGED <<enc, now>>

DisarmTrigger ==
    /\ dl.state \in {"Armed", "AcquisitionCompleted", "Triggered"}
    /\ dl' = [dl EXCEPT !.state = "Configured"]
    /\ hist' = [NoHistory EXCEPT !.armings = hist.armings]
    /\ UNCHANGED <<enc, now>>

ForceTrigger ==
    /\ dl.state = "Armed"
    /\ dl' = [dl EXCEPT !.manual_trigger = TRUE]
    /\ UNCHANGED <<enc, now, hist>>

\* process() in a state with nothing to do
ProcessNothing(dt) ==
    /\ dl.state \in {"Idle", "Error", "AcquisitionCompleted"}
    /\ now' = Step(now, dt)
    /\ UNCHANGED <<dl, enc, hist>>

ProcessError(dt) ==
    /\ dl.state \in {"Configured", "Armed", "Triggered"}
    /\ EncoderError(enc)
    /\ dl' = [dl EXCEPT !.state = "Error"]
    /\ now' = Step(now, dt)
    /\ UNCHANGED <<enc, hist>>

\* The entry of this pass, if one is due.
EncodeIfDue(d, e) == IF EntryIsDue(d) THEN EncodeNextEntry(e) ELSE e

\* process() without a trigger in this pass
Acquire(dt) ==
    LET t == Step(now, dt)
        e == EncodeIfDue(dl, enc)
        d == CompleteIfAcquired(ProcessAcquisition(dl), e, t)
    IN  /\ dl.state \in {"Configured", "Triggered"}
        /\ ~EncoderError(enc)
        /\ dl' = d
        /\ enc' = e
        /\ now' = t
        /\ hist' = IF dl.state = "Configured" THEN hist
                   ELSE [hist EXCEPT !.since = Capped(@ + dt, Horizon),
                                     !.acquired = Capped(@ + IF EntryIsDue(dl) THEN enc.entry_size ELSE 0,
                                                         SizeHorizon),
                                     !.timed_out = d.state = "AcquisitionCompleted" /\ TimedOut(dl, t)]

\* process() while armed: the trigger is checked after the entry is encoded, and
\* the acquisition may be complete in the same pass.
ProcessArmed(dt, eval) ==
    LET t == Step(now, dt)
        e == EncodeIfDue(dl, enc)
        check == CheckTrigger(ProcessAcquisition(dl), t, eval)
        stamped == ResetWriteCounter(e)
        seen == IF eval = "failed" THEN hist.seen ELSE eval = "true"
        true_for == IF hist.seen THEN Capped(hist.true_for + dt, Horizon) ELSE 0
    IN  /\ dl.state = "Armed"
        /\ ~EncoderError(enc)
        /\ dl' = IF check.result
                   THEN CompleteIfAcquired(StampTriggerPoint(check.next, e, t), stamped, t)
                   ELSE check.next
        /\ enc' = IF check.result THEN stamped ELSE e
        /\ now' = t
        /\ hist' = IF check.result
                     THEN [hist EXCEPT !.seen = FALSE, !.true_for = 0,
                                       !.fired = [manual |-> dl.manual_trigger, held |-> true_for]]
                     ELSE [hist EXCEPT !.seen = seen, !.true_for = IF seen THEN true_for ELSE 0]

Process ==
    \E dt \in Steps :
        \/ ProcessNothing(dt)
        \/ ProcessError(dt)
        \/ Acquire(dt)
        \/ \E eval \in Evaluations : ProcessArmed(dt, eval)

Command ==
    \/ \E c \in Configurations, valid \in BOOLEAN : Configure(c, valid)
    \/ Reset
    \/ ArmTrigger
    \/ DisarmTrigger
    \/ ForceTrigger

Next == Process \/ Command

Spec == Init /\ [][Next]_vars

\* The loop that owns the datalogger is called periodically.
FairSpec == Spec /\ WF_vars(Process)

-----------------------------------------------------------------------------
(* Properties *)

\* Type correctness; the indices of the encoder stay inside the buffer.
TypeOK ==
    /\ dl \in [state : States, config : Configurations, config_valid : BOOLEAN,
               previous_val : BOOLEAN, rising_edge_timestamp : Times, manual_trigger : BOOLEAN,
               trigger_timestamp : Times, remaining_data_to_write : 0 .. BufferSize,
               decimation_counter : Nat, log_points_after_trigger : 0 .. SizeModulus - 1,
               acquisition_id : 0 .. IdModulus - 1]
    /\ EncoderError(enc) => enc.next = 0 /\ enc.first = 0
    /\ ~EncoderError(enc) => enc.next < enc.max_entries /\ enc.first < enc.max_entries
    /\ enc.counter \in 0 .. SizeModulus - 1
    /\ now \in Times

\* An acquisition that completes without its timeout fills the buffer, whatever the
\* probe location and wherever in the filling of the buffer the trigger came.
CompletedBufferIsFull ==
    dl.state = "AcquisitionCompleted" /\ ~hist.timed_out => enc.full \/ EncoderError(enc)

\* The acquisition completes in the very pass that has written enough.
CompletesOnceAcquired ==
    dl.state = "Triggered" => hist.acquired < dl.remaining_data_to_write

\* A trigger other than the manual one, the first of a configuration, comes after
\* the condition has been true for the hold time: whatever failed evaluations,
\* timer wraparounds and falling edges came before.
FirstTriggerHeld ==
    /\ dl.state \in {"Triggered", "AcquisitionCompleted"}
    /\ hist.armings = 1
    /\ ~hist.fired.manual
    => hist.fired.held >= dl.config.hold_time

\* An acquisition never runs past its timeout, on a clock that wraps around.
TimeoutRespected ==
    dl.state = "Triggered" /\ dl.config.timeout > 0 => hist.since < dl.config.timeout

\* A triggered acquisition ends.
AcquisitionEnds == dl.state = "Triggered" ~> dl.state # "Triggered"
=============================================================================
