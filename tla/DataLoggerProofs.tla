---------------------------- MODULE DataLoggerProofs ----------------------------
(***************************************************************************)
(* Proofs about DataLogger, for every value of its constants: a            *)
(* condition is held for the hold time before it triggers, an              *)
(* acquisition does not outlive its timeout, both on a clock that wraps    *)
(* around, and it ends as soon as it has filled the buffer.                *)
(***************************************************************************)
EXTENDS DataLogger, Integers, TLAPS

-----------------------------------------------------------------------------
(* Counters that wrap, quotients and slots *)

\* A counter that goes around once at most.
LEMMA SmallMod ==
  ASSUME NEW n \in Nat, NEW m \in Nat \ {0}, n < 2 * m
  PROVE  n % m = IF n < m THEN n ELSE n - m
  <1>1. CASE n < m
    BY <1>1
  <1>2. CASE n >= m
    <2>1. (n - m) % m = n - m
      BY <1>2
    <2>2. n % m = (n - m) % m
      BY <1>2
    <2> QED
      BY <1>2, <2>1, <2>2
  <1> QED
    BY <1>1, <1>2

LEMMA CounterWraps == ASSUME NEW n \in Nat, NEW m \in Nat \ {0} PROVE n % m \in 0 .. m - 1
  OBVIOUS

LEMMA Quotients == ASSUME NEW n \in Nat, NEW m \in Nat \ {0} PROVE n \div m \in Nat
  OBVIOUS

\* Slot j ends where slot j + 1 begins, and slots do not overlap.
LEMMA SlotsApart ==
  ASSUME NEW i \in Nat, NEW j \in Nat, NEW size \in Nat, i < j
  PROVE  /\ i * size \in Nat /\ j * size \in Nat
         /\ i * size + size <= j * size
  <1>1. (i + 1) * size = i * size + size
    OBVIOUS
  <1>2. PICK k \in Nat : j = i + 1 + k
    <2>1. j - (i + 1) \in Nat /\ j = i + 1 + (j - (i + 1))
      OBVIOUS
    <2> QED
      BY <2>1
  <1>3. j * size = (i + 1) * size + k * size
    BY <1>2
  <1>4. k * size \in Nat /\ i * size \in Nat /\ j * size \in Nat
    OBVIOUS
  <1> QED
    BY <1>1, <1>3, <1>4

-----------------------------------------------------------------------------
(* The encoder *)

Encoders ==
    [entry_size : Nat, max_entries : Nat, next : Nat, first : Nat, full : BOOLEAN,
     counter : 0 .. SizeModulus - 1]

\* The indices of the encoder are inside the buffer.
Inside(e) ==
    /\ EncoderError(e) => e.next = 0 /\ e.first = 0
    /\ ~EncoderError(e) => e.next < e.max_entries /\ e.first < e.max_entries

LEMMA Sizes == ASSUME NEW size \in Nat PROVE EncoderReset(size) \in Encoders /\ Inside(EncoderReset(size))
  <1>1. size > 0 => BufferSize \div size \in Nat
    BY BufferAssumption
  <1>2. 0 \in 0 .. SizeModulus - 1
    BY BufferAssumption
  <1> QED
    BY <1>1, <1>2 DEF EncoderReset, Encoders, Inside, EncoderError

\* encode_next_entry() keeps its indices inside the buffer.
LEMMA EncodeFacts ==
  ASSUME NEW e \in Encoders, Inside(e), ~EncoderError(e)
  PROVE  EncodeNextEntry(e) \in Encoders /\ Inside(EncodeNextEntry(e)) /\ ~EncoderError(EncodeNextEntry(e))
  <1>1. (e.counter + 1) % SizeModulus \in 0 .. SizeModulus - 1
    <2>1. e.counter + 1 \in Nat /\ SizeModulus \in Nat \ {0}
      BY BufferAssumption DEF Encoders
    <2> DEFINE n == e.counter + 1
    <2> HIDE DEF n
    <2>2. n \in Nat
      BY <2>1 DEF n
    <2>3. n % SizeModulus \in 0 .. SizeModulus - 1
      BY <2>1, <2>2, CounterWraps
    <2> QED
      BY <2>3 DEF n
  <1>2. \A i \in Nat : NextIndex(e, i) \in Nat /\ NextIndex(e, i) < e.max_entries
    BY DEF NextIndex, Encoders, EncoderError
  <1>3. EncodeNextEntry(e) = [e EXCEPT !.first = EncodeNextEntry(e).first,
                                       !.next = EncodeNextEntry(e).next,
                                       !.full = EncodeNextEntry(e).full,
                                       !.counter = EncodeNextEntry(e).counter]
    BY DEF EncodeNextEntry, Encoders
  <1>4. /\ EncodeNextEntry(e).first \in Nat /\ EncodeNextEntry(e).first < e.max_entries
        /\ EncodeNextEntry(e).next \in Nat /\ EncodeNextEntry(e).next < e.max_entries
        /\ EncodeNextEntry(e).full \in BOOLEAN
        /\ EncodeNextEntry(e).counter \in 0 .. SizeModulus - 1
        /\ EncodeNextEntry(e).max_entries = e.max_entries
    <2>1. e.first \in Nat /\ e.next \in Nat /\ e.first < e.max_entries /\ e.full \in BOOLEAN
      BY DEF Encoders, Inside
    <2>2. /\ EncodeNextEntry(e).first \in {e.first, NextIndex(e, e.first)}
          /\ EncodeNextEntry(e).next = NextIndex(e, e.next)
      BY DEF EncodeNextEntry, Encoders
    <2>3. /\ EncodeNextEntry(e).full = (e.full \/ e.next + 1 >= e.max_entries)
          /\ EncodeNextEntry(e).counter = (e.counter + 1) % SizeModulus
          /\ EncodeNextEntry(e).max_entries = e.max_entries
      BY DEF EncodeNextEntry, Encoders
    <2> QED
      BY <1>1, <1>2, <2>1, <2>2, <2>3
  <1> QED
    BY <1>3, <1>4 DEF Encoders, Inside, EncoderError

\* The slots of a configuration lie in the buffer.
LEMMA SlotsFit ==
  ASSUME NEW size \in Nat \ {0}
  PROVE  size * (BufferSize \div size) <= BufferSize
  <1>1. BufferSize \in Nat
    BY BufferAssumption
  <1> QED
    BY <1>1

-----------------------------------------------------------------------------
(* The clock *)

LEMMA ShortSteps == ASSUME NEW dt \in Steps PROVE dt \in Nat /\ dt > 0 /\ dt < ClockModulus
  <1>1. PICK t \in Timeouts : TRUE
    BY ConfigAssumption
  <1> QED
    BY <1>1, StepsAssumption, ModulusAssumption

LEMMA ElapsedIs ==
  ASSUME NEW t \in Times, NEW ts \in Times
  PROVE  /\ Elapsed(t, ts) = IF t >= ts THEN t - ts ELSE t + ClockModulus - ts
         /\ Elapsed(t, ts) \in Times
  <1> DEFINE n == t + ClockModulus - ts
  <1>1. n \in Nat /\ n < 2 * ClockModulus
    BY ModulusAssumption DEF Times
  <1>2. n % ClockModulus = IF n < ClockModulus THEN n ELSE n - ClockModulus
    <2> HIDE DEF n
    <2> QED
      BY <1>1, SmallMod, ModulusAssumption
  <1> QED
    BY <1>2, ModulusAssumption DEF Elapsed, Times

\* The clock may wrap around between two steps, the time since a timestamp goes on, and
\* wraps around no earlier than at ClockModulus.
LEMMA ElapsedAdds ==
  ASSUME NEW t \in Times, NEW ts \in Times, NEW dt \in Steps
  PROVE  /\ Step(t, dt) \in Times
         /\ Elapsed(Step(t, dt), ts) <= Elapsed(t, ts) + dt
         /\ Elapsed(t, ts) + dt < ClockModulus => Elapsed(Step(t, dt), ts) = Elapsed(t, ts) + dt
         /\ Elapsed(Step(t, dt), ts) \in Times /\ Elapsed(t, ts) \in Times
  <1> DEFINE n == t + dt
  <1>1. dt \in Nat /\ dt < ClockModulus /\ n < 2 * ClockModulus /\ n \in Nat
    BY ShortSteps, ModulusAssumption DEF Times
  <1>2. n % ClockModulus = IF n < ClockModulus THEN n ELSE n - ClockModulus
    <2> HIDE DEF n
    <2> QED
      BY <1>1, SmallMod, ModulusAssumption
  <1>3. Step(t, dt) = IF t + dt < ClockModulus THEN t + dt ELSE t + dt - ClockModulus
    BY <1>1, <1>2, ModulusAssumption DEF Step, Times
  <1>4. Step(t, dt) \in Times
    BY <1>1, <1>3, ModulusAssumption DEF Times
  <1>5. /\ Elapsed(Step(t, dt), ts) = IF Step(t, dt) >= ts THEN Step(t, dt) - ts
                                     ELSE Step(t, dt) + ClockModulus - ts
        /\ Elapsed(t, ts) = IF t >= ts THEN t - ts ELSE t + ClockModulus - ts
        /\ Elapsed(Step(t, dt), ts) \in Times /\ Elapsed(t, ts) \in Times
    BY <1>4, ElapsedIs
  <1>6. /\ t \in Nat /\ ts \in Nat /\ ClockModulus \in Nat /\ Step(t, dt) \in Nat
        /\ t < ClockModulus /\ ts < ClockModulus /\ Step(t, dt) < ClockModulus
    BY <1>4, ModulusAssumption DEF Times
  <1>7. CASE n < ClockModulus
    BY <1>1, <1>3, <1>4, <1>5, <1>6, <1>7
  <1>8. CASE n >= ClockModulus
    BY <1>1, <1>3, <1>4, <1>5, <1>6, <1>8
  <1> QED
    BY <1>1, <1>6, <1>7, <1>8

LEMMA NoTimeElapsed == ASSUME NEW t \in Times PROVE Elapsed(t, t) = 0
  BY ElapsedIs DEF Times

-----------------------------------------------------------------------------
(* The invariant *)

DataLoggers ==
    [state : States, config : Configurations, config_valid : BOOLEAN,
     previous_val : BOOLEAN, rising_edge_timestamp : Times, manual_trigger : BOOLEAN,
     trigger_timestamp : Times, remaining_data_to_write : 0 .. BufferSize,
     decimation_counter : Nat, log_points_after_trigger : 0 .. SizeModulus - 1,
     acquisition_id : 0 .. IdModulus - 1]
Histories ==
    [armings : 0 .. 2, seen : BOOLEAN, true_for : Nat, fired : [manual : BOOLEAN, held : Nat],
     since : Nat, acquired : Nat, timed_out : BOOLEAN]

\* Since the first arming of a configuration, the trigger remembers the rising edge of the
\* condition, and the clock shows no more than the time since then.
Held(d, h, t) ==
    /\ d.state = "Configured" /\ h.armings = 0 => ~d.previous_val
    /\ d.state \in {"Armed", "Triggered", "AcquisitionCompleted"} => h.armings > 0
    /\ d.state = "Armed" /\ h.armings = 1 =>
          /\ h.seen = d.previous_val
          /\ h.seen => Elapsed(t, d.rising_edge_timestamp) <= h.true_for
    /\ d.state \in {"Triggered", "AcquisitionCompleted"} /\ h.armings = 1 /\ ~h.fired.manual =>
          h.fired.held >= d.config.hold_time

\* While triggered the clock shows the time since the trigger.
InTime(d, h, t) ==
    /\ d.state = "Armed" => h.since = 0
    /\ d.state = "Triggered" /\ d.config.timeout > 0 =>
          h.since = Elapsed(t, d.trigger_timestamp) /\ h.since < d.config.timeout

Typed(d, e, h, t) ==
    d \in DataLoggers /\ e \in Encoders /\ Inside(e) /\ h \in Histories /\ t \in Times

IInv == Typed(dl, enc, hist, now) /\ Held(dl, hist, now) /\ InTime(dl, hist, now)

LEMMA InvariantIsStronger == IInv => TypeOK /\ FirstTriggerHeld /\ TimeoutRespected
  BY DEF IInv, Typed, Held, InTime, TypeOK, FirstTriggerHeld, TimeoutRespected, DataLoggers, Encoders,
       Inside, Histories

-----------------------------------------------------------------------------
(* The operations of the DataLogger *)

LEMMA Ranges ==
  /\ 0 \in Times /\ 0 \in 0 .. BufferSize /\ 0 \in 0 .. SizeModulus - 1 /\ 0 \in 0 .. IdModulus - 1
  BY BufferAssumption, ModulusAssumption, ConfigAssumption DEF Times

LEMMA ResetFacts ==
  ASSUME NEW d \in DataLoggers
  PROVE  /\ ResetDataLogger(d) \in DataLoggers
         /\ ResetDataLogger(d).state = "Idle" /\ ~ResetDataLogger(d).previous_val
  BY Ranges DEF ResetDataLogger, DataLoggers, States

\* A condition must be true for the hold time, or the trigger manual, for a result.
LEMMA CheckTriggerFacts ==
  ASSUME NEW d \in DataLoggers, NEW t \in Times, NEW eval \in Evaluations
  PROVE  LET check == CheckTrigger(d, t, eval) IN
         /\ check.next \in DataLoggers /\ check.next.state = d.state /\ check.next.config = d.config
         /\ check.result /\ ~d.manual_trigger =>
              eval = "true" /\ Elapsed(t, RisingEdge(d, t)) >= d.config.hold_time
         /\ ~check.result =>
              /\ ~d.manual_trigger
              /\ check.next.previous_val = IF eval = "failed" THEN d.previous_val ELSE eval = "true"
              /\ eval = "true" => check.next.rising_edge_timestamp = RisingEdge(d, t)
              /\ eval = "failed" => check.next.rising_edge_timestamp = d.rising_edge_timestamp
  <1>1. eval \in {"true", "false", "failed"}
    BY ConfigAssumption
  <1>2. RisingEdge(d, t) \in Times
    BY DEF RisingEdge, DataLoggers
  <1>3. CASE d.manual_trigger
    BY <1>3 DEF CheckTrigger, DataLoggers
  <1>4. CASE ~d.manual_trigger /\ eval = "failed"
    BY <1>4 DEF CheckTrigger, DataLoggers
  <1>5. CASE ~d.manual_trigger /\ eval = "false"
    BY <1>5 DEF CheckTrigger, DataLoggers
  <1>6. CASE ~d.manual_trigger /\ eval = "true"
    BY <1>2, <1>6 DEF CheckTrigger, DataLoggers, HasExpired
  <1> QED
    BY <1>1, <1>3, <1>4, <1>5, <1>6

LEMMA StampFacts ==
  ASSUME NEW d \in DataLoggers, NEW e \in Encoders, NEW t \in Times
  PROVE  LET s == StampTriggerPoint(d, e, t) IN
         /\ s \in DataLoggers /\ s.state = "Triggered" /\ s.trigger_timestamp = t /\ s.config = d.config
  <1>1. RemainingDataToWrite(d, e) \in 0 .. BufferSize
    <2> DEFINE after == ProbeRange - 1 - d.config.probe_location
               product == BufferSize * after
               share == product \div ProbeRange
               missing == RemainingBytesToFull(e)
    <2>1. after \in Nat
      <3>1. d.config.probe_location \in 0 .. ProbeRange - 1 /\ ProbeRange \in Nat \ {0}
        BY ConfigAssumption DEF DataLoggers, Configurations
      <3> QED
        BY <3>1
    <2>2. product \in Nat
      BY <2>1, BufferAssumption
    <2>3. share \in Nat
      <3> HIDE DEF product
      <3> QED
        BY <2>2, Quotients, ConfigAssumption
    <2>4. missing \in Int
      <3>1. e.entry_size * e.max_entries \in Nat /\ e.next * e.entry_size \in Nat
        BY DEF Encoders
      <3> QED
        BY <3>1 DEF RemainingBytesToFull, GetBufferEffectiveSize, GetWriteCursor
    <2>5. RemainingDataToWrite(d, e) = Capped(IF ~e.full /\ missing > share THEN missing ELSE share, BufferSize)
      BY DEF RemainingDataToWrite
    <2> HIDE DEF share, missing
    <2> QED
      BY <2>3, <2>4, <2>5, BufferAssumption DEF Capped
  <1> QED
    BY <1>1 DEF StampTriggerPoint, DataLoggers, States

\* The end of process() only leaves the state Triggered, for one reason.
LEMMA CompleteFacts ==
  ASSUME NEW d \in DataLoggers, NEW e \in Encoders, NEW t \in Times
  PROVE  LET c == CompleteIfAcquired(d, e, t) IN
         /\ c \in DataLoggers /\ c.config = d.config /\ c.previous_val = d.previous_val
         /\ c.rising_edge_timestamp = d.rising_edge_timestamp
         /\ c.trigger_timestamp = d.trigger_timestamp
         /\ d.state = "Triggered" => c.state \in {"Triggered", "AcquisitionCompleted"}
         /\ d.state # "Triggered" => c = d
         /\ c.state = "Triggered" => /\ ~TimedOut(d, t)
                                    /\ ~(GetDataWriteCounter(e) >= d.remaining_data_to_write)
         /\ c.remaining_data_to_write = d.remaining_data_to_write
  <1>1. (d.acquisition_id + 1) % IdModulus \in 0 .. IdModulus - 1
    <2> DEFINE n == d.acquisition_id + 1
    <2>1. n \in Nat /\ IdModulus \in Nat \ {0}
      BY ConfigAssumption DEF DataLoggers
    <2> HIDE DEF n
    <2>2. n % IdModulus \in 0 .. IdModulus - 1
      BY <2>1, CounterWraps
    <2> QED
      BY <2>2 DEF n
  <1> QED
    BY <1>1 DEF CompleteIfAcquired, AcquisitionCompleted, DataLoggers, Encoders, States

LEMMA AcquisitionFacts ==
  ASSUME NEW d \in DataLoggers
  PROVE  LET p == ProcessAcquisition(d) IN
         /\ p \in DataLoggers /\ p.state = d.state /\ p.config = d.config
         /\ p.previous_val = d.previous_val /\ p.manual_trigger = d.manual_trigger
         /\ p.rising_edge_timestamp = d.rising_edge_timestamp
         /\ p.trigger_timestamp = d.trigger_timestamp
         /\ p.remaining_data_to_write = d.remaining_data_to_write
  BY DEF ProcessAcquisition, DataLoggers

-----------------------------------------------------------------------------
(* The commands *)

LEMMA ConfigureStep ==
  ASSUME IInv, NEW c \in Configurations, NEW valid \in BOOLEAN, Configure(c, valid)
  PROVE  IInv'
  <1> DEFINE r == ResetDataLogger(dl)
  <1>1. r \in DataLoggers /\ ~r.previous_val
    BY ResetFacts DEF IInv, Typed
  <1>2. /\ dl' = [r EXCEPT !.config = c, !.config_valid = valid,
                           !.state = IF valid THEN "Configured" ELSE "Error"]
        /\ hist' = NoHistory /\ now' = now
    BY DEF Configure
  <1>3. enc' \in Encoders /\ Inside(enc')
    <2>1. c.size \in Nat
      BY ConfigAssumption DEF Configurations
    <2> QED
      BY <2>1, Sizes DEF Configure, IInv, Typed
  <1>4. dl' \in DataLoggers /\ ~dl'.previous_val /\ dl'.state \in {"Configured", "Error"}
    <2> HIDE DEF r
    <2> QED
      BY <1>1, <1>2 DEF DataLoggers, States
  <1>5. NoHistory \in Histories
    BY DEF NoHistory, Histories
  <1> QED
    BY <1>2, <1>3, <1>4, <1>5 DEF IInv, Typed, Held, InTime

LEMMA ResetStep ==
  ASSUME IInv, Reset
  PROVE  IInv'
  <1>1. dl' \in DataLoggers /\ dl'.state = "Idle"
    BY ResetFacts DEF IInv, Typed, Reset
  <1>2. NoHistory \in Histories
    BY DEF NoHistory, Histories
  <1> QED
    BY <1>1, <1>2 DEF IInv, Typed, Held, InTime, Reset

LEMMA ArmStep ==
  ASSUME IInv, ArmTrigger
  PROVE  IInv'
  <1> DEFINE n == Capped(hist.armings + 1, 2)
  <1>1. /\ dl' = [dl EXCEPT !.state = "Armed"] /\ enc' = enc /\ now' = now
        /\ hist' = [NoHistory EXCEPT !.armings = n]
    BY DEF ArmTrigger
  <1>2. n \in {1, 2} /\ (n = 1 => hist.armings = 0)
    <2>1. hist.armings \in {0, 1, 2}
      BY DEF IInv, Typed, Histories
    <2> QED
      BY <2>1 DEF Capped
  <1> HIDE DEF n
  <1>3. hist' \in Histories /\ ~hist'.seen /\ hist'.since = 0 /\ hist'.armings = n /\ n > 0
    <2>1. hist' = [armings |-> n, seen |-> FALSE, true_for |-> 0,
                   fired |-> [manual |-> FALSE, held |-> 0], since |-> 0, acquired |-> 0,
                   timed_out |-> FALSE]
      BY <1>1 DEF NoHistory
    <2>2. n \in 0 .. 2 /\ n > 0
      BY <1>2
    <2> QED
      BY <2>1, <2>2 DEF Histories
  <1>4. n = 1 => ~dl.previous_val
    BY <1>2 DEF IInv, Held, ArmTrigger
  <1>5. dl' \in DataLoggers /\ dl'.state = "Armed" /\ dl'.previous_val = dl.previous_val
        /\ dl.previous_val \in BOOLEAN
    BY <1>1 DEF IInv, Typed, DataLoggers, States
  <1> QED
    <2>1. Typed(dl', enc', hist', now')
      BY <1>1, <1>3, <1>5 DEF IInv, Typed
    <2>2. Held(dl', hist', now')
      <3>1. n = 1 => hist'.seen = dl'.previous_val
        <4>1. hist'.seen = FALSE
          BY <1>3 DEF Histories
        <4>2. n = 1 => dl'.previous_val = FALSE
          BY <1>4, <1>5
        <4> QED
          BY <4>1, <4>2
      <3> QED
        BY <1>1, <1>3, <1>5, <3>1 DEF Held
    <2>3. InTime(dl', hist', now')
      BY <1>1, <1>3, <1>5 DEF InTime
    <2> QED
      BY <2>1, <2>2, <2>3 DEF IInv

LEMMA DisarmStep ==
  ASSUME IInv, DisarmTrigger
  PROVE  IInv'
  <1>1. /\ dl' = [dl EXCEPT !.state = "Configured"] /\ enc' = enc /\ now' = now
        /\ hist' = [NoHistory EXCEPT !.armings = hist.armings]
        /\ dl.state \in {"Armed", "AcquisitionCompleted", "Triggered"}
    BY DEF DisarmTrigger
  <1>2. hist' \in Histories /\ hist'.armings > 0
    BY <1>1 DEF IInv, Typed, Held, NoHistory, Histories
  <1>3. dl' \in DataLoggers /\ dl'.state = "Configured"
    BY <1>1 DEF IInv, Typed, DataLoggers, States
  <1> QED
    BY <1>1, <1>2, <1>3 DEF IInv, Typed, Held, InTime, Histories

LEMMA ForceStep ==
  ASSUME IInv, ForceTrigger
  PROVE  IInv'
  <1>1. dl' = [dl EXCEPT !.manual_trigger = TRUE] /\ enc' = enc /\ now' = now /\ hist' = hist
    BY DEF ForceTrigger
  <1>2. /\ dl' \in DataLoggers /\ dl'.state = dl.state /\ dl'.config = dl.config
        /\ dl'.previous_val = dl.previous_val /\ dl'.trigger_timestamp = dl.trigger_timestamp
        /\ dl'.rising_edge_timestamp = dl.rising_edge_timestamp
    BY <1>1 DEF IInv, Typed, DataLoggers
  <1> QED
    BY <1>1, <1>2 DEF IInv, Typed, Held, InTime

-----------------------------------------------------------------------------
(* process() *)

LEMMA NothingStep ==
  ASSUME IInv, NEW dt \in Steps, ProcessNothing(dt) \/ ProcessError(dt)
  PROVE  IInv'
  <1>1. now' = Step(now, dt) /\ Step(now, dt) \in Times /\ UNCHANGED <<enc, hist>>
    BY ElapsedAdds DEF IInv, Typed, ProcessNothing, ProcessError
  <1>2. CASE ProcessNothing(dt)
    BY <1>1, <1>2 DEF IInv, Typed, Held, InTime, ProcessNothing
  <1>3. CASE ProcessError(dt)
    <2>1. dl' \in DataLoggers /\ dl'.state = "Error"
      BY <1>3 DEF IInv, Typed, ProcessError, DataLoggers, States
    <2> QED
      BY <1>1, <2>1 DEF IInv, Typed, Held, InTime
  <1> QED
    BY <1>2, <1>3

LEMMA DueFacts ==
  ASSUME IInv, ~EncoderError(enc)
  PROVE  EncodeIfDue(dl, enc) \in Encoders /\ Inside(EncodeIfDue(dl, enc))
  BY EncodeFacts DEF IInv, Typed, EncodeIfDue

\* The time of an acquisition adds up, and it is checked in every pass.
LEMMA AcquireStep ==
  ASSUME IInv, NEW dt \in Steps, Acquire(dt)
  PROVE  IInv'
  <1> DEFINE t == Step(now, dt)
             e == EncodeIfDue(dl, enc)
             p == ProcessAcquisition(dl)
             d == CompleteIfAcquired(p, e, t)
  <1>1. /\ dl.state \in {"Configured", "Triggered"} /\ dl' = d /\ enc' = e /\ now' = t
        /\ e \in Encoders /\ Inside(e) /\ t \in Times
    BY DueFacts, ElapsedAdds DEF Acquire, IInv, Typed
  <1>2. /\ p \in DataLoggers /\ p.state = dl.state /\ p.config = dl.config
        /\ p.previous_val = dl.previous_val /\ p.trigger_timestamp = dl.trigger_timestamp
    BY AcquisitionFacts DEF IInv, Typed
  <1>3. /\ d \in DataLoggers /\ d.config = dl.config /\ d.previous_val = dl.previous_val
        /\ d.trigger_timestamp = dl.trigger_timestamp
        /\ dl.state = "Configured" => d.state = "Configured"
        /\ dl.state = "Triggered" => d.state \in {"Triggered", "AcquisitionCompleted"}
        /\ d.state = "Triggered" => ~TimedOut(p, t)
    BY <1>1, <1>2, CompleteFacts
  <1> HIDE DEF d, p, e, t
  <1>4. CASE dl.state = "Configured"
    <2>1. hist' = hist
      BY <1>4 DEF Acquire
    <2> QED
      BY <1>1, <1>3, <1>4, <2>1 DEF IInv, Typed, Held, InTime
  <1>5. CASE dl.state = "Triggered"
    <2>1. /\ hist' \in Histories /\ hist'.armings = hist.armings /\ hist'.fired = hist.fired
          /\ hist'.since = Capped(hist.since + dt, Horizon)
      <3>1. Capped(hist.since + dt, Horizon) \in Nat
        BY ShortSteps, ModulusAssumption DEF IInv, Typed, Histories, Capped, Horizon
      <3>2. Capped(hist.acquired + IF EntryIsDue(dl) THEN enc.entry_size ELSE 0, SizeHorizon) \in Nat
        BY BufferAssumption DEF IInv, Typed, Histories, Encoders, Capped, SizeHorizon
      <3>3. PICK b \in BOOLEAN :
              hist' = [hist EXCEPT !.since = Capped(hist.since + dt, Horizon),
                                   !.acquired = Capped(hist.acquired + IF EntryIsDue(dl) THEN enc.entry_size ELSE 0,
                                                       SizeHorizon),
                                   !.timed_out = b]
        BY <1>5 DEF Acquire
      <3> QED
        BY <3>1, <3>2, <3>3 DEF IInv, Typed, Histories
    <2>2. ASSUME d.state = "Triggered", d.config.timeout > 0
          PROVE  hist'.since = Elapsed(t, d.trigger_timestamp) /\ hist'.since < d.config.timeout
      <3>1. /\ hist.since = Elapsed(now, dl.trigger_timestamp) /\ hist.since < dl.config.timeout
            /\ dl.trigger_timestamp \in Times /\ now \in Times /\ hist.since \in Nat
        BY <1>3, <1>5, <2>2 DEF IInv, Typed, InTime, DataLoggers, Histories
      <3>2. dl.config.timeout + dt < ClockModulus /\ dl.config.timeout \in Nat /\ dt \in Nat /\ ClockModulus \in Nat
        BY ShortSteps, StepsAssumption, ModulusAssumption DEF IInv, Typed, DataLoggers, Configurations
      <3>3. Elapsed(t, dl.trigger_timestamp) = hist.since + dt
        BY <3>1, <3>2, ElapsedAdds DEF t
      <3>4. hist'.since = hist.since + dt
        BY <2>1, <3>1, <3>2 DEF Capped, Horizon
      <3>5. Elapsed(t, dl.trigger_timestamp) < dl.config.timeout
        BY <1>2, <1>3, <2>2, <3>1, <3>2, <3>3 DEF TimedOut, HasExpired
      <3> QED
        BY <1>3, <3>3, <3>4, <3>5
    <2>3. d.state \in {"Triggered", "AcquisitionCompleted"}
      BY <1>3, <1>5
    <2> QED
      BY <1>1, <1>3, <1>5, <2>1, <2>2, <2>3 DEF IInv, Typed, Held, InTime
  <1> QED
    BY <1>1, <1>4, <1>5

\* While armed, a trigger comes after the time since the rising edge, or by hand.
LEMMA ArmedStep ==
  ASSUME IInv, NEW dt \in Steps, NEW eval \in Evaluations, ProcessArmed(dt, eval)
  PROVE  IInv'
  <1> DEFINE t == Step(now, dt)
             e == EncodeIfDue(dl, enc)
             p == ProcessAcquisition(dl)
             check == CheckTrigger(p, t, eval)
             stamped == StampTriggerPoint(check.next, e, t)
             counted == ResetWriteCounter(e)
             d == CompleteIfAcquired(stamped, counted, t)
             seen == IF eval = "failed" THEN hist.seen ELSE eval = "true"
             true_for == IF hist.seen THEN Capped(hist.true_for + dt, Horizon) ELSE 0
  <1>1. /\ dl.state = "Armed" /\ now' = t
        /\ dl' = (IF check.result THEN d ELSE check.next)
        /\ enc' = (IF check.result THEN counted ELSE e)
        /\ hist' = (IF check.result
                      THEN [hist EXCEPT !.seen = FALSE, !.true_for = 0,
                                        !.fired = [manual |-> dl.manual_trigger, held |-> true_for]]
                      ELSE [hist EXCEPT !.seen = seen, !.true_for = IF seen THEN true_for ELSE 0])
    BY DEF ProcessArmed
  <1>2. e \in Encoders /\ Inside(e) /\ counted \in Encoders /\ Inside(counted)
    <2>1. e \in Encoders /\ Inside(e)
      BY DueFacts DEF ProcessArmed
    <2> QED
      BY <2>1, Ranges DEF ResetWriteCounter, Encoders, Inside, EncoderError
  <1>3. /\ p \in DataLoggers /\ p.state = dl.state /\ p.config = dl.config
        /\ p.previous_val = dl.previous_val /\ p.manual_trigger = dl.manual_trigger
        /\ p.rising_edge_timestamp = dl.rising_edge_timestamp
    BY AcquisitionFacts DEF IInv, Typed
  <1>4. /\ now \in Times /\ t \in Times /\ hist \in Histories /\ dl \in DataLoggers
        /\ dl.rising_edge_timestamp \in Times /\ dt \in Nat
    BY ElapsedAdds, ShortSteps DEF IInv, Typed, DataLoggers
  <1>5. true_for \in Nat /\ (hist.seen => true_for = Capped(hist.true_for + dt, Horizon))
    BY <1>4, ModulusAssumption DEF Histories, Capped, Horizon
  <1>6. ASSUME hist.seen, hist.armings = 1
        PROVE  Elapsed(t, dl.rising_edge_timestamp) <= true_for
    <2>1. Elapsed(now, dl.rising_edge_timestamp) <= hist.true_for
      BY <1>1, <1>6 DEF IInv, Held
    <2>2. /\ Elapsed(t, dl.rising_edge_timestamp) <= Elapsed(now, dl.rising_edge_timestamp) + dt
          /\ Elapsed(t, dl.rising_edge_timestamp) \in Times
          /\ Elapsed(now, dl.rising_edge_timestamp) \in Times
      BY <1>4, ElapsedAdds
    <2>3. hist.true_for \in Nat
      BY <1>4 DEF Histories
    <2> QED
      BY <1>4, <1>5, <1>6, <2>1, <2>2, <2>3, ModulusAssumption DEF Capped, Horizon, Times
  <1>7. /\ check.next \in DataLoggers /\ check.next.state = "Armed" /\ check.next.config = dl.config
        /\ check.result /\ ~dl.manual_trigger =>
             eval = "true" /\ Elapsed(t, RisingEdge(p, t)) >= dl.config.hold_time
        /\ ~check.result =>
             /\ check.next.previous_val = IF eval = "failed" THEN dl.previous_val ELSE eval = "true"
             /\ eval = "true" => check.next.rising_edge_timestamp = RisingEdge(p, t)
             /\ eval = "failed" => check.next.rising_edge_timestamp = dl.rising_edge_timestamp
    BY <1>1, <1>3, <1>4, CheckTriggerFacts
  <1>8. /\ hist.armings > 0 /\ hist.since = 0
        /\ hist.armings = 1 => hist.seen = dl.previous_val
    BY <1>1 DEF IInv, Held, InTime
  <1>9. RisingEdge(p, t) = IF dl.previous_val THEN dl.rising_edge_timestamp ELSE t
    BY <1>3 DEF RisingEdge
  <1>10. Elapsed(t, t) = 0
    BY <1>4, NoTimeElapsed
  <1>11. hist.armings = 1 => Elapsed(t, RisingEdge(p, t)) <= true_for
    BY <1>5, <1>6, <1>8, <1>9, <1>10
  <1>12. CASE check.result
    <2> HIDE DEF check, e, p, t, true_for
    <2>1. /\ stamped \in DataLoggers /\ stamped.state = "Triggered" /\ stamped.trigger_timestamp = t
          /\ stamped.config = dl.config
      <3> DEFINE next == check.next
      <3>1. next \in DataLoggers /\ next.config = dl.config /\ e \in Encoders /\ t \in Times
        BY <1>2, <1>4, <1>7
      <3> HIDE DEF next
      <3>2. LET s == StampTriggerPoint(next, e, t) IN
              /\ s \in DataLoggers /\ s.state = "Triggered" /\ s.trigger_timestamp = t /\ s.config = next.config
        BY <3>1, StampFacts
      <3> QED
        BY <3>1, <3>2 DEF next
    <2> HIDE DEF stamped, counted
    <2>2. /\ d \in DataLoggers /\ d.config = dl.config /\ d.trigger_timestamp = t
          /\ d.state \in {"Triggered", "AcquisitionCompleted"}
      <3>1. counted \in Encoders /\ t \in Times
        BY <1>2, <1>4 DEF counted
      <3>2. LET c == CompleteIfAcquired(stamped, counted, t) IN
              /\ c \in DataLoggers /\ c.config = stamped.config /\ c.trigger_timestamp = stamped.trigger_timestamp
              /\ c.state \in {"Triggered", "AcquisitionCompleted"}
        BY <2>1, <3>1, CompleteFacts
      <3> QED
        BY <2>1, <3>2
    <2> HIDE DEF d
    <2>3. /\ hist' \in Histories /\ hist'.armings = hist.armings /\ hist'.since = hist.since
          /\ hist'.fired.manual = dl.manual_trigger /\ hist'.fired.held = true_for
      BY <1>1, <1>4, <1>5, <1>12 DEF Histories, DataLoggers
    <2>4. d.config.hold_time \in Nat /\ d.config.timeout \in Nat
      BY <2>2, StepsAssumption DEF DataLoggers, Configurations
    <2>5. hist.armings = 1 /\ ~dl.manual_trigger => true_for >= d.config.hold_time
      <3>1. Elapsed(t, RisingEdge(p, t)) \in Times
        BY <1>4, <1>9, ElapsedIs
      <3>2. Elapsed(t, RisingEdge(p, t)) \in Nat
        BY <3>1, ModulusAssumption DEF Times
      <3> QED
        BY <1>5, <1>7, <1>11, <1>12, <2>2, <2>4, <3>2
    <2> QED
      BY <1>1, <1>2, <1>4, <1>8, <1>10, <1>12, <2>2, <2>3, <2>4, <2>5 DEF IInv, Typed, Held, InTime
  <1>13. CASE ~check.result
    <2> HIDE DEF d, stamped, counted, check, e, p, t, true_for
    <2>1. seen \in BOOLEAN
      BY <1>4 DEF Histories
    <2>2. /\ hist' \in Histories /\ hist'.armings = hist.armings /\ hist'.since = hist.since
          /\ hist'.seen = seen /\ hist'.true_for = IF seen THEN true_for ELSE 0
      BY <1>1, <1>4, <1>5, <1>13, <2>1 DEF Histories
    <2>3. /\ dl' = check.next /\ enc' = e
      BY <1>1, <1>13
    <2>4. ASSUME hist.armings = 1
          PROVE  /\ seen = dl'.previous_val
                 /\ seen => Elapsed(t, dl'.rising_edge_timestamp) <= true_for
      <3>1. CASE eval = "failed"
        BY <1>6, <1>7, <1>8, <1>13, <2>3, <2>4, <3>1
      <3>2. CASE eval # "failed"
        BY <1>7, <1>11, <1>13, <2>3, <2>4, <3>2
      <3> QED
        BY <3>1, <3>2
    <2> HIDE DEF seen
    <2> QED
      BY <1>1, <1>2, <1>4, <1>7, <1>8, <2>2, <2>3, <2>4 DEF IInv, Typed, Held, InTime
  <1> QED
    BY <1>12, <1>13

-----------------------------------------------------------------------------
(* The theorems *)

LEMMA InductiveStep ==
  ASSUME IInv, [Next]_vars
  PROVE  IInv'
  <1>1. CASE UNCHANGED vars
    BY <1>1 DEF vars, IInv, Typed, Held, InTime
  <1>2. CASE Process
    BY <1>2, NothingStep, AcquireStep, ArmedStep DEF Process
  <1>3. CASE Command
    BY <1>3, ConfigureStep, ResetStep, ArmStep, DisarmStep, ForceStep DEF Command
  <1> QED
    BY <1>1, <1>2, <1>3 DEF Next

THEOREM InductiveInvariant == Spec => []IInv
  <1>1. Init => IInv
    <2> SUFFICES ASSUME Init PROVE IInv
      OBVIOUS
    <2>1. (CHOOSE c \in Configurations : TRUE) \in Configurations
      <3>1. \E c \in Configurations : TRUE
        <4>1. PICK a \in Decimations, b \in Probes, f \in HoldTimes, g \in Timeouts, h \in EntrySizes : TRUE
          BY ConfigAssumption
        <4>2. [decimation |-> a, probe_location |-> b, hold_time |-> f, timeout |-> g, size |-> h]
                \in Configurations
          BY DEF Configurations
        <4> QED
          BY <4>2
      <3> QED
        BY <3>1
    <2>2. dl \in DataLoggers /\ dl.state = "Idle"
      BY <2>1, Ranges DEF Init, DataLoggers, States
    <2>3. enc \in Encoders /\ Inside(enc)
      BY Sizes DEF Init
    <2>4. hist \in Histories /\ now \in Times
      BY Ranges DEF Init, NoHistory, Histories
    <2> QED
      BY <2>2, <2>3, <2>4 DEF IInv, Typed, Held, InTime
  <1> QED
    BY <1>1, InductiveStep, PTL DEF Spec

\* The DataLogger and the indices of its encoder have their types.
THEOREM TypeCorrect == Spec => []TypeOK
  BY InductiveInvariant, InvariantIsStronger, PTL

\* check_trigger() does not trigger, the first time after configure(), before its
\* condition has been true for the hold time, unless it was told to by hand.
THEOREM HeldBeforeTrigger == Spec => []FirstTriggerHeld
  BY InductiveInvariant, InvariantIsStronger, PTL

\* acquisition_completed() ends an acquisition in the pass that reaches its timeout.
THEOREM TimeoutHolds == Spec => []TimeoutRespected
  BY InductiveInvariant, InvariantIsStronger, PTL

-----------------------------------------------------------------------------
(* The end of an acquisition *)

\* Buffer sizes that leave room in buffer_size_t for one more entry: the write counter of
\* the encoder, a product of that width, does not wrap around before the end is seen.
Roomy == \A size \in EntrySizes : BufferSize + size < SizeModulus

\* While triggered, the chars encoded since then are those of the write counter.
Counted(d, e, h) ==
    /\ EncoderError(e) \/ e.entry_size \in EntrySizes \ {0}
    /\ d.state = "Armed" => h.acquired = 0
    /\ d.state = "Triggered" => /\ h.acquired = e.counter * e.entry_size
                                /\ h.acquired < d.remaining_data_to_write

LEMMA SizeInRange ==
  ASSUME Roomy, NEW size \in EntrySizes
  PROVE  size \in Nat /\ BufferSize \in Nat /\ SizeModulus \in Nat \ {0} /\ BufferSize + size < SizeModulus
  BY BufferAssumption, ConfigAssumption DEF Roomy

LEMMA OneMore ==
  ASSUME NEW n \in Nat, NEW size \in Nat \ {0}
  PROVE  (n + 1) * size = n * size + size /\ n <= n * size /\ n * size \in Nat
  OBVIOUS

\* An entry adds its size to what get_data_write_counter() tells.
LEMMA CounterAdds ==
  ASSUME Roomy, NEW e \in Encoders, e.entry_size \in EntrySizes \ {0},
         e.counter * e.entry_size < BufferSize
  PROVE  LET f == EncodeNextEntry(e) IN
         /\ f.entry_size = e.entry_size
         /\ f.counter * f.entry_size = e.counter * e.entry_size + e.entry_size
         /\ GetDataWriteCounter(f) = f.counter * f.entry_size
  <1> DEFINE n == e.counter
             size == e.entry_size
             f == EncodeNextEntry(e)
             total == n * size + size
  <1>1. /\ n \in Nat /\ size \in Nat \ {0} /\ size \in EntrySizes
        /\ BufferSize \in Nat /\ SizeModulus \in Nat \ {0} /\ BufferSize + size < SizeModulus
    BY SizeInRange DEF Encoders
  <1>2. f.entry_size = size /\ f.counter = (n + 1) % SizeModulus
    BY DEF EncodeNextEntry, Encoders
  <1>3. n * size < BufferSize
    OBVIOUS
  <1>4. GetDataWriteCounter(f) = (f.counter * f.entry_size) % SizeModulus
    BY DEF GetDataWriteCounter
  <1> HIDE DEF n, size, f
  <1>5. (n + 1) * size = total /\ n <= n * size /\ n * size \in Nat
    BY <1>1, OneMore
  <1>6. (n + 1) % SizeModulus = n + 1
    <2>1. n + 1 \in 0 .. SizeModulus - 1
      BY <1>1, <1>3, <1>5
    <2> QED
      BY <1>1, <2>1
  <1>7. total % SizeModulus = total
    <2>1. total \in 0 .. SizeModulus - 1
      BY <1>1, <1>3, <1>5
    <2> HIDE DEF total
    <2> QED
      BY <1>1, <2>1
  <1>8. f.counter * f.entry_size = total
    BY <1>2, <1>5, <1>6
  <1>9. GetDataWriteCounter(f) = total
    BY <1>4, <1>7, <1>8
  <1> QED
    BY <1>2, <1>8, <1>9 DEF f, n, size

\* The commands start over; while armed nothing is counted.
LEMMA CountedCommands ==
  ASSUME IInv, Counted(dl, enc, hist), Command
  PROVE  Counted(dl', enc', hist')
  <1>1. CASE \E c \in Configurations, valid \in BOOLEAN : Configure(c, valid)
    <2>1. PICK c \in Configurations, valid \in BOOLEAN : Configure(c, valid)
      BY <1>1
    <2>2. dl'.state \in {"Configured", "Error"}
      BY <2>1, ResetFacts DEF Configure, IInv, Typed, DataLoggers
    <2>3. c.size \in EntrySizes /\ (c.size = 0 => EncoderError(EncoderReset(c.size)))
      BY DEF Configurations, EncoderReset, EncoderError
    <2>4. EncoderError(enc') \/ enc'.entry_size \in EntrySizes \ {0}
      BY <2>1, <2>3 DEF Configure, EncoderReset, Counted
    <2> QED
      BY <2>2, <2>4 DEF Counted
  <1>2. CASE Reset
    <2>1. dl'.state = "Idle" /\ enc' = enc
      BY <1>2, ResetFacts DEF Reset, IInv, Typed
    <2> QED
      BY <2>1 DEF Counted
  <1>3. CASE ArmTrigger
    <2>1. dl'.state = "Armed" /\ enc' = enc /\ hist'.acquired = 0
      BY <1>3 DEF ArmTrigger, IInv, Typed, DataLoggers, NoHistory
    <2> QED
      BY <2>1 DEF Counted
  <1>4. CASE DisarmTrigger
    <2>1. dl'.state = "Configured" /\ enc' = enc
      BY <1>4 DEF DisarmTrigger, IInv, Typed, DataLoggers
    <2> QED
      BY <2>1 DEF Counted
  <1>5. CASE ForceTrigger
    <2>1. dl'.state = "Armed" /\ enc' = enc /\ hist' = hist /\ dl.state = "Armed"
      BY <1>5 DEF ForceTrigger, IInv, Typed, DataLoggers
    <2> QED
      BY <2>1 DEF Counted
  <1> QED
    BY <1>1, <1>2, <1>3, <1>4, <1>5 DEF Command

LEMMA CountedAcquire ==
  ASSUME Roomy, IInv, Counted(dl, enc, hist), NEW dt \in Steps, Acquire(dt)
  PROVE  Counted(dl', enc', hist')
  <1> DEFINE t == Step(now, dt)
             e == EncodeIfDue(dl, enc)
             p == ProcessAcquisition(dl)
             more == IF EntryIsDue(dl) THEN enc.entry_size ELSE 0
  <1>1. /\ dl.state \in {"Configured", "Triggered"} /\ dl' = CompleteIfAcquired(p, e, t) /\ enc' = e
        /\ e \in Encoders /\ t \in Times /\ ~EncoderError(enc) /\ enc \in Encoders
        /\ dl.remaining_data_to_write \in 0 .. BufferSize
    BY DueFacts, ElapsedAdds DEF Acquire, IInv, Typed, DataLoggers
  <1>2. p \in DataLoggers /\ p.state = dl.state /\ p.remaining_data_to_write = dl.remaining_data_to_write
    BY AcquisitionFacts DEF IInv, Typed
  <1>3. /\ dl.state = "Configured" => dl'.state = "Configured"
        /\ dl.state = "Triggered" => dl'.state \in {"Triggered", "AcquisitionCompleted"}
        /\ dl'.state = "Triggered" => ~(GetDataWriteCounter(e) >= dl.remaining_data_to_write)
        /\ dl'.remaining_data_to_write = dl.remaining_data_to_write
    BY <1>1, <1>2, CompleteFacts
  <1>4. e.entry_size = enc.entry_size /\ enc.entry_size \in EntrySizes \ {0}
    BY <1>1 DEF EncodeIfDue, EncodeNextEntry, Encoders, Counted
  <1>5. ASSUME dl.state = "Triggered", dl'.state = "Triggered"
        PROVE  hist'.acquired = e.counter * e.entry_size /\ hist'.acquired < dl.remaining_data_to_write
    <2>1. /\ hist.acquired = enc.counter * enc.entry_size /\ hist.acquired < dl.remaining_data_to_write
          /\ hist.acquired \in Nat
      BY <1>5 DEF Counted, IInv, Typed, Histories
    <2>2. hist.acquired < BufferSize
      BY <1>1, <2>1, BufferAssumption
    <2>3. e.counter * e.entry_size = hist.acquired + more
      <3>1. CASE EntryIsDue(dl)
        BY <1>1, <1>4, <2>1, <2>2, <3>1, CounterAdds DEF EncodeIfDue
      <3>2. CASE ~EntryIsDue(dl)
        BY <2>1, <3>2 DEF EncodeIfDue
      <3> QED
        BY <3>1, <3>2
    <2>4. EntryIsDue(dl) => GetDataWriteCounter(e) = e.counter * e.entry_size
      BY <1>1, <1>4, <2>1, <2>2, CounterAdds DEF EncodeIfDue
    <2>5. more \in Nat /\ hist.acquired + more < SizeModulus /\ SizeModulus \in Nat
      BY <1>4, <2>1, <2>2, SizeInRange
    <2>6. hist'.acquired = Capped(hist.acquired + more, SizeHorizon)
      BY <1>5 DEF Acquire, IInv, Typed, Histories
    <2> HIDE DEF more, e
    <2>7. hist'.acquired = hist.acquired + more
      BY <2>1, <2>5, <2>6 DEF Capped, SizeHorizon
    <2>8. hist.acquired + more < dl.remaining_data_to_write
      <3>1. CASE EntryIsDue(dl)
        BY <1>1, <1>3, <1>5, <2>1, <2>3, <2>4, <2>5, <3>1, BufferAssumption
      <3>2. CASE ~EntryIsDue(dl)
        BY <2>1, <3>2 DEF more
      <3> QED
        BY <3>1, <3>2
    <2> QED
      BY <2>3, <2>7, <2>8
  <1> HIDE DEF e, p, t
  <1> QED
    BY <1>1, <1>3, <1>4, <1>5 DEF Counted

\* A trigger restarts the count, and a count of nothing is not enough.
LEMMA CountedArmed ==
  ASSUME IInv, Counted(dl, enc, hist), NEW dt \in Steps, NEW eval \in Evaluations, ProcessArmed(dt, eval)
  PROVE  Counted(dl', enc', hist')
  <1> DEFINE t == Step(now, dt)
             e == EncodeIfDue(dl, enc)
             check == CheckTrigger(ProcessAcquisition(dl), t, eval)
             next == check.next
             counted == ResetWriteCounter(e)
             stamped == StampTriggerPoint(next, e, t)
  <1>1. /\ dl.state = "Armed" /\ ~EncoderError(enc) /\ hist.acquired = 0 /\ hist'.acquired = hist.acquired
        /\ dl' = (IF check.result THEN CompleteIfAcquired(stamped, counted, t) ELSE next)
        /\ enc' = (IF check.result THEN counted ELSE e)
    BY DEF ProcessArmed, IInv, Typed, Histories, Counted
  <1>2. /\ e \in Encoders /\ t \in Times /\ enc \in Encoders
    BY <1>1, DueFacts, ElapsedAdds DEF IInv, Typed
  <1>3. next \in DataLoggers /\ next.state = "Armed"
    BY <1>1, <1>2, AcquisitionFacts, CheckTriggerFacts DEF IInv, Typed
  <1>4. e.entry_size \in EntrySizes \ {0}
    BY <1>1, <1>2 DEF EncodeIfDue, EncodeNextEntry, Encoders, Counted
  <1>5. CASE ~check.result
    <2>1. dl'.state = "Armed" /\ enc' = e
      BY <1>1, <1>3, <1>5
    <2> QED
      BY <1>1, <1>4, <2>1 DEF Counted
  <1>6. CASE check.result
    <2>1. /\ counted \in Encoders /\ counted.counter = 0 /\ counted.entry_size = e.entry_size
      BY <1>2, Ranges DEF ResetWriteCounter, Encoders
    <2> HIDE DEF next, counted, e, t
    <2>2. stamped \in DataLoggers /\ stamped.state = "Triggered"
      BY <1>2, <1>3, StampFacts
    <2> HIDE DEF stamped
    <2>3. /\ dl'.remaining_data_to_write = stamped.remaining_data_to_write
          /\ dl'.state \in {"Triggered", "AcquisitionCompleted"}
          /\ dl'.state = "Triggered" => ~(GetDataWriteCounter(counted) >= stamped.remaining_data_to_write)
      BY <1>1, <1>2, <1>6, <2>1, <2>2, CompleteFacts
    <2>4. counted.counter * counted.entry_size = 0 /\ GetDataWriteCounter(counted) = 0
      <3>1. 0 * e.entry_size = 0
        <4>1. e.entry_size \in Nat
          BY <1>4, ConfigAssumption
        <4> QED
          BY <4>1
      <3>2. 0 % SizeModulus = 0
        BY BufferAssumption
      <3> QED
        BY <2>1, <3>1, <3>2 DEF GetDataWriteCounter
    <2>5. stamped.remaining_data_to_write \in Nat
      BY <2>2, BufferAssumption DEF DataLoggers
    <2> QED
      BY <1>1, <1>4, <1>6, <2>1, <2>3, <2>4, <2>5 DEF Counted
  <1> QED
    BY <1>5, <1>6

LEMMA CountedStep ==
  ASSUME Roomy, IInv, Counted(dl, enc, hist), [Next]_vars
  PROVE  Counted(dl', enc', hist')
  <1>1. CASE UNCHANGED vars
    BY <1>1 DEF vars
  <1>2. ASSUME NEW dt \in Steps, ProcessNothing(dt) \/ ProcessError(dt)
        PROVE  Counted(dl', enc', hist')
    BY <1>2 DEF ProcessNothing, ProcessError, Counted, IInv, Typed, DataLoggers
  <1>3. CASE Process
    BY <1>2, <1>3, CountedAcquire, CountedArmed DEF Process
  <1>4. CASE Command
    BY <1>4, CountedCommands
  <1> QED
    BY <1>1, <1>3, <1>4 DEF Next

\* acquisition_completed() ends an acquisition in the pass whose entry is the last one
\* asked for by stamp_trigger_point(), in a buffer that is not almost as large as
\* buffer_size_t allows.
THEOREM CompletesInTime ==
  ASSUME Roomy
  PROVE  Spec => []CompletesOnceAcquired
  <1> DEFINE C == Counted(dl, enc, hist)
  <1>1. Init => C
    BY DEF Init, Counted, EncoderReset, EncoderError
  <1>2. C => CompletesOnceAcquired
    BY DEF Counted, CompletesOnceAcquired
  <1>3. IInv /\ C /\ [Next]_vars => C'
    BY CountedStep
  <1> HIDE DEF C
  <1> QED
    BY <1>1, <1>2, <1>3, InductiveInvariant, PTL DEF Spec

-----------------------------------------------------------------------------
(* The filling of the buffer *)

\* While triggered, what is still to be written reaches the end of a buffer that is not
\* full: the write cursor is as far from the end as it was at the trigger, less what has
\* been written since.
Filling(d, e, h) ==
    /\ GetBufferEffectiveSize(e) <= BufferSize
    /\ ~EncoderError(e) => e.entry_size > 0
    /\ d.state = "Triggered" /\ ~e.full /\ ~EncoderError(e) =>
          GetBufferEffectiveSize(e) + e.counter * e.entry_size
             <= d.remaining_data_to_write + GetWriteCursor(e)
    /\ d.state = "AcquisitionCompleted" /\ ~h.timed_out => e.full \/ EncoderError(e)

\* The write cursor of a buffer in use is before its end.
LEMMA CursorBeforeEnd ==
  ASSUME NEW e \in Encoders, Inside(e), ~EncoderError(e), e.entry_size > 0
  PROVE  /\ GetWriteCursor(e) \in Nat /\ GetBufferEffectiveSize(e) \in Nat
         /\ GetWriteCursor(e) < GetBufferEffectiveSize(e)
  <1> DEFINE size == e.entry_size
             i == e.next
             j == e.max_entries
  <1>1. size \in Nat /\ size > 0 /\ i \in Nat /\ j \in Nat /\ i < j
    BY DEF Encoders, Inside
  <1>2. GetWriteCursor(e) = i * size /\ GetBufferEffectiveSize(e) = size * j
    BY DEF GetWriteCursor, GetBufferEffectiveSize
  <1> HIDE DEF size, i, j
  <1>3. i * size \in Nat /\ j * size \in Nat /\ i * size + size <= j * size
    BY <1>1, SlotsApart
  <1>4. size * j = j * size
    BY <1>1
  <1> QED
    BY <1>1, <1>2, <1>3, <1>4

\* What the write counter tells is no more than what it counts.
LEMMA CounterTellsLess ==
  ASSUME NEW e \in Encoders
  PROVE  /\ e.counter * e.entry_size \in Nat
         /\ GetDataWriteCounter(e) <= e.counter * e.entry_size
  <1> DEFINE n == e.counter * e.entry_size
  <1>1. n \in Nat
    BY BufferAssumption DEF Encoders
  <1>2. GetDataWriteCounter(e) = n % SizeModulus
    BY DEF GetDataWriteCounter
  <1> HIDE DEF n
  <1>3. n % SizeModulus <= n
    BY <1>1, BufferAssumption
  <1> QED
    BY <1>1, <1>2, <1>3 DEF n

\* An entry that does not fill the buffer moves the write cursor by its size, and the
\* write counter by no more.
LEMMA CursorMoves ==
  ASSUME NEW e \in Encoders, Inside(e), ~EncoderError(e)
  PROVE  LET f == EncodeNextEntry(e) IN
         /\ f.entry_size = e.entry_size
         /\ GetBufferEffectiveSize(f) = GetBufferEffectiveSize(e)
         /\ EncoderError(f) = EncoderError(e)
         /\ ~f.full => /\ ~e.full
                       /\ GetWriteCursor(f) = GetWriteCursor(e) + e.entry_size
                       /\ f.counter * f.entry_size <= e.counter * e.entry_size + e.entry_size
  <1> DEFINE f == EncodeNextEntry(e)
             n == e.counter + 1
             c == f.counter
             size == e.entry_size
             i == e.next
  <1>1. /\ f.entry_size = size /\ f.max_entries = e.max_entries /\ c = n % SizeModulus
        /\ ~f.full => ~e.full /\ f.next = i + 1
    BY DEF EncodeNextEntry, NextIndex, Encoders
  <1>2. size \in Nat /\ e.counter \in Nat /\ n \in Nat /\ i \in Nat
    BY BufferAssumption DEF Encoders
  <1>3. c \in Nat /\ c <= n
    <2> HIDE DEF n
    <2> QED
      BY <1>1, <1>2, BufferAssumption
  <1>4. (e.counter + 1) * size = e.counter * size + size /\ (i + 1) * size = i * size + size
    BY <1>2
  <1>5. c * size <= n * size
    <2>1. CASE c = n
      BY <1>2, <2>1
    <2>2. CASE c < n
      <3> HIDE DEF c, n, size
      <3>1. c * size \in Nat /\ n * size \in Nat /\ c * size + size <= n * size
        BY <1>2, <1>3, <2>2, SlotsApart
      <3> QED
        BY <1>2, <3>1
    <2> QED
      BY <1>2, <1>3, <2>1, <2>2
  <1>6. ~f.full => GetWriteCursor(f) = GetWriteCursor(e) + e.entry_size
    BY <1>1, <1>4 DEF GetWriteCursor
  <1> QED
    BY <1>1, <1>4, <1>5, <1>6 DEF GetBufferEffectiveSize, EncoderError

\* stamp_trigger_point() asks for what is missing to fill the buffer.
LEMMA StampReachesEnd ==
  ASSUME NEW d \in DataLoggers, NEW e \in Encoders, Inside(e), ~EncoderError(e), e.entry_size > 0,
         GetBufferEffectiveSize(e) <= BufferSize, ~e.full, NEW t \in Times
  PROVE  GetBufferEffectiveSize(e)
            <= StampTriggerPoint(d, e, t).remaining_data_to_write + GetWriteCursor(e)
  <1> DEFINE after == ProbeRange - 1 - d.config.probe_location
             product == BufferSize * after
             share == product \div ProbeRange
             missing == RemainingBytesToFull(e)
  <1>1. StampTriggerPoint(d, e, t).remaining_data_to_write
          = Capped(IF ~e.full /\ missing > share THEN missing ELSE share, BufferSize)
    BY DEF StampTriggerPoint, RemainingDataToWrite, DataLoggers
  <1>2. share \in Int
    <2>1. after \in Nat
      <3>1. d.config.probe_location \in 0 .. ProbeRange - 1 /\ ProbeRange \in Nat \ {0}
        BY ConfigAssumption DEF DataLoggers, Configurations
      <3> QED
        BY <3>1
    <2>2. product \in Nat
      BY <2>1, BufferAssumption
    <2> HIDE DEF product
    <2> QED
      BY <2>2, Quotients, ConfigAssumption
  <1>3. missing = GetBufferEffectiveSize(e) - GetWriteCursor(e)
    BY DEF RemainingBytesToFull
  <1>4. /\ GetWriteCursor(e) \in Nat /\ GetBufferEffectiveSize(e) \in Nat
        /\ GetWriteCursor(e) < GetBufferEffectiveSize(e)
    BY CursorBeforeEnd
  <1> HIDE DEF share, missing
  <1> QED
    BY <1>1, <1>2, <1>3, <1>4, BufferAssumption DEF Capped

\* An acquisition that ends before its timeout has filled the buffer.
LEMMA FilledAtTheEnd ==
  ASSUME NEW d \in DataLoggers, NEW e \in Encoders, Inside(e), ~EncoderError(e), e.entry_size > 0,
         GetBufferEffectiveSize(e) + e.counter * e.entry_size
            <= d.remaining_data_to_write + GetWriteCursor(e)
  PROVE  ~(GetDataWriteCounter(e) >= d.remaining_data_to_write)
  <1> DEFINE n == e.counter * e.entry_size
  <1>1. n \in Nat /\ GetDataWriteCounter(e) <= n
    BY CounterTellsLess
  <1>2. /\ GetWriteCursor(e) \in Nat /\ GetBufferEffectiveSize(e) \in Nat
        /\ GetWriteCursor(e) < GetBufferEffectiveSize(e)
    BY CursorBeforeEnd
  <1>3. GetDataWriteCounter(e) \in Nat
    <2> HIDE DEF n
    <2>1. n % SizeModulus \in Nat
      BY <1>1, BufferAssumption
    <2> QED
      BY <2>1 DEF GetDataWriteCounter, n
  <1>4. d.remaining_data_to_write \in Nat
    BY BufferAssumption DEF DataLoggers
  <1>5. GetBufferEffectiveSize(e) + n <= d.remaining_data_to_write + GetWriteCursor(e)
    OBVIOUS
  <1> HIDE DEF n
  <1> QED
    BY <1>1, <1>2, <1>3, <1>4, <1>5

LEMMA FillingCommands ==
  ASSUME IInv, Filling(dl, enc, hist), Command
  PROVE  Filling(dl', enc', hist')
  <1>1. CASE \E c \in Configurations, valid \in BOOLEAN : Configure(c, valid)
    <2>1. PICK c \in Configurations, valid \in BOOLEAN : Configure(c, valid)
      BY <1>1
    <2>2. dl'.state \in {"Configured", "Error"}
      BY <2>1, ResetFacts DEF Configure, IInv, Typed, DataLoggers
    <2>3. /\ GetBufferEffectiveSize(EncoderReset(c.size)) <= BufferSize
          /\ ~EncoderError(EncoderReset(c.size)) => EncoderReset(c.size).entry_size > 0
      <3>1. c.size \in Nat
        BY ConfigAssumption DEF Configurations
      <3>2. CASE c.size = 0
        <4>1. GetBufferEffectiveSize(EncoderReset(c.size)) = 0 * 0
          BY <3>2 DEF GetBufferEffectiveSize, EncoderReset
        <4> QED
          BY <3>2, <4>1, BufferAssumption DEF EncoderReset, EncoderError
      <3>3. CASE c.size > 0
        BY <3>1, <3>3, SlotsFit DEF GetBufferEffectiveSize, EncoderReset
      <3> QED
        BY <3>1, <3>2, <3>3
    <2> QED
      BY <2>1, <2>2, <2>3 DEF Configure, Filling
  <1>2. CASE Reset
    <2>1. dl'.state = "Idle" /\ enc' = enc
      BY <1>2, ResetFacts DEF Reset, IInv, Typed
    <2> QED
      BY <2>1 DEF Filling
  <1>3. CASE ArmTrigger \/ DisarmTrigger
    <2>1. dl'.state \in {"Armed", "Configured"} /\ enc' = enc
      BY <1>3 DEF ArmTrigger, DisarmTrigger, IInv, Typed, DataLoggers
    <2> QED
      BY <2>1 DEF Filling
  <1>4. CASE ForceTrigger
    <2>1. dl'.state = "Armed" /\ enc' = enc
      BY <1>4 DEF ForceTrigger, IInv, Typed, DataLoggers
    <2> QED
      BY <2>1 DEF Filling
  <1> QED
    BY <1>1, <1>2, <1>3, <1>4 DEF Command

\* The entry of a pass, if one is due, keeps the distance to the end.
LEMMA FillingEntry ==
  ASSUME IInv, Filling(dl, enc, hist), ~EncoderError(enc)
  PROVE  LET e == EncodeIfDue(dl, enc) IN
         /\ e \in Encoders /\ Inside(e) /\ ~EncoderError(e) /\ e.entry_size > 0
         /\ GetBufferEffectiveSize(e) <= BufferSize
         /\ dl.state = "Triggered" /\ ~e.full =>
              GetBufferEffectiveSize(e) + e.counter * e.entry_size
                 <= dl.remaining_data_to_write + GetWriteCursor(e)
  <1> DEFINE f == EncodeNextEntry(enc)
  <1>1. enc \in Encoders /\ Inside(enc) /\ enc.entry_size > 0 /\ GetBufferEffectiveSize(enc) <= BufferSize
    BY DEF IInv, Typed, Filling
  <1>2. /\ f.entry_size = enc.entry_size
        /\ GetBufferEffectiveSize(f) = GetBufferEffectiveSize(enc)
        /\ EncoderError(f) = EncoderError(enc)
        /\ ~f.full => /\ ~enc.full
                      /\ GetWriteCursor(f) = GetWriteCursor(enc) + enc.entry_size
                      /\ f.counter * f.entry_size <= enc.counter * enc.entry_size + enc.entry_size
    BY <1>1, CursorMoves
  <1>3. EncodeIfDue(dl, enc) \in Encoders /\ Inside(EncodeIfDue(dl, enc))
    BY DueFacts
  <1>4. CASE EncodeIfDue(dl, enc) = enc
    BY <1>1, <1>4 DEF Filling
  <1>5. CASE EncodeIfDue(dl, enc) = f
    <2>1. ASSUME dl.state = "Triggered", ~f.full
          PROVE  GetBufferEffectiveSize(f) + f.counter * f.entry_size
                    <= dl.remaining_data_to_write + GetWriteCursor(f)
      <3>1. GetBufferEffectiveSize(enc) + enc.counter * enc.entry_size
               <= dl.remaining_data_to_write + GetWriteCursor(enc)
        BY <1>2, <2>1 DEF Filling
      <3>2. enc.counter * enc.entry_size \in Nat /\ f.counter * f.entry_size \in Nat
        BY <1>1, <1>3, <1>5, CounterTellsLess
      <3>3. GetWriteCursor(enc) \in Nat /\ GetBufferEffectiveSize(enc) \in Nat
        BY <1>1, CursorBeforeEnd
      <3>4. dl.remaining_data_to_write \in Nat /\ enc.entry_size \in Nat
        BY <1>1, BufferAssumption DEF IInv, Typed, DataLoggers, Encoders
      <3> DEFINE a == enc.counter * enc.entry_size
                 b == f.counter * f.entry_size
      <3>5. /\ a \in Nat /\ b \in Nat /\ b <= a + enc.entry_size
            /\ GetBufferEffectiveSize(enc) + a <= dl.remaining_data_to_write + GetWriteCursor(enc)
            /\ GetBufferEffectiveSize(f) = GetBufferEffectiveSize(enc)
            /\ GetWriteCursor(f) = GetWriteCursor(enc) + enc.entry_size
        BY <1>2, <2>1, <3>1, <3>2
      <3> HIDE DEF a, b, f
      <3>6. GetBufferEffectiveSize(f) + b <= dl.remaining_data_to_write + GetWriteCursor(f)
        BY <3>3, <3>4, <3>5
      <3> QED
        BY <3>6 DEF b
    <2> HIDE DEF f
    <2> QED
      BY <1>1, <1>2, <1>3, <1>5, <2>1
  <1> QED
    BY <1>4, <1>5 DEF EncodeIfDue

LEMMA FillingAcquire ==
  ASSUME IInv, Filling(dl, enc, hist), NEW dt \in Steps, Acquire(dt)
  PROVE  Filling(dl', enc', hist')
  <1> DEFINE t == Step(now, dt)
             e == EncodeIfDue(dl, enc)
             p == ProcessAcquisition(dl)
  <1>1. /\ dl.state \in {"Configured", "Triggered"} /\ dl \in DataLoggers /\ ~EncoderError(enc)
        /\ dl' = CompleteIfAcquired(p, e, t) /\ enc' = e
    BY DEF Acquire, IInv, Typed
  <1>2. t \in Times
    BY ElapsedAdds DEF IInv, Typed
  <1>3. /\ e \in Encoders /\ Inside(e) /\ ~EncoderError(e) /\ e.entry_size > 0
        /\ GetBufferEffectiveSize(e) <= BufferSize
        /\ dl.state = "Triggered" /\ ~e.full =>
             GetBufferEffectiveSize(e) + e.counter * e.entry_size
                <= dl.remaining_data_to_write + GetWriteCursor(e)
    BY <1>1, FillingEntry
  <1>4. /\ p \in DataLoggers /\ p.state = dl.state /\ p.config = dl.config
        /\ p.trigger_timestamp = dl.trigger_timestamp
        /\ p.remaining_data_to_write = dl.remaining_data_to_write
    BY <1>1, AcquisitionFacts
  <1>5. /\ dl.state = "Configured" => dl' = p
        /\ dl'.remaining_data_to_write = dl.remaining_data_to_write
    BY <1>1, <1>2, <1>3, <1>4, CompleteFacts
  <1>6. ASSUME dl'.state = "AcquisitionCompleted", ~hist'.timed_out
        PROVE  e.full
    <2>1. dl.state = "Triggered"
      BY <1>1, <1>4, <1>5, <1>6
    <2>2. ~TimedOut(dl, t)
      BY <1>1, <1>6, <2>1 DEF Acquire, IInv, Typed, Histories
    <2>3. ~TimedOut(p, t)
      BY <1>4, <2>2 DEF TimedOut
    <2>4. AcquisitionCompleted(p, e, t)
      BY <1>1, <1>4, <1>6, <2>1 DEF CompleteIfAcquired
    <2>5. GetDataWriteCounter(e) >= p.remaining_data_to_write
      BY <2>3, <2>4 DEF AcquisitionCompleted
    <2> HIDE DEF e, p
    <2> QED
      BY <1>3, <1>4, <2>1, <2>5, FilledAtTheEnd
  <1>7. dl'.state = "Triggered" => dl.state = "Triggered"
    BY <1>1, <1>4, <1>5
  <1> HIDE DEF e, p, t
  <1> QED
    BY <1>1, <1>3, <1>5, <1>6, <1>7 DEF Filling

LEMMA FillingArmed ==
  ASSUME IInv, Filling(dl, enc, hist), NEW dt \in Steps, NEW eval \in Evaluations, ProcessArmed(dt, eval)
  PROVE  Filling(dl', enc', hist')
  <1> DEFINE t == Step(now, dt)
             e == EncodeIfDue(dl, enc)
             check == CheckTrigger(ProcessAcquisition(dl), t, eval)
             next == check.next
             counted == ResetWriteCounter(e)
             stamped == StampTriggerPoint(next, e, t)
  <1>1. /\ dl.state = "Armed" /\ ~EncoderError(enc)
        /\ dl' = (IF check.result THEN CompleteIfAcquired(stamped, counted, t) ELSE next)
        /\ enc' = (IF check.result THEN counted ELSE e)
    BY DEF ProcessArmed
  <1>2. t \in Times
    BY ElapsedAdds DEF IInv, Typed
  <1>3. /\ e \in Encoders /\ Inside(e) /\ ~EncoderError(e) /\ e.entry_size > 0
        /\ GetBufferEffectiveSize(e) <= BufferSize
    BY <1>1, FillingEntry
  <1>4. next \in DataLoggers /\ next.state = "Armed"
    BY <1>1, <1>2, AcquisitionFacts, CheckTriggerFacts DEF IInv, Typed
  <1>5. CASE ~check.result
    <2>1. dl'.state = "Armed" /\ enc' = e
      BY <1>1, <1>4, <1>5
    <2> HIDE DEF e
    <2> QED
      BY <1>3, <2>1 DEF Filling
  <1>6. CASE check.result
    <2>1. /\ counted \in Encoders /\ Inside(counted) /\ ~EncoderError(counted)
          /\ counted.counter = 0 /\ counted.entry_size = e.entry_size /\ counted.full = e.full
          /\ GetBufferEffectiveSize(counted) = GetBufferEffectiveSize(e)
          /\ GetWriteCursor(counted) = GetWriteCursor(e)
      BY <1>3, Ranges DEF ResetWriteCounter, Encoders, Inside, EncoderError, GetBufferEffectiveSize,
         GetWriteCursor
    <2>2. counted.counter * counted.entry_size = 0
      <3>1. e.entry_size \in Nat
        BY <1>3 DEF Encoders
      <3>2. 0 * e.entry_size = 0
        BY <3>1
      <3> QED
        BY <2>1, <3>2
    <2>3. ~e.full => GetBufferEffectiveSize(e) <= stamped.remaining_data_to_write + GetWriteCursor(e)
      <3> HIDE DEF e, next, t
      <3> QED
        BY <1>2, <1>3, <1>4, StampReachesEnd
    <2>4. /\ stamped \in DataLoggers /\ stamped.state = "Triggered" /\ stamped.trigger_timestamp = t
      <3> HIDE DEF e, next, t
      <3> QED
        BY <1>2, <1>3, <1>4, StampFacts
    <2>5. ~TimedOut(stamped, t)
      <3>1. stamped.config.timeout \in Nat
        BY <2>4, StepsAssumption, ConfigAssumption DEF DataLoggers, Configurations
      <3> HIDE DEF stamped, t
      <3> QED
        BY <1>2, <2>4, <3>1, NoTimeElapsed DEF TimedOut, HasExpired
    <2> HIDE DEF e, counted, next, stamped, t
    <2>6. /\ dl'.remaining_data_to_write = stamped.remaining_data_to_write
          /\ dl'.state \in {"Triggered", "AcquisitionCompleted"}
      BY <1>1, <1>2, <1>6, <2>1, <2>4, CompleteFacts
    <2>7. ~e.full => GetBufferEffectiveSize(counted) + counted.counter * counted.entry_size
                        <= stamped.remaining_data_to_write + GetWriteCursor(counted)
      <3>1. GetBufferEffectiveSize(counted) \in Nat
        BY <1>3, <2>1, CursorBeforeEnd
      <3> QED
        BY <2>1, <2>2, <2>3, <3>1
    <2>8. ASSUME ~counted.full PROVE dl'.state = "Triggered"
      <3>1. ~(GetDataWriteCounter(counted) >= stamped.remaining_data_to_write)
        BY <1>3, <2>1, <2>4, <2>7, <2>8, FilledAtTheEnd
      <3> QED
        BY <1>1, <1>6, <2>4, <2>5, <3>1 DEF CompleteIfAcquired, AcquisitionCompleted
    <2> QED
      BY <1>1, <1>3, <1>6, <2>1, <2>6, <2>7, <2>8 DEF Filling
  <1> QED
    BY <1>5, <1>6

\* acquisition_completed() and stamp_trigger_point() together: an acquisition that ends
\* before its timeout leaves a full buffer, for every probe location, entry size and
\* filling of the buffer at the trigger.
THEOREM CompletesFull == Spec => []CompletedBufferIsFull
  <1> DEFINE F == Filling(dl, enc, hist)
  <1>1. Init => F
    <2> SUFFICES ASSUME Init PROVE F
      OBVIOUS
    <2>1. GetBufferEffectiveSize(EncoderReset(0)) = 0 * 0
      BY DEF GetBufferEffectiveSize, EncoderReset
    <2> QED
      BY <2>1, BufferAssumption DEF Init, Filling, EncoderReset, EncoderError
  <1>2. F => CompletedBufferIsFull
    BY DEF Filling, CompletedBufferIsFull
  <1>3. IInv /\ F /\ [Next]_vars => F'
    <2> SUFFICES ASSUME IInv, F, [Next]_vars PROVE F'
      OBVIOUS
    <2>1. CASE UNCHANGED vars
      BY <2>1 DEF vars
    <2>2. ASSUME NEW dt \in Steps, ProcessNothing(dt) \/ ProcessError(dt) PROVE F'
      BY <2>2 DEF ProcessNothing, ProcessError, Filling, IInv, Typed, DataLoggers
    <2>3. CASE Process
      BY <2>2, <2>3, FillingAcquire, FillingArmed DEF Process
    <2>4. CASE Command
      BY <2>4, FillingCommands
    <2> QED
      BY <2>1, <2>3, <2>4 DEF Next
  <1> HIDE DEF F
  <1> QED
    BY <1>1, <1>2, <1>3, InductiveInvariant, PTL DEF Spec
=============================================================================
