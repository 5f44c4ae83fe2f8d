# A TLA+ model of scrutiny-embedded

scrutiny-embedded is a library that is linked into an embedded application and
lets a server read and write memory, and record signals, through a
request/response protocol. This directory holds TLA+ models of its core logic,
TLC configurations that check them on small instances, and TLAPS proofs.
`PROJECT.json` lists components, runs, mutants, the map from definitions to
source lines, the disagreements found, the hazards and the theorems.

## 1. Inventory of the system

| Part | State it keeps | Operations | Interacts with |
|---|---|---|---|
| `CommHandler` | link state (Idle, Receiving, Transmitting), receive state machine, running CRC and buffer, request held, bytes to send, session id, heartbeat time and challenge | `receive_data`, `pop_data`, `send_response`, `connect`, `disconnect`, `heartbeat`, `process`, `reset*` | called by the integration code and by `MainHandler`; reads the main timebase |
| `MainHandler` requests | `m_processing_request`, `m_disconnect_pending`, ProcessAgain timestamp | `process`, `process_request`, `check_finished_sending` | owns the `CommHandler`; executes CommControl, GetInfo, MemoryControl, UserCommand, DataLogControl |
| `MainHandler` datalogging | `owner`, `new_owner`, request flags, pending release, error, copied state, reading progress | `process_loops`, `process_datalogging_logic`, `process_datalog_control` | one mailbox to and one from each loop; direct access to the `DataLogger` without owner |
| `LoopHandler` | timebase, `m_datalogger_data_acquired` | `process_common` | its two mailboxes; the `DataLogger` while it owns it. Runs in its own thread or interrupt |
| `DataLogger` | acquisition state, trigger memory, decimation counter, amount still to write | `configure`, `arm_trigger`, `disarm_trigger`, `force_trigger`, `process`, `reset` | its encoder, the timebase of the owning loop |
| `RawFormatEncoder` / `RawFormatReader` | ring of entries, counters; read cursor | `encode_next_entry`, `reset`; `read_dilate_8bits` | written by the owning loop, read by the main thread |
| `Timebase` | 32-bit counter of 100 ns | `step`, `elapsed_since`, `has_expired` | everyone with a timeout |
| `IPCMessage` | one slot and an atomic flag | `send`, `pop`, `has_content` | main thread and one loop |
| Memory access and published values | none between requests; a parser over the request, an encoder over the response | `process_memory_control`, `touches_*_region`, `*RequestParser::init/next`, `*ResponseEncoder::write` | called by `process_request`; writes the memory of the application, calls the integrator's callbacks |
| Trigger | active condition, memory of `ChangeMoreThan` | `check_trigger`, `fetch_operand`, `fetch_variable_bitfield`, `convert_to_compare_type`, the nine conditions | reads the memory of the application, which the application and memory requests write |
| Discovery and configuration requests | none; Configure writes the configuration object of the `DataLogger` | `process_get_info`, `process_comm_control`, `process_user_command`, `process_datalog_control`, `check_config` | called by `process_request`; the codec decodes and encodes, the integrator's callbacks answer user commands |
| CRC and codecs | none | `crc32`, `decode_*`, `encode_*`, type helpers | everyone above |
| C wrapper, elf-symdump, test applications | | | see the component list |

What is hard in this code:

* **Concurrency.** The main thread and each loop share the `DataLogger`
  without a lock. Mutual exclusion rests on a hand-over protocol over one-slot
  mailboxes, with a copy of the owner on each side and flags that outlive the
  request that set them.
* **Timeouts that race.** Reception timeout, heartbeat and ProcessAgain
  timeout act on the same request from three places, on a clock that wraps.
* **Boundaries.** The ring full, empty or with one slot; a response that ends
  exactly with the data; 16-bit products; probe location at both ends.
* **State that survives** re-arming, reconnecting, a dropped request.

What makes each part correct: exclusive use of the `DataLogger` and completion
of every hand-over; every request is executed once, in a session, and
answered; sessions live exactly as long as their heartbeat; acquisitions are
complete, in order and placed correctly around the trigger; readings give the
latest entries whatever the response size; memory requests do what they say,
completely or up to a stated point, and stay out of the protected regions when
their blocks lie in the address space.

## 2. Modules

* `DatalogOwnership` - the hand-over protocol. The main thread has a program
  counter over the phases of `MainHandler::process()` (messages, logic,
  request, messages, logic); every loop one over `process_common()` (message,
  owner test, `DataLogger::process()`, report). One step is what no other
  thread can see the middle of: a mailbox operation with what it decides. The
  `DataLogger` is reduced to its state, owner and timebase.
  `DataloggerLease` is the abstract specification: a lease held by one party,
  changed by its holder only. `ImplementsLease` is the refinement.
  `DatalogOwnershipProofs` holds the proofs.
* `CommSession` - the life of a request and of the session: `CommHandler`
  operations are functions of its record; `receive_data`, `process` and
  `pop_data` are the actions, called from one thread in any order. A chunk of
  bytes is what it does to the receive state machine (goes on with the frame,
  completes it, breaks it).
* `Timebase` - the modular clock, used by `CommSession` and `DataLogger`.
* `RawFormat` - the bookkeeping of the encoder as operators; `RawEncoder` adds
  the buffer contents and the chunked reading; `EntryWindow` is the abstract
  specification (the latest entries, in order) that it refines.
* `DataLogger` - the acquisition state machine on top of `RawFormat`. The
  outcome of the trigger condition (true, false, operand fetch failed) is an
  input of each pass.
* `FrameReception` - the `CommHandler` byte by byte: `receive_data()` on chunks
  cut anywhere (one turn of its loop is a step), `process()` and `pop_data()`
  reduced to what they do to the link. `Crc32` is the table-driven CRC next to
  its bitwise definition. `FrameLink` is the abstract specification: requests
  sent intact are lost or heard in order, once; `ImplementsFrameLink` is the
  refinement. `CommSession` starts where it ends: what a chunk does to the
  state machine. `FrameReceptionProofs` holds the proofs.
* `OperandFetch` - fetch, bitfields, conversion and conditions as operators on
  chars that are sets of bits; `Trigger` runs them, char by char, against an
  application and a masked write that change the memory in between, and ends
  with the proof about that write. `DataLogger` takes their result as an input.
* `BinaryCodecs` - integers, addresses, datatypes; `ConfigureRequest` - the
  bytes of a Configure to the checks of `DataLogger::configure()`; `Discovery` -
  each GetInfo, CommControl, UserCommand and DataLogControl question as a
  function from the bytes of the request to the answer; `Requests` - a client that learns
  or configures through them, with truncated, extended and refused requests.
  `RequestsProofs` holds the proofs. The decoders are recursive functions over the
  elements, as the loops of the code are.
* `MemoryControl` - `process_memory_control()` with the parsers and encoders it
  drives. A request is a list of blocks (or published values) and a number of
  bytes, so that every malformed request is a cut of a list. The tests before
  the loop are the `Start...` actions, one iteration of the loop is a `Serve...`
  action, `Respond` is the end of the request. A char of memory is the set of
  its bits. `MemoryControlProofs` holds the proofs.
* `MC...` - the modules TLC runs.

Definitions whose names start with `Faulty` are not part of the models: they
are the slips that the properties are known to catch (`PROJECT.json`,
"mutants").

The variables `hist` (`DataLogger`), `entries` (`RawEncoder`), `start` and
`published` (`MemoryControl`), `taken`, `silence`, `fresh`, `burst` and
`popped` (`FrameReception`), `dirty`, `quiet`, `last` and `before` (`Trigger`),
`exchange` and `found` (`Requests`) are history: they record what happened for
the properties. The client of `Requests` also goes by what it has found.

## 3. Runs

Passing:

| Run | Instance | Shows |
|---|---|---|
| `OwnershipTwoLoops` | 2 loops, Configure and Arm | exclusion (`MainWritesAlone`, `OwnLoopOnly`), `CommandsForThisOwnership`, the inductive invariant, the lease |
| `OwnershipLiveness` | 1 preemptive loop, all requests, all outcomes of Configure | `HandoverCompletes`, `RequestAnswered` |
| `CommSession` | clock modulo 5, steps of 1 and 2, two session ids and challenges | flags agree and watchdog (`CommInv`), execution in a live session, causes of the end of a session, `RequestResolved`, `TransmissionEnds` |
| `FrameReception` | clock modulo 4, buffers of 4 and 1 bytes, chunks of 1, 2, 6 and 17 bytes, frames that are whole, doubled, corrupt, too long, noise | `ReceptionIsParse`, `FreshBurstHeard`, `AnswerInOnePiece`, `ImplementsFrameLink` |
| `RawEncoder` | 7 chars, entries of 0, 2, 3, 8 | `ReadsTheEntries`, `ImplementsWindow`, `ReadingEnds` |
| `DataLogger` | 4 chars, entries of 2 and 3, hold time 2, timeouts 0 and 2, both ends of the probe location, clock modulo 5 | `FirstTriggerHeld`, full buffer, prompt completion, timeout |
| `DataLoggerLiveness` | 5 chars, entries of 0 and 2, no timeout | `AcquisitionEnds` |
| `Trigger` | 5 chars of 2 bits, configurations with every kind of operand and condition | `ConditionOfMemory` against arithmetic (the margin of `IsWithin` left out), `UnmaskedKept` |
| `MemoryControl` | 5 addresses, one forbidden and two read-only chars, up to 3 items cut at any byte, blocks that go past the last address included, transmit buffers of 5, 8 and 16 with a maximum of 16 | `ProtectedUntouched`, `ForbiddenNotRead`, `WritesAsRequested` and `ReadServed` against a reference, `LastMayBeUnacknowledged`, `PublishedAnswered` |
| `Requests` | three devices (full, bare, long names), 2 sessions, 2 configurations asked | `AnswersTellDevice`, `EnumerationComplete`, `AcceptedAsSent`, `AcceptedIsSafe` |

Disagreements between the code and its comments (expected violations; the
quotations are under "findings"):

| Run | What the code does |
|---|---|
| `OwnershipConfigureRace` | an early second Configure writes the `DataLogger` under a loop |
| `TriggerChange` | `ChangeMoreThan` on unsigned operands goes by a sum that wraps, not by the documented difference |

### Behaviours met while modelling that no run is about

* A stray byte between the arrival of a request and `process()` makes the link
  busy, and the response is lost (`scrutiny_comm_handler.cpp:267`); a late chunk
  drops a request that is waiting.
* The ProcessAgain time of a dropped request is charged to the next one
  (`scrutiny_main_handler.cpp:428`).
* Re-arming without a new Configure keeps the trigger memory, so that the hold
  time may be skipped (`scrutiny_datalogger.cpp:404`); `FirstTriggerHeld` is
  about the first arming.
* For a non-empty block that goes past the last address, `block_end` in
  `touches_forbidden_region()` and `touches_readonly_region()`
  (`scrutiny_main_handler.cpp:1300`, `1322`) wraps below the start of the block
  and no region is seen; the parsers accept such a block. The model takes these
  blocks as the code does, with addresses that continue from 0;
  `ProtectedUntouched` and `ForbiddenNotRead` say in their statement that they
  are about the others (`InAddressSpace`), while the properties about what is
  read, written and answered hold of all.
* A write answered OK may lack the acknowledgement of its last block: the parser
  stops at the block that finishes the request before it adds the size of that
  acknowledgement (`scrutiny_codec_v1_0.cpp:121`), the response overflows, and
  nothing looks (`scrutiny_main_handler.cpp:1128` relies on the parser).
  `LastMayBeUnacknowledged` bounds what is missing to that one; it permits it.
* The parser of a read (`scrutiny_codec_v1_0.cpp:82`) keeps the size it has counted when it starts its second traversal: with
  a transmit buffer above half of the maximum a whole request can be refused as
  invalid; `ReadServed` is stated for buffers up to that half.
* With two loops an early second Configure also leaves the two owner fields
  different and the ownership logic stopped by `UnexpectedClaim`
  (`OwnersAgreement` proves agreement when it does not come).
* The copied state may still say that data is available when a re-armed loop is
  overwriting it, until its next status message is popped.
* When the entry size does not divide the buffer (10 chars, entries of 4, probe
  location 0) the points after the trigger can exceed the entries. An
  acquisition completed by its timeout before its first entry announces no
  char, but the reader gives the whole stale buffer; `ReadsTheEntries` leaves
  it out.
* With 16-bit buffer sizes, a 65535-char buffer and entries of 512 chars the
  byte counter since the trigger wraps from 65024 to 0, below its target of
  65279, and the acquisition ends by its timeout only; `CompletesInTime` states
  the buffers for which this cannot happen (`Roomy`).
* `IsWithin` is true on the margin itself (`scrutiny_datalogging_trigger.cpp:240`),
  as `test_trigger_conditions.cpp:601` expects, where
  `scrutiny_datalogging_types.hpp:133` documents `|Operand1 - Operand2| < |Operand3|`.
  `ConditionOfMemory` has the documented formula as its reference and leaves out
  the operands that are exactly the margin apart (`OnTheMargin`).
* A display name longer than the
  transmit buffer less 19 bytes makes Discover answer Overflow. A loop without
  timestep leaves its response partly unset. Connect does not compare its magic
  number. A refused Configure leaves the configuration object partly
  overwritten; a configuration the main handler accepts is rewritten first, and
  `AcceptedIsSafe` is about what a loop is given.

### Bounds and why they are enough

Mailboxes have one slot, so messages need no bound. Two loops are the smallest
number for which a hand-over between loops exists; the proofs cover any
number. `LoopsKeepUp` is an assumption about the environment, not the code:
the server sends Configure or Reset only when no hand-over is in flight (it
polls the status in between). The runs and theorems on exclusion assume it;
`OwnershipConfigureRace` shows what happens without it. `Preemptive` says that loops are interrupts: the main thread runs only
between their passes.

Clocks wrap after 4 to 6 ticks with timeouts of 1 to 3, so every timestamp is
seen from both sides of the wrap; the assumption is that a timeout plus one
step is less than the range of the clock, as with the 32-bit counter and the
default timeouts. Session ids wrap at 2. Responses are 2 bytes on the wire,
enough for a transmission to be cut by an expiry.

Ring: 7 chars with entries of 3 leave an unused tail, 2 a longer ring, 8 does
not fit, 0 is an error; responses of 2 to 6 bytes with a CRC of 2 put the end
of the data before, at and after the last place where the CRC fits.

Reception: buffers of 4 and 1 bytes make one request and one response too long;
chunks of 1, 2, 6 and 17 bytes cut a frame in every field, and one chunk holds
two requests. The clock wraps after 4 ticks with a receive timeout of 2, so that
a frame can be cut by the timeout at any byte.

Trigger: chars of 2 bits give values of up to 8 bits in 4 chars, so that sign
extension, truncation and bitfields over several chars all differ; the memory
ends one char after the largest variable. `BiggestSize` is the size of the
largest type, as `BiggestTypeSupported` in the code. `IsWithin` has a negative
margin and one that differences reach exactly.

Requests: addresses of 2 bytes; a transmit buffer of 18 bytes or more, where
the code demands 32, lets the short names of the instance overflow a response;
two sessions and two configurations are the smallest numbers for which one can
leave something behind for the next.

Memory: headers of 3 bytes (one for the address) against transmit buffers that
hold one acknowledgement and a half, two and a half, or five; the largest is the maximum,
where the second traversal can fail. Blocks of 0 to 4 chars lie before, across,
inside and around the protected chars, at both ends of the address space, and
past its end. Writes set either of two bits. All `MemoryControl`
properties are safety: it is one synchronous call, the steps of which are items.

### Fairness

* `DatalogOwnership`: every loop and `MainHandler::process()` are called again
  and again. With preemptive loops the main thread is enabled only between
  passes, hence strong fairness: interrupts leave it some time. Nothing is
  assumed of the server. Without preemption there is a schedule in which a loop
  on another core always tests its mailbox just before the main handler empties
  it and refills it just after, so that the RELEASE is never handled; the
  liveness run therefore uses preemptive loops.
* `CommSession`: `process()` and, while there is data, `pop_data()` are called.
* `RawEncoder`: the server goes on reading, with responses of any allowed size.
* `DataLogger`: the owning loop is called; commands come or not.

## 4. Proofs

`DatalogOwnershipProofs`, for every `LoopCount`, every set of requests and
outcomes:

* `TypeCorrect` - `Spec => []TypeOK`, without assumption on the server.
* `OwnershipInvariant` - with `LoopsKeepUp`, the inductive invariant. The
  exclusion properties are not inductive: whether the main thread may write
  depends on which message is where. `OwnershipInv` describes the phases of a
  hand-over (configured, TAKE sent, TAKEN sent, owned, RELEASE sent, RELEASED
  sent) and what each excludes; `PendingReleaseInFlight` and `RequestPhase`
  connect them with the flags and with the request held. One lemma per
  operation, grouped by the part of the invariant it can disturb.
* `MainExclusion`, `LoopExclusion`, `CommandsSafe` - consequences of it.
* `LeaseImplemented` - every step is a step of the lease or leaves it alone.

* `OwnersAgreement`, `ReleaseInFlight`, `NeverTakenAway` - what the two sides
  believe about the owner agrees as soon as no message is in flight; a release
  that is waited for is really on its way; the owner changes from one party to
  another only through nobody (from the lease, by refinement).

`MemoryControlProofs`, for every memory, ranges, transmit buffer and set of
requests, cut or not:

* `MemoryInvariant` - the inductive invariant: the loop runs on a valid,
  unfinished parser whose next item is one of the request; the entries of a read
  response that end in the address space lie outside the forbidden ranges. Blocks
  may go past the last address; `UntouchedCells` shows that for those that do
  not, the test on the ends of a block and a range is the test on their chars.
* `ProtectedNeverWritten` - no step changes a char of a protected region, except
  one that serves a block that goes past the last address.
* `ForbiddenNeverRead` - no entry of a read response has a forbidden char, unless
  the entry goes past the last address.
* `LoopInvariant` - the second invariant, about what is computed. `Parsers`: the
  cursor of the parser is the sum of the sizes of the items taken, so
  that it stops where a whole request ends. One part for each kind of request
  (`Reads`, `Writes` with `Acks`, `Values`): the entries of the response, the
  memory and the published values are functions of the number of items taken.
  The first traversal (`Validated`) is a recursion over the request;
  `ValidatedIs` says by induction which requests it accepts and how much of the
  response they need.
* `ReadsAreServed`, `WritesAreDone`, `WritesAreAcknowledged`,
  `ValuesAreAnswered`, `TypesHold` - consequences of it.

They use the assumptions named in `MemoryControl`: ranges and blocks lie in the
address space, the length of the data is a 16-bit number, the largest transmit buffer has room
for a header and at most 65535 chars, and the types of published values are
those `check_config()` accepts.

`CommSessionProofs`, for every clock, timeout and number of session ids:

* `SessionConsistent` - the flags of the `CommHandler` agree and a session is
  younger than its heartbeat timeout. The operations are functions of one
  record, so most lemmas are about them: each keeps `Sound` (types), `InStep`
  (state machine, transmission and held request) and `Alive` (watchdog).
* `SessionsEndForCause`, `ExecutionInSession` - from the same invariant and the
  fact that a request held for execution arrived in the session that is active.

`Trigger`, for every memory, write and configuration:

* `OtherBitsKept` - a masked write leaves the bits outside its mask as they are
  at the moment of the store, unless the application changed the char since it
  was read (`dirty`). `Loaded` is the invariant: the char in hand is the char in
  memory, or the char is dirty.

`DataLoggerProofs`, for every buffer, clock, hold time and timeout:

* `HeldBeforeTrigger`, `TimeoutHolds` - the first trigger comes after the
  condition held for the hold time (after the first arming, without a manual
  trigger); an acquisition with a timeout ends when it is over. The code sees
  timestamps that wrap, the properties sums of steps: the invariant connects
  them. `Held`: the clock shows no more than the time since the rising edge.
  `InTime`: it shows the time since the trigger.
* `CompletesInTime` - the buffer is handed over as soon as enough was acquired
  after the trigger, under `Roomy`: the buffer plus one entry fits
  `buffer_size_t` (the behaviour without it is in section 3). `Counted`: the chars acquired are the write counter times
  the size of an entry, without wrap, and not yet enough.

* `CompletesFull` - an acquisition that ends before its timeout leaves a full
  buffer, without `Roomy`. `Filling`: while the buffer is not full, what is
  still to be written reaches from the write cursor to the end; a write counter
  that wraps only tells less.

`RawEncoderProofs`, for every buffer, entry and response size:

* `CursorsInside` - no write goes past the buffer and the cursors stay on slots.
* `WindowImplemented` - the ring refines the window of the latest entries. The
  invariant `Ring`: the slots lie in the buffer, and the oldest entry is in the slot
  written next when the buffer is full, else in the first.
* `EntriesAreRead` - the chunks read are, byte by byte, the entries in order.
  `ReadInv` puts byte k of the reading at its slot and offset in the ring, across
  the wraparound, and ties the read cursor to the number of bytes given so far.

`FrameReceptionProofs`, for every request, response, cut of the chunks and of
the answers, buffer sizes and timeout:

* `CrcIsReference` - the table-driven `crc32()` is the bitwise CRC-32, for all
  data. An entry of the table is what four bit steps do to its nibble (`TableEntryIs`,
  `FourBits`), so one byte step is eight bit steps; then by induction over the data. `CrcChains`: a CRC continued over
  pieces is that of the whole, the reason why the code may compute it as bytes arrive.
* `ResponsesAreWhole` - `AnswerInv`: the bytes popped are the prefix of the
  frame that `m_nbytes_sent` counts, in the header, the data or the CRC, and the
  link transmits until that counter reaches the end.
* `ReceptionParses` - `ParseInv`: between two turns of the loop of
  `receive_data()` the state, the lengths, the buffer and the running CRC are those
  of the parse of the bytes looked at. One part per state (`AtCommand` ...
  `AtError`), because what the code still holds differs from state to state. The
  CRC part needs `CrcChains`, the length needs both its bytes below 2^16.
* `BurstsAreHeard` - `HearInv`: as long as a burst that came after a silence comes
  without a gap, the bytes looked at are its first ones and the reception has taken
  them all (`OnBurst`), or it holds the first request of the burst (`HeldFromBurst`), or the
  burst does not begin with a request the device can accept (`Hopeless`: a command
  of 8 bits, data too long, a wrong CRC, no session). `SilenceInv` says that the
  clock shows the silence, so that the timeout resets what came before and does not cut
  the burst itself. `OneFrame`: only one request has a frame that begins the burst.

They assume 16-bit buffer sizes, and that the bytes of the wire belong to
requests with 7-bit command ids, the only ones the protocol has.

`RequestsProofs`, for every device, configuration asked for, request cut or
extended, size of the addresses and of the arrays of operands and items:

* `AcceptedIsSent` - a configuration is accepted only from the request that is its
  encoding. `ReadBack`: numbers of any size are read as they were written;
  `FieldsOfOperand`, `FieldsOfItem`: an element that is decoded is written to the
  bytes it was read from; `DecodeOperandsIs`, `DecodeItemsIs`: the elements lie one
  after the other, so what is written again is the part of the request the cursor
  went through; `RequestRebuilt` puts header, operands and items together.
* `ConfigurationHeld` - `ConfigureInv`: the object that requests are decoded into in
  place, the refused ones included, keeps the types of the code (`Objects`), and what
  was given to a loop was read to its last element (`Ready`) and passed the checks
  (`Checked`). Without the types of what earlier requests left there, the next step
  could not be followed.
* `AcceptedConfigurationsAreSafe` - from it: an element that passed
  `touches_forbidden_region()` with the size of its type has no forbidden char
  (`Untouched`), and a bitfield is fetched with no more chars than its type has
  (`FetchedWidth`). It is stated for the elements that lie in the address space
  (`InAddressSpace`): for one that goes past its end, `addr + length - 1` wraps in the
  code and in the model, and no object of a program is there.
* `EnumerationIsComplete` - `EnumerationInv` adds to the property that what was found
  are published values; `GetRpvDefinitionIs` gives the answer to one chunk, with the
  three bytes of each definition where the client reads them.
* `AnswersAreOfTheDevice` - `AnswerInv`: the last answer is that of the handler of
  its kind, to the request that was sent, and the session it names is the active one.
  Then one lemma per kind of answer (`RegionAnswer`, `LoopAnswer`, `ParamsAnswer`...):
  `Holds8`, `Holds16`, `Holds32` and `Lies` say that a field, an address or a name is at a
  place of the bytes, and stay true when more bytes are appended.

They assume the types of the code (`WellTyped` for the configuration given to
`init()`: counts, sizes and identifiers of 8, 16 or 32 bits; `IdentityAssumption`,
`InputsAssumption`: what the datalogger and the server hand over), the checks of
`check_config()`, and arrays of fewer than 255 elements.

The prover cannot use an induction theorem that takes an operator. The first
section of a proof module states what its proofs need of the natural numbers:
induction with a set (`UpTo`), which the prover can use, and from it that a
recursive function follows its equation (`Recursion`, `SameSteps`); the inductions
over requests, frames and readings rest on them.

The proofs use the assumptions named in the modules, and where it says so
`LoopsKeepUp` or `Roomy`.

Model-checked only:

* all liveness;
* `ImplementsFrameLink`, which holds of the bursts of the run and not of every
  sequence of bytes: the data of a request may contain the frame of another one, and
  that one is heard when the beginning was lost. Its proof needs an assumption on
  the bytes that are sent;
* `ConditionOfMemory`, whose reference reads an integer from a set of bits by a
  fold over them: it rests on folds of the community modules, which take an
  operator that the provers cannot instantiate. The codecs and `Crc32` are written
  with recursive functions for that reason; the conversions of `OperandFetch`
  are still to be.

## 5. Not modelled

* The C wrapper forwards each call to the C++ object; `elf-symdump` is a host
  tool; the test applications are examples.
* `CommHandler::enable/disable`, the setters of `Config`, a `MainHandler` disabled by a
  wrong configuration: no transition of the library takes them after `init()`.
* Targets with 16-bit chars or big-endian memory: build variants of the same
  functions. Floating-point arithmetic: a float is the integer its bits stand
  for, so rounding and NaN are not seen.
* User callbacks, beyond the answers they can give; the user's mutex or
  interrupt discipline, beyond the choice between preemptive and parallel loops.

## 6. Plan

1. Done: ownership with its lease and proofs; request and session; ring and
   reading with its window; acquisition state machine; memory and published
   values with the proofs about protected regions; reception byte by byte;
   trigger conditions with the masked write; decoding of Configure, GetInfo
   and the other questions of the client; the safety proofs of section 4.
2. Composition of `CommSession` with `DatalogOwnership`: the server's view of a
   Configure that is released, refused or dropped.
3. Proofs: `ImplementsFrameLink` under an assumption on the bytes sent, from
   `ReceptionParses`;
   `ConditionOfMemory`, one condition at a time, once the conversions of
   `OperandFetch` are written with recursive functions.
