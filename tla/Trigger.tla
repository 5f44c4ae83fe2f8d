-------------------------------- MODULE Trigger --------------------------------
(***************************************************************************)
(* DataLogger::check_trigger() in a loop while the memory it reads changes *)
(* under it: the application writes its variables, MainHandler executes    *)
(* writes and masked writes of memory blocks, each char by char.  What     *)
(* follows the result of the condition (hold time, manual trigger) is in   *)
(* DataLogger.                                                             *)
(***************************************************************************)
EXTENDS OperandFetch, TLAPS

CONSTANTS
    InitialMemory,  \* from addresses to chars
    AppWrites,      \* what the application may write: [addr, char]
    HostWrites,     \* the blocks written by the server: [addr, masked, source, mask]
    TriggerConfigs, \* accepted configurations: [condition, operands]
    RpvValues,      \* what the RPV callback may return, as converted
    Garbage         \* numbers an uninitialized float may hold

Addresses == DOMAIN InitialMemory

\* The memory holds chars, and what is written to it lies inside.
ASSUME MemoryAssumption ==
    /\ InitialMemory \in [Addresses -> Char]
    /\ \A w \in AppWrites : w.addr \in Addresses /\ w.char \in Char
    /\ \A b \in HostWrites :
          /\ b.source \in Seq(Char) /\ b.source # <<>>
          /\ \A i \in 1 .. Len(b.source) : b.addr + i - 1 \in Addresses

\* DataLogger::configure(): the operands it accepts.
ValidOperand(o) ==
    CASE o.kind \in {"Literal", "Rpv"} -> TRUE
      [] o.kind = "Var" -> IsSupported(o.datatype)
      [] o.kind = "VarBit" -> /\ IsSupported(o.datatype)
                              /\ o.bitoffset <= CharBits * BiggestSize - 1
                              /\ o.bitsize <= CharBits * BiggestSize
                              /\ o.bitoffset + o.bitsize <= CharBits * o.datatype.size

ASSUME ConfigsAssumption ==
    \A c \in TriggerConfigs :
        /\ Len(c.operands) = OperandCount(c.condition)
        /\ \A i \in DOMAIN c.operands : ValidOperand(c.operands[i])

VARIABLES
    memory,
    config,     \* m_config.trigger and m_trigger.active_condition
    cmt,        \* m_trigger.condition_data.cmt
    check,      \* the execution of check_trigger()
    host,       \* the execution of a write by MainHandler
    dirty,      \* history: the application wrote the char that host has loaded
    quiet,      \* history: no char changed since check_trigger() was called
    last,       \* history: first operand at the last evaluation of this configuration
    before      \* history: the same, one evaluation before

vars == <<memory, config, cmt, check, host, dirty, quiet, last, before>>

NoValue == Value("none", 0)
NotChecking == [pc |-> "Idle", chars |-> <<>>, ops |-> <<>>, result |-> FALSE]
NotWriting == [pc |-> "Idle", block |-> <<>>, index |-> 1, temp |-> {}]
CmtReset == [initialized |-> FALSE, previous |-> 0]

Init ==
    /\ memory = InitialMemory
    /\ config \in TriggerConfigs
    /\ cmt = CmtReset
    /\ check = NotChecking /\ host = NotWriting
    /\ dirty = FALSE /\ quiet = TRUE /\ last = NoValue /\ before = NoValue

-----------------------------------------------------------------------------
(* The loop *)

FaultyConditionReset(c) == cmt

\* reset_fn of the new condition: only ChangeMoreThan has one.
ConditionReset(c) == IF c.condition = "ChangeMoreThan" THEN CmtReset ELSE cmt

\* configure(), while the loop does not own the datalogger.
Configure(c) ==
    /\ check.pc \in {"Idle", "Done"}
    /\ config' = c /\ cmt' = ConditionReset(c)
    /\ check' = NotChecking
    /\ last' = NoValue /\ before' = NoValue
    /\ UNCHANGED <<memory, host, dirty, quiet>>

StartCheck ==
    /\ check.pc \in {"Idle", "Done"}
    /\ check' = [NotChecking EXCEPT !.pc = "Fetching"]
    /\ quiet' = TRUE
    /\ UNCHANGED <<memory, config, cmt, host, dirty, last, before>>

Operand == config.operands[Len(check.ops) + 1]
Fetching(kinds) ==
    /\ check.pc = "Fetching" /\ Len(check.ops) < Len(config.operands)
    /\ Operand.kind \in kinds

\* Nothing is read for a float bitfield, and a bitfield of no bit cannot be fetched.
CharsToRead(o) ==
    CASE o.kind = "Var" -> o.datatype.size
      [] o.kind = "VarBit" /\ o.datatype.tt # "float" /\ o.bitsize > 0 -> FetchSize(o.bitoffset, o.bitsize)
      [] o.kind = "VarBit" /\ (o.datatype.tt = "float" \/ o.bitsize = 0) -> 0

\* read_memory(), a memcpy.
FetchChar ==
    /\ Fetching({"Var", "VarBit"})
    /\ Len(check.chars) < CharsToRead(Operand)
    /\ check' = [check EXCEPT !.chars = Append(@, memory[Operand.addr + Len(check.chars)])]
    /\ UNCHANGED <<memory, config, cmt, host, dirty, quiet, last, before>>

\* The values fetch_operand() and convert_to_compare_type() make of what was read.
OperandValues(o, chars) ==
    CASE o.kind = "Literal" -> {Value("float", o.val)}
      [] o.kind = "Rpv" -> RpvValues
      [] o.kind = "Var" -> Converted(o.datatype.tt, o.datatype.size, WordOf(chars))
      [] o.kind = "VarBit" /\ o.datatype.tt # "float" ->
            Converted(o.datatype.tt, OutputSize(o.bitsize),
                      FieldBits(WordOf(chars), o.datatype.tt, o.bitoffset, o.bitsize))
      [] o.kind = "VarBit" /\ o.datatype.tt = "float" ->
            {Value(IF OutputSize(o.bitsize) >= 4 THEN "float" ELSE "other", v) : v \in Garbage}

FetchDone ==
    /\ Fetching({"Literal", "Rpv", "Var", "VarBit"})
    /\ Operand.kind \in {"Var", "VarBit"} => Len(check.chars) = CharsToRead(Operand)
    /\ Operand.kind = "VarBit" => Operand.bitsize > 0
    /\ \E v \in OperandValues(Operand, check.chars) :
          check' = [check EXCEPT !.ops = Append(@, v), !.chars = <<>>]
    /\ UNCHANGED <<memory, config, cmt, host, dirty, quiet, last, before>>

\* A failed fetch: check_trigger() returns false and nothing is evaluated.
FetchFails ==
    /\ \/ Fetching({"Rpv"})
       \/ Fetching({"VarBit"}) /\ Operand.bitsize = 0
    /\ check' = NotChecking
    /\ UNCHANGED <<memory, config, cmt, host, dirty, quiet, last, before>>

FaultyCmtAfter(ops) ==
    IF ops[2].type = "other" \/ cmt.initialized THEN cmt ELSE [initialized |-> TRUE, previous |-> ops[1].val]

\* The memory of ChangeMoreThan after an evaluation.
CmtAfter(ops) ==
    IF ops[2].type = "other" THEN cmt ELSE [initialized |-> TRUE, previous |-> ops[1].val]

\* eval_fn(): the results it may give.
Results(ops) ==
    CASE config.condition = "AlwaysTrue" -> {TRUE}
      [] config.condition \in RelationalOperators ->
            {RelationalCompare(config.condition, ops[1], ops[2])}
      [] config.condition = "ChangeMoreThan" ->
            IF "other" \in {ops[1].type, ops[2].type} \/ ~cmt.initialized THEN {FALSE}
            ELSE ChangedMoreThan(cmt.previous, ops[1], ops[2].val)
      [] config.condition = "IsWithin" ->
            {"other" \notin {ops[i].type : i \in 1 .. 3} /\ IsWithin(ops[1].val, ops[2].val, ops[3].val)}

Evaluate ==
    /\ check.pc = "Fetching" /\ Len(check.ops) = Len(config.operands)
    /\ \E r \in Results(check.ops) : check' = [check EXCEPT !.pc = "Done", !.result = r]
    /\ IF config.condition = "ChangeMoreThan"
       THEN /\ cmt' = CmtAfter(check.ops)
            /\ last' = IF check.ops[2].type = "other" THEN last ELSE check.ops[1]
            /\ before' = last
       ELSE UNCHANGED <<cmt, last, before>>
    /\ UNCHANGED <<memory, config, host, dirty, quiet>>

Check == StartCheck \/ FetchChar \/ FetchDone \/ FetchFails \/ Evaluate

-----------------------------------------------------------------------------
(* The others *)

Put(a, char) ==
    /\ memory' = [memory EXCEPT ![a] = char]
    /\ quiet' = (quiet /\ char = memory[a])

\* The block being written and the char of it in hand.
Block == host.block[1]
Target == Block.addr + host.index - 1

AppWrite(w) ==
    /\ Put(w.addr, w.char)
    /\ dirty' = (dirty \/ (host.pc = "Store" /\ Block.masked /\ w.addr = Target))
    /\ UNCHANGED <<config, cmt, check, host, last, before>>

\* process_memory_control() takes a block to write.
StartWrite(b) ==
    /\ host.pc = "Idle"
    /\ host' = [pc |-> "Load", block |-> <<b>>, index |-> 1, temp |-> {}]
    /\ dirty' = FALSE
    /\ UNCHANGED <<memory, config, cmt, check, quiet, last, before>>

FaultyLoad ==
    /\ host.pc = "Load"
    /\ host' = [host EXCEPT !.pc = "Store", !.temp = InitialMemory[Target]]
    /\ UNCHANGED <<memory, config, cmt, check, dirty, quiet, last, before>>

\* temp = start_address[i], for a masked write.
Load ==
    /\ host.pc = "Load"
    /\ host' = [host EXCEPT !.pc = "Store", !.temp = IF Block.masked THEN memory[Target] ELSE {}]
    /\ UNCHANGED <<memory, config, cmt, check, dirty, quiet, last, before>>

\* Set the bits, clear the bits.
MaskedChar(char, source, mask) ==
    (char \union (source \intersect mask)) \intersect (source \union ((0 .. CharBits - 1) \ mask))

Store ==
    /\ host.pc = "Store"
    /\ LET i == host.index IN
         /\ Put(Target, IF Block.masked THEN MaskedChar(host.temp, Block.source[i], Block.mask[i])
                                        ELSE Block.source[i])
         /\ host' = IF i = Len(Block.source) THEN NotWriting
                    ELSE [host EXCEPT !.pc = "Load", !.index = i + 1, !.temp = {}]
    /\ dirty' = FALSE
    /\ UNCHANGED <<config, cmt, check, last, before>>

Next ==
    \/ \E c \in TriggerConfigs : Configure(c)
    \/ Check
    \/ \E w \in AppWrites : AppWrite(w)
    \/ \E b \in HostWrites : StartWrite(b)
    \/ Load
    \/ Store

Spec == Init /\ [][Next]_vars

-----------------------------------------------------------------------------
(* Properties *)

\* The integer at an address, and the field of it, by arithmetic.
MemoryInteger(a, size) ==
    MapThenSumSet(LAMBDA j : Unsigned(memory[a + j]) * 2^(CharBits * j), 0 .. size - 1)
AsSigned(n, bits) == IF n >= 2^(bits - 1) THEN n - 2^bits ELSE n
FieldInteger(o) == (MemoryInteger(o.addr, o.datatype.size) \div 2^o.bitoffset) % 2^o.bitsize

\* What an operand in memory is worth, as an integer.
OperandInteger(o) ==
    CASE o.kind = "Literal" -> o.val
      [] o.kind = "Var" /\ o.datatype.tt # "uint" ->
            AsSigned(MemoryInteger(o.addr, o.datatype.size), CharBits * o.datatype.size)
      [] o.kind = "Var" /\ o.datatype.tt = "uint" -> MemoryInteger(o.addr, o.datatype.size)
      [] o.kind = "VarBit" /\ o.datatype.tt = "sint" -> AsSigned(FieldInteger(o), o.bitsize)
      [] o.kind = "VarBit" /\ o.datatype.tt = "uint" -> FieldInteger(o)

\* Operands whose value does not depend on a callback, a bool or a float bitfield.
Plain(o) ==
    \/ o.kind = "Literal"
    \/ o.kind = "Var" /\ o.datatype.tt # "boolean"
    \/ o.kind = "VarBit" /\ o.datatype.tt \in {"uint", "sint"}

Sign(n) == IF n > 0 THEN 1 ELSE IF n < 0 THEN -1 ELSE 0

\* The conditions as SupportedTriggerConditions documents them.
DocumentedChange(v, previous, delta) == Abs(v - previous) > Abs(delta) /\ Sign(v - previous) = Sign(delta)
Documented(v, previous) ==
    CASE config.condition = "AlwaysTrue" -> TRUE
      [] config.condition \in RelationalOperators -> Related(config.condition, v[1], v[2])
      [] config.condition = "IsWithin" -> Abs(v[1] - v[2]) < Abs(v[3])
      [] config.condition = "ChangeMoreThan" ->
            previous # NoValue /\ DocumentedChange(v[1], previous.val, v[2])

\* An unsigned value above the largest signed one is compared to a signed one as if it
\* were that one.
Saturates(ops) ==
    /\ config.condition \in RelationalOperators
    /\ \E i \in 1 .. 2 : ops[i].type = "uint" /\ ops[i].val > IntMax
                         /\ ops[3 - i] = Value("sint", IntMax)

\* The margin itself is within for the code and its test (TestTriggerConditions), not for the
\* documentation.
OnTheMargin(ops) ==
    config.condition = "IsWithin" /\ Abs(ops[1].val - ops[2].val) = Abs(ops[3].val)

\* A change by more than a delta is decided on a sum that does not leave its type.
InRange(previous, ops) ==
    config.condition = "ChangeMoreThan" /\ previous # NoValue =>
        /\ ops[2].val # 0
        /\ ops[1].type = "uint" => previous.val + ops[2].val \in 0 .. UintModulus - 1
        /\ ops[1].type = "sint" => previous.val + ops[2].val \in -IntMax - 1 .. IntMax

\* When no memory changed during check_trigger(), its condition says what the
\* configuration documents of the numbers in memory: whatever their size, their sign,
\* the place of the bitfield, the mix of types, and the previous value of
\* ChangeMoreThan.  Saturation, overflow and the margin of IsWithin are the exceptions.
ConditionOfMemory ==
    (/\ check.pc = "Done" /\ quiet
     /\ \A i \in DOMAIN config.operands : Plain(config.operands[i])
     /\ ~Saturates(check.ops) /\ ~OnTheMargin(check.ops) /\ InRange(before, check.ops))
    => check.result = Documented([i \in DOMAIN config.operands |-> OperandInteger(config.operands[i])], before)

\* A masked write gives the bits of its mask the value asked for, and changes another
\* bit only if the application wrote the same char while it was in hand.
UnmaskedKept ==
    [][host.pc = "Store" /\ host'.pc # "Store" /\ Block.masked =>
        LET mask == Block.mask[host.index]
        IN /\ memory'[Target] \intersect mask = Block.source[host.index] \intersect mask
           /\ memory'[Target] \ mask # memory[Target] \ mask => dirty
           /\ \A a \in Addresses \ {Target} : memory'[a] = memory[a]]_vars

\* "|Operand1[n] - Operand1[n-1]| > |Operand2| && sign(Operand1[n] - Operand1[n-1]) ==
\* sign(Operand2)", for a delta that is not 0 and integers that do not overflow.
ChangeAsDocumented ==
    (/\ check.pc = "Done" /\ config.condition = "ChangeMoreThan" /\ before # NoValue
     /\ check.ops[1].type = "uint" /\ check.ops[2].type # "other" /\ check.ops[2].val # 0)
    => check.result = DocumentedChange(check.ops[1].val, before.val, check.ops[2].val)

-----------------------------------------------------------------------------
(* Proof that a masked write changes the bits of its mask and no other, whatever the memory,
   the blocks written, and what the application writes at the same time *)

\* The bits that process_memory_control() leaves in a char that it read as char: those of
\* source where mask says so, the old ones elsewhere.
LEMMA MaskedBits ==
  ASSUME NEW char \in Char, NEW source, NEW mask
  PROVE  /\ MaskedChar(char, source, mask) \intersect mask = source \intersect mask
         /\ MaskedChar(char, source, mask) \ mask = char \ mask
  BY DEF MaskedChar, Char

LEMMA MaskedIsChar ==
  ASSUME NEW char \in Char, NEW source \in Char, NEW mask
  PROVE  MaskedChar(char, source, mask) \in Char
  BY DEF MaskedChar, Char

\* The write under way is one of HostWrites and is inside it; the char in hand is the
\* one in memory, unless the application wrote that one meanwhile.
Loaded ==
    /\ memory \in [Addresses -> Char]
    /\ host.pc \in {"Idle", "Load", "Store"}
    /\ host.pc # "Idle" => /\ Block \in HostWrites
                           /\ host.index \in 1 .. Len(Block.source)
    /\ host.pc = "Store" => host.temp \in Char
    /\ host.pc = "Store" /\ Block.masked /\ ~dirty => host.temp = memory[Target]

\* The block written by the server is at addresses of the memory, and made of chars.
LEMMA TargetInMemory ==
  ASSUME Loaded, host.pc # "Idle"
  PROVE  Target \in Addresses /\ Block.source[host.index] \in Char
  BY MemoryAssumption DEF Loaded, Target

LEMMA StoreStep ==
  ASSUME Loaded, Store
  PROVE  /\ Loaded'
         /\ Block.masked =>
              LET mask == Block.mask[host.index]
              IN /\ memory'[Target] \intersect mask = Block.source[host.index] \intersect mask
                 /\ memory'[Target] \ mask # memory[Target] \ mask => dirty
                 /\ \A a \in Addresses \ {Target} : memory'[a] = memory[a]
  <1> DEFINE source == Block.source[host.index]
             mask == Block.mask[host.index]
             char == IF Block.masked THEN MaskedChar(host.temp, source, mask) ELSE source
  <1>1. /\ host.pc = "Store" /\ Target \in Addresses /\ source \in Char /\ host.temp \in Char
        /\ memory \in [Addresses -> Char]
    BY TargetInMemory DEF Store, Loaded
  <1>2. memory' = [memory EXCEPT ![Target] = char]
    BY DEF Store, Put
  <1>3. char \in Char
    BY <1>1, MaskedIsChar
  <1>4. memory' \in [Addresses -> Char] /\ memory'[Target] = char
        /\ \A a \in Addresses \ {Target} : memory'[a] = memory[a]
    BY <1>1, <1>2, <1>3
  <1>5. Loaded'
    <2>1. CASE host.index = Len(Block.source)
      <3>1. host'.pc = "Idle"
        BY <2>1 DEF Store, NotWriting
      <3> QED
        BY <1>4, <3>1 DEF Loaded
    <2>2. CASE host.index # Len(Block.source)
      <3>1. host' = [host EXCEPT !.pc = "Load", !.index = host.index + 1, !.temp = {}]
        BY <2>2 DEF Store
      <3>2. host.index + 1 \in 1 .. Len(Block.source)
        BY <1>1, <2>2, MemoryAssumption DEF Loaded
      <3> QED
        BY <1>1, <1>4, <3>1, <3>2 DEF Loaded, Block
    <2> QED
      BY <2>1, <2>2
  <1>6. Block.masked =>
          /\ memory'[Target] \intersect mask = source \intersect mask
          /\ ~dirty => memory'[Target] \ mask = memory[Target] \ mask
    BY <1>1, <1>4, MaskedBits DEF Loaded
  <1> QED
    BY <1>4, <1>5, <1>6

-----------------------------------------------------------------------------
(* Every step *)

LEMMA StartWriteStep ==
  ASSUME Loaded, NEW b \in HostWrites, StartWrite(b)
  PROVE  Loaded' /\ host'.pc # "Idle"
  <1>1. host' = [pc |-> "Load", block |-> <<b>>, index |-> 1, temp |-> {}] /\ memory' = memory
    BY DEF StartWrite
  <1>2. Len(b.source) \in Nat \ {0}
    BY MemoryAssumption
  <1> QED
    BY <1>1, <1>2 DEF Loaded, Block

LEMMA LoadStep ==
  ASSUME Loaded, Load
  PROVE  Loaded'
  <1> DEFINE temp == IF Block.masked THEN memory[Target] ELSE {}
  <1>1. host' = [host EXCEPT !.pc = "Store", !.temp = temp] /\ memory' = memory /\ host.pc = "Load"
    BY DEF Load
  <1>2. Target \in Addresses
    BY <1>1, TargetInMemory
  <1>3. temp \in Char
    BY <1>2 DEF Loaded, Char
  <1>4. Block' = Block /\ Target' = Target
    BY <1>1 DEF Block, Target
  <1> QED
    BY <1>1, <1>3, <1>4 DEF Loaded

\* The application may write the char in hand, and then it is dirty.
LEMMA AppWriteStep ==
  ASSUME Loaded, NEW w \in AppWrites, AppWrite(w)
  PROVE  Loaded'
  <1>1. /\ memory' = [memory EXCEPT ![w.addr] = w.char] /\ host' = host
        /\ dirty' = (dirty \/ (host.pc = "Store" /\ Block.masked /\ w.addr = Target))
    BY DEF AppWrite, Put
  <1>2. w.addr \in Addresses /\ w.char \in Char
    BY MemoryAssumption
  <1>3. Block' = Block /\ Target' = Target
    BY <1>1 DEF Block, Target
  <1>4. ASSUME host.pc = "Store", Block.masked, ~dirty'
        PROVE  host.temp = memory'[Target]
    <2>1. ~dirty /\ w.addr # Target
      BY <1>1, <1>4
    <2>2. Target \in Addresses
      BY <1>4, TargetInMemory
    <2> QED
      BY <1>1, <1>4, <2>1, <2>2 DEF Loaded
  <1> QED
    BY <1>1, <1>2, <1>3, <1>4 DEF Loaded

\* The loop only reads the memory.
LEMMA LoopSteps ==
  ASSUME Loaded, Check \/ \E c \in TriggerConfigs : Configure(c)
  PROVE  Loaded' /\ host' = host
  <1>1. UNCHANGED <<memory, host, dirty>>
    BY DEF Check, StartCheck, FetchChar, FetchDone, FetchFails, Evaluate, Configure
  <1> QED
    BY <1>1 DEF Loaded, Block, Target

\* A step that is not Store leaves a char that was loaded in hand.
LEMMA LeavesStore ==
  ASSUME Loaded, [Next]_vars, host.pc = "Store", host'.pc # "Store"
  PROVE  Store
  <1>1. CASE vars' = vars
    BY <1>1 DEF vars
  <1>2. CASE Check \/ \E c \in TriggerConfigs : Configure(c)
    BY <1>2, LoopSteps
  <1>3. CASE \E w \in AppWrites : AppWrite(w)
    BY <1>3 DEF AppWrite
  <1>4. CASE (\E b \in HostWrites : StartWrite(b)) \/ Load
    BY <1>4 DEF StartWrite, Load
  <1> QED
    BY <1>1, <1>2, <1>3, <1>4 DEF Next

LEMMA LoadedStep ==
  ASSUME Loaded, [Next]_vars
  PROVE  Loaded'
  <1>1. CASE vars' = vars
    BY <1>1 DEF vars, Loaded, Block, Target
  <1>2. CASE Check \/ \E c \in TriggerConfigs : Configure(c)
    BY <1>2, LoopSteps
  <1>3. CASE \E w \in AppWrites : AppWrite(w)
    BY <1>3, AppWriteStep
  <1>4. CASE \E b \in HostWrites : StartWrite(b)
    BY <1>4, StartWriteStep
  <1>5. CASE Load
    BY <1>5, LoadStep
  <1>6. CASE Store
    BY <1>6, StoreStep
  <1> QED
    BY <1>1, <1>2, <1>3, <1>4, <1>5, <1>6 DEF Next

\* A masked write under way has in hand the char of memory, or the application wrote it.
THEOREM CharInHand == Spec => []Loaded
  <1>1. Init => Loaded
    BY MemoryAssumption DEF Init, Loaded, NotWriting
  <1> QED
    BY <1>1, LoadedStep, PTL DEF Spec

\* A masked write of process_memory_control() sets the bits of its mask as asked, leaves
\* every other char alone, and loses a bit only to a write of the application that came
\* between its read and its write of that char.
THEOREM OtherBitsKept == Spec => UnmaskedKept
  <1>1. Loaded /\ [Next]_vars =>
          [host.pc = "Store" /\ host'.pc # "Store" /\ Block.masked =>
            LET mask == Block.mask[host.index]
            IN /\ memory'[Target] \intersect mask = Block.source[host.index] \intersect mask
               /\ memory'[Target] \ mask # memory[Target] \ mask => dirty
               /\ \A a \in Addresses \ {Target} : memory'[a] = memory[a]]_vars
    BY LeavesStore, StoreStep
  <1> QED
    BY <1>1, CharInHand, PTL DEF Spec, UnmaskedKept
=============================================================================
