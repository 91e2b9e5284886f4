------------------------------- MODULE Machine -------------------------------
(***************************************************************************)
(* The SIC/XE virtual machine (machine.cc and the instruction logic under  *)
(* machine/logic): the CPU state, the memory, the attached devices, and    *)
(* the operations its owners call, namely Execute (one instruction),       *)
(* Interrupt, Reset and SetDevice.                                         *)
(*                                                                         *)
(* An instruction is decoded from the bytes in memory, so programs are     *)
(* real machine code.  The arithmetic of the host's doubles and what the   *)
(* devices' files hold are left open: the constants FloatResults,          *)
(* FixResults and InputBytes are the values they may yield.                *)
(***************************************************************************)
EXTENDS InstructionSet

CONSTANTS Images,        \* memory contents the machine may start with
          DeviceIds,     \* device numbers that ever get a device
          InputBytes,    \* bytes a device's stream may deliver
          FloatResults,  \* what EncodeFloatData may produce
          FixResults,    \* what FIX may leave in register A
          BitAnd(_, _), BitOr(_, _), BitXor(_, _)  \* &, | and ^ on words

ASSUME MachineAssumption ==
  /\ \A image \in Images : image \in [Address -> Byte]
  /\ DeviceIds \subseteq Byte
  /\ InputBytes \subseteq Byte
  /\ FloatResults \subseteq FloatData
  /\ FixResults \subseteq Word

REG_A == 0
REG_X == 1
REG_L == 2
REG_B == 3
REG_S == 4
REG_T == 5
RegisterId == 0 .. 5

ConditionId == {"LESS", "EQUAL", "GREATER"}

\* NOT_IMPLEMENTED cannot occur: every default instruction has its logic.
\* CRASHED is the end of the process by the trap of a division by zero.
ResultId == {"OK", "DEVICE_ERROR", "INVALID_OPCODE", "INVALID_ADDRESSING",
             "ENDLESS_LOOP", "CRASHED"}

\* No device; standard input; an output stream; a file not opened yet, opened
\* by a read, opened by a write.
DeviceState == {"none", "input", "output", "file", "file_read", "file_write"}
NewDevice   == {"input", "output", "file"}

VARIABLES program_counter, registers, float_register, condition_code,
          interrupt_enabled, interrupt_link, interrupt_condition_code,
          target_address,         \* operand address of the last FS34 instruction
          interrupt_enable_next,  \* EINT takes effect one instruction later
          memory, devices,
          result                  \* what the last call returned

cpu_vars == <<program_counter, registers, float_register, condition_code,
              interrupt_link, interrupt_condition_code>>
hidden_vars == <<interrupt_enabled, interrupt_enable_next, target_address>>
vars == <<cpu_vars, hidden_vars, memory, devices, result>>

TypeOK ==
  /\ program_counter \in Address
  /\ registers \in [RegisterId -> Word]
  /\ float_register \in FloatData
  /\ condition_code \in ConditionId
  /\ interrupt_enabled \in BOOLEAN
  /\ interrupt_link \in Address
  /\ interrupt_condition_code \in ConditionId
  /\ target_address \in Word
  /\ interrupt_enable_next \in BOOLEAN
  /\ memory \in [Address -> Byte]
  /\ devices \in [DeviceIds -> DeviceState]
  /\ result \in ResultId

ZeroFloat == [k \in 0 .. FloatLength - 1 |-> 0]

\* A machine whose memory a loader has filled, with the given devices attached.
InitWith(attached) ==
  /\ program_counter = 0
  /\ registers = [r \in RegisterId |-> 0]
  /\ float_register = ZeroFloat
  /\ condition_code = "LESS"
  /\ interrupt_enabled = FALSE
  /\ interrupt_link = 0
  /\ interrupt_condition_code = "LESS"
  /\ target_address = 0
  /\ interrupt_enable_next = FALSE
  /\ memory \in Images
  /\ devices = attached
  /\ result = "OK"

Init == InitWith([d \in DeviceIds |-> "none"])

-----------------------------------------------------------------------------
(***************************************************************************)
(* The instruction under the program counter.                              *)
(***************************************************************************)
Instance ==
  Decode(DefaultInstructions, memory[Cell(program_counter, 0)],
         memory[Cell(program_counter, 1)], memory[Cell(program_counter, 2)],
         memory[Cell(program_counter, 3)])

NextProgramCounter == TrimAddress(program_counter + InstructionLength(Instance))

Is(mnemonics) == Instance.mnemonic \in mnemonics

IsImmediateAddressing == ~Instance.n /\ Instance.i

\* CalculateTargetAddress refuses these combinations; a SIC instruction has
\* neither n nor i, and its b, p and e are address bits.
ValidAddressing ==
  \/ ~Instance.n /\ ~Instance.i
  \/ /\ Instance.x => Instance.n /\ Instance.i
     /\ Instance.e => ~Instance.p /\ ~Instance.b
     /\ ~(Instance.p /\ Instance.b)

DirectAddress ==
  TrimWord(
    (IF Instance.p THEN SignExtendF3Operand(Instance.address) + NextProgramCounter
                   ELSE Instance.address)
    + (IF Instance.b THEN registers[REG_B] ELSE 0)
    + (IF Instance.x THEN registers[REG_X] ELSE 0))

TargetAddress ==
  IF Instance.n /\ ~Instance.i THEN ReadMemoryWord(memory, DirectAddress)
                               ELSE DirectAddress

\* Operands of LOAD_W and LOAD_B instructions.
WordOperand ==
  IF IsImmediateAddressing THEN TargetAddress ELSE ReadMemoryWord(memory, TargetAddress)

ByteOperand ==
  IF IsImmediateAddressing THEN TargetAddress % ByteSize
                           ELSE ReadMemoryByte(memory, TargetAddress)

\* interrupt_enabled after the delayed enable at the start of Execute.
EnabledNow == interrupt_enabled \/ interrupt_enable_next

DelayedInterruptEnable ==
  /\ interrupt_enabled' = EnabledNow
  /\ interrupt_enable_next' = FALSE

-----------------------------------------------------------------------------
(***************************************************************************)
(* How an instruction ends.  Each outcome says what becomes of the whole   *)
(* state but for the interrupt enables and the target address.             *)
(***************************************************************************)
Fail(error) ==
  /\ result' = error
  /\ UNCHANGED <<cpu_vars, memory, devices>>

Proceed ==
  /\ result' = "OK"
  /\ program_counter' = NextProgramCounter
  /\ UNCHANGED <<interrupt_link, interrupt_condition_code>>

SetRegister(r, value) ==
  /\ Proceed
  /\ registers' = [registers EXCEPT ![r] = value]
  /\ UNCHANGED <<float_register, condition_code, memory, devices>>

SetFloatRegister(value) ==
  /\ Proceed
  /\ float_register' = value
  /\ UNCHANGED <<registers, condition_code, memory, devices>>

SetConditionCode(condition) ==
  /\ Proceed
  /\ condition_code' = condition
  /\ UNCHANGED <<registers, float_register, memory, devices>>

SetMemory(contents) ==
  /\ Proceed
  /\ memory' = contents
  /\ UNCHANGED <<registers, float_register, condition_code, devices>>

JumpTo(address) ==
  /\ result' = "OK"
  /\ program_counter' = address
  /\ UNCHANGED <<registers, float_register, condition_code, interrupt_link,
                 interrupt_condition_code, memory, devices>>

-----------------------------------------------------------------------------
(***************************************************************************)
(* Arithmetic.  Words are read as signed; the sums and products of two     *)
(* words that C++ leaves undefined wrap, as x86 does, and only their lower *)
(* 24 bits are kept.                                                       *)
(***************************************************************************)
Comparison(a, b) == IF a < b THEN "LESS" ELSE IF a > b THEN "GREATER" ELSE "EQUAL"

Arithmetic(operation, a, b) ==
  LET sa == SignExtendWord(a)
      sb == SignExtendWord(b)
  IN  CASE operation = "ADD" -> TrimWord(sa + sb)
        [] operation = "SUB" -> TrimWord(sa - sb)
        [] operation = "MUL" -> TrimWord(sa * sb)
        [] operation = "DIV" -> TrimWord(Quotient(sa, sb))
        [] operation = "AND" -> BitAnd(a, b)
        [] operation = "OR"  -> BitOr(a, b)
        [] operation = "XOR" -> BitXor(a, b)

ArithmeticResult(operation, r, b) ==
  IF operation = "DIV" /\ b = 0
  THEN Fail("CRASHED")
  ELSE SetRegister(r, Arithmetic(operation, registers[r], b))

ArithmeticMemOperation ==
  [ADD |-> "ADD", SUB |-> "SUB", MUL |-> "MUL", DIV |-> "DIV",
   AND |-> "AND", OR |-> "OR", XOR |-> "XOR"]

ArithmeticMem ==
  /\ Is(DOMAIN ArithmeticMemOperation)
  /\ ArithmeticResult(ArithmeticMemOperation[Instance.mnemonic], REG_A, WordOperand)

ArithmeticRegOperation ==
  [ADDR |-> "ADD", SUBR |-> "SUB", MULR |-> "MUL", DIVR |-> "DIV",
   ANDR |-> "AND", ORR |-> "OR", XORR |-> "XOR"]

R1 == Instance.r1
R2 == Instance.r2

ArithmeticReg ==
  /\ Is(DOMAIN ArithmeticRegOperation)
  /\ R1 \in RegisterId /\ R2 \in RegisterId
  /\ ArithmeticResult(ArithmeticRegOperation[Instance.mnemonic], R2, registers[R1])

RegisterNegate ==
  /\ Is({"NOT"})
  /\ R1 \in RegisterId
  /\ SetRegister(R1, WordSize - 1 - registers[R1])

\* 2^n for the four-bit count of a shift.
PowerOfTwo == <<1, 2, 4, 8, 16, 32, 64, 128, 256, 512, 1024, 2048, 4096, 8192,
                16384, 32768>>

Shift ==
  /\ Is({"SHIFTL", "SHIFTR"})
  /\ R1 \in RegisterId
  /\ LET value == SignExtendWord(registers[R1])
         factor == PowerOfTwo[R2 + 1]
     IN  \/ Is({"SHIFTL"}) /\ SetRegister(R1, TrimWord(value * factor))
         \/ Is({"SHIFTR"}) /\ SetRegister(R1, TrimWord(value \div factor))

ClearReg ==
  /\ Is({"CLEAR"})
  /\ R1 \in RegisterId
  /\ SetRegister(R1, 0)

MoveReg ==
  /\ Is({"RMO"})
  /\ R1 \in RegisterId /\ R2 \in RegisterId
  /\ SetRegister(R2, registers[R1])

-----------------------------------------------------------------------------
CompareMem ==
  /\ Is({"COMP"})
  /\ SetConditionCode(Comparison(SignExtendWord(registers[REG_A]),
                                 SignExtendWord(WordOperand)))

CompareReg ==
  /\ Is({"COMPR"})
  /\ R1 \in RegisterId /\ R2 \in RegisterId
  /\ SetConditionCode(Comparison(SignExtendWord(registers[R1]),
                                 SignExtendWord(registers[R2])))

\* TIX and TIXR: the operand is read before X is incremented.
IncrementCompare(operand) ==
  LET x == TrimWord(registers[REG_X] + 1)
  IN  /\ Proceed
      /\ registers' = [registers EXCEPT ![REG_X] = x]
      /\ condition_code' = Comparison(SignExtendWord(x), SignExtendWord(operand))
      /\ UNCHANGED <<float_register, memory, devices>>

IncrementCompareMem ==
  /\ Is({"TIX"})
  /\ IncrementCompare(WordOperand)

IncrementCompareReg ==
  /\ Is({"TIXR"})
  /\ R1 \in RegisterId
  /\ IncrementCompare(registers[R1])

-----------------------------------------------------------------------------
LoadWordRegister ==
  [LDA |-> REG_A, LDX |-> REG_X, LDL |-> REG_L, LDB |-> REG_B, LDS |-> REG_S,
   LDT |-> REG_T]

LoadWord ==
  /\ Is(DOMAIN LoadWordRegister)
  /\ SetRegister(LoadWordRegister[Instance.mnemonic], WordOperand)

LoadByte ==
  /\ Is({"LDCH"})
  /\ SetRegister(REG_A, ByteOperand)

StoreWordRegister ==
  [STA |-> REG_A, STX |-> REG_X, STL |-> REG_L, STB |-> REG_B, STS |-> REG_S,
   STT |-> REG_T]

StoreWord ==
  /\ Is(DOMAIN StoreWordRegister)
  /\ ~IsImmediateAddressing
  /\ SetMemory(WriteMemoryWord(memory, TargetAddress,
                               registers[StoreWordRegister[Instance.mnemonic]]))

StoreByte ==
  /\ Is({"STCH"})
  /\ ~IsImmediateAddressing
  /\ SetMemory(WriteMemoryByte(memory, TargetAddress, registers[REG_A]))

\* The status word is put together with ||, so it is 0 or 1; STSW does not
\* check for immediate addressing.
StatusWord ==
  IF EnabledNow \/ condition_code # "LESS" \/ interrupt_condition_code # "LESS"
  THEN 1 ELSE 0

StoreFlags ==
  /\ Is({"STSW"})
  /\ SetMemory(WriteMemoryByte(memory, TargetAddress, StatusWord))

-----------------------------------------------------------------------------
\* Mutant: the extended format is forgotten.
JumpsToItselfShort ==
  TrimAddress(TrimAddress(TargetAddress) + 3) = NextProgramCounter

\* J and JSUB stop the machine when they jump to themselves.
JumpsToItself ==
  TrimAddress(TrimAddress(TargetAddress) + (IF Instance.e THEN 4 ELSE 3))
    = NextProgramCounter

Jump ==
  /\ Is({"J", "JSUB"})
  /\ ~IsImmediateAddressing
  /\ IF JumpsToItself
     THEN Fail("ENDLESS_LOOP")
     ELSE /\ result' = "OK"
          /\ program_counter' = TrimAddress(TargetAddress)
          /\ registers' = IF Is({"JSUB"})
                          THEN [registers EXCEPT ![REG_L] = NextProgramCounter]
                          ELSE registers
          /\ UNCHANGED <<float_register, condition_code, interrupt_link,
                         interrupt_condition_code, memory, devices>>

JumpCondition == [JLT |-> "LESS", JEQ |-> "EQUAL", JGT |-> "GREATER"]

\* Mutant: the target keeps the bits above the address.
JumpConditionalUntrimmed ==
  /\ Is(DOMAIN JumpCondition)
  /\ ~IsImmediateAddressing
  /\ JumpTo(IF condition_code = JumpCondition[Instance.mnemonic]
            THEN TargetAddress ELSE NextProgramCounter)

JumpConditional ==
  /\ Is(DOMAIN JumpCondition)
  /\ ~IsImmediateAddressing
  /\ JumpTo(IF condition_code = JumpCondition[Instance.mnemonic]
            THEN TrimAddress(TargetAddress) ELSE NextProgramCounter)

Return ==
  /\ Is({"RSUB"})
  /\ JumpTo(TrimAddress(registers[REG_L]))

-----------------------------------------------------------------------------
(***************************************************************************)
(* Devices.  A file device opens its file on first use, for good: what it  *)
(* was opened for is all it will do until it is replaced.                  *)
(***************************************************************************)
DeviceAt(d) == IF d \in DeviceIds THEN devices[d] ELSE "none"

TestDevice ==
  /\ Is({"TD"})
  /\ SetConditionCode(IF DeviceAt(ByteOperand) = "none" THEN "GREATER" ELSE "LESS")

\* Read delivers a byte, or 0 at the end of the stream.
ReadSucceeds(d) ==
  /\ DeviceAt(d) \in {"input", "file", "file_read"}
  /\ \E value \in InputBytes \cup {0} :
       registers' = [registers EXCEPT ![REG_A] = value]
  /\ devices' = [devices EXCEPT ![d] = IF @ = "input" THEN @ ELSE "file_read"]
  /\ Proceed
  /\ UNCHANGED <<float_register, condition_code, memory>>

WriteSucceeds(d) ==
  /\ DeviceAt(d) \in {"output", "file", "file_write"}
  /\ devices' = [devices EXCEPT ![d] = IF @ = "output" THEN @ ELSE "file_write"]
  /\ Proceed
  /\ UNCHANGED <<registers, float_register, condition_code, memory>>

\* A file that has to be opened first may fail to open.
ReadDevice ==
  /\ Is({"RD"})
  /\ \/ ReadSucceeds(ByteOperand)
     \/ DeviceAt(ByteOperand) \notin {"input", "file_read"} /\ Fail("DEVICE_ERROR")

WriteDevice ==
  /\ Is({"WD"})
  /\ \/ WriteSucceeds(ByteOperand)
     \/ DeviceAt(ByteOperand) \notin {"output", "file_write"} /\ Fail("DEVICE_ERROR")

-----------------------------------------------------------------------------
FloatOperand == ReadMemoryFloat(memory, TargetAddress)

LoadFloat ==
  /\ Is({"LDF"})
  /\ ~IsImmediateAddressing
  /\ SetFloatRegister(FloatOperand)

StoreFloat ==
  /\ Is({"STF"})
  /\ ~IsImmediateAddressing
  /\ SetMemory(WriteMemoryFloat(memory, TargetAddress, float_register))

FloatArithmetic ==
  /\ Is({"ADDF", "SUBF", "MULF", "DIVF"})
  /\ ~IsImmediateAddressing
  /\ \E value \in FloatResults : SetFloatRegister(value)

FloatCompare ==
  /\ Is({"COMPF"})
  /\ ~IsImmediateAddressing
  /\ \E condition \in ConditionId : SetConditionCode(condition)

FloatToInt ==
  /\ Is({"FIX"})
  /\ \E value \in FixResults : SetRegister(REG_A, value)

IntToFloat ==
  /\ Is({"FLOAT"})
  /\ \E value \in FloatResults : SetFloatRegister(value)

-----------------------------------------------------------------------------
\* Mutant: EINT takes effect at once.
InterruptEnableAtOnce ==
  /\ Is({"EINT"})
  /\ interrupt_enabled' = TRUE
  /\ interrupt_enable_next' = FALSE
  /\ Proceed
  /\ UNCHANGED <<registers, float_register, condition_code, memory, devices>>

InterruptEnable ==
  /\ Is({"EINT"})
  /\ interrupt_enabled' = EnabledNow
  /\ interrupt_enable_next' = TRUE
  /\ Proceed
  /\ UNCHANGED <<registers, float_register, condition_code, memory, devices>>

InterruptDisable ==
  /\ Is({"DINT"})
  /\ interrupt_enabled' = FALSE
  /\ interrupt_enable_next' = FALSE
  /\ Proceed
  /\ UNCHANGED <<registers, float_register, condition_code, memory, devices>>

\* Mutant: the condition code is not restored.
InterruptReturnKeepsCondition ==
  /\ Is({"RINT"})
  /\ DelayedInterruptEnable
  /\ JumpTo(interrupt_link)

InterruptReturn ==
  /\ Is({"RINT"})
  /\ DelayedInterruptEnable
  /\ result' = "OK"
  /\ program_counter' = interrupt_link
  /\ condition_code' = interrupt_condition_code
  /\ UNCHANGED <<registers, float_register, interrupt_link,
                 interrupt_condition_code, memory, devices>>

InterruptLinkStore ==
  /\ Is({"STIL"})
  /\ ~IsImmediateAddressing
  /\ SetMemory(WriteMemoryWord(memory, TargetAddress, interrupt_link))

-----------------------------------------------------------------------------
(***************************************************************************)
(* Execute, by the format of the instruction.                              *)
(***************************************************************************)
ExecuteInvalidOpcode ==
  /\ Instance = NoInstruction
  /\ Fail("INVALID_OPCODE")
  /\ DelayedInterruptEnable
  /\ UNCHANGED target_address

ExecuteF1 ==
  /\ Instance.format = "F1"
  /\ \/ InterruptEnable
     \/ InterruptDisable
     \/ InterruptReturn
     \/ FloatToInt /\ DelayedInterruptEnable
     \/ IntToFloat /\ DelayedInterruptEnable
  /\ UNCHANGED target_address

\* Instructions that name a register the machine has not got.  CLEAR, NOT, TIXR
\* and the shifts do not look at the second field.
InvalidRegister ==
  \/ R1 \notin RegisterId
  \/ ~Is({"CLEAR", "NOT", "TIXR", "SHIFTL", "SHIFTR"}) /\ R2 \notin RegisterId

ExecuteF2 ==
  /\ Instance.format = "F2"
  /\ \/ InvalidRegister /\ Fail("INVALID_ADDRESSING")
     \/ ArithmeticReg
     \/ RegisterNegate
     \/ Shift
     \/ ClearReg
     \/ MoveReg
     \/ CompareReg
     \/ IncrementCompareReg
  /\ DelayedInterruptEnable
  /\ UNCHANGED target_address

\* Mutant: the program counter is not restored.
ExecuteInvalidAddressingAdvanced ==
  /\ Instance.format = "FS34"
  /\ ~ValidAddressing
  /\ result' = "INVALID_ADDRESSING"
  /\ program_counter' = NextProgramCounter
  /\ UNCHANGED <<registers, float_register, condition_code, interrupt_link,
                 interrupt_condition_code, memory, devices>>
  /\ DelayedInterruptEnable
  /\ UNCHANGED target_address

ExecuteInvalidAddressing ==
  /\ Instance.format = "FS34"
  /\ ~ValidAddressing
  /\ Fail("INVALID_ADDRESSING")
  /\ DelayedInterruptEnable
  /\ UNCHANGED target_address

\* Instructions that need an operand in memory.
NeedsMemoryOperand ==
  Is({"STA", "STX", "STL", "STB", "STS", "STT", "STCH", "STIL", "STF", "LDF",
      "ADDF", "SUBF", "MULF", "DIVF", "COMPF", "J", "JSUB", "JLT", "JEQ", "JGT"})

ExecuteFS34 ==
  /\ Instance.format = "FS34"
  /\ ValidAddressing
  /\ target_address' = TargetAddress
  /\ \/ NeedsMemoryOperand /\ IsImmediateAddressing /\ Fail("INVALID_ADDRESSING")
     \/ LoadWord
     \/ LoadByte
     \/ StoreWord
     \/ StoreByte
     \/ StoreFlags
     \/ ArithmeticMem
     \/ CompareMem
     \/ IncrementCompareMem
     \/ Jump
     \/ JumpConditional
     \/ Return
     \/ TestDevice
     \/ ReadDevice
     \/ WriteDevice
     \/ LoadFloat
     \/ StoreFloat
     \/ FloatArithmetic
     \/ FloatCompare
     \/ InterruptLinkStore
  /\ DelayedInterruptEnable

Running == result # "CRASHED"

Execute ==
  /\ Running
  /\ \/ ExecuteInvalidOpcode
     \/ ExecuteF1
     \/ ExecuteF2
     \/ ExecuteInvalidAddressing
     \/ ExecuteFS34

-----------------------------------------------------------------------------
\* Mutant: the vector keeps the bits above the address.
InterruptVectorUntrimmed == ReadMemoryWord(memory, AddressSize - 3)

InterruptVector == TrimAddress(ReadMemoryWord(memory, AddressSize - 3))

Interrupt ==
  /\ Running
  /\ result' = "OK"
  /\ IF interrupt_enabled
     THEN /\ interrupt_enabled' = FALSE
          /\ interrupt_enable_next' = FALSE
          /\ interrupt_link' = program_counter
          /\ interrupt_condition_code' = condition_code
          /\ program_counter' = InterruptVector
     ELSE UNCHANGED <<interrupt_enabled, interrupt_enable_next, interrupt_link,
                      interrupt_condition_code, program_counter>>
  /\ UNCHANGED <<registers, float_register, condition_code, target_address,
                 memory, devices>>

\* Reset clears the CPU state and the memory and leaves the devices alone.
Reset ==
  /\ Running
  /\ program_counter' = 0
  /\ registers' = [r \in RegisterId |-> 0]
  /\ float_register' = ZeroFloat
  /\ condition_code' = "LESS"
  /\ interrupt_enabled' = FALSE
  /\ interrupt_link' = 0
  /\ interrupt_condition_code' = "LESS"
  /\ target_address' = 0
  /\ interrupt_enable_next' = FALSE
  /\ memory' = [a \in Address |-> 0]
  /\ result' = "OK"
  /\ UNCHANGED devices

\* SetDevice destroys the device that was there, closing its file.
SetDevice(d, device) ==
  /\ Running
  /\ devices' = [devices EXCEPT ![d] = device]
  /\ result' = "OK"
  /\ UNCHANGED <<cpu_vars, hidden_vars, memory>>

Next ==
  \/ Execute
  \/ Interrupt
  \/ Reset
  \/ \E d \in DeviceIds, device \in NewDevice : SetDevice(d, device)

Spec == Init /\ [][Next]_vars

-----------------------------------------------------------------------------
\* A failed instruction can be tried again: Execute restores the program counter
\* and every handler checks before it writes, so the same instruction fails the
\* same way as long as nothing but Execute is called.  A device error may go
\* away, since the file may open the next time.
StuckMachineStaysStuck ==
  [][Execute /\ result \in {"INVALID_OPCODE", "INVALID_ADDRESSING", "ENDLESS_LOOP"}
       => result' = result /\ UNCHANGED <<cpu_vars, memory, devices>>]_vars

\* The endless loop check compares addresses after adding the length of the
\* instruction, modulo the memory size.  It must fire exactly when J or JSUB
\* would leave the program counter where it is, also across the end of memory.
EndlessLoopIsExact ==
  [][Execute /\ Instance.format = "FS34" /\ ValidAddressing /\ Is({"J", "JSUB"})
       /\ ~IsImmediateAddressing
       => (result' = "ENDLESS_LOOP" <=> TrimAddress(TargetAddress) = program_counter)]_vars

\* A stored word is read back from the address it was stored at, and no cell but
\* its three is touched, also when the word wraps around the end of memory or
\* the target address has more bits than an address.
StoredWordReadsBack ==
  [][Execute /\ Instance.format = "FS34" /\ ValidAddressing
       /\ ~IsImmediateAddressing /\ Is(DOMAIN StoreWordRegister)
       => /\ ReadMemoryWord(memory', target_address')
               = registers[StoreWordRegister[Instance.mnemonic]]
          /\ \A a \in Address :
               memory'[a] # memory[a] => a \in {Cell(target_address', k) : k \in 0 .. 2}]_vars

=============================================================================
