---------------------------- MODULE MachineProofs ----------------------------
(***************************************************************************)
(* Proofs about the machine, for every size of bytes, memory and address   *)
(* fields and every set of devices.  The constants BitAnd, BitOr and       *)
(* BitXor stand for the bitwise operators of C++; of these the theorems    *)
(* assume BitwiseOnWords, that they make words out of words.  The last    *)
(* part is about sicxe_vm, which runs the machine.                         *)
(***************************************************************************)
EXTENDS VMDriver, WordsProofs, SequenceTheorems, TLAPS

BitwiseOnWords ==
  \A a, b \in Word : BitAnd(a, b) \in Word /\ BitOr(a, b) \in Word /\ BitXor(a, b) \in Word

-----------------------------------------------------------------------------
(***************************************************************************)
(* Memory accesses.                                                        *)
(***************************************************************************)
LEMMA LargestOfSix ==
  ASSUME NEW S \in SUBSET (1 .. 6), S # {}
  PROVE  \E k \in S : \A j \in S : j <= k
<1> DEFINE Largest(n) == n \in S /\ \A j \in S : j <= n
<1>1. \A j \in S : j \in 1 .. 6
  OBVIOUS
<1>2. 6 \in S \/ 5 \in S \/ 4 \in S \/ 3 \in S \/ 2 \in S \/ 1 \in S
  <2>1. PICK i \in S : TRUE
    OBVIOUS
  <2>2. i = 6 \/ i = 5 \/ i = 4 \/ i = 3 \/ i = 2 \/ i = 1
    BY <1>1, <2>1
  <2>3. QED
    BY <2>1, <2>2
<1>3. \/ Largest(6) \/ Largest(5) \/ Largest(4) \/ Largest(3) \/ Largest(2) \/ Largest(1)
  BY <1>1, <1>2
<1>4. QED
  BY <1>3

\* The data of a float is written byte by byte, also when it is longer than
\* what is left of the memory.
LEMMA WriteMemoryFloatType ==
  ASSUME NEW m \in Memory, NEW a \in Int, NEW v \in FloatData
  PROVE  WriteMemoryFloat(m, a, v) \in Memory
<1> DEFINE data == [k \in 1 .. FloatLength |-> v[k - 1]]
<1>1. \A k \in 1 .. 6 : data[k] \in Byte
  BY DEF FloatData, FloatLength
<1>2. Len(data) = 6
  <2>1. DOMAIN data = 1 .. 6
    BY DEF FloatLength
  <2>2. data \in Seq(Byte)
    BY <1>1, <2>1 DEF FloatLength
  <2> HIDE DEF data
  <2>3. QED
    BY <2>1, <2>2, LenProperties
<1> HIDE DEF data
<1>3. ASSUME NEW c \in Address
      PROVE  WriteMemory(m, a, data)[c] \in Byte
  <2> DEFINE hits == {k \in 1 .. Len(data) : Cell(a, k - 1) = c}
  <2>1. hits \subseteq 1 .. 6
    BY <1>2
  <2>2. CASE hits = {}
    BY <2>2 DEF WriteMemory, Memory
  <2>3. CASE hits # {}
    <3>1. \E k \in hits : \A j \in hits : j <= k
      BY <2>1, <2>3, LargestOfSix
    <3>2. (CHOOSE k \in hits : \A j \in hits : j <= k) \in 1 .. 6
      <4> HIDE DEF hits
      <4>1. QED
        BY <2>1, <3>1
    <3>3. WriteMemory(m, a, data)[c] = data[CHOOSE k \in hits : \A j \in hits : j <= k]
      BY <2>3 DEF WriteMemory, Memory
    <3>4. QED
      BY <1>1, <3>2, <3>3
  <2>4. QED
    BY <2>2, <2>3
<1>4. WriteMemory(m, a, data) = [c \in Address |-> WriteMemory(m, a, data)[c]]
  BY DEF WriteMemory, Memory
<1>5. QED
  BY <1>3, <1>4 DEF WriteMemoryFloat, Memory, data

-----------------------------------------------------------------------------
(***************************************************************************)
(* The decoded instruction and its operands.                               *)
(***************************************************************************)
\* What Decode finds, whatever is registered: an FS34 instruction has a number
\* in its address field, an F2 instruction a number below 16 in its second one.
LEMMA DecodeType ==
  ASSUME NEW db, NEW b0 \in Nat, NEW b1 \in Nat, NEW b2 \in Nat, NEW b3 \in Nat,
         NEW d, d = Decode(db, b0, b1, b2, b3)
  PROVE  /\ d.format = "FS34" => d.address \in Nat
         /\ d.format = "F2" => d.r2 \in 0 .. 15
         /\ d = NoInstruction \/ d.format \in Format
<1>1. CASE FindsShort(db, b0)
  <2> DEFINE short == (b1 % 16) * 256 + b2
  <2>1. d = DecodeFS34(db[ShortOpcode(b0)].mnemonic, b0, b1, b2, b3)
    BY <1>1 DEF Decode
  <2>2. d.format = "FS34"
    BY <2>1 DEF DecodeFS34
  <2>3. short \in Nat /\ (b1 % 128) * 256 + b2 \in Nat /\ short * 256 + b3 \in Nat
    OBVIOUS
  <2>4. d.address \in Nat
    BY <2>1, <2>3 DEF DecodeFS34
  <2>5. QED
    BY <2>2, <2>4 DEF Format
<1>2. CASE ~FindsShort(db, b0) /\ b0 \notin DOMAIN db
  BY <1>2 DEF Decode, NoInstruction
<1>3. CASE ~FindsShort(db, b0) /\ b0 \in DOMAIN db /\ db[b0].format = "F1"
  BY <1>3 DEF Decode, Format
<1>4. CASE ~FindsShort(db, b0) /\ b0 \in DOMAIN db /\ db[b0].format # "F1"
  <2>1. d = [format |-> "F2", mnemonic |-> db[b0].mnemonic, r1 |-> b1 \div 16, r2 |-> b1 % 16]
    BY <1>4 DEF Decode
  <2>2. b1 % 16 \in 0 .. 15
    OBVIOUS
  <2>3. QED
    BY <2>1, <2>2 DEF Format
<1>5. QED
  BY <1>1, <1>2, <1>3, <1>4

LEMMA InstanceType ==
  ASSUME TypeOK
  PROVE  /\ Instance.format = "FS34" => Instance.address \in Nat
         /\ Instance.format = "F2" => R2 \in 0 .. 15
         /\ Instance = NoInstruction \/ Instance.format \in Format
<1>1. \A k \in Int : memory[Cell(program_counter, k)] \in Nat
  <2>1. program_counter \in Int /\ memory \in [Address -> Nat]
    BY DEF TypeOK, Address, Byte
  <2>2. \A k \in Int : Cell(program_counter, k) \in Address
    BY <2>1, CellType
  <2>3. QED
    BY <2>1, <2>2
<1>2. QED
  BY <1>1, DecodeType DEF Instance, R2

LEMMA NextProgramCounterType ==
  ASSUME TypeOK, Instance.format \in Format
  PROVE  /\ InstructionLength(Instance) \in 1 .. 4
         /\ NextProgramCounter \in Address
<1>1. InstructionLength(Instance) \in 1 .. 4
  BY DEF InstructionLength, Format
<1>2. program_counter \in Int
  BY DEF TypeOK, Address
<1>3. QED
  BY <1>1, <1>2, TrimAddressType DEF NextProgramCounter

LEMMA TargetAddressType ==
  ASSUME TypeOK, Instance.format = "FS34"
  PROVE  /\ DirectAddress \in Word
         /\ TargetAddress \in Word
<1>1. /\ Instance.address \in Nat
      /\ NextProgramCounter \in Int
      /\ registers[REG_B] \in Int /\ registers[REG_X] \in Int
  BY InstanceType, NextProgramCounterType, Sizes
  DEF TypeOK, Format, Address, Word, RegisterId, REG_B, REG_X
<1>2. SignExtendF3Operand(Instance.address) \in Int
  BY <1>1, Sizes DEF SignExtendF3Operand
<1>3. DirectAddress \in Word
  BY <1>1, <1>2, TrimWordType DEF DirectAddress
<1>4. ReadMemoryWord(memory, DirectAddress) \in Word
  BY <1>3, ReadMemoryWordType DEF TypeOK, Memory, Word
<1>5. QED
  BY <1>3, <1>4 DEF TargetAddress

LEMMA OperandType ==
  ASSUME TypeOK, Instance.format = "FS34"
  PROVE  /\ WordOperand \in Word
         /\ ByteOperand \in Byte
         /\ FloatOperand \in FloatData
<1>1. TargetAddress \in Word /\ TargetAddress \in Int
  BY TargetAddressType DEF Word
<1>2. memory \in Memory
  BY DEF TypeOK, Memory
<1>3. TargetAddress % ByteSize \in Byte
  BY <1>1, Sizes DEF Byte
<1>4. QED
  BY <1>1, <1>2, <1>3, ReadMemoryWordType, ReadMemoryByteType, ReadMemoryFloatType
  DEF WordOperand, ByteOperand, FloatOperand

-----------------------------------------------------------------------------
(***************************************************************************)
(* Results of the arithmetic.                                              *)
(***************************************************************************)
Operation == {"ADD", "SUB", "MUL", "DIV", "AND", "OR", "XOR"}

LEMMA QuotientType ==
  ASSUME NEW a \in Int, NEW b \in Int, b # 0
  PROVE  Quotient(a, b) \in Int
<1> DEFINE p == IF a < 0 THEN -a ELSE a
           q == IF b < 0 THEN -b ELSE b
<1>1. p \in Int /\ q \in Nat /\ q > 0
  OBVIOUS
<1> HIDE DEF p, q
<1>2. p \div q \in Int
  BY <1>1
<1>3. QED
  BY <1>2 DEF Quotient, p, q

LEMMA ArithmeticType ==
  ASSUME BitwiseOnWords, NEW operation \in Operation, NEW a \in Word, NEW b \in Word,
         ~(operation = "DIV" /\ b = 0)
  PROVE  Arithmetic(operation, a, b) \in Word
<1> DEFINE sa == SignExtendWord(a)
           sb == SignExtendWord(b)
<1>1. sa \in Int /\ sb \in Int
  BY SignExtendWordType
<1>2. CASE operation = "DIV"
  <2>1. sb # 0
    BY <1>2, SignExtendWordType
  <2>2. Quotient(sa, sb) \in Int
    BY <1>1, <2>1, QuotientType
  <2>3. QED
    BY <1>2, <2>2, TrimWordType DEF Arithmetic
<1>3. CASE operation \in {"AND", "OR", "XOR"}
  BY <1>3 DEF Arithmetic, BitwiseOnWords
<1>4. CASE operation \in {"ADD", "SUB", "MUL"}
  <2>1. sa + sb \in Int /\ sa - sb \in Int /\ sa * sb \in Int
    BY <1>1
  <2>2. QED
    BY <1>4, <2>1, TrimWordType DEF Arithmetic
<1>5. QED
  BY <1>2, <1>3, <1>4 DEF Operation

-----------------------------------------------------------------------------
(***************************************************************************)
(* Type correctness.  The state is what an instruction's outcome changes   *)
(* (CoreOK) and the rest, which Execute changes around it (HiddenOK).      *)
(***************************************************************************)
CoreOK ==
  /\ program_counter \in Address
  /\ registers \in [RegisterId -> Word]
  /\ float_register \in FloatData
  /\ condition_code \in ConditionId
  /\ interrupt_link \in Address
  /\ interrupt_condition_code \in ConditionId
  /\ memory \in [Address -> Byte]
  /\ devices \in [DeviceIds -> DeviceState]
  /\ result \in ResultId

HiddenOK ==
  /\ interrupt_enabled \in BOOLEAN
  /\ target_address \in Word
  /\ interrupt_enable_next \in BOOLEAN

LEMMA TypeParts == TypeOK <=> CoreOK /\ HiddenOK
  BY DEF TypeOK, CoreOK, HiddenOK

LEMMA TypePartsNext == TypeOK' <=> CoreOK' /\ HiddenOK'
  BY DEF TypeOK, CoreOK, HiddenOK

\* Each way an instruction ends keeps CoreOK when it is given typed values.
LEMMA FailType ==
  ASSUME TypeOK, NEW e \in ResultId, Fail(e)
  PROVE  CoreOK'
  BY DEF TypeOK, CoreOK, Fail, cpu_vars

LEMMA SetRegisterType ==
  ASSUME TypeOK, Instance.format \in Format, NEW r \in RegisterId, NEW v \in Word,
         SetRegister(r, v)
  PROVE  CoreOK'
  BY NextProgramCounterType DEF TypeOK, CoreOK, SetRegister, Proceed, ResultId

LEMMA SetFloatRegisterType ==
  ASSUME TypeOK, Instance.format \in Format, NEW v \in FloatData, SetFloatRegister(v)
  PROVE  CoreOK'
  BY NextProgramCounterType DEF TypeOK, CoreOK, SetFloatRegister, Proceed, ResultId

LEMMA SetConditionCodeType ==
  ASSUME TypeOK, Instance.format \in Format, NEW c \in ConditionId, SetConditionCode(c)
  PROVE  CoreOK'
  BY NextProgramCounterType DEF TypeOK, CoreOK, SetConditionCode, Proceed, ResultId

LEMMA SetMemoryType ==
  ASSUME TypeOK, Instance.format \in Format, NEW m \in Memory, SetMemory(m)
  PROVE  CoreOK'
  BY NextProgramCounterType DEF TypeOK, CoreOK, SetMemory, Proceed, ResultId, Memory

LEMMA JumpToType ==
  ASSUME TypeOK, NEW a \in Address, JumpTo(a)
  PROVE  CoreOK'
  BY DEF TypeOK, CoreOK, JumpTo, ResultId

LEMMA ComparisonType ==
  \A a, b : Comparison(a, b) \in ConditionId
  BY DEF Comparison, ConditionId

LEMMA ArithmeticResultType ==
  ASSUME BitwiseOnWords, TypeOK, Instance.format \in Format, NEW operation \in Operation,
         NEW r \in RegisterId, NEW b \in Word, ArithmeticResult(operation, r, b)
  PROVE  CoreOK'
<1>1. CASE operation = "DIV" /\ b = 0
  BY <1>1, FailType DEF ArithmeticResult, ResultId
<1>2. CASE ~(operation = "DIV" /\ b = 0)
  <2>1. registers[r] \in Word
    BY DEF TypeOK
  <2>2. Arithmetic(operation, registers[r], b) \in Word
    BY <1>2, <2>1, ArithmeticType
  <2>3. SetRegister(r, Arithmetic(operation, registers[r], b))
    BY <1>2 DEF ArithmeticResult
  <2>4. QED
    BY <2>2, <2>3, SetRegisterType
<1>3. QED
  BY <1>1, <1>2

LEMMA IncrementCompareType ==
  ASSUME TypeOK, Instance.format \in Format, NEW operand, IncrementCompare(operand)
  PROVE  CoreOK'
<1> DEFINE x == TrimWord(registers[REG_X] + 1)
<1>1. registers[REG_X] \in Int
  BY DEF TypeOK, Word, RegisterId, REG_X
<1>2. x \in Word
  BY <1>1, TrimWordType
<1>3. Comparison(SignExtendWord(x), SignExtendWord(operand)) \in ConditionId
  BY ComparisonType
<1> HIDE DEF x
<1>4. /\ registers' = [registers EXCEPT ![REG_X] = x]
      /\ condition_code' = Comparison(SignExtendWord(x), SignExtendWord(operand))
      /\ Proceed
      /\ UNCHANGED <<float_register, memory, devices>>
  BY DEF IncrementCompare, x
<1>5. QED
  BY <1>2, <1>3, <1>4, NextProgramCounterType
  DEF TypeOK, CoreOK, Proceed, ResultId

\* Registers named by an F2 instruction that passed the check hold words.
LEMMA RegisterFieldType ==
  ASSUME TypeOK, NEW r \in RegisterId
  PROVE  registers[r] \in Word /\ registers[r] \in Int
  BY DEF TypeOK, Word

LEMMA ExecuteF1Type ==
  ASSUME TypeOK, ExecuteF1
  PROVE  TypeOK'
<1>1. Instance.format \in Format /\ target_address' = target_address
  BY DEF ExecuteF1, Format
<1>2. NextProgramCounter \in Address
  BY <1>1, NextProgramCounterType
<1>3. CASE InterruptEnable
  BY <1>1, <1>2, <1>3 DEF InterruptEnable, TypeOK, EnabledNow, Proceed, ResultId
<1>4. CASE InterruptDisable
  BY <1>1, <1>2, <1>4 DEF InterruptDisable, TypeOK, Proceed, ResultId
<1>5. CASE InterruptReturn
  BY <1>1, <1>5 DEF InterruptReturn, DelayedInterruptEnable, EnabledNow, TypeOK, ResultId
<1>6. CASE FloatToInt /\ DelayedInterruptEnable
  <2>1. PICK v \in FixResults : SetRegister(REG_A, v)
    BY <1>6 DEF FloatToInt
  <2>2. v \in Word
    BY MachineAssumption
  <2>3. CoreOK'
    BY <1>1, <2>1, <2>2, SetRegisterType DEF REG_A, RegisterId
  <2>4. HiddenOK'
    BY <1>1, <1>6 DEF TypeOK, HiddenOK, DelayedInterruptEnable, EnabledNow
  <2>5. QED
    BY <2>3, <2>4, TypePartsNext
<1>7. CASE IntToFloat /\ DelayedInterruptEnable
  <2>1. PICK v \in FloatResults : SetFloatRegister(v)
    BY <1>7 DEF IntToFloat
  <2>2. v \in FloatData
    BY MachineAssumption
  <2>3. CoreOK'
    BY <1>1, <2>1, <2>2, SetFloatRegisterType
  <2>4. HiddenOK'
    BY <1>1, <1>7 DEF TypeOK, HiddenOK, DelayedInterruptEnable, EnabledNow
  <2>5. QED
    BY <2>3, <2>4, TypePartsNext
<1>8. QED
  BY <1>3, <1>4, <1>5, <1>6, <1>7 DEF ExecuteF1

\* The bookkeeping of an instruction that leaves the target address alone.
LEMMA HiddenType ==
  ASSUME TypeOK, DelayedInterruptEnable,
         target_address' = target_address \/ target_address' \in Word
  PROVE  HiddenOK'
  BY DEF TypeOK, HiddenOK, DelayedInterruptEnable, EnabledNow

LEMMA ExecuteF2Type ==
  ASSUME BitwiseOnWords, TypeOK, ExecuteF2
  PROVE  TypeOK'
<1>1. Instance.format \in Format /\ R2 \in 0 .. 15
  BY InstanceType DEF ExecuteF2, Format
<1>2. HiddenOK'
  BY HiddenType DEF ExecuteF2
<1>3. CoreOK'
  <2>1. CASE InvalidRegister /\ Fail("INVALID_ADDRESSING")
    BY <2>1, FailType DEF ResultId
  <2>2. CASE ArithmeticReg
    <3>1. ArithmeticRegOperation[Instance.mnemonic] \in Operation
      BY <2>2 DEF ArithmeticReg, Is, ArithmeticRegOperation, Operation
    <3>2. R2 \in RegisterId /\ registers[R1] \in Word
      BY <2>2, RegisterFieldType DEF ArithmeticReg
    <3>3. ArithmeticResult(ArithmeticRegOperation[Instance.mnemonic], R2, registers[R1])
      BY <2>2 DEF ArithmeticReg
    <3>4. QED
      BY <1>1, <3>1, <3>2, <3>3, ArithmeticResultType
  <2>3. CASE RegisterNegate
    <3>1. R1 \in RegisterId /\ SetRegister(R1, WordSize - 1 - registers[R1])
      BY <2>3 DEF RegisterNegate
    <3>2. WordSize - 1 - registers[R1] \in Word
      BY <3>1, RegisterFieldType, Sizes DEF Word
    <3>3. QED
      BY <1>1, <3>1, <3>2, SetRegisterType
  <2>4. CASE Shift
    <3> DEFINE value == SignExtendWord(registers[R1])
               factor == PowerOfTwo[R2 + 1]
    <3>1. R1 \in RegisterId
      BY <2>4 DEF Shift
    <3>2. value \in Int
      BY <3>1, RegisterFieldType, SignExtendWordType
    <3>3. factor \in Nat /\ factor > 0
      <4>1. R2 + 1 \in 1 .. 16
        BY <1>1
      <4>2. \A k \in 1 .. 16 : PowerOfTwo[k] \in Nat /\ PowerOfTwo[k] > 0
        BY DEF PowerOfTwo
      <4>3. QED
        BY <4>1, <4>2
    <3>4. SetRegister(R1, TrimWord(value * factor)) \/ SetRegister(R1, TrimWord(value \div factor))
      BY <2>4 DEF Shift
    <3> HIDE DEF value, factor
    <3>5. TrimWord(value * factor) \in Word /\ TrimWord(value \div factor) \in Word
      <4>1. value * factor \in Int /\ value \div factor \in Int
        BY <3>2, <3>3
      <4>2. QED
        BY <4>1, TrimWordType
    <3>6. QED
      BY <1>1, <3>1, <3>4, <3>5, SetRegisterType
  <2>5. CASE ClearReg
    <3>1. 0 \in Word
      BY Sizes DEF Word
    <3>2. QED
      BY <1>1, <2>5, <3>1, SetRegisterType DEF ClearReg
  <2>6. CASE MoveReg
    BY <1>1, <2>6, RegisterFieldType, SetRegisterType DEF MoveReg
  <2>7. CASE CompareReg
    BY <1>1, <2>7, ComparisonType, SetConditionCodeType DEF CompareReg
  <2>8. CASE IncrementCompareReg
    BY <1>1, <2>8, IncrementCompareType DEF IncrementCompareReg
  <2>9. QED
    BY <2>1, <2>2, <2>3, <2>4, <2>5, <2>6, <2>7, <2>8 DEF ExecuteF2
<1>4. QED
  BY <1>2, <1>3, TypePartsNext

LEMMA ExecuteInvalidOpcodeType ==
  ASSUME TypeOK, ExecuteInvalidOpcode
  PROVE  TypeOK'
  BY FailType, HiddenType, TypePartsNext DEF ExecuteInvalidOpcode, ResultId

LEMMA ExecuteInvalidAddressingType ==
  ASSUME TypeOK, ExecuteInvalidAddressing
  PROVE  TypeOK'
  BY FailType, HiddenType, TypePartsNext DEF ExecuteInvalidAddressing, ResultId

\* Stores: the outcome is a memory.
LEMMA StoresType ==
  ASSUME TypeOK, Instance.format = "FS34",
         StoreWord \/ StoreByte \/ StoreFlags \/ StoreFloat \/ InterruptLinkStore
  PROVE  CoreOK'
<1>1. Instance.format \in Format /\ memory \in Memory /\ TargetAddress \in Int
  BY TargetAddressType DEF Format, TypeOK, Memory, Word
<1>2. \A r \in RegisterId : registers[r] \in Int
  BY DEF TypeOK, Word
<1>3. CASE StoreWord
  <2>1. StoreWordRegister[Instance.mnemonic] \in RegisterId
    BY <1>3 DEF StoreWord, Is, StoreWordRegister, RegisterId, REG_A, REG_X, REG_L,
                REG_B, REG_S, REG_T
  <2>2. QED
    BY <1>1, <1>2, <1>3, <2>1, WriteMemoryWordType, SetMemoryType DEF StoreWord
<1>4. CASE StoreByte
  BY <1>1, <1>2, <1>4, WriteMemoryByteType, SetMemoryType DEF StoreByte, RegisterId, REG_A
<1>5. CASE StoreFlags
  BY <1>1, <1>5, WriteMemoryByteType, SetMemoryType DEF StoreFlags, StatusWord
<1>6. CASE StoreFloat
  BY <1>1, <1>6, WriteMemoryFloatType, SetMemoryType DEF StoreFloat, TypeOK
<1>7. CASE InterruptLinkStore
  <2>1. interrupt_link \in Int
    BY DEF TypeOK, Address
  <2>2. QED
    BY <1>1, <1>7, <2>1, WriteMemoryWordType, SetMemoryType DEF InterruptLinkStore
<1>8. QED
  BY <1>3, <1>4, <1>5, <1>6, <1>7

\* Jumps: the outcome is an address.
LEMMA JumpsType ==
  ASSUME TypeOK, Instance.format = "FS34", Jump \/ JumpConditional \/ Return
  PROVE  CoreOK'
<1>1. Instance.format \in Format
  BY DEF Format
<1>2. /\ NextProgramCounter \in Address
      /\ TrimAddress(TargetAddress) \in Address
      /\ TrimAddress(registers[REG_L]) \in Address
  BY <1>1, NextProgramCounterType, TargetAddressType, TrimAddressType
  DEF TypeOK, Word, RegisterId, REG_L
<1>3. CASE Jump
  <2>1. CASE JumpsToItself
    BY <1>3, <2>1, FailType DEF Jump, ResultId
  <2>2. CASE ~JumpsToItself
    <3>1. NextProgramCounter \in Word /\ REG_L \in RegisterId
      BY <1>2, Sizes DEF RegisterId, REG_L
    <3>2. QED
      BY <1>2, <1>3, <2>2, <3>1 DEF Jump, TypeOK, CoreOK, ResultId
  <2>3. QED
    BY <2>1, <2>2
<1>4. CASE JumpConditional
  BY <1>2, <1>4, JumpToType DEF JumpConditional
<1>5. CASE Return
  BY <1>2, <1>5, JumpToType DEF Return
<1>6. QED
  BY <1>3, <1>4, <1>5

\* Device instructions.
LEMMA DevicesType ==
  ASSUME TypeOK, Instance.format = "FS34", TestDevice \/ ReadDevice \/ WriteDevice
  PROVE  CoreOK'
<1>1. Instance.format \in Format /\ NextProgramCounter \in Address
  BY NextProgramCounterType DEF Format
<1> DEFINE d == ByteOperand
<1>2. CASE TestDevice
  BY <1>1, <1>2, SetConditionCodeType DEF TestDevice, ConditionId
<1>3. CASE ReadSucceeds(d)
  <2>1. PICK value \in InputBytes \cup {0} : registers' = [registers EXCEPT ![REG_A] = value]
    BY <1>3 DEF ReadSucceeds
  <2>2. value \in Word
    BY MachineAssumption, Sizes DEF Word
  <2>3. devices' \in [DeviceIds -> DeviceState]
    BY <1>3 DEF ReadSucceeds, TypeOK, DeviceState
  <2>4. QED
    BY <1>1, <1>3, <2>1, <2>2, <2>3 DEF ReadSucceeds, Proceed, TypeOK, CoreOK, ResultId
<1>4. CASE WriteSucceeds(d)
  <2>1. devices' \in [DeviceIds -> DeviceState]
    BY <1>4 DEF WriteSucceeds, TypeOK, DeviceState
  <2>2. QED
    BY <1>1, <1>4, <2>1 DEF WriteSucceeds, Proceed, TypeOK, CoreOK, ResultId
<1>5. CASE Fail("DEVICE_ERROR")
  BY <1>5, FailType DEF ResultId
<1>6. QED
  BY <1>2, <1>3, <1>4, <1>5 DEF ReadDevice, WriteDevice

\* Loads, arithmetic and comparisons: the outcome is in a register.
LEMMA LoadsType ==
  ASSUME BitwiseOnWords, TypeOK, Instance.format = "FS34",
         \/ LoadWord \/ LoadByte \/ LoadFloat
         \/ ArithmeticMem \/ CompareMem \/ IncrementCompareMem
         \/ FloatArithmetic \/ FloatCompare
  PROVE  CoreOK'
<1>1. Instance.format \in Format
  BY DEF Format
<1>2. WordOperand \in Word /\ ByteOperand \in Word /\ FloatOperand \in FloatData
  BY OperandType, Sizes
<1>3. CASE LoadWord
  <2>1. LoadWordRegister[Instance.mnemonic] \in RegisterId
    BY <1>3 DEF LoadWord, Is, LoadWordRegister, RegisterId, REG_A, REG_X, REG_L,
                REG_B, REG_S, REG_T
  <2>2. QED
    BY <1>1, <1>2, <1>3, <2>1, SetRegisterType DEF LoadWord
<1>4. CASE LoadByte
  BY <1>1, <1>2, <1>4, SetRegisterType DEF LoadByte, RegisterId, REG_A
<1>5. CASE LoadFloat
  BY <1>1, <1>2, <1>5, SetFloatRegisterType DEF LoadFloat
<1>6. CASE ArithmeticMem
  <2>1. ArithmeticMemOperation[Instance.mnemonic] \in Operation
    BY <1>6 DEF ArithmeticMem, Is, ArithmeticMemOperation, Operation
  <2>2. ArithmeticResult(ArithmeticMemOperation[Instance.mnemonic], REG_A, WordOperand)
    BY <1>6 DEF ArithmeticMem
  <2>3. REG_A \in RegisterId
    BY DEF RegisterId, REG_A
  <2>4. QED
    BY <1>1, <1>2, <2>1, <2>2, <2>3, ArithmeticResultType
<1>7. CASE CompareMem
  BY <1>1, <1>7, ComparisonType, SetConditionCodeType DEF CompareMem
<1>8. CASE IncrementCompareMem
  BY <1>1, <1>8, IncrementCompareType DEF IncrementCompareMem
<1>9. CASE FloatArithmetic
  <2>1. PICK v \in FloatResults : SetFloatRegister(v)
    BY <1>9 DEF FloatArithmetic
  <2>2. QED
    BY <1>1, <2>1, MachineAssumption, SetFloatRegisterType
<1>10. CASE FloatCompare
  BY <1>1, <1>10, SetConditionCodeType DEF FloatCompare
<1>11. QED
  BY <1>3, <1>4, <1>5, <1>6, <1>7, <1>8, <1>9, <1>10

LEMMA ExecuteFS34Type ==
  ASSUME BitwiseOnWords, TypeOK, ExecuteFS34
  PROVE  TypeOK'
<1>1. Instance.format = "FS34"
  BY DEF ExecuteFS34
<1>2. HiddenOK'
  BY <1>1, TargetAddressType, HiddenType DEF ExecuteFS34
<1>3. NeedsMemoryOperand /\ IsImmediateAddressing /\ Fail("INVALID_ADDRESSING") => CoreOK'
  BY FailType DEF ResultId
<1>4. CoreOK'
  BY <1>1, <1>3, LoadsType, StoresType, JumpsType, DevicesType DEF ExecuteFS34
<1>5. QED
  BY <1>2, <1>4, TypePartsNext

LEMMA InterruptType ==
  ASSUME TypeOK, Interrupt
  PROVE  TypeOK'
<1>1. AddressSize - 3 \in Int
  BY Sizes
<1>2. ReadMemoryWord(memory, AddressSize - 3) \in Word
  BY <1>1, ReadMemoryWordType DEF TypeOK, Memory
<1>3. InterruptVector \in Address
  BY <1>2, TrimAddressType DEF InterruptVector, Word
<1>4. QED
  BY <1>3 DEF Interrupt, TypeOK, ResultId

\* The state that a reset and a new machine have in common.
LEMMA ClearedType ==
  /\ 0 \in Address /\ 0 \in Word /\ 0 \in Byte
  /\ [r \in RegisterId |-> 0] \in [RegisterId -> Word]
  /\ ZeroFloat \in FloatData
  /\ [a \in Address |-> 0] \in [Address -> Byte]
<1>1. 0 \in Address /\ 0 \in Word /\ 0 \in Byte
  BY Sizes DEF Address, Word, Byte
<1>2. QED
  BY <1>1 DEF ZeroFloat, FloatData

LEMMA ResetType ==
  ASSUME TypeOK, Reset
  PROVE  TypeOK'
  BY ClearedType DEF Reset, TypeOK, ConditionId, ResultId

LEMMA SetDeviceType ==
  ASSUME TypeOK, NEW d \in DeviceIds, NEW device \in NewDevice, SetDevice(d, device)
  PROVE  TypeOK'
  BY DEF SetDevice, TypeOK, NewDevice, DeviceState, ResultId, cpu_vars, hidden_vars

LEMMA ExecuteType ==
  ASSUME BitwiseOnWords, TypeOK, Execute
  PROVE  TypeOK'
  BY ExecuteInvalidOpcodeType, ExecuteF1Type, ExecuteF2Type,
     ExecuteInvalidAddressingType, ExecuteFS34Type DEF Execute

LEMMA InitType == Init => TypeOK
  BY ClearedType, MachineAssumption
  DEF Init, InitWith, TypeOK, ConditionId, ResultId, DeviceState

LEMMA NextType ==
  ASSUME BitwiseOnWords, TypeOK, [Next]_vars
  PROVE  TypeOK'
<1>1. CASE Next
  BY <1>1, ExecuteType, InterruptType, ResetType, SetDeviceType DEF Next
<1>2. CASE UNCHANGED vars
  BY <1>2 DEF vars, cpu_vars, hidden_vars, TypeOK
<1>3. QED
  BY <1>1, <1>2

\* Whatever bytes a program is made of, the program counter and the interrupt
\* link stay addresses, the registers words and the memory bytes: no instruction,
\* interrupt, reset or device change leaves a value that its field has no room
\* for, although the C++ fields are wider than the values.
THEOREM TypeCorrect ==
  ASSUME BitwiseOnWords
  PROVE  Spec => []TypeOK
<1>1. TypeOK /\ [Next]_vars => TypeOK'
  BY NextType
<1>2. QED
  BY <1>1, InitType, PTL DEF Spec

-----------------------------------------------------------------------------
(***************************************************************************)
(* The endless loop check.                                                 *)
(***************************************************************************)
\* Only Jump executes J and JSUB with an operand in memory.
LEMMA OnlyJump ==
  ASSUME Execute, Instance.format = "FS34", ValidAddressing, Is({"J", "JSUB"}),
         ~IsImmediateAddressing
  PROVE  Jump
<1>1. Instance.mnemonic \in {"J", "JSUB"}
  BY DEF Is
<1>2. Instance # NoInstruction
  BY DEF NoInstruction
<1>3. ExecuteFS34
  BY <1>2 DEF Execute, ExecuteInvalidOpcode, ExecuteF1, ExecuteF2, ExecuteInvalidAddressing
<1>4. ~(LoadWord \/ LoadByte \/ LoadFloat \/ ArithmeticMem)
  BY <1>1 DEF LoadWord, LoadByte, LoadFloat, ArithmeticMem, Is, LoadWordRegister,
              ArithmeticMemOperation
<1>5. ~(CompareMem \/ IncrementCompareMem \/ FloatArithmetic \/ FloatCompare)
  BY <1>1 DEF CompareMem, IncrementCompareMem, FloatArithmetic, FloatCompare, Is
<1>6. ~(StoreWord \/ StoreByte \/ StoreFlags \/ StoreFloat \/ InterruptLinkStore)
  BY <1>1 DEF StoreWord, StoreByte, StoreFlags, StoreFloat, InterruptLinkStore, Is,
              StoreWordRegister
<1>7. ~(JumpConditional \/ Return \/ TestDevice \/ ReadDevice \/ WriteDevice)
  BY <1>1 DEF JumpConditional, Return, TestDevice, ReadDevice, WriteDevice, Is, JumpCondition
<1>8. QED
  BY <1>3, <1>4, <1>5, <1>6, <1>7 DEF ExecuteFS34

LEMMA LoopExactly ==
  ASSUME TypeOK, Execute, Instance.format = "FS34", ValidAddressing, Is({"J", "JSUB"}),
         ~IsImmediateAddressing
  PROVE  result' = "ENDLESS_LOOP" <=> TrimAddress(TargetAddress) = program_counter
<1> DEFINE length == IF Instance.e THEN 4 ELSE 3
           target == TrimAddress(TargetAddress)
<1>1. Jump
  BY OnlyJump
<1>2. length = InstructionLength(Instance) /\ length \in 0 .. 5
  BY DEF InstructionLength
<1>3. target \in Address /\ program_counter \in Address
  BY TargetAddressType, TrimAddressType DEF TypeOK, Word
<1>4. JumpsToItself <=> TrimAddress(target + length) = TrimAddress(program_counter + length)
  BY <1>2 DEF JumpsToItself, NextProgramCounter
<1> HIDE DEF length, target
<1>5. JumpsToItself <=> target = program_counter
  BY <1>2, <1>3, <1>4, AddressShift
<1>6. result' = IF JumpsToItself THEN "ENDLESS_LOOP" ELSE "OK"
  BY <1>1 DEF Jump, Fail
<1>7. QED
  BY <1>5, <1>6 DEF target

\* J and JSUB report an endless loop exactly when their target is the address
\* they are at, whatever the length of the instruction, the size of the memory
\* and the bits of the target above the address.
THEOREM LoopCheckExact ==
  ASSUME BitwiseOnWords
  PROVE  Spec => EndlessLoopIsExact
<1>1. TypeOK /\ [Next]_vars =>
        [Execute /\ Instance.format = "FS34" /\ ValidAddressing /\ Is({"J", "JSUB"})
           /\ ~IsImmediateAddressing
           => (result' = "ENDLESS_LOOP" <=> TrimAddress(TargetAddress) = program_counter)]_vars
  BY LoopExactly
<1>2. QED
  BY <1>1, TypeCorrect, PTL DEF Spec, EndlessLoopIsExact

-----------------------------------------------------------------------------
(***************************************************************************)
(* A stuck machine.  Why an instruction fails can be read off the state it *)
(* leaves behind, since a failure changes nothing the decision looks at.   *)
(***************************************************************************)
OpcodeInvalid == Instance = NoInstruction

AddressingInvalid ==
  \/ Instance.format = "F2" /\ InvalidRegister
  \/ Instance.format = "FS34" /\ ~ValidAddressing
  \/ Instance.format = "FS34" /\ NeedsMemoryOperand /\ IsImmediateAddressing

LoopEndless ==
  /\ Instance.format = "FS34" /\ ValidAddressing
  /\ Is({"J", "JSUB"}) /\ ~IsImmediateAddressing
  /\ JumpsToItself

ReasonHolds ==
  /\ result = "INVALID_OPCODE" => OpcodeInvalid
  /\ result = "INVALID_ADDRESSING" => AddressingInvalid
  /\ result = "ENDLESS_LOOP" => LoopEndless

Unchanged == UNCHANGED <<cpu_vars, memory, devices>>

\* The reasons look only at the CPU and the memory.
LEMMA ReasonsKept ==
  ASSUME Unchanged
  PROVE  /\ OpcodeInvalid' <=> OpcodeInvalid
         /\ AddressingInvalid' <=> AddressingInvalid
         /\ LoopEndless' <=> LoopEndless
<1>1. /\ program_counter' = program_counter /\ registers' = registers
      /\ memory' = memory
  BY DEF Unchanged, cpu_vars
<1>2. Instance' = Instance
  BY <1>1 DEF Instance
<1>3. NextProgramCounter' = NextProgramCounter
  BY <1>1, <1>2 DEF NextProgramCounter
<1>4. DirectAddress' = DirectAddress
  BY <1>1, <1>2, <1>3 DEF DirectAddress
<1>5. TargetAddress' = TargetAddress
  BY <1>1, <1>2, <1>4 DEF TargetAddress
<1>6. JumpsToItself' <=> JumpsToItself
  BY <1>2, <1>3, <1>5 DEF JumpsToItself
<1>7. /\ ValidAddressing' <=> ValidAddressing
      /\ IsImmediateAddressing' <=> IsImmediateAddressing
      /\ InvalidRegister' <=> InvalidRegister
      /\ NeedsMemoryOperand' <=> NeedsMemoryOperand
      /\ Is({"J", "JSUB"})' <=> Is({"J", "JSUB"})
  BY <1>2 DEF ValidAddressing, IsImmediateAddressing, InvalidRegister, NeedsMemoryOperand,
              Is, R1, R2
<1>8. QED
  BY <1>2, <1>6, <1>7 DEF OpcodeInvalid, AddressingInvalid, LoopEndless

Stuck == {"INVALID_OPCODE", "INVALID_ADDRESSING", "ENDLESS_LOOP"}

\* An instruction that ends any other way than by Fail does not report one of
\* the three errors.
LEMMA OutcomesNotStuck ==
  /\ Proceed => result' \notin Stuck
  /\ \A r, v : SetRegister(r, v) => result' \notin Stuck
  /\ \A v : SetFloatRegister(v) => result' \notin Stuck
  /\ \A c : SetConditionCode(c) => result' \notin Stuck
  /\ \A m : SetMemory(m) => result' \notin Stuck
  /\ \A a : JumpTo(a) => result' \notin Stuck
  /\ \A o, r, b : ArithmeticResult(o, r, b) => result' \notin Stuck
  /\ \A v : IncrementCompare(v) => result' \notin Stuck
  /\ Fail("DEVICE_ERROR") => result' \notin Stuck
  BY DEF Proceed, SetRegister, SetFloatRegister, SetConditionCode, SetMemory, JumpTo,
         ArithmeticResult, IncrementCompare, Fail, Stuck

LEMMA F1NotStuck ==
  ASSUME ExecuteF1
  PROVE  result' \notin Stuck
  BY OutcomesNotStuck
  DEF ExecuteF1, InterruptEnable, InterruptDisable, InterruptReturn, FloatToInt,
      IntToFloat, Stuck

LEMMA F2NotStuck ==
  ASSUME ArithmeticReg \/ RegisterNegate \/ Shift \/ ClearReg \/ MoveReg \/ CompareReg
         \/ IncrementCompareReg
  PROVE  result' \notin Stuck
  BY OutcomesNotStuck
  DEF ArithmeticReg, RegisterNegate, Shift, ClearReg, MoveReg, CompareReg,
      IncrementCompareReg

LEMMA FS34NotStuck ==
  ASSUME \/ LoadWord \/ LoadByte \/ LoadFloat \/ ArithmeticMem \/ CompareMem
         \/ IncrementCompareMem \/ FloatArithmetic \/ FloatCompare
         \/ StoreWord \/ StoreByte \/ StoreFlags \/ StoreFloat \/ InterruptLinkStore
         \/ JumpConditional \/ Return \/ TestDevice \/ ReadDevice \/ WriteDevice
  PROVE  result' \notin Stuck
<1>1. LoadWord \/ LoadByte \/ LoadFloat \/ ArithmeticMem => result' \notin Stuck
  BY OutcomesNotStuck DEF LoadWord, LoadByte, LoadFloat, ArithmeticMem
<1>2. CompareMem \/ IncrementCompareMem \/ FloatArithmetic \/ FloatCompare
        => result' \notin Stuck
  BY OutcomesNotStuck DEF CompareMem, IncrementCompareMem, FloatArithmetic, FloatCompare
<1>3. StoreWord \/ StoreByte \/ StoreFlags \/ StoreFloat \/ InterruptLinkStore
        => result' \notin Stuck
  BY OutcomesNotStuck DEF StoreWord, StoreByte, StoreFlags, StoreFloat, InterruptLinkStore
<1>4. JumpConditional \/ Return \/ TestDevice \/ ReadDevice \/ WriteDevice
        => result' \notin Stuck
  BY OutcomesNotStuck
  DEF JumpConditional, Return, TestDevice, ReadDevice, WriteDevice, ReadSucceeds,
      WriteSucceeds
<1>5. QED
  BY <1>1, <1>2, <1>3, <1>4

\* One of the three errors is reported for its reason, and nothing but the
\* interrupt enables and the target address changes.
LEMMA FailureHasReason ==
  ASSUME Execute, result' \in Stuck
  PROVE  /\ Unchanged
         /\ result' = "INVALID_OPCODE" => OpcodeInvalid
         /\ result' = "INVALID_ADDRESSING" => AddressingInvalid
         /\ result' = "ENDLESS_LOOP" => LoopEndless
<1>1. CASE ExecuteInvalidOpcode
  BY <1>1 DEF ExecuteInvalidOpcode, Fail, Unchanged, OpcodeInvalid
<1>2. CASE ExecuteF1
  BY <1>2, F1NotStuck
<1>3. CASE ExecuteF2
  <2>1. Instance.format = "F2" /\ InvalidRegister /\ Fail("INVALID_ADDRESSING")
    BY <1>3, F2NotStuck DEF ExecuteF2
  <2>2. QED
    BY <2>1 DEF Fail, Unchanged, AddressingInvalid
<1>4. CASE ExecuteInvalidAddressing
  BY <1>4 DEF ExecuteInvalidAddressing, Fail, Unchanged, AddressingInvalid
<1>5. CASE ExecuteFS34
  <2>1. Instance.format = "FS34" /\ ValidAddressing
    BY <1>5 DEF ExecuteFS34
  <2>2. \/ NeedsMemoryOperand /\ IsImmediateAddressing /\ Fail("INVALID_ADDRESSING")
        \/ Jump
    BY <1>5, FS34NotStuck DEF ExecuteFS34
  <2>3. CASE NeedsMemoryOperand /\ IsImmediateAddressing /\ Fail("INVALID_ADDRESSING")
    BY <2>1, <2>3 DEF Fail, Unchanged, AddressingInvalid
  <2>4. CASE Jump
    <3>1. JumpsToItself /\ Fail("ENDLESS_LOOP")
      BY <2>4 DEF Jump, Stuck
    <3>2. QED
      BY <2>1, <2>4, <3>1 DEF Jump, Fail, Unchanged, LoopEndless
  <2>5. QED
    BY <2>2, <2>3, <2>4
<1>6. QED
  BY <1>1, <1>2, <1>3, <1>4, <1>5 DEF Execute

\* A reason that holds lets the instruction end in no other way.
LEMMA ReasonForces ==
  ASSUME Execute
  PROVE  /\ OpcodeInvalid => result' = "INVALID_OPCODE"
         /\ AddressingInvalid => result' = "INVALID_ADDRESSING"
         /\ LoopEndless => result' = "ENDLESS_LOOP"
<1>1. ASSUME OpcodeInvalid
      PROVE  result' = "INVALID_OPCODE"
  <2>1. Instance.format = "none"
    BY <1>1 DEF OpcodeInvalid, NoInstruction
  <2>2. ExecuteInvalidOpcode
    BY <2>1 DEF Execute, ExecuteF1, ExecuteF2, ExecuteInvalidAddressing, ExecuteFS34
  <2>3. QED
    BY <2>2 DEF ExecuteInvalidOpcode, Fail
<1>2. ASSUME Instance.format = "F2", InvalidRegister
      PROVE  result' = "INVALID_ADDRESSING"
  <2>1. ExecuteF2
    BY <1>2 DEF Execute, ExecuteInvalidOpcode, ExecuteF1, ExecuteInvalidAddressing,
                ExecuteFS34, NoInstruction
  <2>2. ~(RegisterNegate \/ Shift \/ ClearReg \/ IncrementCompareReg)
    BY <1>2 DEF InvalidRegister, RegisterNegate, Shift, ClearReg, IncrementCompareReg, Is
  <2>3. ~(ArithmeticReg \/ MoveReg \/ CompareReg)
    BY <1>2 DEF InvalidRegister, ArithmeticReg, MoveReg, CompareReg, Is,
                ArithmeticRegOperation
  <2>4. QED
    BY <2>1, <2>2, <2>3 DEF ExecuteF2, Fail
<1>3. ASSUME Instance.format = "FS34", ~ValidAddressing
      PROVE  result' = "INVALID_ADDRESSING"
  <2>1. ExecuteInvalidAddressing
    BY <1>3 DEF Execute, ExecuteInvalidOpcode, ExecuteF1, ExecuteF2, ExecuteFS34,
                NoInstruction
  <2>2. QED
    BY <2>1 DEF ExecuteInvalidAddressing, Fail
<1>4. ASSUME Instance.format = "FS34", ValidAddressing, NeedsMemoryOperand,
             IsImmediateAddressing
      PROVE  result' = "INVALID_ADDRESSING"
  <2>1. ExecuteFS34
    BY <1>4 DEF Execute, ExecuteInvalidOpcode, ExecuteF1, ExecuteF2,
                ExecuteInvalidAddressing, NoInstruction
  <2>2. ~(LoadWord \/ LoadByte \/ LoadFloat \/ ArithmeticMem)
    BY <1>4 DEF NeedsMemoryOperand, LoadWord, LoadByte, LoadFloat, ArithmeticMem, Is,
                LoadWordRegister, ArithmeticMemOperation
  <2>3. ~(CompareMem \/ IncrementCompareMem \/ FloatArithmetic \/ FloatCompare)
    BY <1>4 DEF NeedsMemoryOperand, CompareMem, IncrementCompareMem, FloatArithmetic,
                FloatCompare, Is
  <2>4. ~(StoreWord \/ StoreByte \/ StoreFlags \/ StoreFloat \/ InterruptLinkStore)
    BY <1>4 DEF NeedsMemoryOperand, StoreWord, StoreByte, StoreFlags, StoreFloat,
                InterruptLinkStore, Is
  <2>5. ~(Jump \/ JumpConditional \/ Return \/ TestDevice \/ ReadDevice \/ WriteDevice)
    BY <1>4 DEF NeedsMemoryOperand, Jump, JumpConditional, Return, TestDevice,
                ReadDevice, WriteDevice, Is
  <2>6. QED
    BY <2>1, <2>2, <2>3, <2>4, <2>5 DEF ExecuteFS34, Fail
<1>5. ASSUME LoopEndless
      PROVE  result' = "ENDLESS_LOOP"
  <2>1. Jump /\ JumpsToItself
    BY <1>5, OnlyJump DEF LoopEndless
  <2>2. QED
    BY <2>1 DEF Jump, Fail
<1>6. QED
  BY <1>1, <1>2, <1>3, <1>4, <1>5 DEF AddressingInvalid

LEMMA ReasonHoldsNext ==
  ASSUME ReasonHolds, [Next]_vars
  PROVE  ReasonHolds'
<1>1. CASE Execute /\ result' \in Stuck
  <2>1. Unchanged
    BY <1>1, FailureHasReason
  <2>2. QED
    BY <1>1, <2>1, FailureHasReason, ReasonsKept DEF ReasonHolds
<1>2. CASE Execute /\ result' \notin Stuck
  BY <1>2 DEF ReasonHolds, Stuck
<1>3. CASE Interrupt
  BY <1>3 DEF Interrupt, ReasonHolds
<1>4. CASE Reset
  BY <1>4 DEF Reset, ReasonHolds
<1>5. CASE \E d \in DeviceIds, device \in NewDevice : SetDevice(d, device)
  BY <1>5 DEF SetDevice, ReasonHolds
<1>6. CASE UNCHANGED vars
  <2>1. Unchanged /\ result' = result
    BY <1>6 DEF vars, cpu_vars, Unchanged
  <2>2. QED
    BY <2>1, ReasonsKept DEF ReasonHolds
<1>7. QED
  BY <1>1, <1>2, <1>3, <1>4, <1>5, <1>6 DEF Next

LEMMA ReasonInductive == Spec => []ReasonHolds
<1>1. Init => ReasonHolds
  BY DEF Init, InitWith, ReasonHolds
<1>2. ReasonHolds /\ [Next]_vars => ReasonHolds'
  BY ReasonHoldsNext
<1>3. QED
  BY <1>1, <1>2, PTL DEF Spec

\* Once Execute has failed with an invalid opcode, invalid addressing or an
\* endless loop, calling it again gives the same answer and changes nothing: the
\* program counter was put back, and nothing the failing check read was written.
THEOREM StuckStays == Spec => StuckMachineStaysStuck
<1>1. ReasonHolds /\ [Next]_vars =>
        [Execute /\ result \in {"INVALID_OPCODE", "INVALID_ADDRESSING", "ENDLESS_LOOP"}
           => result' = result /\ UNCHANGED <<cpu_vars, memory, devices>>]_vars
  <2>1. ASSUME ReasonHolds, Execute, result \in Stuck
        PROVE  result' = result /\ Unchanged
    <3>1. result' = result
      BY <2>1, ReasonForces DEF ReasonHolds, Stuck
    <3>2. QED
      BY <2>1, <3>1, FailureHasReason
  <2>2. QED
    BY <2>1 DEF Stuck, Unchanged
<1>2. QED
  BY <1>1, ReasonInductive, PTL DEF Spec, StuckMachineStaysStuck

-----------------------------------------------------------------------------
(***************************************************************************)
(* Words in memory.                                                        *)
(***************************************************************************)
LEMMA WordReadsBack ==
  ASSUME NEW m \in Memory, NEW a \in Int, NEW v \in Word
  PROVE  /\ ReadMemoryWord(WriteMemoryWord(m, a, v), a) = v
         /\ \A c \in Address : WriteMemoryWord(m, a, v)[c] # m[c]
                                 => c \in {Cell(a, k) : k \in 0 .. 2}
<1> DEFINE m2 == WriteMemoryWord(m, a, v)
           c0 == Cell(a, 0)
           c1 == Cell(a, 1)
           c2 == Cell(a, 2)
<1>1. c0 \in Address /\ c1 \in Address /\ c2 \in Address
  BY CellType
<1>2. c0 # c1 /\ c0 # c2 /\ c1 # c2
  BY CellsDiffer
<1>3. /\ c0 \in {Cell(a, k) : k \in 0 .. 2}
      /\ c1 \in {Cell(a, k) : k \in 0 .. 2}
      /\ c2 \in {Cell(a, k) : k \in 0 .. 2}
  OBVIOUS
<1> HIDE DEF c0, c1, c2
<1>4. m2 = [m EXCEPT ![c0] = ((v \div ByteSize) \div ByteSize) % ByteSize,
                     ![c1] = (v \div ByteSize) % ByteSize,
                     ![c2] = v % ByteSize]
  BY DEF WriteMemoryWord, c0, c1, c2
<1> HIDE DEF m2
<1>5. /\ m2[c0] = ((v \div ByteSize) \div ByteSize) % ByteSize
      /\ m2[c1] = (v \div ByteSize) % ByteSize
      /\ m2[c2] = v % ByteSize
  BY <1>1, <1>2, <1>4 DEF Memory
<1>6. ReadMemoryWord(m2, a) = v
  BY <1>5, BytesOfWord DEF ReadMemoryWord, c0, c1, c2
<1>7. \A c \in Address : m2[c] # m[c] => c \in {c0, c1, c2}
  BY <1>4 DEF Memory
<1>8. QED
  BY <1>3, <1>6, <1>7 DEF m2

\* Only StoreWord executes the word stores with an operand in memory.
LEMMA OnlyStoreWord ==
  ASSUME Execute, Instance.format = "FS34", ValidAddressing, Is(DOMAIN StoreWordRegister),
         ~IsImmediateAddressing
  PROVE  StoreWord /\ target_address' = TargetAddress
<1>1. Instance.mnemonic \in {"STA", "STX", "STL", "STB", "STS", "STT"}
  BY DEF Is, StoreWordRegister
<1>2. ExecuteFS34
  BY DEF Execute, ExecuteInvalidOpcode, ExecuteF1, ExecuteF2, ExecuteInvalidAddressing,
         NoInstruction
<1>3. ~(LoadWord \/ LoadByte \/ LoadFloat \/ ArithmeticMem)
  BY <1>1 DEF LoadWord, LoadByte, LoadFloat, ArithmeticMem, Is, LoadWordRegister,
              ArithmeticMemOperation
<1>4. ~(CompareMem \/ IncrementCompareMem \/ FloatArithmetic \/ FloatCompare)
  BY <1>1 DEF CompareMem, IncrementCompareMem, FloatArithmetic, FloatCompare, Is
<1>5. ~(StoreByte \/ StoreFlags \/ StoreFloat \/ InterruptLinkStore)
  BY <1>1 DEF StoreByte, StoreFlags, StoreFloat, InterruptLinkStore, Is
<1>6. ~(Jump \/ JumpConditional \/ Return \/ TestDevice \/ ReadDevice \/ WriteDevice)
  BY <1>1 DEF Jump, JumpConditional, Return, TestDevice, ReadDevice, WriteDevice, Is,
              JumpCondition
<1>7. QED
  BY <1>2, <1>3, <1>4, <1>5, <1>6 DEF ExecuteFS34

LEMMA StoreReadsBack ==
  ASSUME TypeOK, Execute, Instance.format = "FS34", ValidAddressing,
         ~IsImmediateAddressing, Is(DOMAIN StoreWordRegister)
  PROVE  /\ ReadMemoryWord(memory', target_address')
              = registers[StoreWordRegister[Instance.mnemonic]]
         /\ \A a \in Address : memory'[a] # memory[a]
                                => a \in {Cell(target_address', k) : k \in 0 .. 2}
<1> DEFINE v == registers[StoreWordRegister[Instance.mnemonic]]
<1>1. StoreWord /\ target_address' = TargetAddress
  BY OnlyStoreWord
<1>2. StoreWordRegister[Instance.mnemonic] \in RegisterId
  BY <1>1 DEF StoreWord, Is, StoreWordRegister, RegisterId, REG_A, REG_X, REG_L, REG_B,
              REG_S, REG_T
<1>3. v \in Word /\ memory \in Memory /\ TargetAddress \in Int
  BY <1>2, TargetAddressType DEF TypeOK, Memory, Word
<1>4. memory' = WriteMemoryWord(memory, TargetAddress, v)
  BY <1>1 DEF StoreWord, SetMemory
<1> HIDE DEF v
<1>5. QED
  BY <1>1, <1>3, <1>4, WordReadsBack DEF v

\* A stored word is read back from its target address, and only its three cells
\* change, wherever in memory it lies and however it wraps around the end.
THEOREM StoresReadBack ==
  ASSUME BitwiseOnWords
  PROVE  Spec => StoredWordReadsBack
<1>1. TypeOK /\ [Next]_vars =>
        [Execute /\ Instance.format = "FS34" /\ ValidAddressing
           /\ ~IsImmediateAddressing /\ Is(DOMAIN StoreWordRegister)
           => /\ ReadMemoryWord(memory', target_address')
                   = registers[StoreWordRegister[Instance.mnemonic]]
              /\ \A a \in Address : memory'[a] # memory[a]
                                     => a \in {Cell(target_address', k) : k \in 0 .. 2}]_vars
  BY StoreReadsBack
<1>2. QED
  BY <1>1, TypeCorrect, PTL DEF Spec, StoredWordReadsBack

-----------------------------------------------------------------------------
(***************************************************************************)
(* Proofs about sicxe_vm, for every program and any number of signals: the *)
(* loop keeps the machine within its types, and the race between the loop  *)
(* and the SIGUSR1 handler for the flag loses no signal.                   *)
(***************************************************************************)
LEMMA VMInitType == VMInit => VMTypeOK
<1>1. VMDevices \in [DeviceIds -> DeviceState]
  BY DEF VMDevices, DeviceState
<1>2. VMInit => TypeOK
  BY <1>1, ClearedType, MachineAssumption DEF VMInit, InitWith, TypeOK, ConditionId, ResultId
<1>3. 0 \in 0 .. MaxSignals
  BY MaxSignalsAssumption
<1>4. QED
  BY <1>2, <1>3 DEF VMInit, VMTypeOK

\* A step of the loop or of the handler is a call of the machine or none.
LEMMA VMStepIsCall ==
  ASSUME [VMNext]_vm_vars
  PROVE  [Execute \/ Interrupt]_vars
  BY DEF VMNext, LoopStep, Usr1SignalHandler, CheckTrigger, ClearTrigger, CallInterrupt,
         CallExecute, Done, vm_vars

LEMMA DriverVarsType ==
  ASSUME VMTypeOK, [VMNext]_vm_vars
  PROVE  /\ loop' \in {"check", "clear", "call", "execute", "done"}
         /\ trigger_interrupt' \in BOOLEAN
         /\ exit_success' \in BOOLEAN
         /\ signals' \in 0 .. MaxSignals
         /\ owed' \in BOOLEAN
<1>1. CASE CheckTrigger
  BY <1>1 DEF VMTypeOK, CheckTrigger, history_vars
<1>2. CASE ClearTrigger
  BY <1>2 DEF VMTypeOK, ClearTrigger, history_vars
<1>3. CASE CallInterrupt
  BY <1>3 DEF VMTypeOK, CallInterrupt, history_vars
<1>4. CASE CallExecute
  <2>1. loop' \in {"check", "clear", "call", "execute", "done"}
    BY <1>4 DEF CallExecute
  <2>2. (owed /\ interrupt_enabled') \in BOOLEAN /\ (result' = "ENDLESS_LOOP") \in BOOLEAN
    OBVIOUS
  <2>3. owed' \in BOOLEAN /\ exit_success' \in BOOLEAN
    BY <1>4, <2>2 DEF CallExecute
  <2>4. QED
    BY <1>4, <2>1, <2>3 DEF VMTypeOK, CallExecute
<1>5. CASE Usr1SignalHandler
  <2>1. signals' \in 0 .. MaxSignals
    BY <1>5, MaxSignalsAssumption DEF VMTypeOK, Usr1SignalHandler
  <2>2. (owed \/ interrupt_enabled) \in BOOLEAN
    OBVIOUS
  <2>3. QED
    BY <1>5, <2>1, <2>2 DEF VMTypeOK, Usr1SignalHandler
<1>6. CASE UNCHANGED vm_vars
  BY <1>6 DEF VMTypeOK, vm_vars, driver_vars, history_vars
<1>7. QED
  BY <1>1, <1>2, <1>3, <1>4, <1>5, <1>6 DEF VMNext, LoopStep, Done

LEMMA VMTypeNext ==
  ASSUME BitwiseOnWords, VMTypeOK, [VMNext]_vm_vars
  PROVE  VMTypeOK'
<1>1. TypeOK
  BY DEF VMTypeOK
<1>2. TypeOK'
  <2>1. [Next]_vars
    BY VMStepIsCall DEF Next
  <2>2. QED
    BY <1>1, <2>1, NextType
<1>3. QED
  BY <1>2, DriverVarsType DEF VMTypeOK

\* Whatever program runs and wherever signals strike, the machine and the loop stay
\* within their types: an interrupt between any two instructions, with any vector
\* in memory, leaves the program counter and the interrupt link addresses.
THEOREM VMTypeCorrect ==
  ASSUME BitwiseOnWords
  PROVE  VMSpec => []VMTypeOK
<1>1. VMTypeOK /\ [VMNext]_vm_vars => VMTypeOK'
  BY VMTypeNext
<1>2. QED
  BY <1>1, VMInitType, PTL DEF VMSpec

-----------------------------------------------------------------------------
\* Every statement of the loop, and the handler between any two, keeps an owed
\* signal pending: the flag is cleared only on the way to the call of Interrupt.
LEMMA OwedNext ==
  ASSUME OwedSignalIsPending, [VMNext]_vm_vars
  PROVE  OwedSignalIsPending'
<1>1. CASE CheckTrigger
  <2>1. loop = "check" /\ UNCHANGED <<interrupt_enabled, trigger_interrupt, owed>>
    BY <1>1 DEF CheckTrigger, vars, cpu_vars, hidden_vars, history_vars
  <2>2. owed => interrupt_enabled /\ trigger_interrupt
    BY <2>1 DEF OwedSignalIsPending
  <2>3. QED
    BY <2>1, <2>2, Zenon DEF OwedSignalIsPending
<1>2. CASE ClearTrigger
  <2>1. loop' = "call" /\ loop # "done" /\ UNCHANGED <<interrupt_enabled, owed>>
    BY <1>2 DEF ClearTrigger, vars, cpu_vars, hidden_vars, history_vars
  <2>2. owed => interrupt_enabled
    BY <2>1 DEF OwedSignalIsPending
  <2>3. QED
    BY <2>1, <2>2, Zenon DEF OwedSignalIsPending
<1>3. CASE CallInterrupt
  <2>1. loop # "done"
    BY <1>3 DEF CallInterrupt
  <2>2. CASE interrupt_enabled
    BY <1>3, <2>2 DEF OwedSignalIsPending, CallInterrupt
  <2>3. CASE ~interrupt_enabled
    <3>1. owed' = owed
      BY <1>3, <2>3 DEF CallInterrupt, history_vars
    <3>2. ~owed
      BY <2>1, <2>3 DEF OwedSignalIsPending
    <3>3. QED
      BY <3>1, <3>2, Zenon DEF OwedSignalIsPending
  <2>4. QED
    BY <2>2, <2>3
<1>4. CASE CallExecute
  <2>1. loop = "execute" /\ trigger_interrupt' = trigger_interrupt
        /\ owed' = (owed /\ interrupt_enabled')
    BY <1>4 DEF CallExecute
  <2>2. owed => trigger_interrupt
    BY <2>1 DEF OwedSignalIsPending
  <2>3. QED
    BY <2>1, <2>2, Zenon DEF OwedSignalIsPending
<1>5. CASE Usr1SignalHandler
  <2>1. /\ loop # "done" /\ trigger_interrupt' /\ interrupt_enabled' = interrupt_enabled
        /\ owed' = (owed \/ interrupt_enabled)
    BY <1>5 DEF Usr1SignalHandler, vars, cpu_vars, hidden_vars
  <2>2. owed => interrupt_enabled
    BY <2>1 DEF OwedSignalIsPending
  <2>3. QED
    BY <2>1, <2>2, Zenon DEF OwedSignalIsPending
<1>6. CASE UNCHANGED vm_vars
  <2>1. UNCHANGED <<interrupt_enabled, trigger_interrupt, owed, loop>>
    BY <1>6 DEF vm_vars, vars, cpu_vars, hidden_vars, driver_vars, history_vars
  <2>2. QED
    BY <2>1, Zenon DEF OwedSignalIsPending
<1>7. QED
  BY <1>1, <1>2, <1>3, <1>4, <1>5, <1>6 DEF VMNext, LoopStep, Done

\* No signal that comes while interrupts are enabled is lost, for every program:
\* until it is served or the program disables interrupts, the flag is up or
\* Interrupt is about to be called with interrupts enabled.
THEOREM NoSignalIsLost == VMSpec => []OwedSignalIsPending
<1>1. VMInit => OwedSignalIsPending
  BY DEF VMInit, OwedSignalIsPending
<1>2. OwedSignalIsPending /\ [VMNext]_vm_vars => OwedSignalIsPending'
  BY OwedNext
<1>3. QED
  BY <1>1, <1>2, PTL DEF VMSpec

-----------------------------------------------------------------------------
(***************************************************************************)
(* The interrupt cycle.  That a handler is invisible depends on its        *)
(* program too, so the theorems take what they need of it as hypotheses:   *)
(* interrupts come on for its RINT and not before (EnablesAtReturn), and   *)
(* it gives the registers back (RestoresRegisters).  The rest is the       *)
(* machine's: while a handler runs interrupts are off, and the link and    *)
(* the saved condition code are those of the program it interrupted.       *)
(***************************************************************************)
HandlerRunsAlone == frame.in_handler => ~interrupt_enabled

FrameIsLinked ==
  \/ frame = NoFrame
  \/ frame = [in_handler |-> TRUE, program_counter |-> interrupt_link,
              registers |-> frame.registers, float_register |-> frame.float_register,
              condition_code |-> interrupt_condition_code]

FrameInv == HandlerRunsAlone /\ FrameIsLinked

\* Nothing that Execute does writes the interrupt link or the saved condition code.
LEMMA ExecuteKeepsLink ==
  ASSUME Execute
  PROVE  UNCHANGED <<interrupt_link, interrupt_condition_code>>
<1>1. CASE ExecuteInvalidOpcode
  BY <1>1 DEF ExecuteInvalidOpcode, Fail, cpu_vars
<1>2. CASE ExecuteF1
  BY <1>2 DEF ExecuteF1, InterruptEnable, InterruptDisable, InterruptReturn, FloatToInt,
              IntToFloat, SetRegister, SetFloatRegister, Proceed
<1>3. CASE ExecuteF2
  <2>1. ASSUME NEW operation, NEW r, NEW b, ArithmeticResult(operation, r, b)
        PROVE  UNCHANGED <<interrupt_link, interrupt_condition_code>>
    BY <2>1 DEF ArithmeticResult, Fail, SetRegister, Proceed, cpu_vars
  <2>2. ASSUME NEW operand, IncrementCompare(operand)
        PROVE  UNCHANGED <<interrupt_link, interrupt_condition_code>>
    BY <2>2 DEF IncrementCompare, Proceed
  <2>3. CASE InvalidRegister /\ Fail("INVALID_ADDRESSING")
    BY <2>3 DEF Fail, cpu_vars
  <2>4. CASE ArithmeticReg
    BY <2>1, <2>4 DEF ArithmeticReg
  <2>5. CASE IncrementCompareReg
    BY <2>2, <2>5 DEF IncrementCompareReg
  <2>6. CASE RegisterNegate \/ Shift \/ ClearReg \/ MoveReg \/ CompareReg
    BY <2>6 DEF RegisterNegate, Shift, ClearReg, MoveReg, CompareReg, SetRegister,
                SetConditionCode, Proceed
  <2> QED  BY <1>3, <2>3, <2>4, <2>5, <2>6 DEF ExecuteF2
<1>4. CASE ExecuteInvalidAddressing
  BY <1>4 DEF ExecuteInvalidAddressing, Fail, cpu_vars
<1>5. CASE ExecuteFS34
  <2>1. CASE NeedsMemoryOperand /\ IsImmediateAddressing /\ Fail("INVALID_ADDRESSING")
    BY <2>1 DEF Fail, cpu_vars
  <2>2. CASE LoadWord \/ LoadByte \/ LoadFloat \/ FloatArithmetic
    BY <2>2 DEF LoadWord, LoadByte, LoadFloat, FloatArithmetic, SetRegister,
                SetFloatRegister, Proceed
  <2>3. CASE StoreWord \/ StoreByte \/ StoreFlags \/ StoreFloat \/ InterruptLinkStore
    BY <2>3 DEF StoreWord, StoreByte, StoreFlags, StoreFloat, InterruptLinkStore,
                SetMemory, Proceed
  <2>4. CASE ArithmeticMem
    BY <2>4 DEF ArithmeticMem, ArithmeticResult, Fail, SetRegister, Proceed, cpu_vars
  <2>5. CASE CompareMem \/ TestDevice \/ FloatCompare
    BY <2>5 DEF CompareMem, TestDevice, FloatCompare, SetConditionCode, Proceed
  <2>6. CASE IncrementCompareMem
    BY <2>6 DEF IncrementCompareMem, IncrementCompare, Proceed
  <2>7. CASE Jump \/ JumpConditional \/ Return
    BY <2>7 DEF Jump, JumpConditional, Return, JumpTo, Fail, cpu_vars
  <2>8. CASE ReadDevice \/ WriteDevice
    BY <2>8 DEF ReadDevice, WriteDevice, ReadSucceeds, WriteSucceeds, Fail, Proceed, cpu_vars
  <2> QED  BY <1>5, <2>1, <2>2, <2>3, <2>4, <2>5, <2>6, <2>7, <2>8 DEF ExecuteFS34
<1> QED  BY <1>1, <1>2, <1>3, <1>4, <1>5 DEF Execute

\* An instruction brings interrupts on only when an earlier EINT is due.
LEMMA ExecuteEnables ==
  ASSUME Execute, interrupt_enabled'
  PROVE  interrupt_enabled \/ interrupt_enable_next
<1>1. DelayedInterruptEnable \/ InterruptEnable \/ InterruptDisable
  <2>1. CASE ExecuteF1
    BY <2>1 DEF ExecuteF1, InterruptReturn
  <2> QED  BY <2>1 DEF Execute, ExecuteInvalidOpcode, ExecuteF2, ExecuteInvalidAddressing,
                       ExecuteFS34
<1> QED  BY <1>1 DEF DelayedInterruptEnable, InterruptEnable, InterruptDisable, EnabledNow

\* RINT gives back the program counter and the condition code, and no register.
LEMMA ReturnRestores ==
  ASSUME Execute, Returns
  PROVE  /\ program_counter' = interrupt_link
         /\ condition_code' = interrupt_condition_code
         /\ UNCHANGED <<registers, float_register>>
<1>1. Instance.format = "F1" /\ Instance.mnemonic = "RINT"
  BY DEF Returns, Is
<1>2. Instance # NoInstruction
  BY <1>1 DEF NoInstruction
<1>3. ExecuteF1
  BY <1>1, <1>2 DEF Execute, ExecuteInvalidOpcode, ExecuteF2, ExecuteInvalidAddressing,
                    ExecuteFS34
<1>4. InterruptReturn
  BY <1>1, <1>3 DEF ExecuteF1, InterruptEnable, InterruptDisable, FloatToInt, IntToFloat, Is
<1> QED  BY <1>4 DEF InterruptReturn

\* Steps that leave the machine and the frame alone keep all of this.
LEMMA FrameKept ==
  ASSUME FrameInv,
         UNCHANGED <<frame, interrupt_enabled, interrupt_link, interrupt_condition_code>>
  PROVE  FrameInv'
  BY DEF FrameInv, HandlerRunsAlone, FrameIsLinked, NoFrame

LEMMA FrameNext ==
  ASSUME FrameInv, EnablesAtReturn, [VMNext]_vm_vars
  PROVE  FrameInv'
<1>1. CASE CheckTrigger \/ ClearTrigger \/ Usr1SignalHandler \/ UNCHANGED vm_vars
  BY <1>1, FrameKept DEF CheckTrigger, ClearTrigger, Usr1SignalHandler, vm_vars, vars,
                         cpu_vars, hidden_vars, history_vars
<1>2. CASE CallInterrupt
  <2>1. CASE interrupt_enabled
    <3>1. frame' = UserState /\ ~interrupt_enabled' /\ interrupt_link' = program_counter
          /\ interrupt_condition_code' = condition_code
      BY <1>2, <2>1 DEF CallInterrupt, Interrupt
    <3> QED  BY <3>1 DEF FrameInv, HandlerRunsAlone, FrameIsLinked, UserState
  <2>2. CASE ~interrupt_enabled
    BY <1>2, <2>2, FrameKept DEF CallInterrupt, Interrupt, history_vars
  <2> QED  BY <2>1, <2>2
<1>3. CASE CallExecute
  <2>1. Execute /\ UNCHANGED <<interrupt_link, interrupt_condition_code>>
    BY <1>3, ExecuteKeepsLink DEF CallExecute
  <2>2. CASE Returns
    <3>1. frame' = NoFrame
      BY <1>3, <2>2 DEF CallExecute
    <3> QED  BY <3>1 DEF FrameInv, HandlerRunsAlone, FrameIsLinked, NoFrame
  <2>3. CASE ~Returns
    <3>1. frame' = frame
      BY <1>3, <2>3 DEF CallExecute
    <3>2. FrameIsLinked'
      BY <2>1, <3>1 DEF FrameInv, FrameIsLinked, NoFrame
    <3>3. frame.in_handler => ~interrupt_enabled /\ ~interrupt_enable_next
      BY <2>3, Zenon DEF FrameInv, HandlerRunsAlone, EnablesAtReturn
    <3>4. frame.in_handler => ~interrupt_enabled'
      BY <2>1, <3>3, ExecuteEnables
    <3> QED  BY <3>1, <3>2, <3>4 DEF FrameInv, HandlerRunsAlone
  <2> QED  BY <2>2, <2>3
<1> QED  BY <1>1, <1>2, <1>3 DEF VMNext, LoopStep, Done

LEMMA FrameInit == VMInit => FrameInv
  BY DEF VMInit, InitWith, FrameInv, HandlerRunsAlone, FrameIsLinked, NoFrame

\* Only the call of Interrupt writes the link, and only with interrupts enabled.
LEMMA LinkIsFree ==
  ASSUME FrameInv, [VMNext]_vm_vars,
         interrupt_link' # interrupt_link \/ interrupt_condition_code' # interrupt_condition_code
  PROVE  ~frame.in_handler
<1>1. CallInterrupt
  <2>1. CASE CallExecute
    BY <2>1, ExecuteKeepsLink DEF CallExecute
  <2> QED  BY <2>1 DEF VMNext, LoopStep, Done, CheckTrigger, ClearTrigger, Usr1SignalHandler,
                       vm_vars, vars, cpu_vars
<1>2. interrupt_enabled
  BY <1>1 DEF CallInterrupt, Interrupt
<1> QED  BY <1>2 DEF FrameInv, HandlerRunsAlone

\* Only RINT ends a handler, and it gives back what Interrupt has saved.
LEMMA FrameIsGivenBack ==
  ASSUME FrameInv, RestoresRegisters, [VMNext]_vm_vars, frame.in_handler, ~frame'.in_handler
  PROVE  [in_handler |-> TRUE, program_counter |-> program_counter',
          registers |-> registers', float_register |-> float_register',
          condition_code |-> condition_code'] = frame
<1>1. frame' # frame
  OBVIOUS
<1>2. CallExecute /\ Returns
  <2>1. CASE CallInterrupt
    BY <1>1, <2>1 DEF CallInterrupt, UserState, history_vars
  <2> QED  BY <1>1, <2>1 DEF VMNext, LoopStep, Done, CheckTrigger, ClearTrigger,
                Usr1SignalHandler, CallExecute, vm_vars, history_vars
<1>3. /\ program_counter' = interrupt_link
      /\ condition_code' = interrupt_condition_code
      /\ registers' = frame.registers /\ float_register' = frame.float_register
  BY <1>2, ReturnRestores DEF CallExecute, RestoresRegisters
<1>4. frame # NoFrame
  BY DEF NoFrame
<1> QED  BY <1>3, <1>4 DEF FrameInv, FrameIsLinked

\* A handler that enables interrupts for its RINT only is never entered again
\* while it runs: with EINT delayed by one instruction, a signal anywhere in the loop
\* finds interrupts off, and the single link and saved condition code are not
\* overwritten before RINT has used them.  For every program and any signals.
THEOREM HandlersRunAlone == VMSpec /\ []EnablesAtReturn => HandlersDoNotNest
<1>1. VMInit => FrameInv
  BY FrameInit
<1>2. FrameInv /\ EnablesAtReturn /\ [VMNext]_vm_vars => FrameInv'
  BY FrameNext
<1>3. FrameInv /\ [VMNext]_vm_vars
      => [interrupt_link' # interrupt_link
            \/ interrupt_condition_code' # interrupt_condition_code
          => ~frame.in_handler]_vm_vars
  BY LinkIsFree
<1> QED  BY <1>1, <1>2, <1>3, PTL DEF VMSpec, HandlersDoNotNest

\* If it also gives the registers back, the interrupted program goes on with exactly
\* the program counter, registers and condition code it was interrupted with,
\* whatever signals came in the meantime.
THEOREM HandlerInvisible ==
  VMSpec /\ []EnablesAtReturn /\ []RestoresRegisters => HandlerIsInvisible
<1>1. VMInit => FrameInv
  BY FrameInit
<1>2. FrameInv /\ EnablesAtReturn /\ [VMNext]_vm_vars => FrameInv'
  BY FrameNext
<1>3. FrameInv /\ RestoresRegisters /\ [VMNext]_vm_vars
      => [frame.in_handler /\ ~frame'.in_handler
            => [in_handler |-> TRUE, program_counter |-> program_counter',
                registers |-> registers', float_register |-> float_register',
                condition_code |-> condition_code'] = frame]_vm_vars
  BY FrameIsGivenBack
<1> QED  BY <1>1, <1>2, <1>3, PTL DEF VMSpec, HandlerIsInvisible
=============================================================================
