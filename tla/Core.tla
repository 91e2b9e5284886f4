-------------------------------- MODULE Core --------------------------------
(***************************************************************************)
(* The board's CPU (sicxe_core.vhd): its control state machine with the    *)
(* registers it writes.  A step is a clock cycle, with the inputs of that  *)
(* cycle as a parameter; a state that uses the memory is left in the cycle *)
(* in which its access is done.                                            *)
(*                                                                         *)
(* Cycles in which the core neither uses the memory nor looks at an input  *)
(* are taken together with a neighbour: the target address with its index, *)
(* an operation with the writing of its result.  The operand, result and   *)
(* device registers, which only carry values between such cycles, are left *)
(* out.  reg_memory_data stays, since an instruction may store what an     *)
(* earlier one left in it.                                                 *)
(***************************************************************************)
EXTENDS InstructionSet, MemoryPort

CONSTANTS BitAnd(_, _), BitOr(_, _), BitXor(_, _)  \* on words

VARIABLES ctl_state,
          reg_instruction,  \* its four bytes
          reg_target, reg_pc, reg_il, reg_cc, reg_icc,
          reg_general,
          reg_memory_data,
          reg_interrupt, reg_interrupt_next

core_vars == <<ctl_state, reg_instruction, reg_target, reg_pc, reg_il, reg_cc, reg_icc,
               reg_general, reg_memory_data, reg_interrupt, reg_interrupt_next>>

REG_A == 0
REG_X == 1
REG_L == 2
REG_B == 3
REG_S == 4
REG_T == 5
GeneralId == 0 .. 5

\* The condition codes.
LT == 0
EQ == 1
GT == 2

FetchStates == {"INSN0", "F2_INSN1", "F34_INSN1", "F34_INSN2", "F34_INSN3"}
LoadStates  == {"F34_INDIRECT0", "F34_INDIRECT1", "F34_INDIRECT2", "F34B_LOAD0",
                "F34W_LOAD0", "F34W_LOAD1", "F34W_LOAD2", "INT2", "INT3", "INT4"}
StoreStates == {"F34_STORE0", "F34_STORE1", "F34_STORE2"}
OtherStates == {"ERROR", "DISABLED", "DECODE0", "F2_DECODE1", "F34_DECODE1",
                "F34_DECODE2", "F34B_DECODE3", "F34W_DECODE3", "INT0", "INT5"}

CoreTypeOK ==
  /\ ctl_state \in FetchStates \cup LoadStates \cup StoreStates \cup OtherStates
  /\ reg_instruction \in [0 .. 3 -> Byte]
  /\ reg_target \in Word
  /\ reg_pc \in Address /\ reg_il \in Address
  /\ reg_cc \in {LT, EQ, GT} /\ reg_icc \in {LT, EQ, GT}
  /\ reg_general \in [GeneralId -> Word]
  /\ reg_memory_data \in Word
  /\ reg_interrupt \in BOOLEAN /\ reg_interrupt_next \in BOOLEAN

CoreInit ==
  /\ ctl_state = "DISABLED"
  /\ reg_instruction = [k \in 0 .. 3 |-> 0]
  /\ reg_target = 0 /\ reg_pc = 0 /\ reg_il = 0 /\ reg_cc = LT /\ reg_icc = LT
  /\ reg_general = [r \in GeneralId |-> 0]
  /\ reg_memory_data = 0
  /\ reg_interrupt = FALSE /\ reg_interrupt_next = FALSE

CoreReset ==
  /\ ctl_state' = "DISABLED"
  /\ reg_instruction' = [k \in 0 .. 3 |-> 0]
  /\ reg_target' = 0 /\ reg_pc' = 0 /\ reg_il' = 0 /\ reg_cc' = LT /\ reg_icc' = LT
  /\ reg_general' = [r \in GeneralId |-> 0]
  /\ reg_memory_data' = 0
  /\ reg_interrupt' = FALSE /\ reg_interrupt_next' = FALSE

-----------------------------------------------------------------------------
(***************************************************************************)
(* The instruction register.  An opcode byte is first looked up whole,     *)
(* among the instructions of formats 1 and 2, then by its upper six bits.  *)
(***************************************************************************)
LongMnemonic == {"EINT", "DINT", "RINT"} \cup (F2Mnemonic \ {"DIVR"})

ShortMnemonic ==
  {"ADD", "SUB", "MUL", "AND", "OR", "XOR", "COMP", "TIX", "J", "JEQ", "JGT", "JLT",
   "JSUB", "RSUB", "LDCH", "LDA", "LDB", "LDL", "LDS", "LDT", "LDX", "STCH", "STSW",
   "STA", "STB", "STL", "STS", "STT", "STX", "STIL", "TD", "RD", "WD"}

LongOpcodes  == {Opcode[m] : m \in LongMnemonic}
ShortOpcodes == {Opcode[m] : m \in ShortMnemonic}

InsnOf ==
  [byte \in Byte |->
     IF byte \in LongOpcodes THEN CHOOSE m \in LongMnemonic : Opcode[m] = byte
     ELSE IF ShortOpcode(byte) \in ShortOpcodes
     THEN CHOOSE m \in ShortMnemonic : Opcode[m] = ShortOpcode(byte)
     ELSE "none"]

Insn == InsnOf[reg_instruction[0]]

FlagN == Bit(reg_instruction[0], 2)
FlagI == Bit(reg_instruction[0], 1)
FlagX == Bit(reg_instruction[1], 128)
FlagB == Bit(reg_instruction[1], 64)
FlagP == Bit(reg_instruction[1], 32)
FlagE == Bit(reg_instruction[1], 16)

InsnR1 == reg_instruction[1] \div 16
InsnR2 == reg_instruction[1] % 16

IsSic       == ~FlagN /\ ~FlagI
IsImmediate == ~FlagN /\ FlagI
IsIndirect  == FlagN /\ ~FlagI
IsSimple    == FlagN /\ FlagI

OperandF3  == (reg_instruction[1] % 16) * 256 + reg_instruction[2]
OperandF4  == OperandF3 * 256 + reg_instruction[3]
OperandSic == (reg_instruction[1] % 128) * 256 + reg_instruction[2]

\* The b and p flags count for a SIC instruction too, though they are bits of
\* its operand.
DirectTarget ==
  TrimWord(
    (IF IsSic THEN OperandSic
     ELSE IF FlagE THEN OperandF4
     ELSE IF FlagP THEN SignExtendF3Operand(OperandF3)
     ELSE OperandF3)
    + (IF FlagB /\ ~FlagP THEN reg_general[REG_B]
       ELSE IF FlagP /\ ~FlagB THEN reg_pc
       ELSE 0))

IndexedTarget ==
  IF FlagX THEN TrimWord(DirectTarget + reg_general[REG_X]) ELSE DirectTarget

InvalidAddressing ==
  /\ ~IsSic
  /\ \/ FlagB /\ FlagP
     \/ FlagE /\ (FlagB \/ FlagP)
     \/ FlagX /\ ~IsSimple

-----------------------------------------------------------------------------
(***************************************************************************)
(* Arithmetic and comparison of words, read as signed.  A product is       *)
(* resized the way numeric_std does it: the sign and the lowest 23 bits.   *)
(***************************************************************************)
Resized(value) ==
  (value % (WordSize \div 2)) + (IF value < 0 THEN WordSize \div 2 ELSE 0)

Alu(operation, a, b) ==
  CASE operation \in {"ADD", "ADDR"} -> TrimWord(a + b)
    [] operation \in {"SUB", "SUBR"} -> TrimWord(a - b)
    [] operation \in {"MUL", "MULR"} -> Resized(SignExtendWord(a) * SignExtendWord(b))
    [] operation \in {"AND", "ANDR"} -> BitAnd(a, b)
    [] operation \in {"OR", "ORR"}   -> BitOr(a, b)
    [] operation \in {"XOR", "XORR"} -> BitXor(a, b)

Compared(a, b) ==
  IF SignExtendWord(a) < SignExtendWord(b) THEN LT ELSE IF a = b THEN EQ ELSE GT

ShiftFactor == [n \in 0 .. 15 |-> <<1, 2, 4, 8, 16, 32, 64, 128, 256, 512, 1024, 2048,
                                    4096, 8192, 16384, 32768>>[n + 1]]

-----------------------------------------------------------------------------
(***************************************************************************)
(* The memory port.  StoreWeight and LoadWeight tell which byte of         *)
(* reg_memory_data a state stores or loads.                                *)
(***************************************************************************)
High == ByteSize * ByteSize

StoreWeight == [F34_STORE0 |-> High, F34_STORE1 |-> ByteSize, F34_STORE2 |-> 1]

LoadWeight ==
  [s \in LoadStates |->
     CASE s \in {"F34_INDIRECT0", "F34W_LOAD0", "INT2"} -> High
       [] s \in {"F34_INDIRECT1", "F34W_LOAD1", "INT3"} -> ByteSize
       [] s \in {"F34_INDIRECT2", "F34W_LOAD2", "INT4", "F34B_LOAD0"} -> 1]

CoreRequest ==
  CASE ctl_state \in FetchStates -> ReadRequest(reg_pc)
    [] ctl_state \in LoadStates  -> ReadRequest(TrimAddress(reg_target))
    [] ctl_state \in StoreStates ->
         WriteRequest(TrimAddress(reg_target),
                      (reg_memory_data \div StoreWeight[ctl_state]) % ByteSize)
    [] OTHER -> NoRequest

IsRequesting == ctl_state \in FetchStates \cup LoadStates \cup StoreStates

\* The inputs of a cycle: the answer of the memory, the enable of run_control,
\* the pending interrupt, and what the addressed input port holds.
CoreInput ==
  [done : BOOLEAN, data : Byte, enable : BOOLEAN, interrupt : BOOLEAN, port : Byte]

\* Mutant: a stop is not looked at between instructions.
FinishOn(in) ==
  ctl_state' = IF ~in.enable /\ ctl_state = "DISABLED" THEN "DISABLED"
               ELSE IF reg_interrupt /\ in.interrupt THEN "INT0"
               ELSE "INSN0"

\* The last cycle of most instructions.
Finish(in) ==
  ctl_state' = IF ~in.enable THEN "DISABLED"
               ELSE IF reg_interrupt /\ in.interrupt THEN "INT0"
               ELSE "INSN0"

Disabled(in) ==
  /\ ctl_state = "DISABLED"
  /\ Finish(in)
  /\ UNCHANGED <<reg_instruction, reg_target, reg_pc, reg_il, reg_cc, reg_icc, reg_general,
                 reg_memory_data, reg_interrupt, reg_interrupt_next>>

Stuck ==
  /\ ctl_state = "ERROR"
  /\ UNCHANGED core_vars

-----------------------------------------------------------------------------
(***************************************************************************)
(* Reading the instruction.                                                *)
(***************************************************************************)
FetchIndex == [INSN0 |-> 0, F2_INSN1 |-> 1, F34_INSN1 |-> 1, F34_INSN2 |-> 2,
               F34_INSN3 |-> 3]

AfterFetch ==
  CASE ctl_state = "INSN0"     -> "DECODE0"
    [] ctl_state = "F2_INSN1"  -> "F2_DECODE1"
    [] ctl_state = "F34_INSN1" -> "F34_INSN2"
    [] ctl_state = "F34_INSN2" -> IF FlagE THEN "F34_INSN3" ELSE "F34_DECODE1"
    [] ctl_state = "F34_INSN3" -> "F34_DECODE1"

\* EINT takes effect with the first byte of the instruction after it.
Fetch(in) ==
  /\ ctl_state \in FetchStates
  /\ reg_instruction' = [reg_instruction EXCEPT ![FetchIndex[ctl_state]] = in.data]
  /\ reg_pc' = TrimAddress(reg_pc + 1)
  /\ reg_interrupt' = IF ctl_state = "INSN0" THEN reg_interrupt_next ELSE reg_interrupt
  /\ ctl_state' = AfterFetch
  /\ UNCHANGED <<reg_target, reg_il, reg_cc, reg_icc, reg_general, reg_memory_data,
                 reg_interrupt_next>>

-----------------------------------------------------------------------------
(***************************************************************************)
(* The opcode, and the instructions of format 1.  EINT and DINT end        *)
(* without a look at a pending interrupt.                                  *)
(***************************************************************************)
AfterEnable(in) == ctl_state' = IF in.enable THEN "INSN0" ELSE "DISABLED"

\* Mutant: interrupts are enabled for the end of EINT already.
F1_EINTAtOnce(in) ==
  /\ Insn = "EINT"
  /\ reg_interrupt' = TRUE /\ reg_interrupt_next' = TRUE
  /\ AfterEnable(in)
  /\ UNCHANGED <<reg_pc, reg_cc>>

F1_EINT(in) ==
  /\ Insn = "EINT"
  /\ reg_interrupt_next' = TRUE
  /\ AfterEnable(in)
  /\ UNCHANGED <<reg_pc, reg_cc, reg_interrupt>>

F1_DINT(in) ==
  /\ Insn = "DINT"
  /\ reg_interrupt' = FALSE /\ reg_interrupt_next' = FALSE
  /\ AfterEnable(in)
  /\ UNCHANGED <<reg_pc, reg_cc>>

F1_RINT(in) ==
  /\ Insn = "RINT"
  /\ reg_pc' = reg_il
  /\ reg_cc' = reg_icc
  /\ Finish(in)
  /\ UNCHANGED <<reg_interrupt, reg_interrupt_next>>

DecodeLonger ==
  /\ Insn \notin {"EINT", "DINT", "RINT"}
  /\ ctl_state' = IF Insn = "none" THEN "ERROR"
                  ELSE IF Insn \in LongMnemonic THEN "F2_INSN1"
                  ELSE "F34_INSN1"
  /\ UNCHANGED <<reg_pc, reg_cc, reg_interrupt, reg_interrupt_next>>

Decode0(in) ==
  /\ ctl_state = "DECODE0"
  /\ \/ F1_EINT(in)
     \/ F1_DINT(in)
     \/ F1_RINT(in)
     \/ DecodeLonger
  /\ UNCHANGED <<reg_instruction, reg_target, reg_il, reg_icc, reg_general, reg_memory_data>>

-----------------------------------------------------------------------------
(***************************************************************************)
(* Format 2.  The second field of CLEAR, NOT, TIXR and the shifts is not a *)
(* register.                                                               *)
(***************************************************************************)
ValidRegisters ==
  /\ InsnR1 \in GeneralId
  /\ Insn \in {"CLEAR", "NOT", "SHIFTL", "SHIFTR", "TIXR"} \/ InsnR2 \in GeneralId

Operand1 == reg_general[InsnR1]

F2Result ==
  CASE Insn = "CLEAR"  -> 0
    [] Insn = "NOT"    -> WordSize - 1 - Operand1
    [] Insn = "SHIFTL" -> TrimWord(SignExtendWord(Operand1) * ShiftFactor[InsnR2])
    [] Insn = "SHIFTR" -> TrimWord(SignExtendWord(Operand1) \div ShiftFactor[InsnR2])
    [] Insn = "RMO"    -> Operand1
    [] OTHER           -> Alu(Insn, reg_general[InsnR2], Operand1)

F2Destination == IF Insn \in {"CLEAR", "NOT", "SHIFTL", "SHIFTR"} THEN InsnR1 ELSE InsnR2

F2_ALU(in) ==
  /\ Insn \notin {"COMPR", "TIXR"}
  /\ reg_general' = [reg_general EXCEPT ![F2Destination] = F2Result]
  /\ UNCHANGED reg_cc
  /\ Finish(in)

F2_COMP(in) ==
  /\ Insn = "COMPR"
  /\ reg_cc' = Compared(Operand1, reg_general[InsnR2])
  /\ UNCHANGED reg_general
  /\ Finish(in)

\* The operand is latched before X changes.
IncrementX(operand) ==
  \E x \in {TrimWord(reg_general[REG_X] + 1)} :
    /\ reg_general' = [reg_general EXCEPT ![REG_X] = x]
    /\ reg_cc' = Compared(x, operand)

F2_TIX(in) ==
  /\ Insn = "TIXR"
  /\ IncrementX(Operand1)
  /\ Finish(in)

F2Invalid ==
  /\ ~ValidRegisters
  /\ ctl_state' = "ERROR"
  /\ UNCHANGED <<reg_general, reg_cc>>

F2Decode1(in) ==
  /\ ctl_state = "F2_DECODE1"
  /\ \/ F2Invalid
     \/ ValidRegisters /\ (F2_ALU(in) \/ F2_COMP(in) \/ F2_TIX(in))
  /\ UNCHANGED <<reg_instruction, reg_target, reg_pc, reg_il, reg_icc, reg_memory_data,
                 reg_interrupt, reg_interrupt_next>>

-----------------------------------------------------------------------------
(***************************************************************************)
(* Formats 3 and 4: the target address, and RSUB, which is done before its *)
(* addressing would be refused.                                            *)
(***************************************************************************)
F34Decode1(in) ==
  /\ ctl_state = "F34_DECODE1"
  /\ IF Insn = "RSUB"
     THEN /\ reg_pc' = TrimAddress(reg_general[REG_L])
          /\ reg_target' = DirectTarget
          /\ Finish(in)
     ELSE /\ UNCHANGED reg_pc
          /\ IF InvalidAddressing
             THEN reg_target' = DirectTarget /\ ctl_state' = "ERROR"
             ELSE /\ reg_target' = IndexedTarget
                  /\ ctl_state' = IF IsIndirect THEN "F34_INDIRECT0" ELSE "F34_DECODE2"
  /\ UNCHANGED <<reg_instruction, reg_il, reg_cc, reg_icc, reg_general, reg_memory_data,
                 reg_interrupt, reg_interrupt_next>>

\* Loads: of the address of an indirect operand, of an operand, of the vector.
AfterLoad ==
  [F34_INDIRECT0 |-> "F34_INDIRECT1", F34_INDIRECT1 |-> "F34_INDIRECT2",
   F34_INDIRECT2 |-> "F34_DECODE2", F34B_LOAD0 |-> "F34B_DECODE3",
   F34W_LOAD0 |-> "F34W_LOAD1", F34W_LOAD1 |-> "F34W_LOAD2",
   F34W_LOAD2 |-> "F34W_DECODE3", INT2 |-> "INT3", INT3 |-> "INT4", INT4 |-> "INT5"]

WithByte(word, weight, byte) ==
  word - ((word \div weight) % ByteSize) * weight + byte * weight

Load(in) ==
  /\ ctl_state \in LoadStates
  /\ \E word \in {WithByte(reg_memory_data, LoadWeight[ctl_state], in.data)} :
       /\ reg_memory_data' = word
       /\ reg_target' =
            CASE LoadWeight[ctl_state] # 1 -> TrimWord(reg_target + 1)
              [] ctl_state \in {"F34_INDIRECT2", "F34W_LOAD2"} -> word
              [] ctl_state = "F34B_LOAD0" -> word % ByteSize
              [] ctl_state = "INT4" -> reg_target
  /\ ctl_state' = AfterLoad[ctl_state]
  /\ UNCHANGED <<reg_instruction, reg_pc, reg_il, reg_cc, reg_icc, reg_general,
                 reg_interrupt, reg_interrupt_next>>

Store(in) ==
  /\ ctl_state \in StoreStates
  /\ CASE ctl_state = "F34_STORE0" -> ctl_state' = "F34_STORE1"
       [] ctl_state = "F34_STORE1" -> ctl_state' = "F34_STORE2"
       [] ctl_state = "F34_STORE2" -> Finish(in)
  /\ reg_target' = IF ctl_state = "F34_STORE2" THEN reg_target ELSE TrimWord(reg_target + 1)
  /\ UNCHANGED <<reg_instruction, reg_pc, reg_il, reg_cc, reg_icc, reg_general,
                 reg_memory_data, reg_interrupt, reg_interrupt_next>>

-----------------------------------------------------------------------------
(***************************************************************************)
(* With the target address known: jumps are done, a store gets its data,   *)
(* the others go for their operand.                                        *)
(***************************************************************************)
StoreRegister == [STA |-> REG_A, STX |-> REG_X, STL |-> REG_L, STB |-> REG_B,
                  STS |-> REG_S, STT |-> REG_T, STCH |-> REG_A]

StatusWord == BitValue(reg_interrupt, 16) + reg_icc * 4 + reg_cc

\* The state CTL_F34W_STIL has no outputs, so STIL stores what is in
\* reg_memory_data already.
StoreData ==
  CASE Insn \in DOMAIN StoreRegister -> reg_general[StoreRegister[Insn]]
    [] Insn = "STSW" -> StatusWord
    [] Insn = "STIL" -> reg_memory_data

DecodeStore ==
  /\ Insn \in DOMAIN StoreRegister \cup {"STSW", "STIL"}
  /\ IF IsImmediate
     THEN ctl_state' = "ERROR" /\ UNCHANGED reg_memory_data
     ELSE /\ reg_memory_data' = StoreData
          /\ ctl_state' = IF Insn \in {"STCH", "STSW"} THEN "F34_STORE2" ELSE "F34_STORE0"
  /\ UNCHANGED <<reg_pc, reg_general>>

JumpCode == [JLT |-> LT, JEQ |-> EQ, JGT |-> GT]

\* Mutant: the program counter takes the whole target.
DecodeJumpUntrimmed(in) ==
  /\ Insn \in DOMAIN JumpCode \cup {"J", "JSUB"}
  /\ reg_pc' = IF Insn \in DOMAIN JumpCode /\ reg_cc # JumpCode[Insn]
               THEN reg_pc ELSE reg_target
  /\ reg_general' = IF Insn = "JSUB" THEN [reg_general EXCEPT ![REG_L] = reg_pc]
                    ELSE reg_general
  /\ Finish(in)
  /\ UNCHANGED reg_memory_data

DecodeJump(in) ==
  /\ Insn \in DOMAIN JumpCode \cup {"J", "JSUB"}
  /\ reg_pc' = IF Insn \in DOMAIN JumpCode /\ reg_cc # JumpCode[Insn]
               THEN reg_pc ELSE TrimAddress(reg_target)
  /\ reg_general' = IF Insn = "JSUB" THEN [reg_general EXCEPT ![REG_L] = reg_pc]
                    ELSE reg_general
  /\ Finish(in)
  /\ UNCHANGED reg_memory_data

ByteInsn == {"LDCH", "TD", "RD", "WD"}

DecodeOperand ==
  /\ Insn \notin DOMAIN StoreRegister \cup DOMAIN JumpCode \cup {"STSW", "STIL", "J", "JSUB"}
  /\ ctl_state' =
       CASE Insn \in ByteInsn /\ IsImmediate    -> "F34B_DECODE3"
         [] Insn \in ByteInsn /\ ~IsImmediate   -> "F34B_LOAD0"
         [] Insn \notin ByteInsn /\ IsImmediate -> "F34W_DECODE3"
         [] OTHER                               -> "F34W_LOAD0"
  /\ UNCHANGED <<reg_pc, reg_general, reg_memory_data>>

F34Decode2(in) ==
  /\ ctl_state = "F34_DECODE2"
  /\ \/ DecodeStore
     \/ DecodeJump(in)
     \/ DecodeOperand
  /\ UNCHANGED <<reg_instruction, reg_target, reg_il, reg_cc, reg_icc, reg_interrupt,
                 reg_interrupt_next>>

-----------------------------------------------------------------------------
(***************************************************************************)
(* With the operand in reg_target.  What WD writes goes to the devices,    *)
(* which are not modelled here; TD finds every device ready.               *)
(***************************************************************************)
F34BDecode3(in) ==
  /\ ctl_state = "F34B_DECODE3"
  /\ reg_general' =
       CASE Insn = "LDCH" -> [reg_general EXCEPT ![REG_A] = reg_target]
         [] Insn = "RD"   -> [reg_general EXCEPT ![REG_A] = in.port]
         [] OTHER         -> reg_general
  /\ reg_cc' = IF Insn = "TD" THEN LT ELSE reg_cc
  /\ Finish(in)
  /\ UNCHANGED <<reg_instruction, reg_target, reg_pc, reg_il, reg_icc, reg_memory_data,
                 reg_interrupt, reg_interrupt_next>>

LoadRegister == [LDA |-> REG_A, LDX |-> REG_X, LDL |-> REG_L, LDB |-> REG_B,
                 LDS |-> REG_S, LDT |-> REG_T]

F34W_LDR ==
  /\ Insn \in DOMAIN LoadRegister
  /\ reg_general' = [reg_general EXCEPT ![LoadRegister[Insn]] = reg_target]
  /\ UNCHANGED reg_cc

F34W_COMP ==
  /\ Insn = "COMP"
  /\ reg_cc' = Compared(reg_general[REG_A], reg_target)
  /\ UNCHANGED reg_general

F34W_TIX ==
  /\ Insn = "TIX"
  /\ IncrementX(reg_target)

F34W_ALU ==
  /\ Insn \notin DOMAIN LoadRegister \cup {"COMP", "TIX"}
  /\ reg_general' = [reg_general EXCEPT ![REG_A] = Alu(Insn, @, reg_target)]
  /\ UNCHANGED reg_cc

F34WDecode3(in) ==
  /\ ctl_state = "F34W_DECODE3"
  /\ F34W_LDR \/ F34W_COMP \/ F34W_TIX \/ F34W_ALU
  /\ Finish(in)
  /\ UNCHANGED <<reg_instruction, reg_target, reg_pc, reg_il, reg_icc, reg_memory_data,
                 reg_interrupt, reg_interrupt_next>>

-----------------------------------------------------------------------------
(***************************************************************************)
(* The interrupt cycle.  Interrupts are acknowledged and disabled in INT0; *)
(* the cycle ends without a look at the next one.                          *)
(***************************************************************************)
InterruptAcknowledge == ctl_state = "INT0"

Int0 ==
  /\ ctl_state = "INT0"
  /\ ctl_state' = "INT2"
  /\ reg_interrupt' = FALSE /\ reg_interrupt_next' = FALSE
  /\ reg_il' = reg_pc
  /\ reg_icc' = reg_cc
  /\ reg_target' = AddressSize - 3
  /\ UNCHANGED <<reg_instruction, reg_pc, reg_cc, reg_general, reg_memory_data>>

Int5(in) ==
  /\ ctl_state = "INT5"
  /\ reg_pc' = TrimAddress(reg_memory_data)
  /\ AfterEnable(in)
  /\ UNCHANGED <<reg_instruction, reg_target, reg_il, reg_cc, reg_icc, reg_general,
                 reg_memory_data, reg_interrupt, reg_interrupt_next>>

-----------------------------------------------------------------------------
CoreStep(in) ==
  \/ Stuck
  \/ Disabled(in)
  \/ Fetch(in)
  \/ Decode0(in)
  \/ F2Decode1(in)
  \/ F34Decode1(in)
  \/ Load(in)
  \/ Store(in)
  \/ F34Decode2(in)
  \/ F34BDecode3(in)
  \/ F34WDecode3(in)
  \/ Int0
  \/ Int5(in)

\* A state that uses the memory waits for it with nothing changed.
CoreClock(in) ==
  IF IsRequesting /\ ~in.done THEN UNCHANGED core_vars ELSE CoreStep(in)

=============================================================================
