----------------------------- MODULE BoardProofs -----------------------------
(***************************************************************************)
(* Proofs about the board, for every program, every size of memory, every  *)
(* delay of the memory and any number of signals and accesses: the answers *)
(* of the memory controller belong to the requests that its ports make,    *)
(* but for what a CPU reset leaves under way; and every register keeps its *)
(* width.  The second half compares the board with the virtual machine.    *)
(***************************************************************************)
EXTENDS Board, WordsProofs, FiniteSetTheorems

-----------------------------------------------------------------------------
(***************************************************************************)
(* The invariant.  A port may not change what it asks for while it is      *)
(* served: the computer interface holds its lines, and the CPU waits; only *)
(* a reset makes it forget.                                                *)
(***************************************************************************)
RequestOK ==
  /\ scenario \in Scenarios
  /\ computer_request \in Request \cup {NoRequest}

ComputerIsServed == Serving(1) => Access = computer_request

CpuIsServed == Serving(2) /\ ~stale => IsRequesting /\ Access = CoreRequest

PortInv == RequestOK /\ ComputerIsServed /\ CpuIsServed

-----------------------------------------------------------------------------
(***************************************************************************)
(* Requests and the state of the controller.                               *)
(***************************************************************************)
LEMMA RequestKinds ==
  ASSUME NEW r \in Request
  PROVE  /\ r.kind \in {"read", "write"}
         /\ r.kind = "read" => r = ReadRequest(r.address)
         /\ r.kind = "write" => r = WriteRequest(r.address, r.data)
         /\ r # NoRequest
  BY DEF Request, ReadRequest, WriteRequest, NoRequest

\* A core that is not waiting for the memory asks for nothing.
LEMMA CoreRequestKinds ==
  /\ IsRequesting <=> CoreRequest # NoRequest
  /\ CoreRequest # NoRequest =>
       /\ CoreRequest.kind \in {"read", "write"}
       /\ CoreRequest.kind = "read" => CoreRequest = ReadRequest(CoreRequest.address)
       /\ CoreRequest.kind = "write" =>
            CoreRequest = WriteRequest(CoreRequest.address, CoreRequest.data)
<1> DEFINE data == (reg_memory_data \div StoreWeight[ctl_state]) % ByteSize
<1>1. CASE ctl_state \in FetchStates
  <2>1. CoreRequest = ReadRequest(reg_pc)
    BY <1>1 DEF CoreRequest, FetchStates, LoadStates, StoreStates
  <2>2. QED
    BY <1>1, <2>1 DEF IsRequesting, ReadRequest, NoRequest
<1>2. CASE ctl_state \in LoadStates
  <2>1. CoreRequest = ReadRequest(TrimAddress(reg_target))
    BY <1>2 DEF CoreRequest, FetchStates, LoadStates, StoreStates
  <2>2. QED
    BY <1>2, <2>1 DEF IsRequesting, ReadRequest, NoRequest
<1>3. CASE ctl_state \in StoreStates
  <2>1. CoreRequest = WriteRequest(TrimAddress(reg_target), data)
    BY <1>3 DEF CoreRequest, FetchStates, LoadStates, StoreStates
  <2> HIDE DEF data
  <2>2. QED
    BY <1>3, <2>1 DEF IsRequesting, WriteRequest, NoRequest
<1>4. CASE ctl_state \notin FetchStates \cup LoadStates \cup StoreStates
  <2>1. CoreRequest = NoRequest
    BY <1>4 DEF CoreRequest
  <2>2. QED
    BY <1>4, <2>1 DEF IsRequesting
<1>5. QED
  BY <1>1, <1>2, <1>3, <1>4

\* What a granted request makes the access under way.
LEMMA GrantedAccess ==
  ASSUME NEW requests, NEW p \in Port, Grant(requests, p),
         requests[p].kind = "read" \/ requests[p].kind = "write",
         requests[p].kind = "read" => requests[p] = ReadRequest(requests[p].address),
         requests[p].kind = "write" =>
           requests[p] = WriteRequest(requests[p].address, requests[p].data)
  PROVE  /\ Serving(p)' /\ Access' = requests[p]
         /\ \A q \in Port : Serving(q)' => q = p
<1>1. mem_state' = IF requests[p].kind = "read" THEN ReadState[p] ELSE WriteState[p]
  BY DEF Grant
<1>2. mem_address' = requests[p].address /\ mem_data' = requests[p].data
  BY DEF Grant
<1>3. CASE p = 1
  BY <1>1, <1>2, <1>3 DEF Port, ReadState, WriteState, Serving, Access, IsWriting
<1>4. CASE p = 2
  BY <1>1, <1>2, <1>4 DEF Port, ReadState, WriteState, Serving, Access, IsWriting
<1>5. QED
  BY <1>3, <1>4 DEF Port

\* In READY no port is served or told that it is done.
LEMMA ReadyServesNone ==
  /\ mem_state = "READY" => \A p \in Port : ~Serving(p) /\ ~Done(p)
  /\ mem_state' = "READY" => \A p \in Port : ~Serving(p)'
  BY DEF Port, ReadState, WriteState, Serving, Done

\* The port of the computer keeps its request until it is done.
LEMMA ComputerHolds ==
  ASSUME ComputerPort, ~Done(1), computer_request # NoRequest
  PROVE  computer_request' = computer_request
  BY DEF ComputerPort

LEMMA ComputerRequests ==
  ASSUME RequestOK, ComputerPort, scenario' = scenario
  PROVE  RequestOK'
  BY ScenarioAssumption DEF RequestOK, ComputerPort

\* The CPU keeps its request until it is done.
LEMMA CpuHolds ==
  ASSUME NEW in \in CoreInputs, CoreClock(in), ~Done(2), IsRequesting
  PROVE  UNCHANGED core_vars
  BY DEF CoreInputs, CoreClock

LEMMA SameCoreSameRequest ==
  ASSUME UNCHANGED core_vars
  PROVE  CoreRequest' = CoreRequest /\ IsRequesting' = IsRequesting
  BY DEF core_vars, CoreRequest, IsRequesting, StoreWeight, High

-----------------------------------------------------------------------------
(***************************************************************************)
(* The two halves of a cycle: the controller with the computer's port, and *)
(* with the CPU's.                                                         *)
(***************************************************************************)
LEMMA ComputerStep ==
  ASSUME RequestOK, ComputerIsServed, MemoryClock(PortRequests), ComputerPort
  PROVE  ComputerIsServed'
<1>1. ASSUME NEW p \in Port, Grant(PortRequests, p)
      PROVE  ComputerIsServed'
  <2>1. mem_state = "READY" /\ PortRequests[p] # NoRequest
    BY <1>1 DEF Grant
  <2>2. CASE p = 1
    <3>1. PortRequests[1] = computer_request /\ computer_request \in Request
      BY <2>1, <2>2 DEF PortRequests, RequestOK
    <3>2. Access' = computer_request
      BY <1>1, <2>2, <3>1, RequestKinds, GrantedAccess
    <3>3. computer_request' = computer_request
      BY <2>1, <2>2, <3>1, ComputerHolds, ReadyServesNone DEF Port
    <3>4. QED
      BY <3>2, <3>3 DEF ComputerIsServed
  <2>3. CASE p = 2
    <3>1. PortRequests[2] = CoreRequest
      BY DEF PortRequests
    <3>2. ~Serving(1)'
      BY <1>1, <2>1, <2>3, <3>1, CoreRequestKinds, GrantedAccess DEF Port
    <3>3. QED
      BY <3>2 DEF ComputerIsServed
  <2>4. QED
    BY <2>2, <2>3 DEF Port
<1>2. CASE StayReady(PortRequests) \/ FinishAccess
  <2>1. mem_state' = "READY"
    BY <1>2 DEF StayReady, FinishAccess
  <2>2. QED
    BY <2>1, ReadyServesNone DEF ComputerIsServed, Port
<1>3. CASE Delay
  <2>1. UNCHANGED <<mem_state, mem_address, mem_data>> /\ ~Done(1)
    BY <1>3 DEF Delay, Done
  <2>2. SUFFICES ASSUME Serving(1)' PROVE Access' = computer_request'
    BY DEF ComputerIsServed
  <2>3. Serving(1) /\ Access' = Access
    BY <2>1, <2>2 DEF Serving, Access, IsWriting
  <2>4. Access = computer_request
    BY <2>3 DEF ComputerIsServed
  <2>5. computer_request # NoRequest
    BY <2>4 DEF Access, ReadRequest, WriteRequest, NoRequest
  <2>6. QED
    BY <2>1, <2>3, <2>4, <2>5, ComputerHolds
<1>4. QED
  BY <1>1, <1>2, <1>3 DEF MemoryClock

LEMMA CpuStep ==
  ASSUME CpuIsServed, RequestOK, MemoryClock(PortRequests), NEW in \in CoreInputs, CoreClock(in),
         StaleAnswer
  PROVE  CpuIsServed'
<1>1. SUFFICES ASSUME Serving(2)', ~stale' PROVE (IsRequesting /\ Access = CoreRequest)'
  BY DEF CpuIsServed
<1>2. mem_state' # "READY" /\ ~stale
  BY <1>1, ReadyServesNone DEF Port, StaleAnswer
<1>3. ASSUME NEW p \in Port, Grant(PortRequests, p)
      PROVE  (IsRequesting /\ Access = CoreRequest)'
  <2>1. mem_state = "READY" /\ PortRequests[p] # NoRequest
    BY <1>3 DEF Grant
  <2>2. CASE p = 1
    <3>1. PortRequests[1] = computer_request /\ computer_request \in Request
      BY <2>1, <2>2 DEF PortRequests, RequestOK
    <3>2. ~Serving(2)'
      BY <1>3, <2>2, <3>1, RequestKinds, GrantedAccess DEF Port
    <3>3. QED
      BY <1>1, <3>2
  <2>3. CASE p = 2
    <3>1. PortRequests[2] = CoreRequest
      BY DEF PortRequests
    <3>2. Access' = CoreRequest /\ IsRequesting
      BY <1>3, <2>1, <2>3, <3>1, CoreRequestKinds, GrantedAccess
    <3>3. UNCHANGED core_vars
      BY <2>1, <3>2, CpuHolds, ReadyServesNone DEF Port
    <3>4. QED
      BY <3>2, <3>3, SameCoreSameRequest
  <2>4. QED
    BY <2>2, <2>3 DEF Port
<1>4. CASE StayReady(PortRequests) \/ FinishAccess
  BY <1>2, <1>4 DEF StayReady, FinishAccess
<1>5. CASE Delay
  <2>1. UNCHANGED <<mem_state, mem_address, mem_data>> /\ ~Done(2)
    BY <1>5 DEF Delay, Done
  <2>2. Serving(2) /\ Access' = Access
    BY <1>1, <2>1 DEF Serving, Access, IsWriting
  <2>3. IsRequesting /\ Access = CoreRequest
    BY <1>2, <2>2 DEF CpuIsServed
  <2>4. QED
    BY <2>1, <2>2, <2>3, CpuHolds, SameCoreSameRequest
<1>6. QED
  BY <1>3, <1>4, <1>5 DEF MemoryClock

-----------------------------------------------------------------------------
\* What the parts other than the CPU do in a cycle.
LEMMA OthersStep ==
  ASSUME NEW signals, Others(signals), PortInv
  PROVE  MemoryClock(PortRequests) /\ RequestOK' /\ ComputerIsServed'
<1>1. MemoryClock(PortRequests) /\ ComputerPort /\ scenario' = scenario
  BY DEF Others
<1>2. QED
  BY <1>1, ComputerRequests, ComputerStep DEF PortInv

THEOREM PortInductive == BoardSpec => []PortInv
<1>1. BoardInit => PortInv
  <2>1. SUFFICES ASSUME BoardInit PROVE PortInv
    OBVIOUS
  <2>2. RequestOK /\ mem_state = "READY"
    BY <2>1 DEF BoardInit, MemoryInit, RequestOK
  <2>3. QED
    BY <2>2, ReadyServesNone DEF PortInv, ComputerIsServed, CpuIsServed, Port
<1>2. PortInv /\ [BoardNext]_vars => PortInv'
  <2>1. SUFFICES ASSUME PortInv, [BoardNext]_vars PROVE PortInv'
    OBVIOUS
  <2>2. CASE CpuClock
    <3>1. PICK signals \in SUBSET (scenario.signals \ {"reset", "board"}), in \in CoreInputs :
            CoreClock(in) /\ Others(signals) /\ StaleAnswer
      BY <2>2 DEF CpuClock
    <3>2. QED
      BY <2>1, <3>1, OthersStep, CpuStep DEF PortInv
  <2>3. CASE CpuReset
    <3>1. PICK signals \in SUBSET (scenario.signals \ {"board"}) :
            Others(signals) /\ stale' = (mem_state' \in {"READ2", "WRITE2"})
      BY <2>3 DEF CpuReset
    <3>2. CpuIsServed'
      BY <3>1 DEF CpuIsServed, Serving, ReadState, WriteState
    <3>3. QED
      BY <2>1, <3>1, <3>2, OthersStep DEF PortInv
  <2>4. CASE BoardReset
    <3>1. /\ mem_state' = "READY" /\ computer_request' = NoRequest
          /\ scenario' = scenario
      BY <2>4 DEF BoardReset, ComputerPortReset, MemoryClockReset, MemoryReset
    <3>2. QED
      BY <2>1, <3>1, ReadyServesNone
      DEF PortInv, RequestOK, ComputerIsServed, CpuIsServed, Port
  <2>5. CASE UNCHANGED vars
    <3>1. UNCHANGED <<core_vars, memory_vars, computer_request, scenario, stale>>
      BY <2>5 DEF vars, bound_vars, history_vars
    <3>2. (Access' = Access) /\ (Serving(1)' = Serving(1)) /\ (Serving(2)' = Serving(2))
      BY <3>1 DEF memory_vars, Access, IsWriting, Serving
    <3>3. QED
      BY <2>1, <3>1, <3>2, SameCoreSameRequest
      DEF PortInv, RequestOK, ComputerIsServed, CpuIsServed
  <2>6. QED
    BY <2>1, <2>2, <2>3, <2>4, <2>5 DEF BoardNext
<1>3. QED
  BY <1>1, <1>2, PTL DEF BoardSpec

\* The access that a port is told to be done is the one it asks for, on both ports
\* and in every interleaving of their requests, unless the CPU has been reset.
THEOREM EveryAnswerFits == BoardSpec => []AnswersFit
<1>1. PortInv => AnswersFit
  BY DEF PortInv, ComputerIsServed, CpuIsServed, AnswersFit, Done
<1>2. QED
  BY <1>1, PortInductive, PTL

-----------------------------------------------------------------------------
(***************************************************************************)
(* From the answers to the bytes: what the CPU takes for an instruction.   *)
(***************************************************************************)
\* The instruction register has its four bytes.
InstructionInv == DOMAIN reg_instruction = 0 .. 3

\* Only the states that read the instruction write its register.
LEMMA CoreKeepsInstruction ==
  ASSUME InstructionInv, NEW in \in CoreInputs, CoreClock(in)
  PROVE  InstructionInv'
<1>1. CASE UNCHANGED core_vars
  BY <1>1 DEF core_vars, InstructionInv
<1>2. CASE CoreStep(in)
  <2>1. CASE Fetch(in)
    BY <2>1 DEF Fetch, InstructionInv
  <2>2. CASE ~Fetch(in)
    <3>1. CASE Stuck \/ Int0 \/ Int5(in)
      BY <3>1 DEF Stuck, Int0, Int5, core_vars, InstructionInv
    <3>2. CASE Disabled(in) \/ Decode0(in)
      BY <3>2 DEF Disabled, Decode0, InstructionInv
    <3>3. CASE F2Decode1(in) \/ F34Decode1(in)
      BY <3>3 DEF F2Decode1, F34Decode1, InstructionInv
    <3>4. CASE Load(in) \/ Store(in)
      BY <3>4 DEF Load, Store, InstructionInv
    <3>5. CASE F34Decode2(in) \/ F34BDecode3(in) \/ F34WDecode3(in)
      BY <3>5 DEF F34Decode2, F34BDecode3, F34WDecode3, InstructionInv
    <3>6. QED
      BY <1>2, <2>2, <3>1, <3>2, <3>3, <3>4, <3>5 DEF CoreStep
  <2>3. QED
    BY <2>1, <2>2
<1>3. QED
  BY <1>1, <1>2 DEF CoreClock

THEOREM InstructionInductive == BoardSpec => []InstructionInv
<1>1. BoardInit => InstructionInv
  BY DEF BoardInit, CoreInit, InstructionInv
<1>2. InstructionInv /\ [BoardNext]_vars => InstructionInv'
  <2>1. SUFFICES ASSUME InstructionInv, [BoardNext]_vars PROVE InstructionInv'
    OBVIOUS
  <2>2. CASE CpuClock
    BY <2>1, <2>2, CoreKeepsInstruction DEF CpuClock
  <2>3. CASE CpuReset \/ BoardReset
    BY <2>3 DEF CpuReset, BoardReset, CoreReset, InstructionInv
  <2>4. CASE UNCHANGED vars
    BY <2>1, <2>4 DEF vars, core_vars, InstructionInv
  <2>5. QED
    BY <2>1, <2>2, <2>3, <2>4 DEF BoardNext
<1>3. QED
  BY <1>1, <1>2, PTL DEF BoardSpec

\* In the first state of an instruction the core does nothing but fetch.
LEMMA FetchStep ==
  ASSUME ctl_state = "INSN0", ctl_state' # "INSN0", NEW in \in CoreInputs, CoreClock(in)
  PROVE  Done(2) /\ Fetch(in)
<1>1. IsRequesting
  BY DEF IsRequesting, FetchStates
<1>2. in.done = Done(2) /\ in.done /\ CoreStep(in)
  BY <1>1 DEF CoreClock, CoreInputs, core_vars
<1>3. ctl_state \notin LoadStates /\ ctl_state \notin StoreStates
  BY DEF LoadStates, StoreStates
<1>4. ~Load(in) /\ ~Store(in) /\ ~Stuck /\ ~Int0 /\ ~Int5(in)
  BY <1>3 DEF Load, Store, Stuck, Int0, Int5
<1>5. ~Disabled(in) /\ ~Decode0(in) /\ ~F2Decode1(in) /\ ~F34Decode1(in)
  BY DEF Disabled, Decode0, F2Decode1, F34Decode1
<1>6. ~F34Decode2(in) /\ ~F34BDecode3(in) /\ ~F34WDecode3(in)
  BY DEF F34Decode2, F34BDecode3, F34WDecode3
<1>7. QED
  BY <1>2, <1>4, <1>5, <1>6 DEF CoreStep

\* FetchIsOfMemory with its one exception: the first byte of an instruction is the
\* one that memory holds at the program counter, unless the access that answers
\* was asked for before a reset of the CPU.
FetchIsOfMemoryUnlessStale ==
  [][ctl_state = "INSN0" /\ ctl_state' = "DECODE0" /\ ~stale =>
       reg_instruction'[0] = ram[reg_pc]]_vars

\* Whenever the computer reads and writes memory, the CPU begins no instruction
\* with a byte other than the one in its program, but for that exception.
THEOREM FetchesAreOfMemory == BoardSpec => FetchIsOfMemoryUnlessStale
<1>1. PortInv /\ InstructionInv /\ [BoardNext]_vars =>
        [ctl_state = "INSN0" /\ ctl_state' = "DECODE0" /\ ~stale =>
           reg_instruction'[0] = ram[reg_pc]]_vars
  <2>1. SUFFICES ASSUME PortInv, InstructionInv, BoardNext,
                        ctl_state = "INSN0", ctl_state' = "DECODE0", ~stale
                 PROVE  reg_instruction'[0] = ram[reg_pc]
    OBVIOUS
  <2>2. CpuClock
    BY <2>1 DEF BoardNext, CpuReset, BoardReset, CoreReset
  <2>3. PICK in \in CoreInputs : CoreClock(in)
    BY <2>2 DEF CpuClock
  <2>4. Done(2) /\ Fetch(in)
    BY <2>1, <2>3, FetchStep
  <2>5. reg_instruction'[0] = in.data
    BY <2>1, <2>4 DEF Fetch, FetchIndex, InstructionInv
  <2>6. Serving(2) /\ Access = CoreRequest
    BY <2>1, <2>4 DEF Done, PortInv, CpuIsServed
  <2>7. CoreRequest = ReadRequest(reg_pc)
    BY <2>1 DEF CoreRequest, FetchStates, LoadStates, StoreStates
  <2>8. mem_state = "READ2" /\ mem_address = reg_pc
    BY <2>6, <2>7 DEF Access, ReadRequest, WriteRequest, IsWriting, Serving, Port,
                      ReadState, WriteState
  <2>9. in.data = ram[reg_pc]
    BY <2>3, <2>8 DEF CoreInputs, DataIn, ReadState
  <2>10. QED
    BY <2>5, <2>9
<1>2. QED
  BY <1>1, PortInductive, InstructionInductive, PTL DEF BoardSpec, FetchIsOfMemoryUnlessStale

-----------------------------------------------------------------------------
(***************************************************************************)
(* The CPU by itself, for every size of bytes, words and memory that the   *)
(* status word fits: whatever memory, devices and signals give it, its     *)
(* registers keep their widths and it never reaches a control state with   *)
(* an instruction for which that state is not made.                        *)
(***************************************************************************)
CoreAssumption ==
  /\ \A a, b \in Word : BitAnd(a, b) \in Word /\ BitOr(a, b) \in Word /\ BitXor(a, b) \in Word
  /\ 26 < WordSize  \* the largest status word

-----------------------------------------------------------------------------
(***************************************************************************)
(* The inductive invariant.  A control state does one of several things by *)
(* the instruction, and some results are only defined for those that get   *)
(* there: the opcode must have been sorted out on the way.                 *)
(***************************************************************************)
F2Insn == LongMnemonic \ {"EINT", "DINT", "RINT"}

WordInsn == DOMAIN LoadRegister \cup {"COMP", "TIX", "ADD", "SUB", "MUL", "AND", "OR", "XOR"}

IndirectState == {"F34_INDIRECT0", "F34_INDIRECT1", "F34_INDIRECT2"}

WordState == {"F34W_LOAD0", "F34W_LOAD1", "F34W_LOAD2", "F34W_DECODE3"}

InsnInv ==
  /\ ctl_state \in {"F2_INSN1", "F2_DECODE1"} => Insn \in F2Insn
  /\ ctl_state \in {"F34_INSN1", "F34_INSN2", "F34_INSN3", "F34_DECODE1"} => Insn \in ShortMnemonic
  /\ ctl_state \in IndirectState \cup {"F34_DECODE2"} => Insn \in ShortMnemonic \ {"RSUB"}
  /\ ctl_state \in WordState => Insn \in WordInsn

CoreInv == CoreTypeOK /\ InsnInv

-----------------------------------------------------------------------------
(***************************************************************************)
(* The instruction register and the operands.                              *)
(***************************************************************************)
LEMMA InsnKinds ==
  ASSUME CoreTypeOK
  PROVE  Insn \in LongMnemonic \cup ShortMnemonic \cup {"none"}
<1>1. \A byte \in LongOpcodes : (CHOOSE m \in LongMnemonic : Opcode[m] = byte) \in LongMnemonic
  BY DEF LongOpcodes
<1>2. \A short \in ShortOpcodes : (CHOOSE m \in ShortMnemonic : Opcode[m] = short) \in ShortMnemonic
  BY DEF ShortOpcodes
<1>3. reg_instruction[0] \in Byte
  BY DEF CoreTypeOK
<1>4. QED
  BY <1>1, <1>2, <1>3 DEF Insn, InsnOf

LEMMA FieldTypes ==
  ASSUME CoreTypeOK
  PROVE  /\ InsnR1 \in Nat /\ InsnR2 \in 0 .. 15
         /\ OperandF3 \in Nat /\ OperandF4 \in Nat /\ OperandSic \in Nat
<1>1. \A k \in 0 .. 3 : reg_instruction[k] \in Nat
  BY Sizes DEF CoreTypeOK, Byte
<1>2. reg_instruction[1] \in Nat /\ reg_instruction[2] \in Nat /\ reg_instruction[3] \in Nat
  BY <1>1
<1>3. OperandF3 \in Nat
  BY <1>2 DEF OperandF3
<1>4. QED
  BY <1>2, <1>3 DEF InsnR1, InsnR2, OperandF4, OperandSic

LEMMA TargetTypes ==
  ASSUME CoreTypeOK
  PROVE  DirectTarget \in Word /\ IndexedTarget \in Word
<1>1. /\ reg_pc \in Int /\ reg_general[REG_B] \in Int /\ reg_general[REG_X] \in Int
  BY DEF CoreTypeOK, Address, Word, GeneralId, REG_B, REG_X
<1>2. SignExtendF3Operand(OperandF3) \in Int
  BY FieldTypes, Sizes DEF SignExtendF3Operand
<1>3. DirectTarget \in Word
  <2> DEFINE operand == IF IsSic THEN OperandSic
                        ELSE IF FlagE THEN OperandF4
                        ELSE IF FlagP THEN SignExtendF3Operand(OperandF3)
                        ELSE OperandF3
             offset == IF FlagB /\ ~FlagP THEN reg_general[REG_B]
                       ELSE IF FlagP /\ ~FlagB THEN reg_pc
                       ELSE 0
  <2>1. operand \in Int
    BY <1>2, FieldTypes
  <2>2. offset \in Int
    BY <1>1
  <2> HIDE DEF operand, offset
  <2>3. operand + offset \in Int
    BY <2>1, <2>2
  <2>4. QED
    BY <2>3, TrimWordType DEF DirectTarget, operand, offset
<1>4. DirectTarget + reg_general[REG_X] \in Int
  BY <1>1, <1>3 DEF Word
<1>5. QED
  BY <1>3, <1>4, TrimWordType DEF IndexedTarget

-----------------------------------------------------------------------------
(***************************************************************************)
(* Results.                                                                *)
(***************************************************************************)
LEMMA ResizedType == ASSUME NEW v \in Int PROVE Resized(v) \in Word
<1> DEFINE half == WordSize \div 2
<1>1. half \in Nat /\ half > 0 /\ 2 * half <= WordSize
  BY Sizes DEF WordSize
<1> HIDE DEF half
<1>2. v % half \in 0 .. half - 1
  BY <1>1
<1>3. QED
  BY <1>1, <1>2, Sizes DEF Resized, Word, half

AluOperation ==
  {"ADD", "ADDR", "SUB", "SUBR", "MUL", "MULR", "AND", "ANDR", "OR", "ORR", "XOR", "XORR"}

LEMMA AluType ==
  ASSUME CoreAssumption, NEW operation \in AluOperation, NEW a \in Word, NEW b \in Word
  PROVE  Alu(operation, a, b) \in Word
<1>1. a + b \in Int /\ a - b \in Int
  BY DEF Word
<1>2. SignExtendWord(a) * SignExtendWord(b) \in Int
  BY SignExtendWordType
<1>3. /\ TrimWord(a + b) \in Word /\ TrimWord(a - b) \in Word
      /\ Resized(SignExtendWord(a) * SignExtendWord(b)) \in Word
  BY <1>1, <1>2, TrimWordType, ResizedType
<1>4. BitAnd(a, b) \in Word /\ BitOr(a, b) \in Word /\ BitXor(a, b) \in Word
  BY DEF CoreAssumption
<1>5. QED
  BY <1>3, <1>4 DEF Alu, AluOperation

LEMMA ShiftFactorType == \A n \in 0 .. 15 : ShiftFactor[n] \in Nat \ {0}
<1> SUFFICES ASSUME NEW n \in 0 .. 15 PROVE ShiftFactor[n] \in Nat \ {0}
  OBVIOUS
<1>1. \/ n = 0 \/ n = 1 \/ n = 2 \/ n = 3 \/ n = 4 \/ n = 5 \/ n = 6 \/ n = 7
      \/ n = 8 \/ n = 9 \/ n = 10 \/ n = 11 \/ n = 12 \/ n = 13 \/ n = 14 \/ n = 15
  OBVIOUS
<1>2. QED
  BY <1>1 DEF ShiftFactor

LEMMA ComparedType == \A a, b : Compared(a, b) \in {LT, EQ, GT}
  BY DEF Compared

LEMMA F2ResultType ==
  ASSUME CoreAssumption, CoreTypeOK, Insn \in F2Insn \ {"COMPR", "TIXR"}, ValidRegisters
  PROVE  F2Result \in Word /\ F2Destination \in GeneralId
<1>1. /\ Operand1 \in Word
      /\ Insn \notin {"CLEAR", "NOT", "SHIFTL", "SHIFTR"} => reg_general[InsnR2] \in Word
  BY DEF CoreTypeOK, ValidRegisters, Operand1, F2Insn
<1>2. F2Destination \in GeneralId
  BY DEF F2Destination, ValidRegisters, F2Insn
<1>3. WordSize - 1 - Operand1 \in Word /\ 0 \in Word
  BY <1>1, Sizes DEF Word
<1>4. ShiftFactor[InsnR2] \in Nat \ {0}
  BY FieldTypes, ShiftFactorType
<1>5. SignExtendWord(Operand1) \in Int
  BY <1>1, SignExtendWordType
<1>6. /\ SignExtendWord(Operand1) * ShiftFactor[InsnR2] \in Int
      /\ SignExtendWord(Operand1) \div ShiftFactor[InsnR2] \in Int
  BY <1>4, <1>5
<1>7. /\ TrimWord(SignExtendWord(Operand1) * ShiftFactor[InsnR2]) \in Word
      /\ TrimWord(SignExtendWord(Operand1) \div ShiftFactor[InsnR2]) \in Word
  BY <1>6, TrimWordType
<1>8. Insn \in F2Insn \ {"COMPR", "TIXR", "CLEAR", "NOT", "SHIFTL", "SHIFTR", "RMO"} =>
        Insn \in AluOperation
  BY DEF F2Insn, LongMnemonic, F2Mnemonic, AluOperation
<1>9. Insn \in AluOperation => Alu(Insn, reg_general[InsnR2], Operand1) \in Word
  BY <1>1, AluType DEF AluOperation
<1>10. QED
  BY <1>1, <1>2, <1>3, <1>7, <1>8, <1>9 DEF F2Result

LEMMA LoadWeightSplits ==
  ASSUME NEW s \in LoadStates
  PROVE  /\ LoadWeight[s] \in Nat \ {0}
         /\ \E k \in Nat \ {0} : k * ByteSize * LoadWeight[s] = WordSize
<1>1. LoadWeight[s] \in {High, ByteSize, 1}
  BY DEF LoadWeight, LoadStates
<1>2. ByteSize \in Nat /\ ByteSize > 1
  BY Sizes
<1>3. High \in Nat /\ High > 0
  BY <1>2 DEF High
<1>4. CASE LoadWeight[s] = High
  <2>1. 1 * ByteSize * High = WordSize
    BY <1>2 DEF High, WordSize
  <2>2. QED
    BY <1>3, <1>4, <2>1
<1>5. CASE LoadWeight[s] = ByteSize
  <2>1. ByteSize * ByteSize * ByteSize = WordSize
    BY DEF WordSize
  <2>2. QED
    BY <1>2, <1>5, <2>1
<1>6. CASE LoadWeight[s] = 1
  <2>1. High * ByteSize * 1 = WordSize
    BY <1>2 DEF High, WordSize
  <2>2. QED
    BY <1>3, <1>6, <2>1
<1>7. QED
  BY <1>1, <1>4, <1>5, <1>6

LEMMA WithByteType ==
  ASSUME NEW word \in Word, NEW s \in LoadStates, NEW byte \in Byte
  PROVE  WithByte(word, LoadWeight[s], byte) \in Word
<1>1. PICK k \in Nat \ {0} : k * ByteSize * LoadWeight[s] = WordSize
  BY LoadWeightSplits
<1>2. LoadWeight[s] \in Nat \ {0}
  BY LoadWeightSplits
<1> DEFINE weight == LoadWeight[s]
<1> HIDE DEF weight
<1>3. word - ((word \div weight) % ByteSize) * weight + byte * weight \in Word
  BY <1>1, <1>2, ByteReplaced DEF weight
<1>4. QED
  BY <1>3 DEF WithByte, weight

-----------------------------------------------------------------------------
(***************************************************************************)
(* Every clock cycle keeps the invariant.                                  *)
(***************************************************************************)
LEMMA SameInsn == ASSUME reg_instruction'[0] = reg_instruction[0] PROVE Insn' = Insn
  BY DEF Insn

IdleState == {"DISABLED", "INSN0", "INT0"}

LEMMA FinishState == ASSUME NEW in, Finish(in) \/ AfterEnable(in) PROVE ctl_state' \in IdleState
  BY DEF Finish, AfterEnable, IdleState

\* Between instructions, in the interrupt cycle and in a store the instruction
\* does not matter.
AnyInsnState ==
  IdleState \cup StoreStates
    \cup {"ERROR", "DECODE0", "INT2", "INT3", "INT4", "INT5", "F34B_LOAD0", "F34B_DECODE3"}

LEMMA AnyInsn ==
  ASSUME ctl_state' \in AnyInsnState
  PROVE  /\ InsnInv'
         /\ ctl_state' \in FetchStates \cup LoadStates \cup StoreStates \cup OtherStates
  BY DEF AnyInsnState, IdleState, InsnInv, StoreStates, IndirectState, WordState, FetchStates,
         LoadStates, OtherStates

LEMMA FetchKeeps == ASSUME CoreInv, NEW in \in CoreInput, Fetch(in) PROVE CoreInv'
<1>1. reg_pc' \in Address
  <2>1. reg_pc + 1 \in Int
    BY DEF CoreInv, CoreTypeOK, Address
  <2>2. QED
    BY <2>1, TrimAddressType DEF Fetch
<1>2. reg_instruction' \in [0 .. 3 -> Byte]
  BY DEF CoreInv, CoreTypeOK, CoreInput, Fetch
<1>3. CoreTypeOK'
  <2>1. ctl_state' \in FetchStates \cup OtherStates
    BY DEF Fetch, AfterFetch, FetchStates, OtherStates
  <2>2. reg_interrupt' \in BOOLEAN
    BY DEF CoreInv, CoreTypeOK, Fetch
  <2>3. QED
    BY <1>1, <1>2, <2>1, <2>2 DEF CoreInv, CoreTypeOK, Fetch
<1>4. InsnInv'
  <2>1. CASE ctl_state = "INSN0"
    BY <2>1, AnyInsn DEF Fetch, AfterFetch, AnyInsnState
  <2>2. CASE ctl_state # "INSN0"
    <3>1. FetchIndex[ctl_state] # 0
      BY <2>2 DEF Fetch, FetchStates, FetchIndex
    <3>2. Insn' = Insn
      BY <3>1, SameInsn DEF CoreInv, CoreTypeOK, Fetch
    <3>3. QED
      BY <2>2, <3>2 DEF CoreInv, InsnInv, Fetch, AfterFetch, FetchStates, IndirectState, WordState
  <2>3. QED
    BY <2>1, <2>2
<1>5. QED
  BY <1>3, <1>4 DEF CoreInv

LEMMA Decode0Keeps == ASSUME CoreInv, NEW in \in CoreInput, Decode0(in) PROVE CoreInv'
<1>1. CASE DecodeLonger
  <2>1. Insn' = Insn
    BY SameInsn DEF Decode0
  <2>2. ctl_state' = "F2_INSN1" => Insn \in F2Insn
    BY <1>1 DEF DecodeLonger, F2Insn
  <2>3. ctl_state' = "F34_INSN1" => Insn \in ShortMnemonic
    BY <1>1, InsnKinds DEF DecodeLonger, CoreInv
  <2>4. ctl_state' \in {"ERROR", "F2_INSN1", "F34_INSN1"}
    BY <1>1 DEF DecodeLonger
  <2>5. InsnInv'
    BY <2>1, <2>2, <2>3, <2>4 DEF InsnInv, IndirectState, WordState
  <2>6. CoreTypeOK'
    BY <1>1, <2>4 DEF DecodeLonger, Decode0, CoreInv, CoreTypeOK, FetchStates, OtherStates
  <2>7. QED
    BY <2>5, <2>6 DEF CoreInv
<1>2. CASE F1_EINT(in) \/ F1_DINT(in) \/ F1_RINT(in)
  <2>1. ctl_state' \in IdleState
    BY <1>2, FinishState DEF F1_EINT, F1_DINT, F1_RINT
  <2>2. /\ reg_pc' \in Address /\ reg_cc' \in {LT, EQ, GT}
        /\ reg_interrupt' \in BOOLEAN /\ reg_interrupt_next' \in BOOLEAN
    BY <1>2 DEF F1_EINT, F1_DINT, F1_RINT, CoreInv, CoreTypeOK
  <2>3. InsnInv' /\ ctl_state' \in FetchStates \cup LoadStates \cup StoreStates \cup OtherStates
    BY <2>1, AnyInsn DEF AnyInsnState
  <2>4. QED
    BY <2>2, <2>3 DEF Decode0, CoreInv, CoreTypeOK
<1>3. QED
  BY <1>1, <1>2 DEF Decode0

LEMMA IncrementXType ==
  ASSUME CoreTypeOK, NEW operand, IncrementX(operand)
  PROVE  reg_general' \in [GeneralId -> Word] /\ reg_cc' \in {LT, EQ, GT}
<1>1. reg_general[REG_X] + 1 \in Int
  BY DEF CoreTypeOK, GeneralId, REG_X, Word
<1>2. TrimWord(reg_general[REG_X] + 1) \in Word
  BY <1>1, TrimWordType
<1>3. QED
  BY <1>2, ComparedType DEF IncrementX, CoreTypeOK

LEMMA F2Decode1Keeps ==
  ASSUME CoreAssumption, CoreInv, NEW in \in CoreInput, F2Decode1(in)
  PROVE  CoreInv'
<1>1. Insn \in F2Insn
  BY DEF CoreInv, InsnInv, F2Decode1
<1>2. ctl_state' \in IdleState \cup {"ERROR"}
  BY FinishState DEF F2Decode1, F2Invalid, F2_ALU, F2_COMP, F2_TIX
<1>3. reg_general' \in [GeneralId -> Word] /\ reg_cc' \in {LT, EQ, GT}
  <2>1. CASE F2Invalid
    BY <2>1 DEF F2Invalid, CoreInv, CoreTypeOK
  <2>2. CASE ValidRegisters /\ F2_ALU(in)
    BY <1>1, <2>2, F2ResultType DEF F2_ALU, CoreInv, CoreTypeOK
  <2>3. CASE F2_COMP(in)
    BY <2>3, ComparedType DEF F2_COMP, CoreInv, CoreTypeOK
  <2>4. CASE F2_TIX(in)
    BY <2>4, IncrementXType DEF F2_TIX, CoreInv
  <2>5. QED
    BY <2>1, <2>2, <2>3, <2>4 DEF F2Decode1
<1>4. InsnInv' /\ ctl_state' \in FetchStates \cup LoadStates \cup StoreStates \cup OtherStates
  BY <1>2, AnyInsn DEF AnyInsnState
<1>5. QED
  BY <1>3, <1>4 DEF F2Decode1, CoreInv, CoreTypeOK

LEMMA F34Decode1Keeps ==
  ASSUME CoreInv, NEW in \in CoreInput, F34Decode1(in)
  PROVE  CoreInv'
<1>1. reg_target' \in Word
  BY TargetTypes DEF F34Decode1, CoreInv
<1>2. reg_pc' \in Address
  <2>1. reg_general[REG_L] \in Int
    BY DEF CoreInv, CoreTypeOK, GeneralId, REG_L, Word
  <2>2. TrimAddress(reg_general[REG_L]) \in Address
    BY <2>1, TrimAddressType
  <2>3. QED
    BY <2>2 DEF F34Decode1, CoreInv, CoreTypeOK
<1>3. InsnInv' /\ ctl_state' \in FetchStates \cup LoadStates \cup StoreStates \cup OtherStates
  <2>1. CASE ctl_state' \in IdleState \cup {"ERROR"}
    BY <2>1, AnyInsn DEF AnyInsnState
  <2>2. CASE ctl_state' \notin IdleState \cup {"ERROR"}
    <3>1. ctl_state' \in {"F34_INDIRECT0", "F34_DECODE2"} /\ Insn # "RSUB"
      BY <2>2, FinishState DEF F34Decode1
    <3>2. Insn' = Insn /\ Insn \in ShortMnemonic
      BY SameInsn DEF F34Decode1, CoreInv, InsnInv
    <3>3. QED
      BY <3>1, <3>2 DEF InsnInv, IndirectState, WordState, LoadStates, OtherStates
  <2>3. QED
    BY <2>1, <2>2
<1>4. QED
  BY <1>1, <1>2, <1>3 DEF F34Decode1, CoreInv, CoreTypeOK

LEMMA LoadKeeps == ASSUME CoreInv, NEW in \in CoreInput, Load(in) PROVE CoreInv'
<1> DEFINE word == WithByte(reg_memory_data, LoadWeight[ctl_state], in.data)
<1>1. word \in Word
  BY WithByteType DEF CoreInv, CoreTypeOK, CoreInput, Load
<1>2. reg_memory_data' = word
  BY DEF Load
<1> HIDE DEF word
<1>3. reg_target' \in Word
  <2>1. TrimWord(reg_target + 1) \in Word
    <3>1. reg_target + 1 \in Int
      BY DEF CoreInv, CoreTypeOK, Word
    <3>2. QED
      BY <3>1, TrimWordType
  <2>2. word % ByteSize \in Word
    BY <1>1, Sizes DEF Word, Byte
  <2>3. reg_target' \in {TrimWord(reg_target + 1), word, word % ByteSize, reg_target}
    <3>1. LoadWeight[ctl_state] = 1 =>
            ctl_state \in {"F34_INDIRECT2", "F34W_LOAD2", "F34B_LOAD0", "INT4"}
      <4>1. High > 1 /\ ByteSize > 1
        BY Sizes DEF High
      <4>2. QED
        BY <4>1 DEF Load, LoadStates, LoadWeight
    <3>2. QED
      BY <3>1 DEF Load, word
  <2>4. QED
    BY <1>1, <2>1, <2>2, <2>3 DEF CoreInv, CoreTypeOK
<1>4. InsnInv' /\ ctl_state' \in FetchStates \cup LoadStates \cup StoreStates \cup OtherStates
  <2>1. Insn' = Insn
    BY SameInsn DEF Load
  <2>2. QED
    BY <2>1 DEF Load, AfterLoad, CoreInv, InsnInv, IndirectState, WordState, LoadStates, OtherStates
<1>5. QED
  BY <1>1, <1>2, <1>3, <1>4 DEF Load, CoreInv, CoreTypeOK

LEMMA StoreKeeps == ASSUME CoreInv, NEW in \in CoreInput, Store(in) PROVE CoreInv'
<1>1. reg_target' \in Word
  <2>1. reg_target + 1 \in Int
    BY DEF CoreInv, CoreTypeOK, Word
  <2>2. QED
    BY <2>1, TrimWordType DEF Store, CoreInv, CoreTypeOK
<1>2. ctl_state' \in AnyInsnState
  BY FinishState DEF Store, StoreStates, AnyInsnState
<1>3. QED
  BY <1>1, <1>2, AnyInsn DEF Store, CoreInv, CoreTypeOK

\* What an immediate, a byte or a word operand leads to is an instruction that has
\* one: the others have been sorted out by then.
LEMMA OperandInsn ==
  ASSUME DecodeOperand, Insn \in ShortMnemonic \ {"RSUB"}
  PROVE  Insn \notin ByteInsn => Insn \in WordInsn
  BY DEF DecodeOperand, ShortMnemonic, StoreRegister, JumpCode, ByteInsn, WordInsn, LoadRegister

LEMMA StoreDataType ==
  ASSUME CoreAssumption, CoreTypeOK, DecodeStore
  PROVE  StoreData \in Word
<1>1. Insn \in DOMAIN StoreRegister \cup {"STSW", "STIL"}
  BY DEF DecodeStore
<1>2. CASE Insn \in DOMAIN StoreRegister
  <2>1. StoreRegister[Insn] \in GeneralId
    BY <1>2 DEF StoreRegister, GeneralId, REG_A, REG_X, REG_L, REG_B, REG_S, REG_T
  <2>2. StoreData = reg_general[StoreRegister[Insn]]
    BY <1>2 DEF StoreData, StoreRegister
  <2>3. QED
    BY <2>1, <2>2 DEF CoreTypeOK
<1>3. CASE Insn = "STSW"
  <2>1. BitValue(reg_interrupt, 16) \in {0, 16}
    BY DEF BitValue
  <2>2. reg_icc \in 0 .. 2 /\ reg_cc \in 0 .. 2
    BY DEF CoreTypeOK, LT, EQ, GT
  <2>3. StatusWord \in 0 .. 26
    BY <2>1, <2>2 DEF StatusWord
  <2>4. StoreData = StatusWord
    BY <1>3 DEF StoreData, StoreRegister
  <2>5. QED
    BY <2>3, <2>4, Sizes DEF CoreAssumption, Word
<1>4. CASE Insn = "STIL"
  BY <1>4 DEF StoreData, StoreRegister, CoreTypeOK
<1>5. QED
  BY <1>1, <1>2, <1>3, <1>4

LEMMA F34Decode2Keeps ==
  ASSUME CoreAssumption, CoreInv, NEW in \in CoreInput, F34Decode2(in)
  PROVE  CoreInv'
<1>1. Insn \in ShortMnemonic \ {"RSUB"} /\ Insn' = Insn
  BY SameInsn DEF F34Decode2, CoreInv, InsnInv
<1>2. CASE DecodeStore
  <2>1. reg_memory_data' \in Word
    BY <1>2, StoreDataType DEF DecodeStore, CoreInv, CoreTypeOK
  <2>2. ctl_state' \in AnyInsnState
    BY <1>2 DEF DecodeStore, AnyInsnState, StoreStates
  <2>3. QED
    BY <1>2, <2>1, <2>2, AnyInsn DEF F34Decode2, DecodeStore, CoreInv, CoreTypeOK
<1>3. CASE DecodeJump(in)
  <2>1. reg_target \in Int /\ reg_pc \in Word
    BY Sizes DEF CoreInv, CoreTypeOK, Word, Address
  <2>2. reg_pc' \in Address
    BY <1>3, <2>1, TrimAddressType DEF DecodeJump, CoreInv, CoreTypeOK
  <2>3. reg_general' \in [GeneralId -> Word]
    BY <1>3, <2>1 DEF DecodeJump, CoreInv, CoreTypeOK
  <2>4. ctl_state' \in AnyInsnState
    BY <1>3, FinishState DEF DecodeJump, AnyInsnState
  <2>5. QED
    BY <1>3, <2>2, <2>3, <2>4, AnyInsn DEF F34Decode2, DecodeJump, CoreInv, CoreTypeOK
<1>4. CASE DecodeOperand
  <2>1. CASE ctl_state' \in {"F34B_DECODE3", "F34B_LOAD0"}
    BY <1>4, <2>1, AnyInsn DEF AnyInsnState, F34Decode2, DecodeOperand, CoreInv, CoreTypeOK
  <2>2. CASE ctl_state' \notin {"F34B_DECODE3", "F34B_LOAD0"}
    <3>1. ctl_state' \in {"F34W_DECODE3", "F34W_LOAD0"} /\ Insn \notin ByteInsn
      BY <1>4, <2>2 DEF DecodeOperand
    <3>2. Insn' \in WordInsn
      BY <1>1, <1>4, <3>1, OperandInsn
    <3>3. InsnInv'
      BY <3>1, <3>2 DEF InsnInv, IndirectState, WordState
    <3>4. QED
      BY <1>4, <3>1, <3>3 DEF F34Decode2, DecodeOperand, CoreInv, CoreTypeOK, LoadStates, OtherStates
  <2>3. QED
    BY <2>1, <2>2
<1>5. QED
  BY <1>2, <1>3, <1>4 DEF F34Decode2

LEMMA F34BDecode3Keeps ==
  ASSUME CoreInv, NEW in \in CoreInput, F34BDecode3(in)
  PROVE  CoreInv'
<1>1. reg_general' \in [GeneralId -> Word]
  <2>1. in.port \in Word
    BY Sizes DEF CoreInput, Byte, Word
  <2>2. QED
    BY <2>1 DEF F34BDecode3, CoreInv, CoreTypeOK
<1>2. ctl_state' \in AnyInsnState
  BY FinishState DEF F34BDecode3, AnyInsnState
<1>3. reg_cc' \in {LT, EQ, GT}
  BY DEF F34BDecode3, CoreInv, CoreTypeOK
<1>4. QED
  BY <1>1, <1>2, <1>3, AnyInsn DEF F34BDecode3, CoreInv, CoreTypeOK

LEMMA F34WDecode3Keeps ==
  ASSUME CoreAssumption, CoreInv, NEW in \in CoreInput, F34WDecode3(in)
  PROVE  CoreInv'
<1>1. Insn \in WordInsn
  BY DEF CoreInv, InsnInv, F34WDecode3, WordState
<1>2. reg_general' \in [GeneralId -> Word] /\ reg_cc' \in {LT, EQ, GT}
  <2>1. CASE F34W_LDR
    BY <2>1 DEF F34W_LDR, CoreInv, CoreTypeOK
  <2>2. CASE F34W_COMP
    BY <2>2, ComparedType DEF F34W_COMP, CoreInv, CoreTypeOK
  <2>3. CASE F34W_TIX
    BY <2>3, IncrementXType DEF F34W_TIX, CoreInv
  <2>4. CASE F34W_ALU
    <3>1. Insn \in AluOperation
      BY <1>1, <2>4 DEF F34W_ALU, WordInsn, AluOperation
    <3>2. reg_general[REG_A] \in Word /\ reg_target \in Word
      BY DEF CoreInv, CoreTypeOK, GeneralId, REG_A
    <3>3. Alu(Insn, reg_general[REG_A], reg_target) \in Word
      BY <3>1, <3>2, AluType
    <3>4. QED
      BY <2>4, <3>3 DEF F34W_ALU, CoreInv, CoreTypeOK
  <2>5. QED
    BY <2>1, <2>2, <2>3, <2>4 DEF F34WDecode3
<1>3. ctl_state' \in AnyInsnState
  BY FinishState DEF F34WDecode3, AnyInsnState
<1>4. QED
  BY <1>2, <1>3, AnyInsn DEF F34WDecode3, CoreInv, CoreTypeOK

LEMMA InterruptKeeps ==
  ASSUME CoreInv, NEW in \in CoreInput, Int0 \/ Int5(in)
  PROVE  CoreInv'
<1>1. ctl_state' \in AnyInsnState
  BY FinishState DEF Int0, Int5, AnyInsnState
<1>2. AddressSize - 3 \in Word
  <2>1. AddressSize - 3 \in Address
    BY Sizes DEF Address
  <2>2. QED
    BY <2>1, Sizes
<1>3. TrimAddress(reg_memory_data) \in Address
  BY TrimAddressType DEF CoreInv, CoreTypeOK, Word
<1>4. CASE Int0
  BY <1>1, <1>2, <1>4, AnyInsn DEF Int0, CoreInv, CoreTypeOK
<1>5. CASE Int5(in)
  BY <1>1, <1>3, <1>5, AnyInsn DEF Int5, CoreInv, CoreTypeOK
<1>6. QED
  BY <1>4, <1>5

LEMMA UnchangedKeeps == ASSUME CoreInv, UNCHANGED core_vars PROVE CoreInv'
<1>1. Insn' = Insn
  BY DEF core_vars, Insn
<1>2. QED
  BY <1>1 DEF core_vars, CoreInv, CoreTypeOK, InsnInv

LEMMA CoreStarts ==
  /\ CoreInit => CoreInv
  /\ CoreReset => CoreInv'
<1>1. 0 \in Word /\ 0 \in Address /\ 0 \in Byte
  BY Sizes DEF Word, Address, Byte
<1>2. CoreInit => CoreInv
  BY <1>1 DEF CoreInit, CoreInv, CoreTypeOK, InsnInv, IndirectState, WordState, OtherStates
<1>3. CoreReset => CoreInv'
  BY <1>1 DEF CoreReset, CoreInv, CoreTypeOK, InsnInv, IndirectState, WordState, OtherStates
<1>4. QED
  BY <1>2, <1>3

LEMMA CoreClockKeeps ==
  ASSUME CoreAssumption, CoreInv, NEW in \in CoreInput, CoreClock(in)
  PROVE  CoreInv'
<1>1. CASE UNCHANGED core_vars
  BY <1>1, UnchangedKeeps
<1>2. CASE CoreStep(in)
  <2>1. CASE Stuck
    BY <2>1, UnchangedKeeps DEF Stuck
  <2>2. CASE Disabled(in)
    <3>1. ctl_state' \in AnyInsnState
      BY <2>2, FinishState DEF Disabled, AnyInsnState
    <3>2. QED
      BY <2>2, <3>1, AnyInsn DEF Disabled, CoreInv, CoreTypeOK
  <2>3. CASE Fetch(in)
    BY <2>3, FetchKeeps
  <2>4. CASE Decode0(in)
    BY <2>4, Decode0Keeps
  <2>5. CASE F2Decode1(in)
    BY <2>5, F2Decode1Keeps
  <2>6. CASE F34Decode1(in)
    BY <2>6, F34Decode1Keeps
  <2>7. CASE Load(in)
    BY <2>7, LoadKeeps
  <2>8. CASE Store(in)
    BY <2>8, StoreKeeps
  <2>9. CASE F34Decode2(in)
    BY <2>9, F34Decode2Keeps
  <2>10. CASE F34BDecode3(in)
    BY <2>10, F34BDecode3Keeps
  <2>11. CASE F34WDecode3(in)
    BY <2>11, F34WDecode3Keeps
  <2>12. CASE Int0 \/ Int5(in)
    BY <2>12, InterruptKeeps
  <2>13. QED
    BY <1>2, <2>1, <2>2, <2>3, <2>4, <2>5, <2>6, <2>7, <2>8, <2>9, <2>10, <2>11, <2>12
    DEF CoreStep
<1>3. QED
  BY <1>1, <1>2 DEF CoreClock

LEMMA Requests ==
  ASSUME NEW a \in Address, NEW d \in Byte
  PROVE  ReadRequest(a) \in Request /\ WriteRequest(a, d) \in Request
  BY DEF Request

\* What the CPU asks of the memory has an address and a byte.
LEMMA CoreRequestType == ASSUME CoreTypeOK PROVE CoreRequest \in Request \cup {NoRequest}
<1>1. reg_pc \in Address /\ TrimAddress(reg_target) \in Address
  BY TrimAddressType DEF CoreTypeOK, Word
<1>2. CASE ctl_state \in FetchStates
  <2>1. CoreRequest = ReadRequest(reg_pc)
    BY <1>2 DEF CoreRequest, FetchStates, LoadStates, StoreStates
  <2>2. 0 \in Byte
    BY Sizes DEF Byte
  <2>3. QED
    BY <1>1, <2>1, <2>2, Requests
<1>3. CASE ctl_state \in LoadStates
  <2>1. CoreRequest = ReadRequest(TrimAddress(reg_target))
    BY <1>3 DEF CoreRequest, FetchStates, LoadStates, StoreStates
  <2>2. 0 \in Byte
    BY Sizes DEF Byte
  <2>3. QED
    BY <1>1, <2>1, <2>2, Requests
<1>4. CASE ctl_state \in StoreStates
  <2>1. StoreWeight[ctl_state] \in Nat \ {0}
    <3>1. High \in Nat \ {0} /\ ByteSize \in Nat \ {0}
      BY Sizes DEF High
    <3>2. QED
      BY <1>4, <3>1 DEF StoreWeight, StoreStates
  <2>2. reg_memory_data \in Nat
    BY DEF CoreTypeOK, Word
  <2>3. reg_memory_data \div StoreWeight[ctl_state] \in Nat
    BY <2>1, <2>2
  <2>4. (reg_memory_data \div StoreWeight[ctl_state]) % ByteSize \in Byte
    BY <2>3, Sizes DEF Byte
  <2>5. CoreRequest = WriteRequest(TrimAddress(reg_target),
                                   (reg_memory_data \div StoreWeight[ctl_state]) % ByteSize)
    BY <1>4 DEF CoreRequest, FetchStates, LoadStates, StoreStates
  <2>6. QED
    BY <1>1, <2>4, <2>5, Requests
<1>5. CASE ctl_state \notin FetchStates \cup LoadStates \cup StoreStates
  BY <1>5 DEF CoreRequest
<1>6. QED
  BY <1>2, <1>3, <1>4, <1>5

-----------------------------------------------------------------------------
(***************************************************************************)
(* The types of the whole board.                                           *)
(***************************************************************************)
BoardInv == BoardTypeOK /\ InsnInv

LEMMA RequestFields ==
  ASSUME NEW r \in Request
  PROVE  r.address \in Address /\ r.data \in Byte
<1>1. 0 \in Byte
  BY Sizes DEF Byte
<1>2. QED
  BY <1>1 DEF Request, ReadRequest, WriteRequest

LEMMA MemoryKeeps ==
  ASSUME MemoryTypeOK, NEW requests, MemoryClock(requests),
         \A p \in Port : requests[p] \in Request \cup {NoRequest}
  PROVE  MemoryTypeOK'
<1>1. ASSUME NEW p \in Port, Grant(requests, p)
      PROVE  MemoryTypeOK'
  <2>1. requests[p] \in Request
    BY <1>1 DEF Grant
  <2>2. mem_address' \in Address /\ mem_data' \in Byte
    BY <1>1, <2>1, RequestFields DEF Grant
  <2>3. mem_state' \in MemoryState
    BY <1>1 DEF Grant, Port, ReadState, WriteState, MemoryState
  <2>4. delay_counter' \in 0 .. DelayLimit
    BY <1>1, DelayAssumption DEF Grant
  <2>5. QED
    BY <1>1, <2>2, <2>3, <2>4 DEF Grant, MemoryTypeOK
<1>2. CASE StayReady(requests)
  BY <1>2, DelayAssumption DEF StayReady, MemoryTypeOK
<1>3. CASE Delay
  BY <1>3, DelayAssumption DEF Delay, MemoryTypeOK
<1>4. CASE FinishAccess
  <2>1. ram' \in [Address -> Byte]
    BY <1>4 DEF FinishAccess, Written, MemoryTypeOK
  <2>2. delay_counter' \in 0 .. DelayLimit /\ mem_state' \in MemoryState
    BY <1>4, DelayAssumption DEF FinishAccess, MemoryState
  <2>3. QED
    BY <1>4, <2>1, <2>2 DEF FinishAccess, MemoryTypeOK
<1>5. QED
  BY <1>1, <1>2, <1>3, <1>4 DEF MemoryClock

LEMMA MemoryResetKeeps == ASSUME MemoryTypeOK, MemoryClockReset PROVE MemoryTypeOK'
<1>1. 0 \in Address /\ 0 \in Byte /\ 0 \in 0 .. DelayLimit
  BY Sizes, DelayAssumption DEF Address, Byte
<1>2. ram' \in [Address -> Byte]
  BY DEF MemoryClockReset, Written, MemoryTypeOK
<1>3. QED
  BY <1>1, <1>2 DEF MemoryClockReset, MemoryReset, MemoryTypeOK, MemoryState

\* What a cycle gives the CPU is what its proofs take for granted of it.
LEMMA InputsTyped == ASSUME BoardTypeOK PROVE CoreInputs \subseteq CoreInput
<1>1. 0 \in Byte
  BY Sizes DEF Byte
<1>2. DataIn(2) \in Byte
  BY <1>1 DEF DataIn, BoardTypeOK, MemoryTypeOK
<1>3. \A byte \in InputBytes : PortIn(byte) \in Byte
  BY <1>1, PortAssumption DEF PortIn
<1>4. Done(2) \in BOOLEAN
  BY DEF Done, Serving
<1>5. cpu_enable \in BOOLEAN /\ interrupt \in BOOLEAN
  BY DEF BoardTypeOK
<1>6. QED
  BY <1>2, <1>3, <1>4, <1>5 DEF CoreInputs, CoreInput

\* The parts other than the CPU.
OthersTypeOK ==
  /\ MemoryTypeOK
  /\ cpu_enable \in BOOLEAN
  /\ interrupt \in BOOLEAN
  /\ computer_request \in Request \cup {NoRequest}
  /\ scenario \in Scenarios
  /\ pulses \in 0 .. scenario.pulses
  /\ accesses \in 0 .. scenario.accesses

LEMMA OthersKeep ==
  ASSUME BoardTypeOK, NEW signals \in SUBSET scenario.signals, Others(signals)
  PROVE  OthersTypeOK'
<1>1. /\ scenario.signals \subseteq Signals /\ scenario.requests \subseteq Request
      /\ scenario.pulses \in Nat /\ scenario.accesses \in Nat
  BY ScenarioAssumption DEF BoardTypeOK
<1>2. MemoryTypeOK'
  <2>1. CoreRequest \in Request \cup {NoRequest}
    BY CoreRequestType DEF BoardTypeOK
  <2>2. \A p \in Port : PortRequests[p] \in Request \cup {NoRequest}
    BY <2>1 DEF PortRequests, Port, BoardTypeOK
  <2>3. QED
    BY <2>2, MemoryKeeps DEF Others, BoardTypeOK
<1>3. cpu_enable' \in BOOLEAN /\ interrupt' \in BOOLEAN
  BY DEF Others, RunControl, InterruptControl, BoardTypeOK
<1>4. /\ computer_request' \in Request \cup {NoRequest}
      /\ accesses' \in 0 .. scenario.accesses
  <2>1. CASE Done(1)
    BY <2>1 DEF Others, ComputerPort, BoardTypeOK
  <2>2. CASE UNCHANGED <<computer_request, accesses>>
    BY <2>2 DEF BoardTypeOK
  <2>3. CASE /\ accesses < scenario.accesses
             /\ computer_request' \in scenario.requests
             /\ accesses' = accesses + 1
    BY <1>1, <2>3 DEF BoardTypeOK
  <2>4. QED
    BY <2>1, <2>2, <2>3 DEF Others, ComputerPort
<1>5. pulses' \in 0 .. scenario.pulses
  <2>1. IsFiniteSet(signals)
    <3>1. IsFiniteSet(Signals)
      <4>1. IsFiniteSet({}) /\ \A S, x : IsFiniteSet(S) => IsFiniteSet(S \cup {x})
        BY FS_EmptySet, FS_AddElement
      <4>2. Signals = ((((({} \cup {"reset"}) \cup {"start"}) \cup {"stop"}) \cup {"toggle"})
                        \cup {"event"}) \cup {"board"}
        BY DEF Signals
      <4>3. QED
        BY <4>1, <4>2, Zenon
    <3>2. QED
      BY <1>1, <3>1, FS_Subset
  <2>2. Cardinality(signals) \in Nat
    BY <2>1, FS_CardinalityType
  <2>3. QED
    BY <1>1, <2>2 DEF Others, BoardTypeOK
<1>6. scenario' = scenario
  BY DEF Others
<1>7. QED
  BY <1>2, <1>3, <1>4, <1>5, <1>6 DEF OthersTypeOK, BoardTypeOK

\* In every state of the board the instruction register holds an instruction that
\* the control state is made for, and every register has its width.
THEOREM BoardInductive ==
  ASSUME CoreAssumption
  PROVE  BoardSpec => []BoardInv
<1>1. BoardInit => BoardInv
  <2>1. SUFFICES ASSUME BoardInit PROVE BoardInv
    OBVIOUS
  <2>2. CoreInv
    BY <2>1, CoreStarts DEF BoardInit
  <2>3. /\ scenario \in Scenarios /\ scenario.image \in [Address -> Byte]
        /\ scenario.pulses \in Nat /\ scenario.accesses \in Nat
    BY <2>1, ScenarioAssumption DEF BoardInit
  <2>4. 0 \in Address /\ 0 \in Byte /\ 0 \in 0 .. DelayLimit
    BY Sizes, DelayAssumption DEF Address, Byte
  <2>5. MemoryTypeOK
    BY <2>1, <2>3, <2>4 DEF BoardInit, MemoryInit, MemoryTypeOK, MemoryState
  <2>6. pulses \in 0 .. scenario.pulses /\ accesses \in 0 .. scenario.accesses
    BY <2>1, <2>3 DEF BoardInit
  <2>7. /\ cpu_enable \in BOOLEAN /\ interrupt \in BOOLEAN
        /\ stale \in BOOLEAN /\ astray \in BOOLEAN
        /\ computer_request \in Request \cup {NoRequest}
    BY <2>1 DEF BoardInit
  <2>8. QED
    BY <2>2, <2>3, <2>5, <2>6, <2>7 DEF BoardInv, BoardTypeOK, CoreInv
<1>2. BoardInv /\ [BoardNext]_vars => BoardInv'
  <2>1. SUFFICES ASSUME BoardInv, [BoardNext]_vars PROVE BoardInv'
    OBVIOUS
  <2>2. CoreInv /\ BoardTypeOK
    BY <2>1 DEF BoardInv, BoardTypeOK, CoreInv
  <2>3. SUFFICES CoreInv' /\ OthersTypeOK' /\ stale' \in BOOLEAN /\ astray' \in BOOLEAN
    BY DEF BoardInv, BoardTypeOK, CoreInv, OthersTypeOK
  <2>4. CASE CpuClock
    <3>1. PICK signals \in SUBSET (scenario.signals \ {"reset", "board"}), in \in CoreInputs :
            CoreClock(in) /\ Others(signals) /\ StaleAnswer
      BY <2>4 DEF CpuClock
    <3>2. CoreInv'
      BY <2>2, <3>1, InputsTyped, CoreClockKeeps
    <3>3. OthersTypeOK'
      BY <2>2, <3>1, OthersKeep
    <3>4. stale' \in BOOLEAN /\ astray' \in BOOLEAN
      BY <3>1 DEF StaleAnswer
    <3>5. QED
      BY <3>2, <3>3, <3>4
  <2>5. CASE CpuReset
    <3>1. PICK signals \in SUBSET (scenario.signals \ {"board"}) :
            CoreReset /\ Others(signals) /\ HistoryReset
              /\ stale' = (mem_state' \in {"READ2", "WRITE2"})
      BY <2>5 DEF CpuReset
    <3>2. CoreInv'
      BY <3>1, CoreStarts
    <3>3. OthersTypeOK'
      BY <2>2, <3>1, OthersKeep
    <3>4. stale' \in BOOLEAN
      <4>1. (mem_state' \in {"READ2", "WRITE2"}) \in BOOLEAN
        OBVIOUS
      <4>2. stale' = (mem_state' \in {"READ2", "WRITE2"})
        BY <3>1
      <4>3. QED
        BY <4>1, <4>2
    <3>5. astray' \in BOOLEAN
      BY <3>1 DEF HistoryReset
    <3>6. QED
      BY <3>2, <3>3, <3>4, <3>5
  <2>6. CASE BoardReset
    <3>1. CoreInv'
      BY <2>6, CoreStarts DEF BoardReset
    <3>2. MemoryTypeOK'
      BY <2>2, <2>6, MemoryResetKeeps DEF BoardReset, BoardTypeOK
    <3>3. pulses' \in 0 .. scenario.pulses
      <4>1. scenario.pulses \in Nat
        BY <2>2, ScenarioAssumption DEF BoardTypeOK
      <4>2. QED
        BY <2>2, <2>6, <4>1 DEF BoardReset, BoardTypeOK
    <3>4. scenario \in Scenarios /\ accesses \in 0 .. scenario.accesses
      BY <2>2 DEF BoardTypeOK
    <3>5. UNCHANGED <<scenario, accesses>> /\ computer_request' = NoRequest
      BY <2>6 DEF BoardReset, ComputerPortReset
    <3>6. /\ cpu_enable' \in BOOLEAN /\ interrupt' \in BOOLEAN
          /\ stale' \in BOOLEAN /\ astray' \in BOOLEAN
      BY <2>6 DEF BoardReset, RunControlReset, InterruptControlReset, HistoryReset
    <3>7. QED
      BY <3>1, <3>2, <3>3, <3>4, <3>5, <3>6 DEF OthersTypeOK
  <2>7. CASE UNCHANGED vars
    <3>1. CoreInv'
      BY <2>2, <2>7, UnchangedKeeps DEF vars
    <3>2. QED
      BY <2>2, <2>7, <3>1
      DEF vars, bound_vars, history_vars, memory_vars, OthersTypeOK, BoardTypeOK, MemoryTypeOK
  <2>8. QED
    BY <2>1, <2>4, <2>5, <2>6, <2>7 DEF BoardNext
<1>3. QED
  BY <1>1, <1>2, PTL DEF BoardSpec

\* The registers of the CPU, the memory controller's and what the rest of the board
\* keeps have their widths in every state, with any program, signals and accesses,
\* if the bitwise operations make words of words.
THEOREM BoardTypeCorrect ==
  ASSUME CoreAssumption
  PROVE  BoardSpec => []BoardTypeOK
<1>1. BoardInv => BoardTypeOK
  BY DEF BoardInv
<1>2. QED
  BY <1>1, BoardInductive, PTL

-----------------------------------------------------------------------------
(***************************************************************************)
(* The board executes its instructions as the virtual machine does         *)
(* (RunsLikeTheMachine), proved for every program, every size of memory    *)
(* and any number of signals, as long as what the computer writes does not *)
(* come in the middle of an instruction.                                   *)
(*                                                                         *)
(* A step of the machine takes the board many cycles.  The invariant,      *)
(* RunInv, says for each state of the CPU's control what has been done of  *)
(* the machine's step so far: how many bytes of the instruction have been  *)
(* fetched, what the target address is, how much of an operand has been    *)
(* loaded or stored, and which registers are still those of the last state *)
(* of the machine.  It is shown for every cycle that goes on with an       *)
(* instruction; the cycle that ends one is then compared with the machine, *)
(* instruction by instruction.                                             *)
(***************************************************************************)

-----------------------------------------------------------------------------
(***************************************************************************)
(* The board and the machine decode the same: the machine's definitions    *)
(* are the board's where they are about words, memory and opcodes.         *)
(***************************************************************************)
LEMMA LateWords ==
  /\ \A v : Late!TrimWord(v) = TrimWord(v)
  /\ \A a : Late!TrimAddress(a) = TrimAddress(a)
  /\ \A w : Late!SignExtendWord(w) = SignExtendWord(w)
  /\ \A d : Late!SignExtendF3Operand(d) = SignExtendF3Operand(d)
  /\ Late!WordSize = WordSize
  /\ \A a, k : Late!Cell(a, k) = Cell(a, k)
  BY DEF Late!TrimWord, Late!TrimAddress, Late!SignExtendWord, Late!SignExtendF3Operand,
         Late!WordSize, Late!Cell, TrimWord, TrimAddress, SignExtendWord, SignExtendF3Operand,
         WordSize, Cell

LEMMA LateMemory ==
  /\ \A m, a : Late!ReadMemoryByte(m, a) = ReadMemoryByte(m, a)
  /\ \A m, a : Late!ReadMemoryWord(m, a) = ReadMemoryWord(m, a)
  /\ \A m, a, v : Late!WriteMemoryByte(m, a, v) = WriteMemoryByte(m, a, v)
  /\ \A m, a, v : Late!WriteMemoryWord(m, a, v) = WriteMemoryWord(m, a, v)
  BY LateWords
  DEF Late!ReadMemoryByte, ReadMemoryByte, Late!ReadMemoryWord, ReadMemoryWord,
      Late!WriteMemoryByte, WriteMemoryByte, Late!WriteMemoryWord, WriteMemoryWord

LEMMA OpcodesDiffer == \A m, l \in Mnemonic : Opcode[m] = Opcode[l] => m = l
  BY DEF Opcode, Mnemonic

LEMMA InsnFound ==
  ASSUME NEW byte \in Byte
  PROVE  \/ /\ InsnOf[byte] \in LongMnemonic
            /\ Opcode[InsnOf[byte]] = byte
         \/ /\ InsnOf[byte] \in ShortMnemonic
            /\ Opcode[InsnOf[byte]] = ShortOpcode(byte)
            /\ byte \notin LongOpcodes
         \/ /\ InsnOf[byte] = "none"
            /\ byte \notin LongOpcodes /\ ShortOpcode(byte) \notin ShortOpcodes
<1>1. byte \in LongOpcodes =>
        /\ (CHOOSE m \in LongMnemonic : Opcode[m] = byte) \in LongMnemonic
        /\ Opcode[CHOOSE m \in LongMnemonic : Opcode[m] = byte] = byte
  BY DEF LongOpcodes
<1>2. ShortOpcode(byte) \in ShortOpcodes =>
        /\ (CHOOSE m \in ShortMnemonic : Opcode[m] = ShortOpcode(byte)) \in ShortMnemonic
        /\ Opcode[CHOOSE m \in ShortMnemonic : Opcode[m] = ShortOpcode(byte)] = ShortOpcode(byte)
  BY DEF ShortOpcodes
<1>3. QED
  BY <1>1, <1>2 DEF InsnOf

LEMMA MnemonicKinds ==
  /\ LongMnemonic \subseteq Mnemonic /\ ShortMnemonic \subseteq Mnemonic
  /\ "none" \notin Mnemonic
  /\ \A m \in LongMnemonic : FormatOf(m) = IF m \in {"EINT", "DINT", "RINT"} THEN "F1" ELSE "F2"
  /\ \A m \in ShortMnemonic : FormatOf(m) = "FS34"
  BY DEF LongMnemonic, ShortMnemonic, Mnemonic, Opcode, FormatOf, F1Mnemonic, F2Mnemonic

LEMMA DefaultIs ==
  /\ \A m \in Mnemonic :
       /\ Opcode[m] \in DOMAIN DefaultInstructions
       /\ DefaultInstructions[Opcode[m]].mnemonic = m
       /\ DefaultInstructions[Opcode[m]].format = FormatOf(m)
  /\ \A o \in DOMAIN DefaultInstructions : \E m \in Mnemonic : o = Opcode[m]
<1>1. \A m \in Mnemonic : (CHOOSE l \in Mnemonic : Opcode[l] = Opcode[m]) = m
  BY OpcodesDiffer
<1>2. \A m \in Mnemonic :
        /\ Opcode[m] \in DOMAIN DefaultInstructions
        /\ DefaultInstructions[Opcode[m]] = [mnemonic |-> m, format |-> FormatOf(m)]
  BY <1>1 DEF DefaultInstructions
<1>3. QED
  BY <1>2 DEF DefaultInstructions

LEMMA LongIsNotShort ==
  \A m \in LongMnemonic : \A l \in Mnemonic :
     FormatOf(l) = "FS34" => ShortOpcode(Opcode[m]) # Opcode[l]
  BY DEF LongMnemonic, Mnemonic, Opcode, FormatOf, F1Mnemonic, F2Mnemonic, ShortOpcode

CodeByte(k) == late[Cell(last.pc, k)]

LEMMA LateFormats ==
  /\ Late!DefaultInstructions = DefaultInstructions
  /\ \A b, w : Late!Bit(b, w) = Bit(b, w)
  /\ Late!NoInstruction = NoInstruction
<1>1. Late!Opcode = Opcode
  BY DEF Late!Opcode, Opcode
<1>2. Late!Mnemonic = Mnemonic
  BY <1>1 DEF Late!Mnemonic, Mnemonic
<1>3. \A m : Late!FormatOf(m) = FormatOf(m)
  BY DEF Late!FormatOf, FormatOf, Late!F1Mnemonic, F1Mnemonic, Late!F2Mnemonic, F2Mnemonic
<1>4. QED
  BY <1>1, <1>2, <1>3
  DEF Late!DefaultInstructions, DefaultInstructions, Late!Bit, Bit, Late!NoInstruction, NoInstruction

LEMMA LateInstance ==
  Late!Instance =
    Decode(DefaultInstructions, CodeByte(0), CodeByte(1), CodeByte(2), CodeByte(3))
<1>1. \A db, b : Late!FindsShort(db, b) = FindsShort(db, b)
  BY DEF Late!FindsShort, FindsShort, Late!ShortOpcode, ShortOpcode
<1>2. \A m, b0, b1, b2, b3 : Late!DecodeFS34(m, b0, b1, b2, b3) = DecodeFS34(m, b0, b1, b2, b3)
  BY LateFormats DEF Late!DecodeFS34, DecodeFS34
<1>3. \A b : Late!ShortOpcode(b) = ShortOpcode(b)
  BY DEF Late!ShortOpcode, ShortOpcode
<1>4. QED
  BY <1>1, <1>2, <1>3, LateFormats, LateWords DEF Late!Instance, Late!Decode, Decode, CodeByte

LEMMA LongDecoded ==
  ASSUME NEW m \in LongMnemonic, CodeByte(0) = Opcode[m]
  PROVE  Late!Instance =
           IF m \in {"EINT", "DINT", "RINT"}
           THEN [format |-> "F1", mnemonic |-> m]
           ELSE [format |-> "F2", mnemonic |-> m,
                 r1 |-> CodeByte(1) \div 16, r2 |-> CodeByte(1) % 16]
<1>1. /\ CodeByte(0) \in DOMAIN DefaultInstructions
      /\ DefaultInstructions[CodeByte(0)].mnemonic = m
      /\ DefaultInstructions[CodeByte(0)].format = FormatOf(m)
  BY MnemonicKinds, DefaultIs
<1>2. ~FindsShort(DefaultInstructions, CodeByte(0))
  <2>1. SUFFICES ASSUME FindsShort(DefaultInstructions, CodeByte(0)) PROVE FALSE
    OBVIOUS
  <2>2. PICK l \in Mnemonic : ShortOpcode(CodeByte(0)) = Opcode[l]
    BY <2>1, DefaultIs DEF FindsShort
  <2>3. FormatOf(l) = "FS34"
    BY <2>1, <2>2, DefaultIs DEF FindsShort
  <2>4. QED
    BY <2>2, <2>3, LongIsNotShort
<1>3. QED
  BY <1>1, <1>2, LateInstance, MnemonicKinds DEF Decode

LEMMA ShortDecoded ==
  ASSUME NEW m \in ShortMnemonic, ShortOpcode(CodeByte(0)) = Opcode[m]
  PROVE  Late!Instance = DecodeFS34(m, CodeByte(0), CodeByte(1), CodeByte(2), CodeByte(3))
<1>1. /\ ShortOpcode(CodeByte(0)) \in DOMAIN DefaultInstructions
      /\ DefaultInstructions[ShortOpcode(CodeByte(0))].mnemonic = m
      /\ DefaultInstructions[ShortOpcode(CodeByte(0))].format = FormatOf(m)
  BY MnemonicKinds, DefaultIs
<1>2. FindsShort(DefaultInstructions, CodeByte(0))
  BY <1>1, MnemonicKinds DEF FindsShort
<1>3. QED
  BY <1>1, <1>2, LateInstance DEF Decode

LEMMA NotDecoded ==
  ASSUME CodeByte(0) \notin LongOpcodes, ShortOpcode(CodeByte(0)) \notin ShortOpcodes,
         Late!Instance # NoInstruction => Late!Is(LongMnemonic \cup ShortMnemonic)
  PROVE  Late!Instance = NoInstruction
<1>1. SUFFICES ASSUME Late!Instance # NoInstruction PROVE FALSE
  OBVIOUS
<1>2. Late!Instance.mnemonic \in LongMnemonic \cup ShortMnemonic
  BY <1>1 DEF Late!Is
<1>3. CASE FindsShort(DefaultInstructions, CodeByte(0))
  <2>1. PICK l \in Mnemonic : ShortOpcode(CodeByte(0)) = Opcode[l]
    BY <1>3, DefaultIs DEF FindsShort
  <2>2. DefaultInstructions[Opcode[l]].mnemonic = l /\ FormatOf(l) = "FS34"
    BY <1>3, <2>1, DefaultIs DEF FindsShort
  <2>3. Late!Instance.mnemonic = l
    BY <1>3, <2>1, <2>2, LateInstance DEF Decode, DecodeFS34
  <2>4. l \in ShortMnemonic
    BY <1>2, <2>2, <2>3, MnemonicKinds
  <2>5. QED
    BY <2>1, <2>4 DEF ShortOpcodes
<1>4. CASE ~FindsShort(DefaultInstructions, CodeByte(0))
  <2>1. CodeByte(0) \in DOMAIN DefaultInstructions
    BY <1>1, <1>4, LateInstance DEF Decode
  <2>2. PICK l \in Mnemonic : CodeByte(0) = Opcode[l]
    BY <2>1, DefaultIs
  <2>3. DefaultInstructions[CodeByte(0)].mnemonic = l
    BY <2>2, DefaultIs
  <2>4. Late!Instance.mnemonic = l
    BY <1>4, <2>1, <2>3, LateInstance DEF Decode
  <2>5. l \notin LongMnemonic
    BY <2>2 DEF LongOpcodes
  <2>6. l \in ShortMnemonic
    BY <1>2, <2>4, <2>5
  <2>7. ShortOpcode(Opcode[l]) = Opcode[l]
    BY <2>6 DEF ShortMnemonic, Opcode, ShortOpcode
  <2>8. QED
    BY <2>2, <2>6, <2>7 DEF ShortOpcodes
<1>5. QED
  BY <1>3, <1>4

Fetched(n) ==
  /\ \A k \in 0 .. n - 1 : reg_instruction[k] = CodeByte(k)
  /\ reg_pc = Cell(last.pc, n)

WholeFetched == Fetched(IF FlagE THEN 4 ELSE 3)

\* Where the operand of the instruction in the instruction register is.
Target == IF IsIndirect THEN ReadMemoryWord(late, IndexedTarget) ELSE IndexedTarget

SicIsPlain == IsSic => ~FlagB /\ ~FlagP /\ ~FlagE

LEMMA ShortInstance ==
  ASSUME CoreTypeOK, Insn \in ShortMnemonic, WholeFetched
  PROVE  Late!Instance =
           DecodeFS34(Insn, reg_instruction[0], reg_instruction[1], reg_instruction[2],
                      CodeByte(3))
<1>1. /\ reg_instruction[0] = CodeByte(0) /\ reg_instruction[1] = CodeByte(1)
      /\ reg_instruction[2] = CodeByte(2)
  BY DEF WholeFetched, Fetched
<1>2. reg_instruction[0] \in Byte
  BY DEF CoreTypeOK
<1>3. Opcode[Insn] = ShortOpcode(reg_instruction[0])
  BY <1>2, InsnFound, MnemonicKinds DEF Insn
<1>4. QED
  BY <1>1, <1>3, ShortDecoded

LEMMA ShortFields ==
  ASSUME CoreTypeOK, Insn \in ShortMnemonic, WholeFetched, SicIsPlain
  PROVE  /\ Late!Instance.format = "FS34" /\ Late!Instance.mnemonic = Insn
         /\ Late!Instance # NoInstruction
         /\ Late!Instance.n = FlagN /\ Late!Instance.i = FlagI /\ Late!Instance.x = FlagX
         /\ Late!Instance.b = FlagB /\ Late!Instance.p = FlagP /\ Late!Instance.e = FlagE
         /\ Late!Instance.address =
              IF IsSic THEN OperandSic ELSE IF FlagE THEN OperandF4 ELSE OperandF3
<1>1. FlagE => reg_instruction[3] = CodeByte(3)
  BY DEF WholeFetched, Fetched
<1>2. FlagB \in BOOLEAN /\ FlagP \in BOOLEAN /\ FlagE \in BOOLEAN
  BY DEF FlagB, FlagP, FlagE, Bit
<1>3. Late!Instance.format = "FS34" /\ Late!Instance.mnemonic = Insn /\ Late!Instance # NoInstruction
  BY ShortInstance DEF DecodeFS34, NoInstruction
<1>4. Late!Instance.n = FlagN /\ Late!Instance.i = FlagI /\ Late!Instance.x = FlagX
  BY ShortInstance DEF DecodeFS34, FlagN, FlagI, FlagX
<1>5. Late!Instance.b = FlagB /\ Late!Instance.p = FlagP /\ Late!Instance.e = FlagE
  BY <1>2, ShortInstance DEF DecodeFS34, FlagB, FlagP, FlagE, FlagN, FlagI, SicIsPlain, IsSic
<1>6. Late!Instance.address =
        IF IsSic THEN OperandSic ELSE IF FlagE THEN OperandF4 ELSE OperandF3
  BY <1>1, ShortInstance
  DEF DecodeFS34, FlagE, FlagN, FlagI, SicIsPlain, IsSic, OperandF3, OperandF4, OperandSic
<1>7. QED
  BY <1>3, <1>4, <1>5, <1>6

LEMMA ShortLength ==
  ASSUME CoreTypeOK, Insn \in ShortMnemonic, WholeFetched, SicIsPlain
  PROVE  Late!NextProgramCounter = reg_pc
<1>1. Late!InstructionLength(Late!Instance) = IF FlagE THEN 4 ELSE 3
  BY ShortFields DEF Late!InstructionLength
<1>2. QED
  BY <1>1, LateWords DEF Late!NextProgramCounter, WholeFetched, Fetched, Cell

LEMMA ShortTarget ==
  ASSUME CoreTypeOK, Insn \in ShortMnemonic, WholeFetched, SicIsPlain,
         last.general = reg_general
  PROVE  /\ Late!ValidAddressing <=> ~InvalidAddressing
         /\ ~InvalidAddressing => Late!DirectAddress = IndexedTarget
         /\ ~InvalidAddressing => Late!TargetAddress = Target
<1>1. Late!ValidAddressing <=> ~InvalidAddressing
  BY ShortFields
  DEF Late!ValidAddressing, InvalidAddressing, IsSic, IsSimple, SicIsPlain
<1>2. ASSUME ~InvalidAddressing PROVE Late!DirectAddress = IndexedTarget
  <2> DEFINE operand == IF IsSic THEN OperandSic
                        ELSE IF FlagE THEN OperandF4
                        ELSE IF FlagP THEN SignExtendF3Operand(OperandF3)
                        ELSE OperandF3
             offset == IF FlagB /\ ~FlagP THEN reg_general[REG_B]
                       ELSE IF FlagP /\ ~FlagB THEN reg_pc
                       ELSE 0
             index == IF FlagX THEN reg_general[REG_X] ELSE 0
             address == Late!Instance.address
  <2>1. /\ reg_pc \in Int /\ reg_general[REG_B] \in Int /\ reg_general[REG_X] \in Int
    BY DEF CoreTypeOK, Address, Word, GeneralId, REG_B, REG_X
  <2>2. SignExtendF3Operand(OperandF3) \in Int
    BY FieldTypes, Sizes DEF SignExtendF3Operand
  <2>3. operand \in Int /\ offset \in Int /\ index \in Int
    BY <2>1, <2>2, FieldTypes
  <2>4. Late!DirectAddress =
          TrimWord((IF FlagP THEN SignExtendF3Operand(address) + reg_pc ELSE address)
                   + (IF FlagB THEN reg_general[REG_B] ELSE 0) + index)
    BY ShortFields, ShortLength, LateWords
    DEF Late!DirectAddress, Late!REG_B, Late!REG_X, REG_B, REG_X
  <2>5. FlagP => operand = SignExtendF3Operand(address) /\ ~FlagB
    BY <1>2, ShortFields DEF InvalidAddressing, SicIsPlain
  <2>6. ~FlagP => operand = address
    BY ShortFields
  <2>7. address \in Int
    BY ShortFields, FieldTypes
  <2>8. Late!DirectAddress = TrimWord(operand + offset + index)
    <3> HIDE DEF operand, index, address
    <3>1. CASE FlagP
      BY <2>1, <2>3, <2>4, <2>5, <3>1 DEF index
    <3>2. CASE ~FlagP
      BY <2>1, <2>3, <2>4, <2>6, <3>2 DEF index
    <3>3. QED
      BY <3>1, <3>2
  <2>9. DirectTarget = TrimWord(operand + offset)
    BY DEF DirectTarget
  <2> HIDE DEF operand, offset
  <2>10. operand + offset \in Int
    BY <2>3
  <2>11. CASE FlagX
    BY <2>3, <2>8, <2>9, <2>10, <2>11, TrimmedSum DEF IndexedTarget
  <2>12. CASE ~FlagX
    BY <2>8, <2>9, <2>10, <2>12 DEF IndexedTarget
  <2>13. QED
    BY <2>11, <2>12
<1>3. ~InvalidAddressing => Late!TargetAddress = Target
  BY <1>2, ShortFields, LateMemory DEF Late!TargetAddress, Target, IsIndirect
<1>4. QED
  BY <1>1, <1>2, <1>3

-----------------------------------------------------------------------------
(***************************************************************************)
(* The invariant: what the CPU and the history variables say of each other *)
(* in every state of an instruction.                                       *)
(***************************************************************************)
\* The computer writes to memory between instructions only.
ComputerWritesBetween == ctl_state \notin IdleStates => ~WriteEnds(1)

InterruptState == {"INT2", "INT3", "INT4", "INT5"}

LastType ==
  [pc : Address, general : [GeneralId -> Word], cc : {LT, EQ, GT}, il : Address,
   icc : {LT, EQ, GT}, enabled : BOOLEAN, enable_next : BOOLEAN, target : Word,
   result : {"OK", "INVALID_OPCODE", "INVALID_ADDRESSING"}]

LastTyped == last \in LastType

\* What a reset has left under way keeps the CPU from beginning.
StaleIsIdle == stale => ctl_state \in {"DISABLED", "INSN0"} /\ ~reg_interrupt

ViewsAgree ==
  /\ cpu_ram = ram /\ late \in Memory
  /\ ctl_state \notin StoreStates => late = ram

EnabledNow == last.enabled \/ last.enable_next

RegistersAgree ==
  /\ ctl_state # "ERROR" => last.general = reg_general /\ last.cc = reg_cc
  /\ ctl_state \notin InterruptState \cup {"ERROR"} => last.il = reg_il /\ last.icc = reg_icc
  /\ ctl_state \in IdleStates \ {"ERROR"} =>
       /\ last.pc = reg_pc
       /\ reg_interrupt = last.enabled /\ reg_interrupt_next = EnabledNow
  /\ ctl_state = "INT0" => reg_interrupt
  /\ ctl_state \notin IdleStates \cup InterruptState =>
       reg_interrupt = EnabledNow /\ reg_interrupt_next = EnabledNow
  /\ ctl_state \in InterruptState =>
       /\ reg_pc = last.pc /\ reg_il = last.pc /\ reg_icc = last.cc
       /\ last.enabled /\ ~reg_interrupt /\ ~reg_interrupt_next

\* From the target address on, and from the end of the instruction's bytes on.
TargetStates == {"F34_DECODE2", "F34B_LOAD0", "F34B_DECODE3"} \cup WordState \cup StoreStates

DecodedStates == {"F34_DECODE1"} \cup IndirectState \cup TargetStates

CodeFetched ==
  /\ ctl_state \in {"DECODE0", "F2_INSN1", "F34_INSN1"} => Fetched(1)
  /\ ctl_state \in {"F2_DECODE1", "F34_INSN2"} => Fetched(2)
  /\ ctl_state = "F34_INSN3" => Fetched(3) /\ FlagE
  /\ ctl_state \in DecodedStates => WholeFetched

\* The first n bytes of a word are in reg_memory_data, the address is at the next.
Loaded(base, n) ==
  /\ reg_target = TrimWord(base + n)
  /\ n = 1 => reg_memory_data \div High = late[Cell(base, 0)]
  /\ n = 2 => reg_memory_data \div ByteSize
                = late[Cell(base, 0)] * ByteSize + late[Cell(base, 1)]

Operand == IF IsImmediate THEN Target ELSE ReadMemoryWord(late, Target)

OperandB == IF IsImmediate THEN Target ELSE late[Cell(Target, 0)]

OperandsFound ==
  /\ ctl_state \in IndirectState => IsIndirect
  /\ ctl_state \in IndirectState \cup TargetStates => ~InvalidAddressing
  /\ ctl_state = "F34_INDIRECT0" => Loaded(IndexedTarget, 0)
  /\ ctl_state = "F34_INDIRECT1" => Loaded(IndexedTarget, 1)
  /\ ctl_state = "F34_INDIRECT2" => Loaded(IndexedTarget, 2)
  /\ ctl_state \in TargetStates => last.target = Target /\ Insn \in ShortMnemonic \ {"RSUB"}
  /\ ctl_state = "F34_DECODE2" => reg_target = Target
  /\ ctl_state = "F34W_LOAD0" => ~IsImmediate /\ Loaded(Target, 0)
  /\ ctl_state = "F34W_LOAD1" => ~IsImmediate /\ Loaded(Target, 1)
  /\ ctl_state = "F34W_LOAD2" => ~IsImmediate /\ Loaded(Target, 2)
  /\ ctl_state = "F34W_DECODE3" => reg_target = Operand
  /\ ctl_state \in {"F34B_LOAD0", "F34B_DECODE3"} => Insn \in ByteInsn
  /\ ctl_state = "F34B_LOAD0" => ~IsImmediate /\ reg_target = Target
  /\ ctl_state = "F34B_DECODE3" => reg_target = OperandB
  /\ ctl_state = "INT2" => Loaded(AddressSize - 3, 0)
  /\ ctl_state = "INT3" => Loaded(AddressSize - 3, 1)
  /\ ctl_state = "INT4" => Loaded(AddressSize - 3, 2)
  /\ ctl_state = "INT5" => reg_memory_data = ReadMemoryWord(late, AddressSize - 3)

\* The memory after the first n bytes of a word have been stored.
StoredBytes(n) ==
  [a \in Address |->
     IF n > 0 /\ a = Cell(Target, 0) THEN ((reg_memory_data \div ByteSize) \div ByteSize) % ByteSize
     ELSE IF n > 1 /\ a = Cell(Target, 1) THEN (reg_memory_data \div ByteSize) % ByteSize
     ELSE late[a]]

Stored(n) == reg_target = TrimWord(Target + n) /\ cpu_ram = StoredBytes(n)

StoresProgress ==
  ctl_state \in StoreStates =>
    /\ Insn \in DOMAIN StoreRegister \cup {"STSW", "STIL"}
    /\ ~IsImmediate
    /\ Insn \in DOMAIN StoreRegister =>
         /\ reg_memory_data = reg_general[StoreRegister[Insn]]
         /\ ctl_state = "F34_STORE0" => Insn # "STCH" /\ Stored(0)
         /\ ctl_state = "F34_STORE1" => Insn # "STCH" /\ Stored(1)
         /\ ctl_state = "F34_STORE2" => Stored(IF Insn = "STCH" THEN 0 ELSE 2)

Tracks ==
  /\ LastTyped
  /\ StaleIsIdle
  /\ ViewsAgree
  /\ RegistersAgree
  /\ CodeFetched
  /\ OperandsFound
  /\ StoresProgress

RunInv == astray \/ Tracks

-----------------------------------------------------------------------------
(***************************************************************************)
(* The memory in a cycle of an instruction.                                *)
(***************************************************************************)
LEMMA NotServed ==
  ASSUME PortInv, ~stale, ~IsRequesting
  PROVE  ~Serving(2) /\ ~Done(2) /\ ~WriteEnds(2)
  BY DEF PortInv, CpuIsServed, Done, WriteEnds

LEMMA Accesses ==
  ASSUME PortInv, ~stale, Done(2)
  PROVE  /\ IsRequesting
         /\ ctl_state \in FetchStates \cup LoadStates =>
              mem_state = "READ2" /\ ~WriteEnds(2) /\ mem_address = CoreRequest.address
         /\ ctl_state \in StoreStates =>
              /\ mem_state = "WRITE2" /\ WriteEnds(2)
              /\ mem_address = TrimAddress(reg_target)
              /\ mem_data = (reg_memory_data \div StoreWeight[ctl_state]) % ByteSize
<1>1. IsRequesting /\ Access = CoreRequest /\ Serving(2)
  BY DEF PortInv, CpuIsServed, Done
<1>2. ASSUME ctl_state \in FetchStates \cup LoadStates
      PROVE  mem_state = "READ2" /\ ~WriteEnds(2) /\ mem_address = CoreRequest.address
  <2>1. \/ CoreRequest = ReadRequest(reg_pc)
        \/ CoreRequest = ReadRequest(TrimAddress(reg_target))
    BY <1>2 DEF CoreRequest, FetchStates, LoadStates, StoreStates
  <2>2. CoreRequest.kind = "read"
    BY <2>1 DEF ReadRequest
  <2>3. ~IsWriting /\ mem_address = CoreRequest.address
    BY <1>1, <2>2 DEF Access, ReadRequest, WriteRequest
  <2>4. mem_state # "WRITE2"
    BY <2>3 DEF IsWriting, Port, WriteState
  <2>5. QED
    BY <1>1, <2>3, <2>4 DEF Serving, ReadState, WriteState, WriteEnds
<1>3. ASSUME ctl_state \in StoreStates
      PROVE  /\ mem_state = "WRITE2" /\ WriteEnds(2)
             /\ mem_address = TrimAddress(reg_target)
             /\ mem_data = (reg_memory_data \div StoreWeight[ctl_state]) % ByteSize
  <2> DEFINE data == (reg_memory_data \div StoreWeight[ctl_state]) % ByteSize
  <2>1. CoreRequest = WriteRequest(TrimAddress(reg_target), data)
    BY <1>3 DEF CoreRequest, FetchStates, LoadStates, StoreStates
  <2> HIDE DEF data
  <2>2. IsWriting /\ mem_address = TrimAddress(reg_target) /\ mem_data = data
    BY <1>1, <2>1 DEF Access, ReadRequest, WriteRequest
  <2>3. mem_state = "WRITE2"
    BY <1>1, <2>2 DEF Serving, IsWriting, Port, ReadState, WriteState
  <2>4. WriteEnds(2)
    BY <2>3 DEF WriteEnds, WriteState
  <2>5. QED
    BY <2>2, <2>3, <2>4 DEF data
<1>4. QED
  BY <1>1, <1>2, <1>3

\* The chip takes a byte in the last cycle of a write, and in no other.
LEMMA RamStep ==
  ASSUME MemoryClock(PortRequests)
  PROVE  ram' = IF WriteEnds(1) \/ WriteEnds(2) THEN Written ELSE ram
<1>1. CASE mem_state = "READY"
  <2>1. ram' = ram
    BY <1>1 DEF MemoryClock, Grant, StayReady, Delay, FinishAccess
  <2>2. QED
    BY <1>1, <2>1 DEF WriteEnds, WriteState
<1>2. CASE Delay
  BY <1>2 DEF Delay, WriteEnds, Done
<1>3. CASE FinishAccess
  <2>1. IsWriting <=> WriteEnds(1) \/ WriteEnds(2)
    BY <1>3 DEF FinishAccess, IsWriting, Port, WriteState, WriteEnds, Done, Serving
  <2>2. QED
    BY <1>3, <2>1 DEF FinishAccess
<1>4. QED
  BY <1>1, <1>2, <1>3 DEF MemoryClock, Grant, StayReady

\* A cycle of an instruction in which the CPU stores no byte.
LEMMA ViewsKept ==
  ASSUME Tracks, ctl_state \notin IdleStates, ComputerWritesBetween, ~WriteEnds(2),
         MemoryClock(PortRequests), Views
  PROVE  /\ ram' = ram /\ cpu_ram' = cpu_ram
         /\ late' = IF ctl_state' \in IdleStates THEN cpu_ram ELSE late
<1>1. ram' = ram
  BY RamStep DEF ComputerWritesBetween
<1>2. QED
  BY <1>1 DEF Views

\* A cycle in which it does.
LEMMA ViewsStored ==
  ASSUME Tracks, PortInv, ctl_state \in StoreStates, ComputerWritesBetween, ~stale, Done(2),
         MemoryClock(PortRequests), Views
  PROVE  /\ cpu_ram' = [cpu_ram EXCEPT ![TrimAddress(reg_target)] =
                          (reg_memory_data \div StoreWeight[ctl_state]) % ByteSize]
         /\ ram' = cpu_ram'
         /\ late' = IF ctl_state' \in IdleStates THEN cpu_ram' ELSE late
<1>1. ctl_state \notin IdleStates
  BY DEF StoreStates, IdleStates
<1>2. WriteEnds(2) /\ mem_address = TrimAddress(reg_target)
      /\ mem_data = (reg_memory_data \div StoreWeight[ctl_state]) % ByteSize
  BY Accesses
<1>3. ram' = Written /\ cpu_ram' = [cpu_ram EXCEPT ![mem_address] = mem_data]
  BY <1>1, <1>2, RamStep DEF Views
<1>4. cpu_ram = ram
  BY DEF Tracks, ViewsAgree
<1>5. late' = IF ctl_state' \in IdleStates THEN cpu_ram' ELSE late
  BY <1>1 DEF Views
<1>6. QED
  BY <1>2, <1>3, <1>4, <1>5 DEF Written

\* A cycle between instructions.
LEMMA ViewsIdle ==
  ASSUME ctl_state \in IdleStates, Views, BoardInv'
  PROVE  late' = ram' /\ cpu_ram' = ram' /\ ViewsAgree'
<1>1. late' = ram' /\ cpu_ram' = ram'
  BY DEF Views
<1>2. ram' \in Memory
  BY DEF BoardInv, BoardTypeOK, MemoryTypeOK, Memory
<1>3. QED
  BY <1>1, <1>2 DEF ViewsAgree

-----------------------------------------------------------------------------
(***************************************************************************)
(* What stays the same while an instruction is under way.                  *)
(***************************************************************************)
LEMMA SameCode ==
  ASSUME UNCHANGED <<late, reg_instruction, reg_pc>>, last'.pc = last.pc
  PROVE  /\ \A n : Fetched(n)' = Fetched(n)
         /\ FlagE' = FlagE /\ WholeFetched' = WholeFetched
<1>1. \A k : CodeByte(k)' = CodeByte(k)
  BY DEF CodeByte
<1>2. \A n : Fetched(n)' = Fetched(n)
  BY <1>1 DEF Fetched
<1>3. FlagE' = FlagE
  BY DEF FlagE
<1>4. QED
  BY <1>1, <1>2, <1>3 DEF WholeFetched, Fetched

LEMMA SameFlags ==
  ASSUME UNCHANGED reg_instruction
  PROVE  /\ Insn' = Insn /\ IsImmediate' = IsImmediate /\ IsIndirect' = IsIndirect
         /\ InvalidAddressing' = InvalidAddressing
  BY DEF Insn, IsImmediate, IsIndirect, InvalidAddressing, IsSic, IsSimple, FlagN, FlagI, FlagX,
         FlagB, FlagP, FlagE

LEMMA SameTarget ==
  ASSUME UNCHANGED <<reg_instruction, reg_pc, reg_general, late>>
  PROVE  IndexedTarget' = IndexedTarget /\ Target' = Target
<1>1. DirectTarget' = DirectTarget
  BY DEF DirectTarget, IsSic, FlagN, FlagI, FlagB, FlagP, FlagE, OperandSic, OperandF3, OperandF4
<1>2. IndexedTarget' = IndexedTarget
  BY <1>1 DEF IndexedTarget, FlagX
<1>3. QED
  BY <1>2, SameFlags DEF Target, ReadMemoryWord

LEMMA SameLoaded ==
  ASSUME UNCHANGED <<reg_target, reg_memory_data, late>>, NEW base, NEW base2, base = base2
  PROVE  \A n : Loaded(base, n)' = Loaded(base2, n)
  BY DEF Loaded, High

\* A cycle in which the CPU waits.
LEMMA UnchangedTracks ==
  ASSUME Tracks, UNCHANGED <<core_vars, late, cpu_ram, ram>>, stale' => stale,
         \/ last' = last
         \/ /\ ctl_state \notin TargetStates
            /\ reg_target \in Word /\ last' = [last EXCEPT !.target = reg_target]
  PROVE  Tracks'
<1>1. UNCHANGED <<ctl_state, reg_instruction, reg_target, reg_pc, reg_il, reg_cc, reg_icc,
                  reg_general, reg_memory_data, reg_interrupt, reg_interrupt_next>>
  BY DEF core_vars
<1>2. /\ last' \in LastType
      /\ last'.pc = last.pc /\ last'.general = last.general /\ last'.cc = last.cc
      /\ last'.il = last.il /\ last'.icc = last.icc
      /\ last'.enabled = last.enabled /\ last'.enable_next = last.enable_next
      /\ ctl_state \in TargetStates => last'.target = last.target
  BY DEF Tracks, LastTyped, LastType
<1>3. LastTyped' /\ StaleIsIdle' /\ ViewsAgree'
  BY <1>1, <1>2 DEF Tracks, LastTyped, LastType, StaleIsIdle, ViewsAgree
<1>4. RegistersAgree'
  BY <1>1, <1>2 DEF Tracks, RegistersAgree, EnabledNow
<1>5. CodeFetched'
  BY <1>1, <1>2, SameCode DEF Tracks, CodeFetched
<1>6. OperandsFound'
  BY <1>1, <1>2, SameFlags, SameTarget
  DEF Tracks, OperandsFound, Loaded, High, Operand, OperandB, ReadMemoryWord
<1>7. StoresProgress'
  BY <1>1, SameFlags, SameTarget DEF Tracks, StoresProgress, Stored, StoredBytes
<1>8. QED
  BY <1>3, <1>4, <1>5, <1>6, <1>7 DEF Tracks

\* Between instructions most of the invariant has nothing to say.
LEMMA IdleTracks ==
  ASSUME ctl_state' \in IdleStates, LastTyped', StaleIsIdle', ViewsAgree', RegistersAgree'
  PROVE  Tracks'
<1>1. CodeFetched'
  BY DEF CodeFetched, DecodedStates, TargetStates, IndirectState, WordState, StoreStates,
         IdleStates
<1>2. OperandsFound'
  BY DEF OperandsFound, TargetStates, IndirectState, WordState, StoreStates, IdleStates
<1>3. StoresProgress'
  BY DEF StoresProgress, StoreStates, IdleStates
<1>4. QED
  BY <1>1, <1>2, <1>3 DEF Tracks

\* In the middle of an instruction, the interrupt cycle apart, only its operands
\* and the registers that hold them change.
LEMMA InsideTracks ==
  ASSUME Tracks, ctl_state \notin IdleStates \cup InterruptState,
         ctl_state' \notin IdleStates \cup InterruptState,
         UNCHANGED <<reg_il, reg_cc, reg_icc, reg_general, reg_interrupt, reg_interrupt_next>>,
         last' = last \/ (last' = [last EXCEPT !.target = reg_target'] /\ reg_target' \in Word),
         stale' => stale
  PROVE  /\ LastTyped' /\ StaleIsIdle' /\ RegistersAgree'
         /\ last'.pc = last.pc
         /\ last' # last => last'.target = reg_target'
<1>1. /\ last' \in LastType
      /\ last'.pc = last.pc /\ last'.general = last.general /\ last'.cc = last.cc
      /\ last'.il = last.il /\ last'.icc = last.icc
      /\ last'.enabled = last.enabled /\ last'.enable_next = last.enable_next
      /\ last' # last => last'.target = reg_target'
  BY DEF Tracks, LastTyped, LastType
<1>2. ctl_state # "ERROR" /\ ctl_state' # "ERROR"
  BY DEF IdleStates
<1>3. RegistersAgree'
  BY <1>1, <1>2 DEF Tracks, RegistersAgree, EnabledNow, IdleStates
<1>4. ~stale
  BY DEF Tracks, StaleIsIdle, IdleStates
<1>5. QED
  BY <1>1, <1>3, <1>4 DEF LastTyped, LastType, StaleIsIdle

-----------------------------------------------------------------------------
(***************************************************************************)
(* The cycles that begin an instruction or go on with it.                  *)
(***************************************************************************)
\* What a cycle is but for the step of the CPU.
Around(in) ==
  /\ MemoryClock(PortRequests) /\ Views /\ LastState /\ StaleAnswer
  /\ ComputerWritesBetween
  /\ ~astray /\ ~astray'
  /\ BoardInv /\ BoardInv'
  /\ in \in CoreInputs

LEMMA CycleFacts ==
  ASSUME Tracks, PortInv, NEW in, Around(in)
  PROVE  /\ stale' => stale
         /\ ctl_state \notin IdleStates => ~stale
         /\ in.done /\ IsRequesting => ~stale
         /\ in.done = Done(2)
         /\ ctl_state \in FetchStates \cup LoadStates /\ in.done =>
              in.data = ram[CoreRequest.address]
<1>1. stale' => stale
  BY DEF Around, StaleAnswer
<1>2. ctl_state \notin IdleStates => ~stale
  BY DEF Tracks, StaleIsIdle, IdleStates
<1>3. in.done = Done(2) /\ in.data = DataIn(2)
  BY DEF Around, CoreInputs
<1>4. in.done /\ IsRequesting => ~stale
  BY <1>3 DEF Around, StaleAnswer
<1>5. ASSUME ctl_state \in FetchStates \cup LoadStates, in.done
      PROVE  in.data = ram[CoreRequest.address]
  <2>1. IsRequesting
    BY <1>5 DEF IsRequesting
  <2>2. mem_state = "READ2" /\ mem_address = CoreRequest.address
    BY <1>3, <1>4, <1>5, <2>1, Accesses
  <2>3. QED
    BY <1>3, <2>2 DEF DataIn, ReadState
<1>6. QED
  BY <1>1, <1>2, <1>3, <1>4, <1>5

\* Which history belongs to a cycle in which no instruction ends.
LEMMA GoingOn ==
  ASSUME LastState, ctl_state \in IdleStates \/ ctl_state' \notin IdleStates
  PROVE  last' = IF ctl_state \in {"F34_DECODE1", "F34_INDIRECT2"}
                 THEN [last EXCEPT !.target = reg_target'] ELSE last
<1>1. Ended = "none"
  BY DEF Ended
<1>2. QED
  BY <1>1 DEF LastState

LEMMA WaitStep ==
  ASSUME BoardTypeOK, Tracks, PortInv, NEW in, Around(in), IsRequesting, ~in.done,
         UNCHANGED core_vars
  PROVE  Tracks'
<1>1. ctl_state' = ctl_state
  BY DEF core_vars
<1>2. ~WriteEnds(2) /\ (stale' => stale)
  BY CycleFacts DEF WriteEnds
<1>3. last' = IF ctl_state \in {"F34_DECODE1", "F34_INDIRECT2"}
              THEN [last EXCEPT !.target = reg_target'] ELSE last
  BY <1>1, GoingOn DEF Around
<1>4. CASE ctl_state \notin IdleStates
  <2>1. UNCHANGED <<late, cpu_ram, ram>>
    BY <1>1, <1>2, <1>4, ViewsKept DEF Around
  <2>2. \/ last' = last
        \/ /\ ctl_state \notin TargetStates
           /\ reg_target \in Word /\ last' = [last EXCEPT !.target = reg_target]
    BY <1>3 DEF core_vars, TargetStates, WordState, StoreStates, BoardTypeOK, CoreTypeOK
  <2>3. QED
    BY <1>2, <2>1, <2>2, UnchangedTracks
<1>5. CASE ctl_state \in IdleStates
  <2>1. late' = ram' /\ cpu_ram' = ram' /\ ViewsAgree' /\ last' = last
    BY <1>3, <1>5, ViewsIdle DEF Around, IdleStates
  <2>2. LastTyped' /\ StaleIsIdle' /\ ViewsAgree'
    BY <1>1, <1>2, <2>1 DEF core_vars, Tracks, LastTyped, LastType, StaleIsIdle, ViewsAgree
  <2>3. RegistersAgree'
    BY <2>1 DEF core_vars, Tracks, RegistersAgree, EnabledNow
  <2>4. QED
    BY <1>1, <1>5, <2>2, <2>3, IdleTracks
<1>6. QED
  BY <1>4, <1>5

\* A cycle that leaves the CPU idle.
LEMMA IdleStep ==
  ASSUME BoardTypeOK, Tracks, PortInv, NEW in, Around(in), Stuck \/ Disabled(in)
  PROVE  Tracks'
<1>1. /\ ctl_state \in IdleStates /\ ctl_state' \in IdleStates
      /\ ctl_state \notin {"F34_DECODE1", "F34_INDIRECT2"}
      /\ UNCHANGED <<reg_pc, reg_il, reg_cc, reg_icc, reg_general, reg_interrupt,
                     reg_interrupt_next>>
      /\ ctl_state = "ERROR" <=> ctl_state' = "ERROR"
      /\ ctl_state = "DISABLED" /\ ctl_state' = "INT0" => reg_interrupt
      /\ ctl_state # "ERROR" => ctl_state = "DISABLED"
      /\ ctl_state' \in {"DISABLED", "INSN0", "INT0", "ERROR"}
  BY DEF Stuck, Disabled, Finish, IdleStates, core_vars
<1>2. late' = ram' /\ cpu_ram' = ram' /\ ViewsAgree' /\ last' = last
  BY <1>1, ViewsIdle, GoingOn DEF Around
<1>3. LastTyped' /\ ViewsAgree'
  BY <1>2 DEF Tracks, LastTyped, LastType, ViewsAgree
<1>4. StaleIsIdle'
  BY <1>1, CycleFacts DEF Tracks, StaleIsIdle
<1>5. RegistersAgree'
  BY <1>1, <1>2 DEF Tracks, RegistersAgree, EnabledNow, IdleStates, InterruptState
<1>6. QED
  BY <1>1, <1>3, <1>4, <1>5, IdleTracks

\* The first byte of an instruction.
LEMMA FetchFirst ==
  ASSUME BoardTypeOK, Tracks, PortInv, NEW in, Around(in), in.done, Fetch(in),
         ctl_state = "INSN0"
  PROVE  Tracks'
<1>1. /\ ctl_state' = "DECODE0" /\ ctl_state \in FetchStates /\ IsRequesting
      /\ reg_pc' = TrimAddress(reg_pc + 1)
      /\ reg_instruction' = [reg_instruction EXCEPT ![0] = in.data]
      /\ reg_interrupt' = reg_interrupt_next
      /\ UNCHANGED <<reg_il, reg_cc, reg_icc, reg_general, reg_interrupt_next>>
  BY DEF Fetch, AfterFetch, FetchIndex, FetchStates, IsRequesting
<1>2. CoreRequest.address = reg_pc
  <2>1. CoreRequest = ReadRequest(reg_pc)
    BY <1>1 DEF CoreRequest, FetchStates, LoadStates, StoreStates
  <2>2. QED
    BY <2>1 DEF ReadRequest
<1>3. ~stale /\ in.data = ram[reg_pc] /\ mem_state = "READ2"
  BY <1>1, <1>2, CycleFacts, Accesses
<1>4. ram' = ram /\ late' = ram /\ cpu_ram' = ram /\ ViewsAgree'
  <2>1. ram' = ram
    BY <1>3, RamStep DEF Around, WriteEnds, WriteState
  <2>2. QED
    BY <2>1, ViewsIdle DEF Around, IdleStates
<1>5. last' = last
  BY GoingOn DEF Around, IdleStates
<1>6. last.pc = reg_pc /\ reg_pc \in Address /\ last \in LastType
  BY DEF Tracks, RegistersAgree, IdleStates, LastTyped, BoardTypeOK, CoreTypeOK
<1>7. Fetched(1)'
  <2>1. Cell(reg_pc, 0) = reg_pc /\ Cell(reg_pc, 1) = TrimAddress(reg_pc + 1)
    BY <1>6, Sizes DEF Cell, TrimAddress, Address
  <2>2. reg_instruction'[0] = ram[reg_pc]
    BY <1>1, <1>3 DEF BoardTypeOK, CoreTypeOK
  <2>3. CodeByte(0)' = ram[reg_pc]
    BY <1>4, <1>5, <1>6, <2>1 DEF CodeByte
  <2>4. reg_pc' = Cell(last'.pc, 1)
    BY <1>1, <1>5, <1>6, <2>1
  <2>5. QED
    BY <2>2, <2>3, <2>4 DEF Fetched
<1>8. CodeFetched'
  BY <1>1, <1>7 DEF CodeFetched, DecodedStates, TargetStates, IndirectState, WordState, StoreStates
<1>9. OperandsFound' /\ StoresProgress'
  BY <1>1 DEF OperandsFound, StoresProgress, TargetStates, IndirectState, WordState, StoreStates
<1>10. LastTyped' /\ StaleIsIdle' /\ ViewsAgree'
  BY <1>3, <1>4, <1>5, CycleFacts DEF Tracks, LastTyped, LastType, StaleIsIdle, ViewsAgree
<1>11. RegistersAgree'
  BY <1>1, <1>5 DEF Tracks, RegistersAgree, EnabledNow, IdleStates, InterruptState
<1>12. QED
  BY <1>8, <1>9, <1>10, <1>11 DEF Tracks

\* In the middle of an instruction the memory stays what it was, unless a byte is
\* stored.
LEMMA InsideViews ==
  ASSUME Tracks, PortInv, NEW in, Around(in), ctl_state \notin IdleStates,
         ctl_state' \notin IdleStates, ctl_state \notin StoreStates
  PROVE  UNCHANGED <<ram, cpu_ram, late>>
<1>1. ~WriteEnds(2)
  <2>1. ~stale
    BY CycleFacts
  <2>2. CASE Done(2)
    <3>1. ctl_state \in FetchStates \cup LoadStates
      BY <2>1, <2>2, Accesses DEF IsRequesting
    <3>2. QED
      BY <2>1, <2>2, <3>1, Accesses
  <2>3. CASE ~Done(2)
    BY <2>3 DEF WriteEnds
  <2>4. QED
    BY <2>2, <2>3
<1>2. QED
  BY <1>1, ViewsKept DEF Around

LEMMA InsideAgree ==
  ASSUME Tracks, UNCHANGED <<ram, cpu_ram, late>>, ctl_state \notin StoreStates
  PROVE  ViewsAgree'
  BY DEF Tracks, ViewsAgree

\* The other bytes of an instruction.
LEMMA FetchMore ==
  ASSUME BoardInv, Tracks, PortInv, NEW in, Around(in), in.done, Fetch(in),
         ctl_state # "INSN0"
  PROVE  Tracks'
<1> PICK k \in Nat : k = FetchIndex[ctl_state]
  BY DEF Fetch, FetchStates, FetchIndex
<1>1. /\ ctl_state \in {"F2_INSN1", "F34_INSN1", "F34_INSN2", "F34_INSN3"}
      /\ ctl_state' = AfterFetch
      /\ reg_pc' = TrimAddress(reg_pc + 1)
      /\ reg_instruction' = [reg_instruction EXCEPT ![k] = in.data]
      /\ UNCHANGED <<reg_il, reg_cc, reg_icc, reg_general, reg_interrupt, reg_interrupt_next>>
  BY DEF Fetch, FetchStates
<1>2. /\ ctl_state = "F2_INSN1" => k = 1 /\ ctl_state' = "F2_DECODE1"
      /\ ctl_state = "F34_INSN1" => k = 1 /\ ctl_state' = "F34_INSN2"
      /\ ctl_state = "F34_INSN2" =>
           k = 2 /\ ctl_state' = IF FlagE THEN "F34_INSN3" ELSE "F34_DECODE1"
      /\ ctl_state = "F34_INSN3" => k = 3 /\ ctl_state' = "F34_DECODE1"
  BY <1>1 DEF AfterFetch, FetchIndex
<1>3. Fetched(k) /\ k \in {1, 2, 3}
  BY <1>1, <1>2 DEF Tracks, CodeFetched
<1>4. /\ ctl_state \notin IdleStates \cup InterruptState \cup StoreStates
      /\ ctl_state' \notin IdleStates \cup InterruptState \cup StoreStates
      /\ ctl_state \in FetchStates /\ ctl_state \notin {"F34_DECODE1", "F34_INDIRECT2"}
  BY <1>1, <1>2 DEF IdleStates, InterruptState, StoreStates, FetchStates
<1>5. last' = last
  BY <1>4, GoingOn DEF Around
<1>6. UNCHANGED <<ram, cpu_ram, late>> /\ ViewsAgree'
  BY <1>4, InsideViews, InsideAgree
<1>7. LastTyped' /\ StaleIsIdle' /\ RegistersAgree'
  BY <1>1, <1>4, <1>5, CycleFacts, InsideTracks
<1>8. last.pc \in Int
  BY Sizes DEF Tracks, LastTyped, LastType, Address
<1>9. in.data = CodeByte(k)
  <2>1. CoreRequest = ReadRequest(reg_pc)
    BY <1>4 DEF CoreRequest, FetchStates, LoadStates, StoreStates
  <2>2. CoreRequest.address = reg_pc
    BY <2>1 DEF ReadRequest
  <2>3. in.data = ram[reg_pc]
    BY <1>4, <2>2, CycleFacts
  <2>4. late = ram
    BY <1>4 DEF Tracks, ViewsAgree
  <2>5. QED
    BY <1>3, <2>3, <2>4 DEF Fetched, CodeByte
<1>10. Fetched(k + 1)'
  <2>1. \A j : CodeByte(j)' = CodeByte(j)
    BY <1>5, <1>6 DEF CodeByte
  <2>2. reg_pc' = Cell(last'.pc, k + 1)
    BY <1>1, <1>3, <1>5, <1>8, NextCell DEF Fetched
  <2>3. reg_instruction \in [0 .. 3 -> Byte]
    BY DEF BoardInv, BoardTypeOK, CoreTypeOK
  <2>4. \A j \in 0 .. k : reg_instruction'[j] = CodeByte(j)
    <3>1. TAKE j \in 0 .. k
    <3>2. j \in 0 .. 3
      BY <1>3
    <3>3. CASE j = k
      BY <1>1, <1>9, <2>3, <3>2, <3>3
    <3>4. CASE j # k
      <4>1. reg_instruction'[j] = reg_instruction[j]
        BY <1>1, <2>3, <3>2, <3>4
      <4>2. j \in 0 .. k - 1
        BY <1>3, <3>4
      <4>3. QED
        BY <1>3, <4>1, <4>2 DEF Fetched
    <3>5. QED
      BY <3>3, <3>4
  <2>5. (k + 1) - 1 = k
    BY <1>3
  <2>6. QED
    BY <2>1, <2>2, <2>4, <2>5 DEF Fetched
<1>11. k # 1 => FlagE' = FlagE
  <2>1. k # 1 => reg_instruction'[1] = reg_instruction[1]
    BY <1>1, <1>3 DEF BoardInv, BoardTypeOK, CoreTypeOK
  <2>2. QED
    BY <2>1 DEF FlagE
<1>12. CodeFetched'
  <2>1. CASE k = 1
    <3>1. Fetched(2)'
      BY <1>10, <2>1
    <3>2. ctl_state' \in {"F2_DECODE1", "F34_INSN2"}
      BY <1>1, <1>2, <2>1
    <3>3. QED
      BY <3>1, <3>2
      DEF CodeFetched, DecodedStates, TargetStates, IndirectState, WordState, StoreStates
  <2>2. CASE k = 2
    <3>1. Fetched(3)'
      BY <1>10, <2>2
    <3>2. ctl_state' = IF FlagE THEN "F34_INSN3" ELSE "F34_DECODE1"
      BY <1>1, <1>2, <2>2
    <3>3. FlagE' = FlagE
      BY <1>11, <2>2
    <3>4. CASE FlagE
      BY <3>1, <3>2, <3>3, <3>4
      DEF CodeFetched, DecodedStates, TargetStates, IndirectState, WordState, StoreStates
    <3>5. CASE ~FlagE
      <4>1. WholeFetched'
        BY <3>1, <3>3, <3>5 DEF WholeFetched
      <4>2. QED
        BY <3>2, <3>5, <4>1 DEF CodeFetched
    <3>6. QED
      BY <3>4, <3>5
  <2>3. CASE k = 3
    <3>1. Fetched(4)'
      BY <1>10, <2>3
    <3>2. ctl_state = "F34_INSN3" /\ ctl_state' = "F34_DECODE1"
      BY <1>1, <1>2, <2>3
    <3>3. FlagE'
      BY <1>11, <2>3, <3>2 DEF Tracks, CodeFetched
    <3>4. WholeFetched'
      BY <3>1, <3>3 DEF WholeFetched
    <3>5. QED
      BY <3>2, <3>4 DEF CodeFetched
  <2>4. QED
    BY <1>3, <2>1, <2>2, <2>3
<1>13. OperandsFound' /\ StoresProgress'
  BY <1>1, <1>2
  DEF OperandsFound, StoresProgress, TargetStates, IndirectState, WordState, StoreStates
<1>14. QED
  BY <1>6, <1>7, <1>12, <1>13 DEF Tracks

\* The opcode of an instruction that has more bytes.
LEMMA DecodeMore ==
  ASSUME BoardInv, Tracks, PortInv, NEW in, Around(in), Decode0(in),
         ctl_state' \notin IdleStates
  PROVE  Tracks'
<1>1. /\ ctl_state = "DECODE0" /\ ctl_state' \in {"F2_INSN1", "F34_INSN1"}
      /\ UNCHANGED <<reg_instruction, reg_pc, reg_il, reg_cc, reg_icc, reg_general,
                     reg_interrupt, reg_interrupt_next>>
  BY DEF Decode0, DecodeLonger, F1_EINT, F1_DINT, F1_RINT, AfterEnable, Finish, IdleStates
<1>2. /\ ctl_state \notin IdleStates \cup InterruptState \cup StoreStates
      /\ ctl_state' \notin InterruptState
      /\ ctl_state \notin {"F34_DECODE1", "F34_INDIRECT2"}
  BY <1>1 DEF IdleStates, InterruptState, StoreStates
<1>3. last' = last
  BY <1>2, GoingOn DEF Around
<1>4. UNCHANGED <<ram, cpu_ram, late>> /\ ViewsAgree'
  BY <1>2, InsideViews, InsideAgree
<1>5. LastTyped' /\ StaleIsIdle' /\ RegistersAgree'
  BY <1>1, <1>2, <1>3, CycleFacts, InsideTracks
<1>6. Fetched(1)'
  <2>1. Fetched(1)
    BY <1>1 DEF Tracks, CodeFetched
  <2>2. Fetched(1)' = Fetched(1)
    BY <1>1, <1>3, <1>4, SameCode
  <2>3. QED
    BY <2>1, <2>2
<1>7. CodeFetched'
  BY <1>1, <1>6
  DEF CodeFetched, DecodedStates, TargetStates, IndirectState, WordState, StoreStates
<1>8. OperandsFound' /\ StoresProgress'
  BY <1>1
  DEF OperandsFound, StoresProgress, TargetStates, IndirectState, WordState, StoreStates
<1>9. QED
  BY <1>4, <1>5, <1>7, <1>8 DEF Tracks

\* The target address is known, or read from memory next.
LEMMA TargetMore ==
  ASSUME BoardInv, Tracks, PortInv, NEW in, Around(in), F34Decode1(in),
         ctl_state' \notin IdleStates
  PROVE  Tracks'
<1>1. /\ ctl_state = "F34_DECODE1" /\ Insn # "RSUB" /\ ~InvalidAddressing
      /\ reg_target' = IndexedTarget
      /\ ctl_state' = IF IsIndirect THEN "F34_INDIRECT0" ELSE "F34_DECODE2"
      /\ UNCHANGED <<reg_instruction, reg_pc, reg_il, reg_cc, reg_icc, reg_general,
                     reg_interrupt, reg_interrupt_next>>
  BY DEF F34Decode1, Finish, IdleStates
<1>2. /\ ctl_state \notin IdleStates \cup InterruptState \cup StoreStates
      /\ ctl_state' \notin InterruptState
  BY <1>1 DEF IdleStates, InterruptState, StoreStates
<1>3. IndexedTarget \in Word
  BY TargetTypes DEF BoardInv, BoardTypeOK
<1>4. last' = [last EXCEPT !.target = reg_target'] /\ reg_target' \in Word
  BY <1>1, <1>2, <1>3, GoingOn DEF Around
<1>5. UNCHANGED <<ram, cpu_ram, late>> /\ ViewsAgree'
  BY <1>2, InsideViews, InsideAgree
<1>6. LastTyped' /\ StaleIsIdle' /\ RegistersAgree' /\ last'.pc = last.pc
  BY <1>1, <1>2, <1>4, CycleFacts, InsideTracks
<1>7. last'.target = reg_target'
  BY <1>4 DEF Tracks, LastTyped, LastType
<1>8. CodeFetched'
  <2>1. WholeFetched
    BY <1>1 DEF Tracks, CodeFetched, DecodedStates
  <2>2. WholeFetched'
    BY <1>1, <1>5, <1>6, <2>1, SameCode
  <2>3. QED
    BY <1>1, <2>2 DEF CodeFetched
<1>9. /\ Insn' = Insn /\ InvalidAddressing' = InvalidAddressing /\ IsIndirect' = IsIndirect
      /\ IndexedTarget' = IndexedTarget /\ Target' = Target
  BY <1>1, <1>5, SameFlags, SameTarget
<1>10. Insn \in ShortMnemonic
  BY <1>1 DEF BoardInv, InsnInv
<1>11. OperandsFound'
  <2>1. CASE IsIndirect
    <3>1. TrimWord(IndexedTarget + 0) = IndexedTarget
      BY <1>3, Sizes DEF TrimWord, Word
    <3>2. Loaded(IndexedTarget, 0)'
      BY <1>1, <1>9, <3>1 DEF Loaded
    <3>3. ctl_state' = "F34_INDIRECT0"
      BY <1>1, <2>1
    <3>4. QED
      BY <1>1, <1>9, <2>1, <3>2, <3>3 DEF OperandsFound, TargetStates, IndirectState, WordState, StoreStates
  <2>2. CASE ~IsIndirect
    <3>1. ctl_state' = "F34_DECODE2" /\ Target = IndexedTarget
      BY <1>1, <2>2 DEF Target
    <3>2. QED
      BY <1>1, <1>7, <1>9, <1>10, <2>2, <3>1
      DEF OperandsFound, TargetStates, IndirectState, WordState, StoreStates
  <2>3. QED
    BY <2>1, <2>2
<1>12. StoresProgress'
  BY <1>1 DEF StoresProgress, StoreStates
<1>13. QED
  BY <1>5, <1>6, <1>8, <1>11, <1>12 DEF Tracks

-----------------------------------------------------------------------------
(***************************************************************************)
(* Loads.                                                                  *)
(***************************************************************************)
LEMMA Weights == High \in Nat \ {0} /\ ByteSize \in Nat \ {0, 1} /\ High > 1 /\ High # ByteSize
<1>1. ByteSize \in Nat /\ ByteSize > 1
  BY Sizes
<1>2. ByteSize * ByteSize >= 2 * ByteSize
  BY <1>1
<1>3. QED
  BY <1>1, <1>2 DEF High

\* A word is put together from its highest byte on.
LEMMA WordLoads ==
  ASSUME NEW word \in Word, NEW byte \in Byte
  PROVE  /\ WithByte(word, High, byte) \div High = byte
         /\ WithByte(word, ByteSize, byte) \div ByteSize = (word \div High) * ByteSize + byte
         /\ WithByte(word, 1, byte) = (word \div ByteSize) * ByteSize + byte
<1>1. word \in Nat /\ word < WordSize /\ byte \in Nat /\ byte < ByteSize
  BY Sizes DEF Word, Byte
<1>2. (word \div High) \div ByteSize = 0
  <2>1. word < 1 * (ByteSize * High)
    BY <1>1, Sizes DEF WordSize, High
  <2>2. word < ByteSize * High
    BY <2>1, Sizes, Weights
  <2>3. word \div High \in Nat
    BY <1>1, Weights
  <2>4. word \div High < ByteSize
    BY <1>1, <2>2, Weights, QuotientBelow
  <2> DEFINE q == word \div High
  <2> HIDE DEF q
  <2>5. q \in Nat /\ q < ByteSize
    BY <2>3, <2>4 DEF q
  <2>6. q \div ByteSize = 0
    <3>1. q < 1 * ByteSize
      BY <2>5, Weights
    <3>2. q \div ByteSize < 1 /\ q \div ByteSize \in Nat
      BY <2>5, <3>1, Weights, QuotientBelow
    <3>3. QED
      BY <3>2
  <2>7. QED
    BY <2>6 DEF q
<1>3. (word \div ByteSize) \div ByteSize = word \div High
  <2>1. ByteSize \in Nat \ {0}
    BY Weights
  <2>2. (word \div ByteSize) \div ByteSize = word \div (ByteSize * ByteSize)
    BY <1>1, <2>1, QuotientOfQuotient
  <2>3. QED
    BY <2>2 DEF High
<1>4. /\ WithByte(word, High, byte) \div High = ((word \div High) \div ByteSize) * ByteSize + byte
      /\ WithByte(word, ByteSize, byte) \div ByteSize
           = ((word \div ByteSize) \div ByteSize) * ByteSize + byte
      /\ WithByte(word, 1, byte) \div 1 = ((word \div 1) \div ByteSize) * ByteSize + byte
  BY Weights, ByteReplacedAbove DEF WithByte
<1>5. WithByte(word, High, byte) \div High = byte
  BY <1>1, <1>2, <1>4, Weights
<1>6. WithByte(word, 1, byte) \div 1 = WithByte(word, 1, byte) /\ word \div 1 = word
  <2>1. word \div ByteSize \in Nat
    BY <1>1, Weights
  <2>2. (word \div 1) % ByteSize \in Int
    <3>1. word \div 1 \in Nat
      BY <1>1
    <3>2. QED
      BY <3>1, Weights
  <2>3. WithByte(word, 1, byte) \in Int
    BY <1>1, <2>2 DEF WithByte
  <2>4. QED
    BY <1>1, <2>3
<1>7. QED
  BY <1>3, <1>4, <1>5, <1>6

LEMMA TargetWord ==
  ASSUME BoardInv, late \in Memory
  PROVE  IndexedTarget \in Word /\ Target \in Word
<1>1. IndexedTarget \in Word
  BY TargetTypes DEF BoardInv, BoardTypeOK
<1>2. IndexedTarget \in Int
  BY <1>1 DEF Word
<1>3. ReadMemoryWord(late, IndexedTarget) \in Word
  BY <1>2, ReadMemoryWordType
<1>4. QED
  BY <1>1, <1>3 DEF Target

\* The byte that comes is the one at the address.
LEMMA LoadedByte ==
  ASSUME BoardInv, Tracks, PortInv, NEW in, Around(in), in.done, Load(in), MemoryDividesWords,
         NEW base \in Int, NEW n \in Nat, reg_target = TrimWord(base + n)
  PROVE  in.data = late[Cell(base, n)] /\ in.data \in Byte
<1>1. ctl_state \in LoadStates /\ ctl_state \notin StoreStates
  BY DEF Load, LoadStates, StoreStates
<1>2. CoreRequest = ReadRequest(TrimAddress(reg_target))
  BY <1>1 DEF CoreRequest, FetchStates, LoadStates, StoreStates
<1>3. CoreRequest.address = TrimAddress(reg_target)
  BY <1>2 DEF ReadRequest
<1>4. in.data = ram[TrimAddress(reg_target)]
  BY <1>1, <1>3, CycleFacts
<1>5. TrimAddress(reg_target) = Cell(base, n)
  BY AddressOfWord DEF Cell
<1>6. late = ram
  BY <1>1 DEF Tracks, ViewsAgree
<1>7. in.data \in Byte
  BY InputsTyped DEF Around, BoardInv, CoreInput
<1>8. QED
  BY <1>4, <1>5, <1>6, <1>7

LEMMA LoadWord ==
  ASSUME BoardInv, NEW in, Load(in), NEW n \in {0, 1, 2},
         LoadWeight[ctl_state] = (IF n = 0 THEN High ELSE IF n = 1 THEN ByteSize ELSE 1),
         NEW base \in Int, NEW m, Loaded(base, n), late = m,
         in.data = m[Cell(base, n)], in.data \in Byte
  PROVE  /\ n < 2 => reg_target' = TrimWord(base + (n + 1))
         /\ n = 0 => reg_memory_data' \div High = m[Cell(base, 0)]
         /\ n = 1 => reg_memory_data' \div ByteSize
                       = m[Cell(base, 0)] * ByteSize + m[Cell(base, 1)]
         /\ n = 2 => reg_memory_data' = ReadMemoryWord(m, base)
<1>1. reg_memory_data' = WithByte(reg_memory_data, LoadWeight[ctl_state], in.data)
  BY DEF Load
<1>2. reg_memory_data \in Word
  BY DEF BoardInv, BoardTypeOK, CoreTypeOK
<1>3. n < 2 => reg_target' = TrimWord(base + (n + 1))
  <2>1. SUFFICES ASSUME n < 2 PROVE reg_target' = TrimWord(base + (n + 1))
    OBVIOUS
  <2>2. LoadWeight[ctl_state] # 1
    BY <2>1, Weights
  <2>3. reg_target' = TrimWord(reg_target + 1)
    <3>1. ctl_state \in LoadStates
      BY DEF Load
    <3>2. ctl_state \notin {"F34_INDIRECT2", "F34W_LOAD2", "F34B_LOAD0", "INT4"}
      BY <2>2, <3>1 DEF LoadWeight
    <3>3. QED
      BY <2>2, <3>2 DEF Load
  <2>4. base + n \in Int /\ (base + n) + 1 = base + (n + 1)
    OBVIOUS
  <2>5. QED
    BY <2>3, <2>4, TrimmedSum DEF Loaded
<1>4. CASE n = 0
  BY <1>1, <1>2, <1>3, <1>4, WordLoads
<1>5. CASE n = 1
  BY <1>1, <1>2, <1>3, <1>5, WordLoads DEF Loaded
<1>6. CASE n = 2
  BY <1>1, <1>2, <1>6, WordLoads DEF Loaded, ReadMemoryWord
<1>7. QED
  BY <1>4, <1>5, <1>6

\* In the middle of an interrupt cycle the registers stay as INT0 has left them.
LEMMA InterruptGoesOn ==
  ASSUME Tracks, ctl_state \in InterruptState, ctl_state' \in InterruptState,
         UNCHANGED <<reg_pc, reg_il, reg_cc, reg_icc, reg_general, reg_interrupt,
                     reg_interrupt_next>>,
         last' = last, stale' => stale
  PROVE  LastTyped' /\ StaleIsIdle' /\ RegistersAgree'
<1>1. ctl_state \notin IdleStates /\ ctl_state' \notin IdleStates
  BY DEF InterruptState, IdleStates
<1>2. ~stale
  BY <1>1 DEF Tracks, StaleIsIdle, IdleStates
<1>3. ctl_state # "ERROR" /\ ctl_state' # "ERROR"
  BY DEF InterruptState
<1>4. RegistersAgree'
  BY <1>1, <1>3 DEF Tracks, RegistersAgree, EnabledNow, IdleStates
<1>5. QED
  BY <1>2, <1>4 DEF Tracks, LastTyped, LastType, StaleIsIdle

\* A load changes the operand registers only.
LEMMA LoadFrame ==
  ASSUME BoardInv, Tracks, PortInv, NEW in, Around(in), Load(in)
  PROVE  /\ UNCHANGED <<ram, cpu_ram, late>> /\ late \in Memory
         /\ ViewsAgree' /\ LastTyped' /\ StaleIsIdle' /\ RegistersAgree' /\ CodeFetched'
         /\ StoresProgress'
         /\ Insn' = Insn /\ IsImmediate' = IsImmediate /\ IsIndirect' = IsIndirect
         /\ InvalidAddressing' = InvalidAddressing
         /\ IndexedTarget' = IndexedTarget /\ Target' = Target
         /\ IF ctl_state = "F34_INDIRECT2" THEN last'.target = reg_target' ELSE last' = last
<1>1. /\ ctl_state \in LoadStates
      /\ ctl_state' = AfterLoad[ctl_state]
      /\ UNCHANGED <<reg_instruction, reg_pc, reg_il, reg_cc, reg_icc, reg_general,
                     reg_interrupt, reg_interrupt_next>>
  BY DEF Load
<1>2. /\ ctl_state \notin IdleStates \cup StoreStates /\ ctl_state # "F34_DECODE1"
      /\ ctl_state' \notin IdleStates \cup StoreStates
      /\ ctl_state \in InterruptState <=> ctl_state' \in InterruptState
      /\ ctl_state \notin InterruptState =>
           ctl_state \in DecodedStates /\ ctl_state' \in DecodedStates /\ ctl_state' # "F34_DECODE1"
  BY <1>1 DEF LoadStates, AfterLoad, IdleStates, StoreStates, InterruptState, DecodedStates,
              TargetStates, IndirectState, WordState
<1>3. /\ ctl_state' \in DecodedStates =>
           ctl_state' \notin {"DECODE0", "F2_INSN1", "F34_INSN1", "F2_DECODE1", "F34_INSN2",
                              "F34_INSN3"}
      /\ ctl_state' \in InterruptState =>
           ctl_state' \notin DecodedStates \cup
             {"DECODE0", "F2_INSN1", "F34_INSN1", "F2_DECODE1", "F34_INSN2", "F34_INSN3"}
  BY DEF InterruptState, DecodedStates, TargetStates, IndirectState, WordState, StoreStates
<1>4. UNCHANGED <<ram, cpu_ram, late>> /\ ViewsAgree'
  BY <1>2, InsideViews, InsideAgree
<1>5. reg_target' \in Word
  BY DEF Around, BoardInv, BoardTypeOK, CoreTypeOK
<1>6. last' = IF ctl_state = "F34_INDIRECT2" THEN [last EXCEPT !.target = reg_target'] ELSE last
  BY <1>2, GoingOn DEF Around
<1>7. LastTyped' /\ StaleIsIdle' /\ RegistersAgree' /\ last'.pc = last.pc
  <2>1. CASE ctl_state \in InterruptState
    <3>1. ctl_state # "F34_INDIRECT2"
      BY <2>1 DEF InterruptState
    <3>2. QED
      BY <1>1, <1>2, <1>6, <2>1, <3>1, CycleFacts, InterruptGoesOn
  <2>2. CASE ctl_state \notin InterruptState
    BY <1>1, <1>2, <1>5, <1>6, <2>2, CycleFacts, InsideTracks
  <2>3. QED
    BY <2>1, <2>2
<1>8. CodeFetched'
  <2>1. CASE ctl_state \in InterruptState
    BY <1>2, <1>3, <2>1 DEF CodeFetched
  <2>2. CASE ctl_state \notin InterruptState
    <3>1. WholeFetched
      BY <1>2, <2>2 DEF Tracks, CodeFetched
    <3>2. WholeFetched'
      BY <1>1, <1>4, <1>7, <3>1, SameCode
    <3>3. QED
      BY <1>2, <1>3, <2>2, <3>2 DEF CodeFetched
  <2>3. QED
    BY <2>1, <2>2
<1>9. StoresProgress'
  BY <1>2 DEF StoresProgress
<1>10. /\ Insn' = Insn /\ IsImmediate' = IsImmediate /\ IsIndirect' = IsIndirect
       /\ InvalidAddressing' = InvalidAddressing
       /\ IndexedTarget' = IndexedTarget /\ Target' = Target
  BY <1>1, <1>4, SameFlags, SameTarget
<1>11. late \in Memory
  BY DEF Tracks, ViewsAgree
<1>12. IF ctl_state = "F34_INDIRECT2" THEN last'.target = reg_target' ELSE last' = last
  BY <1>6 DEF Tracks, LastTyped, LastType
<1>13. QED
  BY <1>4, <1>7, <1>8, <1>9, <1>10, <1>11, <1>12

LEMMA LoadMore ==
  ASSUME BoardInv, Tracks, PortInv, NEW in, Around(in), in.done, Load(in), MemoryDividesWords
  PROVE  Tracks'
<1>1. /\ UNCHANGED <<ram, cpu_ram, late>> /\ late \in Memory
      /\ ViewsAgree' /\ LastTyped' /\ StaleIsIdle' /\ RegistersAgree' /\ CodeFetched'
      /\ StoresProgress'
      /\ Insn' = Insn /\ IsImmediate' = IsImmediate /\ IsIndirect' = IsIndirect
      /\ InvalidAddressing' = InvalidAddressing
      /\ IndexedTarget' = IndexedTarget /\ Target' = Target
      /\ IF ctl_state = "F34_INDIRECT2" THEN last'.target = reg_target' ELSE last' = last
  BY LoadFrame
<1>2. ctl_state \in LoadStates /\ ctl_state' = AfterLoad[ctl_state] /\ OperandsFound
  BY DEF Load, Tracks
<1>3. IndexedTarget \in Int /\ Target \in Int /\ AddressSize - 3 \in Int
  BY <1>1, TargetWord, Sizes DEF Word
<1>4. ASSUME NEW n \in {0, 1, 2}, NEW base \in Int, Loaded(base, n),
             LoadWeight[ctl_state] = (IF n = 0 THEN High ELSE IF n = 1 THEN ByteSize ELSE 1)
      PROVE  /\ n < 2 => reg_target' = TrimWord(base + (n + 1))
             /\ n = 0 => reg_memory_data' \div High = late[Cell(base, 0)]
             /\ n = 1 => reg_memory_data' \div ByteSize
                           = late[Cell(base, 0)] * ByteSize + late[Cell(base, 1)]
             /\ n = 2 => reg_memory_data' = ReadMemoryWord(late, base)
  <2>1. reg_target = TrimWord(base + n) /\ n \in Nat
    BY <1>4 DEF Loaded
  <2>2. in.data = late[Cell(base, n)] /\ in.data \in Byte
    BY <1>4, <2>1, LoadedByte
  <2> PICK m : m = late
    OBVIOUS
  <2>3. in.data = m[Cell(base, n)]
    BY <2>2
  <2>4. /\ n < 2 => reg_target' = TrimWord(base + (n + 1))
        /\ n = 0 => reg_memory_data' \div High = m[Cell(base, 0)]
        /\ n = 1 => reg_memory_data' \div ByteSize
                      = m[Cell(base, 0)] * ByteSize + m[Cell(base, 1)]
        /\ n = 2 => reg_memory_data' = ReadMemoryWord(m, base)
    BY <1>4, <2>2, <2>3, LoadWord
  <2>5. QED
    BY <2>4
<1>5. SUFFICES OperandsFound'
  BY <1>1 DEF Tracks
<1>6. LoadWeight[ctl_state] =
        CASE ctl_state \in {"F34_INDIRECT0", "F34W_LOAD0", "INT2"} -> High
          [] ctl_state \in {"F34_INDIRECT1", "F34W_LOAD1", "INT3"} -> ByteSize
          [] ctl_state \in {"F34_INDIRECT2", "F34W_LOAD2", "INT4", "F34B_LOAD0"} -> 1
  BY <1>2 DEF LoadWeight
<1>7. ASSUME NEW base \in Int, NEW n \in {0, 1}, Loaded(base, n),
             LoadWeight[ctl_state] = (IF n = 0 THEN High ELSE ByteSize)
      PROVE  Loaded(base, n + 1)'
  <2>1. (n = 0 => n + 1 = 1) /\ (n = 1 => n + 1 = 2)
    OBVIOUS
  <2>2. /\ reg_target' = TrimWord(base + (n + 1))
        /\ n = 0 => reg_memory_data' \div High = late[Cell(base, 0)]
        /\ n = 1 => reg_memory_data' \div ByteSize
                      = late[Cell(base, 0)] * ByteSize + late[Cell(base, 1)]
    BY <1>4, <1>7
  <2>3. CASE n = 0
    BY <1>1, <2>1, <2>2, <2>3 DEF Loaded, High
  <2>4. CASE n = 1
    BY <1>1, <2>1, <2>2, <2>4 DEF Loaded, High
  <2>5. QED
    BY <2>3, <2>4
<1>8. CASE ctl_state = "F34_INDIRECT0"
  <2>1. Loaded(IndexedTarget, 0) /\ IsIndirect /\ ~InvalidAddressing
    BY <1>2, <1>8 DEF OperandsFound, IndirectState
  <2>2. LoadWeight[ctl_state] = High
    BY <1>6, <1>8
  <2> PICK base : base = IndexedTarget
    OBVIOUS
  <2>3. Loaded(base, 0 + 1)'
    BY <1>3, <1>7, <2>1, <2>2
  <2>4. Loaded(IndexedTarget, 1)'
    BY <1>1, <2>3 DEF Loaded
  <2>5. ctl_state' = "F34_INDIRECT1"
    BY <1>2, <1>8 DEF AfterLoad
  <2>6. QED
    BY <1>1, <2>1, <2>4, <2>5
    DEF OperandsFound, TargetStates, IndirectState, WordState, StoreStates
<1>9. CASE ctl_state = "F34_INDIRECT1"
  <2>1. Loaded(IndexedTarget, 1) /\ IsIndirect /\ ~InvalidAddressing
    BY <1>2, <1>9 DEF OperandsFound, IndirectState
  <2>2. LoadWeight[ctl_state] = ByteSize
    BY <1>6, <1>9
  <2> PICK base : base = IndexedTarget
    OBVIOUS
  <2>3. Loaded(base, 1 + 1)'
    BY <1>3, <1>7, <2>1, <2>2
  <2>4. Loaded(IndexedTarget, 2)'
    BY <1>1, <2>3 DEF Loaded
  <2>5. ctl_state' = "F34_INDIRECT2"
    BY <1>2, <1>9 DEF AfterLoad
  <2>6. QED
    BY <1>1, <2>1, <2>4, <2>5
    DEF OperandsFound, TargetStates, IndirectState, WordState, StoreStates
<1>10. CASE ctl_state = "F34_INDIRECT2"
  <2>1. Loaded(IndexedTarget, 2) /\ IsIndirect /\ ~InvalidAddressing
    BY <1>2, <1>10 DEF OperandsFound, IndirectState
  <2>2. LoadWeight[ctl_state] = 1
    BY <1>6, <1>10
  <2>3. reg_memory_data' = ReadMemoryWord(late, IndexedTarget)
    BY <1>3, <1>4, <2>1, <2>2
  <2>4. reg_target' = reg_memory_data'
    BY <1>10, <2>2 DEF Load
  <2>5. reg_target' = Target
    BY <2>1, <2>3, <2>4 DEF Target
  <2>6. ctl_state' = "F34_DECODE2"
    BY <1>2, <1>10 DEF AfterLoad
  <2>7. Insn \in ShortMnemonic \ {"RSUB"}
    BY <1>10 DEF BoardInv, InsnInv, IndirectState
  <2>8. QED
    BY <1>1, <1>10, <2>1, <2>5, <2>6, <2>7
    DEF OperandsFound, TargetStates, IndirectState, WordState, StoreStates
<1>11. CASE ctl_state \in {"F34W_LOAD0", "F34W_LOAD1", "F34W_LOAD2", "F34B_LOAD0"}
  <2>1. /\ ~InvalidAddressing /\ last.target = Target /\ Insn \in ShortMnemonic \ {"RSUB"}
        /\ ~IsImmediate
    BY <1>2, <1>11 DEF OperandsFound, TargetStates, WordState
  <2>2. last' = last
    BY <1>1, <1>11
  <2> PICK base : base = Target
    OBVIOUS
  <2>3. CASE ctl_state = "F34W_LOAD0"
    <3>1. Loaded(base, 0 + 1)'
      BY <1>2, <1>3, <1>6, <1>7, <2>3 DEF OperandsFound
    <3>2. Loaded(Target, 1)'
      BY <1>1, <3>1 DEF Loaded
    <3>3. ctl_state' = "F34W_LOAD1"
      BY <1>2, <2>3 DEF AfterLoad
    <3>4. QED
      BY <1>1, <2>1, <2>2, <3>2, <3>3
      DEF OperandsFound, TargetStates, IndirectState, WordState, StoreStates
  <2>4. CASE ctl_state = "F34W_LOAD1"
    <3>1. Loaded(base, 1 + 1)'
      BY <1>2, <1>3, <1>6, <1>7, <2>4 DEF OperandsFound
    <3>2. Loaded(Target, 2)'
      BY <1>1, <3>1 DEF Loaded
    <3>3. ctl_state' = "F34W_LOAD2"
      BY <1>2, <2>4 DEF AfterLoad
    <3>4. QED
      BY <1>1, <2>1, <2>2, <3>2, <3>3
      DEF OperandsFound, TargetStates, IndirectState, WordState, StoreStates
  <2>5. CASE ctl_state = "F34W_LOAD2"
    <3>1. LoadWeight[ctl_state] = 1 /\ Loaded(Target, 2)
      BY <1>2, <1>6, <2>5 DEF OperandsFound
    <3>2. reg_memory_data' = ReadMemoryWord(late, Target)
      BY <1>3, <1>4, <3>1
    <3>3. reg_target' = reg_memory_data'
      BY <2>5, <3>1 DEF Load
    <3>4. reg_target' = Operand'
      BY <1>1, <2>1, <3>2, <3>3 DEF Operand, ReadMemoryWord
    <3>5. ctl_state' = "F34W_DECODE3"
      BY <1>2, <2>5 DEF AfterLoad
    <3>6. QED
      BY <1>1, <2>1, <2>2, <3>4, <3>5
      DEF OperandsFound, TargetStates, IndirectState, WordState, StoreStates
  <2>6. CASE ctl_state = "F34B_LOAD0"
    <3>1. LoadWeight[ctl_state] = 1 /\ reg_target = Target /\ Insn \in ByteInsn
      BY <1>2, <1>6, <2>6 DEF OperandsFound
    <3>2. TrimWord(base + 0) = base
      BY <1>1, TargetWord, Sizes DEF TrimWord, Word
    <3>3. in.data = late[Cell(base, 0)] /\ in.data \in Byte
      BY <1>3, <3>1, <3>2, LoadedByte
    <3>4. reg_memory_data \in Word
      BY DEF BoardInv, BoardTypeOK, CoreTypeOK
    <3> DEFINE q == reg_memory_data \div ByteSize
               word == WithByte(reg_memory_data, 1, in.data)
    <3>5. word = q * ByteSize + in.data
      BY <3>3, <3>4, WordLoads
    <3>6. q \in Int
      BY <3>4, Weights DEF Word
    <3>7. reg_target' = word % ByteSize
      BY <2>6, <3>1, Weights DEF Load
    <3> HIDE DEF q, word
    <3> PICK byte \in Byte : byte = in.data
      BY <3>3
    <3>8. reg_target' = in.data
      <4>1. ByteSize \in Nat /\ ByteSize > 0 /\ byte \in Int /\ 0 <= byte /\ byte < ByteSize
        BY Sizes DEF Byte
      <4>2. (q * ByteSize + byte) % ByteSize = byte
        BY <3>6, <4>1, RemainderUnique
      <4>3. QED
        BY <3>5, <3>7, <4>2
    <3>9. reg_target' = OperandB'
      BY <1>1, <2>1, <3>3, <3>8 DEF OperandB
    <3>10. ctl_state' = "F34B_DECODE3"
      BY <1>2, <2>6 DEF AfterLoad
    <3>11. QED
      BY <1>1, <2>1, <2>2, <3>1, <3>9, <3>10
      DEF OperandsFound, TargetStates, IndirectState, WordState, StoreStates
  <2>7. QED
    BY <1>11, <2>3, <2>4, <2>5, <2>6
<1>12. CASE ctl_state \in {"INT2", "INT3", "INT4"}
  <2> DEFINE base == AddressSize - 3
  <2>1. CASE ctl_state = "INT2"
    <3>1. Loaded(base, 0 + 1)'
      BY <1>2, <1>3, <1>6, <1>7, <2>1 DEF OperandsFound
    <3>2. ctl_state' = "INT3"
      BY <1>2, <2>1 DEF AfterLoad
    <3>3. QED
      BY <3>1, <3>2 DEF OperandsFound, TargetStates, IndirectState, WordState, StoreStates
  <2>2. CASE ctl_state = "INT3"
    <3>1. Loaded(base, 1 + 1)'
      BY <1>2, <1>3, <1>6, <1>7, <2>2 DEF OperandsFound
    <3>2. ctl_state' = "INT4"
      BY <1>2, <2>2 DEF AfterLoad
    <3>3. QED
      BY <3>1, <3>2 DEF OperandsFound, TargetStates, IndirectState, WordState, StoreStates
  <2>3. CASE ctl_state = "INT4"
    <3>1. LoadWeight[ctl_state] = 1 /\ Loaded(base, 2)
      BY <1>2, <1>6, <2>3 DEF OperandsFound
    <3>2. reg_memory_data' = ReadMemoryWord(late, base)
      BY <1>3, <1>4, <3>1
    <3>3. ctl_state' = "INT5"
      BY <1>2, <2>3 DEF AfterLoad
    <3>4. QED
      BY <1>1, <3>2, <3>3
      DEF OperandsFound, TargetStates, IndirectState, WordState, StoreStates, ReadMemoryWord
  <2>4. QED
    BY <1>12, <2>1, <2>2, <2>3
<1>13. QED
  BY <1>2, <1>8, <1>9, <1>10, <1>11, <1>12 DEF LoadStates

-----------------------------------------------------------------------------
(***************************************************************************)
(* Stores, the decoding of an operand, and the begin of an interrupt.      *)
(***************************************************************************)
LEMMA StoredNext ==
  ASSUME BoardInv, late \in Memory, Target \in Int, MemoryDividesWords, NEW n \in {0, 1},
         ctl_state = (IF n = 0 THEN "F34_STORE0" ELSE "F34_STORE1"), Stored(n)
  PROVE  /\ TrimWord(reg_target + 1) = TrimWord(Target + (n + 1))
         /\ [cpu_ram EXCEPT ![TrimAddress(reg_target)] =
               (reg_memory_data \div StoreWeight[ctl_state]) % ByteSize] = StoredBytes(n + 1)
<1>1. TrimWord(reg_target + 1) = TrimWord(Target + (n + 1))
  <2>1. Target + n \in Int /\ (Target + n) + 1 = Target + (n + 1)
    OBVIOUS
  <2>2. QED
    BY <2>1, TrimmedSum DEF Stored
<1>2. TrimAddress(reg_target) = Cell(Target, n)
  BY AddressOfWord DEF Stored, Cell
<1>3. Cell(Target, 0) # Cell(Target, 1)
  BY CellsDiffer
<1>4. Cell(Target, 0) \in Address /\ Cell(Target, 1) \in Address
  BY CellType
<1> DEFINE top == ((reg_memory_data \div ByteSize) \div ByteSize) % ByteSize
           middle == (reg_memory_data \div ByteSize) % ByteSize
<1>5. CASE n = 0
  <2>1. StoreWeight[ctl_state] = High
    BY <1>5 DEF StoreWeight
  <2>2. (reg_memory_data \div High) % ByteSize = top
    <3>1. reg_memory_data \in Nat /\ ByteSize \in Nat \ {0}
      BY Weights DEF BoardInv, BoardTypeOK, CoreTypeOK, Word
    <3>2. (reg_memory_data \div ByteSize) \div ByteSize = reg_memory_data \div (ByteSize * ByteSize)
      BY <3>1, QuotientOfQuotient
    <3>3. QED
      BY <3>2 DEF High
  <2>3. cpu_ram = StoredBytes(0)
    BY <1>5 DEF Stored
  <2> HIDE DEF top, middle
  <2>4. /\ StoredBytes(0) = [a \in Address |-> late[a]]
        /\ StoredBytes(1) = [a \in Address |-> IF a = Cell(Target, 0) THEN top ELSE late[a]]
    BY DEF StoredBytes, top
  <2>5. [cpu_ram EXCEPT ![Cell(Target, 0)] = top] = StoredBytes(1)
    BY <1>4, <2>3, <2>4
  <2>6. QED
    BY <1>1, <1>2, <1>5, <2>1, <2>2, <2>5
<1>6. CASE n = 1
  <2>1. StoreWeight[ctl_state] = ByteSize
    BY <1>6 DEF StoreWeight
  <2>2. cpu_ram = StoredBytes(1)
    BY <1>6 DEF Stored
  <2> HIDE DEF top, middle
  <2>3. /\ StoredBytes(1) = [a \in Address |-> IF a = Cell(Target, 0) THEN top ELSE late[a]]
        /\ StoredBytes(2) = [a \in Address |-> IF a = Cell(Target, 0) THEN top
                                               ELSE IF a = Cell(Target, 1) THEN middle
                                               ELSE late[a]]
    BY DEF StoredBytes, top, middle
  <2>4. [cpu_ram EXCEPT ![Cell(Target, 1)] = middle] = StoredBytes(2)
    BY <1>3, <1>4, <2>2, <2>3
  <2>5. QED
    BY <1>1, <1>2, <1>6, <2>1, <2>4 DEF middle
<1>7. QED
  BY <1>5, <1>6

\* What has been stored depends on the memory of before, the target and the word.
LEMMA SameStored ==
  ASSUME UNCHANGED <<late, reg_memory_data>>, Target' = Target
  PROVE  \A n : StoredBytes(n)' = StoredBytes(n)
<1>1. Cell(Target, 0)' = Cell(Target, 0) /\ Cell(Target, 1)' = Cell(Target, 1)
  OBVIOUS
<1>2. QED
  BY <1>1 DEF StoredBytes

LEMMA StoreMore ==
  ASSUME BoardInv, Tracks, PortInv, NEW in, Around(in), in.done, Store(in), MemoryDividesWords,
         ctl_state # "F34_STORE2"
  PROVE  Tracks'
<1>1. /\ ctl_state \in {"F34_STORE0", "F34_STORE1"}
      /\ ctl_state' = IF ctl_state = "F34_STORE0" THEN "F34_STORE1" ELSE "F34_STORE2"
      /\ reg_target' = TrimWord(reg_target + 1)
      /\ UNCHANGED <<reg_instruction, reg_pc, reg_il, reg_cc, reg_icc, reg_general,
                     reg_memory_data, reg_interrupt, reg_interrupt_next>>
  BY DEF Store, StoreStates
<1>2. /\ ctl_state \in StoreStates /\ ctl_state \notin IdleStates \cup InterruptState
      /\ ctl_state' \in StoreStates /\ ctl_state' \notin IdleStates \cup InterruptState
      /\ ctl_state \notin {"F34_DECODE1", "F34_INDIRECT2"}
  BY <1>1 DEF StoreStates, IdleStates, InterruptState
<1>3. last' = last
  BY <1>2, GoingOn DEF Around
<1>4. ~stale /\ Done(2)
  BY <1>2, CycleFacts
<1>5. /\ cpu_ram' = [cpu_ram EXCEPT ![TrimAddress(reg_target)] =
                       (reg_memory_data \div StoreWeight[ctl_state]) % ByteSize]
      /\ ram' = cpu_ram' /\ late' = late
  BY <1>2, <1>4, ViewsStored DEF Around
<1>6. late \in Memory
  BY DEF Tracks, ViewsAgree
<1>7. ViewsAgree'
  BY <1>2, <1>5, <1>6 DEF ViewsAgree
<1>8. LastTyped' /\ StaleIsIdle' /\ RegistersAgree' /\ last'.pc = last.pc
  BY <1>1, <1>2, <1>3, CycleFacts, InsideTracks
<1>9. /\ Insn' = Insn /\ IsImmediate' = IsImmediate /\ InvalidAddressing' = InvalidAddressing
      /\ Target' = Target
  BY <1>1, <1>5, SameFlags, SameTarget
<1>10. CodeFetched'
  <2>1. WholeFetched
    BY <1>2 DEF Tracks, CodeFetched, DecodedStates, TargetStates
  <2>2. WholeFetched'
    BY <1>1, <1>5, <1>8, <2>1, SameCode
  <2>3. QED
    BY <1>1, <2>2 DEF CodeFetched
<1>11. OperandsFound'
  <2>1. ~InvalidAddressing /\ last.target = Target /\ Insn \in ShortMnemonic \ {"RSUB"}
    BY <1>2 DEF Tracks, OperandsFound, TargetStates
  <2>2. ctl_state' \notin IndirectState \cup WordState
    BY <1>1 DEF IndirectState, WordState
  <2>3. ctl_state' \in {"F34_STORE1", "F34_STORE2"}
    BY <1>1
  <2>4. QED
    BY <1>3, <1>9, <2>1, <2>2, <2>3 DEF OperandsFound, IndirectState, WordState
<1>12. StoresProgress'
  <2>1. /\ Insn \in DOMAIN StoreRegister \cup {"STSW", "STIL"}
        /\ ~IsImmediate
        /\ Insn \in DOMAIN StoreRegister =>
             /\ reg_memory_data = reg_general[StoreRegister[Insn]]
             /\ Insn # "STCH"
             /\ ctl_state = "F34_STORE0" => Stored(0)
             /\ ctl_state = "F34_STORE1" => Stored(1)
    BY <1>1, <1>2 DEF Tracks, StoresProgress
  <2>2. Target \in Int
    BY <1>6, TargetWord DEF Word
  <2>3. \A n : StoredBytes(n)' = StoredBytes(n)
    BY <1>1, <1>5, <1>9, SameStored
  <2>4. ASSUME ctl_state = "F34_STORE0", Stored(0) PROVE Stored(1)'
    <3>1. /\ TrimWord(reg_target + 1) = TrimWord(Target + 1)
          /\ [cpu_ram EXCEPT ![TrimAddress(reg_target)] =
                (reg_memory_data \div StoreWeight[ctl_state]) % ByteSize] = StoredBytes(1)
      <4>1. 0 + 1 = 1
        OBVIOUS
      <4>2. QED
        BY <1>6, <2>2, <2>4, <4>1, StoredNext
    <3>2. QED
      BY <1>1, <1>5, <1>9, <2>3, <3>1 DEF Stored
  <2>5. ASSUME ctl_state = "F34_STORE1", Stored(1) PROVE Stored(2)'
    <3>1. /\ TrimWord(reg_target + 1) = TrimWord(Target + 2)
          /\ [cpu_ram EXCEPT ![TrimAddress(reg_target)] =
                (reg_memory_data \div StoreWeight[ctl_state]) % ByteSize] = StoredBytes(2)
      <4>1. 1 + 1 = 2
        OBVIOUS
      <4>2. QED
        BY <1>6, <2>2, <2>5, <4>1, StoredNext
    <3>2. QED
      BY <1>1, <1>5, <1>9, <2>3, <3>1 DEF Stored
  <2>6. CASE ctl_state = "F34_STORE0"
    BY <1>1, <1>9, <2>1, <2>4, <2>6 DEF StoresProgress
  <2>7. CASE ctl_state = "F34_STORE1"
    BY <1>1, <1>9, <2>1, <2>5, <2>7 DEF StoresProgress
  <2>8. QED
    BY <1>1, <2>6, <2>7
<1>13. QED
  BY <1>7, <1>8, <1>10, <1>11, <1>12 DEF Tracks

LEMMA OperandMore ==
  ASSUME BoardInv, Tracks, PortInv, NEW in, Around(in), F34Decode2(in), ctl_state' \notin IdleStates
  PROVE  Tracks'
<1>1. /\ ctl_state = "F34_DECODE2"
      /\ \/ DecodeStore /\ ~IsImmediate
         \/ DecodeOperand
      /\ UNCHANGED <<reg_instruction, reg_target, reg_pc, reg_il, reg_cc, reg_icc, reg_general,
                     reg_interrupt, reg_interrupt_next>>
  BY DEF F34Decode2, DecodeStore, DecodeJump, DecodeOperand, Finish, IdleStates
<1>2. /\ ctl_state \notin IdleStates \cup InterruptState \cup StoreStates
      /\ ctl_state \notin {"F34_DECODE1", "F34_INDIRECT2"}
      /\ ctl_state \in TargetStates
  BY <1>1 DEF IdleStates, InterruptState, StoreStates, TargetStates
<1>3. ctl_state' \in {"F34_STORE0", "F34_STORE2", "F34B_DECODE3", "F34B_LOAD0", "F34W_DECODE3",
                      "F34W_LOAD0"}
  BY <1>1 DEF DecodeStore, DecodeOperand
<1>4. last' = last
  BY <1>2, GoingOn DEF Around
<1>5. UNCHANGED <<ram, cpu_ram, late>> /\ ViewsAgree'
  BY <1>2, InsideViews, InsideAgree
<1>6. late \in Memory /\ late = ram /\ cpu_ram = ram
  BY <1>2 DEF Tracks, ViewsAgree
<1>7. LastTyped' /\ StaleIsIdle' /\ RegistersAgree' /\ last'.pc = last.pc
  <2>1. ctl_state' \notin InterruptState
    BY <1>3 DEF InterruptState
  <2>2. QED
    BY <1>1, <1>2, <1>4, <2>1, CycleFacts, InsideTracks
<1>8. /\ Insn' = Insn /\ IsImmediate' = IsImmediate /\ InvalidAddressing' = InvalidAddressing
      /\ Target' = Target
  BY <1>1, <1>5, SameFlags, SameTarget
<1>9. CodeFetched'
  <2>1. WholeFetched
    BY <1>2 DEF Tracks, CodeFetched, DecodedStates
  <2>2. WholeFetched'
    BY <1>1, <1>5, <1>7, <2>1, SameCode
  <2>3. QED
    BY <1>3, <2>2 DEF CodeFetched
<1>10. /\ ~InvalidAddressing /\ last.target = Target /\ Insn \in ShortMnemonic \ {"RSUB"}
       /\ reg_target = Target
  BY <1>1, <1>2 DEF Tracks, OperandsFound
<1>11. Target \in Word
  BY <1>6, TargetWord
<1>12. TrimWord(Target + 0) = Target
  BY <1>11, Sizes DEF TrimWord, Word
<1>13. OperandsFound'
  <2>1. ctl_state' \notin IndirectState /\ last'.target = Target' /\ reg_target' = Target'
    BY <1>1, <1>3, <1>4, <1>8, <1>10 DEF IndirectState
  <2>2. CASE DecodeStore /\ ~IsImmediate
    <3>1. ctl_state' \in {"F34_STORE0", "F34_STORE2"}
      BY <2>2 DEF DecodeStore
    <3>2. QED
      BY <1>8, <1>10, <2>1, <3>1 DEF OperandsFound, WordState
  <2>3. CASE DecodeOperand
    <3>1. CASE ctl_state' = "F34B_DECODE3"
      <4>1. Insn \in ByteInsn /\ IsImmediate
        BY <2>3, <3>1 DEF DecodeOperand
      <4>2. QED
        BY <1>8, <1>10, <2>1, <3>1, <4>1 DEF OperandsFound, WordState, OperandB
    <3>2. CASE ctl_state' = "F34B_LOAD0"
      <4>1. Insn \in ByteInsn /\ ~IsImmediate
        BY <2>3, <3>2 DEF DecodeOperand
      <4>2. QED
        BY <1>8, <1>10, <2>1, <3>2, <4>1 DEF OperandsFound, WordState
    <3>3. CASE ctl_state' = "F34W_DECODE3"
      <4>1. IsImmediate
        BY <2>3, <3>3 DEF DecodeOperand
      <4>2. QED
        BY <1>8, <1>10, <2>1, <3>3, <4>1 DEF OperandsFound, WordState, Operand
    <3>4. CASE ctl_state' = "F34W_LOAD0"
      <4>1. ~IsImmediate
        BY <2>3, <3>4 DEF DecodeOperand
      <4>2. Loaded(Target, 0)'
        BY <1>8, <1>12, <2>1 DEF Loaded
      <4>3. QED
        BY <1>8, <1>10, <2>1, <3>4, <4>1, <4>2 DEF OperandsFound, WordState
    <3>5. QED
      BY <2>3, <3>1, <3>2, <3>3, <3>4 DEF DecodeOperand
  <2>4. QED
    BY <1>1, <2>2, <2>3
<1>14. StoresProgress'
  <2>1. SUFFICES ASSUME ctl_state' \in StoreStates PROVE StoresProgress'
    BY DEF StoresProgress
  <2>2. /\ Insn \in DOMAIN StoreRegister \cup {"STSW", "STIL"} /\ ~IsImmediate
        /\ reg_memory_data' = StoreData
        /\ ctl_state' = IF Insn \in {"STCH", "STSW"} THEN "F34_STORE2" ELSE "F34_STORE0"
    BY <1>1, <2>1 DEF DecodeStore, DecodeOperand, StoreStates
  <2>3. Insn \in DOMAIN StoreRegister => StoreData = reg_general[StoreRegister[Insn]]
    BY DEF StoreData, StoreRegister
  <2>4. Stored(0)'
    <3>1. StoredBytes(0)' = [a \in Address |-> late'[a]]
      BY DEF StoredBytes
    <3>2. cpu_ram' = [a \in Address |-> late'[a]]
      BY <1>5, <1>6 DEF Memory
    <3>3. QED
      BY <1>1, <1>8, <1>10, <1>12, <3>1, <3>2 DEF Stored
  <2>5. "STSW" \notin DOMAIN StoreRegister
    BY DEF StoreRegister
  <2>6. CASE Insn \in DOMAIN StoreRegister
    <3>1. reg_memory_data' = reg_general'[StoreRegister[Insn']]
      BY <1>1, <1>8, <2>2, <2>3, <2>6
    <3>2. CASE Insn = "STCH"
      <4>1. ctl_state' = "F34_STORE2"
        BY <2>2, <3>2
      <4>2. QED
        BY <1>8, <2>2, <2>4, <3>1, <3>2, <4>1 DEF StoresProgress
    <3>3. CASE Insn # "STCH"
      <4>1. ctl_state' = "F34_STORE0"
        BY <2>2, <2>5, <2>6, <3>3
      <4>2. QED
        BY <1>8, <2>2, <2>4, <3>1, <3>3, <4>1 DEF StoresProgress
    <3>4. QED
      BY <3>2, <3>3
  <2>7. CASE Insn \notin DOMAIN StoreRegister
    BY <1>8, <2>2, <2>7 DEF StoresProgress
  <2>8. QED
    BY <2>6, <2>7
<1>15. QED
  BY <1>5, <1>7, <1>9, <1>13, <1>14 DEF Tracks

\* The acknowledgement of an interrupt, with which its cycle begins.
LEMMA InterruptBegins ==
  ASSUME BoardInv, Tracks, PortInv, NEW in, Around(in), Int0
  PROVE  Tracks'
<1>1. /\ ctl_state = "INT0" /\ ctl_state' = "INT2"
      /\ ~reg_interrupt' /\ ~reg_interrupt_next'
      /\ reg_il' = reg_pc /\ reg_icc' = reg_cc /\ reg_target' = AddressSize - 3
      /\ UNCHANGED <<reg_pc, reg_cc, reg_general>>
  BY DEF Int0
<1>2. ctl_state \in IdleStates
  BY <1>1 DEF IdleStates
<1>3. late' = ram' /\ cpu_ram' = ram' /\ ViewsAgree' /\ last' = last
  BY <1>1, <1>2, ViewsIdle, GoingOn DEF Around
<1>4. ~stale'
  BY <1>1, CycleFacts DEF Tracks, StaleIsIdle
<1>5. RegistersAgree'
  BY <1>1, <1>2, <1>3 DEF Tracks, RegistersAgree, IdleStates, InterruptState
<1>6. CodeFetched' /\ StoresProgress'
  BY <1>1 DEF CodeFetched, StoresProgress, DecodedStates, TargetStates, IndirectState, WordState,
              StoreStates
<1>7. OperandsFound'
  <2>1. AddressSize - 3 \in Word
    <3>1. AddressSize - 3 \in Address
      BY Sizes DEF Address
    <3>2. QED
      BY <3>1, Sizes
  <2>2. TrimWord((AddressSize - 3) + 0) = AddressSize - 3
    BY <2>1, Sizes DEF TrimWord, Word
  <2>3. Loaded(AddressSize - 3, 0)'
    BY <1>1, <2>2 DEF Loaded
  <2>4. QED
    BY <1>1, <2>3 DEF OperandsFound, TargetStates, IndirectState, WordState, StoreStates
<1>8. LastTyped' /\ StaleIsIdle'
  BY <1>3, <1>4 DEF Tracks, LastTyped, LastType, StaleIsIdle
<1>9. QED
  BY <1>3, <1>5, <1>6, <1>7, <1>8 DEF Tracks

-----------------------------------------------------------------------------
(***************************************************************************)
(* The end of an instruction.                                              *)
(***************************************************************************)
\* The cycle is the last of an instruction or of an interrupt.
Ends(in) ==
  /\ Around(in) /\ CoreStep(in)
  /\ ctl_state \in FetchStates \cup LoadStates \cup StoreStates => in.done
  /\ ctl_state \notin IdleStates /\ ctl_state' \in IdleStates

LEMMA EndViews ==
  ASSUME Tracks, PortInv, NEW in, Ends(in)
  PROVE  /\ ViewsAgree' /\ late' = cpu_ram'
         /\ ctl_state \notin StoreStates => late' = late
         /\ ctl_state \in StoreStates =>
              late' = [cpu_ram EXCEPT ![TrimAddress(reg_target)] =
                         (reg_memory_data \div StoreWeight[ctl_state]) % ByteSize]
<1>1. ~stale
  BY CycleFacts DEF Ends
<1>2. ram' \in Memory
  BY DEF Ends, Around, BoardInv, BoardTypeOK, MemoryTypeOK, Memory
<1>3. CASE ctl_state \in StoreStates
  <2>1. Done(2)
    BY <1>3, CycleFacts DEF Ends
  <2>2. /\ cpu_ram' = [cpu_ram EXCEPT ![TrimAddress(reg_target)] =
                         (reg_memory_data \div StoreWeight[ctl_state]) % ByteSize]
        /\ ram' = cpu_ram'
        /\ late' = IF ctl_state' \in IdleStates THEN cpu_ram' ELSE late
    BY <1>1, <1>3, <2>1, ViewsStored DEF Ends, Around
  <2>3. QED
    BY <1>2, <1>3, <2>2 DEF Ends, ViewsAgree
<1>4. CASE ctl_state \notin StoreStates
  <2>1. ~WriteEnds(2)
    BY <1>1, <1>4, Accesses DEF IsRequesting, WriteEnds
  <2>2. /\ ram' = ram /\ cpu_ram' = cpu_ram
        /\ late' = IF ctl_state' \in IdleStates THEN cpu_ram ELSE late
    BY <2>1, ViewsKept DEF Ends, Around
  <2>3. late = ram /\ cpu_ram = ram
    BY <1>4 DEF Tracks, ViewsAgree
  <2>4. QED
    BY <1>2, <1>4, <2>2, <2>3 DEF Ends, ViewsAgree
<1>5. QED
  BY <1>3, <1>4

LEMMA EndLast ==
  ASSUME NEW in, Ends(in)
  PROVE  last' = IF ctl_state' = "ERROR" THEN FailedState ELSE EndedState
<1>1. Ended # "none"
  BY DEF Ended, Ends
<1>2. QED
  BY <1>1 DEF Ends, Around, LastState

\* How a step that ends an instruction leaves the registers of the interrupts.
LEMMA EndInterrupts ==
  ASSUME BoardInv, Tracks, NEW in, Ends(in)
  PROVE  /\ ctl_state' = "ERROR" \/ reg_interrupt_next' =
              (reg_interrupt' \/ (ctl_state = "DECODE0" /\ Insn = "EINT"))
         /\ ctl_state' = "INT0" => reg_interrupt'
<1>1. reg_interrupt \in BOOLEAN /\ reg_interrupt_next \in BOOLEAN
  BY DEF BoardInv, BoardTypeOK, CoreTypeOK
<1>2. reg_interrupt = reg_interrupt_next
  <2>1. ctl_state \in InterruptState => reg_interrupt = FALSE /\ reg_interrupt_next = FALSE
    BY <1>1 DEF Tracks, RegistersAgree
  <2>2. QED
    BY <2>1 DEF Ends, Tracks, RegistersAgree
<1>3. CASE Decode0(in)
  <2>1. CASE F1_EINT(in)
    BY <1>1, <1>2, <1>3, <2>1 DEF Decode0, F1_EINT, AfterEnable
  <2>2. CASE F1_DINT(in)
    BY <1>1, <1>2, <1>3, <2>2 DEF Decode0, F1_DINT, AfterEnable
  <2>3. CASE F1_RINT(in)
    BY <1>1, <1>2, <1>3, <2>3 DEF Decode0, F1_RINT, Finish
  <2>4. CASE DecodeLonger
    BY <1>1, <1>2, <1>3, <2>4 DEF Decode0, DecodeLonger, Ends, IdleStates
  <2>5. QED
    BY <1>3, <2>1, <2>2, <2>3, <2>4 DEF Decode0
<1>4. CASE ~Decode0(in)
  <2>1. /\ ctl_state # "DECODE0"
        /\ UNCHANGED <<reg_interrupt, reg_interrupt_next>>
        /\ ctl_state' = "INT0" => reg_interrupt
    <3>1. CASE Stuck \/ Disabled(in) \/ Int0
      BY <3>1 DEF Ends, Stuck, Disabled, Int0, IdleStates
    <3>2. CASE Fetch(in)
      <4>1. ctl_state' \notin IdleStates
        BY <3>2 DEF Fetch, AfterFetch, FetchStates, IdleStates
      <4>2. QED
        BY <4>1 DEF Ends
    <3>3. CASE F2Decode1(in)
      BY <3>3 DEF F2Decode1, F2Invalid, F2_ALU, F2_COMP, F2_TIX, Finish
    <3>4. CASE F34Decode1(in)
      BY <3>4 DEF F34Decode1, Finish
    <3>5. CASE Load(in)
      <4>1. ctl_state' \notin IdleStates
        BY <3>5 DEF Load, AfterLoad, LoadStates, IdleStates
      <4>2. QED
        BY <4>1 DEF Ends
    <3>6. CASE Store(in)
      BY <3>6 DEF Store, StoreStates, Finish
    <3>7. CASE F34Decode2(in)
      BY <3>7 DEF F34Decode2, DecodeStore, DecodeJump, DecodeOperand, Finish
    <3>8. CASE F34BDecode3(in)
      BY <3>8 DEF F34BDecode3, Finish
    <3>9. CASE F34WDecode3(in)
      BY <3>9 DEF F34WDecode3, Finish
    <3>10. CASE Int5(in)
      BY <3>10 DEF Int5, AfterEnable
    <3>11. QED
      BY <1>4, <3>1, <3>2, <3>3, <3>4, <3>5, <3>6, <3>7, <3>8, <3>9, <3>10 DEF Ends, CoreStep
  <2>2. QED
    BY <1>1, <1>2, <2>1
<1>5. QED
  BY <1>3, <1>4

LEMMA EndTracks ==
  ASSUME BoardInv, Tracks, PortInv, NEW in, Ends(in)
  PROVE  Tracks'
<1>1. ViewsAgree'
  BY EndViews
<1>2. ~stale'
  BY CycleFacts DEF Ends
<1>3. ctl_state' \in IdleStates
  BY DEF Ends
<1>4. last \in LastType
  BY DEF Tracks, LastTyped
<1>5. /\ reg_pc' \in Address /\ reg_il' \in Address /\ reg_cc' \in {LT, EQ, GT}
      /\ reg_icc' \in {LT, EQ, GT} /\ reg_general' \in [GeneralId -> Word]
      /\ reg_target' \in Word /\ reg_interrupt' \in BOOLEAN /\ reg_interrupt_next' \in BOOLEAN
  BY DEF Ends, Around, BoardInv, BoardTypeOK, CoreTypeOK
<1>6. CASE ctl_state' = "ERROR"
  <2>1. last' = FailedState
    BY <1>6, EndLast
  <2>2. LastTyped'
    BY <1>4, <1>5, <2>1 DEF FailedState, LastTyped, LastType
  <2>3. RegistersAgree'
    BY <1>6 DEF RegistersAgree, IdleStates, InterruptState
  <2>4. QED
    BY <1>1, <1>2, <1>3, <2>2, <2>3, IdleTracks DEF StaleIsIdle
<1>7. CASE ctl_state' # "ERROR"
  <2>1. last' = EndedState
    BY <1>7, EndLast
  <2>2. (ctl_state = "DECODE0" /\ Insn = "EINT") \in BOOLEAN
    OBVIOUS
  <2>3. (IF ctl_state = "F34_DECODE1" THEN reg_target' ELSE last.target) \in Word
    BY <1>4, <1>5 DEF LastType
  <2>4. LastTyped'
    BY <1>5, <2>1, <2>2, <2>3 DEF EndedState, LastTyped, LastType
  <2>5. /\ last'.pc = reg_pc' /\ last'.general = reg_general' /\ last'.cc = reg_cc'
        /\ last'.il = reg_il' /\ last'.icc = reg_icc' /\ last'.enabled = reg_interrupt'
        /\ last'.enable_next = (ctl_state = "DECODE0" /\ Insn = "EINT")
    BY <2>1 DEF EndedState
  <2>6. reg_interrupt_next' = EnabledNow'
    BY <1>7, <2>5, EndInterrupts DEF EnabledNow
  <2>7. RegistersAgree'
    BY <1>3, <1>5, <1>7, <2>5, <2>6, EndInterrupts DEF RegistersAgree, IdleStates, InterruptState
  <2>8. QED
    BY <1>1, <1>2, <1>3, <2>4, <2>7, IdleTracks DEF StaleIsIdle
<1>8. QED
  BY <1>6, <1>7

\* What a successful instruction leaves as the state of the virtual machine.
LEMMA EndsWell ==
  ASSUME BoardInv, Tracks, PortInv, NEW in, Ends(in), ctl_state' # "ERROR",
         ctl_state \notin InterruptState, ctl_state # "DECODE0" \/ Insn \notin {"EINT", "DINT"}
  PROVE  /\ last'.pc = reg_pc' /\ last'.general = reg_general' /\ last'.cc = reg_cc'
         /\ last'.il = last.il /\ last'.icc = last.icc
         /\ last'.enabled = EnabledNow /\ last'.enable_next = FALSE
         /\ last'.target = IF ctl_state = "F34_DECODE1" THEN reg_target' ELSE last.target
         /\ last'.result = "OK"
<1>1. last' = EndedState
  BY EndLast
<1>2. /\ UNCHANGED <<reg_il, reg_icc>>
      /\ UNCHANGED reg_interrupt
  <2>1. CASE Stuck \/ Disabled(in) \/ Int0 \/ Int5(in)
    BY <2>1 DEF Ends, Stuck, Disabled, Int0, Int5, IdleStates, InterruptState
  <2>2. CASE Fetch(in) \/ Load(in) \/ Store(in)
    <3>1. ctl_state # "INSN0"
      BY DEF Ends, IdleStates
    <3>2. QED
      BY <2>2, <3>1 DEF Fetch, Load, Store
  <2>3. CASE Decode0(in)
    BY <2>3 DEF Decode0, F1_EINT, F1_DINT, F1_RINT, DecodeLonger
  <2>4. CASE F2Decode1(in) \/ F34Decode1(in) \/ F34Decode2(in)
    BY <2>4 DEF F2Decode1, F34Decode1, F34Decode2
  <2>5. CASE F34BDecode3(in) \/ F34WDecode3(in)
    BY <2>5 DEF F34BDecode3, F34WDecode3
  <2>6. QED
    BY <2>1, <2>2, <2>3, <2>4, <2>5 DEF Ends, CoreStep
<1>3. last.il = reg_il /\ last.icc = reg_icc /\ reg_interrupt = EnabledNow
  BY DEF Ends, Tracks, RegistersAgree, IdleStates
<1>4. (ctl_state = "DECODE0" /\ Insn = "EINT") = FALSE
  OBVIOUS
<1>5. QED
  BY <1>1, <1>2, <1>3, <1>4 DEF EndedState

\* What one that fails does.
LEMMA EndsBadly ==
  ASSUME BoardInv, Tracks, PortInv, NEW in, Ends(in), ctl_state' = "ERROR",
         UNCHANGED reg_interrupt, ctl_state \notin InterruptState
  PROVE  /\ last'.pc = last.pc /\ last'.general = last.general /\ last'.cc = last.cc
         /\ last'.il = last.il /\ last'.icc = last.icc
         /\ last'.enabled = EnabledNow /\ last'.enable_next = FALSE
         /\ last'.target = last.target
         /\ last'.result = IF ctl_state = "DECODE0" THEN "INVALID_OPCODE"
                           ELSE "INVALID_ADDRESSING"
<1>1. last' = FailedState
  BY EndLast
<1>2. last \in LastType /\ reg_interrupt = EnabledNow
  BY DEF Ends, Tracks, RegistersAgree, LastTyped, IdleStates
<1>3. QED
  BY <1>1, <1>2 DEF FailedState, LastType

-----------------------------------------------------------------------------
(***************************************************************************)
(* The outcomes of the virtual machine, in the terms of the board.         *)
(***************************************************************************)
LEMMA LateFails ==
  ASSUME NEW error, last'.result = error, last'.pc = last.pc, last'.general = last.general,
         last'.cc = last.cc, last'.il = last.il, last'.icc = last.icc, late' = late
  PROVE  Late!Fail(error)
  BY DEF Late!Fail, Late!cpu_vars, PortDevices, ConditionName

LEMMA LateProceeds ==
  ASSUME last'.result = "OK", last'.pc = Late!NextProgramCounter, last'.il = last.il,
         last'.icc = last.icc
  PROVE  Late!Proceed
  BY DEF Late!Proceed, ConditionName

LEMMA LateSetsRegister ==
  ASSUME Late!Proceed, NEW r, NEW value,
         last'.general = [last.general EXCEPT ![r] = value], last'.cc = last.cc, late' = late
  PROVE  Late!SetRegister(r, value)
  BY DEF Late!SetRegister, PortDevices, ConditionName

LEMMA LateSetsCondition ==
  ASSUME Late!Proceed, NEW condition, last'.general = last.general,
         ConditionName[last'.cc + 1] = condition, late' = late
  PROVE  Late!SetConditionCode(condition)
  BY DEF Late!SetConditionCode, PortDevices, ConditionName

LEMMA LateSetsMemory ==
  ASSUME Late!Proceed, NEW contents, last'.general = last.general, last'.cc = last.cc,
         late' = contents
  PROVE  Late!SetMemory(contents)
  BY DEF Late!SetMemory, PortDevices, ConditionName

LEMMA LateJumps ==
  ASSUME NEW address, last'.result = "OK", last'.pc = address, last'.general = last.general,
         last'.cc = last.cc, last'.il = last.il, last'.icc = last.icc, late' = late
  PROVE  Late!JumpTo(address)
  BY DEF Late!JumpTo, PortDevices, ConditionName

LEMMA LateEnables ==
  ASSUME last'.enabled = EnabledNow, last'.enable_next = FALSE
  PROVE  Late!DelayedInterruptEnable
  BY DEF Late!DelayedInterruptEnable, Late!EnabledNow, EnabledNow

LEMMA LateRuns == ASSUME LastTyped PROVE Late!Running
  BY DEF LastTyped, LastType, Late!Running

\* The comparison of two words.
LEMMA ComparedName ==
  ASSUME NEW a \in Word, NEW b \in Word
  PROVE  ConditionName[Compared(a, b) + 1] = Late!Comparison(SignExtendWord(a), SignExtendWord(b))
<1>1. SignExtendWord(a) = SignExtendWord(b) => a = b
  BY Sizes DEF SignExtendWord, Word
<1>2. SignExtendWord(a) \in Int /\ SignExtendWord(b) \in Int
  BY SignExtendWordType
<1>3. CASE SignExtendWord(a) < SignExtendWord(b)
  BY <1>3 DEF Compared, Late!Comparison, ConditionName, LT, EQ, GT
<1>4. CASE ~(SignExtendWord(a) < SignExtendWord(b)) /\ a = b
  BY <1>2, <1>4 DEF Compared, Late!Comparison, ConditionName, LT, EQ, GT
<1>5. CASE ~(SignExtendWord(a) < SignExtendWord(b)) /\ a # b
  BY <1>1, <1>2, <1>5 DEF Compared, Late!Comparison, ConditionName, LT, EQ, GT
<1>6. QED
  BY <1>3, <1>4, <1>5

-----------------------------------------------------------------------------
(***************************************************************************)
(* The opcode: instructions of format 1, and bytes that are no opcode.     *)
(***************************************************************************)
LEMMA LongFields ==
  ASSUME BoardInv, Insn \in LongMnemonic, NEW n \in {1, 2}, Fetched(n)
  PROVE  IF Insn \in {"EINT", "DINT", "RINT"}
         THEN Late!Instance.format = "F1" /\ Late!Instance.mnemonic = Insn
         ELSE /\ Late!Instance.format = "F2" /\ Late!Instance.mnemonic = Insn
              /\ n = 2 => Late!Instance.r1 = InsnR1 /\ Late!Instance.r2 = InsnR2
<1>1. reg_instruction[0] = CodeByte(0) /\ (n = 2 => reg_instruction[1] = CodeByte(1))
  BY DEF Fetched
<1>2. reg_instruction[0] \in Byte
  BY DEF BoardInv, BoardTypeOK, CoreTypeOK
<1>3. "none" \notin LongMnemonic /\ LongMnemonic \cap ShortMnemonic = {}
  BY DEF LongMnemonic, F2Mnemonic, ShortMnemonic
<1>4. Opcode[Insn] = CodeByte(0)
  BY <1>1, <1>2, <1>3, InsnFound DEF Insn
<1>5. PICK m \in LongMnemonic : m = Insn
  OBVIOUS
<1>6. Late!Instance =
        IF m \in {"EINT", "DINT", "RINT"}
        THEN [format |-> "F1", mnemonic |-> m]
        ELSE [format |-> "F2", mnemonic |-> m,
              r1 |-> CodeByte(1) \div 16, r2 |-> CodeByte(1) % 16]
  BY <1>4, <1>5, LongDecoded
<1>7. CASE m \in {"EINT", "DINT", "RINT"}
  BY <1>5, <1>6, <1>7
<1>8. CASE m \notin {"EINT", "DINT", "RINT"}
  BY <1>1, <1>5, <1>6, <1>8 DEF InsnR1, InsnR2
<1>9. QED
  BY <1>7, <1>8

LEMMA LongLength ==
  ASSUME BoardInv, Insn \in LongMnemonic, NEW n \in {1, 2}, Fetched(n),
         n = IF Insn \in {"EINT", "DINT", "RINT"} THEN 1 ELSE 2
  PROVE  Late!NextProgramCounter = reg_pc
<1>1. Late!InstructionLength(Late!Instance) = n
  BY LongFields DEF Late!InstructionLength
<1>2. QED
  BY <1>1, LateWords DEF Late!NextProgramCounter, Fetched, Cell

LEMMA Format1Runs ==
  ASSUME BoardInv, Tracks, PortInv, NEW in, Ends(in), Decode0(in), Comparable
  PROVE  Late!Execute
<1>1. ctl_state = "DECODE0" /\ ctl_state \notin InterruptState \cup StoreStates
  BY DEF Decode0, InterruptState, StoreStates
<1>2. Fetched(1) /\ late' = late
  BY <1>1, EndViews DEF Tracks, CodeFetched
<1>3. Late!Running
  BY LateRuns DEF Tracks
<1>4. /\ last.general = reg_general /\ last.cc = reg_cc /\ last.il = reg_il
      /\ last.icc = reg_icc /\ reg_interrupt = EnabledNow
  BY <1>1 DEF Tracks, RegistersAgree, IdleStates, InterruptState
<1>5. UNCHANGED <<reg_il, reg_icc, reg_general>>
  BY DEF Decode0
<1>6. CASE DecodeLonger
  <2>1. Insn = "none" /\ ctl_state' = "ERROR" /\ UNCHANGED reg_interrupt
    BY <1>6 DEF DecodeLonger, Ends, IdleStates
  <2>2. reg_instruction[0] = CodeByte(0) /\ reg_instruction[0] \in Byte
    BY <1>2 DEF Fetched, BoardInv, BoardTypeOK, CoreTypeOK
  <2>3. "none" \notin LongMnemonic /\ "none" \notin ShortMnemonic
    BY DEF LongMnemonic, F2Mnemonic, ShortMnemonic
  <2>4. CodeByte(0) \notin LongOpcodes /\ ShortOpcode(CodeByte(0)) \notin ShortOpcodes
    BY <2>1, <2>2, <2>3, InsnFound DEF Insn
  <2>5. Late!Instance = NoInstruction
    BY <2>4, NotDecoded DEF Comparable
  <2>6. /\ last'.pc = last.pc /\ last'.general = last.general /\ last'.cc = last.cc
        /\ last'.il = last.il /\ last'.icc = last.icc
        /\ last'.enabled = EnabledNow /\ last'.enable_next = FALSE
        /\ last'.target = last.target /\ last'.result = "INVALID_OPCODE"
    BY <1>1, <2>1, EndsBadly
  <2>7. Late!Fail("INVALID_OPCODE") /\ Late!DelayedInterruptEnable
    BY <1>2, <2>6, LateFails, LateEnables
  <2>8. Late!ExecuteInvalidOpcode
    BY <2>5, <2>6, <2>7, LateFormats DEF Late!ExecuteInvalidOpcode
  <2>9. QED
    BY <1>3, <2>8 DEF Late!Execute
<1>7. ASSUME Insn \in {"EINT", "DINT", "RINT"}
      PROVE  /\ Late!Instance.format = "F1" /\ Late!Instance.mnemonic = Insn
             /\ Late!NextProgramCounter = reg_pc
  <2>1. Insn \in LongMnemonic
    BY <1>7 DEF LongMnemonic
  <2>2. QED
    BY <1>2, <1>7, <2>1, LongFields, LongLength
<1>8. CASE F1_EINT(in) \/ F1_DINT(in)
  <2>1. /\ Insn \in {"EINT", "DINT"} /\ ctl_state' # "ERROR"
        /\ UNCHANGED <<reg_pc, reg_cc>>
        /\ Insn = "EINT" => reg_interrupt' = reg_interrupt
        /\ Insn = "DINT" => reg_interrupt' = FALSE
    BY <1>8 DEF F1_EINT, F1_DINT, AfterEnable
  <2>2. last' = EndedState
    BY <2>1, EndLast
  <2>3. /\ last'.pc = reg_pc /\ last'.general = last.general /\ last'.cc = last.cc
        /\ last'.il = last.il /\ last'.icc = last.icc /\ last'.target = last.target
        /\ last'.enabled = (IF Insn = "EINT" THEN EnabledNow ELSE FALSE)
        /\ last'.enable_next = (Insn = "EINT") /\ last'.result = "OK"
    BY <1>1, <1>4, <1>5, <2>1, <2>2 DEF EndedState
  <2>4. Late!Proceed
    BY <1>7, <2>1, <2>3, LateProceeds
  <2>5. CASE Insn = "EINT"
    <3>1. Late!InterruptEnable
      BY <1>2, <1>7, <2>3, <2>4, <2>5
      DEF Late!InterruptEnable, Late!Is, Late!EnabledNow, EnabledNow, PortDevices, ConditionName
    <3>2. QED
      BY <1>3, <1>7, <2>3, <2>5, <3>1 DEF Late!Execute, Late!ExecuteF1
  <2>6. CASE Insn = "DINT"
    <3>1. Late!InterruptDisable
      BY <1>2, <1>7, <2>3, <2>4, <2>6
      DEF Late!InterruptDisable, Late!Is, PortDevices, ConditionName
    <3>2. QED
      BY <1>3, <1>7, <2>3, <2>6, <3>1 DEF Late!Execute, Late!ExecuteF1
  <2>7. QED
    BY <2>1, <2>5, <2>6
<1>9. CASE F1_RINT(in)
  <2>1. /\ Insn = "RINT" /\ ctl_state' # "ERROR"
        /\ reg_pc' = reg_il /\ reg_cc' = reg_icc
    BY <1>9 DEF F1_RINT, Finish
  <2>2. /\ last'.pc = reg_pc' /\ last'.general = reg_general' /\ last'.cc = reg_cc'
        /\ last'.il = last.il /\ last'.icc = last.icc
        /\ last'.enabled = EnabledNow /\ last'.enable_next = FALSE
        /\ last'.target = last.target /\ last'.result = "OK"
    BY <1>1, <2>1, EndsWell
  <2>3. Late!DelayedInterruptEnable
    BY <2>2, LateEnables
  <2>4. Late!InterruptReturn
    BY <1>2, <1>4, <1>5, <1>7, <2>1, <2>2, <2>3
    DEF Late!InterruptReturn, Late!Is, PortDevices, ConditionName
  <2>5. QED
    BY <1>3, <1>7, <2>1, <2>2, <2>4 DEF Late!Execute, Late!ExecuteF1
<1>10. QED
  BY <1>6, <1>8, <1>9 DEF Decode0

-----------------------------------------------------------------------------
(***************************************************************************)
(* Arithmetic: the board's on words as they are, the machine's on words    *)
(* with their signs.                                                       *)
(***************************************************************************)
\* There are as many negative words as others.
WordsHaveSign == WordSize = 2 * (WordSize \div 2)

LEMMA WholeWords ==
  ASSUME NEW v \in Int, NEW k \in Int
  PROVE  TrimWord(v + k * WordSize) = TrimWord(v)
<1> DEFINE W == WordSize
           q == v \div W
           r == v % W
           p == q + k
<1>1. W \in Nat /\ W > 0
  BY Sizes
<1>2. q \in Int /\ r \in Int /\ 0 <= r /\ r < W /\ v = q * W + r
  BY <1>1
<1> HIDE DEF q, r, W
<1>3. v + k * W = p * W + r
  <2>1. p * W = q * W + k * W /\ q * W \in Int /\ k * W \in Int
    BY <1>1, <1>2
  <2>2. QED
    BY <1>2, <2>1
<1>4. p \in Int
  BY <1>2
<1> HIDE DEF p
<1>5. (p * W + r) % W = r
  BY <1>1, <1>2, <1>4, RemainderUnique
<1>6. QED
  BY <1>3, <1>5 DEF TrimWord, r, W

LEMMA SignIsWhole ==
  ASSUME NEW w \in Word
  PROVE  \E k \in {-1, 0} : SignExtendWord(w) = w + k * WordSize
<1>1. w \in Int /\ WordSize \in Int
  BY Sizes DEF Word
<1>2. w - WordSize = w + (-1) * WordSize /\ w = w + 0 * WordSize
  BY <1>1
<1>3. QED
  BY <1>2 DEF SignExtendWord

LEMMA SignedSums ==
  ASSUME NEW a \in Word, NEW b \in Word
  PROVE  /\ TrimWord(SignExtendWord(a) + SignExtendWord(b)) = TrimWord(a + b)
         /\ TrimWord(SignExtendWord(a) - SignExtendWord(b)) = TrimWord(a - b)
<1> DEFINE W == WordSize
<1>1. a \in Int /\ b \in Int /\ W \in Int
  BY Sizes DEF Word
<1>2. PICK j \in {-1, 0} : SignExtendWord(a) = a + j * W
  BY SignIsWhole
<1>3. PICK k \in {-1, 0} : SignExtendWord(b) = b + k * W
  BY SignIsWhole
<1>4. j \in Int /\ k \in Int /\ j * W \in Int /\ k * W \in Int
  BY <1>1
<1> HIDE DEF W
<1>5. (a + j * W) + (b + k * W) = (a + b) + (j + k) * W
  <2>1. (j + k) * W = j * W + k * W
    BY <1>1, <1>4
  <2>2. QED
    BY <1>1, <1>4, <2>1
<1>6. (a + j * W) - (b + k * W) = (a - b) + (j - k) * W
  <2>1. (j - k) * W = j * W - k * W
    BY <1>1, <1>4
  <2>2. QED
    BY <1>1, <1>4, <2>1
<1>7. a + b \in Int /\ a - b \in Int /\ j + k \in Int /\ j - k \in Int
  BY <1>1, <1>4
<1>8. /\ TrimWord((a + b) + (j + k) * W) = TrimWord(a + b)
      /\ TrimWord((a - b) + (j - k) * W) = TrimWord(a - b)
  BY <1>7, WholeWords DEF W
<1>9. QED
  BY <1>2, <1>3, <1>5, <1>6, <1>8

\* A product that fits a word keeps its value when it is resized.
LEMMA ResizedProduct ==
  ASSUME WordsHaveSign, NEW p \in Int, Fits(p)
  PROVE  Resized(p) = TrimWord(p)
<1> DEFINE half == WordSize \div 2
<1>1. half \in Nat /\ WordSize = 2 * half /\ WordSize > 0 /\ WordSize \in Nat
  BY Sizes DEF WordsHaveSign
<1>2. half > 0 /\ -half <= p /\ p <= half - 1
  BY <1>1 DEF Fits
<1> HIDE DEF half
<1>3. CASE p >= 0
  <2>1. p % half = p /\ p % WordSize = p
    BY <1>1, <1>2, <1>3
  <2>2. QED
    BY <1>3, <2>1 DEF Resized, TrimWord, half
<1>4. CASE p < 0
  <2> DEFINE r == p + half
             s == p + WordSize
  <2>1. r \in Int /\ 0 <= r /\ r < half /\ p = (-1) * half + r
    BY <1>1, <1>2, <1>4
  <2>2. s \in Int /\ 0 <= s /\ s < WordSize /\ p = (-1) * WordSize + s
    BY <1>1, <1>2, <1>4
  <2>3. s = r + half
    BY <1>1
  <2> HIDE DEF r, s
  <2>4. ((-1) * half + r) % half = r
    BY <1>1, <1>2, <2>1, RemainderUnique
  <2>5. ((-1) * WordSize + s) % WordSize = s
    BY <1>1, <2>2, RemainderUnique
  <2>6. p % half = r /\ p % WordSize = s
    BY <2>1, <2>2, <2>4, <2>5
  <2>7. QED
    BY <1>4, <2>3, <2>6 DEF Resized, TrimWord, half
<1>5. QED
  BY <1>2, <1>3, <1>4

\* The machine's name of an operation of the ALU.
OperationOf(insn) ==
  CASE insn \in {"ADD", "ADDR"} -> "ADD"
    [] insn \in {"SUB", "SUBR"} -> "SUB"
    [] insn \in {"MUL", "MULR"} -> "MUL"
    [] insn \in {"AND", "ANDR"} -> "AND"
    [] insn \in {"OR", "ORR"}   -> "OR"
    [] insn \in {"XOR", "XORR"} -> "XOR"

LEMMA AluMeans ==
  ASSUME WordsHaveSign, NEW insn \in AluOperation, NEW a \in Word, NEW b \in Word,
         insn \in {"MUL", "MULR"} => Fits(SignExtendWord(a) * SignExtendWord(b))
  PROVE  Alu(insn, a, b) = Late!Arithmetic(OperationOf(insn), a, b)
<1>1. SignExtendWord(a) * SignExtendWord(b) \in Int
  BY SignExtendWordType
<1>2. CASE insn \in {"ADD", "ADDR"}
  BY <1>2, SignedSums, LateWords DEF Alu, Late!Arithmetic, OperationOf
<1>3. CASE insn \in {"SUB", "SUBR"}
  BY <1>3, SignedSums, LateWords DEF Alu, Late!Arithmetic, OperationOf
<1>4. CASE insn \in {"MUL", "MULR"}
  <2> DEFINE product == SignExtendWord(a) * SignExtendWord(b)
  <2>1. Resized(product) = TrimWord(product)
    BY <1>1, <1>4, ResizedProduct
  <2>2. Alu(insn, a, b) = Resized(product)
    BY <1>4 DEF Alu
  <2>3. Late!Arithmetic(OperationOf(insn), a, b) = TrimWord(product)
    BY <1>4, LateWords DEF Late!Arithmetic, OperationOf
  <2>4. QED
    BY <2>1, <2>2, <2>3
<1>5. CASE insn \in {"AND", "ANDR"}
  BY <1>5 DEF Alu, Late!Arithmetic, OperationOf
<1>6. CASE insn \in {"OR", "ORR"}
  BY <1>6 DEF Alu, Late!Arithmetic, OperationOf
<1>7. CASE insn \in {"XOR", "XORR"}
  BY <1>7 DEF Alu, Late!Arithmetic, OperationOf
<1>8. QED
  BY <1>2, <1>3, <1>4, <1>5, <1>6, <1>7 DEF AluOperation

-----------------------------------------------------------------------------
(***************************************************************************)
(* The instructions of format 2.                                           *)
(***************************************************************************)
LEMMA Format2Frame ==
  ASSUME BoardInv, Tracks, PortInv, NEW in, Ends(in), F2Decode1(in)
  PROVE  /\ Insn \in F2Insn /\ ctl_state = "F2_DECODE1"
         /\ Late!Running /\ Late!DelayedInterruptEnable /\ last'.target = last.target
         /\ Late!Instance.format = "F2" /\ Late!Instance.mnemonic = Insn
         /\ Late!R1 = InsnR1 /\ Late!R2 = InsnR2
         /\ late' = late /\ last.general = reg_general /\ last.cc = reg_cc
         /\ ctl_state' = "ERROR" => Late!Fail("INVALID_ADDRESSING")
         /\ ctl_state' # "ERROR" =>
              Late!Proceed /\ last'.general = reg_general' /\ last'.cc = reg_cc'
<1>1. ctl_state = "F2_DECODE1" /\ ctl_state \notin InterruptState \cup StoreStates
  BY DEF F2Decode1, InterruptState, StoreStates
<1>2. Fetched(2) /\ late' = late /\ Insn \in F2Insn
  BY <1>1, EndViews DEF Tracks, CodeFetched, BoardInv, InsnInv
<1>3. Late!Running
  BY LateRuns DEF Tracks
<1>4. last.general = reg_general /\ last.cc = reg_cc
  BY <1>1 DEF Tracks, RegistersAgree
<1>5. Insn \in LongMnemonic /\ Insn \notin {"EINT", "DINT", "RINT"}
  BY <1>2 DEF F2Insn
<1>6. /\ Late!Instance.format = "F2" /\ Late!Instance.mnemonic = Insn
      /\ Late!Instance.r1 = InsnR1 /\ Late!Instance.r2 = InsnR2
      /\ Late!NextProgramCounter = reg_pc
  BY <1>2, <1>5, LongFields, LongLength
<1>7. UNCHANGED <<reg_pc, reg_interrupt>>
  BY DEF F2Decode1
<1>8. CASE ctl_state' = "ERROR"
  <2>1. /\ last'.pc = last.pc /\ last'.general = last.general /\ last'.cc = last.cc
        /\ last'.il = last.il /\ last'.icc = last.icc
        /\ last'.enabled = EnabledNow /\ last'.enable_next = FALSE
        /\ last'.target = last.target /\ last'.result = "INVALID_ADDRESSING"
    BY <1>1, <1>7, <1>8, EndsBadly
  <2>2. Late!Fail("INVALID_ADDRESSING") /\ Late!DelayedInterruptEnable
    BY <1>2, <2>1, LateFails, LateEnables
  <2>3. QED
    BY <1>1, <1>2, <1>3, <1>4, <1>6, <1>8, <2>1, <2>2 DEF Late!R1, Late!R2
<1>9. CASE ctl_state' # "ERROR"
  <2>1. /\ last'.pc = reg_pc' /\ last'.general = reg_general' /\ last'.cc = reg_cc'
        /\ last'.il = last.il /\ last'.icc = last.icc
        /\ last'.enabled = EnabledNow /\ last'.enable_next = FALSE
        /\ last'.target = last.target /\ last'.result = "OK"
    BY <1>1, <1>9, EndsWell
  <2>2. Late!Proceed /\ Late!DelayedInterruptEnable
    BY <1>6, <1>7, <2>1, LateProceeds, LateEnables
  <2>3. QED
    BY <1>1, <1>2, <1>3, <1>4, <1>6, <1>9, <2>1, <2>2 DEF Late!R1, Late!R2
<1>10. QED
  BY <1>8, <1>9

LEMMA ShiftsAgree == \A n \in 0 .. 15 : ShiftFactor[n] = Late!PowerOfTwo[n + 1]
<1>1. \A n \in 0 .. 15 :
        ShiftFactor[n] = <<1, 2, 4, 8, 16, 32, 64, 128, 256, 512, 1024, 2048,
                           4096, 8192, 16384, 32768>>[n + 1]
  BY DEF ShiftFactor
<1>2. QED
  BY <1>1 DEF Late!PowerOfTwo

LEMMA RegistersTyped ==
  ASSUME BoardInv
  PROVE  reg_general \in [GeneralId -> Word] /\ DOMAIN reg_general = GeneralId
  BY DEF BoardInv, BoardTypeOK, CoreTypeOK

\* The operations on registers that have a result.
LEMMA RegisterResults ==
  ASSUME BoardInv, Tracks, PortInv, WordsHaveSign, NEW in, Ends(in), F2Decode1(in), Comparable,
         ValidRegisters, F2_ALU(in)
  PROVE  \/ Late!ArithmeticReg \/ Late!RegisterNegate \/ Late!Shift \/ Late!ClearReg
         \/ Late!MoveReg
<1>1. /\ Insn \in F2Insn \ {"COMPR", "TIXR"} /\ ctl_state = "F2_DECODE1"
      /\ Late!Instance.mnemonic = Insn /\ Late!R1 = InsnR1 /\ Late!R2 = InsnR2
      /\ late' = late /\ last.general = reg_general /\ last.cc = reg_cc
  BY Format2Frame DEF F2_ALU
<1>2. /\ reg_general' = [reg_general EXCEPT ![F2Destination] = F2Result]
      /\ reg_cc' = reg_cc /\ ctl_state' # "ERROR"
  BY DEF F2_ALU, Finish
<1>3. Late!Proceed /\ last'.general = reg_general' /\ last'.cc = reg_cc'
  BY <1>2, Format2Frame
<1>4. \A r, v : reg_general' = [reg_general EXCEPT ![r] = v] => Late!SetRegister(r, v)
  BY <1>1, <1>2, <1>3, LateSetsRegister
<1>5. /\ InsnR1 \in Late!RegisterId
      /\ Insn \notin {"CLEAR", "NOT", "SHIFTL", "SHIFTR", "TIXR"} => InsnR2 \in Late!RegisterId
  BY DEF ValidRegisters, GeneralId, Late!RegisterId
<1>6. /\ reg_general[InsnR1] \in Word
      /\ InsnR2 \in Late!RegisterId => reg_general[InsnR2] \in Word
  BY <1>5, RegistersTyped DEF GeneralId, Late!RegisterId
<1>7. CASE Insn = "CLEAR"
  <2>1. F2Destination = InsnR1 /\ F2Result = 0
    BY <1>7 DEF F2Destination, F2Result
  <2>2. Late!ClearReg
    BY <1>1, <1>2, <1>4, <1>5, <1>7, <2>1 DEF Late!ClearReg, Late!Is
  <2>3. QED
    BY <2>2
<1>8. CASE Insn = "NOT"
  <2>1. F2Destination = InsnR1 /\ F2Result = WordSize - 1 - reg_general[InsnR1]
    BY <1>8 DEF F2Destination, F2Result, Operand1
  <2>2. Late!RegisterNegate
    BY <1>1, <1>2, <1>4, <1>5, <1>8, <2>1, LateWords DEF Late!RegisterNegate, Late!Is
  <2>3. QED
    BY <2>2
<1>9. CASE Insn \in {"SHIFTL", "SHIFTR"}
  <2> DEFINE signed == SignExtendWord(reg_general[InsnR1])
             factor == ShiftFactor[InsnR2]
  <2>1. /\ F2Destination = InsnR1
        /\ Insn = "SHIFTL" => F2Result = TrimWord(signed * factor)
        /\ Insn = "SHIFTR" => F2Result = TrimWord(signed \div factor)
    BY <1>9 DEF F2Destination, F2Result, Operand1
  <2>2. InsnR2 \in 0 .. 15
    BY FieldTypes DEF BoardInv, BoardTypeOK
  <2>3. factor = Late!PowerOfTwo[InsnR2 + 1]
    BY <2>2, ShiftsAgree
  <2> HIDE DEF factor
  <2>4. CASE Insn = "SHIFTL"
    <3>1. Late!SetRegister(InsnR1, TrimWord(signed * factor))
      BY <1>2, <1>4, <2>1, <2>4
    <3>2. Late!Shift
      BY <1>1, <1>5, <2>3, <2>4, <3>1, LateWords DEF Late!Shift, Late!Is
    <3>3. QED
      BY <3>2
  <2>5. CASE Insn = "SHIFTR"
    <3>1. Late!SetRegister(InsnR1, TrimWord(signed \div factor))
      BY <1>2, <1>4, <2>1, <2>5
    <3>2. Late!Shift
      BY <1>1, <1>5, <2>3, <2>5, <3>1, LateWords DEF Late!Shift, Late!Is
    <3>3. QED
      BY <3>2
  <2>6. QED
    BY <1>9, <2>4, <2>5
<1>10. CASE Insn = "RMO"
  <2>1. F2Destination = InsnR2 /\ F2Result = reg_general[InsnR1]
    BY <1>10 DEF F2Destination, F2Result, Operand1
  <2>2. Late!MoveReg
    BY <1>1, <1>2, <1>4, <1>5, <1>10, <2>1 DEF Late!MoveReg, Late!Is
  <2>3. QED
    BY <2>2
<1>11. CASE Insn \in {"ADDR", "SUBR", "MULR", "ANDR", "ORR", "XORR"}
  <2> DEFINE a == reg_general[InsnR2]
             b == reg_general[InsnR1]
  <2>1. F2Destination = InsnR2 /\ F2Result = Alu(Insn, a, b)
    BY <1>11 DEF F2Destination, F2Result, Operand1
  <2>2. a \in Word /\ b \in Word /\ InsnR2 \in Late!RegisterId
    BY <1>5, <1>6, <1>11
  <2>3. Insn = "MULR" => Fits(SignExtendWord(a) * SignExtendWord(b))
    <3>1. SignExtendWord(a) \in Int /\ SignExtendWord(b) \in Int
      BY <2>2, SignExtendWordType
    <3>2. SignExtendWord(b) * SignExtendWord(a) = SignExtendWord(a) * SignExtendWord(b)
      BY <3>1
    <3>3. Insn = "MULR" => Fits(SignExtendWord(b) * SignExtendWord(a))
      BY <1>1 DEF Comparable, Operand1
    <3>4. QED
      BY <3>2, <3>3
  <2> HIDE DEF a, b
  <2>4. Alu(Insn, a, b) = Late!Arithmetic(OperationOf(Insn), a, b)
    <3>1. Insn \in AluOperation /\ Insn # "MUL"
      BY <1>11 DEF AluOperation
    <3>2. QED
      BY <2>2, <2>3, <3>1, AluMeans
  <2>5. /\ OperationOf(Insn) = Late!ArithmeticRegOperation[Insn]
        /\ OperationOf(Insn) # "DIV" /\ Insn \in DOMAIN Late!ArithmeticRegOperation
    BY <1>11 DEF OperationOf, Late!ArithmeticRegOperation
  <2>6. Late!SetRegister(InsnR2, Late!Arithmetic(OperationOf(Insn), a, b))
    BY <1>2, <1>4, <2>1, <2>4
  <2>7. Late!ArithmeticResult(OperationOf(Insn), InsnR2, b)
    BY <1>1, <2>5, <2>6 DEF Late!ArithmeticResult, a
  <2>8. Late!ArithmeticReg
    BY <1>1, <1>5, <2>2, <2>5, <2>7 DEF Late!ArithmeticReg, Late!Is, b
  <2>9. QED
    BY <2>8
<1>12. QED
  BY <1>1, <1>7, <1>8, <1>9, <1>10, <1>11 DEF F2Insn, LongMnemonic, F2Mnemonic

\* X is counted up and compared.
LEMMA IncrementsX ==
  ASSUME BoardInv, NEW operand \in Word, IncrementX(operand), Late!Proceed,
         last.general = reg_general, last'.general = reg_general', last'.cc = reg_cc', late' = late
  PROVE  Late!IncrementCompare(operand)
<1> DEFINE x == TrimWord(reg_general[REG_X] + 1)
<1>1. reg_general' = [reg_general EXCEPT ![REG_X] = x] /\ reg_cc' = Compared(x, operand)
  BY DEF IncrementX
<1>2. reg_general[REG_X] \in Int
  BY RegistersTyped DEF GeneralId, REG_X, Word
<1>3. x \in Word
  BY <1>2, TrimWordType
<1>4. x = Late!TrimWord(last.general[Late!REG_X] + 1) /\ REG_X = Late!REG_X
  BY LateWords DEF Late!REG_X, REG_X
<1> HIDE DEF x
<1>5. ConditionName[reg_cc' + 1] = Late!Comparison(SignExtendWord(x), SignExtendWord(operand))
  BY <1>1, <1>3, ComparedName
<1>6. QED
  BY <1>1, <1>4, <1>5, LateWords DEF Late!IncrementCompare, PortDevices

LEMMA Format2Runs ==
  ASSUME BoardInv, Tracks, PortInv, WordsHaveSign, NEW in, Ends(in), F2Decode1(in), Comparable
  PROVE  Late!Execute
<1>1. /\ Insn \in F2Insn
      /\ Late!Running /\ Late!DelayedInterruptEnable /\ last'.target = last.target
      /\ Late!Instance.format = "F2" /\ Late!Instance.mnemonic = Insn
      /\ Late!R1 = InsnR1 /\ Late!R2 = InsnR2
      /\ late' = late /\ last.general = reg_general /\ last.cc = reg_cc
  BY Format2Frame
<1>2. CASE F2Invalid
  <2>1. ctl_state' = "ERROR" /\ ~ValidRegisters
    BY <1>2 DEF F2Invalid
  <2>2. Late!Fail("INVALID_ADDRESSING")
    BY <2>1, Format2Frame
  <2>3. Late!InvalidRegister
    BY <1>1, <2>1 DEF Late!InvalidRegister, ValidRegisters, Late!Is, Late!RegisterId, GeneralId
  <2>4. Late!ExecuteF2
    BY <1>1, <2>2, <2>3 DEF Late!ExecuteF2
  <2>5. QED
    BY <1>1, <2>4 DEF Late!Execute
<1>3. CASE ValidRegisters /\ F2_ALU(in)
  <2>1. \/ Late!ArithmeticReg \/ Late!RegisterNegate \/ Late!Shift \/ Late!ClearReg
        \/ Late!MoveReg
    BY <1>3, RegisterResults
  <2>2. Late!ExecuteF2
    BY <1>1, <2>1 DEF Late!ExecuteF2
  <2>3. QED
    BY <1>1, <2>2 DEF Late!Execute
<1>4. CASE ValidRegisters /\ (F2_COMP(in) \/ F2_TIX(in))
  <2>1. ctl_state' # "ERROR"
    BY <1>4 DEF F2_COMP, F2_TIX, Finish
  <2>2. Late!Proceed /\ last'.general = reg_general' /\ last'.cc = reg_cc'
    BY <2>1, Format2Frame
  <2>3. InsnR1 \in GeneralId /\ (Insn = "COMPR" => InsnR2 \in GeneralId)
    BY <1>4 DEF ValidRegisters
  <2>4. GeneralId = Late!RegisterId
    BY DEF GeneralId, Late!RegisterId
  <2>5. reg_general[InsnR1] \in Word /\ (Insn = "COMPR" => reg_general[InsnR2] \in Word)
    BY <2>3, RegistersTyped
  <2>6. CASE F2_COMP(in)
    <3>1. /\ Insn = "COMPR" /\ reg_general' = reg_general
          /\ reg_cc' = Compared(reg_general[InsnR1], reg_general[InsnR2])
      BY <2>6 DEF F2_COMP, Operand1
    <3>2. ConditionName[reg_cc' + 1]
            = Late!Comparison(SignExtendWord(reg_general[InsnR1]),
                              SignExtendWord(reg_general[InsnR2]))
      BY <2>5, <3>1, ComparedName
    <3>3. Late!SetConditionCode(ConditionName[reg_cc' + 1])
      BY <1>1, <2>2, <3>1, LateSetsCondition
    <3>4. Late!CompareReg
      BY <1>1, <2>3, <2>4, <3>1, <3>2, <3>3, LateWords DEF Late!CompareReg, Late!Is
    <3>5. Late!ExecuteF2
      BY <1>1, <3>4 DEF Late!ExecuteF2
    <3>6. QED
      BY <1>1, <3>5 DEF Late!Execute
  <2>7. CASE F2_TIX(in)
    <3>1. Insn = "TIXR" /\ IncrementX(reg_general[InsnR1])
      BY <2>7 DEF F2_TIX, Operand1
    <3>2. Late!IncrementCompare(reg_general[InsnR1])
      BY <1>1, <2>2, <2>5, <3>1, IncrementsX
    <3>3. Late!IncrementCompareReg
      BY <1>1, <2>3, <2>4, <3>1, <3>2 DEF Late!IncrementCompareReg, Late!Is
    <3>4. Late!ExecuteF2
      BY <1>1, <3>3 DEF Late!ExecuteF2
    <3>5. QED
      BY <1>1, <3>4 DEF Late!Execute
  <2>8. QED
    BY <1>4, <2>6, <2>7
<1>5. QED
  BY <1>2, <1>3, <1>4 DEF F2Decode1

-----------------------------------------------------------------------------
(***************************************************************************)
(* Formats 3 and 4: what the virtual machine takes the instruction for,    *)
(* and how the board's ending of it looks to the machine.                  *)
(***************************************************************************)
LEMMA ShortFrame ==
  ASSUME BoardInv, Tracks, PortInv, NEW in, Ends(in), ctl_state \in DecodedStates,
         Insn \in ShortMnemonic, Comparable, UNCHANGED reg_interrupt
  PROVE  /\ Late!Running /\ Late!DelayedInterruptEnable
         /\ Late!Instance.format = "FS34" /\ Late!Instance.mnemonic = Insn
         /\ Late!Instance.e = FlagE /\ Late!IsImmediateAddressing = IsImmediate
         /\ Late!ValidAddressing <=> ~InvalidAddressing
         /\ ~InvalidAddressing => Late!TargetAddress = Target
         /\ Late!NextProgramCounter = reg_pc /\ WholeFetched
         /\ last.general = reg_general /\ last.cc = reg_cc
         /\ ctl_state \notin StoreStates => late' = late
         /\ ctl_state' = "ERROR" =>
              last'.target = last.target
              /\ (late' = late => Late!Fail("INVALID_ADDRESSING"))
         /\ ctl_state' # "ERROR" =>
              /\ last'.pc = reg_pc' /\ last'.general = reg_general' /\ last'.cc = reg_cc'
              /\ last'.il = last.il /\ last'.icc = last.icc /\ last'.result = "OK"
              /\ last'.target = IF ctl_state = "F34_DECODE1" THEN reg_target' ELSE last.target
              /\ reg_pc' = reg_pc => Late!Proceed
<1>1. /\ ctl_state \notin IdleStates \cup InterruptState
      /\ ctl_state # "DECODE0"
  BY DEF DecodedStates, IndirectState, TargetStates, WordState, StoreStates, IdleStates,
         InterruptState
<1>2. WholeFetched /\ CoreTypeOK
  BY DEF Tracks, CodeFetched, BoardInv, BoardTypeOK
<1>3. SicIsPlain
  BY DEF Comparable, SicIsPlain
<1>4. Late!Running
  BY LateRuns DEF Tracks
<1>5. last.general = reg_general /\ last.cc = reg_cc
  BY <1>1 DEF Tracks, RegistersAgree, IdleStates
<1>6. /\ Late!Instance.format = "FS34" /\ Late!Instance.mnemonic = Insn
      /\ Late!Instance.n = FlagN /\ Late!Instance.i = FlagI /\ Late!Instance.e = FlagE
      /\ Late!NextProgramCounter = reg_pc
  BY <1>2, <1>3, ShortFields, ShortLength
<1>7. /\ Late!ValidAddressing <=> ~InvalidAddressing
      /\ ~InvalidAddressing => Late!TargetAddress = Target
  BY <1>2, <1>3, <1>5, ShortTarget
<1>8. Late!IsImmediateAddressing = IsImmediate
  BY <1>6 DEF Late!IsImmediateAddressing, IsImmediate
<1>9. ctl_state \notin StoreStates => late' = late
  BY EndViews
<1>10. CASE ctl_state' = "ERROR"
  <2>1. /\ last'.pc = last.pc /\ last'.general = last.general /\ last'.cc = last.cc
        /\ last'.il = last.il /\ last'.icc = last.icc
        /\ last'.enabled = EnabledNow /\ last'.enable_next = FALSE
        /\ last'.target = last.target /\ last'.result = "INVALID_ADDRESSING"
    BY <1>1, <1>10, EndsBadly
  <2>2. Late!DelayedInterruptEnable /\ (late' = late => Late!Fail("INVALID_ADDRESSING"))
    BY <2>1, LateFails, LateEnables
  <2>3. QED
    BY <1>2, <1>4, <1>5, <1>6, <1>7, <1>8, <1>9, <1>10, <2>1, <2>2
<1>11. CASE ctl_state' # "ERROR"
  <2>1. /\ last'.pc = reg_pc' /\ last'.general = reg_general' /\ last'.cc = reg_cc'
        /\ last'.il = last.il /\ last'.icc = last.icc
        /\ last'.enabled = EnabledNow /\ last'.enable_next = FALSE
        /\ last'.target = IF ctl_state = "F34_DECODE1" THEN reg_target' ELSE last.target
        /\ last'.result = "OK"
    BY <1>1, <1>11, EndsWell
  <2>2. Late!DelayedInterruptEnable /\ (reg_pc' = reg_pc => Late!Proceed)
    BY <1>6, <2>1, LateProceeds, LateEnables
  <2>3. QED
    BY <1>2, <1>4, <1>5, <1>6, <1>7, <1>8, <1>9, <1>11, <2>1, <2>2
<1>12. QED
  BY <1>10, <1>11

\* RSUB, and addressing that is refused.
LEMMA AddressingRuns ==
  ASSUME BoardInv, Tracks, PortInv, NEW in, Ends(in), F34Decode1(in), Comparable
  PROVE  Late!Execute
<1>1. /\ ctl_state = "F34_DECODE1" /\ ctl_state \in DecodedStates
      /\ ctl_state \notin StoreStates /\ UNCHANGED <<reg_cc, reg_general, reg_interrupt>>
  BY DEF F34Decode1, DecodedStates, StoreStates
<1>2. Insn \in ShortMnemonic
  BY <1>1 DEF BoardInv, InsnInv
<1>3. /\ Late!Running /\ Late!DelayedInterruptEnable
      /\ Late!Instance.format = "FS34" /\ Late!Instance.mnemonic = Insn
      /\ Late!ValidAddressing <=> ~InvalidAddressing
      /\ ~InvalidAddressing => Late!TargetAddress = Target
      /\ last.general = reg_general /\ last.cc = reg_cc /\ late' = late
  BY <1>1, <1>2, ShortFrame
<1>4. CASE Insn = "RSUB"
  <2>1. /\ reg_pc' = TrimAddress(reg_general[REG_L]) /\ reg_target' = DirectTarget
        /\ ctl_state' # "ERROR"
    BY <1>4 DEF F34Decode1, Finish
  <2>2. /\ last'.pc = reg_pc' /\ last'.general = reg_general' /\ last'.cc = reg_cc'
        /\ last'.il = last.il /\ last'.icc = last.icc /\ last'.result = "OK"
        /\ last'.target = reg_target'
    BY <1>1, <1>2, <2>1, ShortFrame
  <2>3. IsSimple /\ ~FlagX /\ ~FlagB /\ ~FlagP /\ ~FlagE
    BY <1>4 DEF Comparable
  <2>4. ~InvalidAddressing /\ Target = DirectTarget
    BY <2>3 DEF InvalidAddressing, Target, IndexedTarget, IsIndirect, IsSimple
  <2>5. Late!JumpTo(TrimAddress(reg_general[REG_L]))
    BY <1>1, <1>3, <2>1, <2>2, LateJumps
  <2>6. Late!Return
    BY <1>3, <1>4, <2>5, LateWords DEF Late!Return, Late!Is, Late!REG_L, REG_L
  <2>7. Late!ExecuteFS34
    BY <1>3, <2>1, <2>2, <2>4, <2>6 DEF Late!ExecuteFS34
  <2>8. QED
    BY <1>3, <2>7 DEF Late!Execute
<1>5. CASE Insn # "RSUB"
  <2>1. InvalidAddressing /\ ctl_state' = "ERROR"
    BY <1>5 DEF F34Decode1, Ends, IdleStates
  <2>2. last'.target = last.target /\ Late!Fail("INVALID_ADDRESSING")
    BY <1>1, <1>2, <1>3, <2>1, ShortFrame
  <2>3. Late!ExecuteInvalidAddressing
    BY <1>3, <2>1, <2>2 DEF Late!ExecuteInvalidAddressing
  <2>4. QED
    BY <1>3, <2>3 DEF Late!Execute
<1>6. QED
  BY <1>4, <1>5

\* From the target address on.
LEMMA OperandFrame ==
  ASSUME BoardInv, Tracks, PortInv, NEW in, Ends(in), ctl_state \in TargetStates, Comparable,
         UNCHANGED reg_interrupt
  PROVE  /\ Insn \in ShortMnemonic \ {"RSUB", "STIL", "STSW"}
         /\ Late!Running /\ Late!DelayedInterruptEnable
         /\ Late!Instance.format = "FS34" /\ Late!Instance.mnemonic = Insn
         /\ Late!Instance.e = FlagE /\ Late!IsImmediateAddressing = IsImmediate
         /\ Late!ValidAddressing /\ Late!TargetAddress = Target
         /\ last'.target = Target /\ Target \in Word /\ late \in Memory
         /\ Late!NextProgramCounter = reg_pc /\ WholeFetched
         /\ last.general = reg_general /\ last.cc = reg_cc
         /\ ctl_state \notin StoreStates => late' = late
         /\ ctl_state' = "ERROR" /\ late' = late => Late!Fail("INVALID_ADDRESSING")
         /\ ctl_state' # "ERROR" =>
              /\ last'.pc = reg_pc' /\ last'.general = reg_general' /\ last'.cc = reg_cc'
              /\ last'.il = last.il /\ last'.icc = last.icc /\ last'.result = "OK"
              /\ reg_pc' = reg_pc => Late!Proceed
<1>1. ctl_state \in DecodedStates /\ ctl_state # "F34_DECODE1"
  BY DEF DecodedStates, TargetStates, WordState, StoreStates
<1>2. Insn \in ShortMnemonic \ {"RSUB"} /\ ~InvalidAddressing /\ last.target = Target
  BY DEF Tracks, OperandsFound
<1>3. Insn \notin {"STIL", "STSW"}
  BY DEF Comparable
<1>4. late \in Memory /\ Target \in Word
  BY TargetWord DEF Tracks, ViewsAgree
<1>5. /\ Late!Running /\ Late!DelayedInterruptEnable
      /\ Late!Instance.format = "FS34" /\ Late!Instance.mnemonic = Insn
      /\ Late!Instance.e = FlagE /\ Late!IsImmediateAddressing = IsImmediate
      /\ Late!ValidAddressing /\ Late!TargetAddress = Target
      /\ Late!NextProgramCounter = reg_pc /\ WholeFetched
      /\ last.general = reg_general /\ last.cc = reg_cc
      /\ ctl_state \notin StoreStates => late' = late
  BY <1>1, <1>2, ShortFrame
<1>6. CASE ctl_state' = "ERROR"
  <2>1. last'.target = last.target /\ (late' = late => Late!Fail("INVALID_ADDRESSING"))
    BY <1>1, <1>2, <1>6, ShortFrame
  <2>2. QED
    BY <1>2, <1>3, <1>4, <1>5, <1>6, <2>1
<1>7. CASE ctl_state' # "ERROR"
  <2>1. /\ last'.pc = reg_pc' /\ last'.general = reg_general' /\ last'.cc = reg_cc'
        /\ last'.il = last.il /\ last'.icc = last.icc /\ last'.result = "OK"
        /\ last'.target = last.target
        /\ reg_pc' = reg_pc => Late!Proceed
    BY <1>1, <1>2, <1>7, ShortFrame
  <2>2. QED
    BY <1>2, <1>3, <1>4, <1>5, <1>7, <2>1
<1>8. QED
  BY <1>6, <1>7

\* The board goes back to where it is exactly when the machine calls it a loop.
LEMMA JumpsElsewhere ==
  ASSUME Tracks, WholeFetched, Late!TargetAddress = Target, Late!NextProgramCounter = reg_pc,
         Late!Instance.e = FlagE, Target \in Word, TrimAddress(Target) # last.pc
  PROVE  ~Late!JumpsToItself
<1> PICK k \in 0 .. 5 : k = IF FlagE THEN 4 ELSE 3
  OBVIOUS
<1>1. reg_pc = TrimAddress(last.pc + k)
  BY DEF WholeFetched, Fetched, Cell
<1>2. last.pc \in Address /\ TrimAddress(Target) \in Address
  BY TrimAddressType DEF Tracks, LastTyped, LastType, Word
<1>3. TrimAddress(TrimAddress(Target) + k) # TrimAddress(last.pc + k)
  BY <1>2, AddressShift
<1>4. QED
  BY <1>1, <1>3, LateWords DEF Late!JumpsToItself

LEMMA JumpRuns ==
  ASSUME BoardInv, Tracks, PortInv, NEW in, Ends(in), F34Decode2(in), DecodeJump(in), Comparable
  PROVE  Late!Execute
<1>1. /\ ctl_state = "F34_DECODE2" /\ ctl_state \in TargetStates
      /\ ctl_state \notin StoreStates /\ UNCHANGED <<reg_cc, reg_interrupt>>
  BY DEF F34Decode2, TargetStates, StoreStates
<1>2. /\ Insn \in {"J", "JSUB", "JLT", "JEQ", "JGT"}
      /\ reg_pc' = IF Insn \in DOMAIN JumpCode /\ reg_cc # JumpCode[Insn]
                   THEN reg_pc ELSE TrimAddress(reg_target)
      /\ reg_general' = IF Insn = "JSUB" THEN [reg_general EXCEPT ![REG_L] = reg_pc]
                        ELSE reg_general
      /\ ctl_state' # "ERROR"
  BY DEF DecodeJump, JumpCode, Finish
<1>3. reg_target = Target /\ ~IsImmediate
      /\ (Insn \in {"J", "JSUB"} => TrimAddress(Target) # last.pc)
  BY <1>1, <1>2 DEF Tracks, OperandsFound, Comparable
<1>4. /\ Late!Running /\ Late!DelayedInterruptEnable
      /\ Late!Instance.format = "FS34" /\ Late!Instance.mnemonic = Insn
      /\ Late!Instance.e = FlagE /\ Late!IsImmediateAddressing = IsImmediate
      /\ Late!ValidAddressing /\ Late!TargetAddress = Target
      /\ last'.target = Target /\ Target \in Word
      /\ Late!NextProgramCounter = reg_pc /\ WholeFetched
      /\ last.general = reg_general /\ last.cc = reg_cc /\ late' = late
  BY <1>1, OperandFrame
<1>5. /\ last'.pc = reg_pc' /\ last'.general = reg_general' /\ last'.cc = reg_cc'
      /\ last'.il = last.il /\ last'.icc = last.icc /\ last'.result = "OK"
  BY <1>1, <1>2, OperandFrame
<1>6. CASE Insn \in {"J", "JSUB"}
  <2>1. ~Late!JumpsToItself
    BY <1>3, <1>4, <1>6, JumpsElsewhere
  <2>2. Insn \notin DOMAIN JumpCode
    BY <1>6 DEF JumpCode
  <2>3. last'.pc = TrimAddress(Target)
    BY <1>2, <1>3, <1>5, <2>2
  <2>4. last'.general = IF Insn = "JSUB" THEN [last.general EXCEPT ![Late!REG_L] = reg_pc]
                        ELSE last.general
    BY <1>2, <1>4, <1>5 DEF Late!REG_L, REG_L
  <2>5. Late!Jump
    BY <1>1, <1>3, <1>4, <1>5, <1>6, <2>1, <2>3, <2>4, LateWords
    DEF Late!Jump, Late!Is, PortDevices, ConditionName
  <2>6. Late!ExecuteFS34
    BY <1>4, <2>5 DEF Late!ExecuteFS34
  <2>7. QED
    BY <1>4, <2>6 DEF Late!Execute
<1>7. CASE Insn \in {"JLT", "JEQ", "JGT"}
  <2>1. reg_cc \in {LT, EQ, GT}
    BY DEF BoardInv, BoardTypeOK, CoreTypeOK
  <2>2. ConditionName[last.cc + 1] = Late!JumpCondition[Insn] <=> reg_cc = JumpCode[Insn]
    BY <1>4, <1>7, <2>1 DEF ConditionName, Late!JumpCondition, JumpCode, LT, EQ, GT
  <2>3. Insn \in DOMAIN JumpCode /\ Insn \in DOMAIN Late!JumpCondition
    BY <1>7 DEF JumpCode, Late!JumpCondition
  <2>4. reg_general' = reg_general
    BY <1>2, <1>7
  <2>5. Late!JumpTo(last'.pc)
    BY <1>1, <1>4, <1>5, <2>4, LateJumps
  <2>6. last'.pc = IF reg_cc = JumpCode[Insn] THEN TrimAddress(Target) ELSE reg_pc
    BY <1>2, <1>3, <1>5, <2>3
  <2>7. Late!JumpConditional
    BY <1>3, <1>4, <2>2, <2>3, <2>5, <2>6, LateWords DEF Late!JumpConditional, Late!Is
  <2>8. Late!ExecuteFS34
    BY <1>4, <2>7 DEF Late!ExecuteFS34
  <2>9. QED
    BY <1>4, <2>8 DEF Late!Execute
<1>8. QED
  BY <1>2, <1>6, <1>7

\* Jumps, and stores that have no operand in memory.
LEMMA JumpsRun ==
  ASSUME BoardInv, Tracks, PortInv, NEW in, Ends(in), F34Decode2(in), Comparable
  PROVE  Late!Execute
<1>1. CASE DecodeJump(in)
  BY <1>1, JumpRuns
<1>2. CASE DecodeStore
  <2>1. /\ ctl_state = "F34_DECODE2" /\ ctl_state \in TargetStates
        /\ ctl_state \notin StoreStates /\ UNCHANGED reg_interrupt
    BY DEF F34Decode2, TargetStates, StoreStates
  <2>2. IsImmediate /\ ctl_state' = "ERROR" /\ Insn \in DOMAIN StoreRegister \cup {"STSW", "STIL"}
    BY <1>2 DEF DecodeStore, Ends, IdleStates
  <2>3. /\ Insn \in ShortMnemonic \ {"RSUB", "STIL", "STSW"}
        /\ Late!Running /\ Late!DelayedInterruptEnable
        /\ Late!Instance.format = "FS34" /\ Late!Instance.mnemonic = Insn
        /\ Late!IsImmediateAddressing = IsImmediate
        /\ Late!ValidAddressing /\ Late!TargetAddress = Target
        /\ last'.target = Target /\ late' = late
    BY <2>1, OperandFrame
  <2>4. Late!Fail("INVALID_ADDRESSING")
    BY <2>1, <2>2, <2>3, OperandFrame
  <2>5. Late!NeedsMemoryOperand
    BY <2>2, <2>3 DEF Late!NeedsMemoryOperand, Late!Is, StoreRegister
  <2>6. Late!ExecuteFS34
    BY <2>2, <2>3, <2>4, <2>5 DEF Late!ExecuteFS34
  <2>7. QED
    BY <2>3, <2>6 DEF Late!Execute
<1>3. CASE DecodeOperand
  BY <1>3 DEF DecodeOperand, Ends, IdleStates
<1>4. QED
  BY <1>1, <1>2, <1>3 DEF F34Decode2

-----------------------------------------------------------------------------
(***************************************************************************)
(* Stores.                                                                 *)
(***************************************************************************)
\* The last byte that is stored completes what the machine writes.
LEMMA BytesStored ==
  ASSUME BoardInv, Tracks, PortInv, MemoryDividesWords, NEW in, Ends(in), Store(in),
         Insn \in DOMAIN StoreRegister
  PROVE  late' = IF Insn = "STCH"
                 THEN WriteMemoryByte(late, Target, reg_general[StoreRegister[Insn]])
                 ELSE WriteMemoryWord(late, Target, reg_general[StoreRegister[Insn]])
<1>1. ctl_state = "F34_STORE2" /\ ctl_state \in StoreStates
  BY DEF Store, Ends, IdleStates, StoreStates
<1> PICK d : d = reg_general[StoreRegister[Insn]]
  OBVIOUS
<1>2. reg_memory_data = d /\ d \in Word /\ Stored(IF Insn = "STCH" THEN 0 ELSE 2)
  BY <1>1 DEF Tracks, StoresProgress, BoardInv, BoardTypeOK, CoreTypeOK
<1>3. late \in Memory /\ Target \in Int
  BY TargetWord DEF Tracks, ViewsAgree, Word
<1>4. late' = [cpu_ram EXCEPT ![TrimAddress(reg_target)] = d % ByteSize]
  <2>1. StoreWeight[ctl_state] = 1
    BY <1>1 DEF StoreWeight
  <2>2. d \div 1 = d
    BY <1>2 DEF Word
  <2>3. QED
    BY <1>1, <1>2, <2>1, <2>2, EndViews
<1>5. CASE Insn = "STCH"
  <2>1. reg_target = TrimWord(Target + 0) /\ cpu_ram = StoredBytes(0)
    BY <1>2, <1>5 DEF Stored
  <2>2. TrimAddress(reg_target) = Cell(Target, 0)
    BY <1>3, <2>1, AddressOfWord DEF Cell
  <2>3. cpu_ram = late
    BY <1>3, <2>1 DEF StoredBytes, Memory
  <2>4. QED
    BY <1>4, <1>5, <2>2, <2>3 DEF WriteMemoryByte
<1>6. CASE Insn # "STCH"
  <2>1. reg_target = TrimWord(Target + 2) /\ cpu_ram = StoredBytes(2)
    BY <1>2, <1>6 DEF Stored
  <2>2. TrimAddress(reg_target) = Cell(Target, 2)
    BY <1>3, <2>1, AddressOfWord DEF Cell
  <2> PICK c0, c1, c2 : c0 = Cell(Target, 0) /\ c1 = Cell(Target, 1) /\ c2 = Cell(Target, 2)
    OBVIOUS
  <2> PICK h, l : h = ((d \div ByteSize) \div ByteSize) % ByteSize /\ l = (d \div ByteSize) % ByteSize
    OBVIOUS
  <2>3. c0 # c1 /\ c0 # c2 /\ c1 # c2
    BY <1>3, CellsDiffer
  <2>4. c0 \in Address /\ c1 \in Address /\ c2 \in Address
    BY <1>3, CellType
  <2>5. cpu_ram = [a \in Address |-> IF a = c0 THEN h ELSE IF a = c1 THEN l ELSE late[a]]
    BY <1>2, <2>1 DEF StoredBytes
  <2>6. late' = [cpu_ram EXCEPT ![c2] = d % ByteSize]
    BY <1>4, <2>2
  <2>7. WriteMemoryWord(late, Target, d) =
          [late EXCEPT ![c0] = h, ![c1] = l, ![c2] = d % ByteSize]
    BY DEF WriteMemoryWord
  <2>8. [late EXCEPT ![c0] = h, ![c1] = l]
          = [a \in Address |-> IF a = c0 THEN h ELSE IF a = c1 THEN l ELSE late[a]]
    BY <1>3, <2>3 DEF Memory
  <2>9. QED
    BY <1>6, <2>5, <2>6, <2>7, <2>8
<1>7. QED
  BY <1>5, <1>6

LEMMA StoresRun ==
  ASSUME BoardInv, Tracks, PortInv, MemoryDividesWords, NEW in, Ends(in), Store(in), Comparable
  PROVE  Late!Execute
<1>1. /\ ctl_state = "F34_STORE2" /\ ctl_state \in TargetStates /\ ctl_state \in StoreStates
      /\ UNCHANGED <<reg_pc, reg_general, reg_cc, reg_interrupt>> /\ ctl_state' # "ERROR"
  BY DEF Store, Ends, IdleStates, StoreStates, TargetStates, Finish
<1>2. /\ Insn \in ShortMnemonic \ {"RSUB", "STIL", "STSW"}
      /\ Late!Running /\ Late!DelayedInterruptEnable
      /\ Late!Instance.format = "FS34" /\ Late!Instance.mnemonic = Insn
      /\ Late!IsImmediateAddressing = IsImmediate
      /\ Late!ValidAddressing /\ Late!TargetAddress = Target
      /\ last'.target = Target /\ last.general = reg_general /\ last.cc = reg_cc
  BY <1>1, OperandFrame
<1>3. last'.general = reg_general' /\ last'.cc = reg_cc' /\ Late!Proceed
  BY <1>1, OperandFrame
<1>4. Insn \in DOMAIN StoreRegister /\ ~IsImmediate
  BY <1>1, <1>2 DEF Tracks, StoresProgress
<1>5. Late!SetMemory(late')
  BY <1>1, <1>2, <1>3, LateSetsMemory
<1>6. CASE Insn = "STCH"
  <2>1. StoreRegister[Insn] = Late!REG_A
    BY <1>6 DEF StoreRegister, REG_A, Late!REG_A
  <2>2. late' = WriteMemoryByte(late, Target, last.general[Late!REG_A])
    BY <1>2, <1>4, <1>6, <2>1, BytesStored
  <2>3. Late!StoreByte
    BY <1>2, <1>4, <1>5, <1>6, <2>2, LateMemory DEF Late!StoreByte, Late!Is
  <2>4. Late!ExecuteFS34
    BY <1>2, <2>3 DEF Late!ExecuteFS34
  <2>5. QED
    BY <1>2, <2>4 DEF Late!Execute
<1>7. CASE Insn # "STCH"
  <2>1. Insn \in DOMAIN Late!StoreWordRegister
        /\ StoreRegister[Insn] = Late!StoreWordRegister[Insn]
    BY <1>4, <1>7
    DEF StoreRegister, REG_A, REG_X, REG_L, REG_B, REG_S, REG_T, Late!StoreWordRegister,
        Late!REG_A, Late!REG_X, Late!REG_L, Late!REG_B, Late!REG_S, Late!REG_T
  <2>2. late' = WriteMemoryWord(late, Target, last.general[Late!StoreWordRegister[Insn]])
    BY <1>2, <1>4, <1>7, <2>1, BytesStored
  <2>3. Late!StoreWord
    BY <1>2, <1>4, <1>5, <2>1, <2>2, LateMemory DEF Late!StoreWord, Late!Is
  <2>4. Late!ExecuteFS34
    BY <1>2, <2>3 DEF Late!ExecuteFS34
  <2>5. QED
    BY <1>2, <2>4 DEF Late!Execute
<1>8. QED
  BY <1>6, <1>7

-----------------------------------------------------------------------------
(***************************************************************************)
(* Instructions with an operand: a word or a byte.                         *)
(***************************************************************************)
LEMMA WordOperandsRun ==
  ASSUME BoardInv, Tracks, PortInv, WordsHaveSign, NEW in, Ends(in), F34WDecode3(in), Comparable
  PROVE  Late!Execute
<1>1. /\ ctl_state = "F34W_DECODE3" /\ ctl_state \in TargetStates /\ ctl_state \in WordState
      /\ ctl_state \notin StoreStates /\ ctl_state' # "ERROR"
      /\ UNCHANGED <<reg_pc, reg_interrupt>>
  BY DEF F34WDecode3, TargetStates, WordState, StoreStates, Finish
<1>2. /\ Late!Running /\ Late!DelayedInterruptEnable
      /\ Late!Instance.format = "FS34" /\ Late!Instance.mnemonic = Insn
      /\ Late!IsImmediateAddressing = IsImmediate
      /\ Late!ValidAddressing /\ Late!TargetAddress = Target
      /\ last'.target = Target /\ last.general = reg_general /\ last.cc = reg_cc
      /\ late' = late
  BY <1>1, OperandFrame
<1>3. last'.general = reg_general' /\ last'.cc = reg_cc' /\ Late!Proceed
  BY <1>1, OperandFrame
<1>4. Insn \in WordInsn
  BY <1>1 DEF BoardInv, InsnInv
<1> PICK operand : operand = reg_target
  OBVIOUS
<1>5. Late!WordOperand = operand
  <2>1. operand = Operand
    BY <1>1 DEF Tracks, OperandsFound
  <2>2. QED
    BY <1>2, <2>1, LateMemory DEF Late!WordOperand, Operand
<1>6. operand \in Word
  BY DEF BoardInv, BoardTypeOK, CoreTypeOK
<1>7. Late!REG_A = REG_A /\ REG_A \in GeneralId
  BY DEF Late!REG_A, REG_A, GeneralId
<1>8. reg_general[REG_A] \in Word
  BY <1>7, RegistersTyped
<1>9. SUFFICES \/ Late!LoadWord \/ Late!CompareMem \/ Late!IncrementCompareMem
               \/ Late!ArithmeticMem
  <2>1. ASSUME \/ Late!LoadWord \/ Late!CompareMem \/ Late!IncrementCompareMem
               \/ Late!ArithmeticMem
        PROVE  Late!ExecuteFS34
    BY <1>2, <2>1 DEF Late!ExecuteFS34
  <2>2. QED
    BY <1>2, <2>1 DEF Late!Execute
<1>10. CASE F34W_LDR
  <2>1. /\ Insn \in DOMAIN LoadRegister /\ reg_cc' = reg_cc
        /\ reg_general' = [reg_general EXCEPT ![LoadRegister[Insn]] = operand]
    BY <1>10 DEF F34W_LDR
  <2>2. /\ Insn \in DOMAIN Late!LoadWordRegister
        /\ LoadRegister[Insn] = Late!LoadWordRegister[Insn]
    BY <2>1
    DEF LoadRegister, REG_A, REG_X, REG_L, REG_B, REG_S, REG_T, Late!LoadWordRegister,
        Late!REG_A, Late!REG_X, Late!REG_L, Late!REG_B, Late!REG_S, Late!REG_T
  <2>3. Late!SetRegister(LoadRegister[Insn], operand)
    BY <1>2, <1>3, <2>1, LateSetsRegister
  <2>4. Late!LoadWord
    BY <1>2, <1>5, <2>2, <2>3 DEF Late!LoadWord, Late!Is
  <2>5. QED
    BY <2>4
<1>11. CASE F34W_COMP
  <2>1. Insn = "COMP" /\ reg_cc' = Compared(reg_general[REG_A], operand)
        /\ reg_general' = reg_general
    BY <1>11 DEF F34W_COMP
  <2>2. Late!SetConditionCode(ConditionName[reg_cc' + 1])
    BY <1>2, <1>3, <2>1, LateSetsCondition
  <2>3. ConditionName[reg_cc' + 1]
          = Late!Comparison(SignExtendWord(reg_general[REG_A]), SignExtendWord(operand))
    BY <1>6, <1>8, <2>1, ComparedName
  <2>4. Late!CompareMem
    BY <1>2, <1>5, <1>7, <2>1, <2>2, <2>3, LateWords DEF Late!CompareMem, Late!Is
  <2>5. QED
    BY <2>4
<1>12. CASE F34W_TIX
  <2>1. Insn = "TIX" /\ IncrementX(operand)
    BY <1>12 DEF F34W_TIX
  <2>2. Late!IncrementCompare(operand)
    BY <1>2, <1>3, <1>6, <2>1, IncrementsX
  <2>3. Late!IncrementCompareMem
    BY <1>2, <1>5, <2>1, <2>2 DEF Late!IncrementCompareMem, Late!Is
  <2>4. QED
    BY <2>3
<1>13. CASE F34W_ALU
  <2> PICK a \in Word : a = reg_general[REG_A]
    BY <1>8
  <2>1. /\ Insn \in {"ADD", "SUB", "MUL", "AND", "OR", "XOR"} /\ reg_cc' = reg_cc
        /\ reg_general' = [reg_general EXCEPT ![REG_A] = Alu(Insn, a, operand)]
    BY <1>4, <1>13 DEF F34W_ALU, WordInsn
  <2>2. Insn \in AluOperation /\ Insn # "MULR"
    BY <2>1 DEF AluOperation
  <2>3. Insn = "MUL" => Fits(SignExtendWord(a) * SignExtendWord(operand))
    BY <1>1 DEF Comparable
  <2>4. Alu(Insn, a, operand) = Late!Arithmetic(OperationOf(Insn), a, operand)
    BY <1>6, <2>2, <2>3, AluMeans
  <2>5. /\ OperationOf(Insn) = Late!ArithmeticMemOperation[Insn]
        /\ OperationOf(Insn) # "DIV" /\ Insn \in DOMAIN Late!ArithmeticMemOperation
    BY <2>1 DEF OperationOf, Late!ArithmeticMemOperation
  <2>6. Late!SetRegister(REG_A, Late!Arithmetic(OperationOf(Insn), a, operand))
    <3> PICK v : v = Late!Arithmetic(OperationOf(Insn), a, operand)
      OBVIOUS
    <3>1. last'.general = [last.general EXCEPT ![REG_A] = v] /\ last'.cc = last.cc
      BY <1>2, <1>3, <2>1, <2>4
    <3>2. Late!SetRegister(REG_A, v)
      BY <1>2, <1>3, <3>1, LateSetsRegister
    <3>3. QED
      BY <3>2
  <2>7. Late!ArithmeticResult(OperationOf(Insn), REG_A, operand)
    BY <1>2, <2>5, <2>6 DEF Late!ArithmeticResult
  <2>8. Late!ArithmeticMem
    BY <1>2, <1>5, <1>7, <2>5, <2>7 DEF Late!ArithmeticMem, Late!Is
  <2>9. QED
    BY <2>8
<1>14. QED
  BY <1>10, <1>11, <1>12, <1>13 DEF F34WDecode3

LEMMA ByteOperandIs ==
  ASSUME Late!IsImmediateAddressing = IsImmediate, Late!TargetAddress = Target,
         late \in Memory, Target \in Word, reg_target = OperandB
  PROVE  /\ Late!ByteOperand = reg_target % ByteSize
         /\ reg_target \in Byte => Late!ByteOperand = reg_target
<1>1. \A b \in Byte : b % ByteSize = b
  BY Sizes DEF Byte
<1>2. CASE IsImmediate
  BY <1>1, <1>2 DEF Late!ByteOperand, OperandB
<1>3. CASE ~IsImmediate
  <2>1. Late!ByteOperand = late[Cell(Target, 0)] /\ reg_target = late[Cell(Target, 0)]
    BY <1>3, LateMemory DEF Late!ByteOperand, OperandB, ReadMemoryByte
  <2>2. late[Cell(Target, 0)] \in Byte
    BY CellType DEF Memory, Word
  <2>3. QED
    BY <1>1, <2>1, <2>2
<1>4. QED
  BY <1>2, <1>3

LEMMA ByteOperandsRun ==
  ASSUME BoardInv, Tracks, PortInv, NEW in, Ends(in), F34BDecode3(in), Comparable
  PROVE  Late!Execute
<1>1. /\ ctl_state = "F34B_DECODE3" /\ ctl_state \in TargetStates
      /\ ctl_state \notin StoreStates /\ ctl_state' # "ERROR"
      /\ UNCHANGED <<reg_pc, reg_interrupt>>
  BY DEF F34BDecode3, TargetStates, StoreStates, Finish
<1>2. /\ Late!Running /\ Late!DelayedInterruptEnable
      /\ Late!Instance.format = "FS34" /\ Late!Instance.mnemonic = Insn
      /\ Late!IsImmediateAddressing = IsImmediate
      /\ Late!ValidAddressing /\ Late!TargetAddress = Target
      /\ last'.target = Target /\ Target \in Word /\ late \in Memory
      /\ last.general = reg_general /\ last.cc = reg_cc /\ late' = late
  BY <1>1, OperandFrame
<1>3. last'.general = reg_general' /\ last'.cc = reg_cc' /\ Late!Proceed
  BY <1>1, OperandFrame
<1>4. Insn \in ByteInsn /\ reg_target = OperandB
  BY <1>1 DEF Tracks, OperandsFound
<1> PICK port : port = reg_target % ByteSize
  OBVIOUS
<1>5. Late!ByteOperand = port /\ (reg_target \in Byte => port = reg_target)
  BY <1>2, <1>4, ByteOperandIs
<1>6. \A d \in InputPort \cup OutputPort :
        Late!DeviceAt(d) = IF d \in InputPort THEN "input" ELSE "output"
  BY DEF Late!DeviceAt, PortDevices
<1>7. /\ reg_general' = CASE Insn = "LDCH" -> [reg_general EXCEPT ![REG_A] = reg_target]
                          [] Insn = "RD"   -> [reg_general EXCEPT ![REG_A] = in.port]
                          [] OTHER         -> reg_general
      /\ reg_cc' = IF Insn = "TD" THEN LT ELSE reg_cc
  BY DEF F34BDecode3
<1>8. Late!REG_A = REG_A
  BY DEF Late!REG_A, REG_A
<1>9. SUFFICES \/ Late!LoadByte \/ Late!TestDevice \/ Late!ReadDevice \/ Late!WriteDevice
  <2>1. ASSUME Late!LoadByte \/ Late!TestDevice \/ Late!ReadDevice \/ Late!WriteDevice
        PROVE  Late!ExecuteFS34
    BY <1>2, <2>1 DEF Late!ExecuteFS34
  <2>2. QED
    BY <1>2, <2>1 DEF Late!Execute
<1>10. CASE Insn = "LDCH"
  <2>1. reg_target \in Byte
    BY <1>1, <1>10 DEF Comparable
  <2>2. reg_general' = [reg_general EXCEPT ![REG_A] = port] /\ reg_cc' = reg_cc
    BY <1>5, <1>7, <1>10, <2>1
  <2>3. Late!SetRegister(REG_A, port)
    BY <1>2, <1>3, <2>2, LateSetsRegister
  <2>4. Late!LoadByte
    BY <1>2, <1>5, <1>8, <1>10, <2>3 DEF Late!LoadByte, Late!Is
  <2>5. QED
    BY <2>4
<1>11. CASE Insn = "TD"
  <2>1. port \in InputPort \cup OutputPort
    BY <1>1, <1>11 DEF Comparable
  <2>2. reg_general' = reg_general /\ reg_cc' = LT
    BY <1>7, <1>11
  <2>3. Late!SetConditionCode(ConditionName[reg_cc' + 1])
    BY <1>2, <1>3, <2>2, LateSetsCondition
  <2>4. ConditionName[reg_cc' + 1] = "LESS"
    BY <2>2 DEF ConditionName, LT
  <2>5. Late!DeviceAt(port) # "none"
    BY <1>6, <2>1
  <2>6. Late!TestDevice
    BY <1>2, <1>5, <1>11, <2>3, <2>4, <2>5 DEF Late!TestDevice, Late!Is
  <2>7. QED
    BY <2>6
<1>12. CASE Insn = "RD"
  <2>1. port \in InputPort
    BY <1>1, <1>12 DEF Comparable
  <2>2. in.port \in InputBytes
    BY <2>1 DEF Ends, Around, CoreInputs, PortIn
  <2>3. reg_general' = [reg_general EXCEPT ![REG_A] = in.port] /\ reg_cc' = reg_cc
    BY <1>7, <1>12
  <2>4. Late!DeviceAt(port) = "input" /\ PortDevices[port] = "input"
    BY <1>6, <2>1 DEF PortDevices
  <2>5. PortDevices' = [PortDevices EXCEPT ![port] = IF @ = "input" THEN @ ELSE "file_read"]
    BY <2>1, <2>4 DEF PortDevices
  <2>6. Late!ReadSucceeds(port)
    BY <1>2, <1>3, <1>8, <2>2, <2>3, <2>4, <2>5 DEF Late!ReadSucceeds, ConditionName
  <2>7. Late!ReadDevice
    BY <1>2, <1>5, <1>12, <2>6 DEF Late!ReadDevice, Late!Is
  <2>8. QED
    BY <2>7
<1>13. CASE Insn = "WD"
  <2>1. port \in OutputPort \ InputPort
    BY <1>1, <1>13 DEF Comparable
  <2>2. reg_general' = reg_general /\ reg_cc' = reg_cc
    BY <1>7, <1>13
  <2>3. Late!DeviceAt(port) = "output" /\ PortDevices[port] = "output"
    BY <1>6, <2>1 DEF PortDevices
  <2>4. PortDevices' = [PortDevices EXCEPT ![port] = IF @ = "output" THEN @ ELSE "file_write"]
    BY <2>1, <2>3 DEF PortDevices
  <2>5. Late!WriteSucceeds(port)
    BY <1>2, <1>3, <2>2, <2>3, <2>4 DEF Late!WriteSucceeds, ConditionName
  <2>6. Late!WriteDevice
    BY <1>2, <1>5, <1>13, <2>5 DEF Late!WriteDevice, Late!Is
  <2>7. QED
    BY <2>6
<1>14. QED
  BY <1>4, <1>10, <1>11, <1>12, <1>13 DEF ByteInsn

\* The interrupt cycle.
LEMMA InterruptRuns ==
  ASSUME BoardInv, Tracks, PortInv, NEW in, Ends(in), Int5(in)
  PROVE  Late!Interrupt
<1>1. /\ ctl_state = "INT5" /\ ctl_state \in InterruptState /\ ctl_state \notin StoreStates
      /\ ctl_state' # "ERROR" /\ ctl_state \notin IdleStates
      /\ reg_pc' = TrimAddress(reg_memory_data)
      /\ UNCHANGED <<reg_il, reg_cc, reg_icc, reg_general, reg_interrupt>>
  BY DEF Int5, InterruptState, StoreStates, IdleStates, AfterEnable
<1>2. /\ last.general = reg_general /\ last.cc = reg_cc
      /\ reg_il = last.pc /\ reg_icc = last.cc /\ last.enabled /\ ~reg_interrupt
  BY <1>1 DEF Tracks, RegistersAgree
<1>3. last' = EndedState /\ late' = late
  BY <1>1, EndLast, EndViews
<1>4. reg_interrupt' = FALSE
  BY <1>1, <1>2 DEF BoardInv, BoardTypeOK, CoreTypeOK
<1>5. /\ last'.pc = reg_pc' /\ last'.general = last.general /\ last'.cc = last.cc
      /\ last'.il = last.pc /\ last'.icc = last.cc /\ last'.enabled = FALSE
      /\ last'.enable_next = FALSE /\ last'.target = last.target /\ last'.result = "OK"
  BY <1>1, <1>2, <1>3, <1>4 DEF EndedState
<1>6. reg_memory_data = ReadMemoryWord(late, AddressSize - 3)
  BY <1>1 DEF Tracks, OperandsFound
<1>7. reg_pc' = Late!InterruptVector
  BY <1>1, <1>6, LateWords, LateMemory DEF Late!InterruptVector
<1>8. Late!Running
  BY LateRuns DEF Tracks
<1>9. QED
  BY <1>2, <1>3, <1>5, <1>7, <1>8 DEF Late!Interrupt, PortDevices, ConditionName

-----------------------------------------------------------------------------
(***************************************************************************)
(* Every cycle, and every instruction.                                     *)
(***************************************************************************)
\* A cycle in which nothing ends keeps the invariant.
LEMMA CycleTracks ==
  ASSUME BoardInv, Tracks, PortInv, MemoryDividesWords, NEW in, Around(in), CoreClock(in),
         ~Ends(in)
  PROVE  Tracks'
<1>1. BoardTypeOK
  BY DEF BoardInv
<1>2. CASE IsRequesting /\ ~in.done
  <2>1. UNCHANGED core_vars
    BY <1>2 DEF CoreClock
  <2>2. QED
    BY <1>1, <1>2, <2>1, WaitStep
<1>3. CASE ~(IsRequesting /\ ~in.done)
  <2>1. CoreStep(in) /\ (IsRequesting => in.done)
    BY <1>3 DEF CoreClock
  <2>2. ctl_state \in IdleStates \/ ctl_state' \notin IdleStates
    BY <2>1 DEF Ends, IsRequesting
  <2>3. CASE Stuck \/ Disabled(in)
    BY <1>1, <2>3, IdleStep
  <2>4. CASE Fetch(in)
    <3>1. in.done
      BY <2>1, <2>4 DEF Fetch, IsRequesting
    <3>2. QED
      BY <1>1, <2>4, <3>1, FetchFirst, FetchMore
  <2>5. CASE Decode0(in)
    <3>1. ctl_state' \notin IdleStates
      BY <2>2, <2>5 DEF Decode0, IdleStates
    <3>2. QED
      BY <2>5, <3>1, DecodeMore
  <2>6. CASE F2Decode1(in)
    <3>1. ctl_state \notin IdleStates /\ ctl_state' \in IdleStates
      BY <2>6 DEF F2Decode1, F2Invalid, F2_ALU, F2_COMP, F2_TIX, Finish, IdleStates
    <3>2. QED
      BY <2>2, <3>1
  <2>7. CASE F34Decode1(in)
    <3>1. ctl_state' \notin IdleStates
      BY <2>2, <2>7 DEF F34Decode1, IdleStates
    <3>2. QED
      BY <2>7, <3>1, TargetMore
  <2>8. CASE Load(in)
    <3>1. in.done
      BY <2>1, <2>8 DEF Load, IsRequesting
    <3>2. QED
      BY <2>8, <3>1, LoadMore
  <2>9. CASE Store(in)
    <3>1. in.done
      BY <2>1, <2>9 DEF Store, IsRequesting
    <3>2. ctl_state # "F34_STORE2"
      BY <2>2, <2>9 DEF Store, Finish, IdleStates
    <3>3. QED
      BY <2>9, <3>1, <3>2, StoreMore
  <2>10. CASE F34Decode2(in)
    <3>1. ctl_state' \notin IdleStates
      BY <2>2, <2>10 DEF F34Decode2, IdleStates
    <3>2. QED
      BY <2>10, <3>1, OperandMore
  <2>11. CASE F34BDecode3(in) \/ F34WDecode3(in)
    <3>1. ctl_state \notin IdleStates /\ ctl_state' \in IdleStates
      BY <2>11 DEF F34BDecode3, F34WDecode3, Finish, IdleStates
    <3>2. QED
      BY <2>2, <3>1
  <2>12. CASE Int0
    BY <2>12, InterruptBegins
  <2>13. CASE Int5(in)
    <3>1. ctl_state \notin IdleStates /\ ctl_state' \in IdleStates
      BY <2>13 DEF Int5, AfterEnable, IdleStates
    <3>2. QED
      BY <2>2, <3>1
  <2>14. QED
    BY <2>1, <2>3, <2>4, <2>5, <2>6, <2>7, <2>8, <2>9, <2>10, <2>11, <2>12, <2>13 DEF CoreStep
<1>4. QED
  BY <1>2, <1>3

\* What a cycle ends, it ends as the virtual machine would.
LEMMA EndRuns ==
  ASSUME BoardInv, Tracks, PortInv, MemoryDividesWords, WordsHaveSign, NEW in, Ends(in)
  PROVE  /\ ctl_state # "INT5" /\ Comparable => Late!Execute
         /\ ctl_state = "INT5" => Late!Interrupt
<1>1. CoreStep(in) /\ ctl_state \notin IdleStates /\ ctl_state' \in IdleStates
  BY DEF Ends
<1>2. CASE Stuck \/ Disabled(in) \/ Int0
  BY <1>1, <1>2 DEF Stuck, Disabled, Int0, IdleStates
<1>3. CASE Fetch(in)
  BY <1>1, <1>3 DEF Fetch, AfterFetch, FetchStates, IdleStates
<1>4. CASE Load(in)
  BY <1>1, <1>4 DEF Load, AfterLoad, LoadStates, IdleStates
<1>5. CASE Decode0(in)
  BY <1>5, Format1Runs DEF Decode0
<1>6. CASE F2Decode1(in)
  BY <1>6, Format2Runs DEF F2Decode1
<1>7. CASE F34Decode1(in)
  BY <1>7, AddressingRuns DEF F34Decode1
<1>8. CASE F34Decode2(in)
  BY <1>8, JumpsRun DEF F34Decode2
<1>9. CASE Store(in)
  BY <1>9, StoresRun DEF Store, StoreStates
<1>10. CASE F34WDecode3(in)
  BY <1>10, WordOperandsRun DEF F34WDecode3
<1>11. CASE F34BDecode3(in)
  BY <1>11, ByteOperandsRun DEF F34BDecode3
<1>12. CASE Int5(in)
  BY <1>12, InterruptRuns DEF Int5
<1>13. QED
  BY <1>1, <1>2, <1>3, <1>4, <1>5, <1>6, <1>7, <1>8, <1>9, <1>10, <1>11, <1>12 DEF CoreStep

LEMMA ClockRuns ==
  ASSUME BoardInv, BoardInv', RunInv, PortInv, ComputerWritesBetween, MemoryDividesWords,
         WordsHaveSign, CpuClock
  PROVE  /\ RunInv'
         /\ ~astray /\ step_ended' = "execute" /\ Comparable => Late!Execute
         /\ ~astray /\ step_ended' = "interrupt" => Late!Interrupt
<1>1. PICK signals \in SUBSET (scenario.signals \ {"reset", "board"}), in \in CoreInputs :
        CoreClock(in) /\ Others(signals) /\ Views /\ LastState /\ StaleAnswer
  BY DEF CpuClock
<1>2. MemoryClock(PortRequests)
  BY <1>1, OthersStep
<1>3. step_ended' = Ended
  BY <1>1 DEF Views
<1>4. CASE astray
  BY <1>1, <1>4 DEF StaleAnswer, RunInv
<1>5. CASE ~astray /\ astray'
  <2>1. stale /\ Tracks
    BY <1>1, <1>5 DEF StaleAnswer, RunInv
  <2>2. ctl_state \in IdleStates
    BY <2>1 DEF Tracks, StaleIsIdle, IdleStates
  <2>3. Ended = "none"
    BY <2>2 DEF Ended
  <2>4. QED
    BY <1>3, <1>5, <2>3 DEF RunInv
<1>6. CASE ~astray /\ ~astray'
  <2>1. Tracks /\ Around(in)
    BY <1>1, <1>2, <1>6 DEF RunInv, Around
  <2>2. CASE Ends(in)
    <3>1. Tracks'
      BY <2>1, <2>2, EndTracks
    <3>2. Ended = IF ctl_state = "INT5" THEN "interrupt" ELSE "execute"
      BY <2>2 DEF Ends, Ended
    <3>3. /\ ctl_state # "INT5" /\ Comparable => Late!Execute
          /\ ctl_state = "INT5" => Late!Interrupt
      BY <2>1, <2>2, EndRuns
    <3>4. QED
      BY <1>3, <3>1, <3>2, <3>3 DEF RunInv
  <2>3. CASE ~Ends(in)
    <3>1. Tracks'
      BY <1>1, <2>1, <2>3, CycleTracks
    <3>2. Ended = "none"
      <4>1. SUFFICES ASSUME ctl_state \notin IdleStates, ctl_state' \in IdleStates PROVE FALSE
        BY DEF Ended
      <4>2. CASE IsRequesting /\ ~in.done
        BY <1>1, <4>1, <4>2 DEF CoreClock, core_vars
      <4>3. CASE ~(IsRequesting /\ ~in.done)
        BY <1>1, <2>1, <2>3, <4>1, <4>3 DEF CoreClock, Ends, IsRequesting
      <4>4. QED
        BY <4>2, <4>3
    <3>3. QED
      BY <1>3, <3>1, <3>2 DEF RunInv
  <2>4. QED
    BY <2>2, <2>3
<1>7. QED
  BY <1>4, <1>5, <1>6

\* A reset leaves the CPU between instructions, with the state of the machine that
\* it has been reset to.
LEMMA ResetTracks ==
  ASSUME BoardInv', CoreReset, HistoryReset
  PROVE  Tracks'
<1>1. /\ ctl_state' = "DISABLED" /\ ctl_state' \in IdleStates
      /\ reg_pc' = 0 /\ reg_il' = 0 /\ reg_cc' = LT /\ reg_icc' = LT
      /\ reg_general' = [r \in GeneralId |-> 0]
      /\ reg_interrupt' = FALSE /\ reg_interrupt_next' = FALSE
  BY DEF CoreReset, IdleStates
<1>2. last' = ResetState /\ late' = ram' /\ cpu_ram' = ram'
  BY DEF HistoryReset
<1>3. LastTyped'
  BY <1>2, Sizes DEF LastTyped, LastType, ResetState, Address, Word
<1>4. StaleIsIdle'
  BY <1>1 DEF StaleIsIdle
<1>5. ViewsAgree'
  BY <1>2 DEF ViewsAgree, BoardInv, BoardTypeOK, MemoryTypeOK, Memory
<1>6. RegistersAgree'
  BY <1>1, <1>2 DEF RegistersAgree, EnabledNow, ResetState, InterruptState, IdleStates
<1>7. QED
  BY <1>1, <1>3, <1>4, <1>5, <1>6, IdleTracks

LEMMA InitTracks == ASSUME BoardInit PROVE Tracks
<1>1. /\ ctl_state = "DISABLED"
      /\ reg_pc = 0 /\ reg_il = 0 /\ reg_cc = LT /\ reg_icc = LT
      /\ reg_general = [r \in GeneralId |-> 0]
      /\ reg_interrupt = FALSE /\ reg_interrupt_next = FALSE
      /\ last = ResetState /\ late = ram /\ cpu_ram = ram /\ stale = FALSE
  BY DEF BoardInit, CoreInit
<1>2. LastTyped
  BY <1>1, Sizes DEF LastTyped, LastType, ResetState, Address, Word
<1>3. ViewsAgree
  BY <1>1, ScenarioAssumption DEF BoardInit, ViewsAgree, Memory
<1>4. RegistersAgree
  BY <1>1 DEF RegistersAgree, EnabledNow, ResetState, InterruptState, IdleStates
<1>5. CodeFetched /\ OperandsFound /\ StoresProgress
  BY <1>1 DEF CodeFetched, OperandsFound, StoresProgress, DecodedStates, TargetStates,
              IndirectState, WordState, StoreStates
<1>6. QED
  BY <1>1, <1>2, <1>3, <1>4, <1>5 DEF Tracks, StaleIsIdle

\* The property of a step.
RunsStep ==
  /\ step_ended' = "execute" /\ ~astray /\ Comparable => Late!Execute \/ Early!Execute
  /\ step_ended' = "interrupt" /\ ~astray => Late!Interrupt \/ Early!Interrupt

LEMMA BoardStepRuns ==
  ASSUME BoardInv, BoardInv', RunInv, PortInv, ComputerWritesBetween, MemoryDividesWords,
         WordsHaveSign, [BoardNext]_vars
  PROVE  RunInv' /\ [RunsStep]_vars
<1>1. CASE CpuClock
  BY <1>1, ClockRuns DEF RunsStep
<1>2. CASE CpuReset \/ BoardReset
  <2>1. CoreReset /\ HistoryReset
    BY <1>2 DEF CpuReset, BoardReset
  <2>2. Tracks' /\ step_ended' = "none"
    BY <2>1, ResetTracks DEF HistoryReset
  <2>3. QED
    BY <2>2 DEF RunInv, RunsStep
<1>3. CASE UNCHANGED vars
  <2>1. UNCHANGED <<core_vars, late, cpu_ram, ram, stale, last, astray>>
    BY <1>3 DEF vars, memory_vars, history_vars
  <2>2. Tracks => Tracks'
    BY <2>1, UnchangedTracks
  <2>3. QED
    BY <1>3, <2>1, <2>2 DEF RunInv
<1>4. QED
  BY <1>1, <1>2, <1>3 DEF BoardNext

\* RunsLikeTheMachine for every program, every size of memory that divides the words,
\* every delay of the memory, any number of signals, resets and interrupts, and
\* whatever the computer asks for, as long as its writes end between instructions:
\* each instruction of the board does then what Execute does with the memory the
\* instruction has found, and the interrupt cycle what Interrupt does.
THEOREM BoardRunsLikeTheMachine ==
  ASSUME CoreAssumption, MemoryDividesWords, WordsHaveSign
  PROVE  BoardSpec /\ []ComputerWritesBetween => RunsLikeTheMachine
<1>1. BoardInit => RunInv
  BY InitTracks DEF RunInv
<1>2. /\ BoardInv /\ BoardInv' /\ PortInv /\ ComputerWritesBetween /\ RunInv
      /\ [BoardNext]_vars
      => RunInv' /\ [RunsStep]_vars
  BY BoardStepRuns
<1>3. BoardSpec => []BoardInv
  BY BoardInductive
<1>4. BoardSpec => []PortInv
  BY PortInductive
<1>5. RunsLikeTheMachine <=> [][RunsStep]_vars
  BY DEF RunsLikeTheMachine, RunsStep
<1>6. QED
  BY <1>1, <1>2, <1>3, <1>4, <1>5, PTL DEF BoardSpec
=============================================================================
