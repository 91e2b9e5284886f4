------------------------------- MODULE Board -------------------------------
(***************************************************************************)
(* The board (top_module.vhd): the CPU and the computer interface on the   *)
(* two ports of the memory controller, the run control and the interrupt   *)
(* control.  Everything is clocked together, so a step of the board is a   *)
(* step of all of them, with the signals that come from outside: the       *)
(* control signals the computer interface raises for a cycle, the run      *)
(* button, the events and the input port of the devices.                   *)
(*                                                                         *)
(* The computer interface is modelled with its serial line in              *)
(* ComputerInterface; here it is its memory port, which holds a request    *)
(* until it is done.                                                       *)
(*                                                                         *)
(* stale, astray, last, late, early, cpu_ram and step_ended are history    *)
(* variables, which no part of the board reads; they are what the          *)
(* properties need to speak of whole instructions.                         *)
(***************************************************************************)
EXTENDS Core, MemoryController, FiniteSets

CONSTANTS Scenarios,  \* what the board starts with, see ScenarioAssumption
          InputPort,  \* port numbers that can be read
          OutputPort, \* port numbers that can be written
          InputBytes  \* what an input port may hold

\* The control signals of the computer and what else may come; "board" is the
\* reset of the whole board.
Signals == {"reset", "start", "stop", "toggle", "event", "board"}

\* A scenario: the memory, the signals that may come and how many of them, and
\* what the computer may ask of the memory and how often.
ASSUME ScenarioAssumption ==
  \A s \in Scenarios :
    /\ s.image \in [Address -> Byte]
    /\ s.signals \subseteq Signals
    /\ s.pulses \in Nat
    /\ s.requests \subseteq Request
    /\ s.accesses \in Nat

ASSUME PortAssumption ==
  InputPort \subseteq Byte /\ OutputPort \subseteq Byte /\ InputBytes \subseteq Byte

VARIABLES cpu_enable,        \* run_control's state
          interrupt,         \* interrupt_control's
          computer_request,  \* on port 1
          scenario,
          pulses, accesses,  \* bounds: how many have come
          stale,       \* the access under way was asked for before a CPU reset
          astray,      \* the CPU has taken the answer to such an access for its own
          last,        \* the state the last instruction has led to
          late, early, \* memory for an instruction if the computer comes after, before it
          cpu_ram,     \* late, with what the instruction has stored so far
          step_ended   \* what the last cycle finished

history_vars == <<stale, astray, last, late, early, cpu_ram, step_ended>>
bound_vars == <<scenario, pulses, accesses>>
vars == <<core_vars, memory_vars, cpu_enable, interrupt, computer_request, bound_vars,
          history_vars>>

-----------------------------------------------------------------------------
(***************************************************************************)
(* The state at the end of an instruction, as the virtual machine has it.  *)
(***************************************************************************)
ResetState ==
  [pc |-> 0, general |-> [r \in GeneralId |-> 0], cc |-> LT, il |-> 0, icc |-> LT,
   enabled |-> FALSE, enable_next |-> FALSE, target |-> 0, result |-> "OK"]

BoardTypeOK ==
  /\ CoreTypeOK
  /\ MemoryTypeOK
  /\ cpu_enable \in BOOLEAN
  /\ interrupt \in BOOLEAN
  /\ computer_request \in Request \cup {NoRequest}
  /\ scenario \in Scenarios
  /\ pulses \in 0 .. scenario.pulses
  /\ accesses \in 0 .. scenario.accesses
  /\ stale \in BOOLEAN /\ astray \in BOOLEAN

BoardInit ==
  /\ CoreInit
  /\ scenario \in Scenarios
  /\ MemoryInit
  /\ ram = scenario.image
  /\ cpu_enable = FALSE
  /\ interrupt = FALSE
  /\ computer_request = NoRequest
  /\ pulses = 0 /\ accesses = 0
  /\ stale = FALSE /\ astray = FALSE
  /\ last = ResetState
  /\ late = ram /\ early = ram /\ cpu_ram = ram
  /\ step_ended = "none"

-----------------------------------------------------------------------------
(***************************************************************************)
(* The parts.                                                              *)
(***************************************************************************)
RunControl(signals) ==
  cpu_enable' = IF "stop" \in signals THEN FALSE
                ELSE IF "start" \in signals THEN TRUE
                ELSE IF "toggle" \in signals THEN ~cpu_enable
                ELSE cpu_enable

RunControlReset == cpu_enable' = FALSE

\* Mutant: an event is kept only while nothing is acknowledged or pending, and
\* forgotten in the next cycle.
InterruptControlPulse(signals) ==
  interrupt' = ("event" \in signals /\ reg_interrupt /\ ~InterruptAcknowledge)

\* An event is remembered until it is acknowledged or interrupts are disabled.
InterruptControl(signals) ==
  interrupt' = IF ~reg_interrupt \/ InterruptAcknowledge THEN FALSE
               ELSE interrupt \/ "event" \in signals

InterruptControlReset == interrupt' = FALSE

\* The computer interface keeps its lines up until it is told that it is done.
ComputerPort ==
  IF Done(1)
  THEN computer_request' = NoRequest /\ UNCHANGED accesses
  ELSE \/ UNCHANGED <<computer_request, accesses>>
       \/ /\ computer_request = NoRequest
          /\ accesses < scenario.accesses
          /\ computer_request' \in scenario.requests
          /\ accesses' = accesses + 1

ComputerPortReset == computer_request' = NoRequest

PortRequests == <<computer_request, CoreRequest>>

PortIn(byte) == IF reg_target % ByteSize \in InputPort THEN byte ELSE 0

-----------------------------------------------------------------------------
(***************************************************************************)
(* History.  What the computer writes between instructions is in both      *)
(* views of the memory; what it writes during one is only in early, unless *)
(* the instruction has ended.                                              *)
(***************************************************************************)
IdleStates == {"DISABLED", "ERROR", "INSN0", "INT0"}

WriteEnds(p) == mem_state = WriteState[p] /\ Done(p)

Ended ==
  IF ctl_state \in IdleStates \/ ctl_state' \notin IdleStates THEN "none"
  ELSE IF ctl_state = "INT5" THEN "interrupt"
  ELSE "execute"

Views ==
  /\ step_ended' = Ended
  /\ cpu_ram' = IF ctl_state \in IdleStates THEN ram'
                ELSE IF WriteEnds(2) THEN [cpu_ram EXCEPT ![mem_address] = mem_data]
                ELSE cpu_ram
  /\ late' = IF ctl_state \in IdleStates THEN ram'
             ELSE IF ctl_state' \in IdleStates THEN cpu_ram'
             ELSE late
  /\ early' = IF ctl_state \in IdleStates \/ ctl_state' \in IdleStates THEN ram'
              ELSE IF WriteEnds(1) THEN [early EXCEPT ![mem_address] = mem_data]
              ELSE early

FailedState ==
  [last EXCEPT !.enabled = reg_interrupt', !.enable_next = FALSE,
               !.result = IF ctl_state = "DECODE0" THEN "INVALID_OPCODE"
                          ELSE "INVALID_ADDRESSING"]

EndedState ==
  [pc |-> reg_pc', general |-> reg_general', cc |-> reg_cc', il |-> reg_il',
   icc |-> reg_icc', enabled |-> reg_interrupt',
   enable_next |-> ctl_state = "DECODE0" /\ Insn = "EINT",
   target |-> IF ctl_state = "F34_DECODE1" THEN reg_target' ELSE last.target,
   result |-> "OK"]

\* The target address is complete when it has been decoded or read.
LastState ==
  last' =
    CASE Ended = "none" /\ ctl_state \in {"F34_DECODE1", "F34_INDIRECT2"} ->
           [last EXCEPT !.target = reg_target']
      [] Ended # "none" /\ ctl_state' = "ERROR" -> FailedState
      [] Ended # "none" /\ ctl_state' # "ERROR" -> EndedState
      [] OTHER -> last

StaleAnswer ==
  /\ stale' = (stale /\ mem_state' # "READY")
  /\ astray' = (astray \/ (stale /\ Done(2) /\ IsRequesting))

\* After a reset: no instruction is under way, and what the memory holds is what
\* the next one finds.
HistoryReset ==
  /\ last' = ResetState
  /\ late' = ram' /\ early' = ram' /\ cpu_ram' = ram'
  /\ step_ended' = "none"
  /\ astray' = FALSE

-----------------------------------------------------------------------------
CoreInputs ==
  { [done |-> Done(2), data |-> DataIn(2), enable |-> cpu_enable, interrupt |-> interrupt,
     port |-> PortIn(byte)] : byte \in InputBytes }

\* What the parts do in every cycle but for the CPU, which may be reset.
Others(signals) ==
  /\ \E requests \in {PortRequests} : MemoryClock(requests)
  /\ ComputerPort
  /\ RunControl(signals)
  /\ InterruptControl(signals)
  /\ pulses + Cardinality(signals) <= scenario.pulses
  /\ pulses' = pulses + Cardinality(signals)
  /\ UNCHANGED scenario

CpuClock ==
  \E signals \in SUBSET (scenario.signals \ {"reset", "board"}), in \in CoreInputs :
    /\ CoreClock(in)
    /\ Others(signals)
    /\ Views
    /\ LastState
    /\ StaleAnswer

\* The control signal resets the CPU alone: the memory controller goes on with
\* the access that it has begun or begins in this cycle.
CpuReset ==
  \E signals \in SUBSET (scenario.signals \ {"board"}) :
    /\ "reset" \in signals
    /\ CoreReset
    /\ Others(signals)
    /\ HistoryReset
    /\ stale' = (mem_state' \in {"READ2", "WRITE2"})

\* The reset of the board spares the contents of the memory only.
BoardReset ==
  /\ "board" \in scenario.signals
  /\ pulses < scenario.pulses
  /\ pulses' = pulses + 1
  /\ CoreReset
  /\ MemoryClockReset
  /\ RunControlReset
  /\ InterruptControlReset
  /\ ComputerPortReset
  /\ HistoryReset
  /\ stale' = FALSE
  /\ UNCHANGED <<scenario, accesses>>

BoardNext == CpuClock \/ CpuReset \/ BoardReset

\* The clock does not stop.
BoardSpec == BoardInit /\ [][BoardNext]_vars /\ WF_vars(CpuClock)

-----------------------------------------------------------------------------
(***************************************************************************)
(* The virtual machine on the state the instructions have led to, with the *)
(* two views of the memory.                                                *)
(***************************************************************************)
ConditionName == <<"LESS", "EQUAL", "GREATER">>

PortDevices ==
  [d \in InputPort \cup OutputPort |-> IF d \in InputPort THEN "input" ELSE "output"]

Late == INSTANCE Machine WITH
  program_counter <- last.pc, registers <- last.general,
  float_register <- [k \in 0 .. 5 |-> 0],
  condition_code <- ConditionName[last.cc + 1],
  interrupt_enabled <- last.enabled, interrupt_link <- last.il,
  interrupt_condition_code <- ConditionName[last.icc + 1],
  target_address <- last.target, interrupt_enable_next <- last.enable_next,
  memory <- late, devices <- PortDevices, result <- last.result,
  Images <- {}, DeviceIds <- InputPort \cup OutputPort, FloatResults <- {}, FixResults <- {}

Early == INSTANCE Machine WITH
  program_counter <- last.pc, registers <- last.general,
  float_register <- [k \in 0 .. 5 |-> 0],
  condition_code <- ConditionName[last.cc + 1],
  interrupt_enabled <- last.enabled, interrupt_link <- last.il,
  interrupt_condition_code <- ConditionName[last.icc + 1],
  target_address <- last.target, interrupt_enable_next <- last.enable_next,
  memory <- early, devices <- PortDevices, result <- last.result,
  Images <- {}, DeviceIds <- InputPort \cup OutputPort, FloatResults <- {}, FixResults <- {}

\* Where the board and the machine are meant to differ, or do: instructions the
\* board has not got; STIL and STSW; operand bits of a SIC instruction taken for
\* flags; RSUB with an addressing mode; jumps with an immediate operand or to
\* themselves; products of more than 24 bits; LDCH of more than a byte; ports that
\* the machine has no device for, or one for the other direction.
Fits(product) == product \in -(WordSize \div 2) .. WordSize \div 2 - 1

Comparable ==
  /\ Late!Instance # NoInstruction => Late!Is(LongMnemonic \cup ShortMnemonic)
  /\ Insn \notin {"STIL", "STSW"}
  /\ Insn \in ShortMnemonic /\ IsSic => ~FlagB /\ ~FlagP /\ ~FlagE
  /\ Insn = "RSUB" => IsSimple /\ ~FlagX /\ ~FlagB /\ ~FlagP /\ ~FlagE
  /\ ctl_state = "F34_DECODE2" =>
       /\ Insn \in {"J", "JSUB", "JLT", "JEQ", "JGT"} => ~IsImmediate
       /\ Insn \in {"J", "JSUB"} => TrimAddress(reg_target) # last.pc
  /\ ctl_state = "F2_DECODE1" /\ Insn = "MULR" /\ ValidRegisters =>
       Fits(SignExtendWord(Operand1) * SignExtendWord(reg_general[InsnR2]))
  /\ ctl_state = "F34W_DECODE3" /\ Insn = "MUL" =>
       Fits(SignExtendWord(reg_general[REG_A]) * SignExtendWord(reg_target))
  /\ ctl_state = "F34B_DECODE3" =>
       CASE Insn = "LDCH" -> reg_target \in Byte
         [] Insn = "TD"   -> reg_target % ByteSize \in InputPort \cup OutputPort
         [] Insn = "RD"   -> reg_target % ByteSize \in InputPort
         [] Insn = "WD"   -> reg_target % ByteSize \in OutputPort \ InputPort

\* The board executes its instructions as the virtual machine does: every one
\* leaves the registers, the condition code, the interrupt state and the memory
\* as Execute would, also when the computer reads and writes memory in the
\* middle of it, with one access that counts as before or as after the whole
\* instruction; and an interrupt cycle does what Interrupt does.
RunsLikeTheMachine ==
  [][/\ step_ended' = "execute" /\ ~astray /\ Comparable => Late!Execute \/ Early!Execute
     /\ step_ended' = "interrupt" /\ ~astray => Late!Interrupt \/ Early!Interrupt]_vars

\* The controller tells a port that its access is done, not which access that
\* was, and the ports share it: what it has done is what the port asks for, with
\* the address and the data of the request, unless the CPU has been reset since.
Access ==
  IF IsWriting THEN WriteRequest(mem_address, mem_data) ELSE ReadRequest(mem_address)

AnswersFit ==
  /\ Done(1) => Access = computer_request
  /\ Done(2) /\ ~stale => Access = CoreRequest

\* A CPU that is stopped comes to rest, whatever it executes and whatever the
\* computer and the devices do meanwhile.
StopIsObeyed == ~cpu_enable ~> (ctl_state \in {"DISABLED", "ERROR"} \/ cpu_enable)

\* In a program whose instructions look at interrupts, as any but EINT and DINT do
\* at their end, an event that interrupt_control has noted is served, unless
\* interrupts are disabled or the CPU is stopped before.
EventIsServed ==
  interrupt ~> (InterruptAcknowledge \/ ~reg_interrupt \/ ~cpu_enable \/ ctl_state = "ERROR")

\* Whatever happened before, the first byte of an instruction is the one memory
\* holds at the program counter.
FetchIsOfMemory ==
  [][ctl_state = "INSN0" /\ ctl_state' = "DECODE0" => reg_instruction'[0] = ram[reg_pc]]_vars

=============================================================================
