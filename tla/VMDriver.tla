------------------------------- MODULE VMDriver -------------------------------
(***************************************************************************)
(* The main loop of sicxe_vm (main_vm.cc) around the machine, and the      *)
(* SIGUSR1 handler that asks for an interrupt.  The handler may run        *)
(* between any two statements of the loop:                                 *)
(*                                                                         *)
(*   check    if (trigger_interrupt)                                       *)
(*   clear      trigger_interrupt = false;                                 *)
(*   call       machine.Interrupt();                                       *)
(*            else                                                         *)
(*   execute    result = machine.Execute();                                *)
(*                                                                         *)
(* The interrupted program is described by two history variables: frame    *)
(* is what the program had in its registers when its interrupt handler was *)
(* entered, and owed says that a signal came while interrupts were enabled *)
(* and that no handler has been entered, and no DINT executed, since.      *)
(***************************************************************************)
EXTENDS Machine

CONSTANT MaxSignals  \* bound on the SIGUSR1 signals of a behaviour

ASSUME MaxSignalsAssumption == MaxSignals \in Nat

VARIABLES loop,               \* statement the loop is about to execute, or "done"
          trigger_interrupt,  \* the flag that the signal handler sets
          exit_success,       \* exit status of the process, once done
          signals,            \* signals raised so far
          frame,              \* history: the registers of the interrupted program
          owed                \* history: a signal not served yet

driver_vars == <<loop, trigger_interrupt, exit_success, signals>>
history_vars == <<frame, owed>>
vm_vars == <<vars, driver_vars, history_vars>>

NoFrame == [in_handler |-> FALSE]

VMDevices ==
  [d \in DeviceIds |-> CASE d = 0 -> "input" [] d \in {1, 2} -> "output" [] OTHER -> "file"]

VMInit ==
  /\ InitWith(VMDevices)
  /\ loop = "check"
  /\ trigger_interrupt = FALSE
  /\ exit_success = FALSE
  /\ signals = 0
  /\ frame = NoFrame
  /\ owed = FALSE

UserState == [in_handler |-> TRUE, program_counter |-> program_counter,
              registers |-> registers, float_register |-> float_register,
              condition_code |-> condition_code]

\* SIGUSR1, between any two statements of the loop.
Usr1SignalHandler ==
  /\ loop # "done"
  /\ signals < MaxSignals
  /\ signals' = signals + 1
  /\ trigger_interrupt' = TRUE
  /\ owed' = (owed \/ interrupt_enabled)
  /\ UNCHANGED <<vars, loop, exit_success, frame>>

CheckTrigger ==
  /\ loop = "check"
  /\ loop' = IF trigger_interrupt THEN "clear" ELSE "execute"
  /\ UNCHANGED <<vars, trigger_interrupt, exit_success, signals, history_vars>>

ClearTrigger ==
  /\ loop = "clear"
  /\ loop' = "call"
  /\ trigger_interrupt' = FALSE
  /\ UNCHANGED <<vars, exit_success, signals, history_vars>>

CallInterrupt ==
  /\ loop = "call"
  /\ loop' = "check"
  /\ Interrupt
  /\ IF interrupt_enabled
     THEN frame' = UserState /\ owed' = FALSE
     ELSE UNCHANGED history_vars
  /\ UNCHANGED <<trigger_interrupt, exit_success, signals>>

Returns == Instance.format = "F1" /\ Is({"RINT"})

\* Mutant: every turn of the loop ends with the flag down.
CallExecuteThenClear ==
  /\ loop = "execute"
  /\ Execute
  /\ loop' = IF result' = "OK" THEN "check" ELSE "done"
  /\ exit_success' = (result' = "ENDLESS_LOOP")
  /\ trigger_interrupt' = FALSE
  /\ frame' = IF Returns THEN NoFrame ELSE frame
  /\ owed' = (owed /\ interrupt_enabled')
  /\ UNCHANGED signals

\* Any result but OK ends the loop; a jump to itself is how a program halts.
CallExecute ==
  /\ loop = "execute"
  /\ Execute
  /\ loop' = IF result' = "OK" THEN "check" ELSE "done"
  /\ exit_success' = (result' = "ENDLESS_LOOP")
  /\ frame' = IF Returns THEN NoFrame ELSE frame
  /\ owed' = (owed /\ interrupt_enabled')
  /\ UNCHANGED <<trigger_interrupt, signals>>

\* The process has ended.
Done == loop = "done" /\ UNCHANGED vm_vars

LoopStep == CheckTrigger \/ ClearTrigger \/ CallInterrupt \/ CallExecute

VMNext == LoopStep \/ Usr1SignalHandler \/ Done

\* The loop is a running thread; nothing makes a signal come.
VMSpec == VMInit /\ [][VMNext]_vm_vars /\ WF_vm_vars(LoopStep)

-----------------------------------------------------------------------------
VMTypeOK ==
  /\ TypeOK
  /\ loop \in {"check", "clear", "call", "execute", "done"}
  /\ trigger_interrupt \in BOOLEAN
  /\ exit_success \in BOOLEAN
  /\ signals \in 0 .. MaxSignals
  /\ owed \in BOOLEAN

\* An interrupt handler that saves what it uses and ends with EINT, RINT is
\* invisible to the program it interrupts: RINT gives back the program counter and
\* the condition code of the frame (InterruptReturn, Interrupt), with all registers.
\* It needs the delay of EINT: were interrupts on before RINT, a signal there would
\* overwrite the interrupt link.
HandlerIsInvisible ==
  [][frame.in_handler /\ ~frame'.in_handler
       => [in_handler |-> TRUE, program_counter |-> program_counter',
           registers |-> registers', float_register |-> float_register',
           condition_code |-> condition_code'] = frame]_vm_vars

\* A handler is never entered while another one runs: the single interrupt link
\* and saved condition code are never overwritten before RINT has used them.
HandlersDoNotNest ==
  [][interrupt_link' # interrupt_link \/ interrupt_condition_code' # interrupt_condition_code
       => ~frame.in_handler]_vm_vars

\* What the two ask of the handler's program.  Interrupts come on for its RINT and
\* not before: EINT is the instruction in front of it.
EnablesAtReturn == frame.in_handler /\ interrupt_enable_next => Returns

\* It gives the registers back as it found them.
RestoresRegisters ==
  frame.in_handler /\ Returns =>
    registers = frame.registers /\ float_register = frame.float_register

\* A signal that comes while interrupts are enabled is not lost in the race with
\* the loop, wherever it strikes: until the handler is entered or the program
\* disables interrupts itself, the flag is up or the loop is on its way to call
\* Interrupt, with interrupts enabled.
OwedSignalIsPending ==
  owed /\ loop # "done" =>
    /\ interrupt_enabled
    /\ trigger_interrupt \/ loop = "call"

\* The handler is entered before long, unless the program ends first.
OwedSignalIsServed == owed ~> ~owed \/ loop = "done"

=============================================================================
