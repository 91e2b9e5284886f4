----------------------------- MODULE Simulator ------------------------------
(***************************************************************************)
(* The interactive simulator: the breakpoint commands, start and step with *)
(* Ctrl+C at any point, and the commands that move the program counter.    *)
(* Of the machine only the program counter matters here: Execute takes it  *)
(* anywhere or fails and leaves it (StuckMachineStaysStuck of Machine).    *)
(***************************************************************************)
EXTENDS NumberedList

CONSTANTS AddressLimit,   \* one more than the largest address (2^20)
          TypedAddresses, \* addresses the user types: 24-bit words
          MaxCount,       \* bound: instructions of one step command
          MaxNumber       \* bound: numbers given before the list is printed

ASSUME SimulatorAssumption ==
  /\ AddressLimit \in Nat \ {0} /\ TypedAddresses \subseteq Nat
  /\ MaxCount \in Nat /\ MaxNumber \in Nat

VARIABLES
  program_counter,
  breakpoints_enable,
  breakpoints,                \* the list with its maps by number and by name
  breakpoint_address_map,     \* address to object
  breakpoint_last_hit_address,
  command,                    \* what runs: "none", "start" or "step"
  at,                         \* the next statement of it; "exited" after the process ended
  count,                      \* instructions a step command has left
  cancellable_action_active, cancellable_action_cancelled,
  \* history: an instruction was executed by this command; Ctrl+C was pressed
  \* while the action was active; the breakpoint the user was last told the
  \* machine stands at; the numbers last printed
  executed, requested, stopped_at, printed

list_vars == <<breakpoints, breakpoint_address_map, printed>>
signal_vars == <<cancellable_action_active, cancellable_action_cancelled, requested>>
run_vars == <<command, at, count, executed>>
vars == <<program_counter, breakpoints_enable, list_vars, breakpoint_last_hit_address,
          run_vars, signal_vars, stopped_at>>

Addresses == 0 .. AddressLimit - 1
NoAddress == AddressLimit  \* the code's 0xFFFFFF, which no program counter has

Prompt == command = "none" /\ at = "prompt"

Init ==
  /\ program_counter = 0
  /\ breakpoints_enable = FALSE
  /\ breakpoints = EmptyList
  /\ breakpoint_address_map = EmptyMap
  /\ breakpoint_last_hit_address = NoAddress
  /\ command = "none" /\ at = "prompt" /\ count = 0
  /\ cancellable_action_active = FALSE
  /\ cancellable_action_cancelled = FALSE
  /\ executed = FALSE /\ requested = FALSE
  /\ stopped_at = NoAddress /\ printed = EmptyMap

-----------------------------------------------------------------------------
(***************************************************************************)
(* Breakpoint commands.                                                    *)
(***************************************************************************)
CommandBreakpointOn ==
  /\ Prompt
  /\ breakpoints_enable' = TRUE
  /\ UNCHANGED <<program_counter, list_vars, breakpoint_last_hit_address, run_vars,
                 signal_vars, stopped_at>>

CommandBreakpointOff ==
  /\ Prompt
  /\ breakpoints_enable' = FALSE
  /\ UNCHANGED <<program_counter, list_vars, breakpoint_last_hit_address, run_vars,
                 signal_vars, stopped_at>>

CommandBreakpointClear ==
  /\ Prompt
  /\ breakpoints' = EmptyList
  /\ breakpoint_address_map' = EmptyMap
  /\ printed' = EmptyMap
  /\ stopped_at' = NoAddress
  /\ UNCHANGED <<program_counter, breakpoints_enable, breakpoint_last_hit_address, run_vars,
                 signal_vars>>

CommandBreakpointPrint ==
  /\ Prompt
  /\ breakpoints' = Renumber(breakpoints)
  /\ printed' = PrintedNumbers(breakpoints')
  /\ UNCHANGED <<program_counter, breakpoints_enable, breakpoint_address_map,
                 breakpoint_last_hit_address, run_vars, signal_vars, stopped_at>>

CommandBreakpointAdd(typed, name) ==
  LET address == typed % AddressLimit
  IN  /\ Prompt
      /\ breakpoints.next_number < MaxNumber /\ CanAllocate(breakpoints)
      /\ address \notin DOMAIN breakpoint_address_map
      /\ ~NameIsTaken(breakpoints, name)
      /\ breakpoints' = AddItem(breakpoints, address, name)
      /\ breakpoint_address_map'
           = MapInsert(breakpoint_address_map, address, NewPointer(breakpoints))
      /\ UNCHANGED <<program_counter, breakpoints_enable, breakpoint_last_hit_address,
                     run_vars, signal_vars, stopped_at, printed>>

\* The common end of remove; a removed object may be allocated again, so the
\* printed list no longer speaks of it.
RemoveBreakpoint(pointer) ==
  LET address == ItemAt(breakpoints, pointer).address
  IN  /\ Prompt
      /\ breakpoints' = RemoveItem(breakpoints, pointer)
      /\ breakpoint_address_map' = MapErase(breakpoint_address_map, address)
      /\ printed' = Restrict(printed, {n \in DOMAIN printed : printed[n] # pointer})
      /\ stopped_at' = IF stopped_at = address THEN NoAddress ELSE stopped_at
      /\ UNCHANGED <<program_counter, breakpoints_enable, breakpoint_last_hit_address,
                     run_vars, signal_vars>>

\* By number, by address (which is not trimmed here) or by name.
CommandBreakpointRemove ==
  \/ \E number \in DOMAIN breakpoints.number_map :
       RemoveBreakpoint(breakpoints.number_map[number])
  \/ \E typed \in TypedAddresses \cap DOMAIN breakpoint_address_map :
       RemoveBreakpoint(breakpoint_address_map[typed])
  \/ \E name \in DOMAIN breakpoints.name_map :
       RemoveBreakpoint(breakpoints.name_map[name])

-----------------------------------------------------------------------------
(***************************************************************************)
(* Commands that move the program counter.                                 *)
(***************************************************************************)
MoveTo(address) ==
  /\ Prompt
  /\ program_counter' = address
  /\ stopped_at' = NoAddress
  /\ UNCHANGED <<breakpoints_enable, list_vars, breakpoint_last_hit_address, run_vars,
                 signal_vars>>

CommandReset == MoveTo(0)

\* Mutant: the typed word is not trimmed.
CommandCpuSetUntrimmed == \E typed \in TypedAddresses : MoveTo(typed)

CommandCpuSet == \E typed \in TypedAddresses : MoveTo(typed % AddressLimit)

\* The entry point, or 0 when only the reset before loading was successful.
CommandLoad == \E entry_point \in Addresses : MoveTo(entry_point)

\* To the vector in memory; no effect while interrupts are disabled.
CommandInterrupt == \E vector \in Addresses : MoveTo(vector)

-----------------------------------------------------------------------------
(***************************************************************************)
(* start and step.                                                         *)
(***************************************************************************)
CommandStart ==
  /\ Prompt
  /\ command' = "start" /\ at' = "activate" /\ executed' = FALSE
  /\ UNCHANGED <<program_counter, breakpoints_enable, list_vars, breakpoint_last_hit_address,
                 count, signal_vars, stopped_at>>

CommandStep(instructions) ==
  /\ Prompt
  /\ command' = "step" /\ at' = "poll" /\ count' = instructions /\ executed' = FALSE
  /\ UNCHANGED <<program_counter, breakpoints_enable, list_vars, breakpoint_last_hit_address,
                 signal_vars, stopped_at>>

\* StartCancellableAction.
Activate ==
  /\ at = "activate"
  /\ cancellable_action_active' = TRUE
  /\ at' = "uncancel"
  /\ UNCHANGED <<program_counter, breakpoints_enable, list_vars, breakpoint_last_hit_address,
                 command, count, executed, cancellable_action_cancelled, requested, stopped_at>>

\* Mutant: a request of an earlier action is left.
UncancelNothing ==
  /\ at = "uncancel"
  /\ at' = "poll"
  /\ UNCHANGED <<program_counter, breakpoints_enable, list_vars, breakpoint_last_hit_address,
                 command, count, executed, signal_vars, stopped_at>>

Uncancel ==
  /\ at = "uncancel"
  /\ cancellable_action_cancelled' = FALSE
  /\ at' = "poll"
  /\ UNCHANGED <<program_counter, breakpoints_enable, list_vars, breakpoint_last_hit_address,
                 command, count, executed, cancellable_action_active, requested, stopped_at>>

\* Where a command goes when its loop ends.
AfterLoop == IF command = "start" THEN "end" ELSE "return"

\* The head of the loop: start polls for Ctrl+C, step counts.
LoopEnds == IF command = "start" THEN cancellable_action_cancelled ELSE count = 0

\* Mutant: start polls before its first instruction only.
PollOnce ==
  /\ at = "poll"
  /\ at' = IF LoopEnds /\ ~executed THEN AfterLoop ELSE "breakpoint"
  /\ UNCHANGED <<program_counter, breakpoints_enable, list_vars, breakpoint_last_hit_address,
                 command, count, executed, signal_vars, stopped_at>>

Poll ==
  /\ at = "poll"
  /\ at' = IF LoopEnds THEN AfterLoop ELSE "breakpoint"
  /\ UNCHANGED <<program_counter, breakpoints_enable, list_vars, breakpoint_last_hit_address,
                 command, count, executed, signal_vars, stopped_at>>

HitsBreakpoint ==
  /\ program_counter \in DOMAIN breakpoint_address_map
  /\ breakpoint_last_hit_address # program_counter

\* Mutant: the address of the last stop is kept.
PassKeepsHit ==
  /\ at = "breakpoint" /\ (breakpoints_enable => ~HitsBreakpoint)
  /\ at' = "execute"
  /\ UNCHANGED <<program_counter, breakpoints_enable, list_vars, breakpoint_last_hit_address,
                 command, count, executed, signal_vars, stopped_at>>

Pass ==
  /\ at = "breakpoint" /\ (breakpoints_enable => ~HitsBreakpoint)
  /\ breakpoint_last_hit_address'
       = IF breakpoints_enable THEN NoAddress ELSE breakpoint_last_hit_address
  /\ at' = "execute"
  /\ UNCHANGED <<program_counter, breakpoints_enable, list_vars, command, count, executed,
                 signal_vars, stopped_at>>

\* Mutant: the stop is not remembered.
HitForgets ==
  /\ at = "breakpoint" /\ breakpoints_enable /\ HitsBreakpoint
  /\ breakpoint_last_hit_address' = NoAddress
  /\ stopped_at' = program_counter
  /\ at' = AfterLoop
  /\ UNCHANGED <<program_counter, breakpoints_enable, list_vars, command, count, executed,
                 signal_vars>>

Hit ==
  /\ at = "breakpoint" /\ breakpoints_enable /\ HitsBreakpoint
  /\ breakpoint_last_hit_address' = program_counter
  /\ stopped_at' = program_counter
  /\ at' = AfterLoop
  /\ UNCHANGED <<program_counter, breakpoints_enable, list_vars, command, count, executed,
                 signal_vars>>

ExecuteInstruction ==
  /\ at = "execute"
  /\ stopped_at' = NoAddress
  /\ \/ /\ program_counter' \in Addresses
        /\ at' = "poll"
        /\ executed' = TRUE
        /\ count' = IF command = "step" THEN count - 1 ELSE count
     \/ /\ at' = AfterLoop  \* an error
        /\ UNCHANGED <<program_counter, executed, count>>
  /\ UNCHANGED <<breakpoints_enable, list_vars, breakpoint_last_hit_address, command,
                 signal_vars>>

\* EndCancellableAction.
Deactivate ==
  /\ at = "end"
  /\ cancellable_action_active' = FALSE /\ requested' = FALSE
  /\ at' = "return"
  /\ UNCHANGED <<program_counter, breakpoints_enable, list_vars, breakpoint_last_hit_address,
                 command, count, executed, cancellable_action_cancelled, stopped_at>>

\* The result is printed and the command interface asks for the next line.
Return ==
  /\ at = "return"
  /\ command' = "none" /\ at' = "prompt" /\ count' = 0 /\ executed' = FALSE
  /\ UNCHANGED <<program_counter, breakpoints_enable, list_vars, breakpoint_last_hit_address,
                 signal_vars, stopped_at>>

-----------------------------------------------------------------------------
\* SIGINT: cancels an active action and ends the process otherwise.
InterruptSignalHandler ==
  /\ at # "exited"
  /\ IF cancellable_action_active
     THEN /\ cancellable_action_cancelled' = TRUE
          /\ requested' = TRUE
          /\ UNCHANGED at
     ELSE /\ at' = "exited"
          /\ UNCHANGED <<cancellable_action_cancelled, requested>>
  /\ UNCHANGED <<program_counter, breakpoints_enable, list_vars, breakpoint_last_hit_address,
                 command, count, executed, cancellable_action_active, stopped_at>>

\* exit, quit and the end of the input.
Exit ==
  /\ Prompt
  /\ at' = "exited"
  /\ UNCHANGED <<program_counter, breakpoints_enable, list_vars, breakpoint_last_hit_address,
                 command, count, executed, signal_vars, stopped_at>>

UserCommand ==
  \/ CommandBreakpointOn \/ CommandBreakpointOff
  \/ CommandBreakpointClear \/ CommandBreakpointPrint
  \/ \E typed \in TypedAddresses, name \in Names \cup {NoName} :
       CommandBreakpointAdd(typed, name)
  \/ CommandBreakpointRemove
  \/ CommandReset \/ CommandCpuSet \/ CommandLoad \/ CommandInterrupt
  \/ CommandStart
  \/ \E instructions \in 0 .. MaxCount : CommandStep(instructions)
  \/ Exit

RunCommand ==
  Activate \/ Uncancel \/ Poll \/ Pass \/ Hit \/ ExecuteInstruction \/ Deactivate \/ Return

Next == UserCommand \/ RunCommand \/ InterruptSignalHandler

\* The thread that runs a command is never stopped for good; the user need not
\* type anything.
Spec == Init /\ [][Next]_vars /\ WF_vars(RunCommand)

-----------------------------------------------------------------------------
Statements ==
  {"prompt", "activate", "uncancel", "poll", "breakpoint", "execute", "end", "return", "exited"}

TypeOK ==
  /\ program_counter \in Addresses
  /\ breakpoints_enable \in BOOLEAN
  /\ breakpoints.next_number \in 0 .. MaxNumber
  /\ PointersOf(breakpoints) \subseteq Pointers
  /\ DOMAIN breakpoint_address_map \subseteq Addresses
  /\ breakpoint_last_hit_address \in Addresses \cup {NoAddress}
  /\ command \in {"none", "start", "step"} /\ at \in Statements
  /\ count \in 0 .. MaxCount
  /\ {cancellable_action_active, cancellable_action_cancelled, executed, requested} \subseteq BOOLEAN

\* The list and its three maps agree, after any sequence of add, remove, print
\* and clear: every breakpoint is found by its number, its address and its name,
\* and a map never holds an object that was freed.
BreakpointsAreConsistent ==
  /\ IsConsistent(breakpoints)
  /\ DOMAIN breakpoint_address_map = {item.address : item \in ToSet(breakpoints.items)}
  /\ \A address \in DOMAIN breakpoint_address_map :
       ItemAt(breakpoints, breakpoint_address_map[address]).address = address

\* A number the user has read in the printed list still names that breakpoint, or
\* none: breakpoints added or removed since do not take it over.
PrintedNumbersHold ==
  \A n \in DOMAIN printed : n \in DOMAIN breakpoints.number_map
                              /\ breakpoints.number_map[n] = printed[n]

AtBreakpoint == breakpoints_enable /\ program_counter \in DOMAIN breakpoint_address_map

\* Once a command has executed an instruction, it does not execute one at a
\* breakpoint: the exception for the breakpoint a run starts from lasts for the
\* first instruction only, also when the program comes back to it.
RunsStopAtBreakpoints == [][ExecuteInstruction /\ AtBreakpoint => ~executed]_vars

\* A command given at the breakpoint where the last one stopped does not stop
\* there again before it has tried to execute the instruction.
ContinuingMakesProgress == [][Hit => stopped_at # program_counter]_vars

\* start ends on a Ctrl+C only if it was pressed during this very command: one
\* that came too late for an earlier command does not end a later one.
CancelledOnlyOnRequest == [][Poll /\ command = "start" /\ at' = "end" => requested]_vars

\* A Ctrl+C that the running action has noticed ends it, whatever the program does.
RequestEndsStart ==
  (cancellable_action_cancelled /\ command = "start" /\ at \in {"poll", "breakpoint", "execute"})
    ~> (at \in {"prompt", "exited"})

\* What the help of start and step promises: the machine never executes the
\* instruction at an enabled breakpoint unless the user was told that it stands
\* at this breakpoint and has done nothing since but continue.
StopsAtEveryBreakpoint == [][ExecuteInstruction /\ AtBreakpoint => stopped_at = program_counter]_vars

=============================================================================
