# sicxe: models, checks and proofs

This directory holds TLA+ models of the sicxe tool chain (the SIC/XE virtual
machine, linker, assembler and simulator, and the utility that drives the FPGA
board), the TLC configurations that check them on small instances, and theorems
about them checked by TLAPS.  Paths below are relative to the repository.

## 1. The system

| component | source | state | operations | speaks to |
|---|---|---|---|---|
| virtual machine | `src/machine/`, `src/common/cpu_state.cc` | registers, condition code, memory, interrupt enable / pending enable / link, devices | `Execute`, `Interrupt`, `Reset`, `SetDevice` | devices; called by the driver and the simulator |
| `sicxe_vm` | `src/main_vm.cc` | `trigger_interrupt` (written by a signal handler), interrupt mode | the main loop, SIGUSR1 | machine |
| instruction database | `src/common/instruction_db.cc` | instructions by mnemonic and opcode, mask of 6-bit opcodes taken | `Register`, `IsOpcodeAvailable`, `Clear` | machine, assembler, disassembler |
| assembler: parser | `src/assembler/parser.cc`, `node.cc`, `directive.cc` | the tokens left of the line; whether START and END were seen | `ParseFile`, one method per kind of line | the two passes, through a list of nodes |
| assembler: passes | `src/assembler/`, `src/main_asm.cc` | symbol, block and literal tables; per pass the block, address and base register | two passes over the parsed lines, object file writer | linker, through object files |
| linker | `src/linker/`, `src/main_ld.cc` | per run: placement, symbol table, relocation tables, output; between runs: files | `LinkFiles` in normal, partial and compatibility mode | object files |
| simulator | `src/simulator/` | machine, breakpoints, watches, devices, address of the last stop | interactive commands, `start` and `step` loops | machine, command interface |
| command interface | `src/common/command_interface.cc` | two flags shared with the SIGINT handler, command tree | tokenise, resolve abbreviations, run a command | simulator, FPGA utility |
| FPGA utility | `src/fpga/`, `src/main_fpga.cc` | descriptor, `LOCKED`/`UNLOCKED` | unlock, control signal, memory read and write, load, close | board, over RS-232 |
| board: computer interface | `vhdl/computer_interface.vhd`, `rs232_*.vhd`, `run_control.vhd` | state of a byte-level protocol, address, count | answers bytes | host, memory controller, CPU controls |
| board: memory controller | `vhdl/memory_controller.vhd` | the access under way, a delay counter, the RAM chip | grants one of two ports, ends an access with a done pulse | computer interface (port 1), CPU (port 2) |
| board: CPU | `vhdl/sicxe_core.vhd` | control state, registers, the instruction under way, interrupt enable | one control state per clock cycle | memory controller, device ports, interrupt control |
| board: top module | `vhdl/top_module.vhd`, `run_control.vhd`, `interrupt_control.vhd` | run enable, the pending event | start, stop, step, interrupt and reset pulses; the wiring | all of the board |
| board: devices | `vhdl/device_subsystem.vhd`, `vga.vhd`, `ps2.vhd`, ... | ports, screen, keyboard shift registers | ports read and written by the CPU | CPU |

What is hard in it:

* asynchronous events: SIGUSR1 in the middle of the VM loop, SIGINT in the middle
  of a simulator run, the reset button in the middle of a serial transfer;
* a request-reply protocol over a byte stream without sequence numbers, with a
  timeout, one retry, and buffered data that is never acknowledged;
* state that outlives the command that made it: the address of the last
  breakpoint stop, the interrupt link, the numbers that `breakpoint print` gave;
* programs that go through several tools: what one linker run writes is the
  input of another, and the second pass of the assembler must come to the
  addresses of the first;
* hardware parts that run at once: two users of one memory, pulses that come at any
  clock of an instruction, and a reset that reaches one part and not the other;
* arithmetic at the ends of ranges: addresses are trimmed to 20 bits, words to
  24, fields of a relocation to some half-bytes.

Section 7 lists what is not modelled; `PROJECT.json` lists every component and
every hazard with the line where it bites and the properties that cover it.

## 2. The modules

```
Words --> InstructionSet --> Machine --> VMDriver                (MCMachine, MCVMDriver)
  |             |   \           |                      \-> MachineProofs
  |             |    \-> InstructionDB --> InstructionDBProofs   (MCInstructionDB)
  \-> MemoryPort --> MemoryController --\
                \--> Core ---------------> Board --> BoardProofs   (MCBoard)
                          Machine (two instances) --^
ObjectFile --> Linker                                            (MCLinker)
NumberedList --> Simulator --> SimulatorProofs                   (MCSimulator)
ComputerInterface --> FpgaConnection --> FpgaConnectionProofs    (MCFpgaConnection, MCFpgaConnectionBacklog)
Expressions --> Lines --> Parser ----------------> Assembler     (MCAssembler)
                     \--> TableBuilder --> CodeGenerator --^
InstructionSet --^  (both)   ObjectFile --^   Linker (instance) --^
Assembler --> AssemblerInvariant --> AssemblerLemmas --> AssemblerProofs
```

**Words** has the arithmetic of `machine.cc` and `cpu_state.cc` on bytes, words
and addresses: trimming, sign extension, and memory as a function on addresses
read and written cell by cell.  Sizes are constants, so that TLC can take a small
memory and TLAPS any.

**InstructionSet** is the encoding: `Decode` of the bytes at an address into an
instance of an instruction (`format_util.cc`, `instruction_db_default.cc`) and its
inverse `Encode`.

**Machine** has one action per instruction or group of instructions that the code
executes in one function of `src/machine/logic/`; `Execute` decodes, advances the
program counter, computes the target address and runs one of them, or ends with
one of the results of `ExecuteResult`.  `Interrupt`, `Reset` and `SetDevice` are
the machine's other entry points.  The results of float instructions and the bytes
that devices deliver are nondeterministic; a division by zero, which the host
traps, has a result `CRASHED` of its own.

**VMDriver** is `main_vm.cc`: the loop's statements are the values of `loop`, the
flag is read and cleared in different steps, and `Usr1SignalHandler` may come
between any two.  It records as history which frame was interrupted and whether a
signal is owed to the program.

**InstructionDB** registers the lines of an instruction file in any order.

**ObjectFile** and **Linker**: an object file is a record of start address, size,
entry point, text sections, exports, imports and relocations.  `LinkFiles` is a
pure function of the input files, the mode and the start address, built from the
functions of `linker.cc` in their order; the specification is a build directory
in which `sicld` is run on files of the directory, outputs included.  Every file
carries as history the modules it stands for and where each was placed, with which
the properties compute what the bytes of a correct program would be.

**NumberedList** is the list of breakpoints or watches with the maps by number and
by name that point into it; objects are pointers that can be freed.
**Simulator** has the commands on it, and `start` and `step` statement by statement
(`at`), with the SIGINT handler between any two.

**ComputerInterface** is the board: the protocol's states with their registers, the
RAM, and the two directions of the serial line as queues of bytes.
**FpgaConnection** is `sicfpga` on the other end: every call of the connection
class step by step, `load` as the sequence of calls it makes, timeouts, Ctrl+C,
and several runs of the program on the same board.  `Open` has no guard but that the last run has
ended: the flush drops what has arrived, and what the board sends later is read as replies.
`HangUp` kills the line for the session that has it open; every `write` and `read` then fails.
`disturbed` notes how a session has begun and what happened to it.

**Expressions** is `expression_util.cc` over the symbol table: a token list is a sum of
terms, and `Solve` gives its value, whether it moves with the program, and the
symbols it leaves to the linker.  **Lines** has the nodes of a program, a record for
each class of `node.cc`.  **Parser** is `parser.cc` from the tokens of a file to its
nodes.  A method of the parser that takes tokens off a list and may fail is an operator
that maps the tokens to the set of what may come of them, which is empty when the text
is in error and has one element otherwise; so a chain of early returns is a
conjunction, and a caller that goes on only after success picks from the set.  The
tokens are those of the tokenizer, with two facts about their columns that the parser
looks at.  **TableBuilder** is the first pass: the nodes
that the parser has left are in `nodes`, `position` is the iterator over them,
and `VisitNode` is one action per kind of node with everything its visit
changes: symbols, literals, blocks, the current address, and the lines that
LTORG and END insert into the list under the iterator.  A node in error ends the assembly
(`Reject`).  `FinishTables` is what `BuildTables` does after the loop.
**CodeGenerator** is the second pass over the same `nodes`, with the address counters
of its own, the choice of addressing, and the object file writer.
**Assembler** puts them together, with an instance of Linker and the decoder of
InstructionSet, to say what the output has to mean.  Its history variable `meant` is
the program that a text was written for, where there is one.  `Names` is what the
tokenizer takes for a name; the texts of a run are made of such tokens
(`TextsAssumption`, which TLC evaluates).  The sort of the segments' begins and ends is
written as a rank (`Rank`, the number of marks that come before one), which says what
`std::sort` does with pairs without saying how.

**MemoryPort** is what one of the two users may ask of the memory;
**MemoryController** serves them, a step a clock cycle; **Core** is the CPU, an action per
control state of `sicxe_core.vhd` (their names are kept); **Board** is the top module:
in a step all parts take one cycle together (`CpuClock`), or the CPU alone is reset
while the others go on (`CpuReset`), or all are (`BoardReset`).  Cycles of the CPU in which it
neither uses the memory nor looks at an input are taken together with a neighbour
(computing a target address with its indexing, an operation with the writing
of its result), since nothing outside can tell them apart.  The serial protocol of the
computer interface is in ComputerInterface; on the board it is its memory port, which
asks for any access of the scenario and holds the request until it is done.
Two instances of Machine, `Late` and `Early`, read the state that the last
instruction has left (`last`) as a state of the virtual machine: one with the memory
as if the computer's accesses had come after the instruction, one as if before.
`stale` and `astray` say that an access asked for before a CPU reset is under way, and that its
answer was taken.  All of these, with `cpu_ram` and `step_ended`, are history variables:
no action of the board depends on them.

**MCPrograms** are the one-instruction programs that both MCMachine and MCBoard run.

**MachineProofs** (with VMDriver), **InstructionDBProofs**, **SimulatorProofs**,
**FpgaConnectionProofs**, **BoardProofs** and **AssemblerProofs** hold the theorems, each about the
module it is named after.  **AssemblerInvariant** has the inductive invariant of the
assembler, **AssemblerLemmas** what its operators and each line of the first pass
do, and **WordsProofs** the lemmas on words that the machine and the board share.

## 3. What the runs check

| run | what is in it | what it shows |
|---|---|---|
| `machine` | every mnemonic in 17 addressing modes, with displacements that reach a table of operands, the instruction itself, the last cell and a device; 32 cells of memory | `TypeOK`; `StuckMachineStaysStuck`: a failed instruction fails again in the same way; `EndlessLoopIsExact`: the endless loop stop is a jump to itself and nothing else; `StoredWordReadsBack`, also around the end of memory |
| `vm_driver` | a counting program and one that copies for ever, an interrupt handler that uses registers and condition code, two signals at any point | `HandlerIsInvisible`, `HandlersDoNotNest`, `OwedSignalIsPending`, `OwedSignalIsServed`, `HaltsWithSuccess` (the program that counts ends only with the right count) |
| `instruction_db` | two groups of opcodes with the same upper six bits, three lines in any order, files loaded after `Clear` | `NothingIsHidden`: every registered instruction is what the decoder finds; `RefusedOnlyOnConflict` |
| `instruction_db_low` | the opcodes 0 to 4 | `NothingIsHidden` is violated (finding 1) |
| `fpga_link` | two runs of `sicfpga`, the second begun at any time, also while the board still sends; two commands, a reset of the board, a hang-up of the line in the first run | `SuccessMeansAccepted`, for sessions that find the board at rest; `AcceptedExactlyOnce`, `MemoryIsAsWritten`, `ReadReturnsMemory`; `CallsReturn`, but for a read from a dead line; `QuitLocks` |
| `fpga_backlog` | more data than the line carries within the timeout | `SignalIsTriggered` is violated (finding 2) |
| `linker` | sets of three modules, linked in any order and mode at two addresses, outputs linked again | `LinkedProgramMeans`: all fields and bytes of an output are what its modules call for; `OutputsAreValidInputs` |
| `simulator` | two breakpoints at two addresses, one name, steps of up to two instructions | `BreakpointsAreConsistent`, `PrintedNumbersHold`, `RunsStopAtBreakpoints`, `ContinuingMakesProgress`, `CancelledOnlyOnRequest`, `RequestEndsStart` |
| `simulator_stale` | the same | `StopsAtEveryBreakpoint` is violated (finding 3) |
| `assembler` | programs of START, up to four lines and END from sets of layout lines (labels, literals, LTORG, USE, ORG, EQU, RESW, constants, EXTDEF, EXTREF), and single instructions or constants with 16 expressions, every addressing and base, at the distances where one addressing stops reaching; lines of 25 kinds with one token inserted, replaced or left out, files of up to four lines in any order, and lines that the options change | `LinesSayWhatIsWritten`: a program's text is parsed into the program, and what is accepted of other texts has every token of its line in the node and nothing else; `PassesAgree`: the second pass reaches every label and literal at the address of the first; `LinesAreDisjoint`; `OutputLinks`: `sicld` takes the output and leaves it as it is; `ProgramMeans`: linked at 0, 4096 and the end of memory, every instruction decodes to what its line says and addresses its operand's value there, every constant and literal has its value; `DefinitionsStand`: a defined symbol keeps what it stands for |
| `board` | the one-instruction programs of `machine`; a loop with an interrupt handler under up to three pulses of start, stop, run button and event; a copying loop with one read or write of the computer, with stops, with resets of the CPU and of the board | `AnswersFit`: a done pulse answers the request of the port that sees it; `RunsLikeTheMachine`: an instruction does what `Execute` does, with the computer's access as before or after it, and an interrupt cycle what `Interrupt` does; `StopIsObeyed`, `EventIsServed` |
| `board_reset` | the same | `FetchIsOfMemory` is violated (finding 4) |

Why the bounds are enough:

* *Machine.*  The boundaries that matter are the last cell of memory, an address with
  more bits than the memory has, and the sign of displacements and words; bytes
  and displacements keep their real sizes and every boundary is within reach of
  one instruction after the prologue.  Longer runs would only repeat: all state is in the
  registers and cells that the prologue and the table fill.
* *VM driver.*  Two signals are the fewest for nesting and for merging; the handler
  and the loop have every statement order between them.
* *Link.*  One command that fails and one after it, in two sessions, is what a
  late answer needs to meet a later command.  A hang-up in the first session (`HangUpSessions`)
  has the second meet whatever it leaves behind; one in the second would only repeat it.
  The address space of 4 makes reads and
  writes wrap.  `TimeoutBytes` and `TtyBuffer` are small enough for the transfers of
  each run to meet or exceed them.
* *Linker.*  Three modules give every order of definition and use, partial links
  of partial links, and a symbol that is known in one link and not in another; 24
  addresses hold all three at the second start address with not one to spare.
* *Simulator.*  Two breakpoints are the fewest for which removing, renumbering and
  merging in the maps differ; the third typed address is one of the others with a
  bit that is trimmed.
* *Assembler.*  All orders of four layout lines have a symbol or literal before and
  after a change of block or address and back; the start address is not 0, so
  that an address relative to a block is never one relative to memory by chance.
  The sizes of the second family are the real ones (4096, 2048, 32768, 2^20), each
  reached from both sides.  A text section has five bytes instead of 30
  (`MaxTextSectionSize`), so that a field meets the end of one after a single constant;
  `IntegerLimit` is 2^24 instead of 2^31, which TLC could not multiply.
  `MaxBlocks` is 4095, the most with which the code's sums of block sizes, which it takes as
  `uint32`, stay exact; no text of the run has nearly as many.
  An edit of one token is what a branch of the parser that takes a token too many or too
  few would be shown by; every method of it has a line of its own among the 25, and
  every guard a token among the 18 that it refuses.  Operand programs start at 100 with
  every base and at 0 without one.
  Of the programs about three in five are assembled; the others end in an error, most of them for a
  duplicate symbol, an operand out of reach, or blocks that overlap with an ORG.

* *Board.*  An access takes `DelayLimit` + 1 = 2 cycles instead of 4, so that a pulse or the
  other port's request can come before, in and after its last cycle; more cycles in the
  middle add no case, and the theorems hold for any number.  One access of the computer in a behaviour meets every
  cycle of every instruction of the loop; two would meet the same cycles, since an access leaves
  nothing in the controller.  Three pulses are a start, a disturbance and a way back.  The
  32 cells of memory are those of `machine`.

Every property has a mutant in `PROJECT.json`: a definition of the model changed in
the way a plausible bug would change the code (they stand next to the original, named
after it), with which TLC finds the property violated.

## 4. Fairness

* `VMDriver`: weak fairness of the loop's steps.  The loop is the main thread of
  a process; nothing in it blocks.  Signals are never assumed to come.
* `Simulator`: weak fairness of the running command, for the same reason; the user
  need not type, and need not press Ctrl+C.
* `FpgaConnection`: weak fairness of the host between the start and the end of a
  call, and of the board, which has a clock.  A poll expires only when nothing
  more will arrive or when more bytes than the line carries in 100 ms were queued.  On a line
  that is hung up a `poll` returns at once and the `read` after it gives nothing: a step that ends the
  wait, except in `ReadMemory`, where nothing can be done (`CallsReturn` names it).
  Neither the user's commands nor Ctrl+C nor a hang-up nor the reset button is assumed to occur.
* `Board`: weak fairness of `CpuClock`: the clock does not stop.  Pulses and accesses are never
  assumed to come, and the resets have no fairness.
* `Machine`, `InstructionDB`, `Linker`, `Assembler` have no liveness properties and no fairness.

## 5. What is proved

All for every value of the constants that the named assumptions of the modules
admit (sizes are positive and large enough for the fields of an instruction).

`MachineProofs`.

* `TypeCorrect`: `TypeOK` is inductive.  The proof follows the code: a lemma for
  every helper on words and memory, for every outcome an instruction can have
  (`SetRegister`, `JumpTo`, `Fail`, ...), for every group of instructions, and for the
  other entry points.  It is split in `CoreOK` and `HiddenOK`, since
  an instruction changes only few of the hidden variables.
* `LoopCheckExact` (`EndlessLoopIsExact`): from `TypeOK` and `AddressShift`, that
  two addresses which agree after the same shift modulo the address space agree; needs
  that no other instruction ends with `ENDLESS_LOOP` (`OnlyJump`).
* `StuckStays` (`StuckMachineStaysStuck`): the property speaks of two
  calls of `Execute`, so the invariant `ReasonHolds` keeps what the first has found: after a failure
  the program counter still points to an instruction that must fail in
  this way (`ReasonForces`).
* `StoresReadBack` (`StoredWordReadsBack`): the three cells of a word differ
  (`CellsDiffer`, for three or more addresses) and the bytes of a word make up the word
  (`BytesOfWord`).

The bitwise operators are constants; the theorems assume of them that they map words
to words (`BitwiseOnWords`).  TLC gets the real ones.

`MachineProofs` on VMDriver.  `VMTypeCorrect` lifts the typing of the machine to the loop: every step of
the driver is one call of the machine or leaves it alone (`VMStepIsCall`).
`NoSignalIsLost` (`OwedSignalIsPending`): the property is inductive together with the typing of
the flag; the step that matters is the one between the test of the flag and its clearing.
`HandlersRunAlone` and `HandlerInvisible` state `HandlersDoNotNest` and `HandlerIsInvisible` for every program
whose handler keeps two rules, which are hypotheses on its behaviour and the least they need: interrupts come
on for the RINT of the handler and not before (`EnablesAtReturn`, what `EINT` in front of it does),
and the registers are as the handler found them when it executes RINT (`RestoresRegisters`).
The programs of `vm_driver` keep both.  What the machine contributes is
`FrameInv`: while a handler runs interrupts are off, and the interrupt link and the saved condition code
are those of the interrupted program; it rests on the delay of `EINT` and on `Execute` never writing the
two (`ExecuteKeepsLink`).

`InstructionDBProofs`.  `MaskInv` says that short instructions are aligned and that the mask
holds only groups of registered instructions; it carries
`NeverRefusedWithoutConflict`.  `DBInv` adds that every registered instruction but one at opcode 2
has marked its group and that a short one has its four opcodes to itself; it is
inductive only if a file does not use both of the opcodes 0 and 2 (`OpcodesMark`, the exception
is finding 1), and carries `NeverHidden`.

`SimulatorProofs`.  `ListInv` is the representation invariant of the
numbered list: every pointer in the list is of a live object, numbers and names find
exactly the objects that have them, numbers are below the next number.  A lemma for each operation
(`AddKeepsList`, `RemoveKeepsList`, `RenumberKeepsList`) shows that it is kept, for lists of
any length.  `ListsInv` says it of the breakpoints, with the map by address, and of what
`breakpoint print` has shown; from it `BreakpointsStayConsistent` and
`PrintedNumbersStay`.  `RunInv`, that the program counter is an
address, that a run which has executed an instruction under enabled breakpoints has
forgotten the last stop (`ForgottenInRun`), that after a stop the address is the
remembered one (`RememberedAtStop`), and that the cancellation flag stands for a
request (`FlagIsRequest`), carries `NoBreakpointIsPassed`, `NoStopIsRepeated` and
`NoStaleCancellation`; none is inductive without it, since what `Pass` may ignore depends on a
variable set in an earlier command.  `SimulatorTypeCorrect` needs both, and `ControlInv`,
which ties the step count to the statement that is next.

`BoardProofs`.  `PortInv` says for each port what the controller is doing for it: an access under
way is the one that the port still asks for, unless it is the CPU's and `stale`.  Neither the controller's grant
nor the CPU's waiting alone keeps it; each lemma (`ComputerStep`, `CpuStep`) takes one port
through a cycle of both.  From it `EveryAnswerFits` (`AnswersFit`), and with `InstructionInv` (the
fetched bytes stay while the instruction lasts) `FetchesAreOfMemory`, which is
`FetchIsOfMemory` with the exception that `board_reset` shows to be needed.  All for any
`DelayLimit`, memory, program and number of pulses.

`FpgaConnectionProofs`.  `LinkTypeCorrect` (`LinkTypeOK`) holds of any commands and any hang-ups.  The other four,
`SuccessMeansAcceptedCorrect`, `AcceptedExactlyOnceCorrect`, `MemoryIsAsWrittenCorrect` and
`ReadReturnsMemoryCorrect`, state the property of their name under the hypothesis `ShortWrites`: each
write with its header and command arrives within the 100 ms of a poll (1150 bytes; a text
section of an object file has at most 31), or is refused for its size.  Without it
they are false: that is finding 2.  They hold for any number of sessions, commands,
resets and hang-ups, any memory and data, and registers of any width of whole bytes (`SpaceAssumption`).
A session may begin at any time, but of one that begins before the board has come to rest only the
typing is proved: `SuccessMeansAccepted` and the others leave it out (`disturbed = "early"`),
since they are false of it (section 6).

The invariant `LinkInv` says what each end knows of the other.  `Agreed` has a part for each place
where sicfpga may be.  Between calls the board is `Settled`: either it listens, or
it is still taking in the last write (`Absorbing`), and then the bytes on the line are just the rest of
that write, and the memory *once they are written* (`MemoryAfter`) is what the host believes
it wrote.  So it speaks of a memory that exists nowhere yet; this is how the unacknowledged data of one call is
carried through the command of the next until the board answers that.  In a call the
board has not taken the command, or has taken it and its one reply is on its way, or refuses it while
locked (`Refusing`), and then the key (`KeyOnLine`) and the acknowledgement (`Acking`) are
accounted for byte by byte.  In a read, the bytes received, on the line and in the
transmitter are together a prefix of the memory's (`SendingData`).  A poll never expires in any of these,
but where the board has nothing to say.  `Finding` is for a session that meets the board in the middle
of the key or of a write: until its test call has ended, the board says nothing but
`'X'`, so that the call fails and cannot succeed by mistake.  A lemma for each step of the
board says how each of these forms goes over into the next (`AbsorbingStep`, `AckingStep`,
`SendingDataStep`, ...), and one for each step of the host joins them (`SendCommandByteStep`, ...).
The arithmetic is in `OffsetStep` and `NextRemainder`, that an address which wraps stays
in step with the bytes still to come, and in `FirstAddressByte` to `SecondCountByte`, that a register which
has taken some bytes of its header will have the header's value.

`BoardProofs` has the typing of the whole board as well (`BoardTypeCorrect`: `BoardTypeOK`).  That of
the CPU alone is not inductive: `F2Result` and `Alu` have a value only for the instructions that
their control states are made for, and nothing in those states looks at the opcode again.
`InsnInv` says which instructions each state can have, and `CoreInv` joins it to the types; one
lemma for each state (`FetchKeeps`, `Decode0Keeps`, ...) carries it through a cycle with any
input.  So the `case` statements of `sicxe_core.vhd` never meet an opcode that an
earlier state should have sent elsewhere.  Assumed (`CoreAssumption`): the bitwise operators map
words to words, and a status word of five bits fits in a word.  `BoardTypeCorrect` then needs
that each part keeps to what the others assume of it: `CoreRequestType` for the
controller, `InputsTyped` for the CPU.  `BoardInductive` states all of it as one invariant.
`WordsProofs` has the lemmas on bytes, words, memory and division that the proofs of the machine and
of the board share; `ByteReplaced`, that a word with one byte replaced is a word, is what loading
byte by byte rests on.

`BoardProofs` on the instruction set.  `BoardRunsLikeTheMachine` (`RunsLikeTheMachine`): two descriptions of the same
instruction set, the clock by clock control machine of `sicxe_core.vhd` and the virtual machine of
`machine.cc` and `execution.cc`, agree on every instruction that both have (`Comparable`).  Neither
can be mapped on the other step by step: the board takes tens of clocks for an
instruction and loads and stores byte by byte, and the machine is run again from the state at its beginning.
The invariant is `Tracks`.  It says at every control state what has been done so far of the
instruction that the machine would execute: which of its bytes are fetched and decoded, how much of
the target address is formed, which bytes of the operand are loaded or stored, and that the
registers are still those of its beginning or already those of its end.  One lemma for
each state carries it through a clock, whatever the controller, the computer and the signals do, and
one for each group of instructions compares the results when the state is reached that ends it
(`Format1Runs`, `Format2Runs`, `AddressingRuns`, `JumpsRun`, `StoresRun`, `WordOperandsRun`,
`ByteOperandsRun`, `InterruptRuns`).  The arithmetic is where the two differ in
form: the board extends and cuts bit vectors where the C++ keeps integers (`SignedSums`, `ResizedProduct`),
and puts words together from bytes (`WholeWords`, `BytesStored`).  Its hypotheses:

* `ComputerWritesBetween`: the computer's writes end between instructions.  A write that ends within
  one comes before some of the bytes it reads and after others; with several of them there need be no
  single place in the order where the machine could see them (and for one write, whether `Early` or
  `Late` fits depends on which byte it meets), so that part of the property stays with the run `board`.  Reads by
  the computer may come at any time.
* `MemoryDividesWords`, that the address space divides the space of words, and `WordsHaveSign`, that words can be
  halved into two signs: 2^20, 2^24 and the sizes of the runs satisfy both.
* `CoreAssumption`, as above.  A CPU that was reset during an access (`astray`) is left out: that is finding 4.

`AssemblerProofs`.  Three properties of the two passes, for every text, with any number of lines,
symbols, literals and segments, up to `MaxBlocks` blocks, and every size of the address space:

* `PassesMeet` (`PassesAgree`): the second pass comes to every label and literal at the address that
  the first has given it.
* `LinesKeptApart` (`LinesAreDisjoint`): no two lines of an assembled program share an address, and all
  are inside the program.
* `DefinitionsKept` (`DefinitionsStand`): what is defined stays what it is.

A fourth is about the arithmetic.  `block_table.cc` adds the sizes of the blocks up in `uint32`, and checks
only the last sum against the end of memory; the model adds numbers.  `BlockSumsFit` shows that the
sums are below `(MaxBlocks + 1) * AddressSize`, which is 2^32 for the 4095 blocks that `BlocksAssumption`
allows and addresses of 20 bits, so that the two are the same; with 4096 blocks of 2^20 bytes they are not, the
wrapped sum would pass the check, and lines would lie outside the program.  It rests on an invariant of its own
(`BlocksFit`): no block is larger than the address space, and there are no more than `MaxBlocks`.
Addresses within a block are compared with the end of memory line by line.

The passes share no counter: the first has a block and an address relative to it and notes the size
of a block when it leaves it; the second has absolute addresses and notes where each block goes on;
and between them the blocks are moved and lines were inserted.  Neither state determines the
other, so the invariant `IInv` compares both with a third thing that no variable holds, a *walk*:
for every line a block, an address in it, and the sizes that the blocks had when they were left
(`Spot`, `After`).  `FirstPass(walk)` says that the first pass is on it, with every symbol where the walk
places it (`SymbolsPlaced`), `IsSettled(walk)` what the tables are once the blocks have their places,
and `IsRunning(walk)` that the second pass is on the same one: its address is `AddressOf` the spot, and
where each block goes on is what the sizes of the spot say (`BlocksGoOn`).  The walk of the next
state is the one before with the spots of the lines just visited; for LTORG and END those are
as many as the pool has literals, inserted behind or in place of the line the pass is at.

That lines do not meet is carried by `Laid` in the first pass.  Lines of one block follow each
other since the sizes of a walk only rise (`LevelsGrow`).  Those between ORG and USE are each in a
segment, those closed or the one that is open, and two of them are in order or in different
segments (`Parted`).  `FinishLaid` puts this together when the blocks are placed: they
lie one behind the other (`StartsGrow`), all in the last segment, and two segments have no address
in common.  The last fact is `SegmentsApart`, about the sweep of `CheckIntersect`: it counts
the segments that are open at each mark, and has only two numbers and a flag to remember.
`SweepFinds` shows that if any two segments overlap, then from the mark at which the second of them opens, the
flag is set or the start of an intersection is noted at or before that mark, until it is set; among
any number of other segments that open and close, some of them empty (`IsSwept`).
`IsRunning` carries the result to the addresses that are listed.

The folds and sums of the model (`FoldLeft`, `SumFunction`, `FlattenSeq`) are defined by recursion
over sets, of which the prover has no induction; here they are shown to be iterations over subsets (the
induction is over a set of naturals, lemma `Naturals`), with which `SumNext`, `FromLeftType` and
the like speak of a sum or a fold of any length.

Hypotheses: `TextsAssumption`, that the tokens of a text have the types the tokenizer gives them; and
`LiteralNamesDiffer`, that the names which `"*%d"` makes of the numbers of literals differ from each other
and from every name the tokenizer accepts, which begins with a letter or an underscore.  (The prover
knows nothing of the characters of a string; TLC evaluates it for the first numbers, `MCLiteralNames`.)

Only model-checked:

* liveness (`OwedSignalIsServed`, `HaltsWithSuccess`, `CallsReturn`, `QuitLocks`, `RequestEndsStart`,
  `StopIsObeyed`, `EventIsServed`), which is beyond TLAPS;
* `RunsLikeTheMachine` where the computer writes while an instruction runs;
* of the assembler, `LinesSayWhatIsWritten`, `OutputLinks` and `ProgramMeans`: each compares two recursive
  functions over the tokens or the output (what was parsed with what is written, what was encoded with
  what is decoded after linking), which needs an induction for each pair of functions;
* of the linker, `TypeOK`, `LinkedProgramMeans` and `OutputsAreValidInputs`, for the same reason: what an
  output stands for is a sum over all records that were ever applied to a field, through links of links.

## 6. Where code and documents disagree

1. `instruction_db.cc:45` compares the opcode, not the format, with `Format::FS34`: an
   8-bit instruction at opcode 2 does not block the short instruction at opcode 0, which the
   decoder then never finds.
2. `connection.cc:67` takes the next byte for the answer to its command; after a
   timeout the late answers are taken for those of later commands, and
   `ControlSignal` returns true for a signal that the board has not triggered.
3. `simulator_step.cc:59`: the address of the last stop outlives the stop; after a `reset`,
   `load` or `cpu set` the next run passes an enabled breakpoint at that address.
4. `top_module.vhd:238` resets the core alone on the computer's reset signal.  The memory
   controller finishes the access that the CPU had begun, and its done pulse ends the
   first fetch after the reset: the CPU may start with a byte that is not at address 0.

Observed while modelling, without a document that says otherwise:

* The board's CPU is not quite the virtual machine.  `Comparable` in Board names the differences,
  which `RunsLikeTheMachine` leaves out: a product keeps its sign and low 23 bits; the status word
  has another format; the flags b, p and e of a SIC instruction are used; a jump may be
  immediate; `LDCH` immediate takes the whole operand; `TD` is always ready, and `RD` and `WD` reach
  the ports, among them ones for which the machine has no device or one for the other direction; a jump to itself does not stop;
  `STIL` stores `reg_memory_data`, which nothing has loaded from the link register.
* `sicfpga` flushes the line once when it starts, and does not wait for the board.  One that is killed in
  a long read (65535 bytes take about 5.7 s) and started again at once takes a byte `K` among the data for the
  reply to its test command.  `SuccessMeansAccepted` leaves these sessions out (`disturbed = "early"`).
* `connection.cc:170` adds what `read` returns to the count of bytes without a look.  On a line that is hung up,
  where `poll` returns at once, `ReadMemory` adds 0 (or -1) for ever; the other calls look at the
  result and fail.  `CallsReturn` names it as its exception (`ReadingNothing`).
* A board that an earlier session left waiting for the header of a read takes the next session's test command and
  unlock key for that header, and answers with bytes of its memory.  Are these the bytes
  `ACKK`, sicfpga takes the link to be unlocked and its test command accepted.
  `SuccessMeansAccepted` leaves these sessions out (`disturbed = "reading"`).
* The parser forgets the `+` of `+RSUB` (it returns before `set_extended`), and accepts an immediate
  operand for a jump, which the machine refuses; `ProgramMeans` speaks only of
  instructions that the machine executes (`IsExecuted`).
* `node.cc` constructs `DirectiveNobase` with the kind of `DirectiveBase`; no cast in the
  program tells them apart, so that nothing follows today.
* A literal that no addressing reaches and that was given as data makes the error path read the first
  token of an empty list (`Refuse` has the crash as an outcome).

## 7. What is not modelled

* Texts: the assembler's tokenizer, the syntax of object and
  instruction files, listings, messages, program options.  They are functions of characters and keep no state that
  outlives a call.
* The values of float arithmetic (host `double`), the contents of device files.
* Simulator commands that print or change one register or cell of the machine.
* Texts with 4096 blocks or more (`MaxBlocks`), where the sums of block sizes may wrap; empty lines after END,
  which both passes only walk over, are left out of the nodes.
* A `read` or `poll` of `sicfpga` that fails on a line that is not hung up.
* The board's VGA, seven-segment, PS/2 and GPIO devices: what the CPU reads from a port is any byte.
* The bus signals of the RAM chip, the serial bits, and the clocks of the board.
* The command interface's abbreviations and argument types, and the watchlist's commands (the
  watchlist has the structure of NumberedList).

## 8. What could follow

1. The command interface: abbreviations (`prefix_tree.cc`) and argument types.
2. The serial protocol of ComputerInterface on the board's port 1, with the CPU running.
3. Theorems: the linker's output is typed, with the iterations that AssemblerLemmas has for folds;
   then that the object file writer's sections are in order and within the program, which with
   `LinesKeptApart` is most of `OutputLinks`.
