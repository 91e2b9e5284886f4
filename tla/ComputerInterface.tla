--------------------------- MODULE ComputerInterface ---------------------------
(***************************************************************************)
(* The FPGA side of the serial link (computer_interface.vhd) with what its *)
(* control pulses and its memory port act on.  It is a Moore machine that  *)
(* runs about 4350 clock cycles per byte of the line, so a state that only *)
(* waits for the memory or for an idle transmitter (Working) is left       *)
(* before another byte can arrive.  The receiver holds no byte: one that   *)
(* arrives while the machine waits for its transmitter is lost.            *)
(*                                                                         *)
(* AddressSpace and CountSpace are the ranges of reg_address (2^20) and    *)
(* reg_count (2^16): registers of whole bytes, but for the upper part of   *)
(* the last, and no transfer laps the memory.                              *)
(***************************************************************************)
EXTENDS Integers, Sequences, Functions

CONSTANTS AddressSpace, CountSpace

ASSUME SpaceAssumption ==
  /\ AddressSpace \in 1..256 \cup {65536 * k : k \in 1..256}
  /\ CountSpace \in 1..256 \cup {256 * k : k \in 1..256}
  /\ CountSpace <= AddressSpace

VARIABLES to_device,    \* bytes on their way to the board, in order
          to_host,      \* bytes the board sent and the host has not read
          state,        \* of the machine
          reg_command, reg_address, reg_count, reg_data,
          out_data,     \* byte the transmitter is sending, or NoByte (out_ready)
          memory,       \* the board's RAM
          cpu_enable,   \* run_control's state
          accepted      \* history: commands accepted since the host began its call

channel_vars == <<to_device, to_host>>
reg_vars == <<reg_command, reg_address, reg_count, reg_data>>
device_vars == <<state, reg_vars, out_data, memory, cpu_enable, accepted>>

Byte == 0..255
NoByte == -1
Address == 0..AddressSpace - 1

KeyStates == <<"LOCKED", "KEY_GET1", "KEY_GET2", "KEY_GET3", "KEY_GET4">>
AckStates == <<"KEY_SEND1", "KEY_SEND2", "KEY_SEND3">>
AddressStates == <<"GET_ADDR0", "GET_ADDR1", "GET_ADDR2">>
CountStates == <<"GET_COUNT0", "GET_COUNT1">>
MemoryStates == {"WRITE_START", "WRITE_MEM", "READ_START", "READ_MEM"}
SendStates == Range(AckStates) \cup {"PROTO_ERROR", "COMMAND_ACCEPT", "READ_OUT"}
HeaderStates == Range(AddressStates) \cup Range(CountStates)
States == Range(KeyStates) \cup HeaderStates \cup SendStates \cup MemoryStates
            \cup {"UNLOCKED", "WRITE_IN"}

Key == <<83, 73, 67, 88, 69>>   \* "SICXE"
Ack == <<65, 67, 75>>           \* "ACK"
Okay == 75                      \* 'K', sent for an accepted command
Refused == 88                   \* 'X'

TestCommand == 0
ReadCommand == 1
WriteCommand == 2
ControlCommand(sig) == 16 + sig
ResetSignal == 0
StartSignal == 1
StopSignal == 2
InterruptSignal == 3
LockCommand == 255
KnownCommands == {TestCommand, ReadCommand, WriteCommand, LockCommand}
                   \cup {ControlCommand(sig) : sig \in 0..3}

DeviceTypeOK ==
  /\ to_device \in Seq(Byte) /\ to_host \in Seq(Byte)
  /\ state \in States
  /\ reg_command \in KnownCommands
  /\ reg_address \in Address
  /\ reg_count \in 0..CountSpace - 1
  /\ reg_data \in Byte
  /\ out_data \in Byte \cup {NoByte}
  /\ memory \in [Address -> Byte]
  /\ cpu_enable \in BOOLEAN
  /\ accepted \in Seq(KnownCommands)

\* States that the machine leaves within a few cycles.
Working == state \in MemoryStates \/ (state \in SendStates /\ out_data = NoByte)

\* Byte number i of a register is replaced by b.
SetByte(register, i, b) ==
  LET unit == <<1, 256, 65536>>[i + 1]
  IN  (register \div (256 * unit)) * 256 * unit + b * unit + (register % unit)

DeviceInit ==
  /\ to_device = <<>> /\ to_host = <<>>
  /\ state = "LOCKED"
  /\ reg_command = 0 /\ reg_address = 0 /\ reg_count = 0 /\ reg_data = 0
  /\ out_data = NoByte
  /\ memory = [a \in Address |-> 0]
  /\ cpu_enable = FALSE
  /\ accepted = <<>>

(***************************************************************************)
(* A byte arrives.                                                         *)
(***************************************************************************)
GetKey(b) ==
  /\ \E i \in DOMAIN KeyStates :
       /\ state = KeyStates[i]
       /\ state' = IF b # Key[i] THEN "PROTO_ERROR"
                   ELSE IF i < 5 THEN KeyStates[i + 1] ELSE AckStates[1]
  /\ UNCHANGED reg_vars

GetCommand(b) ==
  /\ state = "UNLOCKED"
  /\ IF b \in KnownCommands
     THEN state' = "COMMAND_ACCEPT" /\ reg_command' = b
     ELSE state' = "PROTO_ERROR" /\ UNCHANGED reg_command
  /\ UNCHANGED <<reg_address, reg_count, reg_data>>

GetAddress(b) ==
  /\ \E i \in 1..3 :
       /\ state = AddressStates[i]
       /\ state' = IF i < 3 THEN AddressStates[i + 1] ELSE CountStates[1]
       /\ reg_address' = SetByte(reg_address, i - 1, b) % AddressSpace
  /\ UNCHANGED <<reg_command, reg_count, reg_data>>

GetCount(b) ==
  /\ \E i \in 1..2 :
       /\ state = CountStates[i]
       /\ state' = IF i < 2 THEN CountStates[2]
                   ELSE IF reg_command = WriteCommand THEN "WRITE_START" ELSE "READ_START"
       /\ reg_count' = SetByte(reg_count, i - 1, b) % CountSpace
  /\ UNCHANGED <<reg_command, reg_address, reg_data>>

WriteIn(b) ==
  /\ state = "WRITE_IN"
  /\ state' = "WRITE_MEM"
  /\ reg_data' = b
  /\ UNCHANGED <<reg_command, reg_address, reg_count>>

\* A byte that arrives while the machine waits for its transmitter.
LoseByte ==
  /\ state \in SendStates
  /\ UNCHANGED <<state, reg_vars>>

Receive ==
  /\ ~Working
  /\ to_device # <<>>
  /\ to_device' = Tail(to_device)
  /\ LET b == Head(to_device)
     IN  GetKey(b) \/ GetCommand(b) \/ GetAddress(b) \/ GetCount(b) \/ WriteIn(b) \/ LoseByte
  /\ UNCHANGED <<to_host, out_data, memory, cpu_enable, accepted>>

(***************************************************************************)
(* Steps that wait for the transmitter.                                    *)
(***************************************************************************)
Send(b) == out_data = NoByte /\ out_data' = b

SendError ==
  /\ state = "PROTO_ERROR"
  /\ Send(Refused)
  /\ state' = "LOCKED"
  /\ UNCHANGED <<channel_vars, reg_vars, memory, cpu_enable, accepted>>

SendKey ==
  /\ \E i \in 1..3 :
       /\ state = AckStates[i]
       /\ Send(Ack[i])
       /\ state' = IF i < 3 THEN AckStates[i + 1] ELSE "UNLOCKED"
  /\ UNCHANGED <<channel_vars, reg_vars, memory, cpu_enable, accepted>>

\* run_control: stop over start; the other pulses leave it alone.
RunControl ==
  cpu_enable' = CASE reg_command = ControlCommand(StopSignal) -> FALSE
                  [] reg_command = ControlCommand(StartSignal) -> TRUE
                  [] OTHER -> cpu_enable

\* Mutant: the lock command is only acknowledged.
AcceptCommandNeverLocks ==
  /\ state = "COMMAND_ACCEPT"
  /\ Send(Okay)
  /\ state' = IF reg_command \in {ReadCommand, WriteCommand} THEN AddressStates[1] ELSE "UNLOCKED"
  /\ RunControl
  /\ accepted' = Append(accepted, reg_command)
  /\ UNCHANGED <<channel_vars, reg_vars, memory>>

\* The reply and the control pulse leave together.
AcceptCommand ==
  /\ state = "COMMAND_ACCEPT"
  /\ Send(Okay)
  /\ state' = CASE reg_command = LockCommand -> "LOCKED"
                [] reg_command \in {ReadCommand, WriteCommand} -> AddressStates[1]
                [] OTHER -> "UNLOCKED"
  /\ RunControl
  /\ accepted' = Append(accepted, reg_command)
  /\ UNCHANGED <<channel_vars, reg_vars, memory>>

\* Mutant: the address register grows without bound.
NextMemoryByteUnwrapped ==
  /\ reg_address' = reg_address + 1
  /\ reg_count' = (reg_count - 1) % CountSpace

\* Mutant: the address is not incremented.
NextMemoryByteStuck ==
  /\ reg_count' = (reg_count - 1) % CountSpace
  /\ UNCHANGED reg_address

NextMemoryByte ==
  /\ reg_address' = (reg_address + 1) % AddressSpace
  /\ reg_count' = (reg_count - 1) % CountSpace

ReadOut ==
  /\ state = "READ_OUT"
  /\ Send(reg_data)
  /\ state' = "READ_START"
  /\ NextMemoryByte
  /\ UNCHANGED <<channel_vars, reg_command, reg_data, memory, cpu_enable, accepted>>

\* The transmitter has shifted its byte out.
OutDone ==
  /\ out_data # NoByte
  /\ out_data' = NoByte
  /\ to_host' = Append(to_host, out_data)
  /\ UNCHANGED <<to_device, state, reg_vars, memory, cpu_enable, accepted>>

(***************************************************************************)
(* Steps that wait for the memory.                                         *)
(***************************************************************************)
StartTransfer ==
  /\ \/ state = "WRITE_START" /\ state' = IF reg_count = 0 THEN "UNLOCKED" ELSE "WRITE_IN"
     \/ state = "READ_START" /\ state' = IF reg_count = 0 THEN "UNLOCKED" ELSE "READ_MEM"
  /\ UNCHANGED <<channel_vars, reg_vars, out_data, memory, cpu_enable, accepted>>

WriteMem ==
  /\ state = "WRITE_MEM"
  /\ state' = "WRITE_START"
  /\ memory' = [memory EXCEPT ![reg_address] = reg_data]
  /\ NextMemoryByte
  /\ UNCHANGED <<channel_vars, reg_command, reg_data, out_data, cpu_enable, accepted>>

ReadMem ==
  /\ state = "READ_MEM"
  /\ state' = "READ_OUT"
  /\ reg_data' = memory[reg_address]
  /\ UNCHANGED <<channel_vars, reg_command, reg_address, reg_count, out_data, memory,
                 cpu_enable, accepted>>

\* The board's reset button: every register, but not the RAM.
BoardReset ==
  /\ state' = "LOCKED"
  /\ reg_command' = 0 /\ reg_address' = 0 /\ reg_count' = 0 /\ reg_data' = 0
  /\ out_data' = NoByte
  /\ cpu_enable' = FALSE
  /\ UNCHANGED <<channel_vars, memory, accepted>>

DeviceStep == \/ Receive \/ SendError \/ SendKey \/ AcceptCommand \/ ReadOut \/ OutDone
              \/ StartTransfer \/ WriteMem \/ ReadMem
=============================================================================
