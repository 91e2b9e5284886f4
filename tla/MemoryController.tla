-------------------------- MODULE MemoryController --------------------------
(***************************************************************************)
(* The controller of the board's RAM (memory_controller.vhd), which serves *)
(* one access at a time to two ports: 1, the computer interface, and 2,    *)
(* the CPU.  A step is a clock cycle.  What a port asks for is an input,   *)
(* since the ports belong to other parts of the board; a port is told that *)
(* its access is done, and not which access that was.                      *)
(*                                                                         *)
(* data_select follows mem_state in every cycle that matters (DataIn), and *)
(* the RAM chip takes a written byte in the last cycle of the access.      *)
(***************************************************************************)
EXTENDS MemoryPort

CONSTANT DelayLimit  \* cycles of an access after its first (delay_counter, 3)

ASSUME DelayAssumption == DelayLimit \in Nat

VARIABLES mem_state,
          mem_address, mem_data,  \* of the access under way
          delay_counter,
          ram

memory_vars == <<mem_state, mem_address, mem_data, delay_counter, ram>>

Port == {1, 2}
ReadState == <<"READ1", "READ2">>
WriteState == <<"WRITE1", "WRITE2">>
MemoryState == {"READY", "READ1", "WRITE1", "READ2", "WRITE2"}

MemoryTypeOK ==
  /\ mem_state \in MemoryState
  /\ mem_address \in Address
  /\ mem_data \in Byte
  /\ delay_counter \in 0 .. DelayLimit
  /\ ram \in [Address -> Byte]

MemoryReset ==
  /\ mem_state' = "READY"
  /\ mem_address' = 0 /\ mem_data' = 0
  /\ delay_counter' = 0

-----------------------------------------------------------------------------
\* Outputs of the cycle.
Serving(p) == mem_state \in {ReadState[p], WriteState[p]}

\* Mutant: both ports see the end of every access.
DoneToBoth(p) == mem_state # "READY" /\ delay_counter = DelayLimit

Done(p) == Serving(p) /\ delay_counter = DelayLimit
DataIn(p) == IF mem_state = ReadState[p] THEN ram[mem_address] ELSE 0

\* Port 1 goes first.
Grant(request, p) ==
  /\ mem_state = "READY"
  /\ request[p] # NoRequest
  /\ p = 2 => request[1] = NoRequest
  /\ mem_state' = IF request[p].kind = "read" THEN ReadState[p] ELSE WriteState[p]
  /\ mem_address' = request[p].address
  /\ mem_data' = request[p].data
  /\ delay_counter' = 0
  /\ UNCHANGED ram

StayReady(request) ==
  /\ mem_state = "READY"
  /\ \A p \in Port : request[p] = NoRequest
  /\ delay_counter' = 0
  /\ UNCHANGED <<mem_state, mem_address, mem_data, ram>>

Delay ==
  /\ mem_state # "READY"
  /\ delay_counter # DelayLimit
  /\ delay_counter' = delay_counter + 1
  /\ UNCHANGED <<mem_state, mem_address, mem_data, ram>>

Written == [ram EXCEPT ![mem_address] = mem_data]
IsWriting == \E p \in Port : mem_state = WriteState[p]

FinishAccess ==
  /\ mem_state # "READY"
  /\ delay_counter = DelayLimit
  /\ mem_state' = "READY"
  /\ delay_counter' = 0
  /\ ram' = IF IsWriting THEN Written ELSE ram
  /\ UNCHANGED <<mem_address, mem_data>>

MemoryClock(request) ==
  \/ \E p \in Port : Grant(request, p)
  \/ StayReady(request)
  \/ Delay
  \/ FinishAccess

MemoryInit == mem_state = "READY" /\ mem_address = 0 /\ mem_data = 0 /\ delay_counter = 0

\* The board's reset cuts an access off; whether the chip has taken the byte by
\* then is open.
MemoryClockReset ==
  /\ MemoryReset
  /\ \/ UNCHANGED ram
     \/ IsWriting /\ ram' = Written

=============================================================================
