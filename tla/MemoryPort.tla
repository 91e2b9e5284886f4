----------------------------- MODULE MemoryPort -----------------------------
(***************************************************************************)
(* What is asked of the board's memory controller on one of its ports: the *)
(* read and write lines with the address and the data that go with them    *)
(* (dev1_* and dev2_* of memory_controller.vhd).                           *)
(***************************************************************************)
EXTENDS Words

NoRequest          == [kind |-> "none", address |-> 0, data |-> 0]
ReadRequest(a)     == [kind |-> "read", address |-> a, data |-> 0]
WriteRequest(a, d) == [kind |-> "write", address |-> a, data |-> d]

Request ==
  {ReadRequest(a) : a \in Address} \cup {WriteRequest(a, d) : a \in Address, d \in Byte}

=============================================================================
