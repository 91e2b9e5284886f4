--------------------------- MODULE MCFpgaConnection ---------------------------
(* The utility commands that the run gives: a control signal, a read that wraps
   around the address space and returns what may be taken for a reply, and a load
   of two text sections, the second of them too long. *)
EXTENDS FpgaConnection

ShortCommands ==
  {<<Control(StartSignal)>>,
   <<ReadCall(3, 2)>>,
   Load(<<[address |-> 3, data |-> <<7, 75>>], [address |-> 1, data |-> <<1, 2, 3, 4>>]>>)}

ASSUME ShortWritesAssumption == ShortWrites
=============================================================================
