------------------------------ MODULE MCMachine ------------------------------
(***************************************************************************)
(* Every instruction of the machine, in every addressing mode.             *)
(***************************************************************************)
EXTENDS Machine, MCPrograms, Bitwise

MCAnd(a, b) == a & b
MCOr(a, b)  == a | b
MCXor(a, b) == a ^^ b

MCImages == OneInstructionImages

MCFloats == {[k \in 0 .. 5 |-> IF k = 0 THEN 64 ELSE 7]}

=============================================================================
