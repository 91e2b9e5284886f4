--------------------------- MODULE MCInstructionDB ---------------------------
(***************************************************************************)
(* Two groups of four opcodes that share their upper six bits, and as many *)
(* mnemonics as lines of the instruction file.                             *)
(***************************************************************************)
EXTENDS InstructionDB

MCOpcodes   == {4, 5, 7, 8, 9, 11}
MCMnemonics == {"I", "J", "K"}

\* The group that holds the opcode equal to Format::FS34.
LowOpcodes == {0, 1, 2, 4}

=============================================================================
