----------------------------- MODULE MCPrograms -----------------------------
(***************************************************************************)
(* Programs of one instruction, for the machine and for the board: every   *)
(* instruction, in every addressing mode, after a short prologue that      *)
(* fills the registers.  An image is                                       *)
(*     0  LDX #3    3  LDB #9    6  LDA #5    9  the instruction           *)
(* in a memory of 32 cells whose other cells hold bytes that decode to     *)
(* nothing, but for a small table of operands and the interrupt vector.    *)
(***************************************************************************)
EXTENDS InstructionSet

Prologue == <<\h05, 0, 3, \h69, 0, 9, \h01, 0, 5>>

Filler == \hBC

\* 13: undecodable; 16: the word 2; 19: the word -1; 22: the word 9, where the
\* instruction under test is; 26: a device number; 29: the interrupt vector.
Table == [a \in 16 .. 31 |->
            CASE a \in {16, 17, 22, 23, 29, 30} -> 0
              [] a = 18 -> 2
              [] a \in 19 .. 21 -> 255
              [] a = 24 -> 9
              [] a = 31 -> 13
              [] OTHER -> Filler]

Image(instruction) ==
  [a \in Address |->
     IF a < 9 THEN Prologue[a + 1]
     ELSE IF a - 8 <= Len(instruction) THEN instruction[a - 8]
     ELSE IF a \in DOMAIN Table THEN Table[a]
     ELSE Filler]

FS34Mnemonic == Mnemonic \ (F1Mnemonic \cup F2Mnemonic)

\* Addressing modes: SIC; immediate, indirect and simple, relative to PC or to
\* B, indexed, with a long address; and the combinations that are refused.
Mode(n, i, x, b, p, e) == [n |-> n, i |-> i, x |-> x, b |-> b, p |-> p, e |-> e]
T == TRUE
F == FALSE
Modes == { Mode(F, F, F, F, F, F), Mode(F, F, T, F, F, F),
           Mode(F, T, F, F, F, F), Mode(F, T, F, F, T, F), Mode(F, T, T, F, F, F),
           Mode(T, F, F, F, F, F), Mode(T, F, F, T, F, F), Mode(T, F, T, F, F, F),
           Mode(T, T, F, F, F, F), Mode(T, T, T, F, F, F), Mode(T, T, T, T, F, F),
           Mode(T, T, F, F, T, F), Mode(T, T, F, T, T, F), Mode(T, T, F, F, F, T),
           Mode(T, T, T, F, F, T), Mode(T, F, F, F, F, T), Mode(F, T, F, F, T, T) }

\* Displacements: an operand of the table; for one instruction of each kind also
\* -3, with which a PC-relative instruction addresses itself, the last cell, the
\* address of a pointer to the instruction, and a zero; the device number.
Displacements(mnemonic) ==
  CASE mnemonic \in {"STA", "J", "JSUB"} -> {16, 22, 4093, 31}
    [] mnemonic \in {"DIV", "JLT", "LDT"} -> {0, 4093}
    [] mnemonic \in {"TD", "RD", "WD"} -> {2, 5}
    [] OTHER -> {16}

FS34Instances ==
  UNION { { [format |-> "FS34", mnemonic |-> m, n |-> mode.n, i |-> mode.i,
              x |-> mode.x, b |-> mode.b, p |-> mode.p, e |-> mode.e, address |-> d] :
            mode \in Modes, d \in Displacements(m) } : m \in FS34Mnemonic }

F2Instances ==
  { [format |-> "F2", mnemonic |-> m, r1 |-> r1, r2 |-> r2] :
    m \in F2Mnemonic, r1 \in {0, 2, 9}, r2 \in {0, 4, 15} }

F1Instances == { [format |-> "F1", mnemonic |-> m] : m \in F1Mnemonic }

Encoded(instances) ==
  { Encode(Opcode[instance.mnemonic], instance) : instance \in instances }

OneInstructionImages ==
  { Image(code) : code \in Encoded(FS34Instances \cup F2Instances \cup F1Instances) }

=============================================================================
