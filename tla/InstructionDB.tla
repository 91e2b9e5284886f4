---------------------------- MODULE InstructionDB ----------------------------
(***************************************************************************)
(* The instruction database (instruction_db.cc): instructions are          *)
(* registered one by one, by the default set or by the lines of an         *)
(* instruction file, each after the check that its opcode is available.    *)
(* The promise of that check is that whatever is registered can be         *)
(* decoded: no instruction hides another one from FormatUtil::Decode.      *)
(***************************************************************************)
EXTENDS InstructionSet

CONSTANTS Opcodes,    \* opcodes that an instruction file may name
          Mnemonics   \* mnemonics it may give them

ASSUME OpcodesAssumption == Opcodes \subseteq Byte

VARIABLES instructions,     \* opcode -> [mnemonic, format] of what is registered
          unavailable_mask  \* 6-bit opcodes taken by instructions of 8-bit opcode

vars == <<instructions, unavailable_mask>>

Registered(opcode) == opcode \in DOMAIN instructions

\* What the database holds are instructions of the file, under their opcodes.
TypeOK ==
  /\ DOMAIN instructions \subseteq Opcodes
  /\ \A o \in DOMAIN instructions :
       instructions[o] \in [mnemonic : Mnemonics, format : Format]
  /\ unavailable_mask \subseteq {o \div 4 : o \in Opcodes}

Init ==
  /\ instructions = <<>>
  /\ unavailable_mask = {}

FindMnemonic(mnemonic) ==
  \E o \in DOMAIN instructions : instructions[o].mnemonic = mnemonic

\* Mutant: the opcodes of 8 bits that a short opcode would hide are not looked at.
IsOpcodeAvailableUnmasked(opcode, format) ==
  /\ ~Registered(opcode)
  /\ format = "FS34" => opcode % 4 = 0
  /\ format # "FS34" => ~FindsShort(instructions, opcode)

IsOpcodeAvailable(opcode, format) ==
  /\ ~Registered(opcode)
  /\ \/ format = "FS34" /\ opcode % 4 = 0 /\ opcode \div 4 \notin unavailable_mask
     \/ format # "FS34" /\ ~FindsShort(instructions, opcode)

\* Format::FS34 has the value 2, and Register compares it with the opcode.
FS34Id == 2

MarksShortOpcode(opcode, format) == opcode # FS34Id

\* One line of an instruction file: rejected, or registered after the checks.
Register(opcode, mnemonic, format) ==
  /\ ~FindMnemonic(mnemonic)
  /\ IsOpcodeAvailable(opcode, format)
  /\ instructions' = [o \in DOMAIN instructions \cup {opcode} |->
                        IF o = opcode THEN [mnemonic |-> mnemonic, format |-> format]
                        ELSE instructions[o]]
  /\ unavailable_mask' =
       IF MarksShortOpcode(opcode, format)
       THEN unavailable_mask \cup {opcode \div 4}
       ELSE unavailable_mask

\* Mutant: the mask outlives the instructions.
ClearKeepsMask ==
  /\ instructions' = <<>>
  /\ UNCHANGED unavailable_mask

Clear ==
  /\ instructions' = <<>>
  /\ unavailable_mask' = {}

Next ==
  \/ \E opcode \in Opcodes, mnemonic \in Mnemonics, format \in Format :
       Register(opcode, mnemonic, format)
  \/ Clear

Spec == Init /\ [][Next]_vars

-----------------------------------------------------------------------------
DecodesTo(byte) == Decode(instructions, byte, 0, 0, 0)

\* Every registered instruction is what the decoder finds at its opcode, and an
\* FS34 instruction is what it finds at all four bytes that share its six bits:
\* the conflict checks of IsOpcodeAvailable leave nothing undecodable, whatever
\* the order of registration.
NothingIsHidden ==
  \A o \in DOMAIN instructions :
    LET bytes == IF instructions[o].format = "FS34" THEN o .. o + 3 ELSE {o}
    IN  \A byte \in bytes \cap Byte :
          /\ DecodesTo(byte).format = instructions[o].format
          /\ DecodesTo(byte).mnemonic = instructions[o].mnemonic

\* An opcode is refused only for a reason the decoder has: registering it there
\* would hide it or hide an instruction that is already registered.
RefusedOnlyOnConflict ==
  \A opcode \in Opcodes, format \in Format :
    ~IsOpcodeAvailable(opcode, format) =>
      \/ Registered(opcode)
      \/ format = "FS34" /\ opcode % 4 # 0
      \/ format = "FS34" /\ \E o \in opcode .. opcode + 3 : Registered(o)
      \/ format # "FS34" /\ FindsShort(instructions, opcode)

=============================================================================
