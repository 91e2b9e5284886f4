------------------------ MODULE InstructionDBProofs ------------------------
(***************************************************************************)
(* Proofs about the instruction database, for every set of opcodes and     *)
(* mnemonics.  That nothing is hidden needs one assumption, that a file    *)
(* does not use both of the opcodes 0 and 2: with both of them Register    *)
(* leaves an instruction at 2 unmarked, and the property does not hold.    *)
(***************************************************************************)
EXTENDS InstructionDB, TLAPS

OpcodesMark == 0 \notin Opcodes \/ 2 \notin Opcodes

-----------------------------------------------------------------------------
(***************************************************************************)
(* The inductive invariant.                                                *)
(***************************************************************************)
\* A short instruction is at the first opcode of four.
ShortIsAligned ==
  \A o \in DOMAIN instructions : instructions[o].format = "FS34" => o % 4 = 0

EntriesOK == TypeOK /\ ShortIsAligned

\* The mask holds only groups of registered instructions, and all of them but for
\* one at opcode 2.
MaskIsOfRegistered ==
  \A m \in unavailable_mask : \E o \in DOMAIN instructions : m = o \div 4

MaskCoversRegistered ==
  \A o \in DOMAIN instructions : o # FS34Id => o \div 4 \in unavailable_mask

\* A short instruction has the four opcodes of its six bits to itself.
ShortIsAlone ==
  \A o, p \in DOMAIN instructions :
    o \div 4 = p \div 4 /\ instructions[o].format = "FS34" => o = p

MaskInv == EntriesOK /\ MaskIsOfRegistered

DBInv == MaskInv /\ MaskCoversRegistered /\ ShortIsAlone

-----------------------------------------------------------------------------
(***************************************************************************)
(* Groups of four opcodes.                                                 *)
(***************************************************************************)
LEMMA OpcodesAreNumbers == ASSUME NEW o \in Opcodes PROVE o \in Nat
  BY OpcodesAssumption, SizeAssumption DEF Byte

\* The short opcode of a byte is the first of its group, and only that one is a
\* multiple of four.
LEMMA ShortOpcodeOf ==
  ASSUME NEW b \in Nat
  PROVE  /\ ShortOpcode(b) \in Nat
         /\ ShortOpcode(b) \div 4 = b \div 4
         /\ ShortOpcode(b) % 4 = 0
         /\ \A o \in Nat : o % 4 = 0 /\ o \div 4 = b \div 4 => o = ShortOpcode(b)
  BY DEF ShortOpcode

LEMMA ShortOpcodeInGroup ==
  ASSUME NEW o \in Nat, o % 4 = 0, NEW b \in o .. o + 3
  PROVE  b \in Nat /\ ShortOpcode(b) = o
  BY DEF ShortOpcode

-----------------------------------------------------------------------------
\* What registering an instruction makes of the database.
LEMMA RegisterAdds ==
  ASSUME NEW opcode \in Opcodes, NEW mnemonic \in Mnemonics, NEW format \in Format,
         Register(opcode, mnemonic, format)
  PROVE  /\ opcode \notin DOMAIN instructions
         /\ DOMAIN instructions' = DOMAIN instructions \cup {opcode}
         /\ instructions'[opcode] = [mnemonic |-> mnemonic, format |-> format]
         /\ \A o \in DOMAIN instructions : instructions'[o] = instructions[o]
  BY DEF Register, IsOpcodeAvailable, Registered

\* The mask and the entries, which also hold when 0 and 2 are both used.
LEMMA MaskInvRegister ==
  ASSUME MaskInv, NEW opcode \in Opcodes, NEW mnemonic \in Mnemonics,
         NEW format \in Format, Register(opcode, mnemonic, format)
  PROVE  MaskInv'
<1>1. /\ DOMAIN instructions' = DOMAIN instructions \cup {opcode}
      /\ instructions'[opcode] = [mnemonic |-> mnemonic, format |-> format]
      /\ \A o \in DOMAIN instructions : instructions'[o] = instructions[o]
  BY RegisterAdds
<1>2. unavailable_mask' = IF opcode # FS34Id THEN unavailable_mask \cup {opcode \div 4}
                          ELSE unavailable_mask
  BY DEF Register, MarksShortOpcode
<1>3. TypeOK'
  BY <1>1, <1>2 DEF MaskInv, EntriesOK, TypeOK
<1>4. ShortIsAligned'
  <2>1. format = "FS34" => opcode % 4 = 0
    BY DEF Register, IsOpcodeAvailable
  <2>2. QED
    BY <1>1, <2>1 DEF MaskInv, EntriesOK, ShortIsAligned
<1>5. MaskIsOfRegistered'
  BY <1>1, <1>2 DEF MaskInv, MaskIsOfRegistered
<1>6. QED
  BY <1>3, <1>4, <1>5 DEF MaskInv, EntriesOK

LEMMA DBInvRegister ==
  ASSUME DBInv, OpcodesMark, NEW opcode \in Opcodes, NEW mnemonic \in Mnemonics,
         NEW format \in Format, Register(opcode, mnemonic, format)
  PROVE  DBInv'
<1>1. /\ DOMAIN instructions' = DOMAIN instructions \cup {opcode}
      /\ instructions'[opcode] = [mnemonic |-> mnemonic, format |-> format]
      /\ \A o \in DOMAIN instructions : instructions'[o] = instructions[o]
  BY RegisterAdds
<1>2. IsOpcodeAvailable(opcode, format) /\ opcode \in Nat
  BY OpcodesAreNumbers DEF Register
<1>3. \A o \in DOMAIN instructions : o \in Nat /\ o \in Opcodes
  BY OpcodesAreNumbers DEF DBInv, MaskInv, EntriesOK, TypeOK
<1>4. MaskInv'
  BY MaskInvRegister DEF DBInv
<1>5. MaskCoversRegistered'
  <2>1. unavailable_mask' = IF opcode # FS34Id THEN unavailable_mask \cup {opcode \div 4}
                            ELSE unavailable_mask
    BY DEF Register, MarksShortOpcode
  <2>2. QED
    BY <1>1, <2>1 DEF DBInv, MaskCoversRegistered
\* A short instruction is not registered next to any other: one that the mask does
\* not show would be at 2, and the short one at 0.
<1>6. format = "FS34" => \A o \in DOMAIN instructions : o \div 4 # opcode \div 4
  <2>1. SUFFICES ASSUME format = "FS34", NEW o \in DOMAIN instructions,
                        o \div 4 = opcode \div 4
                 PROVE  FALSE
    OBVIOUS
  <2>2. opcode % 4 = 0 /\ opcode \div 4 \notin unavailable_mask
    BY <1>2, <2>1 DEF IsOpcodeAvailable
  <2>3. o = 2
    BY <2>1, <2>2 DEF DBInv, MaskCoversRegistered, FS34Id
  <2>4. opcode = 0
    BY <1>2, <2>1, <2>2, <2>3
  <2>5. QED
    BY <1>3, <2>3, <2>4 DEF OpcodesMark
\* No other is registered next to a short one, which the decoder would find first.
<1>7. ASSUME NEW o \in DOMAIN instructions, o \div 4 = opcode \div 4
      PROVE  instructions[o].format # "FS34"
  <2>1. CASE format = "FS34"
    BY <1>6, <1>7, <2>1
  <2>2. CASE format # "FS34"
    <3>1. ~FindsShort(instructions, opcode)
      BY <1>2, <2>2 DEF IsOpcodeAvailable
    <3>2. SUFFICES ASSUME instructions[o].format = "FS34" PROVE FALSE
      OBVIOUS
    <3>3. o = ShortOpcode(opcode)
      BY <1>2, <1>3, <1>7, <3>2, ShortOpcodeOf DEF DBInv, MaskInv, EntriesOK, ShortIsAligned
    <3>4. QED
      BY <3>1, <3>2, <3>3 DEF FindsShort
  <2>3. QED
    BY <2>1, <2>2
<1>8. ShortIsAlone'
  <2>1. SUFFICES ASSUME NEW o \in DOMAIN instructions', NEW p \in DOMAIN instructions',
                        o \div 4 = p \div 4, instructions'[o].format = "FS34"
                 PROVE  o = p
    BY DEF ShortIsAlone
  <2>2. CASE o \in DOMAIN instructions /\ p \in DOMAIN instructions
    BY <1>1, <2>1, <2>2 DEF DBInv, ShortIsAlone
  <2>3. CASE o \in DOMAIN instructions /\ p = opcode
    BY <1>1, <1>7, <2>1, <2>3
  <2>4. CASE o = opcode
    BY <1>1, <1>6, <2>1, <2>4
  <2>5. QED
    BY <1>1, <2>2, <2>3, <2>4
<1>9. QED
  BY <1>4, <1>5, <1>8 DEF DBInv

THEOREM MaskInductive == Spec => []MaskInv
<1>1. Init => MaskInv
  BY DEF Init, MaskInv, EntriesOK, TypeOK, ShortIsAligned, MaskIsOfRegistered
<1>2. MaskInv /\ [Next]_vars => MaskInv'
  <2>1. SUFFICES ASSUME MaskInv, [Next]_vars PROVE MaskInv'
    OBVIOUS
  <2>2. CASE Clear
    BY <2>2 DEF Clear, MaskInv, EntriesOK, TypeOK, ShortIsAligned, MaskIsOfRegistered
  <2>3. CASE UNCHANGED vars
    BY <2>1, <2>3 DEF vars, MaskInv, EntriesOK, TypeOK, ShortIsAligned, MaskIsOfRegistered
  <2>4. CASE \E opcode \in Opcodes, mnemonic \in Mnemonics, format \in Format :
               Register(opcode, mnemonic, format)
    BY <2>1, <2>4, MaskInvRegister
  <2>5. QED
    BY <2>1, <2>2, <2>3, <2>4 DEF Next
<1>3. QED
  BY <1>1, <1>2, PTL DEF Spec

THEOREM DBInductive == ASSUME OpcodesMark PROVE Spec => []DBInv
<1>1. Init => DBInv
  BY DEF Init, DBInv, MaskInv, EntriesOK, TypeOK, ShortIsAligned, MaskIsOfRegistered,
         MaskCoversRegistered, ShortIsAlone
<1>2. DBInv /\ [Next]_vars => DBInv'
  <2>1. SUFFICES ASSUME DBInv, [Next]_vars PROVE DBInv'
    OBVIOUS
  <2>2. CASE Clear
    BY <2>2 DEF Clear, DBInv, MaskInv, EntriesOK, TypeOK, ShortIsAligned,
                MaskIsOfRegistered, MaskCoversRegistered, ShortIsAlone
  <2>3. CASE UNCHANGED vars
    BY <2>1, <2>3 DEF vars, DBInv, MaskInv, EntriesOK, TypeOK, ShortIsAligned,
                      MaskIsOfRegistered, MaskCoversRegistered, ShortIsAlone
  <2>4. CASE \E opcode \in Opcodes, mnemonic \in Mnemonics, format \in Format :
               Register(opcode, mnemonic, format)
    BY <2>1, <2>4, DBInvRegister
  <2>5. QED
    BY <2>1, <2>2, <2>3, <2>4 DEF Next
<1>3. QED
  BY <1>1, <1>2, PTL DEF Spec

-----------------------------------------------------------------------------
LEMMA HidesNothing == ASSUME DBInv PROVE NothingIsHidden
<1>1. SUFFICES ASSUME NEW o \in DOMAIN instructions,
                      NEW byte \in (IF instructions[o].format = "FS34" THEN o .. o + 3 ELSE {o})
                                   \cap Byte
               PROVE  /\ DecodesTo(byte).format = instructions[o].format
                      /\ DecodesTo(byte).mnemonic = instructions[o].mnemonic
  BY DEF NothingIsHidden
<1>2. o \in Nat /\ instructions[o].format \in Format
  BY OpcodesAreNumbers DEF DBInv, MaskInv, EntriesOK, TypeOK
<1>3. CASE instructions[o].format = "FS34"
  <2>1. ShortOpcode(byte) = o
    BY <1>1, <1>2, <1>3, ShortOpcodeInGroup DEF DBInv, MaskInv, EntriesOK, ShortIsAligned
  <2>2. FindsShort(instructions, byte)
    BY <1>3, <2>1 DEF FindsShort
  <2>3. DecodesTo(byte) = DecodeFS34(instructions[o].mnemonic, byte, 0, 0, 0)
    BY <2>1, <2>2 DEF DecodesTo, Decode
  <2>4. QED
    BY <1>3, <2>3 DEF DecodeFS34
<1>4. CASE instructions[o].format # "FS34"
  <2>1. byte = o
    BY <1>1, <1>4
  <2>2. ~FindsShort(instructions, byte)
    <3>1. SUFFICES ASSUME FindsShort(instructions, o) PROVE FALSE
      BY <2>1
    <3>2. ShortOpcode(o) \div 4 = o \div 4
      BY <1>2, ShortOpcodeOf
    <3>3. QED
      BY <1>4, <3>1, <3>2 DEF DBInv, ShortIsAlone, FindsShort
  <2>3. instructions[o].format \in {"F1", "F2"}
    BY <1>2, <1>4 DEF Format
  <2>4. QED
    BY <2>1, <2>2, <2>3 DEF DecodesTo, Decode
<1>5. QED
  BY <1>3, <1>4

\* Every registered instruction can be decoded, whatever opcodes and mnemonics a
\* file names and in whatever order, but for the use of 0 and 2 together: the
\* checks of IsOpcodeAvailable and the mask that Register keeps are enough.
THEOREM NeverHidden == ASSUME OpcodesMark PROVE Spec => []NothingIsHidden
  BY DBInductive, HidesNothing, PTL

LEMMA RefusesOnConflict == ASSUME MaskInv PROVE RefusedOnlyOnConflict
<1>1. SUFFICES ASSUME NEW opcode \in Opcodes, NEW format \in Format,
                      ~IsOpcodeAvailable(opcode, format), ~Registered(opcode),
                      format = "FS34", opcode % 4 = 0
               PROVE  \E o \in opcode .. opcode + 3 : Registered(o)
  BY DEF RefusedOnlyOnConflict, IsOpcodeAvailable
<1>2. opcode \div 4 \in unavailable_mask
  BY <1>1 DEF IsOpcodeAvailable
<1>3. PICK o \in DOMAIN instructions : opcode \div 4 = o \div 4
  BY <1>2 DEF MaskInv, MaskIsOfRegistered
<1>4. o \in Nat /\ opcode \in Nat
  BY OpcodesAreNumbers DEF MaskInv, EntriesOK, TypeOK
<1>5. o \in opcode .. opcode + 3
  BY <1>1, <1>3, <1>4
<1>6. QED
  BY <1>5 DEF Registered

\* No opcode is refused without a conflict.
THEOREM NeverRefusedWithoutConflict == Spec => []RefusedOnlyOnConflict
  BY MaskInductive, RefusesOnConflict, PTL

=============================================================================
