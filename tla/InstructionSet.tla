--------------------------- MODULE InstructionSet ---------------------------
(***************************************************************************)
(* The instruction set of the SIC/XE computer as data: the opcodes, the    *)
(* format of every instruction, and the decoding and encoding of           *)
(* instructions in memory (FormatUtil).  An instruction database is a      *)
(* function from the registered opcodes to [mnemonic, format] records.     *)
(***************************************************************************)
EXTENDS Words

\* The three formats of format.h; instructions of format FS34 are three bytes
\* long, or four when their e bit is set.
Format == {"F1", "F2", "FS34"}

Opcode ==
  [CLEAR |-> \hB4, RMO   |-> \hAC, ADD   |-> \h18, SUB  |-> \h1C, MUL  |-> \h20,
   DIV   |-> \h24, AND   |-> \h40, OR    |-> \h44, ADDR |-> \h90, SUBR |-> \h94,
   MULR  |-> \h98, DIVR  |-> \h9C, SHIFTL |-> \hA4, SHIFTR |-> \hA8,
   COMP  |-> \h28, COMPR |-> \hA0, TIX   |-> \h2C, TIXR |-> \hB8, J    |-> \h3C,
   JEQ   |-> \h30, JGT   |-> \h34, JLT   |-> \h38, JSUB |-> \h48, RSUB |-> \h4C,
   LDCH  |-> \h50, STCH  |-> \h54, STSW  |-> \hE8, LDA  |-> \h00, LDB  |-> \h68,
   LDL   |-> \h08, LDS   |-> \h6C, LDT   |-> \h74, LDX  |-> \h04, STA  |-> \h0C,
   STB   |-> \h78, STL   |-> \h14, STS   |-> \h7C, STT  |-> \h84, STX  |-> \h10,
   TD    |-> \hE0, RD    |-> \hD8, WD    |-> \hDC, FIX  |-> \hC4, FLOAT |-> \hC0,
   ADDF  |-> \h58, SUBF  |-> \h5C, MULF  |-> \h60, DIVF |-> \h64, COMPF |-> \h88,
   LDF   |-> \h70, STF   |-> \h80, XOR   |-> \hF0, ANDR |-> \hF4, ORR  |-> \hF5,
   XORR  |-> \hF6, NOT   |-> \hF7, EINT  |-> \hF8, DINT |-> \hF9, RINT |-> \hFA,
   STIL  |-> \hFC]

Mnemonic == DOMAIN Opcode

F1Mnemonic == {"FIX", "FLOAT", "EINT", "DINT", "RINT"}

F2Mnemonic == {"CLEAR", "RMO", "ADDR", "SUBR", "MULR", "DIVR", "SHIFTL", "SHIFTR",
               "COMPR", "TIXR", "ANDR", "ORR", "XORR", "NOT"}

FormatOf(mnemonic) == CASE mnemonic \in F1Mnemonic -> "F1"
                        [] mnemonic \in F2Mnemonic -> "F2"
                        [] OTHER                   -> "FS34"

\* InstructionDB::Default.
DefaultInstructions ==
  [opcode \in {Opcode[m] : m \in Mnemonic} |->
     LET mnemonic == CHOOSE m \in Mnemonic : Opcode[m] = opcode
     IN  [mnemonic |-> mnemonic, format |-> FormatOf(mnemonic)]]

-----------------------------------------------------------------------------
(***************************************************************************)
(* FormatUtil::Decode looks a byte up twice: its upper six bits among the  *)
(* FS34 instructions first, then the whole byte.                           *)
(***************************************************************************)
NoInstruction == [format |-> "none"]

ShortOpcode(byte) == byte - (byte % 4)

FindsShort(db, byte) ==
  /\ ShortOpcode(byte) \in DOMAIN db
  /\ db[ShortOpcode(byte)].format = "FS34"

Bit(byte, weight) == (byte \div weight) % 2 = 1

DecodeFS34(mnemonic, b0, b1, b2, b3) ==
  LET n == Bit(b0, 2)
      i == Bit(b0, 1)
      sic == ~n /\ ~i
      e == ~sic /\ Bit(b1, 16)
      short == (b1 % 16) * 256 + b2
  IN  [format |-> "FS34", mnemonic |-> mnemonic,
       n |-> n, i |-> i, x |-> Bit(b1, 128),
       b |-> ~sic /\ Bit(b1, 64), p |-> ~sic /\ Bit(b1, 32), e |-> e,
       address |-> IF sic THEN (b1 % 128) * 256 + b2
                   ELSE IF e THEN short * 256 + b3
                   ELSE short]

Decode(db, b0, b1, b2, b3) ==
  IF FindsShort(db, b0)
  THEN DecodeFS34(db[ShortOpcode(b0)].mnemonic, b0, b1, b2, b3)
  ELSE IF b0 \notin DOMAIN db
  THEN NoInstruction
  ELSE IF db[b0].format = "F1"
  THEN [format |-> "F1", mnemonic |-> db[b0].mnemonic]
  ELSE [format |-> "F2", mnemonic |-> db[b0].mnemonic, r1 |-> b1 \div 16, r2 |-> b1 % 16]

InstructionLength(instance) ==
  CASE instance.format = "F1"   -> 1
    [] instance.format = "F2"   -> 2
    [] instance.format = "FS34" -> IF instance.e THEN 4 ELSE 3

-----------------------------------------------------------------------------
(***************************************************************************)
(* FormatUtil::Encode, as a sequence of bytes; opcode is the registered    *)
(* opcode of the instance.  Fields are cut to the bits they have.          *)
(***************************************************************************)
BitValue(flag, weight) == IF flag THEN weight ELSE 0

Encode(opcode, instance) ==
  CASE instance.format = "F1" -> <<opcode>>
    [] instance.format = "F2" -> <<opcode, ((instance.r1 * 16) % 256) + (instance.r2 % 16)>>
    [] instance.format = "FS34" ->
         LET first  == opcode + BitValue(instance.n, 2) + BitValue(instance.i, 1)
             flags  == BitValue(instance.b, 64) + BitValue(instance.p, 32)
                       + BitValue(instance.e, 16)
             x      == BitValue(instance.x, 128)
             a      == instance.address
         IN  CASE ~instance.n /\ ~instance.i ->
                    <<first, x + ((a \div 256) % 128), a % 256>>
               [] (instance.n \/ instance.i) /\ ~instance.e ->
                    <<first, x + flags + ((a \div 256) % 16), a % 256>>
               [] OTHER ->
                    <<first, x + flags + ((a \div 65536) % 16), (a \div 256) % 256, a % 256>>

=============================================================================
