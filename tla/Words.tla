------------------------------- MODULE Words -------------------------------
(***************************************************************************)
(* The number formats of the SIC/XE computer: bytes, three-byte words,     *)
(* memory addresses and the displacement field of a format 3 instruction,  *)
(* with the conversions of machine.cc between them.  The code fixes the    *)
(* sizes at 2^8, 2^24, 2^20 and 2^12; here they are constants, so that TLC *)
(* can take small ones and the theorems hold for all of them.              *)
(***************************************************************************)
EXTENDS Integers, Sequences

CONSTANTS ByteSize,         \* number of values of a byte (2^8)
          AddressSize,      \* number of memory cells (kMemorySize, 2^20)
          DisplacementSize  \* number of values of a format 3 address field (2^12)

(***************************************************************************)
(* A word is three bytes, wide enough for an address; memory holds at      *)
(* least the six bytes of a float, the largest operand of an instruction.  *)
(***************************************************************************)
ASSUME SizeAssumption ==
  /\ ByteSize \in Nat \ {0, 1}
  /\ AddressSize \in Nat
  /\ 6 <= AddressSize
  /\ AddressSize <= ByteSize * ByteSize * ByteSize
  /\ DisplacementSize \in Nat \ {0, 1}

WordSize == ByteSize * ByteSize * ByteSize

Byte    == 0 .. ByteSize - 1
Word    == 0 .. WordSize - 1
Address == 0 .. AddressSize - 1

FloatLength == 6
FloatData   == [0 .. FloatLength - 1 -> Byte]

TrimWord(value)      == value % WordSize
TrimAddress(address) == address % AddressSize

\* Two's complement reading of a word and of a PC-relative displacement.
SignExtendWord(word) ==
  IF 2 * word >= WordSize THEN word - WordSize ELSE word

SignExtendF3Operand(operand) ==
  IF 2 * operand >= DisplacementSize THEN operand - DisplacementSize ELSE operand

\* C++ integer division rounds towards zero, \div rounds down.
Quotient(a, b) ==
  LET magnitude == (IF a < 0 THEN -a ELSE a) \div (IF b < 0 THEN -b ELSE b)
  IN  IF (a < 0) = (b < 0) THEN magnitude ELSE -magnitude

-----------------------------------------------------------------------------
(***************************************************************************)
(* Memory accesses.  Every byte of a multi-byte access has its address     *)
(* trimmed on its own, so an access at the end of memory wraps to 0.       *)
(***************************************************************************)
Cell(address, k) == TrimAddress(address + k)

ReadMemoryByte(memory, address) == memory[Cell(address, 0)]

ReadMemoryWord(memory, address) ==
  ( memory[Cell(address, 0)] * ByteSize
    + memory[Cell(address, 1)] ) * ByteSize
  + memory[Cell(address, 2)]

ReadMemoryFloat(memory, address) ==
  [k \in 0 .. FloatLength - 1 |-> memory[Cell(address, k)]]

WriteMemoryByte(memory, address, value) ==
  [memory EXCEPT ![Cell(address, 0)] = value % ByteSize]

\* Mutant: only the first address is trimmed.
WriteMemoryWordUntrimmed(memory, address, value) ==
  [memory EXCEPT ![Cell(address, 0)] = ((value \div ByteSize) \div ByteSize) % ByteSize,
                 ![Cell(address, 0) + 1] = (value \div ByteSize) % ByteSize,
                 ![Cell(address, 0) + 2] = value % ByteSize]

WriteMemoryWord(memory, address, value) ==
  [memory EXCEPT ![Cell(address, 0)] = ((value \div ByteSize) \div ByteSize) % ByteSize,
                 ![Cell(address, 1)] = (value \div ByteSize) % ByteSize,
                 ![Cell(address, 2)] = value % ByteSize]

\* WriteMemory writes in order, so a later byte wins when a write longer than
\* memory wraps onto itself.
WriteMemory(memory, address, data) ==
  [a \in DOMAIN memory |->
    LET hits == {k \in 1 .. Len(data) : Cell(address, k - 1) = a}
    IN  IF hits = {} THEN memory[a]
        ELSE data[CHOOSE k \in hits : \A j \in hits : j <= k]]

WriteMemoryFloat(memory, address, value) ==
  WriteMemory(memory, address, [k \in 1 .. FloatLength |-> value[k - 1]])

=============================================================================
