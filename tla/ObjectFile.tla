----------------------------- MODULE ObjectFile -----------------------------
(***************************************************************************)
(* Object files (object_file.cc): what the assembler writes, the linker    *)
(* reads and writes, and the loaders read.  A section that only groups     *)
(* symbols is flattened; text and relocation sections keep their order.    *)
(***************************************************************************)
EXTENDS Integers, Sequences

CONSTANTS SymbolNames,
          AddressLimit  \* one more than the largest address (2^20)

ASSUME ObjectFileAssumption == AddressLimit \in Nat \ {0}

\* The symbols of a relocation are pairs of a sign (TRUE for plus) and a name.
TextSection(address, data) == [address |-> address, data |-> data]
RelocationSimple(address, nibbles) ==
  [type |-> "SIMPLE", address |-> address, nibbles |-> nibbles]
RelocationSymbol(address, nibbles, sign, symbol_name) ==
  [type |-> "SYMBOL", address |-> address, nibbles |-> nibbles,
   symbol |-> <<sign, symbol_name>>]

IsObjectFile(file) ==
  /\ DOMAIN file = {"start_address", "code_size", "entry_point", "text", "exports",
                    "imports", "relocations"}
  /\ {file.start_address, file.code_size, file.entry_point} \subseteq Nat
  /\ \A k \in DOMAIN file.text :
       file.text[k].address \in Nat /\ file.text[k].data \in Seq(0 .. 255)
  /\ DOMAIN file.exports \subseteq SymbolNames
  /\ \A name \in DOMAIN file.exports : file.exports[name] \in Nat
  /\ file.imports \subseteq SymbolNames

EndAddress(file) == file.start_address + file.code_size

\* What LoadFile finds in the file SaveFile wrote: the addresses and the size are
\* masked to 20 bits, although the format has room for 24.
Saved(file) ==
  [file EXCEPT !.start_address = @ % AddressLimit,
               !.code_size = @ % AddressLimit,
               !.entry_point = @ % AddressLimit,
               !.exports = [name \in DOMAIN @ |-> @[name] % AddressLimit]]

=============================================================================
