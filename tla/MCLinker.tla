------------------------------ MODULE MCLinker ------------------------------
(***************************************************************************)
(* Values for the linker: three modules of a few bytes with fields of one, *)
(* two, three and four nibbles, local and symbol relocations, a difference *)
(* of symbols, a module assembled at another address than 0, and modules   *)
(* that bring in errors.  The first three linked to 10 end exactly at the  *)
(* end of the address space; no file fills all of it.                      *)
(***************************************************************************)
EXTENDS Linker

Module(start, size, text, exports, imports, relocations) ==
  [start_address |-> start, code_size |-> size, entry_point |-> start, text |-> text,
   exports |-> exports, imports |-> imports, relocations |-> relocations]

\* Refers to itself in a byte and to module Middle in the lower three nibbles of
\* two bytes, the upper one of which must survive.
Main ==
  Module(0, 4, <<TextSection(0, <<1, 2>>), TextSection(2, <<160, 3>>)>>,
         [main |-> 1], {"middle"},
         <<RelocationSimple(0, 2), RelocationSymbol(2, 3, TRUE, "middle")>>)

\* Assembled at 6, in the form of START; its third byte is the distance from
\* main to last, its last nibble a local address, which overflows when the
\* module is moved by more than 8.
Middle ==
  Module(6, 4, <<TextSection(6, <<7, 255, 0, 87>>)>>,
         [middle |-> 7], {"main", "last"},
         <<RelocationSymbol(8, 2, TRUE, "last"), RelocationSymbol(8, 2, FALSE, "main"),
           RelocationSimple(9, 1)>>)

\* The sum middle + last - main depends on where the program is loaded.
Closing ==
  Module(0, 6, <<TextSection(1, <<9, 0, 0>>)>>, [last |-> 3], {"main", "middle"},
         <<RelocationSymbol(2, 4, TRUE, "last"), RelocationSymbol(2, 4, FALSE, "main"),
           RelocationSymbol(2, 4, TRUE, "middle")>>)

\* Defines main a second time; adds two addresses, which only the compatibility
\* mode allows.
Duplicate == Module(0, 2, <<TextSection(0, <<5, 5>>)>>, [main |-> 0], {}, <<>>)
TwoAddresses ==
  Module(0, 2, <<TextSection(0, <<5, 5>>)>>, [last |-> 1], {"main"},
         <<RelocationSymbol(0, 2, TRUE, "main"), RelocationSymbol(0, 2, TRUE, "last")>>)

MCModules == {<<Main, Middle, Closing>>, <<Main, Middle, Duplicate>>, <<Middle, Main, TwoAddresses>>}

MCStartAddresses == {0, 10}
=============================================================================
