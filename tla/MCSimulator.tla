---------------------------- MODULE MCSimulator -----------------------------
(***************************************************************************)
(* Values for the simulator: two addresses, one of them also typed with    *)
(* bits above those of an address, two breakpoints and one name.           *)
(***************************************************************************)
EXTENDS Simulator

MCPointers == {"first", "second"}
MCTypedAddresses == {0, 1, 3}
=============================================================================
