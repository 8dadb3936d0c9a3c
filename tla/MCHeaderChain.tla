---------------------------- MODULE MCHeaderChain ----------------------------
(*****************************************************************************)
(* Heights of two bytes: long enough for a carry between bytes and digits.   *)
(*****************************************************************************)
EXTENDS HeaderChain

StartHeights == {3, 4, 250, 65300}
===============================================================================
