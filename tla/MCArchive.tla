------------------------------ MODULE MCArchive ------------------------------
(*****************************************************************************)
(* Chains from block zero, from within a bundle and from the start of one,   *)
(* up to numbers of one digit more than names are padded to.                 *)
(*****************************************************************************)
EXTENDS Archive

ArchiveStarts == {0, 30, 75}
===============================================================================
