------------------------------ MODULE MCArena -------------------------------
(***************************************************************************)
(* Blocks of 16 bytes: sizes to a quarter of one and beyond, as large as a *)
(* block and larger.                                                       *)
(***************************************************************************)
EXTENDS Arena
=============================================================================
