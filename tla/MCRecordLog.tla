---------------------------- MODULE MCRecordLog -----------------------------
(***************************************************************************)
(* Blocks of 30 bytes: a record that leaves exactly a header of the block, *)
(* one of two or three fragments that leaves less than a header, and an    *)
(* empty one.                                                              *)
(***************************************************************************)
EXTENDS RecordLog
=============================================================================
