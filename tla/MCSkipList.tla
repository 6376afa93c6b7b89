----------------------------- MODULE MCSkipList -----------------------------
(* Three keys, towers of up to three levels, one search at a time. *)
EXTENDS SkipList

CONSTANTS r1

MCKeys == 1 .. 3
=============================================================================
