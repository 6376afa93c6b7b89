------------------------------ MODULE MCTablet ------------------------------
(* Three requests, any of them, for two tables. *)
EXTENDS Tablet

CONSTANTS h1, h2, h3, n1, n2
=============================================================================
