--------------------------- MODULE MCTableRestart ---------------------------
(***************************************************************************)
(* The table of MCTable through one crash.                                 *)
(***************************************************************************)
EXTENDS TableRestart, TLC

CONSTANTS s1, s2, s3, k1, k2, n, a, b, bad

MCStatements == {s1, s2, s3}
MCFields     == {k1, k2, n}
MCKeyFields  == {k1, k2}
MCTimestamps == {0}
MCValues     == {a, b}
MCTsOf       == s1 :> 0 @@ s2 :> 0 @@ s3 :> bad
MCColumnsOf  == s1 :> (k1 :> a @@ k2 :> a @@ n :> a)
             @@ s2 :> (k1 :> a @@ k2 :> b)
             @@ s3 :> (k1 :> b @@ k2 :> b)
MCSizeOf     == s1 :> 3 @@ s2 :> 5 @@ s3 :> 4
=============================================================================
