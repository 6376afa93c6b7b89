------------------------------ MODULE MCTable ------------------------------
(***************************************************************************)
(* A small table for TLC: two key columns and one that is no key, three    *)
(* statements of which two meet in one binding and one has a timestamp     *)
(* that does not parse.                                                    *)
(***************************************************************************)
EXTENDS Table, TLC

CONSTANTS s1, s2, s3, k1, k2, n, a, b, bad

MCStatements == {s1, s2, s3}
MCFields     == {k1, k2, n}
MCKeyFields  == {k1, k2}
MCTimestamps == {0}
MCValues     == {a, b}
MCTsOf       == s1 :> 0 @@ s2 :> 0 @@ s3 :> bad
MCColumnsOf  == s1 :> (k1 :> a @@ k2 :> a @@ n :> a)
             @@ s2 :> (k1 :> a @@ k2 :> b)
             @@ s3 :> (k1 :> b @@ k2 :> b)
MCSizeOf     == s1 :> 3 @@ s2 :> 5 @@ s3 :> 4

\* Behaviours of puts and gets alone.  Without batch reads and failed syncs
\* what a Get meets comes from the sparse index the puts have made.
PutsAndGets ==
    \/ \E s \in Statements : Put(s)
    \/ \E f \in Fields, t \in Timestamps \cup {BadTs}, v \in Values : Get(f, t, v)

PutGetSpec == Init /\ [][PutsAndGets]_vars
=============================================================================
