----------------------------- MODULE MCZkClient -----------------------------
(* Three threads on two clients, over a tree /p, /p/q, /p/q/a, /p/q/b. *)
EXTENDS ZkClient

CONSTANTS t1, t2, t3, c1, c2, p, q, a, b

P == <<p>>
Q == <<p, q>>
A == <<p, q, a>>
B == <<p, q, b>>

MCPaths == {P, Q, A, B}

Call(client, op, path) ==
    [client |-> client, op |-> op, path |-> path, ephemeral |-> FALSE, parents |-> FALSE]

WithParents(client, path) == [Call(client, "create", path) EXCEPT !.parents = TRUE]

Ephemeral(client, path) == [Call(client, "create", path) EXCEPT !.ephemeral = TRUE]

CallList ==
    <<WithParents(c1, A), WithParents(c2, A), WithParents(c1, B), Ephemeral(c1, P),
      Ephemeral(c2, Q), Call(c1, "delete", Q), Call(c2, "delete", A),
      Call(c1, "delete_all", Q), Call(c2, "delete_all", Q), Call(c1, "read", Q),
      Call(c1, "exists", A), Call(c1, "init", P), Call(c2, "connect", P),
      Call(c1, "close", P)>>

MCCalls == Range(CallList)

\* Threads are interchangeable: of the ways to give them three calls one is
\* enough, the one in the order of the list.
InOrder ==
    \E i, j, k \in DOMAIN CallList :
        /\ i <= j /\ j <= k
        /\ call[t1] = CallList[i] /\ call[t2] = CallList[j] /\ call[t3] = CallList[k]

MCInit == Init /\ InOrder

MCSpec == MCInit /\ [][Next]_vars /\ Fairness
=============================================================================
