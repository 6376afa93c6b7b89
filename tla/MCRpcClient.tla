----------------------------- MODULE MCRpcClient -----------------------------
(* Two requests of any kind for one table or two; one may be sent again. *)
EXTENDS RpcClient, TLC

CONSTANTS c1, c2, n1, n2

MCMaxRetry == c1 :> 1 @@ c2 :> 0

MCAttempts == UNION {{c} \X (0..MCMaxRetry[c]) : c \in Clients}

\* The names are interchangeable.
MCInit == RpcInit /\ request[<<c1, 0>>].name = n1

MCSpec == MCInit /\ [][RpcNext]_rpcVars /\ RpcFairness
=============================================================================
