----------------------------- MODULE AtLeastOnce -----------------------------
(***************************************************************************)
(* What RpcClient::SendRequest promises its caller, whatever the network   *)
(* and the server do: it returns; OK means that the server has carried the *)
(* request out at least once; the server never does so more often than the *)
(* request was sent.  FAILED says nothing, and the server may carry a      *)
(* request out after its caller was told.                                  *)
(***************************************************************************)
EXTENDS Naturals

CONSTANTS
    Clients,    \* callers, one call each
    MaxRetry    \* of each: retries, not including the first request

VARIABLES
    outcome,    \* of each call
    runs        \* how often the server has carried it out

vars == <<outcome, runs>>

Init ==
    /\ outcome = [c \in Clients |-> "idle"]
    /\ runs = [c \in Clients |-> 0]

Call(c) ==
    /\ outcome[c] = "idle"
    /\ outcome' = [outcome EXCEPT ![c] = "pending"]
    /\ UNCHANGED runs

Run(c) ==
    /\ outcome[c] # "idle"
    /\ runs[c] <= MaxRetry[c]
    /\ runs' = [runs EXCEPT ![c] = @ + 1]
    /\ UNCHANGED outcome

Return(c) ==
    /\ outcome[c] = "pending"
    /\ \/ outcome' = [outcome EXCEPT ![c] = "FAILED"]
       \/ runs[c] > 0 /\ outcome' = [outcome EXCEPT ![c] = "OK"]
    /\ UNCHANGED runs

Next == \E c \in Clients : Call(c) \/ Run(c) \/ Return(c)

Spec == Init /\ [][Next]_vars /\ WF_vars(\E c \in Clients : Return(c))
=============================================================================
