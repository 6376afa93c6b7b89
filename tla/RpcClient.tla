------------------------------ MODULE RpcClient ------------------------------
(***************************************************************************)
(* Clients that call the tablet server through client/rpc.h, composed with *)
(* Tablet.  SendRequest blocks in the stub of brpc, which sends the        *)
(* request, sends it again when the connection breaks, up to max_retry     *)
(* times, and gives up when timeout_ms is over.                            *)
(*                                                                         *)
(* Every sending is an attempt of its own: the attempt that reaches the    *)
(* server is a handler there, which no broken connection and no timeout    *)
(* stops.  So the handlers of one call may run at the same time, and after *)
(* SendRequest has returned.  The network is external, and is modelled by  *)
(* what SendRequest makes of it.                                           *)
(***************************************************************************)
EXTENDS Tablet

CONSTANTS
    Clients,    \* threads in SendRequest, one call each
    MaxRetry    \* the max_retry each of them passes

ASSUME AttemptAssumption ==
    /\ MaxRetry \in [Clients -> Nat]
    /\ Handlers = UNION {{c} \X (0..MaxRetry[c]) : c \in Clients}

VARIABLES
    sends,      \* how often each request has been sent
    delivered,  \* the attempts that have reached the server
    response    \* the code SendRequest leaves in the response

rpc     == <<sends, delivered, response>>
rpcVars == <<vars, rpc>>

RpcInit ==
    /\ \E call \in [Clients -> [op : Ops, name : Names]] :
           request = [h \in Handlers |-> call[h[1]]]
    /\ ServerInit
    /\ sends = [c \in Clients |-> 0]
    /\ delivered = {}
    /\ response = [c \in Clients |-> "none"]

\* The attempt brpc waits for: when it sends again it drops what comes for an
\* earlier one.
Current(c) == <<c, sends[c] - 1>>

\* The stub sends the request, or sends it again because the connection is
\* broken; a broken connection may have delivered it or not.
Transmit(c) ==
    /\ response[c] = "none"
    /\ sends[c] <= MaxRetry[c]
    /\ sends' = [sends EXCEPT ![c] = @ + 1]
    /\ delivered' \in {delivered, delivered \cup {<<c, sends[c]>>}}
    /\ UNCHANGED <<vars, response>>

\* The answer comes in time.
Receive(c) ==
    /\ sends[c] > 0
    /\ response[c] = "none"
    /\ pc[Current(c)] = "done"
    /\ code[Current(c)] # "none"
    /\ response' = [response EXCEPT ![c] = code[Current(c)]]
    /\ UNCHANGED <<vars, sends, delivered>>

\* Mutant: without the timeout only a broken connection ends the call, which
\* nothing brings about.
FailUnansweredNever(c) ==
    /\ sends[c] > MaxRetry[c]
    /\ response[c] = "none"
    /\ response' = [response EXCEPT ![c] = "FAILED"]
    /\ UNCHANGED <<vars, sends, delivered>>

\* cntl.Failed(): the time is over, or the last connection broke.
Fail(c) ==
    /\ sends[c] > 0
    /\ response[c] = "none"
    /\ response' = [response EXCEPT ![c] = "FAILED"]
    /\ UNCHANGED <<vars, sends, delivered>>

\* A handler runs once its request has been delivered.
Serve(h) == h \in delivered /\ Handle(h) /\ UNCHANGED rpc

RpcNext ==
    \/ \E c \in Clients : Transmit(c) \/ Receive(c) \/ Fail(c)
    \/ \E h \in Handlers : Serve(h)

\* Time passes, so calls come to their timeout, and the server's system runs
\* handlers while there are any that can go on: no more is needed, for neither
\* go on for ever.  Nothing makes a call be sent, a request be delivered or an
\* answer arrive.
RpcFairness ==
    /\ WF_rpcVars(\E c \in Clients : Fail(c))
    /\ WF_rpcVars(\E h \in Handlers : Serve(h))

RpcSpec == RpcInit /\ [][RpcNext]_rpcVars

FairRpcSpec == RpcSpec /\ RpcFairness

-----------------------------------------------------------------------------
(* Properties. *)

\* Response codes and counts are what they can be, and a handler has done
\* nothing before its request arrived.
RpcTypeOK ==
    /\ TypeOK
    /\ sends \in [Clients -> Nat]
    /\ delivered \subseteq Handlers
    /\ response \in [Clients -> {"none", "OK", "FAILED"}]
    /\ \A h \in Handlers :
           /\ h \in delivered => h[2] < sends[h[1]]
           /\ h \notin delivered => pc[h] = "start"

\* What a client has been told OK stays true, though its request may have run
\* twice, may still be running, and others create and put at the same time
\* (rpc.h:93): the table is there, with its manifest unless only read, and the
\* manifest counts every put answered OK and no more than were delivered.
AnswersHold ==
    ~raced =>
        \A n \in Names :
            LET Told(op) == {c \in Clients : /\ response[c] = "OK"
                                             /\ request[<<c, 0>>] = [op |-> op, name |-> n]}
                puts == {h \in delivered : request[h] = [op |-> "put", name |-> n]}
            IN  /\ Told("get") # {} => table_map[n] # None
                /\ Told("create") \cup Told("put") # {} =>
                       /\ table_map[n] # None
                       /\ table_manifest_map[n] \in
                              Cardinality(Told("put"))..Cardinality(puts)

\* Every request that reaches the server and has a handler with a body is
\* answered there in the end: no early return keeps mu_ locked (tablet.h:195-214,
\* 225-239), not even for the requests behind it.
EveryRequestIsAnswered ==
    <>[](\A h \in delivered :
             request[h].op \in Served => pc[h] = "done" /\ code[h] # "none")

\* The requests carried out for a client are its attempts answered OK.
Carried(c) == {h \in Handlers : h[1] = c /\ code[h] = "OK"}

Outcome(c) ==
    IF response[c] # "none" THEN response[c] ELSE IF sends[c] = 0 THEN "idle" ELSE "pending"

Promise == INSTANCE AtLeastOnce WITH
    outcome <- [c \in Clients |-> Outcome(c)],
    runs    <- [c \in Clients |-> Cardinality(Carried(c))]

\* SendRequest keeps its promise (rpc.h:87-101): it returns although Delete and
\* Update are never answered (tablet_node.h:45-52), what it calls OK has been
\* carried out, and nothing is carried out more often than it was sent.
ImplementsAtLeastOnce == Promise!Spec
=============================================================================
