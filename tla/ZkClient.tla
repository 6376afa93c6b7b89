------------------------------ MODULE ZkClient ------------------------------
(***************************************************************************)
(* client/zk.h: ZkClient objects that several threads call, over one       *)
(* ZooKeeper tree they share.  Every method but CreateNode's start,        *)
(* DeleteAllOfNodes and IsExistedPath runs under mu_ of its object.        *)
(*                                                                         *)
(* Each thread makes one call.  A method that holds mu_ for one request to *)
(* ZooKeeper is one action: whatever it reads of the object is written     *)
(* under mu_ only.  CreateParent sends several requests under one lock,    *)
(* CreateNode and DeleteAllOfNodes are several locked parts, and those are *)
(* as many actions.                                                        *)
(*                                                                         *)
(* ZooKeeper is external: a tree of nodes, sessions that may expire, and   *)
(* answers that may be lost after or before the request is carried out.    *)
(***************************************************************************)
EXTENDS Naturals, Sequences, FiniteSets, Functions

CONSTANTS
    Threads,  \* threads, one call each
    Clients,  \* ZkClient objects
    Paths,    \* the paths of the tree, as sequences of names
    Calls,    \* what a thread may call: [client, op, path, ephemeral, parents]
    None,     \* nobody holds the mutex
    MaxFaults \* bound: answers lost and sessions expired in a behaviour

Ops == {"create", "delete", "delete_all", "read", "exists", "init", "connect", "close"}

ASSUME PathAssumption ==
    \A p \in Paths :
        /\ p \in Seq(Range(p)) /\ Len(p) > 0
        /\ \A i \in 1..Len(p) : SubSeq(p, 1, i) \in Paths

ASSUME ClientAssumption == IsFiniteSet(Clients)

ASSUME FaultAssumption == MaxFaults \in Nat

ASSUME CallAssumption ==
    /\ Calls \subseteq [client : Clients, op : Ops, path : Paths,
                        ephemeral : BOOLEAN, parents : BOOLEAN]
    /\ None \notin Threads

VARIABLES
    nodes,      \* ZooKeeper: the paths that exist
    owner,      \* ... the session of an ephemeral node, 0 of a normal one
    sessions,   \* ... how many sessions there have been
    live,       \* ... those it has not closed or expired
    faults,     \* ... lost answers and expired sessions
    zh,         \* zh_: the session of the handle, 0 for nullptr
    connected,  \* connected_
    acls,       \* acl_map_ is filled
    freed,      \* handles given to zookeeper_close
    mu,         \* the holder of mu_
    call,       \* the call of each thread
    pc,         \* where it is
    level,      \* the prefix of its path that it is creating
    children,   \* what it has still to delete
    code,       \* the answer of ZooKeeper that decided its result
    result,     \* the value it returned
    misused,    \* threads that used a handle after zookeeper_close
    overtaken,  \* history: threads in CreateNode whose client was closed between
                \* their look at the connection and their lock
    claims,     \* history: creators answered TRUE whose node has not been removed
    standing,   \* history: listed children neither removed since nor tried in vain
    bereft      \* history: threads an ancestor of whose path has been removed

vars == <<nodes, owner, sessions, live, faults, zh, connected, acls, freed, mu, call,
          pc, level, children, code, result, misused, overtaken, claims, standing, bereft>>

tree    == <<nodes, owner>>
object  == <<zh, connected, acls>>
closing == <<freed, overtaken>>
session == <<sessions, live, closing>>
history == <<claims, standing, bereft>>

Parent(p) == SubSeq(p, 1, Len(p) - 1)

Above(p, q) == Len(p) < Len(q) /\ SubSeq(q, 1, Len(p)) = p

Me(t) == call[t].client

Init ==
    /\ nodes = {}
    /\ owner = [p \in Paths |-> 0]
    /\ mu = [c \in Clients |-> None]
    /\ \* constructed only, or initialised as well
       \E ready \in SUBSET Clients :
          LET number == CHOOSE f \in [ready -> 1..Cardinality(ready)] : IsInjective(f)
          IN  /\ zh = [c \in Clients |-> IF c \in ready THEN number[c] ELSE 0]
              /\ connected = [c \in Clients |-> c \in ready]
              /\ acls = connected
              /\ sessions = Cardinality(ready)
              /\ live = 1..sessions
    /\ faults = 0
    /\ freed = {}
    /\ call \in [Threads -> Calls]
    /\ pc = [t \in Threads |-> "start"]
    /\ level = [t \in Threads |-> 1]
    /\ children = [t \in Threads |-> {}]
    /\ code = [t \in Threads |-> "none"]
    /\ result = [t \in Threads |-> FALSE]
    /\ misused = {}
    /\ overtaken = {}
    /\ claims = {}
    /\ standing = [t \in Threads |-> {}]
    /\ bereft = {}

-----------------------------------------------------------------------------
(* ZooKeeper. *)

\* A request through a handle that is nullptr or of an expired session fails;
\* otherwise the answer is that of the service.  What a freed handle does is not
\* defined: it is taken to fail, and misused keeps who used it.
Through(c, answer) == IF zh[c] \in live \ freed THEN answer ELSE "session"

CreateAnswer(p) ==
    IF p \in nodes THEN "exists"
    ELSE IF Len(p) = 1 THEN "ok"
    ELSE IF Parent(p) \notin nodes THEN "nonode"
    ELSE IF owner[Parent(p)] # 0 THEN "ephemeral" ELSE "ok"

DeleteAnswer(p) ==
    IF p \notin nodes THEN "nonode"
    ELSE IF \E q \in nodes : Above(p, q) THEN "notempty" ELSE "ok"

\* What the client gets to know of it.
Told(c, answer) ==
    {Through(c, answer)} \cup
        IF zh[c] \in live \ freed /\ faults < MaxFaults THEN {"loss"} ELSE {}

Counted(told) == faults' = IF told = "loss" THEN faults + 1 ELSE faults

\* zoo_create of p for thread t, whose client is told `told`.
ZooCreate(t, p, s, told) ==
    LET answer == Through(Me(t), CreateAnswer(p))
    IN  /\ told \in Told(Me(t), answer)
        /\ Counted(told)
        /\ \/ /\ answer = "ok"
              /\ nodes' = nodes \cup {p}
              /\ owner' = [owner EXCEPT ![p] = s]
           \/ /\ answer # "ok" \/ told = "loss"
              /\ UNCHANGED tree

\* The nodes of gone cease to exist.
Removed(gone) ==
    /\ nodes' = nodes \ gone
    /\ owner' = [p \in Paths |-> IF p \in gone THEN 0 ELSE owner[p]]
    /\ claims' = {t \in claims : call[t].path \notin gone}
    /\ bereft' = bereft \cup {t \in Threads : \E p \in gone : Above(p, call[t].path)}

\* zoo_delete of p for thread t.
ZooDelete(t, p, told) ==
    LET answer == Through(Me(t), DeleteAnswer(p))
    IN  /\ told \in Told(Me(t), answer)
        /\ Counted(told)
        /\ \/ /\ answer = "ok"
              /\ Removed({p})
              /\ standing' = [u \in Threads |-> standing[u] \ {p}]
           \/ /\ answer # "ok" \/ told = "loss"
              /\ standing' = [standing EXCEPT ![t] = @ \ {p}]
              /\ UNCHANGED <<tree, claims, bereft>>

\* A session ends, and its ephemeral nodes with it.
End(s) ==
    LET gone == {p \in nodes : owner[p] = s}
    IN  /\ live' = live \ {s}
        /\ Removed(gone)
        /\ standing' = [u \in Threads |-> standing[u] \ gone]

Expire ==
    /\ faults < MaxFaults
    /\ faults' = faults + 1
    /\ \E s \in live : End(s)
    /\ UNCHANGED <<sessions, object, closing, mu, call, pc, level, children, code,
                   result, misused>>

-----------------------------------------------------------------------------
(* The calls. *)

Goto(t, from, to) ==
    /\ pc[t] = from
    /\ pc' = [pc EXCEPT ![t] = to]
    /\ UNCHANGED call

Return(t, c, r) ==
    /\ code' = [code EXCEPT ![t] = c]
    /\ result' = [result EXCEPT ![t] = r]

Continue == UNCHANGED <<code, result>>

\* zh_ == nullptr || !connected_
Disconnected(t) == zh[Me(t)] = 0 \/ ~connected[Me(t)]

\* A request is sent through the handle, closed or not.
Uses(t) == misused' = IF zh[Me(t)] \in freed THEN misused \cup {t} ELSE misused

\* The session a created node belongs to.
Mode(t) == IF call[t].ephemeral THEN zh[Me(t)] ELSE 0

\* Mutant: a handle that is no nullptr is taken for a connection.
CheckCreateHandle(t) ==
    /\ call[t].op = "create"
    /\ zh[Me(t)] # 0 /\ acls[Me(t)]
    /\ Goto(t, "start", "create")
    /\ level' = [level EXCEPT ![t] = Len(call[t].path)]
    /\ Continue
    /\ UNCHANGED <<tree, object, session, faults, mu, children, misused, history>>

\* CreateNode before its lock: the connection and the acl are looked at.  An
\* Init that runs meanwhile is before or after that, which is all its insertions
\* into acl_map_ can make of it short of a crash.  A path of one name has no
\* parents to create.
CheckCreate(t) ==
    /\ call[t].op = "create"
    /\ \/ /\ Disconnected(t) \/ ~acls[Me(t)]
          /\ Goto(t, "start", "done")
          /\ Return(t, "refused", FALSE)
          /\ UNCHANGED level
       \/ /\ ~Disconnected(t) /\ acls[Me(t)]
          /\ Continue
          /\ \/ /\ call[t].parents /\ Len(call[t].path) > 1
                /\ Goto(t, "start", "lock")
                /\ UNCHANGED level
             \/ /\ ~(call[t].parents /\ Len(call[t].path) > 1)
                /\ Goto(t, "start", "create")
                /\ level' = [level EXCEPT ![t] = Len(call[t].path)]
    /\ UNCHANGED <<tree, object, session, faults, mu, children, misused, history>>

\* The lock_guard of CreateParent.
LockParents(t) ==
    /\ mu[Me(t)] = None
    /\ mu' = [mu EXCEPT ![Me(t)] = t]
    /\ Goto(t, "lock", "parents")
    /\ Continue
    /\ UNCHANGED <<tree, object, session, faults, level, children, misused, history>>

\* Mutant: a parent that is there already is an error.
ToleratedOk == {"ok"}

\* The answers after which CreateParent goes on.
Tolerated == {"ok", "exists"}

\* Mutant: an error return leaves mu_ locked.
CreateParentKeepsLock(t) ==
    /\ pc[t] = "parents"
    /\ \E told \in {"loss", "session"} :
          /\ ZooCreate(t, SubSeq(call[t].path, 1, level[t]), 0, told)
          /\ Goto(t, "parents", "done")
          /\ Return(t, told, FALSE)
    /\ Uses(t)
    /\ UNCHANGED <<object, session, level, mu, children, history>>

\* One round of CreateParent's loop, and its return.
CreateParent(t) ==
    /\ pc[t] = "parents"
    /\ \E told \in {"ok", "exists", "nonode", "ephemeral", "loss", "session"} :
          /\ ZooCreate(t, SubSeq(call[t].path, 1, level[t]), 0, told)
          /\ \/ /\ told \in Tolerated
                /\ level' = [level EXCEPT ![t] = @ + 1]
                /\ Continue
                /\ \/ /\ level'[t] < Len(call[t].path)
                      /\ Goto(t, "parents", "parents")
                      /\ UNCHANGED mu
                   \/ /\ level'[t] = Len(call[t].path)
                      /\ Goto(t, "parents", "create")
                      /\ mu' = [mu EXCEPT ![Me(t)] = None]
             \/ /\ told \notin Tolerated
                /\ Goto(t, "parents", "done")
                /\ Return(t, told, FALSE)
                /\ mu' = [mu EXCEPT ![Me(t)] = None]
                /\ UNCHANGED level
    /\ Uses(t)
    /\ UNCHANGED <<object, session, children, history>>

\* Mutant: CreateNode accepts an existing node as CreateParent does.
CreateNodeOrFind(t) ==
    /\ mu[Me(t)] = None
    /\ Goto(t, "create", "done")
    /\ \E told \in {"ok", "exists", "nonode", "ephemeral", "loss", "session"} :
          /\ ZooCreate(t, call[t].path, Mode(t), told)
          /\ Return(t, told, told \in Tolerated)
          /\ claims' = IF told \in Tolerated THEN claims \cup {t} ELSE claims
    /\ Uses(t)
    /\ UNCHANGED <<object, session, mu, level, children, standing, bereft>>

\* CreateNode under its own lock; the connection is not looked at again.
CreateNode(t) ==
    /\ mu[Me(t)] = None
    /\ Goto(t, "create", "done")
    /\ \E told \in {"ok", "exists", "nonode", "ephemeral", "loss", "session"} :
          /\ ZooCreate(t, call[t].path, Mode(t), told)
          /\ Return(t, told, told = "ok")
          /\ claims' = IF told = "ok" THEN claims \cup {t} ELSE claims
    /\ Uses(t)
    /\ UNCHANGED <<object, session, mu, level, children, standing, bereft>>

\* The body of DeleteNode, told of "refused" when disconnected.
Delete(t, p, told) ==
    \/ /\ Disconnected(t)
       /\ told = "refused"
       /\ standing' = [standing EXCEPT ![t] = @ \ {p}]
       /\ UNCHANGED <<tree, claims, bereft, misused, faults>>
    \/ /\ ~Disconnected(t)
       /\ ZooDelete(t, p, told)
       /\ Uses(t)

Deletions == {"ok", "nonode", "notempty", "loss", "session", "refused"}

DeleteNode(t) ==
    /\ call[t].op = "delete"
    /\ mu[Me(t)] = None
    /\ Goto(t, "start", "done")
    /\ \E told \in Deletions :
          /\ Delete(t, call[t].path, told)
          /\ Return(t, told, told = "ok")
    /\ UNCHANGED <<object, session, mu, level, children>>

\* Mutant: the lock the comment warns of.
CheckDeleteAllLocks(t) ==
    /\ call[t].op = "delete_all"
    /\ mu[Me(t)] = None
    /\ ~Disconnected(t)
    /\ mu' = [mu EXCEPT ![Me(t)] = t]
    /\ Goto(t, "start", "list")
    /\ Continue
    /\ UNCHANGED <<tree, object, session, faults, level, children, misused, history>>

\* DeleteAllOfNodes looks at the connection without the lock.
CheckDeleteAll(t) ==
    /\ call[t].op = "delete_all"
    /\ \/ /\ Disconnected(t)
          /\ Goto(t, "start", "done")
          /\ Return(t, "refused", FALSE)
       \/ /\ ~Disconnected(t)
          /\ Goto(t, "start", "list")
          /\ Continue
    /\ UNCHANGED <<tree, object, session, faults, mu, level, children, misused, history>>

\* GetChildren of DeleteAllOfNodes.
ListChildren(t) ==
    LET path  == call[t].path
        below == {p \in nodes : Above(path, p) /\ Len(p) = Len(path) + 1}
        told  == IF Disconnected(t) THEN {"refused"}
                 ELSE Told(Me(t), IF path \in nodes THEN "ok" ELSE "nonode")
    IN  /\ mu[Me(t)] = None
        /\ pc[t] = "list"
        /\ \/ /\ "ok" \in told
              /\ children' = [children EXCEPT ![t] = below]
              /\ standing' = [standing EXCEPT ![t] = below]
              /\ Counted("ok")
              /\ \/ below = {} /\ Goto(t, "list", "done") /\ Return(t, "ok", TRUE)
                 \/ below # {} /\ Goto(t, "list", "children") /\ Continue
           \/ \E c \in told \ {"ok"} :
                 /\ Goto(t, "list", "done")
                 /\ Return(t, c, FALSE)
                 /\ Counted(c)
                 /\ UNCHANGED <<children, standing>>
        /\ IF Disconnected(t) THEN UNCHANGED misused ELSE Uses(t)
        /\ UNCHANGED <<tree, object, session, mu, level, claims, bereft>>

\* Mutant: the loop ends at the first deletion that fails.
DeleteChildOrStop(t) ==
    /\ mu[Me(t)] = None
    /\ pc[t] = "children"
    /\ \E p \in children[t], told \in Deletions :
          /\ Delete(t, p, told)
          /\ children' = [children EXCEPT ![t] = IF told = "ok" THEN @ \ {p} ELSE {}]
    /\ \/ children'[t] = {} /\ Goto(t, "children", "done") /\ Return(t, "ok", TRUE)
       \/ children'[t] # {} /\ Goto(t, "children", "children") /\ Continue
    /\ UNCHANGED <<object, session, mu, level>>

\* One round of the loop of DeleteAllOfNodes, which ignores what DeleteNode
\* returns.  The order of the children matters to nothing here and is left open.
DeleteChild(t) ==
    /\ mu[Me(t)] = None
    /\ pc[t] = "children"
    /\ \E p \in children[t] :
          /\ \E told \in Deletions : Delete(t, p, told)
          /\ children' = [children EXCEPT ![t] = @ \ {p}]
    /\ \/ children'[t] = {} /\ Goto(t, "children", "done") /\ Return(t, "ok", TRUE)
       \/ children'[t] # {} /\ Goto(t, "children", "children") /\ Continue
    /\ UNCHANGED <<object, session, mu, level>>

\* GetChildren, GetData, SetData and CheckNodeExisted.
Read(t) ==
    /\ call[t].op = "read"
    /\ mu[Me(t)] = None
    /\ Goto(t, "start", "done")
    /\ \/ /\ Disconnected(t)
          /\ Return(t, "refused", FALSE)
          /\ UNCHANGED <<misused, faults>>
       \/ /\ ~Disconnected(t)
          /\ \E c \in Told(Me(t), IF call[t].path \in nodes THEN "ok" ELSE "nonode") :
                Return(t, c, c = "ok") /\ Counted(c)
          /\ Uses(t)
    /\ UNCHANGED <<tree, object, session, mu, level, children, history>>

\* IsExistedPath: no lock and no look at the connection.
IsExistedPath(t) ==
    /\ call[t].op = "exists"
    /\ Goto(t, "start", "done")
    /\ \E c \in Told(Me(t), IF call[t].path \in nodes THEN "ok" ELSE "nonode") :
          Return(t, c, c = "ok") /\ Counted(c)
    /\ Uses(t)
    /\ UNCHANGED <<tree, object, session, mu, level, children, history>>

\* zookeeper_init gives a handle or nullptr; an earlier handle is dropped
\* without being closed.
NewHandle(t) ==
    \/ /\ sessions' = sessions + 1
       /\ live' = live \cup {sessions'}
       /\ zh' = [zh EXCEPT ![Me(t)] = sessions']
       /\ connected' = [connected EXCEPT ![Me(t)] = TRUE]
       /\ Return(t, "ok", TRUE)
    \/ /\ zh' = [zh EXCEPT ![Me(t)] = 0]
       /\ Return(t, "session", FALSE)
       /\ UNCHANGED <<sessions, live, connected>>

\* Init and ConnectZK; only Init fills acl_map_.
ConnectZK(t) ==
    /\ call[t].op \in {"init", "connect"}
    /\ mu[Me(t)] = None
    /\ Goto(t, "start", "done")
    /\ NewHandle(t)
    /\ acls' = [acls EXCEPT ![Me(t)] = @ \/ call[t].op = "init"]
    /\ UNCHANGED <<tree, faults, closing, mu, level, children, misused, history>>

\* zookeeper_close frees the handle whatever it returns; the service hears of
\* it, or the session goes on until it expires.
ZookeeperClose(t) ==
    /\ Uses(t)
    /\ freed' = freed \cup {zh[Me(t)]}
    /\ \/ End(zh[Me(t)])
       \/ UNCHANGED <<tree, live, history>>

\* CloseZK leaves zh_ as it is, and when zookeeper_close returns an error
\* connected_ as well.
CloseZK(t) ==
    /\ call[t].op = "close"
    /\ mu[Me(t)] = None
    /\ Goto(t, "start", "done")
    /\ \/ /\ Disconnected(t)
          /\ Return(t, "refused", FALSE)
          /\ UNCHANGED <<tree, faults, connected, live, closing, misused, history>>
       \/ /\ ~Disconnected(t)
          /\ ZookeeperClose(t)
          /\ overtaken' = overtaken \cup
                 {u \in Threads : Me(u) = Me(t) /\ pc[u] \in {"lock", "create"}}
          /\ \/ /\ connected' = [connected EXCEPT ![Me(t)] = FALSE]
                /\ Return(t, "ok", TRUE)
                /\ Counted("ok")
             \/ /\ faults < MaxFaults
                /\ Counted("loss")
                /\ Return(t, "loss", FALSE)
                /\ UNCHANGED connected
    /\ UNCHANGED <<sessions, zh, acls, mu, level, children>>

-----------------------------------------------------------------------------

Run(t) ==
    \/ CheckCreate(t) \/ LockParents(t) \/ CreateParent(t) \/ CreateNode(t)
    \/ DeleteNode(t) \/ CheckDeleteAll(t) \/ ListChildren(t) \/ DeleteChild(t)
    \/ Read(t) \/ IsExistedPath(t) \/ ConnectZK(t) \/ CloseZK(t)

Next == Expire \/ \E t \in Threads : Run(t)

\* Threads are scheduled; mu_ is released after finitely many requests, and
\* with one call per thread it is wanted finitely often.
Fairness == \A t \in Threads : WF_vars(Run(t))

Spec == Init /\ [][Next]_vars

FairSpec == Spec /\ Fairness

-----------------------------------------------------------------------------
(* Properties. *)

\* Types, and mu_ is not held by a thread that has returned (zk.h:146-172).
TypeOK ==
    /\ nodes \subseteq Paths
    /\ owner \in [Paths -> 0..sessions]
    /\ live \subseteq 1..sessions
    /\ freed \subseteq 1..sessions
    /\ zh \in [Clients -> 0..sessions]
    /\ connected \in [Clients -> BOOLEAN]
    /\ acls \in [Clients -> BOOLEAN]
    /\ mu \in [Clients -> Threads \cup {None}]
    /\ \A c \in Clients : mu[c] # None => pc[mu[c]] # "done" /\ Me(mu[c]) = c
    /\ call \in [Threads -> Calls]
    /\ \A t \in Threads : level[t] \in 1..Len(call[t].path)
    /\ children \in [Threads -> SUBSET Paths]
    /\ result \in [Threads -> BOOLEAN]
    /\ misused \subseteq Threads
    /\ overtaken \subseteq Threads
    /\ claims \subseteq Threads

\* Of all CreateNode calls for a path, through any client, one is answered true
\* until the node is removed (zk.h:135-138): "do not duplicate the same node",
\* test/client/zk_test.cpp:45-47.
ClaimsAreExclusive ==
    \A t \in claims :
        /\ call[t].path \in nodes
        /\ \A u \in claims : call[u].path = call[t].path => u = t

\* CreateNode with create_parent never fails because of its parents
\* (zk.h:126-131, 160-172) though other threads create and delete the same ones:
\* an existing node is its own, a missing parent has been removed since, and a
\* parent that can have no children is one somebody asked to be ephemeral.
ParentsAreNoObstacle ==
    \A t \in Threads :
        pc[t] = "done" /\ call[t].op = "create" /\ call[t].parents =>
            /\ code[t] = "exists" => level[t] = Len(call[t].path)
            /\ code[t] = "nonode" => t \in bereft
            /\ code[t] = "ephemeral" =>
                  \E u \in Threads : call[u].ephemeral /\ Above(call[u].path, call[t].path)

\* When DeleteAllOfNodes returns true, each child it listed has been removed
\* since, by it or by another, or its own attempt has failed: one failure does
\* not end the loop (zk.h:286-291).
DeleteAllTriesAll ==
    \A t \in Threads :
        pc[t] = "done" /\ call[t].op = "delete_all" /\ result[t] => standing[t] = {}

\* CloseZK of the client has been answered an error by zookeeper_close.
CloseFailed(c) ==
    \E u \in Threads :
        Me(u) = c /\ call[u].op = "close" /\ pc[u] = "done" /\ code[u] = "loss"

\* A call that looks at the connection uses a handle that zookeeper_close has
\* freed in two cases only: a CloseZK came between the look of CreateNode and one
\* of its locks (zk.h:116, 133, 146), or zookeeper_close returned an error, after
\* which CloseZK leaves the client connected (zk.h:267-272).  So after a CloseZK
\* that returned true no call that begins uses the handle, parents are not created
\* through one that is closed meanwhile, and a new connection is not an old one.
FreedHandlesStayUnused ==
    \A t \in misused :
        call[t].op = "exists" \/ t \in overtaken \/ CloseFailed(Me(t))

\* Every call returns: no method takes mu_ when it holds it (zk.h:275-277) and
\* none returns with it.
EveryCallReturns == \A t \in Threads : <>(pc[t] = "done")
=============================================================================
