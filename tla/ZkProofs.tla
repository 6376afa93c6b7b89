------------------------------ MODULE ZkProofs ------------------------------
(***************************************************************************)
(* Theorems about ZkClient, for every set of threads, calls and paths.     *)
(***************************************************************************)
EXTENDS ZkClient, FiniteSetTheorems, FunctionTheorems, SequenceTheorems, TLAPS

Steps == {"start", "lock", "parents", "create", "list", "children", "done"}

\* What may decide a result (the answers of ZooKeeper, and its own checks).
Codes ==
    {"none", "refused", "ok", "exists", "nonode", "ephemeral", "notempty", "loss", "session"}

\* The types of all variables.
Types ==
    /\ nodes \subseteq Paths
    /\ sessions \in Nat
    /\ owner \in [Paths -> 0..sessions]
    /\ live \subseteq 1..sessions
    /\ freed \subseteq 1..sessions
    /\ zh \in [Clients -> 0..sessions]
    /\ connected \in [Clients -> BOOLEAN]
    /\ acls \in [Clients -> BOOLEAN]
    /\ mu \in [Clients -> Threads \cup {None}]
    /\ call \in [Threads -> Calls]
    /\ pc \in [Threads -> Steps]
    /\ level \in [Threads -> Nat]
    /\ children \in [Threads -> SUBSET Paths]
    /\ code \in [Threads -> Codes]
    /\ result \in [Threads -> BOOLEAN]
    /\ misused \subseteq Threads
    /\ overtaken \subseteq Threads
    /\ claims \subseteq Threads
    /\ standing \in [Threads -> SUBSET Paths]
    /\ bereft \subseteq Threads

\* Where a thread is says what it does and how far it is.
At(t) ==
    /\ level[t] \in 1..Len(call[t].path)
    /\ pc[t] = "start" => level[t] = 1
    /\ pc[t] \in {"lock", "parents", "create"} => call[t].op = "create"
    /\ pc[t] \in {"lock", "parents"} => call[t].parents /\ level[t] < Len(call[t].path)
    /\ pc[t] = "create" => level[t] = Len(call[t].path)
    /\ pc[t] \in {"list", "children"} => call[t].op = "delete_all"

\* mu_ is held by a thread in CreateParent, on that object, and by each of them.
Held ==
    /\ \A c \in Clients : mu[c] # None => pc[mu[c]] = "parents" /\ Me(mu[c]) = c
    /\ \A t \in Threads : pc[t] = "parents" => mu[Me(t)] = t

Control == Held /\ \A t \in Threads : At(t)

\* Why the handle of t's client may be a freed one.
StaleFor(t) == t \in overtaken \/ CloseFailed(Me(t))

\* A thread in CreateNode, which has looked at the connection.
Looked(t) ==
    pc[t] \in {"lock", "parents", "create"} /\ zh[Me(t)] \in freed => StaleFor(t)

\* Handles are of different sessions; one that is connected is freed only when
\* closing it has failed.
Handles ==
    /\ \A c, d \in Clients : zh[c] # 0 /\ zh[c] = zh[d] => c = d
    /\ \A c \in Clients : connected[c] /\ zh[c] \in freed => CloseFailed(c)
    /\ \A t \in Threads : Looked(t)
    /\ FreedHandlesStayUnused

\* The first n - 1 parents of the path of t are there, if none has been removed.
Passed(t, n) ==
    t \notin bereft => \A i \in 1 .. n - 1 : SubSeq(call[t].path, 1, i) \in nodes

Climbs(t) ==
    pc[t] \in {"lock", "parents", "create"} /\ call[t].parents => Passed(t, level[t])

\* An owner is given to a path somebody asks to be ephemeral.
Owners ==
    \A p \in Paths : owner[p] # 0 => \E t \in Threads : call[t].ephemeral /\ call[t].path = p

\* Why a call of t that wanted parents has failed: ParentsAreNoObstacle of it.
Excused(t) ==
    pc[t] = "done" /\ call[t].op = "create" /\ call[t].parents =>
        /\ code[t] = "exists" => level[t] = Len(call[t].path)
        /\ code[t] = "nonode" => t \in bereft
        /\ code[t] = "ephemeral" =>
              \E u \in Threads : call[u].ephemeral /\ Above(call[u].path, call[t].path)

Parents == Owners /\ \A t \in Threads : Climbs(t) /\ Excused(t)

\* What is left of the list is still to be tried; DeleteAllTriesAll of t.
Tries(t) ==
    /\ pc[t] = "children" => standing[t] \subseteq children[t]
    /\ pc[t] = "done" /\ call[t].op = "delete_all" /\ result[t] => standing[t] = {}

Lists == \A t \in Threads : Tries(t)

\* The inductive invariant.
ZkInv ==
    /\ Types
    /\ Control
    /\ Handles
    /\ ClaimsAreExclusive
    /\ Parents
    /\ Lists

-----------------------------------------------------------------------------
(* What the parts of the actions do. *)

LEMMA CallType ==
    ASSUME Types, NEW t \in Threads
    PROVE  /\ call[t].client \in Clients /\ Me(t) \in Clients
           /\ call[t].path \in Paths
           /\ Len(call[t].path) \in Nat \ {0}
           /\ call[t].op \in Ops
           /\ call[t].ephemeral \in BOOLEAN
           /\ call[t].parents \in BOOLEAN
<1>1. call[t] \in [client : Clients, op : Ops, path : Paths,
                   ephemeral : BOOLEAN, parents : BOOLEAN]
  BY CallAssumption DEF Types
<1>2. call[t].path \in Seq(Range(call[t].path)) /\ Len(call[t].path) > 0
  BY <1>1, PathAssumption
<1>3. Len(call[t].path) \in Nat
  BY <1>2, LenProperties
<1> QED BY <1>1, <1>2, <1>3 DEF Me

\* The parents of a path are paths above it.
LEMMA PrefixFacts ==
    ASSUME NEW p \in Paths, NEW i \in 1..Len(p)
    PROVE  /\ SubSeq(p, 1, i) \in Paths
           /\ Len(SubSeq(p, 1, i)) = i
           /\ i < Len(p) => Above(SubSeq(p, 1, i), p)
           /\ i > 1 => Parent(SubSeq(p, 1, i)) = SubSeq(p, 1, i - 1)
           /\ i = Len(p) => SubSeq(p, 1, i) = p
<1>1. p \in Seq(Range(p)) /\ SubSeq(p, 1, i) \in Paths
  BY PathAssumption
<1>2. Len(p) \in Nat /\ i \in Nat /\ i >= 1
  BY <1>1, LenProperties
<1>3. \A j \in 1..i : p[j] \in Range(p)
  BY <1>1, <1>2, ElementOfSeq
<1>4. SubSeq(p, 1, i) \in Seq(Range(p)) /\ Len(SubSeq(p, 1, i)) = i
  BY <1>2, <1>3, SubSeqProperties
<1>5. i > 1 => SubSeq(SubSeq(p, 1, i), 1, i - 1) = SubSeq(p, 1, i - 1)
  BY <1>1, <1>2, <1>4 DEF Range
<1>6. i = Len(p) => SubSeq(p, 1, i) = p
  BY <1>1, SubSeqFull
<1> QED BY <1>1, <1>2, <1>4, <1>5, <1>6 DEF Above, Parent

\* A node created or not, its owner is a session.
LEMMA CreateTypes ==
    ASSUME Types, NEW t \in Threads, NEW p \in Paths, NEW s \in 0..sessions, NEW told,
           ZooCreate(t, p, s, told)
    PROVE  /\ nodes' \subseteq Paths
           /\ owner' \in [Paths -> 0..sessions]
BY DEF Types, ZooCreate, tree

LEMMA RemovedTypes ==
    ASSUME Types, NEW gone, Removed(gone)
    PROVE  /\ nodes' \subseteq Paths
           /\ owner' \in [Paths -> 0..sessions]
           /\ claims' \subseteq Threads
           /\ bereft' \subseteq Threads
BY DEF Types, Removed

LEMMA DeleteTypes ==
    ASSUME Types, NEW t \in Threads, NEW p, NEW told, Delete(t, p, told)
    PROVE  /\ nodes' \subseteq Paths
           /\ owner' \in [Paths -> 0..sessions]
           /\ claims' \subseteq Threads
           /\ bereft' \subseteq Threads
           /\ standing' \in [Threads -> SUBSET Paths]
           /\ misused' \subseteq Threads
<1>1. CASE Disconnected(t)
  BY <1>1 DEF Types, Delete, tree
<1>2. CASE ~Disconnected(t)
  <2>1. misused' \subseteq Threads
    BY <1>2 DEF Types, Delete, Uses
  <2>2. ZooDelete(t, p, told)
    BY <1>2 DEF Delete
  <2>3. CASE Removed({p}) /\ standing' = [u \in Threads |-> standing[u] \ {p}]
    <3>1. standing' \in [Threads -> SUBSET Paths]
      BY <2>3 DEF Types
    <3> QED BY <2>1, <2>3, <3>1, RemovedTypes
  <2>4. CASE standing' = [standing EXCEPT ![t] = @ \ {p}] /\ UNCHANGED <<tree, claims, bereft>>
    <3>1. standing' \in [Threads -> SUBSET Paths]
      BY <2>4 DEF Types
    <3> QED BY <2>1, <2>4, <3>1 DEF Types, tree
  <2> QED BY <2>2, <2>3, <2>4 DEF ZooDelete
<1> QED BY <1>1, <1>2

LEMMA EndTypes ==
    ASSUME Types, NEW s, End(s)
    PROVE  /\ nodes' \subseteq Paths
           /\ owner' \in [Paths -> 0..sessions]
           /\ live' \subseteq 1..sessions
           /\ claims' \subseteq Threads
           /\ bereft' \subseteq Threads
           /\ standing' \in [Threads -> SUBSET Paths]
<1> DEFINE gone == {p \in nodes : owner[p] = s}
<1>1. Removed(gone) /\ live' = live \ {s}
      /\ standing' = [u \in Threads |-> standing[u] \ gone]
  BY DEF End
<1>2. standing' \in [Threads -> SUBSET Paths]
  BY <1>1 DEF Types
<1>3. live' \subseteq 1..sessions
  BY <1>1 DEF Types
<1> HIDE DEF gone
<1> QED BY <1>1, <1>2, <1>3, RemovedTypes

LEMMA RunTypes ==
    ASSUME Types, Control, NEW t \in Threads, Run(t)
    PROVE  Types'
<1>0. Me(t) \in Clients /\ call[t].path \in Paths /\ Len(call[t].path) \in Nat \ {0}
  BY CallType
<1> USE DEF Goto, Return, Continue, object, session, closing, history, tree, Steps, Codes
<1>1. CASE CheckCreate(t)
  BY <1>0, <1>1 DEF CheckCreate, Types
<1>2. CASE LockParents(t)
  BY <1>0, <1>2 DEF LockParents, Types
<1>3. CASE CreateParent(t)
  <2>1. PICK told \in {"ok", "exists", "nonode", "ephemeral", "loss", "session"} :
            /\ ZooCreate(t, SubSeq(call[t].path, 1, level[t]), 0, told)
            /\ \/ /\ level' = [level EXCEPT ![t] = @ + 1]
                  /\ Continue
                  /\ \/ Goto(t, "parents", "parents") /\ UNCHANGED mu
                     \/ Goto(t, "parents", "create") /\ mu' = [mu EXCEPT ![Me(t)] = None]
               \/ /\ Goto(t, "parents", "done")
                  /\ Return(t, told, FALSE)
                  /\ mu' = [mu EXCEPT ![Me(t)] = None]
                  /\ UNCHANGED level
    BY <1>3 DEF CreateParent
  <2>2. SubSeq(call[t].path, 1, level[t]) \in Paths
    BY <1>0, <1>3, PrefixFacts DEF CreateParent, Control, At
  <2>3. 0 \in 0..sessions
    BY DEF Types
  <2>4. nodes' \subseteq Paths /\ owner' \in [Paths -> 0..sessions]
    BY <2>1, <2>2, <2>3, CreateTypes
  <2>5. code' \in [Threads -> Codes] /\ result' \in [Threads -> BOOLEAN]
    BY <2>1 DEF Types
  <2>6. level' \in [Threads -> Nat] /\ pc' \in [Threads -> Steps] /\ call' = call
    BY <2>1 DEF Types
  <2>7. mu' \in [Clients -> Threads \cup {None}]
    BY <1>0, <2>1 DEF Types
  <2>8. misused' \subseteq Threads
    BY <1>3 DEF CreateParent, Uses, Types
  <2> QED BY <1>3, <2>4, <2>5, <2>6, <2>7, <2>8 DEF CreateParent, Types
<1>4. CASE CreateNode(t)
  <2>1. PICK told \in {"ok", "exists", "nonode", "ephemeral", "loss", "session"} :
            /\ ZooCreate(t, call[t].path, Mode(t), told)
            /\ Return(t, told, told = "ok")
            /\ claims' = IF told = "ok" THEN claims \cup {t} ELSE claims
    BY <1>4 DEF CreateNode
  <2>2. Mode(t) \in 0..sessions
    BY <1>0 DEF Mode, Types
  <2>3. nodes' \subseteq Paths /\ owner' \in [Paths -> 0..sessions]
    BY <1>0, <2>1, <2>2, CreateTypes
  <2>4. code' \in [Threads -> Codes] /\ result' \in [Threads -> BOOLEAN]
    BY <2>1 DEF Types
  <2>5. claims' \subseteq Threads
    BY <2>1 DEF Types
  <2>6. misused' \subseteq Threads
    BY <1>4 DEF CreateNode, Uses, Types
  <2> QED BY <1>4, <2>3, <2>4, <2>5, <2>6 DEF CreateNode, Types
<1>5. CASE DeleteNode(t)
  <2>1. PICK told \in Deletions :
            Delete(t, call[t].path, told) /\ Return(t, told, told = "ok")
    BY <1>5 DEF DeleteNode
  <2>2. code' \in [Threads -> Codes] /\ result' \in [Threads -> BOOLEAN]
    BY <2>1 DEF Types, Deletions
  <2>3. /\ nodes' \subseteq Paths
        /\ owner' \in [Paths -> 0..sessions]
        /\ claims' \subseteq Threads
        /\ bereft' \subseteq Threads
        /\ standing' \in [Threads -> SUBSET Paths]
        /\ misused' \subseteq Threads
    BY <2>1, DeleteTypes
  <2> QED BY <1>0, <1>5, <2>2, <2>3 DEF DeleteNode, Types
<1>6. CASE CheckDeleteAll(t)
  BY <1>0, <1>6 DEF CheckDeleteAll, Types
<1>7. CASE ListChildren(t)
  <2> DEFINE path == call[t].path
             below == {p \in nodes : Above(path, p) /\ Len(p) = Len(path) + 1}
             told == IF Disconnected(t) THEN {"refused"}
                     ELSE Told(Me(t), IF path \in nodes THEN "ok" ELSE "nonode")
  <2>1. told \subseteq Codes
    BY DEF Told, Through
  <2>2. below \in SUBSET Paths
    BY DEF Types
  <2>3. \/ /\ children' = [children EXCEPT ![t] = below]
           /\ standing' = [standing EXCEPT ![t] = below]
           /\ \/ Goto(t, "list", "done") /\ Return(t, "ok", TRUE)
              \/ Goto(t, "list", "children") /\ Continue
        \/ \E c \in told :
              Goto(t, "list", "done") /\ Return(t, c, FALSE) /\ UNCHANGED <<children, standing>>
    BY <1>7 DEF ListChildren
  <2> HIDE DEF below, told
  <2>4. children' \in [Threads -> SUBSET Paths] /\ standing' \in [Threads -> SUBSET Paths]
    BY <2>2, <2>3 DEF Types
  <2>5. code' \in [Threads -> Codes] /\ result' \in [Threads -> BOOLEAN]
    BY <2>1, <2>3 DEF Types
  <2>6. pc' \in [Threads -> Steps] /\ call' = call
    BY <2>3 DEF Types
  <2>7. misused' \subseteq Threads
    BY <1>7 DEF ListChildren, Uses, Types
  <2> QED BY <1>7, <2>4, <2>5, <2>6, <2>7 DEF ListChildren, Types
<1>8. CASE DeleteChild(t)
  <2>1. PICK p \in children[t], told \in Deletions :
            Delete(t, p, told) /\ children' = [children EXCEPT ![t] = @ \ {p}]
    BY <1>8 DEF DeleteChild
  <2>2. children' \in [Threads -> SUBSET Paths]
    BY <2>1 DEF Types
  <2>3. /\ nodes' \subseteq Paths
        /\ owner' \in [Paths -> 0..sessions]
        /\ claims' \subseteq Threads
        /\ bereft' \subseteq Threads
        /\ standing' \in [Threads -> SUBSET Paths]
        /\ misused' \subseteq Threads
    BY <2>1, DeleteTypes
  <2> QED BY <1>0, <1>8, <2>2, <2>3 DEF DeleteChild, Types
<1>9. CASE Read(t)
  <2>1. /\ pc' \in [Threads -> Steps] /\ call' = call
        /\ misused' \subseteq Threads
    BY <1>9 DEF Read, Uses, Types
  <2>2. PICK c \in Codes : Return(t, c, c = "ok")
    <3>1. CASE Return(t, "refused", FALSE)
      BY <3>1
    <3>2. CASE ~Disconnected(t)
      BY <1>9, <3>2 DEF Read, Told, Through
    <3> QED BY <1>9, <3>1, <3>2 DEF Read
  <2>3. code' \in [Threads -> Codes] /\ result' \in [Threads -> BOOLEAN]
    BY <2>2 DEF Types
  <2> QED BY <1>9, <2>1, <2>3 DEF Read, Types
<1>10. CASE IsExistedPath(t)
  BY <1>0, <1>10 DEF IsExistedPath, Types, Told, Through, Uses
<1>11. CASE ConnectZK(t)
  <2>1. acls' \in [Clients -> BOOLEAN]
    BY <1>0, <1>11 DEF ConnectZK, Types
  <2>2. NewHandle(t)
    BY <1>11 DEF ConnectZK
  <2>3. CASE /\ sessions' = sessions + 1
             /\ live' = live \cup {sessions'}
             /\ zh' = [zh EXCEPT ![Me(t)] = sessions']
             /\ connected' = [connected EXCEPT ![Me(t)] = TRUE]
             /\ Return(t, "ok", TRUE)
    <3>1. /\ sessions' \in Nat /\ 0..sessions \subseteq 0..sessions'
          /\ 1..sessions \subseteq 1..sessions' /\ sessions' \in 1..sessions'
      BY <2>3 DEF Types
    <3>2. zh' \in [Clients -> 0..sessions'] /\ connected' \in [Clients -> BOOLEAN]
          /\ live' \subseteq 1..sessions' /\ code' \in [Threads -> Codes]
          /\ result' \in [Threads -> BOOLEAN]
      <4>1. zh' \in [Clients -> 0..sessions']
        BY <1>0, <2>3, <3>1 DEF Types
      <4>2. connected' \in [Clients -> BOOLEAN]
        BY <2>3 DEF Types
      <4>3. live' \subseteq 1..sessions'
        BY <2>3, <3>1 DEF Types
      <4>4. code' \in [Threads -> Codes] /\ result' \in [Threads -> BOOLEAN]
        BY <2>3 DEF Types
      <4> QED BY <4>1, <4>2, <4>3, <4>4
    <3>3. owner' \in [Paths -> 0..sessions'] /\ freed' \subseteq 1..sessions'
      BY <1>11, <3>1 DEF ConnectZK, Types
    <3> QED BY <1>11, <2>1, <3>1, <3>2, <3>3 DEF ConnectZK, Types
  <2>4. CASE /\ zh' = [zh EXCEPT ![Me(t)] = 0]
             /\ Return(t, "session", FALSE)
             /\ UNCHANGED <<sessions, live, connected>>
    <3>1. zh' \in [Clients -> 0..sessions'] /\ code' \in [Threads -> Codes]
          /\ result' \in [Threads -> BOOLEAN]
      BY <1>0, <2>4 DEF Types
    <3> QED BY <1>11, <2>1, <2>4, <3>1 DEF ConnectZK, Types
  <2> QED BY <2>2, <2>3, <2>4 DEF NewHandle
<1>12. CASE CloseZK(t)
  <2>1. /\ pc' \in [Threads -> Steps] /\ call' = call
        /\ code' \in [Threads -> Codes] /\ result' \in [Threads -> BOOLEAN]
    BY <1>12 DEF CloseZK, Types
  <2>2. misused' \subseteq Threads
    BY <1>12 DEF CloseZK, ZookeeperClose, Uses, Types
  <2>3. CASE Disconnected(t)
    BY <1>12, <2>1, <2>2, <2>3 DEF CloseZK, Types
  <2>4. CASE ~Disconnected(t)
    <3>1. /\ freed' = freed \cup {zh[Me(t)]}
          /\ End(zh[Me(t)]) \/ UNCHANGED <<tree, live, history>>
      BY <1>12, <2>4 DEF CloseZK, ZookeeperClose
    <3>2. zh[Me(t)] \in 1..sessions
      BY <1>0, <2>4 DEF Disconnected, Types
    <3>3. freed' \subseteq 1..sessions
      BY <3>1, <3>2 DEF Types
    <3>4. connected' \in [Clients -> BOOLEAN] /\ overtaken' \subseteq Threads
      BY <1>12, <2>4 DEF CloseZK, Types
    <3>5. /\ nodes' \subseteq Paths
          /\ owner' \in [Paths -> 0..sessions]
          /\ live' \subseteq 1..sessions
          /\ claims' \subseteq Threads
          /\ bereft' \subseteq Threads
          /\ standing' \in [Threads -> SUBSET Paths]
      <4>1. CASE End(zh[Me(t)])
        BY <4>1, EndTypes
      <4>2. CASE UNCHANGED <<tree, live, history>>
        BY <4>2 DEF Types
      <4> QED BY <3>1, <4>1, <4>2
    <3> QED BY <1>12, <2>1, <2>2, <3>3, <3>4, <3>5 DEF CloseZK, Types
  <2> QED BY <2>3, <2>4
<1> QED
  BY <1>1, <1>2, <1>3, <1>4, <1>5, <1>6, <1>7, <1>8, <1>9, <1>10, <1>11, <1>12 DEF Run

\* A step of a thread leaves the others where they are.
LEMMA RunLocal ==
    ASSUME Types, NEW t \in Threads, Run(t)
    PROVE  /\ call' = call
           /\ \A u \in Threads \ {t} :
                  /\ pc'[u] = pc[u]
                  /\ level'[u] = level[u]
                  /\ children'[u] = children[u]
                  /\ code'[u] = code[u]
                  /\ result'[u] = result[u]
<1> USE DEF Goto, Return, Continue
<1>1. CASE CheckCreate(t)
  BY <1>1 DEF CheckCreate, Types
<1>2. CASE LockParents(t)
  BY <1>2 DEF LockParents, Types
<1>3. CASE CreateParent(t)
  BY <1>3 DEF CreateParent, Types
<1>4. CASE CreateNode(t)
  BY <1>4 DEF CreateNode, Types
<1>5. CASE DeleteNode(t)
  BY <1>5 DEF DeleteNode, Types
<1>6. CASE CheckDeleteAll(t)
  BY <1>6 DEF CheckDeleteAll, Types
<1>7. CASE ListChildren(t)
  BY <1>7 DEF ListChildren, Types
<1>8. CASE DeleteChild(t)
  BY <1>8 DEF DeleteChild, Types
<1>9. CASE Read(t)
  BY <1>9 DEF Read, Types
<1>10. CASE IsExistedPath(t)
  BY <1>10 DEF IsExistedPath, Types
<1>11. CASE ConnectZK(t)
  BY <1>11 DEF ConnectZK, NewHandle, Types
<1>12. CASE CloseZK(t)
  BY <1>12 DEF CloseZK, Types
<1> QED
  BY <1>1, <1>2, <1>3, <1>4, <1>5, <1>6, <1>7, <1>8, <1>9, <1>10, <1>11, <1>12 DEF Run

LEMMA RunAt ==
    ASSUME Types, Control, NEW t \in Threads, Run(t)
    PROVE  At(t)'
<1>0. Len(call[t].path) \in Nat \ {0} /\ At(t)
  BY CallType DEF Control
<1> USE DEF Goto, Continue, At
<1>1. CASE CheckCreate(t)
  <2>1. call' = call /\ pc[t] = "start" /\ level[t] = 1 /\ call[t].op = "create"
    BY <1>0, <1>1 DEF CheckCreate
  <2>2. \/ pc'[t] = "done" /\ level'[t] = 1
        \/ pc'[t] = "lock" /\ level'[t] = 1 /\ call[t].parents /\ Len(call[t].path) > 1
        \/ pc'[t] = "create" /\ level'[t] = Len(call[t].path)
    BY <1>1, <2>1 DEF CheckCreate, Types
  <2> QED BY <1>0, <2>1, <2>2
<1>2. CASE LockParents(t)
  BY <1>0, <1>2 DEF LockParents, Types
<1>3. CASE CreateParent(t)
  <2>1. call' = call /\ pc[t] = "parents"
    BY <1>3 DEF CreateParent
  <2>2. \/ /\ level' = [level EXCEPT ![t] = @ + 1]
           /\ \/ pc' = [pc EXCEPT ![t] = "parents"] /\ level'[t] < Len(call[t].path)
              \/ pc' = [pc EXCEPT ![t] = "create"] /\ level'[t] = Len(call[t].path)
        \/ level' = level /\ pc' = [pc EXCEPT ![t] = "done"]
    BY <1>3 DEF CreateParent
  <2>3. \/ /\ level'[t] = level[t] + 1
           /\ \/ pc'[t] = "parents" /\ level'[t] < Len(call[t].path)
              \/ pc'[t] = "create" /\ level'[t] = Len(call[t].path)
        \/ level'[t] = level[t] /\ pc'[t] = "done"
    BY <2>2 DEF Types
  <2>4. level[t] \in 1..Len(call[t].path) /\ call[t].op = "create" /\ call[t].parents
        /\ level[t] < Len(call[t].path)
    BY <1>0, <2>1
  <2> QED BY <1>0, <2>1, <2>3, <2>4
<1>4. CASE CreateNode(t)
  BY <1>0, <1>4 DEF CreateNode, Types
<1>5. CASE DeleteNode(t)
  BY <1>0, <1>5 DEF DeleteNode, Types
<1>6. CASE CheckDeleteAll(t)
  BY <1>0, <1>6 DEF CheckDeleteAll, Types
<1>7. CASE ListChildren(t)
  BY <1>0, <1>7 DEF ListChildren, Types
<1>8. CASE DeleteChild(t)
  BY <1>0, <1>8 DEF DeleteChild, Types
<1>9. CASE Read(t)
  BY <1>0, <1>9 DEF Read, Types
<1>10. CASE IsExistedPath(t)
  BY <1>0, <1>10 DEF IsExistedPath, Types
<1>11. CASE ConnectZK(t)
  BY <1>0, <1>11 DEF ConnectZK, Types
<1>12. CASE CloseZK(t)
  BY <1>0, <1>12 DEF CloseZK, Types
<1> QED
  BY <1>1, <1>2, <1>3, <1>4, <1>5, <1>6, <1>7, <1>8, <1>9, <1>10, <1>11, <1>12 DEF Run

\* mu_ is held by a thread in CreateParent and by no other.
LEMMA RunHeld ==
    ASSUME Types, Control, NEW t \in Threads, Run(t)
    PROVE  Held'
<1>0. Me(t) \in Clients /\ Held /\ None \notin Threads /\ \A u \in Threads : Me(u) \in Clients
  BY CallType, CallAssumption DEF Control
<1>1. call' = call /\ \A u \in Threads \ {t} : pc'[u] = pc[u]
  BY RunLocal
<1>2. \A c \in Clients : mu[c] \in Threads \cup {None}
  BY DEF Types
<1>3. CASE LockParents(t)
  <2>1. mu' = [mu EXCEPT ![Me(t)] = t] /\ pc'[t] = "parents" /\ mu[Me(t)] = None
    BY <1>3 DEF LockParents, Goto, Types
  <2>2. \A c \in Clients : mu'[c] = IF c = Me(t) THEN t ELSE mu[c]
    BY <1>0, <2>1 DEF Types
  <2>3. pc[t] = "lock"
    BY <1>3 DEF LockParents, Goto
  <2> QED BY <1>0, <1>1, <1>2, <2>1, <2>2, <2>3 DEF Held, Me
<1>4. CASE CreateParent(t)
  <2>1. \/ mu' = mu /\ pc'[t] = "parents"
        \/ mu' = [mu EXCEPT ![Me(t)] = None] /\ pc'[t] # "parents"
    BY <1>4 DEF CreateParent, Goto, Types
  <2>2. pc[t] = "parents" /\ mu[Me(t)] = t
    BY <1>0, <1>4 DEF CreateParent, Held
  <2>3. CASE mu' = mu /\ pc'[t] = "parents"
    BY <1>0, <1>1, <1>2, <2>2, <2>3 DEF Held, Me
  <2>4. CASE mu' = [mu EXCEPT ![Me(t)] = None] /\ pc'[t] # "parents"
    <3>1. \A c \in Clients : mu'[c] = IF c = Me(t) THEN None ELSE mu[c]
      BY <1>0, <2>4 DEF Types
    <3> QED BY <1>0, <1>1, <1>2, <2>2, <2>4, <3>1 DEF Held, Me
  <2> QED BY <2>1, <2>3, <2>4
<1>5. CASE mu' = mu /\ pc[t] # "parents" /\ pc'[t] # "parents"
  BY <1>0, <1>1, <1>2, <1>5 DEF Held, Me
<1>6. \/ LockParents(t) \/ CreateParent(t)
      \/ mu' = mu /\ pc[t] # "parents" /\ pc'[t] # "parents"
  BY DEF Run, CheckCreate, CreateNode, DeleteNode, CheckDeleteAll, ListChildren,
         DeleteChild, Read, IsExistedPath, ConnectZK, CloseZK, Goto, Types
<1> QED BY <1>3, <1>4, <1>5, <1>6

LEMMA RunControl ==
    ASSUME Types, Control, NEW t \in Threads, Run(t)
    PROVE  Control'
<1>1. ASSUME NEW u \in Threads, u # t PROVE At(u)'
  <2>1. At(u)
    BY DEF Control
  <2> QED BY <1>1, <2>1, RunLocal DEF At
<1> QED BY <1>1, RunAt, RunHeld DEF Control

-----------------------------------------------------------------------------
(* Handles. *)

\* Who uses the handle of a client, when its use of a freed one is excused.
LEMMA UsesExcused ==
    ASSUME Handles, NEW t \in Threads, Uses(t),
           zh[Me(t)] \in freed => call[t].op = "exists" \/ StaleFor(t)
    PROVE  \A u \in misused' : call[u].op = "exists" \/ StaleFor(u)
BY DEF Handles, FreedHandlesStayUnused, StaleFor, Uses

\* A connected client has such a handle.
LEMMA ConnectedIsExcused ==
    ASSUME Types, Handles, NEW t \in Threads, ~Disconnected(t)
    PROVE  zh[Me(t)] \in freed => StaleFor(t)
<1>1. Me(t) \in Clients
  BY CallType
<1> QED BY <1>1 DEF Handles, Disconnected, StaleFor

LEMMA DeleteUses ==
    ASSUME Types, Handles, NEW t \in Threads, NEW p, NEW told, Delete(t, p, told)
    PROVE  \A u \in misused' : call[u].op = "exists" \/ StaleFor(u)
<1>1. CASE Disconnected(t)
  BY <1>1 DEF Delete, Handles, FreedHandlesStayUnused, StaleFor
<1>2. CASE ~Disconnected(t)
  BY <1>2, ConnectedIsExcused, UsesExcused DEF Delete
<1> QED BY <1>1, <1>2

\* An excuse stays one.
LEMMA StaleForStays ==
    ASSUME Types, NEW t \in Threads, Run(t)
    PROVE  /\ \A c : CloseFailed(c) => CloseFailed(c)'
           /\ overtaken \subseteq overtaken'
           /\ \A u \in Threads : StaleFor(u) => StaleFor(u)'
<1>1. pc[t] # "done"
  BY DEF Run, CheckCreate, LockParents, CreateParent, CreateNode, DeleteNode, CheckDeleteAll,
         ListChildren, DeleteChild, Read, IsExistedPath, ConnectZK, CloseZK, Goto
<1>2. ASSUME NEW c, CloseFailed(c) PROVE CloseFailed(c)'
  <2>1. PICK u \in Threads :
            Me(u) = c /\ call[u].op = "close" /\ pc[u] = "done" /\ code[u] = "loss"
    BY <1>2 DEF CloseFailed
  <2>2. call' = call /\ pc'[u] = pc[u] /\ code'[u] = code[u]
    BY <1>1, <2>1, RunLocal
  <2> QED BY <2>1, <2>2 DEF CloseFailed, Me
<1>3. overtaken \subseteq overtaken'
  BY DEF Run, CheckCreate, LockParents, CreateParent, CreateNode, DeleteNode, CheckDeleteAll,
         ListChildren, DeleteChild, Read, IsExistedPath, ConnectZK, CloseZK, session, closing
<1>4. \A u \in Threads : Me(u)' = Me(u)
  BY RunLocal DEF Me
<1> QED BY <1>2, <1>3, <1>4 DEF StaleFor

LEMMA RunHandles ==
    ASSUME Types, Control, Handles, NEW t \in Threads, Run(t)
    PROVE  Handles'
<1> DEFINE MisuseExcused == \A u \in misused' : call[u].op = "exists" \/ StaleFor(u)
<1>0. /\ Me(t) \in Clients /\ call' = call /\ \A u \in Threads : Me(u)' = Me(u)
      /\ \A u \in Threads : Me(u) \in Clients
      /\ \A u \in Threads \ {t} : pc'[u] = pc[u]
      /\ misused \subseteq Threads /\ misused' \subseteq Threads
  BY CallType, RunLocal, RunTypes DEF Me, Types
<1>a. /\ \A c : CloseFailed(c) => CloseFailed(c)'
      /\ \A u \in Threads : StaleFor(u) => StaleFor(u)'
  BY StaleForStays
<1>b. ASSUME MisuseExcused PROVE FreedHandlesStayUnused'
  <2>1. \A u \in misused' : call'[u].op = "exists" \/ StaleFor(u)'
    BY <1>0, <1>a, <1>b
  <2> QED BY <2>1 DEF FreedHandlesStayUnused, StaleFor
<1>c. ASSUME misused' \subseteq misused PROVE MisuseExcused
  BY <1>c DEF Handles, FreedHandlesStayUnused, StaleFor
<1>d. ASSUME Uses(t), zh[Me(t)] \in freed => call[t].op = "exists" \/ StaleFor(t)
      PROVE  MisuseExcused
  BY <1>d, UsesExcused
<1> HIDE DEF MisuseExcused
<1>1. ASSUME UNCHANGED <<zh, connected, freed>>, MisuseExcused,
             pc'[t] \in {"lock", "parents", "create"} =>
                 pc[t] \in {"lock", "parents", "create"} \/ (zh[Me(t)] \in freed => StaleFor(t))
      PROVE  Handles'
  <2>1. ASSUME NEW u \in Threads PROVE Looked(u)'
    <3>1. CASE u = t
      BY <1>0, <1>1, <1>a, <3>1 DEF Handles, Looked
    <3>2. CASE u # t
      BY <1>0, <1>1, <1>a, <3>2 DEF Handles, Looked
    <3> QED BY <3>1, <3>2
  <2>2. \A c \in Clients : connected'[c] /\ zh'[c] \in freed' => CloseFailed(c)'
    BY <1>1, <1>a DEF Handles
  <2>3. \A c, d \in Clients : zh'[c] # 0 /\ zh'[c] = zh'[d] => c = d
    BY <1>1 DEF Handles
  <2> QED BY <1>1, <1>b, <2>1, <2>2, <2>3 DEF Handles
<1>3. CASE CheckCreate(t)
  <2>1. UNCHANGED <<zh, connected, freed, misused>>
    BY <1>3 DEF CheckCreate, object, session, closing
  <2>2. CASE ~Disconnected(t)
    BY <1>1, <1>c, <2>1, <2>2, ConnectedIsExcused
  <2>3. CASE pc'[t] = "done"
    BY <1>1, <1>c, <2>1, <2>3
  <2> QED BY <1>3, <2>2, <2>3 DEF CheckCreate, Goto, Types
<1>4. CASE LockParents(t) \/ CheckDeleteAll(t)
  <2>1. UNCHANGED <<zh, connected, freed, misused>>
    BY <1>4 DEF LockParents, CheckDeleteAll, object, session, closing
  <2>2. pc[t] = "lock" \/ pc'[t] \in {"list", "done"}
    BY <1>4 DEF LockParents, CheckDeleteAll, Goto, Types
  <2> QED BY <1>1, <1>c, <2>1, <2>2
<1>5. CASE CreateParent(t) \/ CreateNode(t)
  <2>1. pc[t] \in {"parents", "create"} /\ Uses(t) /\ UNCHANGED <<zh, connected, freed>>
    BY <1>5 DEF CreateParent, CreateNode, Goto, object, session, closing
  <2>2. zh[Me(t)] \in freed => StaleFor(t)
    BY <2>1 DEF Handles, Looked
  <2> QED BY <1>1, <1>d, <2>1, <2>2
<1>6. CASE DeleteNode(t) \/ DeleteChild(t)
  <2>1. UNCHANGED <<zh, connected, freed>> /\ pc'[t] \in {"children", "done"}
    BY <1>6 DEF DeleteNode, DeleteChild, Goto, Types, object, session, closing
  <2>2. MisuseExcused
    BY <1>6, DeleteUses DEF DeleteNode, DeleteChild, MisuseExcused
  <2> QED BY <1>1, <2>1, <2>2
<1>7. CASE ListChildren(t) \/ Read(t)
  <2>1. UNCHANGED <<zh, connected, freed>> /\ pc'[t] \in {"children", "done"}
    BY <1>7 DEF ListChildren, Read, Goto, Types, object, session, closing
  <2>2. \/ misused' = misused
        \/ ~Disconnected(t) /\ Uses(t)
    BY <1>7 DEF ListChildren, Read
  <2>3. MisuseExcused
    BY <1>c, <1>d, <2>2, ConnectedIsExcused
  <2> QED BY <1>1, <2>1, <2>3
<1>8. CASE IsExistedPath(t)
  <2>1. UNCHANGED <<zh, connected, freed>> /\ pc'[t] = "done"
    BY <1>8 DEF IsExistedPath, Goto, Types, object, session, closing
  <2>2. Uses(t) /\ call[t].op = "exists"
    BY <1>8 DEF IsExistedPath
  <2> QED BY <1>1, <1>d, <2>1, <2>2
<1>9. CASE ConnectZK(t)
  <2>1. freed' = freed /\ misused' = misused /\ pc'[t] = "done"
    BY <1>9 DEF ConnectZK, closing, Goto, Types
  <2>2. PICK new :
            /\ new = 0 \/ (new \notin freed /\ \A c \in Clients : zh[c] # new)
            /\ \A c \in Clients : zh'[c] = IF c = Me(t) THEN new ELSE zh[c]
            /\ \A c \in Clients : c # Me(t) => connected'[c] = connected[c]
    <3>1. CASE /\ sessions' = sessions + 1
               /\ zh' = [zh EXCEPT ![Me(t)] = sessions']
               /\ connected' = [connected EXCEPT ![Me(t)] = TRUE]
      <4>1. (\A c \in Clients : zh[c] # sessions + 1) /\ sessions + 1 \notin freed
        BY DEF Types
      <4>2. \A c \in Clients : /\ zh'[c] = IF c = Me(t) THEN sessions + 1 ELSE zh[c]
                               /\ c # Me(t) => connected'[c] = connected[c]
        BY <1>0, <3>1 DEF Types
      <4> QED BY <4>1, <4>2
    <3>2. CASE zh' = [zh EXCEPT ![Me(t)] = 0] /\ connected' = connected
      BY <1>0, <3>2 DEF Types
    <3> QED BY <1>9, <3>1, <3>2 DEF ConnectZK, NewHandle
  <2>3. new \notin freed
    BY <2>2 DEF Types
  <2>4. \A c \in Clients : connected'[c] /\ zh'[c] \in freed' => CloseFailed(c)'
    BY <1>a, <2>1, <2>2, <2>3 DEF Handles
  <2>5. \A c, d \in Clients : zh'[c] # 0 /\ zh'[c] = zh'[d] => c = d
    BY <2>2 DEF Handles
  <2>6. ASSUME NEW u \in Threads PROVE Looked(u)'
    BY <1>0, <1>a, <2>1, <2>2, <2>3 DEF Handles, Looked
  <2> QED BY <1>b, <1>c, <2>1, <2>4, <2>5, <2>6 DEF Handles
<1>10. CASE CloseZK(t) /\ Disconnected(t)
  <2>1. UNCHANGED <<zh, connected, freed, misused>> /\ pc'[t] = "done"
    BY <1>10 DEF CloseZK, closing, Goto, Types
  <2> QED BY <1>1, <1>c, <2>1
<1>11. CASE CloseZK(t) /\ ~Disconnected(t)
  <2>1. /\ zh' = zh /\ Uses(t) /\ freed' = freed \cup {zh[Me(t)]} /\ pc'[t] = "done"
        /\ overtaken' = overtaken \cup
               {u \in Threads : Me(u) = Me(t) /\ pc[u] \in {"lock", "create"}}
        /\ mu[Me(t)] = None /\ call[t].op = "close"
    BY <1>11 DEF CloseZK, ZookeeperClose, Goto, Types
  <2>2. zh[Me(t)] # 0
    BY <1>11 DEF Disconnected
  <2>3. MisuseExcused
    BY <1>11, <1>d, <2>1, ConnectedIsExcused
  <2>4. \/ /\ connected'[Me(t)] = FALSE
           /\ \A c \in Clients : c # Me(t) => connected'[c] = connected[c]
        \/ connected' = connected /\ code'[t] = "loss"
    BY <1>0, <1>11 DEF CloseZK, Return, Types
  <2>5. \A c \in Clients : connected'[c] /\ zh'[c] \in freed' => CloseFailed(c)'
    <3>1. code'[t] = "loss" => CloseFailed(Me(t))'
      BY <1>0, <2>1 DEF CloseFailed
    <3> QED BY <1>0, <1>a, <2>1, <2>2, <2>4, <3>1 DEF Handles
  <2>6. ASSUME NEW u \in Threads PROVE Looked(u)'
    <3>1. CASE u = t \/ Me(u) # Me(t)
      BY <1>0, <1>a, <2>1, <2>2, <3>1 DEF Handles, Looked
    <3>2. CASE u # t /\ Me(u) = Me(t)
      <4>1. pc[u] # "parents"
        BY <2>1, <3>2, CallAssumption DEF Control, Held
      <4> QED BY <1>0, <2>1, <3>2, <4>1 DEF Looked, StaleFor
    <3> QED BY <3>1, <3>2
  <2>7. \A c, d \in Clients : zh'[c] # 0 /\ zh'[c] = zh'[d] => c = d
    BY <2>1 DEF Handles
  <2> QED BY <1>b, <2>3, <2>5, <2>6, <2>7 DEF Handles
<1> QED
  BY <1>3, <1>4, <1>5, <1>6, <1>7, <1>8, <1>9, <1>10, <1>11 DEF Run

-----------------------------------------------------------------------------
(* The tree. *)

\* Of the node that is told to be created nobody else has been told so.
LEMMA RunClaims ==
    ASSUME Types, Control, ClaimsAreExclusive, NEW t \in Threads, Run(t)
    PROVE  ClaimsAreExclusive'
<1>0. call' = call
  BY RunLocal
<1>1. ASSUME nodes \subseteq nodes', claims' \subseteq claims PROVE ClaimsAreExclusive'
  BY <1>0, <1>1 DEF ClaimsAreExclusive
<1>2. ASSUME NEW gone, Removed(gone) PROVE ClaimsAreExclusive'
  BY <1>0, <1>2 DEF ClaimsAreExclusive, Removed
<1>3. ASSUME NEW p, NEW told, Delete(t, p, told) PROVE ClaimsAreExclusive'
  BY <1>1, <1>2, <1>3 DEF Delete, ZooDelete, tree
<1>4. CASE CreateNode(t)
  <2>1. PICK told \in {"ok", "exists", "nonode", "ephemeral", "loss", "session"} :
            /\ ZooCreate(t, call[t].path, Mode(t), told)
            /\ claims' = IF told = "ok" THEN claims \cup {t} ELSE claims
    BY <1>4 DEF CreateNode
  <2>2. nodes \subseteq nodes'
    BY <2>1 DEF ZooCreate, tree
  <2>3. CASE told = "ok"
    <3>1. Through(Me(t), CreateAnswer(call[t].path)) = "ok"
      BY <2>1, <2>3 DEF ZooCreate, Told, Through
    <3>2. call[t].path \notin nodes /\ call[t].path \in nodes'
      BY <2>1, <2>3, <3>1 DEF Through, CreateAnswer, ZooCreate
    <3> QED BY <1>0, <2>1, <2>2, <2>3, <3>2 DEF ClaimsAreExclusive
  <2>4. CASE told # "ok"
    BY <1>1, <2>1, <2>2, <2>4
  <2> QED BY <2>3, <2>4
<1>5. CASE CreateParent(t)
  BY <1>1, <1>5 DEF CreateParent, ZooCreate, tree, history
<1>6. CASE DeleteNode(t)
  BY <1>3, <1>6 DEF DeleteNode
<1>7. CASE DeleteChild(t)
  BY <1>3, <1>7 DEF DeleteChild
<1>8. CASE CloseZK(t)
  BY <1>1, <1>2, <1>8 DEF CloseZK, ZookeeperClose, End, tree, history
<1>9. CASE \/ CheckCreate(t) \/ LockParents(t) \/ CheckDeleteAll(t) \/ ListChildren(t)
           \/ Read(t) \/ IsExistedPath(t) \/ ConnectZK(t)
  BY <1>1, <1>9 DEF CheckCreate, LockParents, CheckDeleteAll, ListChildren, Read,
                    IsExistedPath, ConnectZK, tree, history
<1> QED BY <1>4, <1>5, <1>6, <1>7, <1>8, <1>9 DEF Run

\* The tree as a thread may change it by creating: nothing goes, and an owner
\* is given to a path somebody asks to be ephemeral.
Grown(t) ==
    /\ nodes \subseteq nodes'
    /\ bereft' = bereft
    /\ \A p \in Paths :
           owner'[p] # 0 => owner[p] # 0 \/ (call[t].ephemeral /\ call[t].path = p)

LEMMA CreateGrows ==
    ASSUME Types, NEW t \in Threads, NEW p \in Paths, NEW s, NEW told, bereft' = bereft,
           ZooCreate(t, p, s, told), s # 0 => call[t].ephemeral /\ p = call[t].path
    PROVE  Grown(t)
<1>1. CASE nodes' = nodes \cup {p} /\ owner' = [owner EXCEPT ![p] = s]
  BY <1>1 DEF Grown, Types
<1>2. CASE UNCHANGED tree
  BY <1>2 DEF Grown, tree
<1> QED BY <1>1, <1>2 DEF ZooCreate

LEMMA DeleteTree ==
    ASSUME NEW t \in Threads, NEW p, NEW told, Delete(t, p, told)
    PROVE  Grown(t) \/ \E gone : Removed(gone)
BY DEF Delete, ZooDelete, Grown, tree

LEMMA RunTree ==
    ASSUME Types, Control, NEW t \in Threads, Run(t)
    PROVE  Grown(t) \/ \E gone : Removed(gone)
<1>0. call[t].path \in Paths /\ level[t] \in 1..Len(call[t].path)
  BY CallType DEF Control, At
<1>1. ASSUME UNCHANGED <<nodes, owner, bereft>> PROVE Grown(t)
  BY <1>1 DEF Grown
<1>2. CASE CreateParent(t)
  <2>1. SubSeq(call[t].path, 1, level[t]) \in Paths
    BY <1>0, PrefixFacts
  <2>2. bereft' = bereft
    BY <1>2 DEF CreateParent, history
  <2>3. PICK told : ZooCreate(t, SubSeq(call[t].path, 1, level[t]), 0, told)
    BY <1>2 DEF CreateParent
  <2> QED BY <2>1, <2>2, <2>3, CreateGrows
<1>3. CASE CreateNode(t)
  <2>1. bereft' = bereft
    BY <1>3 DEF CreateNode
  <2>2. PICK told : ZooCreate(t, call[t].path, Mode(t), told)
    BY <1>3 DEF CreateNode
  <2>3. Mode(t) # 0 => call[t].ephemeral
    BY DEF Mode
  <2> QED BY <1>0, <2>1, <2>2, <2>3, CreateGrows
<1>4. CASE DeleteNode(t)
  BY <1>4, DeleteTree DEF DeleteNode
<1>5. CASE DeleteChild(t)
  BY <1>5, DeleteTree DEF DeleteChild
<1>6. CASE CloseZK(t)
  BY <1>1, <1>6 DEF CloseZK, ZookeeperClose, End, tree, history
<1>7. CASE \/ CheckCreate(t) \/ LockParents(t) \/ CheckDeleteAll(t) \/ ListChildren(t)
           \/ Read(t) \/ IsExistedPath(t) \/ ConnectZK(t)
  BY <1>1, <1>7 DEF CheckCreate, LockParents, CheckDeleteAll, ListChildren, Read,
                    IsExistedPath, ConnectZK, tree, history
<1> QED BY <1>2, <1>3, <1>4, <1>5, <1>6, <1>7 DEF Run

LEMMA PassedKept ==
    ASSUME Types, call' = call, NEW t \in Threads, Grown(t) \/ \E gone : Removed(gone)
    PROVE  /\ \A u \in Threads : \A n \in 1..Len(call[u].path) :
                  Passed(u, n) => Passed(u, n)'
           /\ bereft \subseteq bereft'
<1>1. CASE Grown(t)
  BY <1>1 DEF Grown, Passed
<1>2. ASSUME NEW gone, Removed(gone)
      PROVE  /\ \A u \in Threads : \A n \in 1..Len(call[u].path) :
                    Passed(u, n) => Passed(u, n)'
             /\ bereft \subseteq bereft'
  <2>1. nodes' = nodes \ gone /\ bereft \subseteq bereft'
    BY <1>2 DEF Removed
  <2>2. ASSUME NEW u \in Threads, NEW n \in 1..Len(call[u].path), Passed(u, n),
               u \notin bereft', NEW i \in 1 .. n - 1
        PROVE  SubSeq(call[u].path, 1, i) \in nodes'
    <3>1. SubSeq(call[u].path, 1, i) \in nodes
      BY <2>1, <2>2 DEF Passed
    <3>2. call[u].path \in Paths /\ Len(call[u].path) \in Nat
      BY CallType
    <3>3. i \in 1..Len(call[u].path) /\ i < Len(call[u].path)
      BY <2>2, <3>2
    <3>4. Above(SubSeq(call[u].path, 1, i), call[u].path)
      BY <3>2, <3>3, PrefixFacts
    <3>5. \A p \in gone : ~Above(p, call[u].path)
      BY <1>2, <2>2 DEF Removed
    <3> QED BY <2>1, <3>1, <3>4, <3>5
  <2> QED BY <2>1, <2>2 DEF Passed
<1> QED BY <1>1, <1>2

LEMMA OwnersKept ==
    ASSUME Types, call' = call, NEW t \in Threads, Grown(t) \/ \E gone : Removed(gone),
           \A p \in Paths :
               owner[p] # 0 => \E u \in Threads : call[u].ephemeral /\ call[u].path = p
    PROVE  \A p \in Paths :
               owner'[p] # 0 => \E u \in Threads : call'[u].ephemeral /\ call'[u].path = p
<1>1. \A p \in Paths :
          owner'[p] # 0 => owner[p] # 0 \/ (call[t].ephemeral /\ call[t].path = p)
  BY DEF Grown, Removed
<1> QED BY <1>1

\* What CreateParent and CreateNode are told of a request.
LEMMA CreateTold ==
    ASSUME Types, NEW t \in Threads, NEW p \in Paths, NEW s, NEW told,
           ZooCreate(t, p, s, told)
    PROVE  /\ told \in {"ok", "exists"} => p \in nodes'
           /\ told = "nonode" => Len(p) # 1 /\ Parent(p) \notin nodes
           /\ told = "ephemeral" => Len(p) # 1 /\ Parent(p) \in nodes /\ owner[Parent(p)] # 0
<1>1. told # "loss" /\ told # "session" =>
          Through(Me(t), CreateAnswer(p)) = told /\ CreateAnswer(p) = told
  BY DEF ZooCreate, Told, Through
<1>2. told = "ok" => p \in nodes'
  BY <1>1 DEF ZooCreate
<1>3. told = "exists" => p \in nodes
  BY <1>1 DEF CreateAnswer
<1>4. nodes \subseteq nodes'
  BY DEF ZooCreate, tree
<1>5. told = "nonode" => Len(p) # 1 /\ Parent(p) \notin nodes
  BY <1>1 DEF CreateAnswer
<1>6. told = "ephemeral" => Len(p) # 1 /\ Parent(p) \in nodes /\ owner[Parent(p)] # 0
  BY <1>1 DEF CreateAnswer
<1> QED BY <1>2, <1>3, <1>4, <1>5, <1>6

\* A request for the n-th prefix of a path fails only as Excused allows.
LEMMA FailureIsExcused ==
    ASSUME Types, Owners, NEW t \in Threads, NEW n \in 1..Len(call[t].path), Passed(t, n),
           NEW s, NEW told, ZooCreate(t, SubSeq(call[t].path, 1, n), s, told)
    PROVE  /\ told = "nonode" => t \in bereft
           /\ told = "ephemeral" =>
                 \E u \in Threads : call[u].ephemeral /\ Above(call[u].path, call[t].path)
<1> DEFINE path == call[t].path
           p == SubSeq(path, 1, n)
<1>1. path \in Paths /\ Len(path) \in Nat
  BY CallType
<1>2. p \in Paths /\ Len(p) = n /\ (n > 1 => Parent(p) = SubSeq(path, 1, n - 1))
  BY <1>1, PrefixFacts
<1>3. /\ told = "nonode" => n # 1 /\ Parent(p) \notin nodes
      /\ told = "ephemeral" => n # 1 /\ Parent(p) \in nodes /\ owner[Parent(p)] # 0
  BY <1>2, CreateTold
<1> HIDE DEF p
<1>4. ASSUME told = "nonode", t \notin bereft PROVE FALSE
  <2>1. n > 1 /\ n - 1 \in 1 .. n - 1
    BY <1>1, <1>3, <1>4
  <2>2. SubSeq(path, 1, n - 1) \in nodes
    BY <1>4, <2>1 DEF Passed
  <2>3. Parent(p) = SubSeq(path, 1, n - 1) /\ Parent(p) \notin nodes
    BY <1>2, <1>3, <1>4, <2>1
  <2> QED BY <2>2, <2>3
<1>5. ASSUME told = "ephemeral"
      PROVE  \E u \in Threads : call[u].ephemeral /\ Above(call[u].path, path)
  <2>1. n - 1 \in 1..Len(path) /\ n - 1 < Len(path) /\ Parent(p) = SubSeq(path, 1, n - 1)
    BY <1>1, <1>2, <1>3, <1>5
  <2>2. Above(Parent(p), path) /\ Parent(p) \in Paths
    BY <1>1, <2>1, PrefixFacts
  <2> QED BY <1>3, <1>5, <2>2 DEF Owners
<1> QED BY <1>4, <1>5

LEMMA RunOwn ==
    ASSUME Types, Control, Parents, NEW t \in Threads, Run(t)
    PROVE  Climbs(t)' /\ Excused(t)'
<1>0. /\ Len(call[t].path) \in Nat \ {0} /\ call[t].path \in Paths
      /\ call' = call /\ At(t) /\ Climbs(t) /\ Owners /\ At(t)'
  BY CallType, RunLocal, RunAt DEF Control, Parents
<1>1. /\ \A n \in 1..Len(call[t].path) : Passed(t, n) => Passed(t, n)'
      /\ bereft \subseteq bereft'
  BY <1>0, PassedKept, RunTree
<1>2. ASSUME pc'[t] \in {"list", "children"} \/ (pc'[t] = "done" /\ call[t].op # "create")
      PROVE  Climbs(t)' /\ Excused(t)'
  BY <1>0, <1>2 DEF Climbs, Excused
<1>3. CASE CheckCreate(t)
  <2>1. \/ pc'[t] = "done" /\ code'[t] = "refused"
        \/ pc'[t] = "lock" /\ level'[t] = 1
        \/ pc'[t] = "create" /\ level'[t] = Len(call[t].path)
              /\ (call[t].parents => Len(call[t].path) = 1)
    <3>1. level[t] = 1
      BY <1>0, <1>3 DEF CheckCreate, Goto, At
    <3>2. CASE pc' = [pc EXCEPT ![t] = "done"] /\ code' = [code EXCEPT ![t] = "refused"]
      BY <3>2 DEF Types
    <3>3. CASE pc' = [pc EXCEPT ![t] = "lock"] /\ level' = level
      BY <3>1, <3>3 DEF Types
    <3>4. CASE /\ pc' = [pc EXCEPT ![t] = "create"]
               /\ level' = [level EXCEPT ![t] = Len(call[t].path)]
               /\ ~(call[t].parents /\ Len(call[t].path) > 1)
      <4>1. pc'[t] = "create" /\ level'[t] = Len(call[t].path)
        BY <3>4 DEF Types
      <4>2. Len(call[t].path) > 1 \/ Len(call[t].path) = 1
        <5>1. \A n \in Nat \ {0} : n > 1 \/ n = 1
          OBVIOUS
        <5> QED BY <1>0, <5>1, Zenon
      <4> QED BY <3>4, <4>1, <4>2, Zenon
    <3> QED BY <1>3, <3>2, <3>3, <3>4 DEF CheckCreate, Goto, Return
  <2>2. Passed(t, 1)'
    BY DEF Passed
  <2>3. level'[t] = 1 => Passed(t, level[t])'
    BY <2>2 DEF Passed
  <2> QED BY <1>0, <2>1, <2>3 DEF Climbs, Excused
<1>4. CASE LockParents(t)
  <2>1. pc[t] = "lock" /\ pc'[t] = "parents" /\ level' = level
    BY <1>4 DEF LockParents, Goto, Types
  <2>2. Passed(t, level[t])
    BY <1>0, <2>1 DEF Climbs, At
  <2>3. Passed(t, level[t])'
    BY <1>0, <1>1, <2>1, <2>2 DEF At, Passed
  <2> QED BY <2>1, <2>3 DEF Climbs, Excused
<1>5. CASE CreateParent(t)
  <2> DEFINE n == level[t]
  <2>1. PICK told \in {"ok", "exists", "nonode", "ephemeral", "loss", "session"} :
            /\ ZooCreate(t, SubSeq(call[t].path, 1, level[t]), 0, told)
            /\ \/ /\ told \in Tolerated
                  /\ level' = [level EXCEPT ![t] = @ + 1]
                  /\ \/ pc' = [pc EXCEPT ![t] = "parents"]
                     \/ pc' = [pc EXCEPT ![t] = "create"]
               \/ /\ told \notin Tolerated
                  /\ pc' = [pc EXCEPT ![t] = "done"]
                  /\ code' = [code EXCEPT ![t] = told]
    BY <1>5 DEF CreateParent, Goto, Return
  <2>2. pc[t] = "parents" /\ Passed(t, n) /\ n \in 1..Len(call[t].path)
    BY <1>0, <1>5 DEF CreateParent, Climbs, At
  <2>3. CASE told \in Tolerated
    <3>1. level'[t] = n + 1 /\ pc'[t] \in {"parents", "create"}
      BY <2>1, <2>3 DEF Types
    <3>2. SubSeq(call[t].path, 1, n) \in Paths
      BY <1>0, <2>2, PrefixFacts
    <3>3. SubSeq(call[t].path, 1, n) \in nodes'
      BY <2>1, <2>3, <3>2, CreateTold DEF Tolerated
    <3>4. t \notin bereft' => \A i \in 1 .. n - 1 : SubSeq(call[t].path, 1, i) \in nodes'
      BY <1>0, <1>1, <2>2 DEF Passed
    <3>5. t \notin bereft' =>
              \A i \in 1 .. level'[t] - 1 : SubSeq(call[t].path, 1, i) \in nodes'
      <4>1. n \in Nat /\ level'[t] - 1 = n
        BY <1>0, <2>2, <3>1
      <4> HIDE DEF n
      <4>2. \A i \in 1 .. n : i \in 1 .. n - 1 \/ i = n
        BY <4>1
      <4> QED BY <3>3, <3>4, <4>1, <4>2
    <3>6. Passed(t, level[t])'
      BY <1>0, <3>5 DEF Passed
    <3> QED BY <3>1, <3>6 DEF Climbs, Excused
  <2>4. CASE told \notin Tolerated
    <3>1. pc'[t] = "done" /\ code'[t] = told /\ told # "exists"
      BY <2>1, <2>4 DEF Types, Tolerated
    <3>2. /\ told = "nonode" => t \in bereft
          /\ told = "ephemeral" =>
                \E u \in Threads : call[u].ephemeral /\ Above(call[u].path, call[t].path)
      BY <1>0, <2>1, <2>2, FailureIsExcused
    <3> QED BY <1>0, <1>1, <3>1, <3>2 DEF Climbs, Excused
  <2> QED BY <2>3, <2>4
<1>6. CASE CreateNode(t)
  <2>1. PICK told \in {"ok", "exists", "nonode", "ephemeral", "loss", "session"} :
            /\ ZooCreate(t, call[t].path, Mode(t), told)
            /\ code' = [code EXCEPT ![t] = told]
    BY <1>6 DEF CreateNode, Return
  <2>2. pc[t] = "create" /\ pc'[t] = "done" /\ code'[t] = told /\ level' = level
    BY <1>6, <2>1 DEF CreateNode, Goto, Types
  <2>3. level[t] = Len(call[t].path) /\ level[t] \in 1..Len(call[t].path)
    BY <1>0, <2>2 DEF At
  <2>4. SubSeq(call[t].path, 1, level[t]) = call[t].path
    BY <1>0, <2>3, PrefixFacts
  <2>5. call[t].parents =>
            /\ told = "nonode" => t \in bereft
            /\ told = "ephemeral" =>
                  \E u \in Threads : call[u].ephemeral /\ Above(call[u].path, call[t].path)
    BY <1>0, <2>1, <2>2, <2>3, <2>4, FailureIsExcused DEF Climbs
  <2> QED BY <1>0, <1>1, <2>2, <2>3, <2>5 DEF Climbs, Excused
<1>7. CASE ListChildren(t)
  BY <1>0, <1>2, <1>7 DEF ListChildren, Goto, Types, At
<1>8. CASE DeleteChild(t)
  BY <1>0, <1>2, <1>8 DEF DeleteChild, Goto, Types, At
<1>9. CASE DeleteNode(t) \/ CheckDeleteAll(t)
  BY <1>2, <1>9 DEF DeleteNode, CheckDeleteAll, Goto, Types
<1>10. CASE Read(t) \/ IsExistedPath(t) \/ ConnectZK(t) \/ CloseZK(t)
  BY <1>2, <1>10 DEF Read, IsExistedPath, ConnectZK, CloseZK, Goto, Types
<1> QED BY <1>3, <1>4, <1>5, <1>6, <1>7, <1>8, <1>9, <1>10 DEF Run

LEMMA RunParents ==
    ASSUME Types, Control, Parents, NEW t \in Threads, Run(t)
    PROVE  Parents'
<1>0. /\ call' = call /\ Owners /\ \A u \in Threads : Climbs(u) /\ Excused(u) /\ At(u)
  BY RunLocal DEF Control, Parents
<1>1. Grown(t) \/ \E gone : Removed(gone)
  BY RunTree
<1>2. Owners'
  BY <1>0, <1>1, OwnersKept DEF Owners
<1>3. ASSUME NEW u \in Threads, u # t PROVE Climbs(u)' /\ Excused(u)'
  <2>1. pc'[u] = pc[u] /\ level'[u] = level[u] /\ code'[u] = code[u]
    BY <1>3, RunLocal
  <2>2. /\ \A n \in 1..Len(call[u].path) : Passed(u, n) => Passed(u, n)'
        /\ bereft \subseteq bereft'
    BY <1>0, <1>1, PassedKept
  <2>3. Passed(u, level[u]) => Passed(u, level[u])'
    BY <1>0, <2>1, <2>2 DEF At, Passed
  <2>4. Climbs(u)'
    BY <1>0, <2>1, <2>3 DEF Climbs
  <2>5. Excused(u)'
    BY <1>0, <2>1, <2>2 DEF Excused
  <2> QED BY <2>4, <2>5
<1>4. Owners' /\ \A u \in Threads : Climbs(u)' /\ Excused(u)'
  BY <1>2, <1>3, RunOwn
<1> QED BY <1>4 DEF Parents

-----------------------------------------------------------------------------
(* Lists. *)

\* A deletion takes its child from what is standing, whatever comes of it.
LEMMA DeleteStanding ==
    ASSUME Types, NEW t \in Threads, NEW p, NEW told, Delete(t, p, told)
    PROVE  /\ standing'[t] \subseteq standing[t] \ {p}
           /\ \A u \in Threads : standing'[u] \subseteq standing[u]
<1>1. CASE standing' = [standing EXCEPT ![t] = @ \ {p}]
  BY <1>1 DEF Types
<1>2. CASE standing' = [u \in Threads |-> standing[u] \ {p}]
  BY <1>2
<1> QED BY <1>1, <1>2 DEF Delete, ZooDelete

LEMMA RunStanding ==
    ASSUME Types, Control, NEW t \in Threads, Run(t)
    PROVE  \A u \in Threads \ {t} : standing'[u] \subseteq standing[u]
<1>1. CASE DeleteNode(t)
  BY <1>1, DeleteStanding DEF DeleteNode
<1>2. CASE DeleteChild(t)
  BY <1>2, DeleteStanding DEF DeleteChild
<1>3. CASE CloseZK(t)
  BY <1>3 DEF CloseZK, ZookeeperClose, End, history
<1>4. CASE ListChildren(t)
  BY <1>4 DEF ListChildren, Types
<1>5. CASE \/ CheckCreate(t) \/ LockParents(t) \/ CreateParent(t) \/ CreateNode(t)
           \/ CheckDeleteAll(t) \/ Read(t) \/ IsExistedPath(t) \/ ConnectZK(t)
  BY <1>5 DEF CheckCreate, LockParents, CreateParent, CreateNode, CheckDeleteAll, Read,
              IsExistedPath, ConnectZK, history
<1> QED BY <1>1, <1>2, <1>3, <1>4, <1>5 DEF Run

LEMMA RunTries ==
    ASSUME Types, Control, NEW t \in Threads, Tries(t), Run(t)
    PROVE  Tries(t)'
<1>0. call' = call /\ At(t)
  BY RunLocal DEF Control
<1>1. ASSUME pc'[t] # "children", call[t].op # "delete_all" PROVE Tries(t)'
  BY <1>0, <1>1 DEF Tries
<1>2. CASE CheckDeleteAll(t)
  BY <1>2 DEF CheckDeleteAll, Goto, Return, Types, Tries
<1>3. CASE ListChildren(t)
  <2> DEFINE path == call[t].path
             below == {p \in nodes : Above(path, p) /\ Len(p) = Len(path) + 1}
  <2>1. CASE /\ children' = [children EXCEPT ![t] = below]
             /\ standing' = [standing EXCEPT ![t] = below]
             /\ \/ below = {} /\ pc' = [pc EXCEPT ![t] = "done"]
                \/ below # {} /\ pc' = [pc EXCEPT ![t] = "children"]
    <3> HIDE DEF below
    <3> QED BY <2>1 DEF Types, Tries
  <2>2. CASE /\ pc' = [pc EXCEPT ![t] = "done"]
             /\ result' = [result EXCEPT ![t] = FALSE]
    BY <2>2 DEF Types, Tries
  <2> QED BY <1>3, <2>1, <2>2 DEF ListChildren, Goto, Return
<1>4. CASE DeleteChild(t)
  <2>1. PICK p \in children[t], told \in Deletions :
            Delete(t, p, told) /\ children' = [children EXCEPT ![t] = @ \ {p}]
    BY <1>4 DEF DeleteChild
  <2>2. standing'[t] \subseteq standing[t] \ {p}
    BY <2>1, DeleteStanding
  <2>3. standing[t] \subseteq children[t]
    BY <1>4 DEF DeleteChild, Tries
  <2>4. children'[t] = children[t] \ {p}
    BY <2>1 DEF Types
  <2>5. standing'[t] \subseteq children'[t]
    BY <2>2, <2>3, <2>4
  <2>6. \/ children'[t] = {}
        \/ pc' = [pc EXCEPT ![t] = "children"]
    BY <1>4 DEF DeleteChild, Goto
  <2> QED BY <2>5, <2>6 DEF Tries, Types
<1>5. CASE CheckCreate(t) \/ LockParents(t)
  BY <1>0, <1>1, <1>5 DEF CheckCreate, LockParents, Goto, Types, At
<1>6. CASE CreateParent(t)
  BY <1>0, <1>1, <1>6 DEF CreateParent, Goto, Types, At
<1>7. CASE CreateNode(t)
  BY <1>0, <1>1, <1>7 DEF CreateNode, Goto, Types, At
<1>8. CASE DeleteNode(t) \/ Read(t) \/ IsExistedPath(t) \/ ConnectZK(t) \/ CloseZK(t)
  BY <1>1, <1>8 DEF DeleteNode, Read, IsExistedPath, ConnectZK, CloseZK, Goto, Types
<1> QED BY <1>2, <1>3, <1>4, <1>5, <1>6, <1>7, <1>8 DEF Run

LEMMA RunLists ==
    ASSUME Types, Control, Lists, NEW t \in Threads, Run(t)
    PROVE  Lists'
<1>1. \A u \in Threads : Tries(u)
  BY DEF Lists
<1>2. ASSUME NEW u \in Threads, u # t PROVE Tries(u)'
  BY <1>1, <1>2, RunLocal, RunStanding DEF Tries
<1>3. Tries(t)'
  BY <1>1, RunTries
<1> QED BY <1>2, <1>3 DEF Lists

-----------------------------------------------------------------------------
(* The rest of Next, and the start. *)

LEMMA ExpireInv == ZkInv /\ Expire => ZkInv'
<1> SUFFICES ASSUME ZkInv, Expire PROVE ZkInv'
  OBVIOUS
<1>0. /\ Types /\ Control /\ Handles /\ ClaimsAreExclusive /\ Parents /\ Lists
      /\ UNCHANGED <<sessions, zh, connected, acls, freed, overtaken, mu, call, pc, level,
                     children, code, result, misused>>
  BY DEF ZkInv, Expire, object, closing
<1>1. PICK s \in live : End(s)
  BY DEF Expire
<1>2. Types'
  BY <1>0, <1>1, EndTypes DEF Types
<1>3. Control'
  BY <1>0 DEF Control, At, Held, Me
<1>4. Handles'
  BY <1>0 DEF Handles, Looked, StaleFor, CloseFailed, FreedHandlesStayUnused, Me
<1>5. PICK gone : Removed(gone) /\ standing' = [u \in Threads |-> standing[u] \ gone]
  BY <1>1 DEF End
<1>6. ClaimsAreExclusive'
  BY <1>0, <1>5 DEF ClaimsAreExclusive, Removed
<1>7. Parents'
  <2>1. Owners /\ \A u \in Threads : Climbs(u) /\ Excused(u) /\ At(u)
    BY <1>0 DEF Control, Parents
  <2>2. Owners'
    BY <1>0, <1>5, <2>1 DEF Owners, Removed
  <2>3. ASSUME NEW u \in Threads PROVE Climbs(u)' /\ Excused(u)'
    <3>1. /\ \A n \in 1..Len(call[u].path) : Passed(u, n) => Passed(u, n)'
          /\ bereft \subseteq bereft'
      BY <1>0, <1>5, PassedKept
    <3>2. Passed(u, level[u]) => Passed(u, level[u])'
      BY <1>0, <2>1, <3>1 DEF At, Passed
    <3> QED BY <1>0, <2>1, <3>1, <3>2 DEF Climbs, Excused
  <2> QED BY <2>2, <2>3 DEF Parents
<1>8. Lists'
  BY <1>0, <1>5 DEF Lists, Tries
<1> QED BY <1>2, <1>3, <1>4, <1>6, <1>7, <1>8 DEF ZkInv

LEMMA NextInv == ZkInv /\ [Next]_vars => ZkInv'
<1> SUFFICES ASSUME ZkInv, [Next]_vars PROVE ZkInv'
  OBVIOUS
<1>1. ASSUME NEW t \in Threads, Run(t) PROVE ZkInv'
  BY <1>1, RunTypes, RunControl, RunHandles, RunClaims, RunParents, RunLists DEF ZkInv
<1>2. CASE UNCHANGED vars
  BY <1>2 DEF ZkInv, Types, Control, At, Held, Handles, Looked, StaleFor, CloseFailed,
              FreedHandlesStayUnused, ClaimsAreExclusive,
              Parents, Owners, Climbs, Excused, Passed, Lists, Tries, Me, vars
<1> QED BY <1>1, <1>2, ExpireInv DEF Next

\* Clients can be given different sessions.
LEMMA NumberExists ==
    ASSUME NEW ready \in SUBSET Clients
    PROVE  /\ Cardinality(ready) \in Nat
           /\ \E f \in [ready -> 1..Cardinality(ready)] : IsInjective(f)
<1>1. IsFiniteSet(ready)
  BY ClientAssumption, FS_Subset
<1>2. /\ Cardinality(ready) \in Nat
      /\ ExistsBijection(1..Cardinality(ready), ready)
  BY <1>1, FS_CardinalityType
<1>3. PICK g : g \in Bijection(1..Cardinality(ready), ready)
  BY <1>2 DEF ExistsBijection
<1>4. PICK f : f \in Bijection(ready, 1..Cardinality(ready))
  BY <1>3, Fun_BijInverse
<1>5. f \in [ready -> 1..Cardinality(ready)] /\ IsInjective(f)
  BY <1>4 DEF Bijection, Injection, IsInjective
<1> QED BY <1>2, <1>5

LEMMA InitInv == Init => ZkInv
<1> SUFFICES ASSUME Init PROVE ZkInv
  OBVIOUS
<1>1. PICK ready \in SUBSET Clients :
          LET number == CHOOSE f \in [ready -> 1..Cardinality(ready)] : IsInjective(f)
          IN  /\ zh = [c \in Clients |-> IF c \in ready THEN number[c] ELSE 0]
              /\ connected = [c \in Clients |-> c \in ready]
              /\ acls = connected
              /\ sessions = Cardinality(ready)
              /\ live = 1..sessions
  BY DEF Init
<1>2. PICK f \in [ready -> 1..Cardinality(ready)] :
          IsInjective(f) /\ zh = [c \in Clients |-> IF c \in ready THEN f[c] ELSE 0]
  BY <1>1, NumberExists
<1>3. sessions \in Nat /\ sessions = Cardinality(ready)
  BY <1>1, NumberExists
<1>4. zh \in [Clients -> 0..sessions]
  BY <1>2, <1>3
<1>5. \A c, d \in Clients : zh[c] # 0 /\ zh[c] = zh[d] => c = d
  BY <1>2, <1>3 DEF IsInjective
<1>6. connected \in [Clients -> BOOLEAN] /\ acls = connected /\ live = 1..sessions
  BY <1>1
<1>7. owner \in [Paths -> 0..sessions] /\ freed \subseteq 1..sessions
  BY <1>3 DEF Init
<1>8. Types
  BY <1>3, <1>4, <1>6, <1>7 DEF Init, Types, Steps, Codes
<1>9. \A t \in Threads : Len(call[t].path) \in Nat \ {0}
  BY <1>8, CallType
<1>10. Control
  BY <1>9 DEF Init, Control, At, Held
<1>11. Handles
  BY <1>5 DEF Init, Handles, Looked, FreedHandlesStayUnused
<1>12. ClaimsAreExclusive
  BY DEF Init, ClaimsAreExclusive
<1>13. Parents
  BY DEF Init, Parents, Owners, Climbs, Excused
<1>14. Lists
  BY DEF Init, Lists, Tries
<1> QED BY <1>8, <1>10, <1>11, <1>12, <1>13, <1>14 DEF ZkInv

\* What all the results rest on: the parts together are inductive.
THEOREM ZkInvariant == Spec => []ZkInv
BY InitInv, NextInv, PTL DEF Spec

-----------------------------------------------------------------------------
(* The results. *)

LEMMA InvType == ZkInv => TypeOK
<1> SUFFICES ASSUME ZkInv PROVE TypeOK
  OBVIOUS
<1>1. Types /\ Control
  BY DEF ZkInv
<1> QED BY <1>1 DEF TypeOK, Types, Control, At, Held

\* Types, and no thread returns with mu_ (zk.h:146-172).
THEOREM TypeCorrect == Spec => []TypeOK
BY ZkInvariant, InvType, PTL

\* Of all that create one node, one is answered true until the node is removed
\* (zk.h:135-138), whatever answers are lost and sessions expire.
THEOREM ClaimsExclusive == Spec => []ClaimsAreExclusive
<1>1. ZkInv => ClaimsAreExclusive
  BY DEF ZkInv
<1> QED BY <1>1, ZkInvariant, PTL

\* CreateParent and CreateNode fail because of the parents only when one has
\* been removed or is ephemeral (zk.h:126-131, 160-172).
THEOREM ParentsNoObstacle == Spec => []ParentsAreNoObstacle
<1>1. ZkInv => ParentsAreNoObstacle
  BY DEF ZkInv, Parents, Excused, ParentsAreNoObstacle
<1> QED BY <1>1, ZkInvariant, PTL

\* DeleteAllOfNodes returns true with each listed child gone or tried in vain
\* (zk.h:286-291).
THEOREM AllAreTried == Spec => []DeleteAllTriesAll
<1>1. ZkInv => DeleteAllTriesAll
  BY DEF ZkInv, Lists, Tries, DeleteAllTriesAll
<1> QED BY <1>1, ZkInvariant, PTL

\* But for IsExistedPath, a freed handle is used only by a CreateNode that a
\* CloseZK has overtaken between its look and its lock, or after a CloseZK that
\* zookeeper_close answered an error (zk.h:116, 133, 262-273).
THEOREM FreedHandlesUnused == Spec => []FreedHandlesStayUnused
<1>1. ZkInv => FreedHandlesStayUnused
  BY DEF ZkInv, Handles
<1> QED BY <1>1, ZkInvariant, PTL
=============================================================================
