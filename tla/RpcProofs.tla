----------------------------- MODULE RpcProofs ------------------------------
(***************************************************************************)
(* Theorems about Tablet, for every set of handlers and names, and then    *)
(* about RpcClient, for every set of clients, retries and names: what is   *)
(* proved of the tablet holds under its clients too, what a client has     *)
(* been told stays true, and SendRequest keeps the promise of              *)
(* AtLeastOnce, but for its coming back at all, which is liveness.         *)
(***************************************************************************)
EXTENDS RpcClient, FiniteSetTheorems, TLAPS

(* Type correctness. *)

\* Linking keeps a map a map.
LEMMA LinkType ==
    ASSUME NEW map, NEW V, map \in [Names -> V], None \in V,
           NEW n \in Names, NEW v \in V, NEW new \in Link(map, n, v)
    PROVE  new \in [Names -> V]
<1>1. PICK lost : new = [m \in Names |-> IF m = n THEN v ELSE IF m \in lost THEN None ELSE map[m]]
  BY DEF Link
<1> QED BY <1>1

\* The slot a Create has read is in the field or just behind it.
LEMMA StoreManifestType ==
    ASSUME TypeOK, NEW h \in Handlers, StoreManifest(h)
    PROVE  /\ tablet_manifest' \in Seq(Names)
           /\ size' \in 0..Len(tablet_manifest')
           /\ slot' \in [Handlers -> 0..Len(tablet_manifest')]
           /\ \A i \in 1..Len(tablet_manifest) :
                  i # slot[h] + 1 => tablet_manifest'[i] = tablet_manifest[i]
           /\ slot[h] + 1 \in 1..Len(tablet_manifest')
           /\ tablet_manifest'[slot[h] + 1] = Name(h)
           /\ Len(tablet_manifest') =
                  Len(tablet_manifest) + IF slot[h] = Len(tablet_manifest) THEN 1 ELSE 0
<1> DEFINE k == Len(tablet_manifest) + IF slot[h] = Len(tablet_manifest) THEN 1 ELSE 0
<1>1. /\ Len(tablet_manifest) \in Nat
      /\ \A i \in 1..Len(tablet_manifest) : tablet_manifest[i] \in Names
      /\ slot[h] \in 0..Len(tablet_manifest)
      /\ Name(h) \in Names
  BY DEF TypeOK, Name
<1>2. /\ k \in Nat /\ Len(tablet_manifest) <= k /\ slot[h] + 1 \in 1..k
      /\ \A i \in 1..k : i # slot[h] + 1 => i \in 1..Len(tablet_manifest)
  BY <1>1
<1>3. tablet_manifest' = [i \in 1..k |-> IF i = slot[h] + 1 THEN Name(h) ELSE tablet_manifest[i]]
  BY DEF StoreManifest
<1> HIDE DEF k
<1>4. tablet_manifest' \in [1..k -> Names]
  BY <1>1, <1>2, <1>3
<1>5. tablet_manifest' \in Seq(Names) /\ Len(tablet_manifest') = k
  BY <1>2, <1>4
<1>6. size' = slot[h] + 1 /\ slot' = slot
  BY DEF StoreManifest
<1>7. slot' \in [Handlers -> 0..k]
  BY <1>1, <1>2, <1>6 DEF TypeOK
<1>8. \A i \in 1..Len(tablet_manifest) :
          i # slot[h] + 1 => tablet_manifest'[i] = tablet_manifest[i]
  BY <1>1, <1>2, <1>3
<1>9. tablet_manifest'[slot[h] + 1] = Name(h)
  BY <1>2, <1>3
<1> QED BY <1>2, <1>5, <1>6, <1>7, <1>8, <1>9 DEF k

LEMMA InitType == Init => TypeOK
<1> SUFFICES ASSUME Init PROVE TypeOK
  OBVIOUS
<1>1. tablet_manifest \in Seq(Names) /\ Len(tablet_manifest) = 0
  BY DEF Init, ServerInit
<1>2. 0 \in 0..Len(tablet_manifest)
  BY <1>1
<1>3. size \in 0..Len(tablet_manifest) /\ slot \in [Handlers -> 0..Len(tablet_manifest)]
  BY <1>2 DEF Init, ServerInit
<1> QED BY <1>1, <1>3 DEF Init, ServerInit, TypeOK, Steps

LEMMA HandleType ==
    ASSUME TypeOK, NEW h \in Handlers, Handle(h)
    PROVE  TypeOK'
<1> USE DEF TypeOK, Goto, Respond, Steps, Name, catalog, field, locals
<1>1. CASE CheckNew(h)
  BY <1>1 DEF CheckNew
<1>2. CASE Construct(h)
  BY <1>2 DEF Construct
<1>3. CASE AddManifest(h)
  BY <1>3 DEF AddManifest, Race
<1>4. CASE StoreManifest(h)
  <2>1. /\ tablet_manifest' \in Seq(Names)
        /\ size' \in 0..Len(tablet_manifest')
        /\ slot' \in [Handlers -> 0..Len(tablet_manifest')]
    BY <1>4, StoreManifestType
  <2> QED BY <1>4, <2>1 DEF StoreManifest
<1>5. CASE InsertTable(h)
  BY <1>5 DEF InsertTable, Race
<1>6. CASE LinkTable(h)
  <2>1. table_map' \in [Names -> Handlers \cup {None}]
    BY <1>6, LinkType DEF LinkTable
  <2> QED BY <1>6, <2>1 DEF LinkTable
<1>7. CASE InsertManifest(h)
  BY <1>7 DEF InsertManifest, Race
<1>8. CASE LinkManifest(h)
  <2>1. table_manifest_map' \in [Names -> Nat \cup {None}]
    BY <1>8, LinkType DEF LinkManifest
  <2> QED BY <1>8, <2>1 DEF LinkManifest
<1>9. CASE Lock(h)
  BY <1>9 DEF Lock
<1>10. CASE Find(h)
  BY <1>10 DEF Find
<1>11. CASE TablePut(h)
  BY <1>11 DEF TablePut
<1>12. CASE ReadOffset(h)
  BY <1>12 DEF ReadOffset, Finds
<1>13. CASE WriteOffset(h)
  BY <1>13 DEF WriteOffset
<1>14. CASE TableGet(h)
  BY <1>14 DEF TableGet
<1>15. CASE Unlock(h)
  BY <1>15 DEF Unlock
<1>16. CASE Ignore(h)
  BY <1>16 DEF Ignore
<1> QED
  BY <1>1, <1>2, <1>3, <1>4, <1>5, <1>6, <1>7, <1>8, <1>9, <1>10, <1>11, <1>12,
     <1>13, <1>14, <1>15, <1>16 DEF Handle

LEMMA StutterType == TypeOK /\ UNCHANGED vars => TypeOK'
BY DEF TypeOK, vars

\* The types of the catalog, the responses and the local variables of handlers.
THEOREM TypeCorrect == Spec => []TypeOK
<1>1. TypeOK /\ [Next]_vars => TypeOK'
  BY HandleType, StutterType DEF Next
<1> QED BY <1>1, InitType, PTL DEF Spec

-----------------------------------------------------------------------------
(* Where handlers are, what they have answered, and who holds mu_. *)

Creating == {"construct", "add_manifest", "store_manifest", "insert_table",
             "link_table", "insert_manifest", "link_manifest"}
Putting  == {"table_put", "read_offset", "write_offset"}
Locked   == {"find", "table_get", "unlock"} \cup Putting

Control ==
    \A h \in Handlers :
        /\ pc[h] \in Creating => request[h].op = "create"
        /\ pc[h] \in Locked => request[h].op \in {"put", "get"}
        /\ pc[h] \in Putting => request[h].op = "put"
        /\ pc[h] = "table_get" => request[h].op = "get"
        /\ pc[h] \notin {"unlock", "done"} => code[h] = "none"
        /\ pc[h] \in Locked <=> mu = h

LEMMA InitControl == Init => Control
BY HandlerAssumption DEF Init, ServerInit, Control, Creating, Putting, Locked

\* A step of one handler leaves the others where they are.
LEMMA HandleLocal ==
    ASSUME TypeOK, NEW h \in Handlers, Handle(h)
    PROVE  /\ request' = request
           /\ \A g \in Handlers \ {h} :
                  pc'[g] = pc[g] /\ code'[g] = code[g] /\ offset'[g] = offset[g]
                  /\ target'[g] = target[g] /\ slot'[g] = slot[g]
                  /\ (g \in stored' <=> g \in stored)
<1> USE DEF TypeOK, Goto, Respond, catalog, field, locals
<1>1. CASE CheckNew(h) \/ Construct(h) \/ AddManifest(h) \/ StoreManifest(h)
  BY <1>1 DEF CheckNew, Construct, AddManifest, StoreManifest
<1>2. CASE InsertTable(h) \/ LinkTable(h) \/ InsertManifest(h) \/ LinkManifest(h)
  BY <1>2 DEF InsertTable, LinkTable, InsertManifest, LinkManifest
<1>3. CASE Lock(h) \/ Find(h) \/ TablePut(h) \/ ReadOffset(h)
  BY <1>3 DEF Lock, Find, TablePut, ReadOffset
<1>4. CASE WriteOffset(h) \/ TableGet(h) \/ Unlock(h) \/ Ignore(h)
  BY <1>4 DEF WriteOffset, TableGet, Unlock, Ignore
<1> QED BY <1>1, <1>2, <1>3, <1>4 DEF Handle

\* mu_ changes hands only by Lock and Unlock.
LEMMA HandleControl ==
    ASSUME TypeOK, Control, NEW h \in Handlers, Handle(h)
    PROVE  Control'
<1> DEFINE C(g) ==
        /\ pc[g] \in Creating => request[g].op = "create"
        /\ pc[g] \in Locked => request[g].op \in {"put", "get"}
        /\ pc[g] \in Putting => request[g].op = "put"
        /\ pc[g] = "table_get" => request[g].op = "get"
        /\ pc[g] \notin {"unlock", "done"} => code[g] = "none"
        /\ pc[g] \in Locked <=> mu = g
<1>1. \A g \in Handlers : C(g)
  BY DEF Control
<1>2. /\ pc' \in [Handlers -> Steps] /\ pc \in [Handlers -> Steps] /\ h # None
      /\ code \in [Handlers -> {"none", "OK", "FAILED"}]
      /\ request[h].op \in Ops
  BY HandleType, HandlerAssumption DEF TypeOK
<1>3. C(h)' /\ (mu' = mu \/ (mu = None /\ mu' = h) \/ (mu = h /\ mu' = None))
  <2> USE <1>1, <1>2 DEF Goto, Respond, catalog, field, locals, Creating, Putting, Locked
  <2>1. CASE CheckNew(h)
    BY <2>1 DEF CheckNew
  <2>2. CASE Construct(h)
    BY <2>2 DEF Construct
  <2>3. CASE AddManifest(h)
    BY <2>3 DEF AddManifest
  <2>4. CASE StoreManifest(h)
    BY <2>4 DEF StoreManifest
  <2>5. CASE InsertTable(h)
    BY <2>5 DEF InsertTable
  <2>6. CASE LinkTable(h)
    BY <2>6 DEF LinkTable
  <2>7. CASE InsertManifest(h)
    BY <2>7 DEF InsertManifest
  <2>8. CASE LinkManifest(h)
    BY <2>8 DEF LinkManifest
  <2>9. CASE Lock(h)
    BY <2>9 DEF Lock
  <2>10. CASE Find(h)
    BY <2>10 DEF Find
  <2>11. CASE TablePut(h)
    BY <2>11 DEF TablePut
  <2>12. CASE ReadOffset(h)
    BY <2>12 DEF ReadOffset
  <2>13. CASE WriteOffset(h)
    BY <2>13 DEF WriteOffset
  <2>14. CASE TableGet(h)
    BY <2>14 DEF TableGet
  <2>15. CASE Unlock(h)
    BY <2>15 DEF Unlock
  <2>16. CASE Ignore(h)
    BY <2>16 DEF Ignore
  <2> QED
    BY <2>1, <2>2, <2>3, <2>4, <2>5, <2>6, <2>7, <2>8, <2>9, <2>10, <2>11, <2>12,
       <2>13, <2>14, <2>15, <2>16 DEF Handle
<1>4. ASSUME NEW g \in Handlers \ {h}
      PROVE  C(g)'
  <2>1. request' = request /\ pc'[g] = pc[g] /\ code'[g] = code[g]
    BY HandleLocal
  <2>2. mu' = g <=> mu = g
    BY <1>2, <1>3, HandlerAssumption
  <2> QED BY <1>1, <2>1, <2>2
<1> QED BY <1>3, <1>4 DEF Control

-----------------------------------------------------------------------------
(* Insertions that do not race. *)

\* At most one handler is about to change a container, it is about to put
\* something where there is nothing, and what it has read is still so.
Races ==
    ~raced =>
        /\ \A step \in {"store_manifest", "link_table", "link_manifest"} :
               \A g, h \in Handlers : pc[g] = step /\ pc[h] = step => g = h
        /\ size = Len(tablet_manifest)
        /\ \A h \in Handlers :
               /\ pc[h] = "store_manifest" => slot[h] = size
               /\ pc[h] = "link_table" => table_map[Name(h)] = None
               /\ pc[h] = "link_manifest" => table_manifest_map[Name(h)] = None
               /\ pc[h] = "write_offset" =>
                      /\ table_manifest_map[Name(h)] # None
                      /\ offset[h] = table_manifest_map[Name(h)]

LEMMA InitRaces == Init => Races
<1> SUFFICES ASSUME Init PROVE Races
  OBVIOUS
<1>1. size = Len(tablet_manifest)
  BY DEF Init, ServerInit
<1>2. \A h \in Handlers : pc[h] = "start"
  BY DEF Init, ServerInit
<1> QED BY <1>1, <1>2 DEF Races

\* A race is not forgotten.
LEMMA RacedStays ==
    ASSUME TypeOK, NEW h \in Handlers, Handle(h), ~raced'
    PROVE  ~raced
<1> USE DEF TypeOK, catalog, field, Race
<1>1. CASE CheckNew(h) \/ Construct(h) \/ AddManifest(h) \/ StoreManifest(h)
  BY <1>1 DEF CheckNew, Construct, AddManifest, StoreManifest
<1>2. CASE InsertTable(h) \/ LinkTable(h) \/ InsertManifest(h) \/ LinkManifest(h)
  BY <1>2 DEF InsertTable, LinkTable, InsertManifest, LinkManifest
<1>3. CASE Lock(h) \/ Find(h) \/ TablePut(h) \/ ReadOffset(h)
  BY <1>3 DEF Lock, Find, TablePut, ReadOffset
<1>4. CASE WriteOffset(h) \/ TableGet(h) \/ Unlock(h) \/ Ignore(h)
  BY <1>4 DEF WriteOffset, TableGet, Unlock, Ignore
<1> QED BY <1>1, <1>2, <1>3, <1>4 DEF Handle

\* Without a race a link loses nothing.
LEMMA LinkKeeps ==
    ASSUME ~raced, NEW map, NEW n \in Names, NEW v, NEW new \in Link(map, n, v)
    PROVE  /\ new[n] = v
           /\ \A m \in Names \ {n} : new[m] = map[m]
<1>1. new = [m \in Names |-> IF m = n THEN v ELSE map[m]]
  BY DEF Link
<1> QED BY <1>1

\* What a step does to the two maps.
MapsStep(h) ==
    \/ /\ pc[h] \notin {"link_table", "link_manifest", "write_offset"}
       /\ UNCHANGED <<table_map, table_manifest_map>>
    \/ /\ pc[h] = "link_table" /\ pc'[h] = "insert_manifest"
       /\ table_map'[Name(h)] = h
       /\ \A m \in Names \ {Name(h)} : table_map'[m] = table_map[m]
       /\ UNCHANGED table_manifest_map
    \/ /\ pc[h] = "link_manifest" /\ pc'[h] = "done" /\ code'[h] = "OK"
       /\ table_manifest_map'[Name(h)] = 0
       /\ \A m \in Names \ {Name(h)} : table_manifest_map'[m] = table_manifest_map[m]
       /\ UNCHANGED table_map
    \/ /\ pc[h] = "write_offset" /\ pc'[h] = "unlock" /\ code'[h] = "OK"
       /\ table_manifest_map'[Name(h)] = offset[h] + 1
       /\ \A m \in Names \ {Name(h)} : table_manifest_map'[m] = table_manifest_map[m]
       /\ UNCHANGED table_map

LEMMA HandleMaps ==
    ASSUME TypeOK, NEW h \in Handlers, Handle(h), ~raced'
    PROVE  MapsStep(h)
<1> USE DEF TypeOK, Goto, Respond, catalog, field, MapsStep
<1>1. ~raced /\ Name(h) \in Names
  BY RacedStays DEF Name
<1>2. CASE CheckNew(h) \/ Construct(h) \/ AddManifest(h) \/ StoreManifest(h)
  BY <1>2 DEF CheckNew, Construct, AddManifest, StoreManifest
<1>3. CASE InsertTable(h) \/ InsertManifest(h)
  BY <1>3 DEF InsertTable, InsertManifest
<1>4. CASE LinkTable(h)
  BY <1>1, <1>4, LinkKeeps DEF LinkTable
<1>5. CASE LinkManifest(h)
  BY <1>1, <1>5, LinkKeeps DEF LinkManifest
<1>6. CASE Lock(h) \/ Find(h) \/ TablePut(h) \/ ReadOffset(h)
  BY <1>6 DEF Lock, Find, TablePut, ReadOffset
<1>7. CASE WriteOffset(h)
  BY <1>1, <1>7 DEF WriteOffset
<1>8. CASE TableGet(h) \/ Unlock(h) \/ Ignore(h)
  BY <1>8 DEF TableGet, Unlock, Ignore
<1> QED BY <1>2, <1>3, <1>4, <1>5, <1>6, <1>7, <1>8 DEF Handle

\* Without races nothing that requests find is replaced or lost, but for the
\* increments of a Put.
LEMMA EntriesStay ==
    ASSUME TypeOK, Races, NEW h \in Handlers, Handle(h), ~raced'
    PROVE  \A n \in Names :
               /\ table_map[n] # None => table_map'[n] = table_map[n]
               /\ table_manifest_map[n] # None => table_manifest_map'[n] # None
               /\ table_manifest_map[n] # None /\ (pc[h] # "write_offset" \/ Name(h) # n)
                      => table_manifest_map'[n] = table_manifest_map[n]
<1>1. MapsStep(h) /\ ~raced
  BY HandleMaps, RacedStays
<1>2. offset[h] + 1 # None /\ 0 # None
  BY HandlerAssumption DEF TypeOK
<1> QED BY <1>1, <1>2 DEF MapsStep, Races

LEMMA HandleRaces ==
    ASSUME TypeOK, Control, Races, NEW h \in Handlers, Handle(h)
    PROVE  Races'
<1> SUFFICES ASSUME ~raced' PROVE Races'
  BY DEF Races
<1>1. /\ ~raced
      /\ \A step \in {"store_manifest", "link_table", "link_manifest"} :
             \A f, g \in Handlers : pc[f] = step /\ pc[g] = step => f = g
      /\ size = Len(tablet_manifest)
      /\ \A g \in Handlers :
             /\ pc[g] = "store_manifest" => slot[g] = size
             /\ pc[g] = "link_table" => table_map[Name(g)] = None
             /\ pc[g] = "link_manifest" => table_manifest_map[Name(g)] = None
             /\ pc[g] = "write_offset" =>
                    /\ table_manifest_map[Name(g)] # None
                    /\ offset[g] = table_manifest_map[Name(g)]
  BY RacedStays DEF Races
<1>2. /\ request' = request
      /\ \A g \in Handlers \ {h} :
             pc'[g] = pc[g] /\ offset'[g] = offset[g] /\ slot'[g] = slot[g]
  BY HandleLocal
<1>3. \A g \in Handlers : Name(g) \in Names /\ Name(g)' = Name(g)
  BY <1>2 DEF TypeOK, Name
<1>4. MapsStep(h)
  BY HandleMaps
<1>5. ASSUME NEW step \in {"store_manifest", "link_table", "link_manifest"}, pc'[h] = step
      PROVE  \A g \in Handlers \ {h} : pc[g] # step
  <2> USE <1>5 DEF TypeOK, Goto, Race, Under, catalog, field
  <2>1. CASE AddManifest(h)
    BY <2>1 DEF AddManifest
  <2>2. CASE InsertTable(h) \/ InsertManifest(h)
    BY <2>2 DEF InsertTable, InsertManifest
  <2>3. CASE CheckNew(h) \/ Construct(h) \/ StoreManifest(h) \/ LinkTable(h) \/ LinkManifest(h)
    BY <2>3 DEF CheckNew, Construct, StoreManifest, LinkTable, LinkManifest
  <2>4. CASE Lock(h) \/ Find(h) \/ TablePut(h) \/ ReadOffset(h)
    BY <2>4 DEF Lock, Find, TablePut, ReadOffset
  <2>5. CASE WriteOffset(h) \/ TableGet(h) \/ Unlock(h) \/ Ignore(h)
    BY <2>5 DEF WriteOffset, TableGet, Unlock, Ignore
  <2> QED BY <2>1, <2>2, <2>3, <2>4, <2>5 DEF Handle
<1>6. \A step \in {"store_manifest", "link_table", "link_manifest"} :
          \A f, g \in Handlers : pc'[f] = step /\ pc'[g] = step => f = g
  BY <1>1, <1>2, <1>5
<1>7. /\ size' = Len(tablet_manifest')
      /\ pc[h] # "store_manifest" => size' = size
      /\ pc'[h] = "store_manifest" => slot'[h] = size'
  <2> USE <1>1 DEF TypeOK, Goto, catalog, field
  <2>1. CASE StoreManifest(h)
    <3>1. /\ Len(tablet_manifest') =
                 Len(tablet_manifest) + IF slot[h] = Len(tablet_manifest) THEN 1 ELSE 0
          /\ pc[h] = "store_manifest" /\ pc'[h] = "insert_table" /\ size' = slot[h] + 1
      BY <2>1, StoreManifestType DEF StoreManifest
    <3>2. slot[h] = Len(tablet_manifest) /\ Len(tablet_manifest) \in Nat
      BY <3>1
    <3> QED BY <3>1, <3>2
  <2>2. CASE AddManifest(h)
    BY <2>2 DEF AddManifest
  <2>3. CASE CheckNew(h) \/ Construct(h) \/ InsertTable(h) \/ InsertManifest(h)
    BY <2>3 DEF CheckNew, Construct, InsertTable, InsertManifest
  <2>4. CASE LinkTable(h) \/ LinkManifest(h) \/ Lock(h) \/ Find(h) \/ TablePut(h)
    BY <2>4 DEF LinkTable, LinkManifest, Lock, Find, TablePut
  <2>5. CASE ReadOffset(h) \/ WriteOffset(h) \/ TableGet(h) \/ Unlock(h) \/ Ignore(h)
    BY <2>5 DEF ReadOffset, WriteOffset, TableGet, Unlock, Ignore
  <2> QED BY <2>1, <2>2, <2>3, <2>4, <2>5 DEF Handle
<1>8. ASSUME NEW g \in Handlers, pc'[g] = "store_manifest"
      PROVE  slot'[g] = size'
  <2>1. CASE g = h
    BY <1>7, <1>8, <2>1
  <2>2. CASE g # h
    BY <1>1, <1>2, <1>7, <1>8, <2>2
  <2> QED BY <2>1, <2>2
<1>9. ASSUME NEW g \in Handlers, pc'[g] = "link_table"
      PROVE  table_map'[Name(g)] = None
  <2>1. CASE g = h
    <3>1. InsertTable(h) /\ table_map[Name(h)] = None /\ table_map' = table_map
      <4> USE <1>9, <2>1 DEF TypeOK, Goto, catalog, field
      <4>1. InsertTable(h)
        BY DEF Handle, CheckNew, Construct, AddManifest, StoreManifest, LinkTable,
               InsertManifest, LinkManifest, Lock, Find, TablePut, ReadOffset,
               WriteOffset, TableGet, Unlock, Ignore
      <4>2. ~Under(h, "link_table")
        BY <1>5 DEF Under
      <4> QED BY <4>1, <4>2 DEF InsertTable, Misses
    <3> QED BY <2>1, <3>1
  <2>2. CASE g # h
    <3>1. pc[g] = "link_table" /\ pc[h] # "link_table"
      BY <1>1, <1>2, <1>9, <2>2
    <3> QED BY <1>1, <1>4, <3>1 DEF MapsStep
  <2> QED BY <2>1, <2>2
<1>10. ASSUME NEW g \in Handlers, pc'[g] = "link_manifest"
      PROVE  table_manifest_map'[Name(g)] = None
  <2>1. CASE g = h
    <3>1. /\ InsertManifest(h) /\ table_manifest_map[Name(h)] = None
          /\ table_manifest_map' = table_manifest_map
      <4> USE <1>10, <2>1 DEF TypeOK, Goto, catalog, field
      <4>1. InsertManifest(h)
        BY DEF Handle, CheckNew, Construct, AddManifest, StoreManifest, LinkTable,
               InsertTable, LinkManifest, Lock, Find, TablePut, ReadOffset,
               WriteOffset, TableGet, Unlock, Ignore
      <4>2. ~Under(h, "link_manifest")
        BY <1>5 DEF Under
      <4> QED BY <4>1, <4>2 DEF InsertManifest, Misses
    <3> QED BY <2>1, <3>1
  <2>2. CASE g # h
    <3>1. pc[g] = "link_manifest" /\ pc[h] # "link_manifest"
      BY <1>1, <1>2, <1>10, <2>2
    <3> QED BY <1>1, <1>3, <1>4, <3>1 DEF MapsStep
  <2> QED BY <2>1, <2>2
<1>11. ASSUME NEW g \in Handlers, pc'[g] = "write_offset"
      PROVE  /\ table_manifest_map'[Name(g)] # None
             /\ offset'[g] = table_manifest_map'[Name(g)]
  <2>1. CASE g = h
    <3>1. ReadOffset(h)
      BY <1>11, <2>1 DEF TypeOK, Goto, Handle, CheckNew, Construct, AddManifest,
         StoreManifest, LinkTable, InsertTable, InsertManifest, LinkManifest, Lock,
         Find, TablePut, WriteOffset, TableGet, Unlock, Ignore
    <3> QED BY <1>11, <2>1, <3>1 DEF ReadOffset, Finds, Goto, TypeOK, catalog
  <2>2. CASE g # h
    <3>1. pc[g] = "write_offset" /\ pc[h] # "write_offset"
      BY <1>2, <1>11, <2>2 DEF Control, Locked, Putting
    <3>2. table_manifest_map'[Name(g)] = table_manifest_map[Name(g)]
      BY <1>1, <1>3, <3>1, EntriesStay
    <3> QED BY <1>1, <1>2, <2>2, <3>1, <3>2
  <2> QED BY <2>1, <2>2
<1> QED BY <1>3, <1>6, <1>7, <1>8, <1>9, <1>10, <1>11 DEF Races

-----------------------------------------------------------------------------
(* What requests find. *)

\* Handlers that have found their table, and those of Create that have got as
\* far as a table, and as a manifest.
Finding  == Putting \cup {"table_get"}
Past     == {"insert_manifest", "link_manifest"}
HasTable(h)    == pc[h] \in Finding \/ h \in stored
                     \/ (request[h].op \in {"put", "get"} /\ code[h] = "OK")
MadeTable(h)   == pc[h] \in Past \/ (request[h].op = "create" /\ code[h] = "OK")
HasManifest(h) == request[h].op \in {"create", "put"} /\ code[h] = "OK"

Tables ==
    ~raced =>
        \A h \in Handlers :
            /\ HasTable(h) => target[h] # None /\ target[h] = table_map[Name(h)]
            /\ MadeTable(h) => table_map[Name(h)] # None
            /\ HasManifest(h) => table_manifest_map[Name(h)] # None

LEMMA InitTables == Init => Tables
BY DEF Init, ServerInit, Tables, Finding, Putting, Past, HasTable, MadeTable, HasManifest

\* How a handler comes to its table and to its manifest.
LEMMA HandleFinds ==
    ASSUME TypeOK, Control, Races, Tables, NEW h \in Handlers, Handle(h), ~raced'
    PROVE  /\ HasTable(h)' => target'[h] # None /\ target'[h] = table_map'[Name(h)]
           /\ MadeTable(h)' => table_map'[Name(h)] # None
           /\ HasManifest(h)' => table_manifest_map'[Name(h)] # None
<1>1. /\ ~raced /\ h # None /\ 0 # None /\ offset[h] + 1 # None /\ Name(h) \in Names
      /\ request' = request /\ request[h].op \in Ops
      /\ h \in DOMAIN pc /\ h \in DOMAIN code
  BY RacedStays, HandleLocal, HandlerAssumption DEF TypeOK, Name
<1>2. /\ HasTable(h) => target[h] # None /\ target[h] = table_map[Name(h)]
      /\ MadeTable(h) => table_map[Name(h)] # None
      /\ HasManifest(h) => table_manifest_map[Name(h)] # None
      /\ pc[h] = "write_offset" => table_manifest_map[Name(h)] # None
  BY <1>1 DEF Tables, Races
<1>3. /\ pc[h] \in Creating => request[h].op = "create"
      /\ pc[h] \in Putting => request[h].op = "put"
      /\ pc[h] \in Locked => request[h].op \in {"put", "get"}
      /\ pc[h] = "table_get" => request[h].op = "get"
      /\ pc[h] \notin {"unlock", "done"} => code[h] = "none"
  BY DEF Control
<1>4. /\ table_map[Name(h)] # None => table_map'[Name(h)] = table_map[Name(h)]
      /\ table_manifest_map[Name(h)] # None => table_manifest_map'[Name(h)] # None
      /\ MapsStep(h)
  BY <1>1, EntriesStay, HandleMaps
<1> USE <1>1, <1>2, <1>3, <1>4
        DEF HasTable, MadeTable, HasManifest, Finding, Putting, Past, Creating, Locked,
            Goto, Respond, catalog, field, locals
<1>5. CASE CheckNew(h)
  BY <1>5 DEF CheckNew
<1>6. CASE Construct(h) \/ AddManifest(h) \/ StoreManifest(h)
  BY <1>6 DEF Construct, AddManifest, StoreManifest
<1>7. CASE InsertTable(h)
  BY <1>7 DEF InsertTable, Finds
<1>8. CASE LinkTable(h)
  BY <1>8 DEF LinkTable, MapsStep
<1>9. CASE InsertManifest(h)
  BY <1>9 DEF InsertManifest, Finds
<1>10. CASE LinkManifest(h)
  BY <1>10 DEF LinkManifest, MapsStep
<1>11. CASE Lock(h)
  BY <1>11 DEF Lock
<1>12. CASE Find(h)
  BY <1>12 DEF Find, Finds, TypeOK
<1>13. CASE TablePut(h)
  BY <1>13 DEF TablePut
<1>14. CASE ReadOffset(h)
  BY <1>14 DEF ReadOffset
<1>15. CASE WriteOffset(h)
  BY <1>15 DEF WriteOffset
<1>16. CASE TableGet(h)
  BY <1>16 DEF TableGet
<1>17. CASE Unlock(h)
  BY <1>17 DEF Unlock
<1>18. CASE Ignore(h)
  BY <1>18 DEF Ignore
<1> QED
  BY <1>5, <1>6, <1>7, <1>8, <1>9, <1>10, <1>11, <1>12, <1>13, <1>14, <1>15, <1>16,
     <1>17, <1>18 DEF Handle

LEMMA HandleTables ==
    ASSUME TypeOK, Control, Races, Tables, NEW h \in Handlers, Handle(h)
    PROVE  Tables'
<1> SUFFICES ASSUME ~raced' PROVE Tables'
  BY DEF Tables
<1>1. ~raced
  BY RacedStays
<1>2. ASSUME NEW g \in Handlers \ {h}
      PROVE  /\ HasTable(g)' => target'[g] # None /\ target'[g] = table_map'[Name(g)']
             /\ MadeTable(g)' => table_map'[Name(g)'] # None
             /\ HasManifest(g)' => table_manifest_map'[Name(g)'] # None
  <2>1. Name(g) \in Names /\ Name(g)' = Name(g)
    BY HandleLocal DEF TypeOK, Name
  <2>2. /\ table_map[Name(g)] # None => table_map'[Name(g)] = table_map[Name(g)]
        /\ table_manifest_map[Name(g)] # None => table_manifest_map'[Name(g)] # None
    BY <2>1, EntriesStay
  <2>3. /\ target'[g] = target[g] /\ (HasTable(g)' <=> HasTable(g))
        /\ (MadeTable(g)' <=> MadeTable(g)) /\ (HasManifest(g)' <=> HasManifest(g))
    BY HandleLocal DEF HasTable, MadeTable, HasManifest
  <2> QED BY <1>1, <2>1, <2>2, <2>3 DEF Tables
<1>3. Name(h)' = Name(h)
  BY HandleLocal DEF Name
<1> QED BY <1>2, <1>3, HandleFinds DEF Tables

-----------------------------------------------------------------------------
(* The manifests count. *)

Counts ==
    ~raced =>
        \A n \in Names :
            IF table_manifest_map[n] = None THEN CountedPuts(n) = {}
            ELSE table_manifest_map[n] = Cardinality(CountedPuts(n))

LEMMA InitCounts == Init => Counts
BY DEF Init, ServerInit, Counts, CountedPuts

\* A Put is counted by WriteOffset, and nothing else changes what is counted.
LEMMA HandleCounted ==
    ASSUME TypeOK, Control, NEW h \in Handlers, Handle(h), NEW n \in Names
    PROVE  CountedPuts(n)' = IF pc[h] = "write_offset" /\ Name(h) = n
                             THEN CountedPuts(n) \cup {h} ELSE CountedPuts(n)
<1>1. /\ request' = request /\ \A g \in Handlers \ {h} : code'[g] = code[g]
      /\ \A g \in Handlers : Name(g)' = Name(g)
  BY HandleLocal DEF Name
<1>2. request[h].op = "put" =>
          (code'[h] = "OK" <=> (code[h] = "OK" \/ pc[h] = "write_offset"))
  <2> USE DEF TypeOK, Goto, Respond, catalog, locals, field
  <2>1. pc[h] \in Creating \cup {"table_get"} => request[h].op # "put"
    BY DEF Control
  <2>2. pc[h] \notin {"unlock", "done"} => code[h] = "none"
    BY DEF Control
  <2>3. CASE CheckNew(h) \/ Construct(h) \/ AddManifest(h) \/ StoreManifest(h)
    BY <2>1, <2>2, <2>3 DEF CheckNew, Construct, AddManifest, StoreManifest, Creating
  <2>4. CASE InsertTable(h) \/ LinkTable(h) \/ InsertManifest(h) \/ LinkManifest(h)
    BY <2>1, <2>2, <2>4 DEF InsertTable, LinkTable, InsertManifest, LinkManifest, Creating
  <2>5. CASE Lock(h) \/ Find(h) \/ TablePut(h) \/ ReadOffset(h)
    BY <2>1, <2>2, <2>5 DEF Lock, Find, TablePut, ReadOffset
  <2>6. CASE WriteOffset(h)
    BY <2>1, <2>2, <2>6 DEF WriteOffset
  <2>7. CASE TableGet(h) \/ Unlock(h) \/ Ignore(h)
    BY <2>1, <2>2, <2>7 DEF TableGet, Unlock, Ignore
  <2> QED BY <2>3, <2>4, <2>5, <2>6, <2>7 DEF Handle
<1>3. pc[h] = "write_offset" => request[h].op = "put"
  BY DEF Control, Putting
<1> QED BY <1>1, <1>2, <1>3 DEF CountedPuts

LEMMA HandleCounts ==
    ASSUME TypeOK, Control, Races, Counts, NEW h \in Handlers, Handle(h)
    PROVE  Counts'
<1> SUFFICES ASSUME ~raced', NEW n \in Names
             PROVE  IF table_manifest_map'[n] = None THEN CountedPuts(n)' = {}
                    ELSE table_manifest_map'[n] = Cardinality(CountedPuts(n)')
  BY DEF Counts
<1>1. /\ ~raced /\ MapsStep(h)
      /\ IF table_manifest_map[n] = None THEN CountedPuts(n) = {}
         ELSE table_manifest_map[n] = Cardinality(CountedPuts(n))
  BY RacedStays, HandleMaps DEF Counts
<1>2. 0 # None /\ offset[h] + 1 # None
  BY HandlerAssumption DEF TypeOK
<1>3. CASE pc[h] = "write_offset" /\ Name(h) = n
  <2>1. /\ table_manifest_map'[n] = offset[h] + 1
        /\ offset[h] = Cardinality(CountedPuts(n))
    BY <1>1, <1>3 DEF MapsStep, Races, TypeOK, Goto
  <2>2. IsFiniteSet(CountedPuts(n))
    BY FS_Subset, HandlerAssumption DEF CountedPuts
  <2>3. h \notin CountedPuts(n)
    BY <1>3 DEF CountedPuts, Control
  <2>4. Cardinality(CountedPuts(n) \cup {h}) = Cardinality(CountedPuts(n)) + 1
    BY <2>2, <2>3, FS_AddElement
  <2> QED BY <1>2, <1>3, <2>1, <2>4, HandleCounted
<1>4. CASE pc[h] = "link_manifest" /\ Name(h) = n
  <2>1. CountedPuts(n) = {} /\ table_manifest_map'[n] = 0
    BY <1>1, <1>4 DEF MapsStep, Races
  <2> QED BY <1>2, <1>4, <2>1, HandleCounted, FS_EmptySet
<1>5. CASE ~(pc[h] \in {"write_offset", "link_manifest"} /\ Name(h) = n)
  <2>1. table_manifest_map'[n] = table_manifest_map[n]
    BY <1>1, <1>5 DEF MapsStep
  <2> QED BY <1>1, <1>5, <2>1, HandleCounted
<1> QED BY <1>3, <1>4, <1>5

-----------------------------------------------------------------------------
(* The manifest of the tablet. *)

Listed(n) == \E i \in 1..size : tablet_manifest[i] = n

Lists ==
    ~raced =>
        /\ \A h \in Handlers :
               pc[h] \in {"insert_table", "link_table"} \cup Past => Listed(Name(h))
        /\ \A n \in Names : table_map[n] # None =>
               /\ Listed(n)
               /\ \/ table_manifest_map[n] # None
                  \/ \E h \in Handlers : Name(h) = n /\ pc[h] \in Past

LEMMA InitLists == Init => Lists
BY DEF Init, ServerInit, Lists, Past

\* What is listed stays listed, and StoreManifest lists the name.
LEMMA HandleListed ==
    ASSUME TypeOK, Races, NEW h \in Handlers, Handle(h), ~raced'
    PROVE  /\ \A n \in Names : Listed(n) => Listed(n)'
           /\ StoreManifest(h) => Listed(Name(h))'
<1>1. CASE StoreManifest(h)
  <2>1. /\ Len(tablet_manifest) \in Nat
        /\ slot[h] = Len(tablet_manifest)
        /\ size = Len(tablet_manifest)
        /\ size' = slot[h] + 1
    BY <1>1, RacedStays DEF Races, StoreManifest, Goto, TypeOK
  <2>2. /\ \A i \in 1..Len(tablet_manifest) :
               i # slot[h] + 1 => tablet_manifest'[i] = tablet_manifest[i]
        /\ tablet_manifest'[slot[h] + 1] = Name(h)
    BY <1>1, StoreManifestType
  <2>3. \A i \in 1..size : i \in 1..size' /\ tablet_manifest'[i] = tablet_manifest[i]
    BY <2>1, <2>2
  <2>4. size' \in 1..size' /\ tablet_manifest'[size'] = Name(h)
    BY <2>1, <2>2
  <2>5. Name(h)' = Name(h)
    BY HandleLocal DEF Name
  <2> QED BY <2>3, <2>4, <2>5 DEF Listed
<1>2. CASE ~StoreManifest(h)
  <2>1. UNCHANGED <<tablet_manifest, size>>
    <3> USE DEF catalog, field
    <3>1. CASE CheckNew(h) \/ Construct(h) \/ AddManifest(h) \/ InsertTable(h)
      BY <3>1 DEF CheckNew, Construct, AddManifest, InsertTable
    <3>2. CASE LinkTable(h) \/ InsertManifest(h) \/ LinkManifest(h) \/ Lock(h) \/ Find(h)
      BY <3>2 DEF LinkTable, InsertManifest, LinkManifest, Lock, Find
    <3>3. CASE TablePut(h) \/ ReadOffset(h) \/ WriteOffset(h) \/ TableGet(h)
      BY <3>3 DEF TablePut, ReadOffset, WriteOffset, TableGet
    <3>4. CASE Unlock(h) \/ Ignore(h)
      BY <3>4 DEF Unlock, Ignore
    <3> QED BY <1>2, <3>1, <3>2, <3>3, <3>4 DEF Handle
  <2> QED BY <1>2, <2>1 DEF Listed
<1> QED BY <1>1, <1>2

LEMMA HandleLists ==
    ASSUME TypeOK, Races, Lists, NEW h \in Handlers, Handle(h)
    PROVE  Lists'
<1> SUFFICES ASSUME ~raced' PROVE Lists'
  BY DEF Lists
<1>1. /\ ~raced
      /\ \A g \in Handlers :
             pc[g] \in {"insert_table", "link_table"} \cup Past => Listed(Name(g))
      /\ \A n \in Names : table_map[n] # None =>
             /\ Listed(n)
             /\ \/ table_manifest_map[n] # None
                \/ \E g \in Handlers : Name(g) = n /\ pc[g] \in Past
  BY RacedStays DEF Lists
<1>2. /\ \A g \in Handlers : Name(g) \in Names /\ Name(g)' = Name(g)
      /\ \A g \in Handlers \ {h} : pc'[g] = pc[g]
      /\ h # None /\ 0 # None
  BY HandleLocal, HandlerAssumption DEF TypeOK, Name
<1>3. /\ pc'[h] \in {"insert_table", "link_table"} \cup Past =>
             StoreManifest(h) \/ pc[h] \in {"insert_table", "link_table"} \cup Past
      /\ pc[h] \in Past => pc'[h] \in Past \/ table_manifest_map'[Name(h)] # None
  <2> USE <1>2 DEF Goto, Past, TypeOK, catalog, field
  <2>1. CASE CheckNew(h) \/ Construct(h) \/ AddManifest(h) \/ StoreManifest(h)
    BY <2>1 DEF CheckNew, Construct, AddManifest, StoreManifest
  <2>2. CASE InsertTable(h) \/ LinkTable(h)
    BY <2>2 DEF InsertTable, LinkTable
  <2>3. CASE InsertManifest(h)
    BY <2>3 DEF InsertManifest, Finds
  <2>4. CASE LinkManifest(h)
    <3>1. table_manifest_map'[Name(h)] = 0
      BY <1>1, <2>4, LinkKeeps DEF LinkManifest
    <3> QED BY <2>4, <3>1 DEF LinkManifest
  <2>5. CASE Lock(h) \/ Find(h) \/ TablePut(h) \/ ReadOffset(h)
    BY <2>5 DEF Lock, Find, TablePut, ReadOffset
  <2>6. CASE WriteOffset(h) \/ TableGet(h) \/ Unlock(h) \/ Ignore(h)
    BY <2>6 DEF WriteOffset, TableGet, Unlock, Ignore
  <2> QED BY <2>1, <2>2, <2>3, <2>4, <2>5, <2>6 DEF Handle
<1>4. ASSUME NEW g \in Handlers, pc'[g] \in {"insert_table", "link_table"} \cup Past
      PROVE  Listed(Name(g))'
  <2>1. CASE g = h /\ StoreManifest(h)
    BY <2>1, HandleListed
  <2>2. CASE ~(g = h /\ StoreManifest(h))
    <3>1. Listed(Name(g))
      BY <1>1, <1>2, <1>3, <1>4, <2>2
    <3>2. (Listed(Name(g)))' <=> \E i \in 1..size' : tablet_manifest'[i] = Name(g)
      BY <1>2 DEF Listed
    <3>3. \A n \in Names : Listed(n) => \E i \in 1..size' : tablet_manifest'[i] = n
      BY HandleListed DEF Listed
    <3> QED BY <1>2, <3>1, <3>2, <3>3
  <2> QED BY <2>1, <2>2
<1>5. ASSUME NEW n \in Names, table_map'[n] # None
      PROVE  /\ Listed(n)'
             /\ \/ table_manifest_map'[n] # None
                \/ \E g \in Handlers : Name(g)' = n /\ pc'[g] \in Past
  <2>1. CASE table_map[n] # None
    <3>1. table_manifest_map[n] # None => table_manifest_map'[n] # None
      BY EntriesStay
    <3>2. ASSUME NEW g \in Handlers, Name(g) = n, pc[g] \in Past
          PROVE  \/ table_manifest_map'[n] # None
                 \/ \E f \in Handlers : Name(f)' = n /\ pc'[f] \in Past
      <4>1. pc'[g] \in Past \/ table_manifest_map'[n] # None
        BY <1>2, <1>3, <3>2
      <4> QED BY <1>2, <3>2, <4>1
    <3> QED BY <1>1, <2>1, <3>1, <3>2, HandleListed
  <2>2. CASE table_map[n] = None
    <3>1. /\ pc[h] = "link_table" /\ pc'[h] = "insert_manifest" /\ Name(h) = n
      BY <1>5, <2>2, HandleMaps DEF MapsStep
    <3>2. Listed(n)
      BY <1>1, <3>1
    <3> QED BY <1>2, <3>1, <3>2, HandleListed DEF Past
  <2> QED BY <2>1, <2>2
<1> QED BY <1>4, <1>5 DEF Lists

-----------------------------------------------------------------------------
(* The theorems. *)

TabletInv == TypeOK /\ Control /\ Races /\ Tables /\ Counts /\ Lists

LEMMA InitInv == Init => TabletInv
BY InitType, InitControl, InitRaces, InitTables, InitCounts, InitLists DEF TabletInv

LEMMA NextInv == TabletInv /\ [Next]_vars => TabletInv'
<1> SUFFICES ASSUME TabletInv, [Next]_vars PROVE TabletInv'
  OBVIOUS
<1>1. ASSUME NEW h \in Handlers, Handle(h) PROVE TabletInv'
  BY <1>1, HandleType, HandleControl, HandleRaces, HandleTables, HandleCounts, HandleLists
     DEF TabletInv
<1>2. CASE UNCHANGED vars
  BY <1>2 DEF TabletInv, vars, TypeOK, Control, Races, Tables, Counts, Lists, Name,
     HasTable, MadeTable, HasManifest, CountedPuts, Listed
<1> QED BY <1>1, <1>2 DEF Next

THEOREM TabletCorrect == Spec => []TabletInv
BY InitInv, NextInv, PTL DEF Spec

\* A statement once stored is in the table that later requests find, unless
\* insertions race, however many Creates of one name the check lets through
\* (tablet.h:131,152).
THEOREM PutsStayVisible == Spec => []StoredPutsAreVisible
<1>1. TabletInv => StoredPutsAreVisible
  BY DEF TabletInv, TypeOK, Tables, HasTable, StoredPutsAreVisible
<1> QED BY <1>1, TabletCorrect, PTL

\* The offset in a manifest is the number of puts answered OK (tablet.h:209-211).
THEOREM ManifestsCount == Spec => []ManifestCountsPuts
<1>1. TabletInv => ManifestCountsPuts
  BY DEF TabletInv, Counts, ManifestCountsPuts
<1> QED BY <1>1, TabletCorrect, PTL

\* What requests find is listed and has a manifest (tablet.h:150-153).
THEOREM CatalogComplete == Spec => []CatalogIsComplete
<1>1. TabletInv => CatalogIsComplete
  BY DEF TabletInv, Lists, Listed, Past, CatalogIsComplete
<1> QED BY <1>1, TabletCorrect, PTL

-----------------------------------------------------------------------------

(* Attempts. *)

LEMMA Attempts ==
    /\ \A h \in Handlers :
           h[1] \in Clients /\ h[2] \in 0..MaxRetry[h[1]] /\ h = <<h[1], h[2]>>
    /\ \A c \in Clients : \A i \in 0..MaxRetry[c] : <<c, i>> \in Handlers
    /\ \A c \in Clients : MaxRetry[c] \in Nat
BY AttemptAssumption

\* All attempts of a call send the same request.
OneRequest == \A h \in Handlers : <<h[1], 0>> \in Handlers /\ request[h] = request[<<h[1], 0>>]

LEMMA InitTablet == RpcInit => Init /\ OneRequest
<1> SUFFICES ASSUME RpcInit PROVE Init /\ OneRequest
  OBVIOUS
<1>1. PICK call \in [Clients -> [op : Ops, name : Names]] :
          request = [h \in Handlers |-> call[h[1]]]
  BY DEF RpcInit
<1>2. request \in [Handlers -> [op : Ops, name : Names]]
  BY <1>1, Attempts
<1>3. \A h \in Handlers : <<h[1], 0>> \in Handlers /\ <<h[1], 0>>[1] = h[1]
  BY Attempts
<1> QED BY <1>1, <1>2, <1>3 DEF RpcInit, Init, OneRequest

LEMMA StepTablet == [RpcNext]_rpcVars => [Next]_vars
BY DEF RpcNext, rpcVars, Transmit, Receive, Fail, Serve, Next

\* The tablet under its clients is the tablet.
THEOREM TabletUnderClients == RpcSpec => Spec
BY InitTablet, StepTablet, PTL DEF RpcSpec, Spec

-----------------------------------------------------------------------------
(* Type correctness. *)

RpcTypes ==
    /\ sends \in [Clients -> Nat]
    /\ \A c \in Clients : sends[c] <= MaxRetry[c] + 1
    /\ delivered \subseteq Handlers
    /\ response \in [Clients -> {"none", "OK", "FAILED"}]
    /\ \A h \in Handlers :
           /\ h \in delivered => h[2] < sends[h[1]]
           /\ h \notin delivered => pc[h] = "start"

LEMMA InitTypes == RpcInit => RpcTypes
BY Attempts DEF RpcInit, ServerInit, RpcTypes

LEMMA CurrentIsAttempt ==
    ASSUME RpcTypes, NEW c \in Clients, sends[c] > 0
    PROVE  Current(c) \in Handlers /\ Current(c)[1] = c
<1>1. sends[c] - 1 \in 0..MaxRetry[c]
  BY Attempts DEF RpcTypes
<1> QED BY <1>1, Attempts DEF Current

LEMMA NextTypes ==
    ASSUME TypeOK, RpcTypes, RpcNext
    PROVE  RpcTypes'
<1>1. ASSUME NEW c \in Clients, Transmit(c)
      PROVE  RpcTypes'
  <2>1. /\ sends' = [sends EXCEPT ![c] = sends[c] + 1]
        /\ sends[c] \in Nat /\ sends[c] \in 0..MaxRetry[c]
        /\ delivered' \in {delivered, delivered \cup {<<c, sends[c]>>}}
        /\ response' = response /\ pc' = pc
    BY <1>1, Attempts DEF Transmit, RpcTypes, vars
  <2>2. <<c, sends[c]>> \in Handlers
    BY <2>1, Attempts
  <2>3. sends' \in [Clients -> Nat]
    BY <2>1 DEF RpcTypes
  <2>4. ASSUME NEW h \in Handlers
        PROVE  /\ h \in delivered' => h[2] < sends'[h[1]]
               /\ h \notin delivered' => pc'[h] = "start"
    <3>1. h[1] \in Clients /\ h[2] \in Nat
      BY Attempts
    <3>2. /\ h \in delivered => h[2] < sends[h[1]]
          /\ h \notin delivered => pc[h] = "start"
      BY DEF RpcTypes
    <3>3. /\ sends[h[1]] \in Nat /\ sends'[h[1]] \in Nat
          /\ sends[h[1]] <= sends'[h[1]] /\ sends[c] < sends'[c]
      BY <2>1, <3>1 DEF RpcTypes
    <3>4. /\ h \in delivered' => h \in delivered \/ (h[1] = c /\ h[2] = sends[c])
          /\ delivered \subseteq delivered'
      BY <2>1
    <3>5. h \in delivered' => h[2] < sends'[h[1]]
      BY <3>1, <3>2, <3>3, <3>4
    <3> QED BY <2>1, <3>2, <3>4, <3>5
  <2>5. \A d \in Clients : sends'[d] <= MaxRetry[d] + 1
    BY <2>1, Attempts DEF RpcTypes
  <2> QED BY <2>1, <2>2, <2>3, <2>4, <2>5 DEF RpcTypes
<1>2. ASSUME NEW c \in Clients, Receive(c) \/ Fail(c)
      PROVE  RpcTypes'
  <2>1. Receive(c) => code[Current(c)] \in {"none", "OK", "FAILED"}
    BY CurrentIsAttempt DEF TypeOK, Receive
  <2> QED BY <1>2, <2>1 DEF RpcTypes, Receive, Fail, vars
<1>3. ASSUME NEW h \in Handlers, Serve(h)
      PROVE  RpcTypes'
  <2>1. h \in delivered /\ UNCHANGED rpc /\ \A g \in Handlers \ {h} : pc'[g] = pc[g]
    BY <1>3, HandleLocal DEF Serve
  <2> QED BY <2>1 DEF RpcTypes, rpc
<1> QED BY <1>1, <1>2, <1>3 DEF RpcNext

-----------------------------------------------------------------------------
(* Answers. *)

\* A handler answers once.
LEMMA CodeStays ==
    ASSUME TypeOK, Control, NEW h \in Handlers, Handle(h)
    PROVE  \A g \in Handlers : code[g] # "none" => code'[g] = code[g]
<1> USE DEF TypeOK, Goto, catalog, field, locals
<1>1. pc[h] \notin {"unlock", "done"} => code[h] = "none"
  BY DEF Control
<1>2. code[h] # "none" => code'[h] = code[h]
  <2>1. CASE CheckNew(h) \/ Construct(h) \/ AddManifest(h) \/ StoreManifest(h)
    BY <1>1, <2>1 DEF CheckNew, Construct, AddManifest, StoreManifest
  <2>2. CASE InsertTable(h) \/ LinkTable(h) \/ InsertManifest(h) \/ LinkManifest(h)
    BY <1>1, <2>2 DEF InsertTable, LinkTable, InsertManifest, LinkManifest
  <2>3. CASE Lock(h) \/ Find(h) \/ TablePut(h) \/ ReadOffset(h)
    BY <1>1, <2>3 DEF Lock, Find, TablePut, ReadOffset
  <2>4. CASE WriteOffset(h) \/ TableGet(h) \/ Unlock(h) \/ Ignore(h)
    BY <1>1, <2>4 DEF WriteOffset, TableGet, Unlock, Ignore
  <2> QED BY <2>1, <2>2, <2>3, <2>4 DEF Handle
<1> QED BY <1>2, HandleLocal

\* OK is the answer of some attempt.
Heard == \A c \in Clients : response[c] = "OK" => \E h \in Handlers : h[1] = c /\ code[h] = "OK"

RpcInv == TabletInv /\ RpcTypes /\ OneRequest /\ Heard

LEMMA RpcInitInv == RpcInit => RpcInv
<1>1. RpcInit => Heard
  BY DEF RpcInit, Heard
<1> QED BY <1>1, InitTablet, InitInv, InitTypes DEF RpcInv

LEMMA RpcNextInv == RpcInv /\ [RpcNext]_rpcVars => RpcInv'
<1> SUFFICES ASSUME RpcInv, [RpcNext]_rpcVars PROVE RpcInv'
  OBVIOUS
<1>1. TabletInv' /\ TypeOK /\ Control
  BY StepTablet, NextInv DEF RpcInv, TabletInv
<1>2. RpcTypes'
  <2>1. CASE UNCHANGED rpcVars
    BY <2>1 DEF RpcInv, RpcTypes, rpcVars, rpc, vars
  <2> QED BY <1>1, <2>1, NextTypes DEF RpcInv
<1>3. OneRequest'
  <2>1. request' = request
    BY <1>1, HandleLocal DEF RpcNext, rpcVars, vars, Transmit, Receive, Fail, Serve
  <2> QED BY <2>1 DEF RpcInv, OneRequest
<1>4. Heard'
  <2>1. ASSUME NEW c \in Clients, Receive(c)
        PROVE  Heard'
    <3>1. Current(c) \in Handlers /\ Current(c)[1] = c
      BY <2>1, CurrentIsAttempt DEF Receive, RpcInv
    <3> QED BY <2>1, <3>1 DEF Receive, RpcInv, Heard, RpcTypes, vars
  <2>2. ASSUME NEW c \in Clients, Transmit(c) \/ Fail(c)
        PROVE  Heard'
    BY <2>2 DEF Transmit, Fail, RpcInv, Heard, RpcTypes, vars
  <2>3. ASSUME NEW h \in Handlers, Serve(h)
        PROVE  Heard'
    <3>1. response' = response /\ \A g \in Handlers : code[g] = "OK" => code'[g] = "OK"
      BY <1>1, <2>3, CodeStays DEF Serve, rpc
    <3> QED BY <3>1 DEF RpcInv, Heard
  <2>4. CASE UNCHANGED rpcVars
    BY <2>4 DEF RpcInv, Heard, rpcVars, rpc, vars
  <2> QED BY <2>1, <2>2, <2>3, <2>4 DEF RpcNext
<1> QED BY <1>1, <1>2, <1>3, <1>4 DEF RpcInv

LEMMA RpcAlways == RpcSpec => []RpcInv
BY RpcInitInv, RpcNextInv, PTL DEF RpcSpec

\* Codes and counts are what they can be, and no handler runs before its
\* request has arrived.
THEOREM RpcTypeCorrect == RpcSpec => []RpcTypeOK
<1>1. RpcInv => RpcTypeOK
  BY DEF RpcInv, TabletInv, RpcTypes, RpcTypeOK
<1> QED BY <1>1, RpcAlways, PTL

\* The puts clients have been told of are not more than those counted.
LEMMA ToldAreCounted ==
    ASSUME RpcInv, NEW n \in Names, NEW T \in SUBSET Clients,
           \A c \in T : response[c] = "OK" /\ request[<<c, 0>>] = [op |-> "put", name |-> n]
    PROVE  /\ Cardinality(T) <= Cardinality(CountedPuts(n))
           /\ IsFiniteSet(T) /\ IsFiniteSet(CountedPuts(n))
<1>1. IsFiniteSet(CountedPuts(n))
  BY FS_Subset, HandlerAssumption DEF CountedPuts
<1>2. ASSUME NEW c \in T PROVE \E h \in CountedPuts(n) : h[1] = c
  <2>1. PICK h \in Handlers : h[1] = c /\ code[h] = "OK"
    BY DEF RpcInv, Heard
  <2>2. request[h] = [op |-> "put", name |-> n]
    BY <2>1 DEF RpcInv, OneRequest
  <2> QED BY <2>1, <2>2 DEF CountedPuts, Name
<1> DEFINE f == [c \in T |-> CHOOSE h \in CountedPuts(n) : h[1] = c]
<1>3. \A c \in T : f[c] \in CountedPuts(n) /\ f[c][1] = c
  BY <1>2
<1> HIDE DEF f
<1>4. f \in Injection(T, CountedPuts(n))
  <2>1. f \in [T -> CountedPuts(n)]
    BY <1>3 DEF f
  <2>2. \A c, d \in T : f[c] = f[d] => c = d
    BY <1>3
  <2> QED BY <2>1, <2>2 DEF Injection, IsInjective
<1> QED BY <1>1, <1>4, FS_Injection

\* What a client has been told OK stays true (rpc.h:93).
THEOREM AnswersStayTrue == RpcSpec => []AnswersHold
<1>1. RpcInv => AnswersHold
  <2> SUFFICES ASSUME RpcInv, ~raced, NEW n \in Names
               PROVE  LET Told(op) == {c \in Clients : /\ response[c] = "OK"
                                             /\ request[<<c, 0>>] = [op |-> op, name |-> n]}
                          puts == {h \in delivered : request[h] = [op |-> "put", name |-> n]}
                      IN  /\ Told("get") # {} => table_map[n] # None
                          /\ Told("create") \cup Told("put") # {} =>
                                 /\ table_map[n] # None
                                 /\ table_manifest_map[n] \in
                                        Cardinality(Told("put"))..Cardinality(puts)
    BY Zenon DEF AnswersHold
  <2> DEFINE Told(op) == {c \in Clients : /\ response[c] = "OK"
                                          /\ request[<<c, 0>>] = [op |-> op, name |-> n]}
             puts == {h \in delivered : request[h] = [op |-> "put", name |-> n]}
  <2>1. ASSUME NEW op \in {"create", "put", "get"}, NEW c \in Told(op)
        PROVE  /\ table_map[n] # None
               /\ op # "get" => table_manifest_map[n] # None
    <3>1. PICK h \in Handlers : h[1] = c /\ code[h] = "OK"
      BY DEF RpcInv, Heard
    <3>2. request[h].op = op /\ Name(h) = n
      BY <3>1 DEF RpcInv, OneRequest, Name
    <3>3. /\ HasTable(h) => target[h] # None /\ target[h] = table_map[Name(h)]
          /\ MadeTable(h) => table_map[Name(h)] # None
          /\ HasManifest(h) => table_manifest_map[Name(h)] # None
      BY DEF RpcInv, TabletInv, Tables
    <3> QED BY <3>1, <3>2, <3>3 DEF HasTable, MadeTable, HasManifest
  <2>2. CountedPuts(n) \subseteq puts
    <3> SUFFICES ASSUME NEW h \in CountedPuts(n) PROVE h \in puts
      OBVIOUS
    <3>1. pc[h] # "start"
      BY DEF CountedPuts, RpcInv, TabletInv, Control
    <3>2. request[h] \in [op : Ops, name : Names]
      BY DEF CountedPuts, RpcInv, TabletInv, TypeOK
    <3>3. request[h] = [op |-> "put", name |-> n]
      BY <3>2 DEF CountedPuts, Name
    <3> QED BY <3>1, <3>3 DEF CountedPuts, RpcInv, RpcTypes
  <2>3. IsFiniteSet(puts) /\ Cardinality(CountedPuts(n)) <= Cardinality(puts)
    <3>1. IsFiniteSet(puts)
      BY FS_Subset, HandlerAssumption DEF RpcInv, RpcTypes
    <3> HIDE DEF puts
    <3> QED BY <2>2, <3>1, FS_Subset
  <2>4. /\ Cardinality(Told("put")) <= Cardinality(CountedPuts(n))
        /\ IsFiniteSet(CountedPuts(n)) /\ IsFiniteSet(Told("put"))
    <3>1. /\ Told("put") \in SUBSET Clients
          /\ \A c \in Told("put") :
                 response[c] = "OK" /\ request[<<c, 0>>] = [op |-> "put", name |-> n]
      OBVIOUS
    <3> HIDE DEF Told
    <3> QED BY <3>1, ToldAreCounted
  <2>5. /\ Cardinality(Told("put")) \in Nat /\ Cardinality(CountedPuts(n)) \in Nat
        /\ Cardinality(puts) \in Nat
    BY <2>3, <2>4, FS_CardinalityType
  <2>6. table_manifest_map[n] # None => table_manifest_map[n] = Cardinality(CountedPuts(n))
    BY DEF RpcInv, TabletInv, Counts
  <2> HIDE DEF Told, puts
  <2>7. ASSUME Told("create") \cup Told("put") # {}
        PROVE  /\ table_map[n] # None
               /\ table_manifest_map[n] \in Cardinality(Told("put"))..Cardinality(puts)
    <3>1. table_map[n] # None /\ table_manifest_map[n] # None
      BY <2>1, <2>7
    <3> QED BY <2>3, <2>4, <2>5, <2>6, <3>1
  <2>8. Told("get") # {} => table_map[n] # None
    BY <2>1
  <2> QED BY <2>7, <2>8 DEF Told, puts
<1> QED BY <1>1, RpcAlways, PTL

-----------------------------------------------------------------------------
(* The promise of AtLeastOnce. *)

runs == [c \in Clients |-> Cardinality(Carried(c))]

LEMMA CarriedFinite ==
    \A c \in Clients : IsFiniteSet(Carried(c)) /\ Cardinality(Carried(c)) \in Nat
<1>1. \A c \in Clients : IsFiniteSet(Carried(c))
  BY FS_Subset, HandlerAssumption DEF Carried
<1> QED BY <1>1, FS_CardinalityType

\* A call is carried out at most once for each attempt.
LEMMA CarriedBound ==
    ASSUME NEW c \in Clients, NEW S, \A h \in S : h \in Handlers /\ h[1] = c
    PROVE  Cardinality(S) <= MaxRetry[c] + 1
<1> DEFINE N == {i \in Nat : i <= MaxRetry[c]}
           f == [h \in S |-> h[2]]
<1>1. MaxRetry[c] \in Nat
  BY Attempts
<1>2. IsFiniteSet(N) /\ Cardinality(N) <= MaxRetry[c] + 1
  BY <1>1, FS_BoundedSetOfNaturals
<1>3. \A h \in S : h = <<c, h[2]>> /\ h[2] \in N
  BY Attempts
<1> HIDE DEF N
<1>4. f \in Injection(S, N)
  <2>1. f \in [S -> N]
    BY <1>3
  <2>2. \A g, h \in S : f[g] = f[h] => g = h
    BY <1>3
  <2> HIDE DEF f
  <2> QED BY <2>1, <2>2 DEF Injection, IsInjective
<1> HIDE DEF f
<1>5. IsFiniteSet(S) /\ Cardinality(S) <= Cardinality(N)
  BY <1>2, <1>4, FS_Injection
<1>6. Cardinality(S) \in Nat /\ Cardinality(N) \in Nat
  BY <1>2, <1>5, FS_CardinalityType
<1> QED BY <1>1, <1>2, <1>5, <1>6

LEMMA PromiseInit == RpcInit => Promise!Init
<1> SUFFICES ASSUME RpcInit PROVE Promise!Init
  OBVIOUS
<1>1. \A c \in Clients : Outcome(c) = "idle"
  BY DEF RpcInit, Outcome
<1>2. \A c \in Clients : Carried(c) = {}
  BY DEF RpcInit, ServerInit, Carried
<1> QED BY <1>1, <1>2, FS_EmptySet DEF Promise!Init

\* A step of a client is a step of its call, one of a handler carries a request
\* out or changes nothing that is promised.
LEMMA PromiseStep ==
    ASSUME RpcInv, [RpcNext]_rpcVars
    PROVE  [Promise!Next]_(Promise!vars)
<1>1. ASSUME NEW c \in Clients, Transmit(c)
      PROVE  Promise!Call(c) \/ UNCHANGED Promise!vars
  <2>1. /\ response' = response /\ response[c] = "none" /\ code' = code
        /\ sends[c] \in Nat /\ sends' = [sends EXCEPT ![c] = sends[c] + 1]
        /\ sends \in [Clients -> Nat]
    BY <1>1 DEF Transmit, vars, RpcInv, RpcTypes
  <2>2. \A d \in Clients : Carried(d)' = Carried(d)
    BY <2>1 DEF Carried
  <2>3. /\ Outcome(c) = IF sends[c] = 0 THEN "idle" ELSE "pending"
        /\ Outcome(c)' = "pending"
        /\ \A d \in Clients \ {c} : Outcome(d)' = Outcome(d)
    BY <2>1 DEF Outcome
  <2> QED BY <2>2, <2>3 DEF Promise!Call, Promise!vars
<1>2. ASSUME NEW c \in Clients, Receive(c) \/ Fail(c)
      PROVE  Promise!Return(c)
  <2>1. /\ response[c] = "none" /\ sends[c] > 0 /\ sends[c] \in Nat
        /\ sends' = sends /\ code' = code
        /\ \/ response' = [response EXCEPT ![c] = "FAILED"]
           \/ /\ code[Current(c)] \in {"OK", "FAILED"}
              /\ response' = [response EXCEPT ![c] = code[Current(c)]]
        /\ response \in [Clients -> {"none", "OK", "FAILED"}]
    BY <1>2, CurrentIsAttempt DEF Receive, Fail, vars, RpcInv, TabletInv, TypeOK, RpcTypes
  <2>2. \A d \in Clients : Carried(d)' = Carried(d)
    BY <2>1 DEF Carried
  <2>3. /\ Outcome(c) = "pending" /\ Outcome(c)' = response'[c]
        /\ \A d \in Clients \ {c} : Outcome(d)' = Outcome(d)
    BY <2>1 DEF Outcome
  <2>4. /\ response'[c] \in {"OK", "FAILED"}
        /\ response'[c] = "OK" => Cardinality(Carried(c)) > 0
    <3>1. code[Current(c)] = "OK" => Carried(c) # {}
      BY <2>1, CurrentIsAttempt DEF Carried, RpcInv
    <3>2. Carried(c) # {} => Cardinality(Carried(c)) > 0
      BY CarriedFinite, FS_EmptySet
    <3> QED BY <2>1, <3>1, <3>2
  <2> QED BY <2>2, <2>3, <2>4 DEF Promise!Return
<1>3. ASSUME NEW h \in Handlers, Serve(h)
      PROVE  Promise!Run(h[1]) \/ UNCHANGED Promise!vars
  <2> DEFINE c == h[1]
             T == Carried(c) \cup {h}
  <2>1. /\ response' = response /\ sends' = sends /\ h \in delivered
        /\ \A g \in Handlers \ {h} : code'[g] = code[g]
        /\ code[h] = "OK" => code'[h] = "OK"
        /\ c \in Clients /\ MaxRetry[c] \in Nat
    BY <1>3, HandleLocal, CodeStays, Attempts DEF Serve, rpc, RpcInv, TabletInv
  <2>2. \A d \in Clients : Outcome(d)' = Outcome(d)
    BY <2>1 DEF Outcome
  <2>3. \A d \in Clients \ {c} : Carried(d)' = Carried(d)
    BY <2>1 DEF Carried
  <2>4. CASE code'[h] = "OK" /\ code[h] # "OK"
    <3>1. Carried(c)' = T /\ h \notin Carried(c)
      BY <2>1, <2>4 DEF Carried
    <3>2. Cardinality(T) = Cardinality(Carried(c)) + 1 /\ Cardinality(Carried(c)) \in Nat
      BY <2>1, <3>1, CarriedFinite, FS_AddElement
    <3>3. Cardinality(T) <= MaxRetry[c] + 1
      <4>1. \A g \in T : g \in Handlers /\ g[1] = c
        BY DEF Carried
      <4> HIDE DEF T
      <4> QED BY <2>1, <4>1, CarriedBound
    <3>4. Cardinality(Carried(c)) <= MaxRetry[c]
      BY <2>1, <3>2, <3>3
    <3>5. Outcome(c) # "idle"
      BY <2>1, Attempts DEF Outcome, RpcInv, RpcTypes
    <3>6. runs' = [runs EXCEPT ![c] = Cardinality(Carried(c)) + 1]
      BY <2>1, <2>3, <3>1, <3>2 DEF runs
    <3> QED BY <2>1, <2>2, <3>4, <3>5, <3>6 DEF Promise!Run, runs
  <2>5. CASE ~(code'[h] = "OK" /\ code[h] # "OK")
    <3>1. Carried(c)' = Carried(c)
      BY <2>1, <2>5 DEF Carried
    <3> QED BY <2>2, <2>3, <3>1 DEF Promise!vars
  <2> QED BY <2>4, <2>5
<1>4. CASE UNCHANGED rpcVars
  <2>1. \A d \in Clients : Outcome(d)' = Outcome(d) /\ Carried(d)' = Carried(d)
    BY <1>4 DEF rpcVars, rpc, vars, Outcome, Carried
  <2> QED BY <2>1 DEF Promise!vars
<1> QED BY <1>1, <1>2, <1>3, <1>4, Attempts DEF RpcNext, Promise!Next

\* SendRequest keeps its promise, as far as that is safety: what it calls OK has
\* been carried out, and nothing is carried out more often than it was sent
\* (rpc.h:87-101).
THEOREM KeepsPromise == RpcSpec => Promise!Init /\ [][Promise!Next]_(Promise!vars)
<1>1. RpcInv /\ [RpcNext]_rpcVars => [Promise!Next]_(Promise!vars)
  BY PromiseStep
<1> QED BY <1>1, PromiseInit, RpcAlways, PTL DEF RpcSpec
=============================================================================
