------------------------------- MODULE Tablet -------------------------------
(***************************************************************************)
(* The tables of one tablet server under concurrent requests:              *)
(* tablet/tablet.h called by the brpc handlers of cluster/tablet_node.h.   *)
(* brpc runs every handler in a thread of its own.  Put and Get hold mu_;  *)
(* Create does not, though it reads and writes the same maps.              *)
(*                                                                         *)
(* A handler serves one request.  A Table object is named by the handler   *)
(* whose Create constructed it; what is inside it is the subject of Table, *)
(* and here a Put into it either stores the statement or does not.         *)
(*                                                                         *)
(* The maps and the repeated field are not made for unlocked use.  An      *)
(* insertion is two steps, finding the place and linking the node there;   *)
(* what two insertions at once, or a search during one, come to is a       *)
(* choice over what the tree or the array can be left with, and raced      *)
(* records that it has happened.                                           *)
(***************************************************************************)
EXTENDS Naturals, Sequences, FiniteSets

CONSTANTS
    Handlers,   \* handler threads, one request each
    Names,      \* table names
    None        \* no table, no manifest, no holder

ASSUME HandlerAssumption ==
    /\ IsFiniteSet(Handlers)
    /\ None \notin Handlers
    /\ None \notin Nat

VARIABLES
    request,             \* what each handler is asked: [op, name]
    pc,                  \* where each handler is
    code,                \* the code of its response, "none" before
    mu,                  \* the holder of mu_
    constructed,         \* handlers that have constructed a Table object
    table_map,           \* name -> Table object
    table_manifest_map,  \* name -> current_offset of the manifest
    tablet_manifest,     \* the elements of its field table_manifest in memory
    size,                \* and how many of them count
    slot,                \* the size as a Create has read it
    raced,               \* two insertions into one container were under way
    target,              \* the Table object a Put or Get has found
    stored,              \* puts whose Table::Put returned true
    offset               \* the current_offset a Put has read

vars == <<request, pc, code, mu, constructed, table_map, table_manifest_map,
          tablet_manifest, size, slot, raced, target, stored, offset>>

field   == <<tablet_manifest, size, slot>>
catalog == <<constructed, table_map, table_manifest_map, field, raced>>
locals  == <<target, stored, offset>>

\* Delete and Update have the same empty body.
Served == {"create", "put", "get"}
Ops    == Served \cup {"delete"}

Steps == {"start", "construct", "add_manifest", "store_manifest", "insert_table",
          "link_table", "insert_manifest", "link_manifest", "find", "table_put",
          "read_offset", "write_offset", "table_get", "unlock", "done"}

Name(h) == request[h].name

\* A tablet before its first request.
ServerInit ==
    /\ pc = [h \in Handlers |-> "start"]
    /\ code = [h \in Handlers |-> "none"]
    /\ mu = None
    /\ constructed = {}
    /\ table_map = [n \in Names |-> None]
    /\ table_manifest_map = [n \in Names |-> None]
    /\ tablet_manifest = <<>>
    /\ size = 0
    /\ raced = FALSE
    /\ slot = [h \in Handlers |-> 0]
    /\ target = [h \in Handlers |-> None]
    /\ stored = {}
    /\ offset = [h \in Handlers |-> 0]

Init ==
    /\ request \in [Handlers -> [op : Ops, name : Names]]
    /\ ServerInit

Goto(h, from, to) ==
    /\ pc[h] = from
    /\ pc' = [pc EXCEPT ![h] = to]
    /\ UNCHANGED request

Respond(h, c) == code' = [code EXCEPT ![h] = c]

\* Another handler is about to change a container: it is at step, and what
\* this one reads there may be half done.
Under(h, step) == \E g \in Handlers \ {h} : pc[g] = step

\* An entry is found, or is missed in a tree that is being changed.
Finds(h, map) == map[Name(h)] # None
Misses(h, map, step) == map[Name(h)] = None \/ Under(h, step)

\* The search of an insertion that another one is racing with.
Race(h, step) == raced' = (raced \/ Under(h, step))

\* Linking a node: after a race nodes of other names may be cut off.
Link(map, n, v) ==
    {[m \in Names |-> IF m = n THEN v ELSE IF m \in lost THEN None ELSE map[m]] :
        lost \in IF raced THEN SUBSET Names ELSE {{}}}

-----------------------------------------------------------------------------
(* Create: no lock. *)

\* The check for an existing table.
CheckNew(h) ==
    /\ request[h].op = "create"
    /\ \/ /\ Finds(h, table_map)
          /\ Goto(h, "start", "done")
          /\ Respond(h, "FAILED")
       \/ /\ Misses(h, table_map, "link_table")
          /\ Goto(h, "start", "construct")
          /\ UNCHANGED code
    /\ UNCHANGED <<mu, catalog, locals>>

\* make_shared<Table>: directory, log and manifest files are opened.
Construct(h) ==
    /\ Goto(h, "construct", "add_manifest")
    /\ constructed' = constructed \cup {h}
    /\ UNCHANGED <<code, mu, table_map, table_manifest_map, field, raced, locals>>

\* add_table_manifest of protobuf reads the size of the field ...
AddManifest(h) ==
    /\ Goto(h, "add_manifest", "store_manifest")
    /\ slot' = [slot EXCEPT ![h] = size]
    /\ Race(h, "store_manifest")
    /\ UNCHANGED <<code, mu, constructed, table_map, table_manifest_map,
                   tablet_manifest, size, locals>>

\* Mutant: the size is counted twice.
StoreManifestTwice(h) ==
    /\ Goto(h, "store_manifest", "insert_table")
    /\ tablet_manifest' = Append(tablet_manifest, Name(h))
    /\ size' = slot[h] + 2
    /\ UNCHANGED <<code, mu, constructed, table_map, table_manifest_map, slot,
                   raced, locals>>

\* Mutant: the size stays.
StoreManifestUncounted(h) ==
    /\ Goto(h, "store_manifest", "insert_table")
    /\ tablet_manifest' = Append(tablet_manifest, Name(h))
    /\ UNCHANGED <<code, mu, constructed, table_map, table_manifest_map, size, slot,
                   raced, locals>>

\* ... and puts the element there: of two that run at once one is lost.
StoreManifest(h) ==
    /\ Goto(h, "store_manifest", "insert_table")
    /\ tablet_manifest' =
          [i \in 1..(Len(tablet_manifest) + IF slot[h] = Len(tablet_manifest) THEN 1 ELSE 0)
              |-> IF i = slot[h] + 1 THEN Name(h) ELSE tablet_manifest[i]]
    /\ size' = slot[h] + 1
    /\ UNCHANGED <<code, mu, constructed, table_map, table_manifest_map, slot,
                   raced, locals>>

\* Mutant: operator[] and assignment, which replace an entry of the name.
InsertTableReplacing(h) ==
    /\ Goto(h, "insert_table", "link_table")
    /\ Race(h, "link_table")
    /\ UNCHANGED <<code, mu, constructed, table_map, table_manifest_map, field, locals>>

\* std::map::insert looks for the place of the node, and leaves an entry of
\* the name that it finds alone ...
InsertTable(h) ==
    /\ \/ /\ Finds(h, table_map)
          /\ Goto(h, "insert_table", "insert_manifest")
       \/ /\ Misses(h, table_map, "link_table")
          /\ Goto(h, "insert_table", "link_table")
    /\ Race(h, "link_table")
    /\ UNCHANGED <<code, mu, constructed, table_map, table_manifest_map, field, locals>>

\* Mutant: Create returns before the second insertion.
LinkTableOnly(h) ==
    /\ Goto(h, "link_table", "done")
    /\ table_map' \in Link(table_map, Name(h), h)
    /\ Respond(h, "OK")
    /\ UNCHANGED <<mu, constructed, table_manifest_map, field, raced, locals>>

\* ... and otherwise links the node there.
LinkTable(h) ==
    /\ Goto(h, "link_table", "insert_manifest")
    /\ table_map' \in Link(table_map, Name(h), h)
    /\ UNCHANGED <<code, mu, constructed, table_manifest_map, field, raced, locals>>

\* The same for the manifest of the table.
InsertManifest(h) ==
    /\ \/ /\ Finds(h, table_manifest_map)
          /\ Goto(h, "insert_manifest", "done")
          /\ Respond(h, "OK")
       \/ /\ Misses(h, table_manifest_map, "link_manifest")
          /\ Goto(h, "insert_manifest", "link_manifest")
          /\ UNCHANGED code
    /\ Race(h, "link_manifest")
    /\ UNCHANGED <<mu, constructed, table_map, table_manifest_map, field, locals>>

\* ... and the link; then the handler answers.
LinkManifest(h) ==
    /\ Goto(h, "link_manifest", "done")
    /\ table_manifest_map' \in Link(table_manifest_map, Name(h), 0)
    /\ Respond(h, "OK")
    /\ UNCHANGED <<mu, constructed, table_map, field, raced, locals>>

-----------------------------------------------------------------------------
(* Put and Get: under mu_. *)

\* Mutant: the lock_guard is gone.
LockFree(h) ==
    /\ request[h].op \in {"put", "get"}
    /\ Goto(h, "start", "find")
    /\ UNCHANGED <<code, mu, catalog, locals>>

\* The lock_guard of Put and of Get.
Lock(h) ==
    /\ request[h].op \in {"put", "get"}
    /\ mu = None
    /\ mu' = h
    /\ Goto(h, "start", "find")
    /\ UNCHANGED <<code, catalog, locals>>

\* Mutant: the early return keeps the mutex.
FindKeepsLock(h) ==
    /\ \/ /\ Misses(h, table_map, "link_table")
          /\ Goto(h, "find", "done")
          /\ Respond(h, "FAILED")
          /\ UNCHANGED target
       \/ /\ Finds(h, table_map)
          /\ Goto(h, "find", IF request[h].op = "put" THEN "table_put" ELSE "table_get")
          /\ target' = [target EXCEPT ![h] = table_map[Name(h)]]
          /\ UNCHANGED code
    /\ UNCHANGED <<mu, catalog, stored, offset>>

\* table_map_.find; without the table the answer is FAILED, also of a Get,
\* whose ERROR_NOT_FOUND TabletNode overwrites.
Find(h) ==
    /\ \/ /\ Misses(h, table_map, "link_table")
          /\ Goto(h, "find", "unlock")
          /\ Respond(h, "FAILED")
          /\ UNCHANGED target
       \/ /\ Finds(h, table_map)
          /\ Goto(h, "find", IF request[h].op = "put" THEN "table_put" ELSE "table_get")
          /\ target' = [target EXCEPT ![h] = table_map[Name(h)]]
          /\ UNCHANGED code
    /\ UNCHANGED <<mu, catalog, stored, offset>>

\* table->Put, whose result is ignored.
TablePut(h) ==
    /\ Goto(h, "table_put", "read_offset")
    /\ \E ok \in BOOLEAN : stored' = IF ok THEN stored \cup {h} ELSE stored
    /\ UNCHANGED <<code, mu, catalog, target, offset>>

\* table_manifest_map_.find and current_offset(); a manifest that Create has
\* not inserted yet makes Put fail after the statement is stored.
ReadOffset(h) ==
    /\ \/ /\ Misses(h, table_manifest_map, "link_manifest")
          /\ Goto(h, "read_offset", "unlock")
          /\ Respond(h, "FAILED")
          /\ UNCHANGED offset
       \/ /\ Finds(h, table_manifest_map)
          /\ Goto(h, "read_offset", "write_offset")
          /\ offset' = [offset EXCEPT ![h] = table_manifest_map[Name(h)]]
          /\ UNCHANGED code
    /\ UNCHANGED <<mu, catalog, target, stored>>

\* set_current_offset with the value read before.
WriteOffset(h) ==
    /\ Goto(h, "write_offset", "unlock")
    /\ table_manifest_map' = [table_manifest_map EXCEPT ![Name(h)] = offset[h] + 1]
    /\ Respond(h, "OK")
    /\ UNCHANGED <<mu, constructed, table_map, field, raced, locals>>

\* table->Get, whose result is ignored: the code is OK also when there is no
\* message.
TableGet(h) ==
    /\ Goto(h, "table_get", "unlock")
    /\ Respond(h, "OK")
    /\ UNCHANGED <<mu, catalog, locals>>

\* The lock_guard and the ClosureGuard go out of scope.
Unlock(h) ==
    /\ Goto(h, "unlock", "done")
    /\ mu' = None
    /\ UNCHANGED <<code, catalog, locals>>

\* Delete and Update of the service return without running the closure: there
\* is no answer.
Ignore(h) ==
    /\ request[h].op \notin Served
    /\ Goto(h, "start", "done")
    /\ UNCHANGED <<code, mu, catalog, locals>>

-----------------------------------------------------------------------------

Handle(h) ==
    \/ CheckNew(h) \/ Construct(h) \/ AddManifest(h) \/ StoreManifest(h)
    \/ InsertTable(h) \/ LinkTable(h) \/ InsertManifest(h) \/ LinkManifest(h)
    \/ Lock(h) \/ Find(h) \/ TablePut(h) \/ ReadOffset(h) \/ WriteOffset(h)
    \/ TableGet(h) \/ Unlock(h) \/ Ignore(h)

Next == \E h \in Handlers : Handle(h)

Spec == Init /\ [][Next]_vars

-----------------------------------------------------------------------------
(* Properties. *)

TypeOK ==
    /\ request \in [Handlers -> [op : Ops, name : Names]]
    /\ pc \in [Handlers -> Steps]
    /\ code \in [Handlers -> {"none", "OK", "FAILED"}]
    /\ mu \in Handlers \cup {None}
    /\ constructed \subseteq Handlers
    /\ table_map \in [Names -> Handlers \cup {None}]
    /\ table_manifest_map \in [Names -> Nat \cup {None}]
    /\ tablet_manifest \in Seq(Names)
    /\ size \in 0..Len(tablet_manifest)
    /\ slot \in [Handlers -> 0..Len(tablet_manifest)]
    /\ raced \in BOOLEAN
    /\ target \in [Handlers -> Handlers \cup {None}]
    /\ stored \subseteq Handlers
    /\ offset \in [Handlers -> Nat]

\* Puts into a table that have been answered OK or are about to be.
CountedPuts(n) ==
    {h \in Handlers : request[h].op = "put" /\ Name(h) = n /\ code[h] = "OK"}

\* The offset in a table's manifest is the number of puts answered OK: no
\* increment is lost though read and write are two steps (tablet.h:209-211),
\* and no late Create resets it (tablet.h:153), as long as no insertions race.
ManifestCountsPuts ==
    ~raced =>
        \A n \in Names :
            table_manifest_map[n] # None =>
                table_manifest_map[n] = Cardinality(CountedPuts(n))

\* A statement once stored is in the Table object that later requests find:
\* a second Create that the check let through constructs another object but
\* does not replace the first (tablet.h:131,152), unless their insertions race.
StoredPutsAreVisible ==
    ~raced => \A h \in stored : target[h] = table_map[Name(h)]

\* Whatever requests can find is listed in the manifest of the tablet
\* (tablet.h:150-152) and has a manifest of its own, unless its Create is
\* between its two insertions (tablet.h:152-153), which is when a Put stores its
\* statement and is answered FAILED (tablet.h:204-208); unless Creates race.
CatalogIsComplete ==
    ~raced =>
        \A n \in Names : table_map[n] # None =>
            /\ \E i \in 1..size : tablet_manifest[i] = n
            /\ \/ table_manifest_map[n] # None
               \/ \E h \in Handlers :
                      Name(h) = n /\ pc[h] \in {"insert_manifest", "link_manifest"}

\* What table.h:38 asks for: a table must not be created twice.
TableIsCreatedOnce ==
    \A g, h \in constructed : Name(g) = Name(h) => g = h
=============================================================================
