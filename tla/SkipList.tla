------------------------------ MODULE SkipList ------------------------------
(***************************************************************************)
(* base/skiplist.h, the map a Segment nests three deep: one writer that    *)
(* inserts and removes, readers that search by FindEqual or Contains while *)
(* it inserts.  Loads and stores of the next pointers are steps of their   *)
(* own.                                                                    *)
(*                                                                         *)
(* What the callers see to: no key is inserted twice (Segment asks         *)
(* Contains first), one thread writes, and no search overlaps a Remove,    *)
(* which unlinks a node a search may stand on.                             *)
(***************************************************************************)
EXTENDS Integers

CONSTANTS
    Keys,       \* keys, in the order of the comparator
    MaxHeight,  \* kMaxHeight
    Readers     \* threads that search

ASSUME SkipListAssumption ==
    /\ Keys \subseteq Nat \ {0}
    /\ MaxHeight \in Nat \ {0}

VARIABLES
    next,        \* Node::next_, for each node and level
    height,      \* Node::height_, 0 for a key that has no node
    max_height,  \* max_height_
    members,     \* the keys inserted and not removed
    writer,      \* the writer: operation, key, level it has come to
    prev,        \* its array prev
    reader,      \* each search: state, key, node x, level, result
    membership   \* whether the key of a search was in the list meanwhile

vars == <<next, height, max_height, members, writer, prev, reader, membership>>

Head    == 0
Null    == -1
Garbage == -2    \* what arena memory holds before it is written

Nodes  == Keys \cup {Head}
Levels == 0 .. MaxHeight - 1

\* Mutant: a node of the key itself counts as before it.
KeyIsAfterNodeOrEqual(key, n) == n # Null /\ n <= key

\* KeyIsAfterNode: node n is not the end, and its key is before key.
KeyIsAfterNode(key, n) == n # Null /\ n < key

\* The keys on a level: what is passed on the way from head_ to the end, which
\* is what every set has that head_ is in and that no pointer leaves.
OnLevel(l) ==
    {k \in Keys : \A S \in SUBSET Nodes :
        Head \in S /\ (\A x \in S : next[x][l] \in Keys => next[x][l] \in S) => k \in S}

\* The nodes FindGreaterOrEqual is at on level l, which it comes to at node x.
Passed(key, l, x) ==
    {n \in Nodes : \A S \in SUBSET Nodes :
        x \in S /\ (\A y \in S : KeyIsAfterNode(key, next[y][l]) => next[y][l] \in S) => n \in S}

\* Where it goes down a level: the next node is not before the key.
StopsAt(key, l, x) ==
    CHOOSE n \in Passed(key, l, x) : ~KeyIsAfterNode(key, next[n][l])

\* What FindGreaterOrEqual leaves in prev: from head_ down the levels, on each
\* from the node where it left the one above.
FindPrev(key) ==
    LET last[l \in 0 .. MaxHeight] ==
            IF l >= max_height THEN Head ELSE StopsAt(key, l, last[l + 1])
    IN  [l \in Levels |-> last[l]]

Idle == [op |-> "idle", key |-> Head, level |-> 0]

Resting == [state |-> "idle", key |-> Head, x |-> Head, level |-> 0, found |-> FALSE]

Init ==
    /\ next = [x \in Nodes |-> [l \in Levels |-> IF x = Head THEN Null ELSE Garbage]]
    /\ height = [k \in Keys |-> 0]
    /\ max_height = 1
    /\ members = {}
    /\ writer = Idle
    /\ prev = [l \in Levels |-> Head]
    /\ reader = [r \in Readers |-> Resting]
    /\ membership = [r \in Readers |-> {}]

\* Searches for key that are under way learn whether it is in the list.
Witness(key, in) ==
    membership' = [r \in Readers |->
        IF reader[r].state = "search" /\ reader[r].key = key
        THEN membership[r] \cup {in} ELSE membership[r]]

-----------------------------------------------------------------------------
(* The writer. *)

\* Mutant: the height is compared with kMaxHeight before it is incremented.
RandomHeightAbove == 1 .. MaxHeight + 1

\* What RandomHeight may return.
RandomHeight == 1 .. MaxHeight

\* A node in memory of the arena, which nothing has been written to.
NewNode(key, h) ==
    /\ height' = [height EXCEPT ![key] = h]
    /\ next' = [next EXCEPT ![key] = [l \in Levels |-> Garbage]]

\* Insert up to the loop: the search, RandomHeight, max_height_, NewNode.
Insert(key, h) ==
    /\ writer.op = "idle"
    /\ key \notin members
    /\ prev' = FindPrev(key)
    /\ max_height' = IF h > max_height THEN h ELSE max_height
    /\ NewNode(key, h)
    /\ writer' = [op |-> "prepare", key |-> key, level |-> 0]
    /\ UNCHANGED <<members, reader, membership>>

\* Mutant: the node is published before its pointer is set.
PrepareLevelLate ==
    /\ writer.op = "prepare"
    /\ writer' = [writer EXCEPT !.op = "link"]
    /\ UNCHANGED <<next, height, max_height, members, prev, reader, membership>>

\* x->NoBarrierSetNext(i, prev[i]->NoBarrierNext(i))
PrepareLevel ==
    /\ writer.op = "prepare"
    /\ next' = [next EXCEPT ![writer.key][writer.level] =
                                next[prev[writer.level]][writer.level]]
    /\ writer' = [writer EXCEPT !.op = "link"]
    /\ UNCHANGED <<height, max_height, members, prev, reader, membership>>

\* prev[i]->SetNext(i, x); a search finds the key once it is on level 0.
LinkLevel ==
    /\ writer.op = "link"
    /\ next' = [next EXCEPT ![prev[writer.level]][writer.level] = writer.key]
    /\ IF writer.level = 0 THEN Witness(writer.key, TRUE) ELSE UNCHANGED membership
    /\ IF writer.level + 1 < height[writer.key]
       THEN /\ writer' = [writer EXCEPT !.op = "prepare", !.level = @ + 1]
            /\ UNCHANGED members
       ELSE /\ writer' = Idle
            /\ members' = members \cup {writer.key}
    /\ UNCHANGED <<height, max_height, prev, reader>>

\* Remove up to the loop.
Remove(key) ==
    /\ writer.op = "idle"
    /\ key \in members
    /\ \A r \in Readers : reader[r].state # "search"
    /\ prev' = FindPrev(key)
    /\ writer' = [op |-> "unlink", key |-> key, level |-> 0]
    /\ UNCHANGED <<next, height, max_height, members, reader, membership>>

\* Mutant: the node stays linked on its highest level.
UnlinkLevelShort ==
    /\ writer.op = "unlink"
    /\ next' = [next EXCEPT ![prev[writer.level]][writer.level] =
                                next[writer.key][writer.level],
                            ![writer.key][writer.level] = Null]
    /\ IF writer.level = 0 THEN Witness(writer.key, FALSE) ELSE UNCHANGED membership
    /\ IF writer.level + 2 < height[writer.key]
       THEN /\ writer' = [writer EXCEPT !.level = @ + 1]
            /\ UNCHANGED members
       ELSE /\ writer' = Idle
            /\ members' = members \ {writer.key}
    /\ UNCHANGED <<height, max_height, prev, reader>>

\* prev[i]->SetNext(i, target->Next(i)); target->SetNext(i, nullptr): one
\* step, as no search can see between the two.
UnlinkLevel ==
    /\ writer.op = "unlink"
    /\ next' = [next EXCEPT ![prev[writer.level]][writer.level] =
                                next[writer.key][writer.level],
                            ![writer.key][writer.level] = Null]
    /\ IF writer.level = 0 THEN Witness(writer.key, FALSE) ELSE UNCHANGED membership
    /\ IF writer.level + 1 < height[writer.key]
       THEN /\ writer' = [writer EXCEPT !.level = @ + 1]
            /\ UNCHANGED members
       ELSE /\ writer' = Idle
            /\ members' = members \ {writer.key}
    /\ UNCHANGED <<height, max_height, prev, reader>>

-----------------------------------------------------------------------------
(* A search. *)

\* Contains or FindEqual begins.  max_height_ is loaded without a barrier, so
\* any height the list has had may be read.
Search(r, key, level) ==
    /\ reader[r].state # "search"
    /\ writer.op # "unlink"
    /\ level < max_height
    /\ reader' = [reader EXCEPT ![r] =
                     [state |-> "search", key |-> key, x |-> Head,
                      level |-> level, found |-> FALSE]]
    /\ membership' = [membership EXCEPT ![r] = IF key \in OnLevel(0) THEN {TRUE} ELSE {FALSE}]
    /\ UNCHANGED <<next, height, max_height, members, writer, prev>>

\* Mutant: the level stays when the search should go down.
SearchStepStuck(r) ==
    LET n == next[reader[r].x][reader[r].level]
    IN  /\ reader[r].state = "search"
        /\ \/ /\ KeyIsAfterNode(reader[r].key, n)
              /\ reader' = [reader EXCEPT ![r].x = n]
           \/ /\ ~KeyIsAfterNode(reader[r].key, n)
              /\ reader[r].level > 0
              /\ UNCHANGED reader
           \/ /\ ~KeyIsAfterNode(reader[r].key, n)
              /\ reader[r].level = 0
              /\ reader' = [reader EXCEPT ![r].state = "done",
                                          ![r].found = (n = reader[r].key)]
        /\ UNCHANGED <<next, height, max_height, members, writer, prev, membership>>

\* One turn of the loop: along the level, down one, or the end of the search
\* with the node that is not before the key.
SearchStep(r) ==
    LET n == next[reader[r].x][reader[r].level]
    IN  /\ reader[r].state = "search"
        /\ \/ /\ KeyIsAfterNode(reader[r].key, n)
              /\ reader' = [reader EXCEPT ![r].x = n]
           \/ /\ ~KeyIsAfterNode(reader[r].key, n)
              /\ reader[r].level > 0
              /\ reader' = [reader EXCEPT ![r].level = @ - 1]
           \/ /\ ~KeyIsAfterNode(reader[r].key, n)
              /\ reader[r].level = 0
              /\ reader' = [reader EXCEPT ![r].state = "done",
                                          ![r].found = (n = reader[r].key)]
        /\ UNCHANGED <<next, height, max_height, members, writer, prev, membership>>

Next ==
    \/ \E key \in Keys, h \in RandomHeight : Insert(key, h)
    \/ PrepareLevel
    \/ LinkLevel
    \/ \E key \in Keys : Remove(key)
    \/ UnlinkLevel
    \/ \E r \in Readers, key \in Keys, level \in Levels : Search(r, key, level)
    \/ \E r \in Readers : SearchStep(r)

Spec == Init /\ [][Next]_vars

\* A search is a loop of its thread; the writer owes it nothing.
FairSpec == Spec /\ \A r \in Readers : WF_vars(SearchStep(r))

-----------------------------------------------------------------------------
(* Properties. *)

TypeOK ==
    /\ next \in [Nodes -> [Levels -> Keys \cup {Null, Garbage}]]
    /\ height \in [Keys -> 0 .. MaxHeight]
    /\ max_height \in 1 .. MaxHeight
    /\ members \subseteq Keys
    /\ writer \in [op : {"idle", "prepare", "link", "unlink"}, key : Nodes, level : Levels]
    /\ prev \in [Levels -> Nodes]
    /\ reader \in [Readers -> [state : {"idle", "search", "done"}, key : Nodes,
                               x : Nodes, level : Levels, found : BOOLEAN]]
    /\ membership \in [Readers -> SUBSET BOOLEAN]

\* At every moment each level is a chain of ascending keys to the end, and no
\* node is on it before its pointer there is set (skiplist.h:387-390); but
\* during a Remove the keys of a level are keys of the level below.
LevelsAreSorted ==
    /\ \A l \in Levels : \A x \in OnLevel(l) \cup {Head} :
          next[x][l] = Null \/ next[x][l] > x
    /\ writer.op # "unlink" =>
          \A l \in Levels \ {0} : OnLevel(l) \subseteq OnLevel(l - 1)

\* Between operations each level has exactly the nodes in the list that are
\* high enough: nothing is lost or left by any sequence of insertions and
\* removals (skiplist.h:370-392, 453-467).
LevelsHoldMembers ==
    writer.op = "idle" =>
        \A l \in Levels : OnLevel(l) = {k \in members : height[k] > l}

\* A search is linearizable: it finds a key only if the key was in the list
\* at some moment of the search, and misses one only if it was not at some
\* moment, however insertions interleave with it (skiplist.h:395-425).
SearchIsLinearizable ==
    \A r \in Readers : reader[r].state = "done" => reader[r].found \in membership[r]

\* Every search ends, whatever is inserted meanwhile (skiplist.h:400-414).
SearchEnds == \A r \in Readers : reader[r].state = "search" ~> reader[r].state = "done"
=============================================================================
