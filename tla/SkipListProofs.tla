--------------------------- MODULE SkipListProofs ---------------------------
(***************************************************************************)
(* Theorems about SkipList, for every set of keys, however large, every    *)
(* kMaxHeight and any number of searches beside the writer.                *)
(***************************************************************************)
EXTENDS SkipList, WellFoundedInduction, TLAPS

\* By the pointers in nx level l is the chain of the keys in A, ascending, from
\* head_ to the end.
Chain(nx, l, A) ==
    /\ A \subseteq Keys
    /\ \A x \in A \cup {Head} :
          /\ nx[x][l] = Null \/ (nx[x][l] \in A /\ nx[x][l] > x)
          /\ \A y \in A : y > x => nx[x][l] # Null /\ nx[x][l] <= y

\* What is on level l: the members that are high enough, and of the node of
\* the operation under way what it has come to.
Linked(l) ==
    LET high == {k \in members : height[k] > l}
    IN  CASE writer.op \in {"prepare", "link"} /\ l < writer.level -> high \cup {writer.key}
          [] writer.op = "unlink" /\ l < writer.level -> high \ {writer.key}
          [] OTHER -> high

\* Node x is the last one before key on level l.
LastBefore(x, key, l) ==
    /\ x \in Linked(l) \cup {Head}
    /\ x < key
    /\ next[x][l] = Null \/ next[x][l] >= key

\* Where the writer is: the node of an insertion is new, prev is right on the
\* levels to come, and a node about to be linked has its pointer.
WriterInv ==
    writer.op # "idle" =>
        /\ writer.key \in Keys
        /\ writer.key \in members <=> writer.op = "unlink"
        /\ height[writer.key] \in 1 .. max_height
        /\ writer.level < height[writer.key]
        /\ \A l \in Levels : l >= writer.level => LastBefore(prev[l], writer.key, l)
        /\ writer.op = "link" =>
              next[writer.key][writer.level] = next[prev[writer.level]][writer.level]

\* Where a search is: on its level, before its key; and it has been told
\* whether the key is in the list now.
SearchInv(r) ==
    reader[r].state = "search" =>
        /\ writer.op # "unlink"
        /\ reader[r].key \in Keys
        /\ reader[r].x \in Linked(reader[r].level) \cup {Head}
        /\ reader[r].x < reader[r].key
        /\ reader[r].key \in Linked(0) => TRUE \in membership[r]
        /\ reader[r].key \notin Linked(0) => FALSE \in membership[r]

\* The conjuncts need one another: a level stays a chain because prev is
\* right, prev is right because the levels above are parts of those below,
\* and that is what the heights say.
ListInv ==
    /\ TypeOK
    /\ \A l \in Levels : Chain(next, l, Linked(l))
    /\ \A k \in members : height[k] \in 1 .. max_height
    /\ WriterInv
    /\ \A r \in Readers : SearchInv(r)
    /\ SearchIsLinearizable

-----------------------------------------------------------------------------
(* Naturals. *)

\* A set of naturals that is not empty has a least element.
LEMMA LeastOf ==
    ASSUME NEW S \in SUBSET Nat, S # {}
    PROVE  \E x \in S : \A y \in S : x <= y
<1>1. PICK x \in S : \A y \in S : <<y, x>> \notin OpToRel(<, Nat)
  BY NatLessThanWellFounded, WFMin, Zenon
<1>2. \A y \in S : ~(y < x)
  BY <1>1, Zenon DEF OpToRel
<1> QED BY <1>2

\* One whose elements are below n has a greatest element.
LEMMA GreatestOf ==
    ASSUME NEW S \in SUBSET Nat, S # {}, NEW n \in Nat, \A x \in S : x < n
    PROVE  \E x \in S : \A y \in S : y <= x
<1> DEFINE T == {k \in Nat : n - k \in S}
<1>1. T # {}
  <2>1. PICK x \in S : TRUE
    OBVIOUS
  <2>2. n - x \in Nat /\ n - (n - x) = x
    BY <2>1
  <2> QED BY <2>1, <2>2
<1>2. PICK k \in T : \A j \in T : k <= j
  BY <1>1, LeastOf
<1>3. \A y \in S : n - y \in T
  OBVIOUS
<1>4. ASSUME NEW y \in S PROVE y <= n - k
  <2>1. k <= n - y
    BY <1>2, <1>3
  <2> QED BY <2>1, k \in Nat
<1> QED BY <1>2, <1>4

\* Nodes are numbers, and head_ is before all keys.
LEMMA NodesAreNumbers ==
    /\ Nodes \subseteq Nat /\ Keys \subseteq Nodes /\ Head \in Nodes
    /\ \A k \in Keys : k \in Nat /\ Head < k
    /\ \A m, n \in Nodes : m < n => n \in Keys
    /\ Head \notin Keys
    /\ Null \notin Nodes /\ Garbage \notin Nodes /\ Null \in Int
BY SkipListAssumption DEF Nodes, Head, Null, Garbage

-----------------------------------------------------------------------------
(* Chains. *)

\* In a chain a key has a node before it whose pointer leads to it.
LEMMA Predecessor ==
    ASSUME NEW l, NEW A, Chain(next, l, A), NEW k \in A
    PROVE  \E m \in A \cup {Head} : m < k /\ next[m][l] = k
<1> DEFINE S == {n \in A \cup {Head} : n < k}
<1>1. A \cup {Head} \subseteq Nat /\ k \in Nat /\ Head < k
  BY NodesAreNumbers DEF Chain
<1>2. PICK m \in S : \A n \in S : n <= m
  BY <1>1, GreatestOf
<1>3. /\ next[m][l] # Null /\ next[m][l] <= k
      /\ next[m][l] \in A /\ next[m][l] > m
  BY <1>2 DEF Chain
<1>4. ~(next[m][l] < k)
  BY <1>1, <1>2, <1>3
<1> QED BY <1>1, <1>2, <1>3, <1>4

\* The keys on a level that is a chain are those of the chain.
LEMMA ChainIsLevel ==
    ASSUME NEW l, NEW A, Chain(next, l, A)
    PROVE  OnLevel(l) = A
<1>1. ASSUME NEW k \in OnLevel(l) PROVE k \in A
  <2> DEFINE S == A \cup {Head}
  <2>1. S \in SUBSET Nodes /\ Head \in S
    BY NodesAreNumbers DEF Chain
  <2>2. \A x \in S : next[x][l] \in Keys => next[x][l] \in S
    BY NodesAreNumbers DEF Chain
  <2>3. k \in S /\ k \in Keys
    BY <1>1, <2>1, <2>2 DEF OnLevel
  <2> QED BY <2>3, NodesAreNumbers
<1>2. ASSUME NEW k \in A PROVE k \in OnLevel(l)
  <2>1. SUFFICES ASSUME NEW S \in SUBSET Nodes, Head \in S,
                        \A x \in S : next[x][l] \in Keys => next[x][l] \in S
                 PROVE  k \in S
    BY <1>2 DEF OnLevel, Chain
  <2> DEFINE B == A \ S
  <2>2. SUFFICES ASSUME B # {} PROVE FALSE
    BY <1>2
  <2>3. B \in SUBSET Nat /\ A \subseteq Keys
    BY NodesAreNumbers DEF Chain
  <2>4. PICK b \in B : \A y \in B : b <= y
    BY <2>2, <2>3, LeastOf
  <2>5. PICK m \in A \cup {Head} : m < b /\ next[m][l] = b
    BY <2>4, Predecessor
  <2>6. m \in S
    BY <2>1, <2>3, <2>4, <2>5, NodesAreNumbers
  <2> QED BY <2>1, <2>3, <2>4, <2>5, <2>6
<1> QED BY <1>1, <1>2

\* On a chain FindGreaterOrEqual goes down at the last node before the key.
LEMMA StopsAtLastBefore ==
    ASSUME NEW l, NEW A, Chain(next, l, A), NEW key \in Keys,
           NEW x \in A \cup {Head}, x < key
    PROVE  /\ StopsAt(key, l, x) \in A \cup {Head}
           /\ StopsAt(key, l, x) < key
           /\ ~KeyIsAfterNode(key, next[StopsAt(key, l, x)][l])
<1> DEFINE before == {n \in A \cup {Head} : n < key}
           P == Passed(key, l, x)
<1>1. A \cup {Head} \subseteq Nodes /\ A \cup {Head} \subseteq Nat /\ key \in Nat
  BY NodesAreNumbers DEF Chain
<1>2. P \subseteq before
  <2>1. before \in SUBSET Nodes /\ x \in before
    BY <1>1
  <2>2. \A y \in before : KeyIsAfterNode(key, next[y][l]) => next[y][l] \in before
    BY DEF Chain, KeyIsAfterNode
  <2> QED BY <2>1, <2>2 DEF Passed
<1>3. x \in P
  BY <1>1 DEF Passed
<1>4. ASSUME NEW n \in P, KeyIsAfterNode(key, next[n][l])
      PROVE  next[n][l] \in P /\ next[n][l] > n
  <2>1. next[n][l] \in A /\ next[n][l] > n
    BY <1>2, <1>4 DEF Chain, KeyIsAfterNode
  <2>2. next[n][l] \in Nodes
    BY <1>1, <2>1
  <2>3. ASSUME NEW S \in SUBSET Nodes, x \in S,
               \A y \in S : KeyIsAfterNode(key, next[y][l]) => next[y][l] \in S
        PROVE  next[n][l] \in S
    BY <1>4, <2>3 DEF Passed
  <2> QED BY <2>1, <2>2, <2>3 DEF Passed
<1>5. \E n \in P : ~KeyIsAfterNode(key, next[n][l])
  <2>1. PICK m \in P : \A n \in P : n <= m
    <3>1. P \in SUBSET Nat /\ P # {} /\ \A n \in P : n < key
      BY <1>1, <1>2, <1>3
    <3> QED BY <1>1, <3>1, GreatestOf
  <2> QED BY <1>1, <1>2, <1>4, <2>1
<1>6. StopsAt(key, l, x) \in P /\ ~KeyIsAfterNode(key, next[StopsAt(key, l, x)][l])
  BY <1>5 DEF StopsAt
<1> QED BY <1>2, <1>6

\* FindPrev's recursion over the levels defines a function.
LEMMA LastExists ==
    ASSUME NEW key, max_height \in 1 .. MaxHeight
    PROVE  \E g : g = [l \in 0 .. MaxHeight |->
                         IF l >= max_height THEN Head ELSE StopsAt(key, l, g[l + 1])]
<1> DEFINE IsLast(g, m) ==
             g = [l \in MaxHeight - m .. MaxHeight |->
                     IF l >= max_height THEN Head ELSE StopsAt(key, l, g[l + 1])]
           missing == {m \in 0 .. MaxHeight : ~\E g : IsLast(g, m)}
<1>1. MaxHeight \in Nat /\ missing \subseteq Nat
  BY SkipListAssumption
<1>2. SUFFICES ASSUME missing # {} PROVE FALSE
  <2>1. CASE missing = {}
    <3>1. MaxHeight \in 0 .. MaxHeight
      BY <1>1
    <3>3. PICK g : IsLast(g, MaxHeight)
      BY <2>1, <3>1, Zenon
    <3>2. MaxHeight - MaxHeight = 0
      BY <1>1
    <3> QED BY <3>2, <3>3, Zenon
  <2> QED BY <1>2, <2>1
<1>3. PICK m \in missing : \A n \in missing : m <= n
  BY <1>1, <1>2, LeastOf
<1>4. m # 0
  <2>1. IsLast([l \in MaxHeight - 0 .. MaxHeight |-> Head], 0)
    BY <1>1
  <2> QED BY <2>1
<1>5. m \in Nat /\ m - 1 \in 0 .. MaxHeight /\ m - 1 \notin missing
  BY <1>1, <1>3, <1>4
<1>6. PICK g : IsLast(g, m - 1)
  BY <1>5
<1> DEFINE k == MaxHeight - m
           h == [l \in k .. MaxHeight |->
                    IF l = k THEN IF l >= max_height THEN Head ELSE StopsAt(key, l, g[l + 1])
                             ELSE g[l]]
<1>7. k \in Nat /\ k < MaxHeight /\ MaxHeight - (m - 1) = k + 1
  BY <1>1, <1>3, <1>4
<1>8. \A l \in k + 1 .. MaxHeight :
          g[l] = IF l >= max_height THEN Head ELSE StopsAt(key, l, g[l + 1])
  BY <1>6, <1>7, Zenon
<1>9. IsLast(h, m)
  <2>1. ASSUME NEW l \in k .. MaxHeight
        PROVE  h[l] = IF l >= max_height THEN Head ELSE StopsAt(key, l, h[l + 1])
    <3>1. CASE l >= max_height
      BY <1>7, <1>8, <3>1
    <3>2. CASE ~(l >= max_height)
      <4>1. l + 1 \in k + 1 .. MaxHeight
        BY <1>1, <1>7, <3>2
      <4>2. h[l + 1] = g[l + 1]
        BY <1>7, <4>1
      <4>3. h[l] = StopsAt(key, l, g[l + 1])
        BY <1>7, <1>8, <3>2
      <4> QED BY <3>2, <4>2, <4>3
    <3> QED BY <3>1, <3>2
  <2> QED BY <2>1, Zenon
<1> QED BY <1>3, <1>9

\* prev is right on every level, if each level is a chain and part of the one
\* below.
LEMMA FindPrevIsLastBefore ==
    ASSUME TypeOK, NEW A, NEW key \in Keys,
           \A l \in Levels : Chain(next, l, A[l]),
           \A l \in Levels : l > 0 => A[l] \subseteq A[l - 1],
           \A l \in Levels : l >= max_height => A[l] = {}
    PROVE  \A l \in Levels :
              /\ FindPrev(key)[l] \in A[l] \cup {Head}
              /\ FindPrev(key)[l] < key
              /\ ~KeyIsAfterNode(key, next[FindPrev(key)[l]][l])
<1> DEFINE last == CHOOSE g : g = [l \in 0 .. MaxHeight |->
                       IF l >= max_height THEN Head ELSE StopsAt(key, l, g[l + 1])]
           right(l) == /\ last[l] \in A[l] \cup {Head}
                       /\ last[l] < key
                       /\ ~KeyIsAfterNode(key, next[last[l]][l])
           wrong == {m \in Nat : m < MaxHeight /\ ~right(MaxHeight - 1 - m)}
<1>0. \A i, j \in Levels : i = j + 1 => A[i] \subseteq A[j]
  <2> SUFFICES ASSUME NEW i \in Levels, NEW j \in Levels, i = j + 1
               PROVE  A[i] \subseteq A[j]
    OBVIOUS
  <2>1. i > 0 /\ i - 1 = j
    BY DEF Levels
  <2> QED BY <2>1
<1>1. /\ MaxHeight \in Nat \ {0} /\ max_height \in 1 .. MaxHeight
      /\ Levels = 0 .. MaxHeight - 1 /\ Head < key
  BY SkipListAssumption, NodesAreNumbers DEF TypeOK, Levels
<1>2. FindPrev(key) = [l \in Levels |-> last[l]]
  BY DEF FindPrev
<1>3. \A l \in 0 .. MaxHeight :
          last[l] = IF l >= max_height THEN Head ELSE StopsAt(key, l, last[l + 1])
  <2>1. \E g : g = [l \in 0 .. MaxHeight |->
                       IF l >= max_height THEN Head ELSE StopsAt(key, l, g[l + 1])]
    BY <1>1, LastExists
  <2>2. last = [l \in 0 .. MaxHeight |->
                   IF l >= max_height THEN Head ELSE StopsAt(key, l, last[l + 1])]
    BY <2>1, Zenon
  <2> HIDE DEF last
  <2> QED BY <2>2, Zenon
<1> HIDE DEF last
<1>4. SUFFICES ASSUME wrong # {} PROVE FALSE
  <2>1. CASE wrong = {}
    <3>1. ASSUME NEW l \in Levels PROVE right(l)
      <4>1. MaxHeight - 1 - l \in Nat /\ MaxHeight - 1 - l < MaxHeight
            /\ MaxHeight - 1 - (MaxHeight - 1 - l) = l
        BY <1>1
      <4> QED BY <2>1, <4>1
    <3> QED BY <1>2, <3>1
  <2> QED BY <1>4, <2>1
<1>5. PICK m \in wrong : \A n \in wrong : m <= n
  BY <1>4, LeastOf
<1> DEFINE l == MaxHeight - 1 - m
<1>6. l \in Levels /\ l \in 0 .. MaxHeight /\ l + 1 \in 0 .. MaxHeight /\ l \in Nat
  BY <1>1, <1>5
<1>7. l < max_height
  <2>1. SUFFICES ASSUME l >= max_height PROVE right(l)
    BY <1>1, <1>5, <1>6
  <2>2. last[l] = Head /\ A[l] = {} /\ Chain(next, l, A[l])
    BY <1>3, <1>6, <2>1
  <2>3. next[Head][l] = Null
    BY <2>2, Zenon DEF Chain
  <2> QED BY <1>1, <2>2, <2>3 DEF KeyIsAfterNode
<1>8. last[l + 1] \in A[l] \cup {Head} /\ last[l + 1] < key
  <2>1. CASE l + 1 >= max_height
    BY <1>1, <1>3, <1>6, <2>1
  <2>2. CASE l + 1 < max_height
    <3>1. l + 1 \in Levels /\ l + 1 - 1 = l /\ l + 1 > 0
      BY <1>1, <1>6, <2>2
    <3>2. A[l + 1] \subseteq A[l]
      BY <1>6, <3>1, <1>0
    <3>3. right(l + 1)
      <4>1. m - 1 \in Nat /\ m - 1 < MaxHeight /\ MaxHeight - 1 - (m - 1) = l + 1 /\ ~(m <= m - 1)
        BY <1>1, <1>5, <3>1
      <4>2. m - 1 \notin wrong
        BY <1>5, <4>1
      <4> QED BY <4>1, <4>2
    <3> QED BY <3>2, <3>3
  <2> QED BY <1>1, <1>6, <2>1, <2>2
<1>9. last[l] = StopsAt(key, l, last[l + 1])
  BY <1>1, <1>3, <1>6, <1>7
<1>10. right(l)
  <2>1. Chain(next, l, A[l])
    BY <1>6
  <2> HIDE DEF l
  <2> QED BY <1>8, <1>9, <2>1, StopsAtLastBefore
<1> QED BY <1>5, <1>10

\* Pointers of other nodes do not matter.
LEMMA ChainFrame ==
    ASSUME NEW nx, NEW ny, NEW l, NEW A, Chain(nx, l, A),
           \A x \in A \cup {Head} : ny[x][l] = nx[x][l]
    PROVE  Chain(ny, l, A)
BY DEF Chain

\* Linking a key behind the last node before it.
LEMMA ChainInsert ==
    ASSUME NEW nx, NEW ny, NEW l, NEW A, Chain(nx, l, A),
           NEW key \in Keys, key \notin A,
           NEW p \in A \cup {Head}, p < key, nx[p][l] = Null \/ nx[p][l] >= key,
           ny[p][l] = key, ny[key][l] = nx[p][l],
           \A x \in A \cup {Head} : x # p => ny[x][l] = nx[x][l]
    PROVE  Chain(ny, l, A \cup {key})
<1>1. A \cup {Head} \subseteq Nat /\ key \in Nat /\ Head < key /\ Null \in Int /\ key # Null
  BY NodesAreNumbers DEF Chain
<1>6. \A x, y \in A \cup {Head} : x < y => y \in A
  BY NodesAreNumbers DEF Chain
<1>2. \A y \in A : y > p => y > key
  BY <1>1 DEF Chain
<1>3. /\ ny[p][l] \in A \cup {key} /\ ny[p][l] > p
      /\ \A y \in A \cup {key} : y > p => ny[p][l] # Null /\ ny[p][l] <= y
  BY <1>1, <1>2
<1>4. /\ ny[key][l] = Null \/ (ny[key][l] \in A \cup {key} /\ ny[key][l] > key)
      /\ \A y \in A \cup {key} : y > key => ny[key][l] # Null /\ ny[key][l] <= y
  BY <1>1, <1>2 DEF Chain
<1>5. ASSUME NEW x \in A \cup {Head}, x # p
      PROVE  /\ ny[x][l] = Null \/ (ny[x][l] \in A \cup {key} /\ ny[x][l] > x)
             /\ \A y \in A \cup {key} : y > x => ny[x][l] # Null /\ ny[x][l] <= y
  <2>1. ny[x][l] = nx[x][l]
    BY <1>5
  <2>2. ASSUME key > x PROVE nx[x][l] # Null /\ nx[x][l] <= key
    <3>1. CASE p > x
      BY <1>1, <1>5, <1>6, <3>1 DEF Chain
    <3>2. CASE x > p
      BY <1>1, <1>2, <1>5, <1>6, <2>2, <3>2
    <3> QED BY <1>1, <1>5, <3>1, <3>2
  <2> QED BY <1>1, <2>1, <2>2 DEF Chain
<1> QED BY <1>1, <1>3, <1>4, <1>5 DEF Chain

\* Unlinking a key from the node before it.
LEMMA ChainRemove ==
    ASSUME NEW nx, NEW ny, NEW l, NEW A, Chain(nx, l, A),
           NEW key \in A,
           NEW p \in A \cup {Head}, p < key, nx[p][l] = Null \/ nx[p][l] >= key,
           ny[p][l] = nx[key][l],
           \A x \in (A \cup {Head}) \ {key} : x # p => ny[x][l] = nx[x][l]
    PROVE  Chain(ny, l, A \ {key})
<1>1. A \cup {Head} \subseteq Nat /\ key \in Nat /\ Head < key /\ Null \in Int /\ Null \notin A
  BY NodesAreNumbers DEF Chain
<1>6. \A x, y \in A \cup {Head} : x < y => y \in A
  BY NodesAreNumbers DEF Chain
<1>2. nx[p][l] = key
  BY <1>1 DEF Chain
<1>3. \A y \in A : y > p => y >= key
  BY <1>1, <1>2 DEF Chain
<1>4. /\ ny[p][l] = Null \/ (ny[p][l] \in A \ {key} /\ ny[p][l] > p)
      /\ \A y \in A \ {key} : y > p => ny[p][l] # Null /\ ny[p][l] <= y
  BY <1>1, <1>3 DEF Chain
<1>5. ASSUME NEW x \in (A \cup {Head}) \ {key}, x # p
      PROVE  /\ ny[x][l] = Null \/ (ny[x][l] \in A \ {key} /\ ny[x][l] > x)
             /\ \A y \in A \ {key} : y > x => ny[x][l] # Null /\ ny[x][l] <= y
  <2>1. ny[x][l] = nx[x][l]
    BY <1>5
  <2>2. nx[x][l] # key
    <3>1. CASE p > x
      BY <1>1, <1>5, <1>6, <3>1 DEF Chain
    <3>2. CASE x > p
      BY <1>1, <1>3, <1>5, <1>6, <3>2 DEF Chain
    <3> QED BY <1>1, <1>5, <3>1, <3>2
  <2> QED BY <1>1, <2>1, <2>2 DEF Chain
<1> QED BY <1>1, <1>4, <1>5 DEF Chain

-----------------------------------------------------------------------------
(* The steps.  First what each makes of the levels. *)

LEMMA LinkedFrame ==
    ASSUME TypeOK
    PROVE  /\ \A key \in Keys, h \in RandomHeight :
                  Insert(key, h) => \A l \in Levels : Linked(l)' = Linked(l)
           /\ PrepareLevel => \A l \in Levels : Linked(l)' = Linked(l)
           /\ \A key \in Keys : Remove(key) => \A l \in Levels : Linked(l)' = Linked(l)
           /\ \A r \in Readers, key \in Keys, level \in Levels :
                  Search(r, key, level) => \A l \in Levels : Linked(l)' = Linked(l)
           /\ \A r \in Readers : SearchStep(r) => \A l \in Levels : Linked(l)' = Linked(l)
<1>1. \A l \in Levels : ~(l < 0)
  BY DEF Levels
<1>2. ASSUME NEW key \in Keys, NEW h \in RandomHeight, Insert(key, h), NEW l \in Levels
      PROVE  Linked(l)' = Linked(l)
  <2>1. /\ writer.op = "idle" /\ key \notin members /\ members' = members
        /\ height' = [height EXCEPT ![key] = h]
        /\ writer' = [op |-> "prepare", key |-> key, level |-> 0]
    BY <1>2 DEF Insert, NewNode
  <2>2. \A k \in members : height'[k] = height[k]
    BY <2>1 DEF TypeOK
  <2> QED BY <1>1, <2>1, <2>2 DEF Linked
<1>3. ASSUME PrepareLevel, NEW l \in Levels PROVE Linked(l)' = Linked(l)
  BY <1>3 DEF PrepareLevel, Linked, TypeOK
<1>4. ASSUME NEW key \in Keys, Remove(key), NEW l \in Levels PROVE Linked(l)' = Linked(l)
  BY <1>1, <1>4 DEF Remove, Linked
<1>5. ASSUME NEW r \in Readers, NEW key \in Keys, NEW level \in Levels,
             Search(r, key, level), NEW l \in Levels
      PROVE  Linked(l)' = Linked(l)
  BY <1>5 DEF Search, Linked
<1>6. ASSUME NEW r \in Readers, SearchStep(r), NEW l \in Levels PROVE Linked(l)' = Linked(l)
  BY <1>6 DEF SearchStep, Linked
<1> QED BY <1>2, <1>3, <1>4, <1>5, <1>6

LEMMA LinkedStep ==
    ASSUME ListInv
    PROVE  /\ LinkLevel => \A l \in Levels :
                  Linked(l)' = IF l = writer.level THEN Linked(l) \cup {writer.key} ELSE Linked(l)
           /\ UnlinkLevel => \A l \in Levels :
                  Linked(l)' = IF l = writer.level THEN Linked(l) \ {writer.key} ELSE Linked(l)
<1> DEFINE key == writer.key  level == writer.level
<1>1. /\ Levels \subseteq Nat /\ \A k \in Keys : height[k] \in Nat
      /\ level \in Levels /\ members \subseteq Keys
      /\ writer \in [op : {"idle", "prepare", "link", "unlink"}, key : Nodes, level : Levels]
  BY DEF ListInv, TypeOK, Levels
<1>2. ASSUME writer.op # "idle"
      PROVE  /\ key \in Keys /\ (key \in members <=> writer.op = "unlink")
             /\ level < height[key]
  BY <1>2 DEF ListInv, WriterInv
<1>0. level \in Nat /\ \A l \in Levels : l \in Nat
  BY <1>1
<1>3. ASSUME LinkLevel, NEW l \in Levels
      PROVE  Linked(l)' = IF l = level THEN Linked(l) \cup {key} ELSE Linked(l)
  <2>1. writer.op = "link" /\ height' = height
    BY <1>3 DEF LinkLevel
  <2>2. CASE level + 1 < height[key]
    <3>1. members' = members /\ writer' = [writer EXCEPT !.op = "prepare", !.level = level + 1]
      BY <1>3, <2>2 DEF LinkLevel
    <3>2. writer'.op = "prepare" /\ writer'.key = key
          /\ (l < writer'.level <=> l < level \/ l = level)
      BY <1>0, <1>1, <3>1
    <3> QED BY <1>0, <1>1, <2>1, <3>1, <3>2 DEF Linked
  <2>3. CASE ~(level + 1 < height[key])
    <3>1. members' = members \cup {key} /\ writer'.op = "idle"
      BY <1>3, <2>3 DEF LinkLevel, Idle
    <3>2. height[key] = level + 1 /\ key \notin members
      BY <1>0, <1>1, <1>2, <2>1, <2>3
    <3>3. height[key] > l <=> l < level \/ l = level
      BY <1>0, <3>2
    <3> QED BY <1>0, <1>1, <2>1, <3>1, <3>2, <3>3 DEF Linked
  <2> QED BY <2>2, <2>3
<1>4. ASSUME UnlinkLevel, NEW l \in Levels
      PROVE  Linked(l)' = IF l = level THEN Linked(l) \ {key} ELSE Linked(l)
  <2>1. writer.op = "unlink" /\ height' = height
    BY <1>4 DEF UnlinkLevel
  <2>2. CASE level + 1 < height[key]
    <3>1. members' = members /\ writer' = [writer EXCEPT !.level = level + 1]
      BY <1>4, <2>2 DEF UnlinkLevel
    <3>2. writer'.op = "unlink" /\ writer'.key = key /\ writer'.level = level + 1
      BY <1>1, <2>1, <3>1
    <3> QED BY <1>0, <1>1, <2>1, <3>1, <3>2 DEF Linked
  <2>3. CASE ~(level + 1 < height[key])
    <3>1. members' = members \ {key} /\ writer'.op = "idle"
      BY <1>4, <2>3 DEF UnlinkLevel, Idle
    <3>2. height[key] = level + 1
      BY <1>0, <1>1, <1>2, <2>1, <2>3
    <3>3. height[key] > l <=> l < level \/ l = level
      BY <1>0, <3>2
    <3> QED BY <1>0, <1>1, <2>1, <3>1, <3>2, <3>3 DEF Linked
  <2> QED BY <2>2, <2>3
<1> QED BY <1>3, <1>4

\* Ranges the provers need.
LEMMA ListType ==
    ASSUME ListInv
    PROVE  /\ MaxHeight \in Nat \ {0} /\ Levels = 0 .. MaxHeight - 1 /\ 0 \in Levels
           /\ \A l \in Levels : l \in Nat /\ l + 1 \in Nat
           /\ max_height \in Nat /\ max_height \in 1 .. MaxHeight
           /\ \A k \in Keys : height[k] \in Nat
           /\ writer.level \in Levels /\ writer.level \in Nat
           /\ DOMAIN next = Nodes /\ \A x \in Nodes : DOMAIN next[x] = Levels
           /\ \A r \in Readers : reader[r].level \in Levels /\ reader[r].level \in Nat
           /\ \A l \in Levels : Linked(l) \subseteq Keys
<1>1. MaxHeight \in Nat \ {0} /\ Levels = 0 .. MaxHeight - 1 /\ 0 \in Levels
  BY SkipListAssumption DEF Levels
<1>2. TypeOK /\ \A l \in Levels : Chain(next, l, Linked(l))
  BY DEF ListInv
<1>3. \A l \in Levels : Linked(l) \subseteq Keys
  BY <1>2 DEF Chain
<1> QED BY <1>1, <1>2, <1>3 DEF TypeOK

\* While nothing is unlinked a level has no node the level below has not.
LEMMA LevelsAreNested ==
    ASSUME ListInv, writer.op # "unlink"
    PROVE  \A i, j \in Levels : j < i => Linked(i) \subseteq Linked(j)
<1> SUFFICES ASSUME NEW i \in Levels, NEW j \in Levels, j < i, NEW k \in Linked(i)
             PROVE  k \in Linked(j)
  OBVIOUS
<1>1. i \in Nat /\ j \in Nat /\ writer.level \in Nat /\ k \in Keys /\ height[k] \in Nat
  BY ListType
<1>2. /\ height[k] > i => height[k] > j
      /\ i < writer.level => j < writer.level
  BY <1>1
<1> QED BY <1>2 DEF Linked

\* What the search of Insert and Remove leaves in prev.
LEMMA PrevIsRight ==
    ASSUME ListInv, writer.op = "idle", NEW key \in Keys
    PROVE  /\ FindPrev(key) \in [Levels -> Nodes]
           /\ \A l \in Levels : LastBefore(FindPrev(key)[l], key, l)
<1> DEFINE A == [l \in Levels |-> Linked(l)]
<1>1. \A l \in Levels : A[l] = Linked(l)
  OBVIOUS
<1>2. \A l \in Levels : Chain(next, l, A[l])
  BY <1>1 DEF ListInv
<1>3. \A l \in Levels : l > 0 => A[l] \subseteq A[l - 1]
  <2> SUFFICES ASSUME NEW l \in Levels, l > 0 PROVE A[l] \subseteq A[l - 1]
    OBVIOUS
  <2>1. l - 1 \in Levels /\ l - 1 < l
    BY ListType
  <2> QED BY <1>1, <2>1, LevelsAreNested
<1>4. \A l \in Levels : l >= max_height => A[l] = {}
  <2> SUFFICES ASSUME NEW l \in Levels, l >= max_height, NEW k \in Linked(l) PROVE FALSE
    BY <1>1
  <2>1. k \in members /\ height[k] > l
    BY DEF Linked
  <2>2. height[k] <= max_height /\ k \in Keys
    BY <2>1, ListType DEF ListInv, TypeOK
  <2> QED BY <2>1, <2>2, ListType
<1>5. TypeOK
  BY DEF ListInv
<1> HIDE DEF A
<1>6. \A l \in Levels :
          /\ FindPrev(key)[l] \in A[l] \cup {Head}
          /\ FindPrev(key)[l] < key
          /\ ~KeyIsAfterNode(key, next[FindPrev(key)[l]][l])
  BY <1>2, <1>3, <1>4, <1>5, FindPrevIsLastBefore
<1>7. FindPrev(key) \in [Levels -> Nodes]
  <2>1. FindPrev(key) = [l \in Levels |-> FindPrev(key)[l]]
    BY DEF FindPrev
  <2>2. \A l \in Levels : FindPrev(key)[l] \in Nodes
    BY <1>1, <1>6, NodesAreNumbers, ListType
  <2> QED BY <2>1, <2>2
<1>8. ASSUME NEW l \in Levels PROVE LastBefore(FindPrev(key)[l], key, l)
  <2> DEFINE p == FindPrev(key)[l]
  <2>1. p \in Linked(l) \cup {Head} /\ p < key /\ ~KeyIsAfterNode(key, next[p][l])
    BY <1>1, <1>6
  <2>2. Chain(next, l, Linked(l))
    BY DEF ListInv
  <2> HIDE DEF p
  <2>3. next[p][l] = Null \/ next[p][l] \in Keys
    BY <2>1, <2>2 DEF Chain
  <2>6. key \in Nat /\ (next[p][l] = Null \/ next[p][l] \in Nat)
    BY <2>3, NodesAreNumbers
  <2>4. next[p][l] = Null \/ next[p][l] >= key
    BY <2>1, <2>6 DEF KeyIsAfterNode
  <2>5. LastBefore(p, key, l)
    BY <2>1, <2>4 DEF LastBefore
  <2> QED BY <2>5 DEF p
<1> QED BY <1>7, <1>8

LEMMA InitListInv == Init => ListInv
<1> SUFFICES ASSUME Init PROVE ListInv
  OBVIOUS
<1>1. TypeOK
  BY SkipListAssumption DEF Init, TypeOK, Nodes, Levels, Idle, Resting
<1>2. \A l \in Levels : Linked(l) = {}
  BY DEF Init, Linked, Idle
<1>3. \A l \in Levels : next[Head][l] = Null
  BY NodesAreNumbers DEF Init
<1>4. \A l \in Levels : Chain(next, l, Linked(l))
  BY <1>2, <1>3 DEF Chain
<1> QED BY <1>1, <1>4 DEF Init, ListInv, WriterInv, SearchInv, SearchIsLinearizable, Idle, Resting

\* A search under way is as before if its levels keep their keys, and learns
\* of the key when it is linked on the lowest one.
LEMMA SearchesKeep ==
    ASSUME ListInv, reader' = reader, writer'.op # "unlink",
           \A l \in Levels : Linked(l) \subseteq Linked(l)',
           \A r \in Readers : reader[r].state = "search" =>
               /\ membership[r] \subseteq membership'[r]
               /\ \/ reader[r].key \in Linked(0)' <=> reader[r].key \in Linked(0)
                  \/ reader[r].key \in Linked(0)' /\ TRUE \in membership'[r],
           \A r \in Readers : reader[r].state # "search" => membership'[r] = membership[r]
    PROVE  /\ \A r \in Readers : SearchInv(r)'
           /\ SearchIsLinearizable'
<1>1. ASSUME NEW r \in Readers PROVE SearchInv(r)'
  BY ListType DEF ListInv, SearchInv
<1>2. SearchIsLinearizable'
  BY DEF ListInv, SearchIsLinearizable
<1> QED BY <1>1, <1>2

-----------------------------------------------------------------------------
(* The writer's steps. *)

LEMMA InsertStep ==
    ASSUME ListInv, NEW key \in Keys, NEW h \in RandomHeight, Insert(key, h)
    PROVE  ListInv'
<1>1. /\ writer.op = "idle" /\ key \notin members /\ members' = members
      /\ prev' = FindPrev(key)
      /\ max_height' = IF h > max_height THEN h ELSE max_height
      /\ height' = [height EXCEPT ![key] = h]
      /\ next' = [next EXCEPT ![key] = [l \in Levels |-> Garbage]]
      /\ writer' = [op |-> "prepare", key |-> key, level |-> 0]
      /\ reader' = reader /\ membership' = membership
  BY DEF Insert, NewNode
<1>2. h \in Nat /\ h \in 1 .. MaxHeight
  BY SkipListAssumption DEF RandomHeight
<1>3. TypeOK'
  <2>1. next' \in [Nodes -> [Levels -> Keys \cup {Null, Garbage}]]
    BY <1>1, NodesAreNumbers DEF ListInv, TypeOK
  <2>2. height' \in [Keys -> 0 .. MaxHeight] /\ max_height' \in 1 .. MaxHeight
    BY <1>1, <1>2 DEF ListInv, TypeOK
  <2>3. writer' \in [op : {"idle", "prepare", "link", "unlink"}, key : Nodes, level : Levels]
    BY <1>1, ListType, NodesAreNumbers
  <2>4. prev' \in [Levels -> Nodes]
    BY <1>1, PrevIsRight
  <2> QED BY <1>1, <2>1, <2>2, <2>3, <2>4 DEF ListInv, TypeOK
<1>4. \A l \in Levels : Linked(l)' = Linked(l)
  BY LinkedFrame DEF ListInv
<1>5. \A l \in Levels : key \notin Linked(l)
  BY <1>1 DEF Linked
<1>6. \A l \in Levels : \A x \in Linked(l) \cup {Head} : next'[x] = next[x]
  BY <1>1, <1>5, NodesAreNumbers, ListType
<1>7. \A l \in Levels : Chain(next, l, Linked(l))'
  BY <1>4, <1>6, ChainFrame DEF ListInv
<1>8. \A k \in members' : height'[k] \in 1 .. max_height'
  <2> SUFFICES ASSUME NEW k \in members PROVE height'[k] \in 1 .. max_height'
    BY <1>1
  <2>1. height'[k] = height[k] /\ height[k] \in 1 .. max_height
    BY <1>1 DEF ListInv, TypeOK
  <2>2. max_height' \in Nat /\ max_height <= max_height'
    BY <1>1, <1>2, ListType
  <2> QED BY <2>1, <2>2, ListType
<1>9. WriterInv'
  <2>1. height'[key] = h /\ h \in 1 .. max_height' /\ 0 < h
    BY <1>1, <1>2, ListType DEF ListInv, TypeOK
  <2>2. ASSUME NEW l \in Levels PROVE LastBefore(prev[l], key, l)'
    <3>1. LastBefore(FindPrev(key)[l], key, l)
      BY <1>1, PrevIsRight
    <3> QED BY <1>1, <1>4, <1>6, <3>1 DEF LastBefore
  <2> QED BY <1>1, <2>1, <2>2 DEF WriterInv
<1>10. (\A r \in Readers : SearchInv(r)') /\ SearchIsLinearizable'
  BY <1>1, <1>4, ListType, SearchesKeep
<1> QED BY <1>3, <1>7, <1>8, <1>9, <1>10 DEF ListInv

\* What holds of a node being linked or unlinked on a level.
LEMMA AtLevel ==
    ASSUME ListInv, writer.op # "idle"
    PROVE  /\ writer.key \in Keys /\ (writer.key \in members <=> writer.op = "unlink")
           /\ height[writer.key] \in 1 .. max_height /\ writer.level < height[writer.key]
           /\ prev[writer.level] \in Linked(writer.level) \cup {Head}
           /\ prev[writer.level] \in Nodes /\ prev[writer.level] # writer.key
           /\ prev[writer.level] < writer.key
           /\ LET n == next[prev[writer.level]][writer.level]
              IN  n = Null \/ n >= writer.key
           /\ Chain(next, writer.level, Linked(writer.level))
           /\ \A l \in Levels : l >= writer.level =>
                  (writer.key \in Linked(l) <=> writer.op = "unlink" /\ height[writer.key] > l)
<1>1. WriterInv /\ writer.level \in Levels /\ writer.level \in Nat /\ \A l \in Levels : l \in Nat
  BY ListType DEF ListInv
<1>2. LastBefore(prev[writer.level], writer.key, writer.level)
  BY <1>1 DEF WriterInv
<1>3. \A l \in Levels : l >= writer.level => ~(l < writer.level)
  BY <1>1
<1>4. writer.key \in Nat /\ ~(writer.key < writer.key)
  <2>1. writer.key \in Keys
    BY <1>1 DEF WriterInv
  <2>2. writer.key \in Nat
    BY <2>1, NodesAreNumbers
  <2> QED BY <2>2
<1>5. prev[writer.level] \in Nodes
  BY <1>1 DEF ListInv, TypeOK
<1> QED BY <1>1, <1>2, <1>3, <1>4, <1>5 DEF WriterInv, LastBefore, Linked, ListInv

LEMMA PrepareStep ==
    ASSUME ListInv, PrepareLevel
    PROVE  ListInv'
<1> DEFINE key == writer.key  level == writer.level  p == prev[level]
<1>1. /\ writer.op = "prepare"
      /\ next' = [next EXCEPT ![key][level] = next[p][level]]
      /\ writer' = [writer EXCEPT !.op = "link"]
      /\ height' = height /\ max_height' = max_height /\ members' = members
      /\ prev' = prev /\ reader' = reader /\ membership' = membership
  BY DEF PrepareLevel
<1>2. /\ writer'.op = "link" /\ writer'.key = key /\ writer'.level = level
      /\ writer' \in [op : {"idle", "prepare", "link", "unlink"}, key : Nodes, level : Levels]
  BY <1>1 DEF ListInv, TypeOK
<1>3. /\ key \in Keys /\ key \notin members /\ p \in Nodes /\ p # key /\ level \in Levels
      /\ \A l \in Levels : l >= level => key \notin Linked(l)
  BY <1>1, AtLevel, ListType
<1>4. \A l \in Levels : Linked(l)' = Linked(l)
  BY LinkedFrame DEF ListInv
<1>5. /\ next'[key][level] = next[p][level]
      /\ \A l \in Levels : \A x \in Nodes : x # key \/ l # level => next'[x][l] = next[x][l]
      /\ next' \in [Nodes -> [Levels -> Keys \cup {Null, Garbage}]]
  BY <1>1, <1>3, NodesAreNumbers DEF ListInv, TypeOK
<1>6. TypeOK'
  BY <1>1, <1>2, <1>5 DEF ListInv, TypeOK
<1>7. \A l \in Levels : \A x \in Linked(l) \cup {Head} : next'[x][l] = next[x][l]
  <2> SUFFICES ASSUME NEW l \in Levels, NEW x \in Linked(l) \cup {Head}
               PROVE  next'[x][l] = next[x][l]
    OBVIOUS
  <2>1. x \in Nodes /\ key # Head
    BY NodesAreNumbers, ListType, <1>3
  <2>2. x # key \/ l # level
    BY <1>3, <2>1, ListType
  <2> QED BY <1>5, <2>1, <2>2
<1>8. \A l \in Levels : Chain(next, l, Linked(l))'
  BY <1>4, <1>7, ChainFrame DEF ListInv
<1>9. WriterInv'
  <2>1. ASSUME NEW l \in Levels, l >= level PROVE LastBefore(prev[l], key, l)'
    <3>1. LastBefore(prev[l], key, l)
      BY <1>1, <2>1 DEF ListInv, WriterInv
    <3> QED BY <1>1, <1>2, <1>4, <1>7, <3>1 DEF LastBefore
  <2>2. next'[key][level] = next'[p][level]
    BY <1>3, <1>5
  <2> QED BY <1>1, <1>2, <2>1, <2>2, AtLevel DEF WriterInv
<1>10. (\A r \in Readers : SearchInv(r)') /\ SearchIsLinearizable'
  BY <1>1, <1>2, <1>4, ListType, SearchesKeep
<1> QED BY <1>1, <1>6, <1>8, <1>9, <1>10 DEF ListInv

LEMMA LinkStep ==
    ASSUME ListInv, LinkLevel
    PROVE  ListInv'
<1> DEFINE key == writer.key  level == writer.level  p == prev[level]
<1>1. /\ writer.op = "link"
      /\ next' = [next EXCEPT ![p][level] = key]
      /\ height' = height /\ max_height' = max_height /\ prev' = prev /\ reader' = reader
      /\ IF level = 0 THEN Witness(key, TRUE) ELSE membership' = membership
  BY DEF LinkLevel
<1>2. \/ /\ level + 1 < height[key]
         /\ writer' = [writer EXCEPT !.op = "prepare", !.level = level + 1]
         /\ members' = members
      \/ writer' = Idle /\ members' = members \cup {key}
  BY DEF LinkLevel
<1>3. /\ key \in Keys /\ key \notin members /\ p \in Linked(level) \cup {Head}
      /\ p \in Nodes /\ p # key /\ p < key /\ level \in Levels /\ level \in Nat
      /\ next[p][level] = Null \/ next[p][level] >= key
      /\ Chain(next, level, Linked(level))
      /\ height[key] \in 1 .. max_height /\ level < height[key]
      /\ \A l \in Levels : l >= level => key \notin Linked(l)
  BY <1>1, AtLevel, ListType
<1>4. \A l \in Levels :
          Linked(l)' = IF l = level THEN Linked(l) \cup {key} ELSE Linked(l)
  BY LinkedStep
<1>5. /\ next'[p][level] = key
      /\ \A l \in Levels : \A x \in Nodes : x # p \/ l # level => next'[x][l] = next[x][l]
      /\ next' \in [Nodes -> [Levels -> Keys \cup {Null, Garbage}]]
  BY <1>1, <1>3 DEF ListInv, TypeOK
<1>6. \A l \in Levels : Linked(l) \cup {Head} \subseteq Nodes
  BY NodesAreNumbers, ListType
<1>7. TypeOK'
  <2>1. writer' \in [op : {"idle", "prepare", "link", "unlink"}, key : Nodes, level : Levels]
    <3>1. CASE writer' = Idle
      BY <3>1, NodesAreNumbers, ListType DEF Idle
    <3>2. CASE level + 1 < height[key] /\ writer' = [writer EXCEPT !.op = "prepare", !.level = level + 1]
      <4>1. level + 1 \in Levels
        BY <1>3, <3>2, ListType
      <4> QED BY <3>2, <4>1 DEF ListInv, TypeOK
    <3> QED BY <1>2, <3>1, <3>2
  <2>2. members' \subseteq Keys
    BY <1>2, <1>3 DEF ListInv, TypeOK
  <2>3. membership' \in [Readers -> SUBSET BOOLEAN]
    <3>1. membership \in [Readers -> SUBSET BOOLEAN]
      BY DEF ListInv, TypeOK
    <3>2. Witness(key, TRUE) => membership' \in [Readers -> SUBSET BOOLEAN]
      BY <3>1 DEF Witness
    <3> QED BY <1>1, <3>1, <3>2
  <2> QED BY <1>1, <1>5, <2>1, <2>2, <2>3 DEF ListInv, TypeOK
<1>8. ASSUME NEW l \in Levels PROVE Chain(next, l, Linked(l))'
  <2>1. CASE l = level
    <3>1. next'[key][l] = next[p][l]
      BY <1>1, <1>3, <1>5, <2>1, NodesAreNumbers DEF ListInv, WriterInv
    <3>2. \A x \in Linked(l) \cup {Head} : x # p => next'[x][l] = next[x][l]
      BY <1>5, <1>6
    <3>3. Chain(next', l, Linked(l) \cup {key})
      BY <1>3, <1>5, <2>1, <3>1, <3>2, ChainInsert
    <3> QED BY <1>4, <2>1, <3>3
  <2>2. CASE l # level
    <3>1. \A x \in Linked(l) \cup {Head} : next'[x][l] = next[x][l]
      BY <1>5, <1>6, <2>2
    <3> QED BY <1>4, <2>2, <3>1, ChainFrame DEF ListInv
  <2> QED BY <2>1, <2>2
<1>9. \A k \in members' : height'[k] \in 1 .. max_height'
  BY <1>1, <1>2, <1>3 DEF ListInv
<1>10. WriterInv'
  <2>1. CASE writer' = Idle
    BY <2>1 DEF WriterInv, Idle
  <2>2. CASE /\ level + 1 < height[key]
             /\ writer' = [writer EXCEPT !.op = "prepare", !.level = level + 1]
             /\ members' = members
    <3>1. writer'.op = "prepare" /\ writer'.key = key /\ writer'.level = level + 1
      BY <2>2 DEF ListInv, TypeOK
    <3>2. ASSUME NEW l \in Levels, l >= level + 1 PROVE LastBefore(prev[l], key, l)'
      <4>1. l >= level /\ l # level
        BY <1>3, <3>2, ListType
      <4>2. LastBefore(prev[l], key, l)
        BY <1>1, <4>1 DEF ListInv, WriterInv
      <4>3. prev[l] \in Nodes
        BY <4>2, <1>6 DEF LastBefore
      <4> QED BY <1>1, <1>4, <1>5, <3>1, <4>1, <4>2, <4>3 DEF LastBefore
    <3> QED BY <1>1, <1>3, <2>2, <3>1, <3>2 DEF WriterInv
  <2> QED BY <1>2, <2>1, <2>2
<1>11. (\A r \in Readers : SearchInv(r)') /\ SearchIsLinearizable'
  <2>1. writer'.op # "unlink"
    <3>1. [writer EXCEPT !.op = "prepare", !.level = level + 1].op = "prepare"
      BY DEF ListInv, TypeOK
    <3>2. Idle.op = "idle"
      BY DEF Idle
    <3> QED BY <1>2, <3>1, <3>2
  <2>2. \A l \in Levels : Linked(l) \subseteq Linked(l)'
    BY <1>4
  <2>3. ASSUME NEW r \in Readers, reader[r].state # "search"
        PROVE  membership'[r] = membership[r]
    BY <1>1, <2>3 DEF Witness, ListInv, TypeOK
  <2>4. ASSUME NEW r \in Readers, reader[r].state = "search"
        PROVE  /\ membership[r] \subseteq membership'[r]
               /\ \/ reader[r].key \in Linked(0)' <=> reader[r].key \in Linked(0)
                  \/ reader[r].key \in Linked(0)' /\ TRUE \in membership'[r]
    <3>1. CASE level = 0 /\ reader[r].key = key
      <4>2. reader[r].key \in Linked(0)'
        BY <1>4, <3>1, ListType
      <4>3. membership'[r] = membership[r] \cup {TRUE}
        BY <1>1, <2>4, <3>1 DEF Witness
      <4> QED BY <4>2, <4>3
    <3>2. CASE ~(level = 0 /\ reader[r].key = key)
      <4>1. reader[r].key \in Linked(0)' <=> reader[r].key \in Linked(0)
        BY <1>4, <3>2, ListType
      <4>2. membership'[r] = membership[r]
        BY <1>1, <3>2 DEF Witness, ListInv, TypeOK
      <4> QED BY <4>1, <4>2
    <3> QED BY <3>1, <3>2
  <2> QED BY <1>1, <2>1, <2>2, <2>3, <2>4, SearchesKeep
<1> QED BY <1>7, <1>8, <1>9, <1>10, <1>11 DEF ListInv

LEMMA RemoveStep ==
    ASSUME ListInv, NEW key \in Keys, Remove(key)
    PROVE  ListInv'
<1>1. /\ writer.op = "idle" /\ key \in members
      /\ \A r \in Readers : reader[r].state # "search"
      /\ prev' = FindPrev(key)
      /\ writer' = [op |-> "unlink", key |-> key, level |-> 0]
      /\ next' = next /\ height' = height /\ max_height' = max_height
      /\ members' = members /\ reader' = reader /\ membership' = membership
  BY DEF Remove
<1>2. \A l \in Levels : Linked(l)' = Linked(l)
  BY LinkedFrame DEF ListInv
<1>3. TypeOK'
  <2>1. writer' \in [op : {"idle", "prepare", "link", "unlink"}, key : Nodes, level : Levels]
    BY <1>1, ListType, NodesAreNumbers
  <2>2. prev' \in [Levels -> Nodes]
    BY <1>1, PrevIsRight
  <2> QED BY <1>1, <2>1, <2>2 DEF ListInv, TypeOK
<1>4. \A l \in Levels : Chain(next, l, Linked(l))'
  BY <1>1, <1>2 DEF ListInv
<1>5. WriterInv'
  <2>1. height[key] \in 1 .. max_height /\ 0 < height[key]
    <3>1. height[key] \in 1 .. max_height
      BY <1>1 DEF ListInv
    <3> QED BY <3>1, ListType
  <2>2. ASSUME NEW l \in Levels PROVE LastBefore(prev[l], key, l)'
    <3>1. LastBefore(FindPrev(key)[l], key, l)
      BY <1>1, PrevIsRight
    <3> QED BY <1>1, <1>2, <3>1 DEF LastBefore
  <2> QED BY <1>1, <2>1, <2>2 DEF WriterInv
<1>6. (\A r \in Readers : SearchInv(r)') /\ SearchIsLinearizable'
  BY <1>1 DEF ListInv, SearchInv, SearchIsLinearizable
<1> QED BY <1>1, <1>3, <1>4, <1>5, <1>6 DEF ListInv

LEMMA UnlinkStep ==
    ASSUME ListInv, UnlinkLevel
    PROVE  ListInv'
<1> DEFINE key == writer.key  level == writer.level  p == prev[level]
<1>1. /\ writer.op = "unlink"
      /\ next' = [next EXCEPT ![p][level] = next[key][level], ![key][level] = Null]
      /\ height' = height /\ max_height' = max_height /\ prev' = prev /\ reader' = reader
      /\ IF level = 0 THEN Witness(key, FALSE) ELSE membership' = membership
  BY DEF UnlinkLevel
<1>2. \/ /\ level + 1 < height[key]
         /\ writer' = [writer EXCEPT !.level = level + 1]
         /\ members' = members
      \/ writer' = Idle /\ members' = members \ {key}
  BY DEF UnlinkLevel
<1>3. /\ key \in Keys /\ key \in members /\ p \in Linked(level) \cup {Head}
      /\ p \in Nodes /\ p # key /\ p < key /\ level \in Levels /\ level \in Nat
      /\ next[p][level] = Null \/ next[p][level] >= key
      /\ Chain(next, level, Linked(level))
      /\ height[key] \in 1 .. max_height /\ level < height[key]
      /\ key \in Linked(level)
  <2>1. level \in Levels /\ level \in Nat
    BY ListType
  <2> QED BY <1>1, <2>1, AtLevel
<1>4. \A l \in Levels :
          Linked(l)' = IF l = level THEN Linked(l) \ {key} ELSE Linked(l)
  BY LinkedStep
<1>5. /\ next'[p][level] = next[key][level]
      /\ \A l \in Levels : \A x \in Nodes :
            (x # p /\ x # key) \/ l # level => next'[x][l] = next[x][l]
      /\ next' \in [Nodes -> [Levels -> Keys \cup {Null, Garbage}]]
  <2>1. next \in [Nodes -> [Levels -> Keys \cup {Null, Garbage}]] /\ key \in Nodes
    BY <1>3, NodesAreNumbers DEF ListInv, TypeOK
  <2> DEFINE nx == [next EXCEPT ![p][level] = next[key][level]]
  <2>2. next' = [nx EXCEPT ![key][level] = Null]
    BY <1>1
  <2>3. /\ nx \in [Nodes -> [Levels -> Keys \cup {Null, Garbage}]]
        /\ nx[p][level] = next[key][level]
        /\ \A l \in Levels : \A x \in Nodes : x # p \/ l # level => nx[x][l] = next[x][l]
    BY <1>3, <2>1
  <2> HIDE DEF nx
  <2> QED BY <1>3, <2>1, <2>2, <2>3
<1>6. \A l \in Levels : Linked(l) \cup {Head} \subseteq Nodes
  BY NodesAreNumbers, ListType
<1>7. TypeOK'
  <2>1. writer' \in [op : {"idle", "prepare", "link", "unlink"}, key : Nodes, level : Levels]
    <3>1. CASE writer' = Idle
      BY <3>1, NodesAreNumbers, ListType DEF Idle
    <3>2. CASE level + 1 < height[key] /\ writer' = [writer EXCEPT !.level = level + 1]
      <4>1. level + 1 \in Levels
        BY <1>3, <3>2, ListType
      <4> QED BY <3>2, <4>1 DEF ListInv, TypeOK
    <3> QED BY <1>2, <3>1, <3>2
  <2>2. members' \subseteq Keys
    BY <1>2 DEF ListInv, TypeOK
  <2>3. membership' \in [Readers -> SUBSET BOOLEAN]
    <3>1. membership \in [Readers -> SUBSET BOOLEAN]
      BY DEF ListInv, TypeOK
    <3>2. Witness(key, FALSE) => membership' \in [Readers -> SUBSET BOOLEAN]
      BY <3>1 DEF Witness
    <3> QED BY <1>1, <3>1, <3>2
  <2> QED BY <1>1, <1>5, <2>1, <2>2, <2>3 DEF ListInv, TypeOK
<1>8. ASSUME NEW l \in Levels PROVE Chain(next, l, Linked(l))'
  <2>1. CASE l = level
    <3>1. \A x \in (Linked(l) \cup {Head}) \ {key} : x # p => next'[x][l] = next[x][l]
      BY <1>5, <1>6
    <3>2. Chain(next', l, Linked(l) \ {key})
      BY <1>3, <1>5, <2>1, <3>1, ChainRemove
    <3> QED BY <1>4, <2>1, <3>2
  <2>2. CASE l # level
    <3>1. \A x \in Linked(l) \cup {Head} : next'[x][l] = next[x][l]
      BY <1>5, <1>6, <2>2
    <3> QED BY <1>4, <2>2, <3>1, ChainFrame DEF ListInv
  <2> QED BY <2>1, <2>2
<1>9. \A k \in members' : height'[k] \in 1 .. max_height'
  BY <1>1, <1>2 DEF ListInv
<1>10. WriterInv'
  <2>1. CASE writer' = Idle
    BY <2>1 DEF WriterInv, Idle
  <2>2. CASE /\ level + 1 < height[key]
             /\ writer' = [writer EXCEPT !.level = level + 1]
             /\ members' = members
    <3>1. writer'.op = "unlink" /\ writer'.key = key /\ writer'.level = level + 1
      BY <1>1, <2>2 DEF ListInv, TypeOK
    <3>2. ASSUME NEW l \in Levels, l >= level + 1 PROVE LastBefore(prev[l], key, l)'
      <4>1. l >= level /\ l # level
        BY <1>3, <3>2, ListType
      <4>2. LastBefore(prev[l], key, l)
        BY <1>1, <4>1 DEF ListInv, WriterInv
      <4>3. prev[l] \in Nodes
        BY <4>2, <1>6 DEF LastBefore
      <4> QED BY <1>1, <1>4, <1>5, <3>1, <4>1, <4>2, <4>3 DEF LastBefore
    <3> QED BY <1>1, <1>3, <2>2, <3>1, <3>2 DEF WriterInv
  <2> QED BY <1>2, <2>1, <2>2
<1>11. (\A r \in Readers : SearchInv(r)') /\ SearchIsLinearizable'
  <2>1. \A r \in Readers : reader[r].state # "search"
    BY <1>1 DEF ListInv, SearchInv
  <2>2. \A r \in Readers : membership'[r] = membership[r]
    BY <1>1, <2>1 DEF Witness, ListInv, TypeOK
  <2> QED BY <1>1, <2>1, <2>2 DEF ListInv, SearchInv, SearchIsLinearizable
<1> QED BY <1>7, <1>8, <1>9, <1>10, <1>11 DEF ListInv

-----------------------------------------------------------------------------
(* The steps of a search. *)

LEMMA SearchBegins ==
    ASSUME ListInv, NEW r \in Readers, NEW key \in Keys, NEW level \in Levels,
           Search(r, key, level)
    PROVE  ListInv'
<1>1. /\ writer.op # "unlink"
      /\ reader' = [reader EXCEPT ![r] = [state |-> "search", key |-> key, x |-> Head,
                                          level |-> level, found |-> FALSE]]
      /\ membership' = [membership EXCEPT ![r] = IF key \in OnLevel(0) THEN {TRUE} ELSE {FALSE}]
      /\ next' = next /\ height' = height /\ max_height' = max_height
      /\ members' = members /\ writer' = writer /\ prev' = prev
  BY DEF Search
<1>2. \A l \in Levels : Linked(l)' = Linked(l)
  BY LinkedFrame DEF ListInv
<1>3. TypeOK'
  <2>1. reader' \in [Readers -> [state : {"idle", "search", "done"}, key : Nodes,
                                 x : Nodes, level : Levels, found : BOOLEAN]]
    BY <1>1, NodesAreNumbers DEF ListInv, TypeOK
  <2>2. membership' \in [Readers -> SUBSET BOOLEAN]
    BY <1>1 DEF ListInv, TypeOK
  <2> QED BY <1>1, <2>1, <2>2 DEF ListInv, TypeOK
<1>4. (\A l \in Levels : Chain(next, l, Linked(l))') /\ (\A k \in members : height[k] \in 1 .. max_height)'
  BY <1>1, <1>2 DEF ListInv
<1>5. WriterInv'
  <2>1. \A l \in Levels : LastBefore(prev[l], writer.key, l) => LastBefore(prev[l], writer.key, l)'
    BY <1>1, <1>2 DEF LastBefore
  <2> QED BY <1>1, <2>1 DEF ListInv, WriterInv
<1>6. ASSUME NEW q \in Readers PROVE SearchInv(q)'
  <2>1. CASE q = r
    <3>1. OnLevel(0) = Linked(0)
      BY ChainIsLevel, ListType DEF ListInv
    <3>2. /\ reader'[q].key = key /\ reader'[q].x = Head /\ Head < key
          /\ Linked(0)' = Linked(0)
      BY <1>1, <1>2, <2>1, <3>1, ListType, NodesAreNumbers DEF ListInv, TypeOK
    <3>3. IF key \in Linked(0) THEN TRUE \in membership'[q] ELSE FALSE \in membership'[q]
      BY <1>1, <2>1, <3>1 DEF ListInv, TypeOK
    <3> QED BY <1>1, <3>2, <3>3 DEF SearchInv
  <2>2. CASE q # r
    <3>1. reader'[q] = reader[q] /\ membership'[q] = membership[q]
      BY <1>1, <2>2 DEF ListInv, TypeOK
    <3> QED BY <1>1, <1>2, <3>1, ListType DEF ListInv, SearchInv
  <2> QED BY <2>1, <2>2
<1>7. SearchIsLinearizable'
  BY <1>1 DEF ListInv, TypeOK, SearchIsLinearizable
<1> QED BY <1>3, <1>4, <1>5, <1>6, <1>7 DEF ListInv

LEMMA SearchGoesOn ==
    ASSUME ListInv, NEW r \in Readers, SearchStep(r)
    PROVE  ListInv'
<1> DEFINE key == reader[r].key  x == reader[r].x  level == reader[r].level
           n == next[x][level]
<1>1. /\ reader[r].state = "search"
      /\ next' = next /\ height' = height /\ max_height' = max_height
      /\ members' = members /\ writer' = writer /\ prev' = prev /\ membership' = membership
  BY DEF SearchStep
<1>2. \/ KeyIsAfterNode(key, n) /\ reader' = [reader EXCEPT ![r].x = n]
      \/ /\ ~KeyIsAfterNode(key, n) /\ level > 0
         /\ reader' = [reader EXCEPT ![r].level = level - 1]
      \/ /\ ~KeyIsAfterNode(key, n) /\ level = 0
         /\ reader' = [reader EXCEPT ![r].state = "done", ![r].found = (n = key)]
  BY DEF SearchStep
<1>3. \A l \in Levels : Linked(l)' = Linked(l)
  BY LinkedFrame DEF ListInv
<1>4. /\ writer.op # "unlink" /\ key \in Keys /\ x \in Linked(level) \cup {Head} /\ x < key
      /\ IF key \in Linked(0) THEN TRUE \in membership[r] ELSE FALSE \in membership[r]
      /\ level \in Levels /\ level \in Nat /\ Chain(next, level, Linked(level))
  <2>1. SearchInv(r) /\ level \in Levels /\ level \in Nat
    BY ListType DEF ListInv
  <2>2. Chain(next, level, Linked(level))
    BY <2>1 DEF ListInv
  <2> QED BY <1>1, <2>1, <2>2 DEF SearchInv
<1>5. KeyIsAfterNode(key, n) => n \in Linked(level) /\ n < key
  BY <1>4 DEF Chain, KeyIsAfterNode
<1>6. (\A l \in Levels : Chain(next, l, Linked(l))') /\ (\A k \in members : height[k] \in 1 .. max_height)'
  BY <1>1, <1>3 DEF ListInv
<1>7. WriterInv'
  <2>1. \A l \in Levels : LastBefore(prev[l], writer.key, l) => LastBefore(prev[l], writer.key, l)'
    BY <1>1, <1>3 DEF LastBefore
  <2> QED BY <1>1, <2>1 DEF ListInv, WriterInv
<1> DEFINE Reader == [state : {"idle", "search", "done"}, key : Nodes,
                      x : Nodes, level : Levels, found : BOOLEAN]
<1>8. reader \in [Readers -> Reader]
  BY DEF ListInv, TypeOK
<1>9. ASSUME NEW q \in Readers, q # r PROVE reader'[q] = reader[q]
  BY <1>2, <1>8, <1>9
<1>10. ASSUME NEW q \in Readers, q # r
       PROVE  SearchInv(q)' /\ (reader'[q].state = "done" => reader'[q].found \in membership'[q])
  <2> QED BY <1>1, <1>3, <1>9, <1>10, ListType DEF ListInv, SearchInv, SearchIsLinearizable
<1>11. /\ reader' \in [Readers -> Reader]
       /\ SearchInv(r)'
       /\ reader'[r].state = "done" => reader'[r].found \in membership'[r]
  <2>1. CASE KeyIsAfterNode(key, n) /\ reader' = [reader EXCEPT ![r].x = n]
    <3>1. n \in Nodes
      BY <1>4, <1>5, <2>1, ListType, NodesAreNumbers
    <3>2. /\ reader'[r].state = "search" /\ reader'[r].key = key /\ reader'[r].x = n
          /\ reader'[r].level = level /\ reader' \in [Readers -> Reader]
      BY <1>1, <1>8, <2>1, <3>1
    <3> QED BY <1>1, <1>3, <1>4, <1>5, <2>1, <3>2, ListType DEF SearchInv
  <2>2. CASE level > 0 /\ reader' = [reader EXCEPT ![r].level = level - 1]
    <3>1. level - 1 \in Levels /\ level - 1 < level
      BY <1>4, <2>2, ListType
    <3>2. /\ reader'[r].state = "search" /\ reader'[r].key = key /\ reader'[r].x = x
          /\ reader'[r].level = level - 1 /\ reader' \in [Readers -> Reader]
      BY <1>1, <1>8, <2>2, <3>1
    <3>3. x \in Linked(level - 1) \cup {Head}
      BY <1>4, <3>1, LevelsAreNested
    <3> QED BY <1>1, <1>3, <1>4, <3>1, <3>2, <3>3, ListType DEF SearchInv
  <2>3. CASE /\ ~KeyIsAfterNode(key, n) /\ level = 0
             /\ reader' = [reader EXCEPT ![r].state = "done", ![r].found = (n = key)]
    <3>1. /\ reader'[r].state = "done" /\ reader'[r].found = (n = key)
          /\ reader' \in [Readers -> Reader]
      <4> DEFINE found == (n = key)
      <4>1. found \in BOOLEAN
        OBVIOUS
      <4>2. reader' = [reader EXCEPT ![r].state = "done", ![r].found = found]
        BY <2>3
      <4> HIDE DEF found
      <4>3. /\ reader'[r].state = "done" /\ reader'[r].found = found
            /\ reader' \in [Readers -> Reader]
        BY <1>8, <4>1, <4>2
      <4> QED BY <4>3 DEF found
    <3>2. (n = key) <=> key \in Linked(0)
      <4>1. n = Null \/ (n \in Linked(0) /\ n \in Keys)
        BY <1>4, <2>3 DEF Chain
      <4>2. key \in Linked(0) => n # Null /\ n <= key
        BY <1>4, <2>3 DEF Chain
      <4>3. key \in Nat /\ (n # Null => n \in Nat) /\ key # Null
        BY <1>4, <4>1, NodesAreNumbers
      <4>4. n # Null => n >= key
        BY <2>3, <4>3 DEF KeyIsAfterNode
      <4> QED BY <4>1, <4>2, <4>3, <4>4
    <3>3. (n = key) \in membership[r]
      <4>1. CASE n = key
        BY <1>4, <3>2, <4>1
      <4>2. CASE n # key
        BY <1>4, <3>2, <4>2
      <4> QED BY <4>1, <4>2
    <3> QED BY <1>1, <3>1, <3>3 DEF SearchInv
  <2> QED BY <1>2, <2>1, <2>2, <2>3
<1>12. TypeOK'
  BY <1>1, <1>11 DEF ListInv, TypeOK
<1>13. (\A q \in Readers : SearchInv(q)') /\ SearchIsLinearizable'
  BY <1>10, <1>11 DEF SearchIsLinearizable
<1> QED BY <1>6, <1>7, <1>12, <1>13 DEF ListInv

-----------------------------------------------------------------------------
(* The theorems. *)

LEMMA ListInvInductive == ListInv /\ [Next]_vars => ListInv'
<1> SUFFICES ASSUME ListInv, [Next]_vars PROVE ListInv'
  OBVIOUS
<1>1. ASSUME NEW key \in Keys, NEW h \in RandomHeight, Insert(key, h) PROVE ListInv'
  BY <1>1, InsertStep
<1>2. CASE PrepareLevel
  BY <1>2, PrepareStep
<1>3. CASE LinkLevel
  BY <1>3, LinkStep
<1>4. ASSUME NEW key \in Keys, Remove(key) PROVE ListInv'
  BY <1>4, RemoveStep
<1>5. CASE UnlinkLevel
  BY <1>5, UnlinkStep
<1>6. ASSUME NEW r \in Readers, NEW key \in Keys, NEW level \in Levels, Search(r, key, level)
      PROVE  ListInv'
  BY <1>6, SearchBegins
<1>7. ASSUME NEW r \in Readers, SearchStep(r) PROVE ListInv'
  BY <1>7, SearchGoesOn
<1>8. CASE UNCHANGED vars
  <2>1. \A l : Linked(l)' = Linked(l)
    BY <1>8 DEF vars, Linked
  <2>2. TypeOK' /\ SearchIsLinearizable' /\ (\A k \in members : height[k] \in 1 .. max_height)'
    BY <1>8 DEF vars, ListInv, TypeOK, SearchIsLinearizable
  <2>3. \A l \in Levels : Chain(next, l, Linked(l))'
    BY <1>8, <2>1 DEF vars, ListInv
  <2>4. WriterInv'
    <3>1. \A l \in Levels : LastBefore(prev[l], writer.key, l) => LastBefore(prev[l], writer.key, l)'
      BY <1>8, <2>1 DEF vars, LastBefore
    <3> QED BY <1>8, <3>1 DEF vars, ListInv, WriterInv
  <2>5. \A r \in Readers : SearchInv(r)'
    BY <1>8, <2>1 DEF vars, ListInv, SearchInv
  <2> QED BY <2>2, <2>3, <2>4, <2>5 DEF ListInv
<1> QED BY <1>1, <1>2, <1>3, <1>4, <1>5, <1>6, <1>7, <1>8 DEF Next

THEOREM ListInvariant == Spec => []ListInv
BY InitListInv, ListInvInductive, PTL DEF Spec

\* The list is well typed: prev names nodes for every level an insertion or a
\* removal comes to, and no search leaves the list (skiplist.h:261-283).
THEOREM TypeCorrect == Spec => []TypeOK
<1>1. ListInv => TypeOK
  BY DEF ListInv
<1> QED BY <1>1, ListInvariant, PTL

\* Each level is sorted and ends at every moment of an insertion or a removal,
\* and no node is reached before its pointer is set (skiplist.h:387-390).
THEOREM Sorted == Spec => []LevelsAreSorted
<1>1. ASSUME ListInv PROVE LevelsAreSorted
  <2>1. \A l \in Levels : Chain(next, l, Linked(l)) /\ OnLevel(l) = Linked(l)
    BY <1>1, ChainIsLevel DEF ListInv
  <2>2. ASSUME NEW l \in Levels, NEW x \in OnLevel(l) \cup {Head}
        PROVE  next[x][l] = Null \/ next[x][l] > x
    BY <2>1 DEF Chain
  <2>3. ASSUME writer.op # "unlink", NEW l \in Levels \ {0} PROVE OnLevel(l) \subseteq OnLevel(l - 1)
    <3>1. l - 1 \in Levels /\ l - 1 < l
      BY <1>1, ListType
    <3> QED BY <1>1, <2>1, <2>3, <3>1, LevelsAreNested
  <2> QED BY <2>2, <2>3 DEF LevelsAreSorted
<1> QED BY <1>1, ListInvariant, PTL

\* Between operations each level has the members of at least its height, and
\* nothing else, after any sequence of insertions and removals
\* (skiplist.h:370-392, 453-467).
THEOREM HoldsMembers == Spec => []LevelsHoldMembers
<1>1. ASSUME ListInv PROVE LevelsHoldMembers
  <2>1. \A l \in Levels : OnLevel(l) = Linked(l)
    BY <1>1, ChainIsLevel DEF ListInv
  <2> QED BY <2>1 DEF LevelsHoldMembers, Linked
<1> QED BY <1>1, ListInvariant, PTL

\* A search beside any insertions answers what was true at some moment of it
\* (skiplist.h:395-425).
THEOREM Linearizable == Spec => []SearchIsLinearizable
<1>1. ListInv => SearchIsLinearizable
  BY DEF ListInv
<1> QED BY <1>1, ListInvariant, PTL
=============================================================================
