--------------------------- MODULE ChecksumProofs ---------------------------
(***************************************************************************)
(* Theorems about Checksum, for strings of any bytes and any length at any *)
(* address: the tables and the loops of base/crc32c.cpp compute the        *)
(* CRC-32C of the definition, and the reader accepts the checksum of what  *)
(* it reads and no other.                                                  *)
(*                                                                         *)
(* What a fold computes is found by induction on the sets of numbers it    *)
(* has come to; the register is then linear: what a zero byte makes of the *)
(* sum of two words is the sum of what it makes of each.                   *)
(***************************************************************************)
EXTENDS Checksum, SequenceTheorems, WellFoundedInduction, TLAPS

-----------------------------------------------------------------------------
(* Numbers, and induction on sets of them. *)

\* A set of naturals that is not empty has a least element.
LEMMA LeastOf ==
    ASSUME NEW S \in SUBSET Nat, S # {}
    PROVE  \E x \in S : \A y \in S : x <= y
<1>1. PICK x \in S : \A y \in S : <<y, x>> \notin OpToRel(<, Nat)
  BY NatLessThanWellFounded, WFMin, Zenon
<1>2. \A y \in S : ~(y < x)
  BY <1>1, Zenon DEF OpToRel
<1> QED BY <1>2

\* One whose elements are below n has a greatest element.
LEMMA GreatestOf ==
    ASSUME NEW S \in SUBSET Nat, S # {}, NEW n \in Nat, \A x \in S : x < n
    PROVE  \E x \in S : \A y \in S : y <= x
<1> DEFINE T == {k \in Nat : n - k \in S}
<1>1. T # {}
  <2>1. PICK x \in S : TRUE
    OBVIOUS
  <2>2. n - x \in Nat /\ n - (n - x) = x
    BY <2>1
  <2> QED BY <2>1, <2>2
<1>2. PICK k \in T : \A j \in T : k <= j
  BY <1>1, LeastOf
<1>3. \A y \in S : n - y \in T
  OBVIOUS
<1>4. ASSUME NEW y \in S PROVE y <= n - k
  <2>1. k <= n - y
    BY <1>2, <1>3
  <2> QED BY <2>1, k \in Nat
<1> QED BY <1>2, <1>4

LEMMA Induction ==
    ASSUME NEW P, 0 \in P, \A k \in P \cap Nat : k + 1 \in P
    PROVE  Nat \subseteq P
<1> SUFFICES ASSUME NEW n \in Nat \ P PROVE FALSE
  OBVIOUS
<1>1. PICK i \in Nat \ P : \A j \in Nat \ P : i <= j
  <2>1. Nat \ P \in SUBSET Nat /\ Nat \ P # {}
    OBVIOUS
  <2> QED BY <2>1, LeastOf, Zenon
<1>2. i # 0 /\ i \in Nat
  BY <1>1
<1>3. i - 1 \in Nat /\ ~(i <= i - 1) /\ (i - 1) + 1 = i
  BY <1>2
<1>4. i - 1 \in P
  BY <1>1, <1>3
<1>5. i \in P
  BY <1>3, <1>4
<1> QED BY <1>1, <1>5

\* The same up to a bound.
LEMMA InductionTo ==
    ASSUME NEW P, NEW n \in Nat, 0 \in P,
           \A k \in P : k \in Nat /\ k < n => k + 1 \in P
    PROVE  0..n \subseteq P
<1> DEFINE Q == {k \in Nat : k <= n => k \in P}
<1>1. 0 \in Q
  OBVIOUS
<1>2. \A k \in Q \cap Nat : k + 1 \in Q
  OBVIOUS
<1> HIDE DEF Q
<1>3. Nat \subseteq Q
  BY <1>1, <1>2, Induction
<1> QED BY <1>3 DEF Q

LEMMA MaxOfInitial ==
    ASSUME NEW k \in Nat, k # 0
    PROVE  Max(1..k) = k
<1>1. k \in 1..k /\ \A y \in 1..k : k >= y
  OBVIOUS
<1>2. \A x \in 1..k : (\A y \in 1..k : x >= y) => x = k
  OBVIOUS
<1> QED BY <1>1, <1>2 DEF Max

LEMMA MaxOf ==
    ASSUME NEW n \in Nat, NEW t \in SUBSET (1..n), t # {}
    PROVE  Max(t) \in t /\ \A y \in t : Max(t) >= y
<1>1. t \in SUBSET Nat /\ n + 1 \in Nat /\ \A x \in t : x < n + 1
  OBVIOUS
<1>2. PICK x \in t : \A y \in t : y <= x
  BY <1>1, GreatestOf
<1>3. \A y \in t : x >= y
  BY <1>1, <1>2
<1> QED BY <1>2, <1>3 DEF Max

-----------------------------------------------------------------------------
(* Loops. *)

\* The function that the definition of a fold chooses.
Iterates(F, b, s, g) ==
    g = [t \in SUBSET DOMAIN s |->
            IF t = {} THEN b ELSE F[<<g[t \ {Max(t)}], s[Max(t)]>>]]

\* A step from W to W, for every element of E.
Closed(F, W, E) == \A x \in W, y \in E : F[<<x, y>>] \in W

LEMMA LoopChooses ==
    ASSUME NEW F, NEW b, NEW s
    PROVE  Loop(F, b, s) = (CHOOSE g : Iterates(F, b, s, g))[DOMAIN s]
BY DEF Loop, FoldLeft, MapThenFoldSet, Iterates

\* There is such a function for every sequence.
LEMMA IteratesExists ==
    ASSUME NEW W, NEW E, NEW F, Closed(F, W, E), NEW b \in W, NEW s \in Seq(E)
    PROVE  \E g : Iterates(F, b, s, g)
<1> DEFINE Eq(m, g) ==
        /\ g \in [SUBSET (1..m) -> W]
        /\ \A t \in SUBSET (1..m) :
               g[t] = IF t = {} THEN b ELSE F[<<g[t \ {Max(t)}], s[Max(t)]>>]
<1> DEFINE P == {m \in Nat : \E g : Eq(m, g)}
<1>0. DOMAIN s = 1..Len(s) /\ Len(s) \in Nat /\ \A k \in 1..Len(s) : s[k] \in E
  OBVIOUS
<1>1. 0 \in P
  <2> DEFINE g == [t \in SUBSET (1..0) |-> b]
  <2>1. \A t \in SUBSET (1..0) : t = {}
    OBVIOUS
  <2>2. Eq(0, g)
    BY <2>1
  <2> QED BY <2>2
<1>2. ASSUME NEW m \in P, m \in Nat, m < Len(s) PROVE m + 1 \in P
  <2> HIDE DEF Eq
  <2>0. m \in Nat /\ m < Len(s) /\ m + 1 \in Nat
    BY <1>2
  <2>1. PICK g : Eq(m, g)
    BY <1>2
  <2>2. /\ g \in [SUBSET (1..m) -> W]
        /\ \A t \in SUBSET (1..m) :
               g[t] = IF t = {} THEN b ELSE F[<<g[t \ {Max(t)}], s[Max(t)]>>]
    BY <2>1 DEF Eq
  <2> DEFINE h == [t \in SUBSET (1..(m + 1)) |->
                      IF m + 1 \in t THEN F[<<g[t \ {m + 1}], s[m + 1]>>] ELSE g[t]]
  <2>3. \A t \in SUBSET (1..(m + 1)) : m + 1 \in t =>
            /\ Max(t) = m + 1 /\ t # {} /\ t \ {m + 1} \in SUBSET (1..m)
            /\ t \ {m + 1} \in SUBSET (1..(m + 1)) /\ m + 1 \notin t \ {m + 1}
    <3> SUFFICES ASSUME NEW t \in SUBSET (1..(m + 1)), m + 1 \in t
                 PROVE  Max(t) = m + 1 /\ t \ {m + 1} \in SUBSET (1..m)
      OBVIOUS
    <3>2. Max(t) \in t /\ \A y \in t : Max(t) >= y
      BY <2>0, MaxOf
    <3>3. Max(t) \in 1..(m + 1) /\ Max(t) >= m + 1
      BY <3>2
    <3>4. Max(t) = m + 1
      BY <2>0, <3>3
    <3>5. \A y \in t \ {m + 1} : y \in 1..m
      BY <2>0
    <3> QED BY <3>4, <3>5
  <2>4. \A t \in SUBSET (1..(m + 1)) : m + 1 \notin t => 
            /\ t \in SUBSET (1..m) /\ m + 1 \notin t \ {Max(t)}
            /\ t \ {Max(t)} \in SUBSET (1..m) /\ t \ {Max(t)} \in SUBSET (1..(m + 1))
    <3>1. \A y \in 1..(m + 1) : y # m + 1 => y \in 1..m
      BY <2>0
    <3> QED BY <3>1
  <2>5. h \in [SUBSET (1..(m + 1)) -> W]
    <3> SUFFICES ASSUME NEW t \in SUBSET (1..(m + 1)) PROVE h[t] \in W
      OBVIOUS
    <3>1. CASE m + 1 \in t
      <4>1. g[t \ {m + 1}] \in W
        BY <2>2, <2>3, <3>1
      <4>2. s[m + 1] \in E
        BY <1>0, <2>0
      <4>3. h[t] = F[<<g[t \ {m + 1}], s[m + 1]>>]
        BY <3>1
      <4> HIDE DEF h
      <4> QED BY <4>1, <4>2, <4>3 DEF Closed
    <3>2. CASE m + 1 \notin t
      BY <2>2, <2>4, <3>2
    <3> QED BY <3>1, <3>2
  <2>6. ASSUME NEW t \in SUBSET (1..(m + 1))
        PROVE  h[t] = IF t = {} THEN b ELSE F[<<h[t \ {Max(t)}], s[Max(t)]>>]
    <3>1. CASE m + 1 \in t
      <4>1. h[t] = F[<<g[t \ {m + 1}], s[m + 1]>>]
        BY <3>1
      <4>2. h[t \ {m + 1}] = g[t \ {m + 1}]
        BY <2>3, <3>1
      <4> HIDE DEF h
      <4> QED BY <4>1, <4>2, <2>3, <3>1
    <3>2. CASE m + 1 \notin t
      <4>1. h[t] = g[t]
        BY <3>2
      <4>2. h[t \ {Max(t)}] = g[t \ {Max(t)}]
        BY <2>4, <3>2
      <4>3. g[t] = IF t = {} THEN b ELSE F[<<g[t \ {Max(t)}], s[Max(t)]>>]
        BY <2>2, <2>4, <3>2
      <4> HIDE DEF h
      <4> QED BY <4>1, <4>2, <4>3
    <3> QED BY <3>1, <3>2
  <2> HIDE DEF h
  <2>7. Eq(m + 1, h)
    BY <2>5, <2>6 DEF Eq
  <2> QED BY <2>0, <2>7
<1> HIDE DEF P
<1>3. Len(s) \in P
  <2>1. 0..Len(s) \subseteq P
    BY <1>0, <1>1, <1>2, InductionTo
  <2> QED BY <2>1, <1>0
<1> HIDE DEF Eq
<1>4. PICK g : Eq(Len(s), g)
  BY <1>3 DEF P
<1>5. Iterates(F, b, s, g)
  BY <1>4, <1>0 DEF Eq, Iterates
<1> QED BY <1>5

\* A loop's values, one after another.
Passes(F, b, s, p) ==
    /\ p[0] = b
    /\ \A k \in 1..Len(s) : p[k] = F[<<p[k - 1], s[k]>>]

LEMMA LoopRuns ==
    ASSUME NEW W, NEW E, NEW F, Closed(F, W, E), NEW b \in W, NEW s \in Seq(E)
    PROVE  \E p \in [0..Len(s) -> W] : Passes(F, b, s, p) /\ p[Len(s)] = Loop(F, b, s)
<1>0. DOMAIN s = 1..Len(s) /\ Len(s) \in Nat /\ \A k \in 1..Len(s) : s[k] \in E
  OBVIOUS
<1> DEFINE g == CHOOSE h : Iterates(F, b, s, h)
<1>1. Iterates(F, b, s, g)
  BY IteratesExists
<1>2. Loop(F, b, s) = g[1..Len(s)]
  BY LoopChooses, <1>0
<1> HIDE DEF g
<1>3. \A t \in SUBSET (1..Len(s)) :
          g[t] = IF t = {} THEN b ELSE F[<<g[t \ {Max(t)}], s[Max(t)]>>]
  BY <1>1, <1>0 DEF Iterates
<1> DEFINE p == [k \in 0..Len(s) |-> g[1..k]]
<1>4. p[0] = b
  <2>1. 1..0 = {} /\ {} \in SUBSET (1..Len(s)) /\ 0 \in 0..Len(s)
    BY <1>0
  <2> QED BY <2>1, <1>3
<1>5. ASSUME NEW k \in 1..Len(s) PROVE p[k] = F[<<p[k - 1], s[k]>>]
  <2>1. k \in Nat /\ k # 0 /\ k \in 0..Len(s) /\ k - 1 \in 0..Len(s)
    BY <1>0
  <2>2. Max(1..k) = k
    BY <2>1, MaxOfInitial
  <2>3. 1..k \in SUBSET (1..Len(s)) /\ 1..k # {} /\ (1..k) \ {k} = 1..(k - 1)
    <3>1. \A y \in 1..k : y \in 1..Len(s)
      BY <1>0, <2>1
    <3>2. k \in 1..k /\ \A y : y \in 1..k /\ y # k <=> y \in 1..(k - 1)
      BY <2>1
    <3> QED BY <3>1, <3>2
  <2>4. g[1..k] = F[<<g[1..(k - 1)], s[k]>>]
    BY <2>2, <2>3, <1>3
  <2> QED BY <2>1, <2>4
<1>6. p \in [0..Len(s) -> W]
  <2> DEFINE Q == {k \in Nat : k <= Len(s) => p[k] \in W}
  <2>1. 0 \in Q
    BY <1>4
  <2>2. \A k \in Q \cap Nat : k + 1 \in Q
    <3> SUFFICES ASSUME NEW k \in Q, k \in Nat, k + 1 <= Len(s) PROVE p[k + 1] \in W
      OBVIOUS
    <3>1. k <= Len(s) /\ k + 1 \in 1..Len(s) /\ (k + 1) - 1 = k
      BY <1>0
    <3>2. p[k + 1] = F[<<p[k], s[k + 1]>>]
      BY <3>1, <1>5
    <3>3. p[k] \in W /\ s[k + 1] \in E
      BY <3>1, <1>0
    <3> HIDE DEF p
    <3> QED BY <3>2, <3>3 DEF Closed
  <2> HIDE DEF Q
  <2>3. Nat \subseteq Q
    BY <2>1, <2>2, Induction
  <2> QED
    <3>1. \A k \in 0..Len(s) : k \in Q /\ k <= Len(s)
      BY <2>3, <1>0
    <3> HIDE DEF p
    <3>2. \A k \in 0..Len(s) : p[k] \in W
      BY <3>1 DEF Q
    <3> QED BY <3>2 DEF p
<1>7. p[Len(s)] = Loop(F, b, s)
  BY <1>2, <1>0
<1> HIDE DEF p
<1>8. Passes(F, b, s, p)
  BY <1>4, <1>5 DEF Passes
<1> QED BY <1>6, <1>7, <1>8

\* And they are the only ones.
LEMMA LoopIs ==
    ASSUME NEW W, NEW E, NEW F, Closed(F, W, E), NEW b \in W, NEW s \in Seq(E),
           NEW p, Passes(F, b, s, p)
    PROVE  Loop(F, b, s) = p[Len(s)]
<1>1. PICK q \in [0..Len(s) -> W] : Passes(F, b, s, q) /\ q[Len(s)] = Loop(F, b, s)
  BY LoopRuns
<1>0. Len(s) \in Nat
  OBVIOUS
<1> DEFINE P == {k \in Nat : k <= Len(s) => p[k] = q[k]}
<1>2. 0 \in P
  BY <1>1 DEF Passes
<1>3. \A k \in P \cap Nat : k + 1 \in P
  <2> SUFFICES ASSUME NEW k \in P, k \in Nat, k + 1 <= Len(s) PROVE p[k + 1] = q[k + 1]
    OBVIOUS
  <2>1. k + 1 \in 1..Len(s) /\ (k + 1) - 1 = k /\ k <= Len(s)
    BY <1>0
  <2>2. p[k] = q[k]
    BY <2>1
  <2>3. p[k + 1] = F[<<p[k], s[k + 1]>>] /\ q[k + 1] = F[<<q[k], s[k + 1]>>]
    BY <1>1, <2>1 DEF Passes
  <2> QED BY <2>2, <2>3
<1> HIDE DEF P
<1>4. Nat \subseteq P
  BY <1>2, <1>3, Induction
<1>5. p[Len(s)] = q[Len(s)]
  BY <1>4, <1>0 DEF P
<1> QED BY <1>1, <1>5

LEMMA LoopType ==
    ASSUME NEW W, NEW E, NEW F, Closed(F, W, E), NEW b \in W, NEW s \in Seq(E)
    PROVE  Loop(F, b, s) \in W
<1>1. PICK p \in [0..Len(s) -> W] : p[Len(s)] = Loop(F, b, s)
  BY LoopRuns
<1> QED BY <1>1

\* A loop over s, cut in two.
LEMMA LoopInTwo ==
    ASSUME NEW W, NEW E, NEW F, Closed(F, W, E), NEW b \in W, NEW s \in Seq(E),
           NEW t \in Seq(E)
    PROVE  Loop(F, b, s \o t) = Loop(F, Loop(F, b, s), t)
<1> DEFINE u == s \o t
           m == Len(s)
<1>0. /\ u \in Seq(E) /\ Len(u) = m + Len(t) /\ m \in Nat /\ Len(t) \in Nat
      /\ \A k \in 1..m : u[k] = s[k]
      /\ \A k \in 1..Len(t) : u[m + k] = t[k]
  OBVIOUS
<1> HIDE DEF u, m
<1>1. PICK p \in [0..Len(u) -> W] : Passes(F, b, u, p) /\ p[Len(u)] = Loop(F, b, u)
  BY <1>0, LoopRuns
<1>2. Passes(F, b, s, p)
  <2>1. \A k \in 1..m : k \in 1..Len(u)
    BY <1>0
  <2> QED BY <2>1, <1>0, <1>1 DEF Passes, m
<1>3. Loop(F, b, s) = p[m]
  BY <1>2, LoopIs DEF m
<1>4. p[m] \in W
  <2>1. m \in 0..Len(u)
    BY <1>0
  <2> QED BY <2>1
<1> DEFINE q == [k \in 0..Len(t) |-> p[m + k]]
<1>5. q[0] = p[m]
  BY <1>0
<1>6. ASSUME NEW k \in 1..Len(t) PROVE q[k] = F[<<q[k - 1], t[k]>>]
  <2>1. m + k \in 1..Len(u) /\ (m + k) - 1 = m + (k - 1) /\ k - 1 \in 0..Len(t) /\ k \in 0..Len(t)
    BY <1>0
  <2>2. p[m + k] = F[<<p[m + (k - 1)], u[m + k]>>]
    BY <2>1, <1>1 DEF Passes
  <2> QED BY <2>1, <2>2, <1>0
<1>7. q[Len(t)] = p[Len(u)]
  BY <1>0
<1> HIDE DEF q
<1>8. Passes(F, p[m], t, q)
  BY <1>5, <1>6 DEF Passes
<1>9. Loop(F, p[m], t) = q[Len(t)]
  BY <1>4, <1>8, LoopIs
<1> QED BY <1>1, <1>3, <1>7, <1>9 DEF u

-----------------------------------------------------------------------------
(* Words as sets of bits. *)

LEMMA XorIs == \A v, w, i : i \in Xor(v, w) <=> ~(i \in v <=> i \in w)
BY DEF Xor

LEMMA XorType == \A D : \A v \in SUBSET D, w \in SUBSET D : Xor(v, w) \in SUBSET D
BY DEF Xor

LEMMA XorEmpty == \A w : Xor(w, {}) = w /\ Xor({}, w) = w
BY DEF Xor

LEMMA XorTwice == \A v, w : Xor(Xor(v, w), w) = v
BY DEF Xor

\* Xor is commutative and associative: two pairs may be exchanged.
LEMMA XorPairs == \A a, b, c, d : Xor(Xor(a, b), Xor(c, d)) = Xor(Xor(a, c), Xor(b, d))
<1> SUFFICES ASSUME NEW a, NEW b, NEW c, NEW d
             PROVE  Xor(Xor(a, b), Xor(c, d)) = Xor(Xor(a, c), Xor(b, d))
  OBVIOUS
<1>1. \A i : i \in Xor(Xor(a, b), Xor(c, d)) <=> i \in Xor(Xor(a, c), Xor(b, d))
  BY XorIs
<1> QED BY <1>1

LEMMA XorAssociates == \A a, b, c : Xor(Xor(a, b), c) = Xor(a, Xor(b, c))
<1> SUFFICES ASSUME NEW a, NEW b, NEW c
             PROVE  Xor(Xor(a, b), c) = Xor(a, Xor(b, c))
  OBVIOUS
<1>1. \A i : i \in Xor(Xor(a, b), c) <=> i \in Xor(a, Xor(b, c))
  BY XorIs
<1> QED BY <1>1

LEMMA XorCancels == \A a, b, c : Xor(a, c) = Xor(b, c) => a = b
<1> SUFFICES ASSUME NEW a, NEW b, NEW c, Xor(a, c) = Xor(b, c) PROVE a = b
  OBVIOUS
<1> QED BY XorTwice

LEMMA XorCommutes == \A a, b : Xor(a, b) = Xor(b, a)
BY DEF Xor

\* The bits of words that are shifted.
LEMMA RightIs ==
    ASSUME NEW w \in Registers, NEW n \in Nat
    PROVE  /\ Right(w, n) \in Registers
           /\ \A i : i \in Right(w, n) <=> i \in Nat /\ i + n \in w
<1>1. ASSUME NEW i, i \in Right(w, n) PROVE i \in Ones /\ i + n \in w
  <2>1. PICK j \in w : j >= n /\ i = j - n
    BY <1>1 DEF Right
  <2>2. j \in Nat /\ j <= 31
    BY DEF Registers, Ones
  <2>3. i + n = j
    BY <2>1, <2>2
  <2> QED BY <2>1, <2>2, <2>3 DEF Ones
<1>2. ASSUME NEW i, i \in Nat, i + n \in w PROVE i \in Right(w, n)
  <2>1. i + n >= n /\ (i + n) - n = i
    BY <1>2
  <2> QED BY <1>2, <2>1 DEF Right
<1> QED BY <1>1, <1>2 DEF Registers, Ones

LEMMA RightOfXor ==
    ASSUME NEW v \in Registers, NEW w \in Registers, NEW n \in Nat
    PROVE  Right(Xor(v, w), n) = Xor(Right(v, n), Right(w, n))
<1>1. Xor(v, w) \in Registers
  BY XorType DEF Registers
<1>2. \A i : i \in Right(Xor(v, w), n) <=> i \in Xor(Right(v, n), Right(w, n))
  BY <1>1, RightIs, XorIs
<1> QED BY <1>2

LEMMA RightTwice ==
    ASSUME NEW w \in Registers, NEW m \in Nat, NEW n \in Nat
    PROVE  Right(Right(w, m), n) = Right(w, m + n)
<1>1. Right(w, m) \in Registers /\ m + n \in Nat
  BY RightIs
<1>2. \A i : i \in Right(Right(w, m), n) <=> i \in Nat /\ i + n \in Right(w, m)
  BY <1>1, RightIs
<1>3. \A i : i \in Right(w, m + n) <=> i \in Nat /\ i + (m + n) \in w
  BY <1>1, RightIs
<1>4. \A i \in Nat : i + n \in Right(w, m) <=> i + n \in Nat /\ (i + n) + m \in w
  BY RightIs
<1>5. \A i \in Nat : i + n \in Nat /\ (i + n) + m = i + (m + n)
  OBVIOUS
<1>6. \A i : i \in Right(Right(w, m), n) <=> i \in Right(w, m + n)
  BY <1>2, <1>3, <1>4, <1>5
<1> QED BY <1>6

-----------------------------------------------------------------------------
(* A zero bit, and a zero byte. *)

LEMMA PolynomialIs == Polynomial \in Registers /\ 31 \in Polynomial
<1>1. \A e \in Generator \ {32} : e \in Ones
  BY DEF Generator, Ones
<1>2. \A e \in Ones : 31 - e \in Ones
  BY DEF Ones
<1>3. 0 \in Generator \ {32} /\ 31 - 0 = 31
  BY DEF Generator
<1> QED BY <1>1, <1>2, <1>3 DEF Polynomial, Registers

LEMMA ZeroBitType == \A w \in Registers : ZeroBit(w) \in Registers
<1> SUFFICES ASSUME NEW w \in Registers PROVE ZeroBit(w) \in Registers
  OBVIOUS
<1>1. Right(w, 1) \in Registers
  BY RightIs
<1>2. Xor(Right(w, 1), Polynomial) \in Registers
  BY <1>1, PolynomialIs, XorType DEF Registers
<1> QED BY <1>1, <1>2 DEF ZeroBit

LEMMA ZeroBitLinear ==
    \A v \in Registers, w \in Registers : ZeroBit(Xor(v, w)) = Xor(ZeroBit(v), ZeroBit(w))
<1> SUFFICES ASSUME NEW v \in Registers, NEW w \in Registers
             PROVE  ZeroBit(Xor(v, w)) = Xor(ZeroBit(v), ZeroBit(w))
  OBVIOUS
<1>1. Right(Xor(v, w), 1) = Xor(Right(v, 1), Right(w, 1))
  BY RightOfXor
<1>2. 0 \in Xor(v, w) <=> ~(0 \in v <=> 0 \in w)
  BY XorIs
<1> DEFINE a == Right(v, 1)
           b == Right(w, 1)
<1> HIDE DEF a, b
<1>3. /\ Xor(Xor(a, Polynomial), b) = Xor(Xor(a, b), Polynomial)
      /\ Xor(a, Xor(b, Polynomial)) = Xor(Xor(a, b), Polynomial)
      /\ Xor(Xor(a, Polynomial), Xor(b, Polynomial)) = Xor(a, b)
  BY DEF Xor
<1>4. ZeroBit(v) = IF 0 \in v THEN Xor(a, Polynomial) ELSE a
  BY DEF a, ZeroBit
<1>5. ZeroBit(w) = IF 0 \in w THEN Xor(b, Polynomial) ELSE b
  BY DEF b, ZeroBit
<1>6. ZeroBit(Xor(v, w)) = IF 0 \in Xor(v, w) THEN Xor(Xor(a, b), Polynomial) ELSE Xor(a, b)
  BY <1>1 DEF a, b, ZeroBit
<1> QED BY <1>2, <1>3, <1>4, <1>5, <1>6

\* Bit 31 says which of the two a word was.
LEMMA ZeroBitInjective ==
    \A v \in Registers, w \in Registers : ZeroBit(v) = ZeroBit(w) => v = w
<1> SUFFICES ASSUME NEW v \in Registers, NEW w \in Registers, ZeroBit(v) = ZeroBit(w)
             PROVE  v = w
  OBVIOUS
<1>1. ASSUME NEW u \in Registers PROVE 31 \in ZeroBit(u) <=> 0 \in u
  <2>1. 31 \notin Right(u, 1)
    <3>1. 31 + 1 \notin u
      BY DEF Registers, Ones
    <3> QED BY <3>1, RightIs
  <2> QED BY <2>1, XorIs, PolynomialIs DEF ZeroBit
<1>2. 0 \in v <=> 0 \in w
  BY <1>1
<1>3. Right(v, 1) = Right(w, 1)
  BY <1>2, XorCancels DEF ZeroBit
<1>4. ASSUME NEW i \in Ones PROVE i \in v <=> i \in w
  <2>1. CASE i = 0
    BY <1>2, <2>1
  <2>2. CASE i # 0
    <3>1. i - 1 \in Nat /\ (i - 1) + 1 = i
      BY <2>2 DEF Ones
    <3>2. \A u \in Registers : i - 1 \in Right(u, 1) <=> i \in u
      BY <3>1, RightIs
    <3> QED BY <3>2, <1>3
  <2> QED BY <2>1, <2>2
<1> QED BY <1>4 DEF Registers

LEMMA ZeroByteIs ==
    ASSUME NEW w \in Registers
    PROVE  ZeroByte(w) =
               ZeroBit(ZeroBit(ZeroBit(ZeroBit(ZeroBit(ZeroBit(ZeroBit(ZeroBit(w))))))))
<1> DEFINE F == [x \in Registers \X (1..8) |-> ZeroBit(x[1])]
<1>1. \A v \in Registers, i \in 1..8 : F[<<v, i>>] = ZeroBit(v)
  OBVIOUS
<1>2. Times(8) \in Seq(1..8) /\ Len(Times(8)) = 8 /\ \A i \in 1..8 : Times(8)[i] \in 1..8
  BY DEF Times
<1>3. ZeroByte(w) = Loop(F, w, Times(8))
  BY DEF ZeroByte
<1> HIDE DEF F
<1>4. Closed(F, Registers, 1..8)
  BY <1>1, ZeroBitType DEF Closed
<1>5. PICK p \in [0..8 -> Registers] : Passes(F, w, Times(8), p) /\ p[8] = ZeroByte(w)
  <2>1. PICK p \in [0..Len(Times(8)) -> Registers] :
            Passes(F, w, Times(8), p) /\ p[Len(Times(8))] = Loop(F, w, Times(8))
    BY <1>2, <1>4, LoopRuns
  <2> QED BY <2>1, <1>2, <1>3
<1>6. p[0] = w
  BY <1>5 DEF Passes
<1>7. \A i \in 1..8 : p[i] = ZeroBit(p[i - 1])
  <2> SUFFICES ASSUME NEW i \in 1..8 PROVE p[i] = ZeroBit(p[i - 1])
    OBVIOUS
  <2>1. i - 1 \in 0..8
    OBVIOUS
  <2>2. p[i - 1] \in Registers
    BY <2>1
  <2>3. p[i] = F[<<p[i - 1], Times(8)[i]>>]
    BY <1>2, <1>5 DEF Passes
  <2> QED BY <1>1, <1>2, <2>2, <2>3
<1>8. /\ p[1] = ZeroBit(p[0]) /\ p[2] = ZeroBit(p[1])
      /\ p[3] = ZeroBit(p[2]) /\ p[4] = ZeroBit(p[3])
      /\ p[5] = ZeroBit(p[4]) /\ p[6] = ZeroBit(p[5])
      /\ p[7] = ZeroBit(p[6]) /\ p[8] = ZeroBit(p[7])
  <2>1. /\ 1 \in 1..8 /\ 2 \in 1..8 /\ 3 \in 1..8 /\ 4 \in 1..8
        /\ 5 \in 1..8 /\ 6 \in 1..8 /\ 7 \in 1..8 /\ 8 \in 1..8
        /\ 1 - 1 = 0 /\ 2 - 1 = 1 /\ 3 - 1 = 2 /\ 4 - 1 = 3
        /\ 5 - 1 = 4 /\ 6 - 1 = 5 /\ 7 - 1 = 6 /\ 8 - 1 = 7
    OBVIOUS
  <2> QED BY <1>7, <2>1
<1> QED BY <1>5, <1>6, <1>8

LEMMA ZeroByteLinear ==
    /\ \A w \in Registers : ZeroByte(w) \in Registers
    /\ \A v \in Registers, w \in Registers :
           /\ ZeroByte(Xor(v, w)) = Xor(ZeroByte(v), ZeroByte(w))
           /\ ZeroByte(v) = ZeroByte(w) => v = w
<1> DEFINE Z2(w) == ZeroBit(ZeroBit(w))
           Z4(w) == Z2(Z2(w))
           Z8(w) == Z4(Z4(w))
<1>1. /\ \A w \in Registers : Z2(w) \in Registers
      /\ \A v \in Registers, w \in Registers :
             Z2(Xor(v, w)) = Xor(Z2(v), Z2(w)) /\ (Z2(v) = Z2(w) => v = w)
  BY ZeroBitType, ZeroBitLinear, ZeroBitInjective
<1>5. \A w \in Registers : ZeroByte(w) = Z8(w)
  BY ZeroByteIs
<1> HIDE DEF Z2
<1>2. /\ \A w \in Registers : Z4(w) \in Registers
      /\ \A v \in Registers, w \in Registers :
             Z4(Xor(v, w)) = Xor(Z4(v), Z4(w)) /\ (Z4(v) = Z4(w) => v = w)
  BY <1>1
<1> HIDE DEF Z4
<1>3. /\ \A w \in Registers : Z8(w) \in Registers
      /\ \A v \in Registers, w \in Registers :
             Z8(Xor(v, w)) = Xor(Z8(v), Z8(w)) /\ (Z8(v) = Z8(w) => v = w)
  BY <1>2
<1>4. \A v \in Registers, w \in Registers : Xor(v, w) \in Registers
  BY XorType DEF Registers
<1> HIDE DEF Z8
<1>6. \A w \in Registers : ZeroByte(w) \in Registers
  BY <1>3, <1>5
<1>7. ASSUME NEW v \in Registers, NEW w \in Registers
      PROVE  ZeroByte(Xor(v, w)) = Xor(ZeroByte(v), ZeroByte(w))
  <2>1. ZeroByte(Xor(v, w)) = Z8(Xor(v, w)) /\ ZeroByte(v) = Z8(v) /\ ZeroByte(w) = Z8(w)
    BY <1>4, <1>5
  <2> QED BY <2>1, <1>3
<1>8. \A v \in Registers, w \in Registers : ZeroByte(v) = ZeroByte(w) => v = w
  BY <1>3, <1>5
<1> QED BY <1>6, <1>7, <1>8

\* A byte of zeros is shifted out.
LEMMA ZeroByteShifts ==
    ASSUME NEW w \in Registers, \A i \in 0..7 : i \notin w
    PROVE  ZeroByte(w) = Right(w, 8)
<1> DEFINE R(n) == Right(w, n)
<1>1. ASSUME NEW n \in 0..7 PROVE ZeroBit(R(n)) = R(n + 1)
  <2>1. 0 \notin R(n)
    <3>1. 0 + n = n /\ n \in Nat /\ n \notin w
      OBVIOUS
    <3>2. 0 \in R(n) => 0 + n \in w
      BY <3>1, RightIs
    <3> HIDE DEF R
    <3> QED BY <3>1, <3>2
  <2>2. Right(R(n), 1) = R(n + 1)
    BY RightTwice
  <2> HIDE DEF R
  <2> QED BY <2>1, <2>2 DEF ZeroBit
<1>2. R(0) = w
  <2>1. \A i : i \in R(0) <=> i \in Nat /\ i + 0 \in w
    BY RightIs
  <2>2. \A i \in w : i \in Nat
    BY DEF Registers, Ones
  <2>3. \A i \in Nat : i + 0 = i
    OBVIOUS
  <2>4. \A i : i \in R(0) <=> i \in w
    BY <2>1, <2>2, <2>3
  <2> HIDE DEF R
  <2> QED BY <2>4
<1> HIDE DEF R
<1>3. /\ ZeroBit(R(0)) = R(1) /\ ZeroBit(R(1)) = R(2)
      /\ ZeroBit(R(2)) = R(3) /\ ZeroBit(R(3)) = R(4)
      /\ ZeroBit(R(4)) = R(5) /\ ZeroBit(R(5)) = R(6)
      /\ ZeroBit(R(6)) = R(7) /\ ZeroBit(R(7)) = R(8)
  <2>1. /\ 0 \in 0..7 /\ 1 \in 0..7 /\ 2 \in 0..7 /\ 3 \in 0..7
        /\ 4 \in 0..7 /\ 5 \in 0..7 /\ 6 \in 0..7 /\ 7 \in 0..7
        /\ 0 + 1 = 1 /\ 1 + 1 = 2 /\ 2 + 1 = 3 /\ 3 + 1 = 4
        /\ 4 + 1 = 5 /\ 5 + 1 = 6 /\ 6 + 1 = 7 /\ 7 + 1 = 8
    OBVIOUS
  <2> QED BY <1>1, <2>1
<1>4. ZeroByte(w) = R(8)
  BY <1>2, <1>3, ZeroByteIs
<1> QED BY <1>4 DEF R

LEMMA ByteIsRegister == \A b \in Bytes : b \in Registers
<1>1. \A i \in 0..7 : i \in Ones
  BY DEF Ones
<1> QED BY <1>1 DEF Bytes, Registers

\* What the reader of a byte does to the register.
LEMMA STEP1Is ==
    ASSUME NEW l \in Registers, NEW b \in Bytes
    PROVE  STEP1(l, b) = ZeroByte(Xor(l, b))
<1> DEFINE low  == Xor(Low(l), b)
           high == l \ (0..7)
<1>1. Low(l) \in Bytes /\ low \in Bytes /\ low \in Registers /\ high \in Registers
  <2>1. Low(l) \in Bytes
    BY DEF Low, Bytes
  <2>2. low \in Bytes
    BY <2>1, XorType DEF Bytes
  <2> QED BY <2>1, <2>2, ByteIsRegister DEF Registers
<1>2. Xor(l, b) = Xor(low, high)
  BY DEF Low, Xor, Bytes
<1>3. ZeroByte(high) = Right(high, 8)
  BY <1>1, ZeroByteShifts
<1>4. Right(high, 8) = Right(l, 8)
  <2>1. \A i \in Nat : i + 8 \notin 0..7
    OBVIOUS
  <2>2. \A i : i \in Right(high, 8) <=> i \in Nat /\ i + 8 \in high
    BY <1>1, RightIs
  <2>3. \A i : i \in Right(l, 8) <=> i \in Nat /\ i + 8 \in l
    BY RightIs
  <2>4. \A i : i \in Right(high, 8) <=> i \in Right(l, 8)
    BY <2>1, <2>2, <2>3
  <2> HIDE DEF high
  <2> QED BY <2>4
<1>5. table0_[low] = ZeroByte(low)
  BY <1>1 DEF table0_
<1>6. STEP1(l, b) = Xor(table0_[low], Right(l, 8))
  BY DEF STEP1
<1> HIDE DEF low, high
<1> QED BY <1>1, <1>2, <1>3, <1>4, <1>5, <1>6, ZeroByteLinear

\* A byte, n bits further.
Up(b, n) == {i + n : i \in b}

LEMMA UpIs ==
    ASSUME NEW b \in Bytes, NEW n \in {0, 8, 16, 24}
    PROVE  /\ Up(b, n) \in Registers
           /\ \A i \in Ones : i \in Up(b, n) <=> i - n \in b
<1>1. \A i \in b : i \in 0..7 /\ i + n \in Ones /\ (i + n) - n = i
  BY DEF Bytes, Ones
<1>2. \A i \in Ones : (i - n) + n = i
  BY DEF Ones
<1> QED BY <1>1, <1>2 DEF Up, Registers

LEMMA UpShifts ==
    ASSUME NEW b \in Bytes, NEW n \in {0, 8, 16}
    PROVE  ZeroByte(Up(b, n + 8)) = Up(b, n)
<1>1. n + 8 \in {0, 8, 16, 24}
  OBVIOUS
<1>2. Up(b, n + 8) \in Registers /\ \A i \in Ones : i \in Up(b, n + 8) <=> i - (n + 8) \in b
  BY <1>1, UpIs
<1>3. \A i \in 0..7 : i \notin Up(b, n + 8)
  <2> SUFFICES ASSUME NEW i \in 0..7, i \in Up(b, n + 8) PROVE FALSE
    OBVIOUS
  <2>1. i \in Ones
    BY DEF Ones
  <2>2. i - (n + 8) \in b
    BY <2>1, <1>2
  <2> QED BY <2>2 DEF Bytes
<1>4. ZeroByte(Up(b, n + 8)) = Right(Up(b, n + 8), 8)
  BY <1>2, <1>3, ZeroByteShifts
<1>5. \A i : i \in Right(Up(b, n + 8), 8) <=> i \in Nat /\ i + 8 \in Up(b, n + 8)
  BY <1>2, RightIs
<1>6. ASSUME NEW i, i \in Nat, i + 8 \in Up(b, n + 8) PROVE i \in Up(b, n)
  <2>1. PICK j \in b : i + 8 = j + (n + 8)
    BY <1>6 DEF Up
  <2>2. j \in Nat /\ i = j + n
    BY <1>6, <2>1 DEF Bytes
  <2> QED BY <2>1, <2>2 DEF Up
<1>7. ASSUME NEW i, i \in Up(b, n) PROVE i \in Nat /\ i + 8 \in Up(b, n + 8)
  <2>1. PICK j \in b : i = j + n
    BY <1>7 DEF Up
  <2>2. i \in Nat /\ i + 8 = j + (n + 8)
    BY <2>1 DEF Bytes
  <2> QED BY <2>1, <2>2 DEF Up
<1>8. \A i : i \in Right(Up(b, n + 8), 8) <=> i \in Up(b, n)
  BY <1>5, <1>6, <1>7
<1> QED BY <1>4, <1>8

\* A word of its four bytes.
OfBytes(a, b, c, d) == Xor(Xor(a, Up(b, 8)), Xor(Up(c, 16), Up(d, 24)))

LEMMA OfBytesIs ==
    ASSUME NEW x \in Registers,
           NEW a \in Bytes, NEW b \in Bytes, NEW c \in Bytes, NEW d \in Bytes,
           \A i \in 0..7 : /\ i \in a <=> i \in x
                           /\ i \in b <=> i + 8 \in x
                           /\ i \in c <=> i + 16 \in x
                           /\ i \in d <=> i + 24 \in x
    PROVE  x = OfBytes(a, b, c, d)
<1>1. ASSUME NEW i \in Ones PROVE i \in x <=> i \in OfBytes(a, b, c, d)
  <2>1. /\ i \in Up(b, 8) <=> i - 8 \in b
        /\ i \in Up(c, 16) <=> i - 16 \in c
        /\ i \in Up(d, 24) <=> i - 24 \in d
    BY UpIs
  <2>2. \A j \in Int : j \notin 0..7 => j \notin a /\ j \notin b /\ j \notin c /\ j \notin d
    BY DEF Bytes
  <2>3. i \in Int /\ 0 <= i /\ i <= 31
    BY DEF Ones
  <2>4. /\ i - 8 \in Int /\ i - 16 \in Int /\ i - 24 \in Int
        /\ (i - 8) + 8 = i /\ (i - 16) + 16 = i /\ (i - 24) + 24 = i
    BY <2>3
  <2>5. CASE i \in 0..7
    <3>1. i - 8 \notin 0..7 /\ i - 16 \notin 0..7 /\ i - 24 \notin 0..7
      BY <2>5
    <3> QED BY <2>1, <2>2, <2>4, <2>5, <3>1, XorIs DEF OfBytes
  <2>6. CASE i \in 8..15
    <3>1. i - 8 \in 0..7 /\ i \notin 0..7 /\ i - 16 \notin 0..7 /\ i - 24 \notin 0..7
      BY <2>6
    <3>2. i - 8 \in b <=> i \in x
      BY <3>1, <2>4
    <3> QED BY <2>1, <2>2, <2>3, <2>4, <3>1, <3>2, XorIs DEF OfBytes
  <2>7. CASE i \in 16..23
    <3>1. i - 16 \in 0..7 /\ i \notin 0..7 /\ i - 8 \notin 0..7 /\ i - 24 \notin 0..7
      BY <2>7
    <3>2. i - 16 \in c <=> i \in x
      BY <3>1, <2>4
    <3> QED BY <2>1, <2>2, <2>3, <2>4, <3>1, <3>2, XorIs DEF OfBytes
  <2>8. CASE i \in 24..31
    <3>1. i - 24 \in 0..7 /\ i \notin 0..7 /\ i - 8 \notin 0..7 /\ i - 16 \notin 0..7
      BY <2>8
    <3>2. i - 24 \in d <=> i \in x
      BY <3>1, <2>4
    <3> QED BY <2>1, <2>2, <2>3, <2>4, <3>1, <3>2, XorIs DEF OfBytes
  <2>9. i \in 0..7 \/ i \in 8..15 \/ i \in 16..23 \/ i \in 24..31
    BY <2>3
  <2> QED BY <2>5, <2>6, <2>7, <2>8, <2>9
<1>2. OfBytes(a, b, c, d) \in Registers
  <2>1. a \in Registers /\ Up(b, 8) \in Registers /\ Up(c, 16) \in Registers /\ Up(d, 24) \in Registers
    BY UpIs, ByteIsRegister
  <2> QED BY <2>1, XorType DEF OfBytes, Registers
<1> QED BY <1>1, <1>2 DEF Registers

\* The four bytes of c.
LEMMA Parts ==
    ASSUME NEW c \in Registers
    PROVE  /\ Low(c) \in Bytes /\ Low(Right(c, 8)) \in Bytes
           /\ Low(Right(c, 16)) \in Bytes /\ Right(c, 24) \in Bytes
           /\ c = OfBytes(Low(c), Low(Right(c, 8)), Low(Right(c, 16)), Right(c, 24))
<1>1. \A i : /\ i \in Right(c, 8) <=> i \in Nat /\ i + 8 \in c
             /\ i \in Right(c, 16) <=> i \in Nat /\ i + 16 \in c
             /\ i \in Right(c, 24) <=> i \in Nat /\ i + 24 \in c
  BY RightIs
<1>2. Right(c, 24) \in Bytes
  <2>1. \A i \in Nat : i + 24 \in c => i \in 0..7
    BY DEF Registers, Ones
  <2> QED BY <1>1, <2>1 DEF Bytes
<1>3. Low(c) \in Bytes /\ Low(Right(c, 8)) \in Bytes /\ Low(Right(c, 16)) \in Bytes
  BY DEF Low, Bytes
<1>4. \A i \in 0..7 : /\ i \in Low(c) <=> i \in c
                      /\ i \in Low(Right(c, 8)) <=> i + 8 \in c
                      /\ i \in Low(Right(c, 16)) <=> i + 16 \in c
                      /\ i \in Right(c, 24) <=> i + 24 \in c
  <2>1. \A i \in 0..7 : i \in Nat
    OBVIOUS
  <2> QED BY <1>1, <2>1 DEF Low
<1> QED BY <1>2, <1>3, <1>4, OfBytesIs

LEMMA LoadIs ==
    ASSUME NEW p, p[1] \in Bytes, p[2] \in Bytes, p[3] \in Bytes, p[4] \in Bytes
    PROVE  /\ LE_LOAD32(p) \in Registers
           /\ LE_LOAD32(p) = OfBytes(p[1], p[2], p[3], p[4])
<1>1. \A x : x \in LE_LOAD32(p) <=> \E k \in 1..4 : \E i \in p[k] : x = 8 * (k - 1) + i
  BY DEF LE_LOAD32
<1>2. \A k : k \in 1..4 <=> k = 1 \/ k = 2 \/ k = 3 \/ k = 4
  OBVIOUS
<1>3. 8 * (1 - 1) = 0 /\ 8 * (2 - 1) = 8 /\ 8 * (3 - 1) = 16 /\ 8 * (4 - 1) = 24
  OBVIOUS
<1>4. \A x : x \in LE_LOAD32(p) <=> \/ \E i \in p[1] : x = 0 + i
                                    \/ \E i \in p[2] : x = 8 + i
                                    \/ \E i \in p[3] : x = 16 + i
                                    \/ \E i \in p[4] : x = 24 + i
  <2> SUFFICES ASSUME NEW x
               PROVE  x \in LE_LOAD32(p) <=> \/ \E i \in p[1] : x = 0 + i
                                             \/ \E i \in p[2] : x = 8 + i
                                             \/ \E i \in p[3] : x = 16 + i
                                             \/ \E i \in p[4] : x = 24 + i
    OBVIOUS
  <2> DEFINE T(k) == \E i \in p[k] : x = 8 * (k - 1) + i
  <2>1. x \in LE_LOAD32(p) <=> \E k \in 1..4 : T(k)
    BY <1>1
  <2> HIDE DEF T
  <2>2. x \in LE_LOAD32(p) <=> T(1) \/ T(2) \/ T(3) \/ T(4)
    BY <1>2, <2>1
  <2> QED BY <1>3, <2>2 DEF T
<1>5. \A k \in 1..4 : \A i \in p[k] : i \in 0..7
  BY <1>2 DEF Bytes
<1>6. \A i : i \in p[1] \/ i \in p[2] \/ i \in p[3] \/ i \in p[4] => i \in 0..7
  BY DEF Bytes
<1>7. LE_LOAD32(p) \in Registers
  <2>1. \A i \in 0..7 : 0 + i \in Ones /\ 8 + i \in Ones /\ 16 + i \in Ones /\ 24 + i \in Ones
    BY DEF Ones
  <2> QED BY <1>4, <1>6, <2>1 DEF Registers
<1>8. ASSUME NEW i \in 0..7
      PROVE  /\ i \in p[1] <=> i \in LE_LOAD32(p)
             /\ i \in p[2] <=> i + 8 \in LE_LOAD32(p)
             /\ i \in p[3] <=> i + 16 \in LE_LOAD32(p)
             /\ i \in p[4] <=> i + 24 \in LE_LOAD32(p)
  <2>1. /\ \A j \in 0..7 : i = 0 + j <=> i = j
        /\ \A j \in 0..7 : i # 8 + j /\ i # 16 + j /\ i # 24 + j
    OBVIOUS
  <2>2. /\ \A j \in 0..7 : i + 8 = 8 + j <=> i = j
        /\ \A j \in 0..7 : i + 8 # 0 + j /\ i + 8 # 16 + j /\ i + 8 # 24 + j
    OBVIOUS
  <2>3. /\ \A j \in 0..7 : i + 16 = 16 + j <=> i = j
        /\ \A j \in 0..7 : i + 16 # 0 + j /\ i + 16 # 8 + j /\ i + 16 # 24 + j
    OBVIOUS
  <2>4. /\ \A j \in 0..7 : i + 24 = 24 + j <=> i = j
        /\ \A j \in 0..7 : i + 24 # 0 + j /\ i + 24 # 8 + j /\ i + 24 # 16 + j
    OBVIOUS
  <2>5. i \in p[1] <=> i \in LE_LOAD32(p)
    BY <1>4, <1>6, <2>1
  <2>6. i \in p[2] <=> i + 8 \in LE_LOAD32(p)
    BY <1>4, <1>6, <2>2
  <2>7. i \in p[3] <=> i + 16 \in LE_LOAD32(p)
    BY <1>4, <1>6, <2>3
  <2>8. i \in p[4] <=> i + 24 \in LE_LOAD32(p)
    BY <1>4, <1>6, <2>4
  <2> QED BY <2>5, <2>6, <2>7, <2>8
<1> QED BY <1>7, <1>8, OfBytesIs

LEMMA TablesAre ==
    ASSUME NEW b \in Bytes
    PROVE  /\ table0_[b] = ZeroByte(b)
           /\ table1_[b] = ZeroByte(ZeroByte(b))
           /\ table2_[b] = ZeroByte(ZeroByte(ZeroByte(b)))
           /\ table3_[b] = ZeroByte(ZeroByte(ZeroByte(ZeroByte(b))))
BY DEF table0_, table1_, table2_, table3_

LEMMA OfBytesShifts ==
    ASSUME NEW a \in Bytes, NEW b \in Bytes, NEW c \in Bytes, NEW d \in Bytes
    PROVE  ZeroByte(ZeroByte(ZeroByte(ZeroByte(OfBytes(a, b, c, d))))) =
               Xor(Xor(table3_[a], table2_[b]), Xor(table1_[c], table0_[d]))
<1>1. ZeroByte(Up(b, 8)) = b /\ ZeroByte(Up(c, 16)) = Up(c, 8) /\ ZeroByte(Up(d, 24)) = Up(d, 16)
      /\ ZeroByte(Up(c, 8)) = c /\ ZeroByte(Up(d, 16)) = Up(d, 8) /\ ZeroByte(Up(d, 8)) = d
  <2>1. 0 + 8 = 8 /\ 8 + 8 = 16 /\ 16 + 8 = 24
    OBVIOUS
  <2>2. \A e \in Bytes : ZeroByte(Up(e, 0 + 8)) = Up(e, 0) /\ ZeroByte(Up(e, 8 + 8)) = Up(e, 8)
                         /\ ZeroByte(Up(e, 16 + 8)) = Up(e, 16)
    BY UpShifts
  <2>3. \A e \in Bytes : Up(e, 0) = e
    <3> SUFFICES ASSUME NEW e \in Bytes PROVE Up(e, 0) = e
      OBVIOUS
    <3>1. \A i \in e : i + 0 = i
      BY DEF Bytes
    <3> QED BY <3>1 DEF Up
  <2> QED BY <2>1, <2>2, <2>3
<1> DEFINE Z(w) == ZeroByte(w)
<1>2. /\ \A w \in Registers : Z(w) \in Registers
      /\ \A v \in Registers, w \in Registers :
             Xor(v, w) \in Registers /\ Z(Xor(v, w)) = Xor(Z(v), Z(w))
  BY ZeroByteLinear, XorType DEF Registers
<1>3. /\ a \in Registers /\ b \in Registers /\ c \in Registers /\ d \in Registers
      /\ Up(b, 8) \in Registers /\ Up(c, 8) \in Registers /\ Up(d, 8) \in Registers
      /\ Up(c, 16) \in Registers /\ Up(d, 16) \in Registers /\ Up(d, 24) \in Registers
  BY ByteIsRegister, UpIs
<1>4. Z(OfBytes(a, b, c, d)) = Xor(Xor(Z(a), b), Xor(Up(c, 8), Up(d, 16)))
  BY <1>1, <1>2, <1>3 DEF OfBytes
<1>5. Z(Z(OfBytes(a, b, c, d))) = Xor(Xor(Z(Z(a)), Z(b)), Xor(c, Up(d, 8)))
  BY <1>1, <1>2, <1>3, <1>4
<1>6. Z(Z(Z(OfBytes(a, b, c, d)))) = Xor(Xor(Z(Z(Z(a))), Z(Z(b))), Xor(Z(c), d))
  BY <1>1, <1>2, <1>3, <1>5
<1>7. Z(Z(Z(Z(OfBytes(a, b, c, d))))) =
          Xor(Xor(Z(Z(Z(Z(a)))), Z(Z(Z(b)))), Xor(Z(Z(c)), Z(d)))
  BY <1>2, <1>3, <1>6
<1> QED BY <1>7, TablesAre

\* The tables do for a word what they do for its bytes one by one.
LEMMA STEP4Is ==
    ASSUME NEW l \in Registers,
           NEW p, p[1] \in Bytes, p[2] \in Bytes, p[3] \in Bytes, p[4] \in Bytes
    PROVE  /\ STEP4(l, p) \in Registers
           /\ STEP4(l, p) = STEP1(STEP1(STEP1(STEP1(l, p[1]), p[2]), p[3]), p[4])
<1> DEFINE c == Xor(l, LE_LOAD32(p))
           Z(w) == ZeroByte(w)
           u2 == Up(p[2], 8)
           u3 == Up(p[3], 16)
           u4 == Up(p[4], 24)
<1>1. LE_LOAD32(p) \in Registers /\ LE_LOAD32(p) = Xor(Xor(p[1], u2), Xor(u3, u4))
  BY LoadIs DEF OfBytes
<1>2. c \in Registers
  BY <1>1, XorType DEF Registers
<1>3. STEP4(l, p) = Z(Z(Z(Z(c))))
  <2>1. STEP4(l, p) = Xor(Xor(table3_[Low(c)], table2_[Low(Right(c, 8))]),
                          Xor(table1_[Low(Right(c, 16))], table0_[Right(c, 24)]))
    BY DEF STEP4
  <2> HIDE DEF c
  <2> QED BY <1>2, <2>1, Parts, OfBytesShifts
<1>4. c = Xor(Xor(Xor(Xor(l, p[1]), u2), u3), u4)
  <2> DEFINE p1 == p[1]
  <2> HIDE DEF p1, u2, u3, u4
  <2>1. c = Xor(l, Xor(Xor(p1, u2), Xor(u3, u4)))
    BY <1>1 DEF p1
  <2>2. \A i : i \in Xor(l, Xor(Xor(p1, u2), Xor(u3, u4)))
               <=> i \in Xor(Xor(Xor(Xor(l, p1), u2), u3), u4)
    BY XorIs
  <2> QED BY <2>1, <2>2 DEF p1
<1>5. /\ Z(u2) = p[2] /\ Z(Z(u3)) = p[3] /\ Z(Z(Z(u4))) = p[4]
      /\ u2 \in Registers /\ u3 \in Registers /\ u4 \in Registers /\ p[1] \in Registers
  <2>1. 0 + 8 = 8 /\ 8 + 8 = 16 /\ 16 + 8 = 24
    OBVIOUS
  <2>2. \A e \in Bytes : ZeroByte(Up(e, 0 + 8)) = Up(e, 0) /\ ZeroByte(Up(e, 8 + 8)) = Up(e, 8)
                         /\ ZeroByte(Up(e, 16 + 8)) = Up(e, 16)
    BY UpShifts
  <2>3. \A e \in Bytes : Up(e, 0) = e
    <3> SUFFICES ASSUME NEW e \in Bytes PROVE Up(e, 0) = e
      OBVIOUS
    <3>1. \A i \in e : i + 0 = i
      BY DEF Bytes
    <3> QED BY <3>1 DEF Up
  <2> QED BY <2>1, <2>2, <2>3, UpIs, ByteIsRegister
<1>6. /\ \A w \in Registers : Z(w) \in Registers
      /\ \A v \in Registers, w \in Registers :
             Xor(v, w) \in Registers /\ Z(Xor(v, w)) = Xor(Z(v), Z(w))
  BY ZeroByteLinear, XorType DEF Registers
<1> HIDE DEF u2, u3, u4, c
<1> DEFINE x1 == Xor(l, p[1])
           x2 == Xor(x1, u2)
           x3 == Xor(x2, u3)
<1>7. x1 \in Registers /\ x2 \in Registers /\ x3 \in Registers
  BY <1>5, <1>6
<1>8. c = Xor(x3, u4)
  BY <1>4
<1>9. STEP1(l, p[1]) = Z(x1)
  BY STEP1Is
<1>10. STEP1(Z(x1), p[2]) = Z(Z(x2))
  <2>1. Xor(Z(x1), p[2]) = Z(x2)
    BY <1>5, <1>6, <1>7
  <2> HIDE DEF x1, x2
  <2> QED BY <2>1, <1>6, <1>7, STEP1Is
<1>11. STEP1(Z(Z(x2)), p[3]) = Z(Z(Z(x3)))
  <2> HIDE DEF x2
  <2>1. Z(x3) = Xor(Z(x2), Z(u3))
    BY <1>5, <1>6, <1>7
  <2> HIDE DEF x3
  <2>2. Z(Z(x3)) = Xor(Z(Z(x2)), p[3])
    BY <2>1, <1>5, <1>6, <1>7
  <2> QED BY <2>2, <1>6, <1>7, STEP1Is
<1>12. STEP1(Z(Z(Z(x3))), p[4]) = Z(Z(Z(Z(c))))
  <2> HIDE DEF x3
  <2>1. Z(c) = Xor(Z(x3), Z(u4))
    BY <1>5, <1>6, <1>7, <1>8
  <2>2. Z(Z(c)) = Xor(Z(Z(x3)), Z(Z(u4)))
    BY <2>1, <1>5, <1>6, <1>7
  <2>3. Z(Z(Z(c))) = Xor(Z(Z(Z(x3))), p[4])
    BY <2>2, <1>5, <1>6, <1>7
  <2> QED BY <2>3, <1>6, <1>7, STEP1Is
<1> HIDE DEF x1, x2, x3
<1>13. STEP4(l, p) \in Registers
  BY <1>2, <1>3, <1>6
<1> QED BY <1>3, <1>9, <1>10, <1>11, <1>12, <1>13

LEMMA SubSeqIs ==
    ASSUME NEW E, NEW s \in Seq(E), NEW k \in Nat, NEW m \in Nat, k <= m, m <= Len(s)
    PROVE  /\ SubSeq(s, k + 1, m) \in Seq(E)
           /\ Len(SubSeq(s, k + 1, m)) = m - k
           /\ \A i \in 1..(m - k) : SubSeq(s, k + 1, m)[i] = s[k + i]
<1>1. Len(s) \in Nat
  OBVIOUS
<1>2. \A i \in (k + 1)..m : s[i] \in E
  BY <1>1
<1>3. /\ SubSeq(s, k + 1, m) \in Seq(E)
      /\ Len(SubSeq(s, k + 1, m)) = IF k + 1 <= m THEN m - (k + 1) + 1 ELSE 0
      /\ \A i \in 1..(m - (k + 1) + 1) : SubSeq(s, k + 1, m)[i] = s[k + 1 + i - 1]
  BY <1>1, <1>2, SubSeqProperties
<1>4. \A i \in Nat : k + 1 + i - 1 = k + i
  OBVIOUS
<1>5. m - (k + 1) + 1 = m - k /\ (~(k + 1 <= m) => m - k = 0)
  OBVIOUS
<1> QED BY <1>3, <1>4, <1>5

LEMMA CutInTwo ==
    ASSUME NEW E, NEW s \in Seq(E), NEW k \in Nat, NEW m \in Nat, k <= m, m <= Len(s)
    PROVE  /\ SubSeq(s, 1, k) \in Seq(E) /\ SubSeq(s, k + 1, m) \in Seq(E)
           /\ SubSeq(s, 1, m) = SubSeq(s, 1, k) \o SubSeq(s, k + 1, m)
<1> DEFINE a == SubSeq(s, 1, k)
           b == SubSeq(s, k + 1, m)
           c == SubSeq(s, 1, m)
<1>0. Len(s) \in Nat /\ k <= Len(s)
  OBVIOUS
<1>1. a \in Seq(E) /\ Len(a) = k /\ \A i \in 1..k : a[i] = s[i]
  <2>1. SubSeq(s, 0 + 1, k) \in Seq(E) /\ Len(SubSeq(s, 0 + 1, k)) = k - 0
        /\ \A i \in 1..(k - 0) : SubSeq(s, 0 + 1, k)[i] = s[0 + i]
    BY <1>0, SubSeqIs
  <2>2. 0 + 1 = 1 /\ k - 0 = k /\ \A i \in Nat : 0 + i = i
    OBVIOUS
  <2> QED BY <2>1, <2>2
<1>2. c \in Seq(E) /\ Len(c) = m /\ \A i \in 1..m : c[i] = s[i]
  <2>1. SubSeq(s, 0 + 1, m) \in Seq(E) /\ Len(SubSeq(s, 0 + 1, m)) = m - 0
        /\ \A i \in 1..(m - 0) : SubSeq(s, 0 + 1, m)[i] = s[0 + i]
    BY <1>0, SubSeqIs
  <2>2. 0 + 1 = 1 /\ m - 0 = m /\ \A i \in Nat : 0 + i = i
    OBVIOUS
  <2> QED BY <2>1, <2>2
<1>3. b \in Seq(E) /\ Len(b) = m - k /\ \A i \in 1..(m - k) : b[i] = s[k + i]
  BY SubSeqIs
<1> HIDE DEF a, b, c
<1>4. a \o b \in Seq(E) /\ Len(a \o b) = m
      /\ \A i \in 1..m : (a \o b)[i] = IF i <= k THEN a[i] ELSE b[i - k]
  <2>0. a \in Seq(E) /\ b \in Seq(E)
    BY <1>1, <1>3
  <2>1. a \o b \in Seq(E) /\ Len(a \o b) = Len(a) + Len(b)
        /\ \A i \in 1..(Len(a) + Len(b)) : (a \o b)[i] = IF i <= Len(a) THEN a[i] ELSE b[i - Len(a)]
    BY <2>0, ConcatProperties, Zenon
  <2>2. k + (m - k) = m
    OBVIOUS
  <2> QED BY <2>1, <2>2, <1>1, <1>3
<1>5. \A i \in 1..m : c[i] = (a \o b)[i]
  <2> SUFFICES ASSUME NEW i \in 1..m PROVE c[i] = (a \o b)[i]
    OBVIOUS
  <2>1. CASE i <= k
    BY <2>1, <1>1, <1>2, <1>4
  <2>2. CASE ~(i <= k)
    <3>1. i - k \in 1..(m - k) /\ k + (i - k) = i
      BY <2>2
    <3> QED BY <2>2, <3>1, <1>2, <1>3, <1>4
  <2> QED BY <2>1, <2>2
<1>6. c = a \o b
  BY <1>2, <1>4, <1>5, SeqEqual
<1> QED BY <1>1, <1>3, <1>6 DEF a, b, c

LEMMA WholeSubSeq ==
    ASSUME NEW E, NEW s \in Seq(E)
    PROVE  SubSeq(s, 1, Len(s)) = s
<1>1. SubSeq(s, 0 + 1, Len(s)) \in Seq(E) /\ Len(SubSeq(s, 0 + 1, Len(s))) = Len(s) - 0
      /\ \A i \in 1..(Len(s) - 0) : SubSeq(s, 0 + 1, Len(s))[i] = s[0 + i]
  BY SubSeqIs
<1>2. 0 + 1 = 1 /\ Len(s) - 0 = Len(s) /\ \A i \in Nat : 0 + i = i
  OBVIOUS
<1>3. Len(SubSeq(s, 1, Len(s))) = Len(s) /\ SubSeq(s, 1, Len(s)) \in Seq(E)
  BY <1>1, <1>2
<1>4. \A i \in 1..Len(s) : SubSeq(s, 1, Len(s))[i] = s[i]
  BY <1>1, <1>2
<1> QED BY <1>3, <1>4, SeqEqual

-----------------------------------------------------------------------------
(* Extend, byte by byte and word by word. *)

ByteStep == [x \in Registers \X Bytes |-> STEP1(x[1], x[2])]

LEMMA ByteStepIs ==
    /\ \A l \in Registers, b \in Bytes : ByteStep[<<l, b>>] = STEP1(l, b)
    /\ Closed(ByteStep, Registers, Bytes)
    /\ \A l, p : Single(l, p) = Loop(ByteStep, l, p)
<1>1. \A l \in Registers, b \in Bytes : ByteStep[<<l, b>>] = STEP1(l, b)
  BY DEF ByteStep
<1>2. ASSUME NEW l \in Registers, NEW b \in Bytes PROVE STEP1(l, b) \in Registers
  <2>1. Xor(l, b) \in Registers
    BY ByteIsRegister, XorType DEF Registers
  <2> QED BY <2>1, STEP1Is, ZeroByteLinear
<1>3. Closed(ByteStep, Registers, Bytes)
  BY <1>1, <1>2 DEF Closed
<1>4. \A l, p : Single(l, p) = Loop(ByteStep, l, p)
  BY DEF Single, ByteStep
<1> QED BY <1>1, <1>3, <1>4

LEMMA STEP1Type == \A l \in Registers, b \in Bytes : STEP1(l, b) \in Registers
BY ByteStepIs DEF Closed

LEMMA SingleType ==
    ASSUME NEW l \in Registers, NEW s \in Seq(Bytes)
    PROVE  Single(l, s) \in Registers
BY ByteStepIs, LoopType

LEMMA SingleInTwo ==
    ASSUME NEW l \in Registers, NEW s \in Seq(Bytes), NEW t \in Seq(Bytes)
    PROVE  Single(l, s \o t) = Single(Single(l, s), t)
BY ByteStepIs, LoopInTwo

LEMMA SingleRuns ==
    ASSUME NEW l \in Registers, NEW s \in Seq(Bytes)
    PROVE  \E p \in [0..Len(s) -> Registers] :
               /\ p[0] = l /\ p[Len(s)] = Single(l, s)
               /\ \A k \in 1..Len(s) : p[k] = STEP1(p[k - 1], s[k])
<1>1. PICK p \in [0..Len(s) -> Registers] :
          Passes(ByteStep, l, s, p) /\ p[Len(s)] = Loop(ByteStep, l, s)
  BY ByteStepIs, LoopRuns
<1>2. ASSUME NEW k \in 1..Len(s) PROVE p[k] = STEP1(p[k - 1], s[k])
  <2>1. k - 1 \in 0..Len(s) /\ s[k] \in Bytes
    OBVIOUS
  <2>2. p[k] = ByteStep[<<p[k - 1], s[k]>>]
    BY <1>1 DEF Passes
  <2> QED BY <2>1, <2>2, ByteStepIs
<1> QED BY <1>1, <1>2, ByteStepIs DEF Passes

LEMMA SingleShort ==
    ASSUME NEW l \in Registers, NEW s \in Seq(Bytes)
    PROVE  /\ Len(s) = 0 => Single(l, s) = l
           /\ Len(s) = 1 => Single(l, s) = STEP1(l, s[1])
<1>1. PICK p \in [0..Len(s) -> Registers] :
               /\ p[0] = l /\ p[Len(s)] = Single(l, s)
               /\ \A k \in 1..Len(s) : p[k] = STEP1(p[k - 1], s[k])
  BY SingleRuns
<1>2. 1 \in 1..1 /\ 1 - 1 = 0
  OBVIOUS
<1> QED BY <1>1, <1>2

LEMMA FourBytes ==
    ASSUME NEW l \in Registers, NEW s \in Seq(Bytes)
    PROVE  Len(s) = 4 => Single(l, s) = STEP4(l, s)
<1>1. PICK p \in [0..Len(s) -> Registers] :
               /\ p[0] = l /\ p[Len(s)] = Single(l, s)
               /\ \A k \in 1..Len(s) : p[k] = STEP1(p[k - 1], s[k])
  BY SingleRuns
<1>0. \A k \in 1..Len(s) : s[k] \in Bytes
  OBVIOUS
<1> SUFFICES ASSUME Len(s) = 4 PROVE Single(l, s) = STEP4(l, s)
  OBVIOUS
<1>2. /\ 1 \in 1..4 /\ 2 \in 1..4 /\ 3 \in 1..4 /\ 4 \in 1..4
      /\ 1 - 1 = 0 /\ 2 - 1 = 1 /\ 3 - 1 = 2 /\ 4 - 1 = 3
  OBVIOUS
<1>3. /\ p[1] = STEP1(p[0], s[1]) /\ p[2] = STEP1(p[1], s[2])
      /\ p[3] = STEP1(p[2], s[3]) /\ p[4] = STEP1(p[3], s[4])
  BY <1>1, <1>2
<1>4. s[1] \in Bytes /\ s[2] \in Bytes /\ s[3] \in Bytes /\ s[4] \in Bytes
  BY <1>0, <1>2
<1> QED BY <1>1, <1>3, <1>4, STEP4Is

LEMMA SingleCut ==
    ASSUME NEW l \in Registers, NEW s \in Seq(Bytes),
           NEW k \in Nat, NEW m \in Nat, k <= m, m <= Len(s)
    PROVE  /\ SubSeq(s, 1, k) \in Seq(Bytes) /\ SubSeq(s, k + 1, m) \in Seq(Bytes)
           /\ Single(l, SubSeq(s, 1, k)) \in Registers
           /\ Single(l, SubSeq(s, 1, m)) = Single(Single(l, SubSeq(s, 1, k)), SubSeq(s, k + 1, m))
<1> DEFINE a == SubSeq(s, 1, k)
           b == SubSeq(s, k + 1, m)
<1>1. a \in Seq(Bytes) /\ b \in Seq(Bytes) /\ SubSeq(s, 1, m) = a \o b
  BY CutInTwo
<1> HIDE DEF a, b
<1>2. Single(l, a \o b) = Single(Single(l, a), b) /\ Single(l, a) \in Registers
  BY <1>1, SingleInTwo, SingleType
<1>3. Single(l, SubSeq(s, 1, m)) = Single(Single(l, a), b)
  BY <1>1, <1>2, Zenon
<1> QED BY <1>1, <1>2, <1>3 DEF a, b

LEMMA SingleCutWhole ==
    ASSUME NEW l \in Registers, NEW s \in Seq(Bytes), NEW k \in Nat, k <= Len(s)
    PROVE  /\ SubSeq(s, 1, k) \in Seq(Bytes) /\ SubSeq(s, k + 1, Len(s)) \in Seq(Bytes)
           /\ Single(l, SubSeq(s, 1, k)) \in Registers
           /\ Single(l, s) = Single(Single(l, SubSeq(s, 1, k)), SubSeq(s, k + 1, Len(s)))
<1>1. \A m \in Nat : k <= m /\ m <= Len(s) =>
          /\ SubSeq(s, 1, k) \in Seq(Bytes) /\ SubSeq(s, k + 1, m) \in Seq(Bytes)
          /\ Single(l, SubSeq(s, 1, k)) \in Registers
          /\ Single(l, SubSeq(s, 1, m)) = Single(Single(l, SubSeq(s, 1, k)), SubSeq(s, k + 1, m))
  BY SingleCut
<1>2. Len(s) \in Nat /\ Len(s) <= Len(s)
  OBVIOUS
<1>3. /\ SubSeq(s, 1, k) \in Seq(Bytes) /\ SubSeq(s, k + 1, Len(s)) \in Seq(Bytes)
      /\ Single(l, SubSeq(s, 1, k)) \in Registers
      /\ Single(l, SubSeq(s, 1, Len(s))) =
            Single(Single(l, SubSeq(s, 1, k)), SubSeq(s, k + 1, Len(s)))
  BY <1>1, <1>2, Zenon
<1>4. SubSeq(s, 1, Len(s)) = s
  BY WholeSubSeq
<1> QED BY <1>3, <1>4, Zenon

\* The words of a string, and what is left.
LEMMA StepsIs ==
    ASSUME NEW l \in Registers, NEW s \in Seq(Bytes)
    PROVE  Steps(l, s) = Single(l, s)
<1> DEFINE words == Len(s) \div 4
           Words == [k \in 1..words |-> SubSeq(s, 4 * k - 3, 4 * k)]
           F     == [x \in Registers \X Seq(Bytes) |-> STEP4(x[1], x[2])]
           rest  == SubSeq(s, 4 * words + 1, Len(s))
           Fours == {q \in Seq(Bytes) : Len(q) = 4}
<1>1. Len(s) \in Nat /\ words \in Nat /\ 4 * words <= Len(s)
  <2>1. Len(s) \in Nat
    OBVIOUS
  <2>2. \A n \in Nat : n \div 4 \in Nat /\ 4 * (n \div 4) <= n
    BY Z3
  <2> QED BY <2>1, <2>2
<1>2. Steps(l, s) = Single(Loop(F, l, Words), rest)
  BY DEF Steps
<1>3. ASSUME NEW k \in 1..words
      PROVE  /\ 4 * k - 3 = (4 * (k - 1)) + 1
             /\ 4 * (k - 1) \in Nat /\ 4 * k \in Nat
             /\ 4 * (k - 1) <= 4 * k /\ 4 * k <= Len(s) /\ 4 * k - 4 * (k - 1) = 4
  BY <1>1
<1>4. ASSUME NEW k \in 1..words
      PROVE  Words[k] \in Fours /\ Words[k] = SubSeq(s, (4 * (k - 1)) + 1, 4 * k)
  <2>1. Words[k] = SubSeq(s, (4 * (k - 1)) + 1, 4 * k)
    BY <1>3
  <2>2. /\ SubSeq(s, (4 * (k - 1)) + 1, 4 * k) \in Seq(Bytes)
        /\ Len(SubSeq(s, (4 * (k - 1)) + 1, 4 * k)) = 4 * k - 4 * (k - 1)
    BY <1>3, SubSeqIs
  <2> QED BY <2>1, <2>2, <1>3
<1>5. Words \in Seq(Fours) /\ Len(Words) = words
  <2>1. Words \in [1..words -> Fours]
    BY <1>4
  <2> HIDE DEF Fours, Words, words
  <2> QED BY <2>1, <1>1
<1>6. \A r \in Registers, q \in Fours : F[<<r, q>>] = Single(r, q) /\ Single(r, q) \in Registers
  <2> SUFFICES ASSUME NEW r \in Registers, NEW q \in Fours
               PROVE  F[<<r, q>>] = Single(r, q) /\ Single(r, q) \in Registers
    OBVIOUS
  <2>1. q \in Seq(Bytes) /\ Len(q) = 4
    OBVIOUS
  <2>2. F[<<r, q>>] = STEP4(r, q)
    BY <2>1
  <2> HIDE DEF F
  <2> QED BY <2>1, <2>2, FourBytes, SingleType
<1> HIDE DEF F, Words
<1>7. Closed(F, Registers, Fours)
  BY <1>6 DEF Closed
<1>8. PICK p \in [0..words -> Registers] : Passes(F, l, Words, p) /\ p[words] = Loop(F, l, Words)
  <2>1. PICK p \in [0..Len(Words) -> Registers] :
            Passes(F, l, Words, p) /\ p[Len(Words)] = Loop(F, l, Words)
    BY <1>5, <1>7, LoopRuns
  <2> QED BY <2>1, <1>5
<1> DEFINE P == {k \in Nat : k <= words => p[k] = Single(l, SubSeq(s, 1, 4 * k))}
<1>9. 0 \in P
  <2>1. 4 * 0 = 0
    OBVIOUS
  <2>2. SubSeq(s, 1, 0) \in Seq(Bytes) /\ Len(SubSeq(s, 1, 0)) = 0
    BY SubSeqProperties
  <2>3. Single(l, SubSeq(s, 1, 0)) = l
    BY <2>2, SingleShort
  <2> QED BY <2>1, <2>3, <1>8 DEF Passes
<1>10. \A k \in P \cap Nat : k + 1 \in P
  <2> SUFFICES ASSUME NEW k \in P, k \in Nat, k + 1 <= words
               PROVE  p[k + 1] = Single(l, SubSeq(s, 1, 4 * (k + 1)))
    OBVIOUS
  <2>1. k + 1 \in 1..words /\ (k + 1) - 1 = k /\ k \in 0..words /\ k <= words
    BY <1>1
  <2>2. p[k] = Single(l, SubSeq(s, 1, 4 * k))
    BY <2>1
  <2>3. p[k + 1] = F[<<p[k], Words[k + 1]>>]
    BY <2>1, <1>5, <1>8 DEF Passes
  <2>4. /\ 4 * k \in Nat /\ 4 * (k + 1) \in Nat
        /\ 4 * k <= 4 * (k + 1) /\ 4 * (k + 1) <= Len(s)
    BY <1>1
  <2>5. Words[k + 1] \in Fours /\ Words[k + 1] = SubSeq(s, (4 * k) + 1, 4 * (k + 1))
    BY <2>1, <1>4
  <2>6. Single(l, SubSeq(s, 1, 4 * (k + 1))) =
            Single(Single(l, SubSeq(s, 1, 4 * k)), SubSeq(s, (4 * k) + 1, 4 * (k + 1)))
    BY <2>4, SingleCut
  <2>7. p[k] \in Registers
    BY <2>1, <1>8
  <2>8. p[k + 1] = Single(p[k], Words[k + 1])
    BY <2>3, <2>5, <2>7, <1>6
  <2> QED BY <2>2, <2>5, <2>6, <2>8
<1> HIDE DEF P
<1>11. Nat \subseteq P
  BY <1>9, <1>10, Induction
<1>12. Loop(F, l, Words) = Single(l, SubSeq(s, 1, 4 * words))
  BY <1>1, <1>8, <1>11 DEF P
<1>13. Single(l, s) = Single(Single(l, SubSeq(s, 1, 4 * words)), rest)
  <2>1. 4 * words \in Nat
    BY <1>1
  <2> HIDE DEF words
  <2> QED BY <2>1, <1>1, SingleCutWhole
<1> QED BY <1>2, <1>12, <1>13

LEMMA ComplementIs ==
    /\ \A w \in Registers : Xor(w, Ones) \in Registers /\ Xor(Xor(w, Ones), Ones) = w
    /\ {} \in Registers /\ Ones \in Registers /\ Xor({}, Ones) = Ones
BY DEF Xor, Registers

\* Where the string is, and where it is cut, makes no difference.
LEMMA ExtendIs ==
    ASSUME NEW crc \in Registers, NEW buf \in Seq(Bytes), NEW pval \in Nat
    PROVE  /\ Extend(crc, buf, pval) = Xor(Single(Xor(crc, Ones), buf), Ones)
           /\ Extend(crc, buf, pval) \in Registers
<1> DEFINE x     == ((pval + 3) \div 4) * 4 - pval
           first == IF x <= Len(buf) THEN x ELSE 0
           a     == SubSeq(buf, 1, first)
           b     == SubSeq(buf, first + 1, Len(buf))
<1>1. x \in Nat
  <2>1. pval <= ((pval + 3) \div 4) * 4 /\ (pval + 3) \div 4 \in Nat
    BY Z3
  <2> QED BY <2>1
<1> HIDE DEF x
<1>2. first \in Nat /\ first <= Len(buf) /\ Len(buf) \in Nat
  BY <1>1
<1> HIDE DEF first
<1>3. Xor(crc, Ones) \in Registers
  BY ComplementIs
<1>4. /\ a \in Seq(Bytes) /\ b \in Seq(Bytes) /\ Single(Xor(crc, Ones), a) \in Registers
      /\ Single(Xor(crc, Ones), buf) = Single(Single(Xor(crc, Ones), a), b)
  BY <1>2, <1>3, SingleCutWhole
<1>5. Extend(crc, buf, pval) = Xor(Steps(Single(Xor(crc, Ones), a), b), Ones)
  BY DEF Extend, first, x
<1> HIDE DEF a, b
<1>6. Extend(crc, buf, pval) = Xor(Single(Xor(crc, Ones), buf), Ones)
  BY <1>4, <1>5, StepsIs
<1> QED BY <1>3, <1>6, SingleType, ComplementIs

-----------------------------------------------------------------------------
(* The long division. *)

Polynomials == SUBSET Nat

LEMMA XorOfPolynomials ==
    \A q \in SUBSET Nat, r \in SUBSET Nat : Xor(q, r) \in SUBSET Nat
BY DEF Xor

LEMMA SequenceIs ==
    ASSUME NEW E, NEW n \in Nat, NEW s \in [1..n -> E]
    PROVE  s \in Seq(E) /\ Len(s) = n
OBVIOUS

\* A register as a polynomial of degree d or less: bit 0 is the coefficient
\* of degree d.
Place(d, w) == {d - i : i \in w}

LEMMA PlacedBits ==
    ASSUME NEW d \in Nat, NEW w \in Registers, NEW S,
           \A i \in w : d - i \in S,
           \A e \in S : \E i \in w : e = d - i
    PROVE  S = Place(d, w)
BY DEF Place

LEMMA PlaceIs ==
    ASSUME NEW d \in Nat, d >= 31, NEW w \in Registers
    PROVE  /\ Place(d, w) \in SUBSET Nat
           /\ \A e \in Nat : e \in Place(d, w) <=> d - e \in w
<1>1. \A i \in w : i \in Nat /\ i <= 31
  BY DEF Registers, Ones
<1>2. \A i \in w : d - i \in Nat /\ d - (d - i) = i
  BY <1>1
<1>3. \A e \in Nat : d - (d - e) = e
  OBVIOUS
<1> QED BY <1>2, <1>3 DEF Place

LEMMA PlaceOfXor ==
    ASSUME NEW d \in Nat, d >= 31, NEW v \in Registers, NEW w \in Registers
    PROVE  Place(d, Xor(v, w)) = Xor(Place(d, v), Place(d, w))
<1>1. Xor(v, w) \in Registers
  BY XorType DEF Registers
<1>2. /\ Place(d, Xor(v, w)) \in SUBSET Nat
      /\ Xor(Place(d, v), Place(d, w)) \in SUBSET Nat
  BY <1>1, PlaceIs, XorOfPolynomials
<1>3. \A e \in Nat : e \in Place(d, Xor(v, w)) <=> e \in Xor(Place(d, v), Place(d, w))
  BY <1>1, PlaceIs, XorIs
<1> QED BY <1>2, <1>3

LEMMA GeneratorIs ==
    ASSUME NEW d \in Nat, d >= 32
    PROVE  /\ {e + d - 32 : e \in Generator} \in SUBSET Nat
           /\ \A f \in Nat : f \in {e + d - 32 : e \in Generator}
                             <=> f = d \/ f \in Place(d - 1, Polynomial)
           /\ d \notin Place(d - 1, Polynomial)
<1> DEFINE G == {e + d - 32 : e \in Generator}
<1>1. \A e \in Generator : e \in 0..32
  BY DEF Generator
<1>2. 32 \in Generator
  BY DEF Generator
<1>3. G \in SUBSET Nat
  BY <1>1
<1>4. \A f : f \in Place(d - 1, Polynomial) <=> \E e \in Generator \ {32} : f = d - 1 - (31 - e)
  BY DEF Place, Polynomial
<1>5. \A e \in Generator : d - 1 - (31 - e) = e + d - 32 /\ (e + d - 32 = d <=> e = 32)
  BY <1>1
<1>6. \A f : f \in G <=> f = d \/ f \in Place(d - 1, Polynomial)
  <2>1. \A f : f \in G <=> \E e \in Generator : f = e + d - 32
    OBVIOUS
  <2> HIDE DEF G
  <2> QED BY <2>1, <1>2, <1>4, <1>5
<1>7. d \notin Place(d - 1, Polynomial)
  BY <1>4, <1>5
<1> QED BY <1>3, <1>6, <1>7

LEMMA DividedType ==
    ASSUME NEW d \in Nat, d >= 32, NEW r \in SUBSET Nat
    PROVE  Divided(r, d) \in SUBSET Nat
BY GeneratorIs, XorOfPolynomials DEF Divided

\* One step of the division is a zero bit for the register.
LEMMA DividedIs ==
    ASSUME NEW d \in Nat, d >= 32, NEW x \in Registers,
           NEW T \in SUBSET Nat, d \notin T
    PROVE  Divided(Xor(Place(d, x), T), d) = Xor(Place(d - 1, ZeroBit(x)), T)
<1> DEFINE r == Xor(Place(d, x), T)
           R == Right(x, 1)
           G == {e + d - 32 : e \in Generator}
<1>0. d - 1 \in Nat /\ d - 1 >= 31 /\ d >= 31
  OBVIOUS
<1>1. R \in Registers /\ \A i : i \in R <=> i \in Nat /\ i + 1 \in x
  BY RightIs
<1>2. r \in SUBSET Nat
  BY <1>0, PlaceIs, XorOfPolynomials
<1>3. d \in r <=> 0 \in x
  <2>1. d - d = 0
    OBVIOUS
  <2> QED BY <2>1, <1>0, PlaceIs, XorIs
<1>4. \A e \in Nat : e \in Place(d, x) <=> (e = d /\ 0 \in x) \/ e \in Place(d - 1, R)
  <2> SUFFICES ASSUME NEW e \in Nat
               PROVE  e \in Place(d, x) <=> (e = d /\ 0 \in x) \/ e \in Place(d - 1, R)
    OBVIOUS
  <2>1. e \in Place(d, x) <=> d - e \in x
    BY <1>0, PlaceIs
  <2>2. e \in Place(d - 1, R) <=> (d - 1) - e \in R
    BY <1>0, <1>1, PlaceIs
  <2>3. (d - 1) - e \in R <=> (d - 1) - e \in Nat /\ d - e \in x
    <3>1. ((d - 1) - e) + 1 = d - e
      OBVIOUS
    <3> QED BY <1>1, <3>1
  <2>4. d - e \in x => d - e \in Nat
    BY DEF Registers, Ones
  <2>5. d - e \in Nat => e = d \/ (d - 1) - e \in Nat
    OBVIOUS
  <2>6. e = d => d - e = 0 /\ ~((d - 1) - e \in Nat)
    OBVIOUS
  <2>7. d - e = 0 => e = d
    OBVIOUS
  <2> HIDE DEF R
  <2> QED BY <2>1, <2>2, <2>3, <2>4, <2>5, <2>6, <2>7
<1>5. d \notin Place(d - 1, R)
  <2>1. (d - 1) - d \notin Nat
    OBVIOUS
  <2> QED BY <2>1, <1>0, <1>1, PlaceIs
<1> HIDE DEF R
<1>6. Place(d - 1, R) \in SUBSET Nat /\ Place(d, x) \in SUBSET Nat
  BY <1>0, <1>1, PlaceIs
<1>7. CASE 0 \in x
  <2>1. ZeroBit(x) = Xor(R, Polynomial)
    BY <1>7 DEF ZeroBit, R
  <2>2. Divided(r, d) = Xor(r, G)
    BY <1>3, <1>7 DEF Divided
  <2>3. Place(d - 1, ZeroBit(x)) = Xor(Place(d - 1, R), Place(d - 1, Polynomial))
    BY <2>1, <1>0, <1>1, PolynomialIs, PlaceOfXor
  <2>4. /\ G \in SUBSET Nat /\ d \notin Place(d - 1, Polynomial)
        /\ \A f \in Nat : f \in G <=> f = d \/ f \in Place(d - 1, Polynomial)
    BY GeneratorIs
  <2>5. Place(d - 1, Polynomial) \in SUBSET Nat
    BY <1>0, PolynomialIs, PlaceIs
  <2> HIDE DEF G
  <2> DEFINE A == Place(d, x)
             B == Place(d - 1, R)
             C == Place(d - 1, Polynomial)
  <2>6. \A e \in Nat : e \in A <=> e = d \/ e \in B
    BY <1>4, <1>7
  <2>7. d \notin B /\ d \notin C /\ \A e \in Nat : e \in G <=> e = d \/ e \in C
    BY <1>5, <2>4
  <2>8. A \in SUBSET Nat /\ B \in SUBSET Nat /\ C \in SUBSET Nat /\ G \in SUBSET Nat
    BY <1>6, <2>4, <2>5
  <2>9. Divided(r, d) = Xor(Xor(A, T), G)
    BY <2>2
  <2>10. Xor(Place(d - 1, ZeroBit(x)), T) = Xor(Xor(B, C), T)
    BY <2>3
  <2> HIDE DEF A, B, C, r
  <2>11. \A e \in Nat : e \in Xor(Xor(A, T), G) <=> e \in Xor(Xor(B, C), T)
    BY <2>6, <2>7, XorIs
  <2>12. Xor(Xor(A, T), G) \in SUBSET Nat /\ Xor(Xor(B, C), T) \in SUBSET Nat
    BY <2>8, XorOfPolynomials
  <2>13. Xor(Xor(A, T), G) = Xor(Xor(B, C), T)
    BY <2>11, <2>12
  <2> QED BY <2>9, <2>10, <2>13 DEF r
<1>8. CASE 0 \notin x
  <2>1. ZeroBit(x) = R
    BY <1>8 DEF ZeroBit, R
  <2>2. Divided(r, d) = r
    BY <1>3, <1>8 DEF Divided
  <2>3. Place(d, x) = Place(d - 1, R)
    BY <1>4, <1>6, <1>8
  <2> QED BY <2>1, <2>2, <2>3
<1> QED BY <1>7, <1>8

\* Eight of them are a zero byte.
LEMMA ByteDividedIs ==
    ASSUME NEW d \in Nat, d >= 39, NEW x \in Registers,
           NEW T \in SUBSET Nat, \A e \in T : e <= d - 8
    PROVE  ByteDivided(Xor(Place(d, x), T), d) = Xor(Place(d - 8, ZeroByte(x)), T)
<1> DEFINE F == [y \in (SUBSET Nat) \X Nat |-> Divided(y[1], y[2])]
           s == [j \in 1..8 |-> d + 1 - j]
           Degrees == {e \in Nat : e >= 32}
           r == Xor(Place(d, x), T)
<1>1. \A q \in SUBSET Nat, e \in Degrees : F[<<q, e>>] = Divided(q, e)
  OBVIOUS
<1>2. Len(s) = 8 /\ s \in Seq(Degrees)
  <2>1. s \in [1..8 -> Degrees]
    OBVIOUS
  <2> HIDE DEF s, Degrees
  <2> QED BY <2>1, SequenceIs
<1>3. \A j \in 1..8 : s[j] = d - (j - 1) /\ d - (j - 1) \in Degrees
  OBVIOUS
<1>4. ByteDivided(r, d) = Loop(F, r, s)
  BY DEF ByteDivided
<1>5. r \in SUBSET Nat
  BY PlaceIs, XorOfPolynomials
<1>6. \A e \in Degrees : e \in Nat /\ e >= 32
  OBVIOUS
<1> HIDE DEF F, s, r, Degrees
<1>7. Closed(F, Polynomials, Degrees)
  <2> SUFFICES ASSUME NEW q \in SUBSET Nat, NEW e \in Degrees PROVE F[<<q, e>>] \in SUBSET Nat
    BY DEF Closed, Polynomials
  <2> QED BY <1>1, <1>6, DividedType
<1>8. PICK p \in [0..8 -> SUBSET Nat] : Passes(F, r, s, p) /\ p[8] = ByteDivided(r, d)
  <2>1. r \in Polynomials
    BY <1>5 DEF Polynomials
  <2>2. PICK p \in [0..Len(s) -> Polynomials] : Passes(F, r, s, p) /\ p[Len(s)] = Loop(F, r, s)
    <3>1. s \in Seq(Degrees)
      BY <1>2
    <3> QED BY <2>1, <3>1, <1>7, LoopRuns
  <2> QED BY <2>2, <1>2, <1>4 DEF Polynomials
<1>9. p[0] = r
  BY <1>8 DEF Passes
<1>10. ASSUME NEW j \in 1..8 PROVE p[j] = Divided(p[j - 1], d - (j - 1))
  <2>1. j - 1 \in 0..8 /\ s[j] \in Degrees
    BY <1>3
  <2>2. p[j] = F[<<p[j - 1], s[j]>>]
    BY <1>2, <1>8 DEF Passes
  <2> QED BY <1>1, <1>3, <2>1, <2>2
<1>11. ASSUME NEW j \in 1..8, NEW y \in Registers, p[j - 1] = Xor(Place(d - (j - 1), y), T)
       PROVE  p[j] = Xor(Place(d - j, ZeroBit(y)), T)
  <2>1. d - (j - 1) \in Nat /\ d - (j - 1) >= 32 /\ (d - (j - 1)) - 1 = d - j
    OBVIOUS
  <2>2. d - (j - 1) \notin T
    OBVIOUS
  <2>3. Divided(Xor(Place(d - (j - 1), y), T), d - (j - 1)) = Xor(Place((d - (j - 1)) - 1, ZeroBit(y)), T)
    BY <2>1, <2>2, DividedIs
  <2> QED BY <2>1, <2>3, <1>10, <1>11
<1> DEFINE x1 == ZeroBit(x)
           x2 == ZeroBit(x1)
           x3 == ZeroBit(x2)
           x4 == ZeroBit(x3)
           x5 == ZeroBit(x4)
           x6 == ZeroBit(x5)
           x7 == ZeroBit(x6)
           x8 == ZeroBit(x7)
<1>12. x8 = ZeroByte(x)
  BY ZeroByteIs
<1> DEFINE Reached(j, y) == y \in Registers /\ p[j] = Xor(Place(d - j, y), T)
<1>13. \A y : \A j \in 1..8 : Reached(j - 1, y) => Reached(j, ZeroBit(y))
  BY <1>11, ZeroBitType
<1>14. Reached(0, x)
  <2>1. d - 0 = d
    OBVIOUS
  <2> QED BY <2>1, <1>9 DEF r
<1> HIDE DEF Reached
<1>15. /\ 1 \in 1..8 /\ 2 \in 1..8 /\ 3 \in 1..8 /\ 4 \in 1..8
       /\ 5 \in 1..8 /\ 6 \in 1..8 /\ 7 \in 1..8 /\ 8 \in 1..8
       /\ 1 - 1 = 0 /\ 2 - 1 = 1 /\ 3 - 1 = 2 /\ 4 - 1 = 3
       /\ 5 - 1 = 4 /\ 6 - 1 = 5 /\ 7 - 1 = 6 /\ 8 - 1 = 7
  OBVIOUS
<1>16. Reached(4, x4)
  BY <1>13, <1>14, <1>15
<1>17. Reached(8, x8)
  <2> HIDE DEF x4
  <2> QED BY <1>13, <1>15, <1>16
<1> QED BY <1>8, <1>12, <1>17 DEF Reached, r

LEMMA ByteDividedType ==
    ASSUME NEW d \in Nat, d >= 39, NEW r \in SUBSET Nat
    PROVE  ByteDivided(r, d) \in SUBSET Nat
<1> DEFINE F == [y \in (SUBSET Nat) \X Nat |-> Divided(y[1], y[2])]
           s == [j \in 1..8 |-> d + 1 - j]
           Degrees == {e \in Nat : e >= 32}
<1>1. \A q \in SUBSET Nat, e \in Degrees : F[<<q, e>>] = Divided(q, e)
  OBVIOUS
<1>2. s \in Seq(Degrees)
  <2>1. s \in [1..8 -> Degrees]
    OBVIOUS
  <2> HIDE DEF s, Degrees
  <2> QED BY <2>1, SequenceIs
<1>4. ByteDivided(r, d) = Loop(F, r, s)
  BY DEF ByteDivided
<1>6. \A e \in Degrees : e \in Nat /\ e >= 32
  OBVIOUS
<1> HIDE DEF F, s, Degrees
<1>7. Closed(F, Polynomials, Degrees)
  <2> SUFFICES ASSUME NEW q \in SUBSET Nat, NEW e \in Degrees PROVE F[<<q, e>>] \in SUBSET Nat
    BY DEF Closed, Polynomials
  <2> QED BY <1>1, <1>6, DividedType
<1>8. Loop(F, r, s) \in Polynomials
  <2>1. r \in Polynomials
    BY DEF Polynomials
  <2> HIDE DEF Polynomials
  <2> QED BY <2>1, <1>2, <1>7, LoopType
<1> QED BY <1>4, <1>8 DEF Polynomials

\* The bytes of a message behind the first k.
Behind(buf, k) ==
    UNION {{8 * (Len(buf) - i) + 7 - j + 32 : j \in buf[i]} : i \in (k + 1)..Len(buf)}

LEMMA TailIs ==
    ASSUME NEW buf \in Seq(Bytes), NEW k \in Nat, k <= Len(buf)
    PROVE  /\ Behind(buf, k) \in SUBSET Nat
           /\ \A e \in Behind(buf, k) : e <= 8 * (Len(buf) - k) + 31
           /\ k < Len(buf) =>
                Behind(buf, k) = Xor(Place(8 * (Len(buf) - k) + 31, buf[k + 1]), Behind(buf, k + 1))
           /\ k = Len(buf) => Behind(buf, k) = {}
<1> DEFINE n == Len(buf)
           At(i) == {8 * (n - i) + 7 - j + 32 : j \in buf[i]}
<1>1. n \in Nat /\ \A i \in 1..n : buf[i] \in Bytes
  OBVIOUS
<1>2. \A m, e : e \in Behind(buf, m) <=> \E i \in (m + 1)..n : e \in At(i)
  BY DEF Behind
<1> HIDE DEF n
<1>3. ASSUME NEW i \in 1..n
      PROVE  /\ \A e \in At(i) : e \in Nat /\ e <= 8 * (n - i) + 39 /\ 8 * (n - i) + 32 <= e
             /\ At(i) = Place(8 * (n - i) + 39, buf[i])
  <2>1. \A j \in buf[i] : j \in 0..7
    BY <1>1 DEF Bytes
  <2>2. \A j \in 0..7 : /\ 8 * (n - i) + 7 - j + 32 = 8 * (n - i) + 39 - j
                        /\ 8 * (n - i) + 39 - j \in Nat
                        /\ 8 * (n - i) + 39 - j <= 8 * (n - i) + 39
                        /\ 8 * (n - i) + 32 <= 8 * (n - i) + 39 - j
    BY <1>1
  <2>3. \A e : e \in At(i) <=> \E j \in buf[i] : e = 8 * (n - i) + 39 - j
    BY <2>1, <2>2
  <2> HIDE DEF At
  <2>4. At(i) = Place(8 * (n - i) + 39, buf[i])
    <3>0. buf[i] \in Registers
      BY <1>1, ByteIsRegister
    <3>1. PICK d \in Nat : d = 8 * (n - i) + 39
      BY <1>1
    <3>2. \A j \in buf[i] : d - j \in At(i)
      BY <1>1, <2>1, <2>3, <3>1
    <3>3. \A e \in At(i) : \E j \in buf[i] : e = d - j
      BY <1>1, <2>1, <2>3, <3>1
    <3>4. At(i) = Place(d, buf[i])
      BY <3>0, <3>2, <3>3, PlacedBits
    <3> QED BY <3>1, <3>4
  <2>5. ASSUME NEW e \in At(i)
        PROVE  e \in Nat /\ e <= 8 * (n - i) + 39 /\ 8 * (n - i) + 32 <= e
    <3>1. PICK j \in buf[i] : e = 8 * (n - i) + 39 - j
      BY <2>3
    <3>2. j \in 0..7
      BY <2>1
    <3> QED BY <2>2, <3>1, <3>2
  <2> QED BY <2>4, <2>5
<1> HIDE DEF At
<1>4. \A i \in (k + 1)..n : i \in 1..n /\ 8 * (n - i) + 39 <= 8 * (n - k) + 31
  BY <1>1
<1>5. /\ Behind(buf, k) \in SUBSET Nat
      /\ \A e \in Behind(buf, k) : e <= 8 * (n - k) + 31
  <2> SUFFICES ASSUME NEW e \in Behind(buf, k)
               PROVE  e \in Nat /\ e <= 8 * (n - k) + 31
    OBVIOUS
  <2>1. PICK i \in (k + 1)..n : e \in At(i)
    BY <1>2
  <2>2. i \in 1..n /\ 8 * (n - i) + 39 <= 8 * (n - k) + 31
    BY <1>4
  <2>3. e \in Nat /\ e <= 8 * (n - i) + 39
    BY <2>1, <2>2, <1>3
  <2> QED BY <2>2, <2>3, <1>1
<1>6. ASSUME k < n
      PROVE  Behind(buf, k) = Xor(Place(8 * (n - k) + 31, buf[k + 1]), Behind(buf, k + 1))
  <2>1. k + 1 \in 1..n /\ 8 * (n - (k + 1)) + 39 = 8 * (n - k) + 31
    BY <1>1, <1>6
  <2>2. At(k + 1) = Place(8 * (n - k) + 31, buf[k + 1])
    BY <2>1, <1>3
  <2>3. \A i : i \in (k + 1)..n <=> i = k + 1 \/ i \in ((k + 1) + 1)..n
    BY <1>1, <1>6
  <2>4. \A e : e \in Behind(buf, k) <=> e \in At(k + 1) \/ e \in Behind(buf, k + 1)
    BY <1>2, <2>3
  <2>5. \A e : ~(e \in At(k + 1) /\ e \in Behind(buf, k + 1))
    <3> SUFFICES ASSUME NEW e \in At(k + 1), NEW i \in ((k + 1) + 1)..n, e \in At(i) PROVE FALSE
      BY <1>2
    <3>1. i \in 1..n /\ 8 * (n - i) + 39 <= 8 * (n - (k + 1)) + 31
      BY <1>1
    <3>2. e \in Nat /\ e <= 8 * (n - i) + 39 /\ 8 * (n - (k + 1)) + 32 <= e
      BY <3>1, <2>1, <1>3
    <3> QED BY <3>1, <3>2, <1>1
  <2>6. \A e : e \in Behind(buf, k) <=> e \in Xor(At(k + 1), Behind(buf, k + 1))
    BY <2>4, <2>5, XorIs
  <2> QED BY <2>2, <2>6
<1>7. ASSUME k = n PROVE Behind(buf, k) = {}
  <2>1. (k + 1)..n = {}
    BY <1>1, <1>7
  <2> QED BY <2>1, <1>2
<1> QED BY <1>5, <1>6, <1>7 DEF n

LEMMA RemainderIs ==
    ASSUME NEW buf \in Seq(Bytes)
    PROVE  Remainder(Xor(Message(buf), {8 * Len(buf) + i : i \in Ones}), Len(buf)) =
               Place(31, Single(Ones, buf))
<1> DEFINE n == Len(buf)
           F == [y \in (SUBSET Nat) \X Nat |-> ByteDivided(y[1], y[2])]
           s == [i \in 1..n |-> 39 + 8 * (n - i)]
           Degrees == {e \in Nat : e >= 39}
           r == Xor(Message(buf), {8 * n + i : i \in Ones})
           T(k) == Behind(buf, k)
<1>1. n \in Nat /\ \A i \in 1..n : buf[i] \in Bytes
  OBVIOUS
<1>2. s \in Seq(Degrees) /\ Len(s) = n /\ \A k \in 1..n : s[k] = 39 + 8 * (n - k)
  <2>1. s \in [1..n -> Degrees] /\ \A k \in 1..n : s[k] = 39 + 8 * (n - k)
    BY <1>1
  <2> HIDE DEF s, Degrees, n
  <2> QED BY <2>1, <1>1, SequenceIs
<1>3. \A q \in SUBSET Nat, e \in Degrees : F[<<q, e>>] = ByteDivided(q, e)
  OBVIOUS
<1>4. Remainder(r, n) = Loop(F, r, s)
  BY DEF Remainder
<1>5. PICK x \in [0..n -> Registers] :
          /\ x[0] = Ones /\ x[n] = Single(Ones, buf)
          /\ \A k \in 1..n : x[k] = STEP1(x[k - 1], buf[k])
  BY ComplementIs, SingleRuns
<1>6. Message(buf) = T(0)
  <2>1. 0 + 1 = 1
    OBVIOUS
  <2> QED BY <2>1 DEF Message, Behind
<1>7. r = Xor(Place(8 * (n - 0) + 31, Ones), T(0))
  <2>1. {8 * n + i : i \in Ones} = Place(8 * (n - 0) + 31, Ones)
    <3>1. \A i \in Ones : 31 - i \in Ones /\ 8 * n + i = 8 * (n - 0) + 31 - (31 - i)
                          /\ 8 * (n - 0) + 31 - i = 8 * n + (31 - i)
      BY <1>1 DEF Ones
    <3> HIDE DEF n
    <3> DEFINE S == {8 * n + i : i \in Ones}
    <3>2. \A i \in Ones : 8 * n + i \in S
      OBVIOUS
    <3>3. \A f \in S : \E i \in Ones : f = 8 * n + i
      OBVIOUS
    <3> HIDE DEF S
    <3>4. PICK d \in Nat : d = 8 * (n - 0) + 31
      BY <1>1
    <3>5. \A i \in Ones : d - i \in S
      <4> SUFFICES ASSUME NEW i \in Ones PROVE d - i \in S
        OBVIOUS
      <4>1. 8 * n + (31 - i) \in S
        BY <3>1, <3>2
      <4>2. d - i = 8 * n + (31 - i)
        BY <1>1, <3>4 DEF Ones
      <4> QED BY <4>1, <4>2
    <3>6. \A f \in S : \E i \in Ones : f = d - i
      BY <1>1, <3>1, <3>3, <3>4 DEF Ones
    <3>7. S = Place(d, Ones)
      BY <3>5, <3>6, ComplementIs, PlacedBits
    <3> QED BY <3>4, <3>7 DEF S
  <2> QED BY <2>1, <1>6, XorCommutes
<1>8. \A e \in Degrees : e \in Nat /\ e >= 39
  OBVIOUS
<1> HIDE DEF F, s, r, Degrees, n
<1>9. ASSUME NEW k \in 1..n
      PROVE  /\ F[<<Xor(Place(8 * (n - (k - 1)) + 31, x[k - 1]), T(k - 1)), s[k]>>] =
                   Xor(Place(8 * (n - k) + 31, x[k]), T(k))
  <2> DEFINE d == 39 + 8 * (n - k)
             y == Xor(x[k - 1], buf[k])
             q == Xor(Place(d, y), T(k))
  <2>1. /\ 8 * (n - (k - 1)) + 31 = d /\ d - 8 = 8 * (n - k) + 31
        /\ d \in Nat /\ d >= 39 /\ d >= 31
        /\ k \in Nat /\ k <= n /\ k - 1 \in Nat /\ k - 1 < n /\ k - 1 <= n /\ (k - 1) + 1 = k
        /\ k - 1 \in 0..n
    BY <1>1
  <2>2. x[k - 1] \in Registers /\ buf[k] \in Bytes /\ buf[k] \in Registers /\ y \in Registers
    BY <2>1, <1>1, ByteIsRegister, XorType DEF Registers
  <2>3. T(k - 1) = Xor(Place(8 * (n - (k - 1)) + 31, buf[(k - 1) + 1]), T((k - 1) + 1))
    BY <2>1, TailIs DEF n
  <2>4. T(k - 1) = Xor(Place(d, buf[k]), T(k))
    BY <2>1, <2>3
  <2>5. Place(d, y) = Xor(Place(d, x[k - 1]), Place(d, buf[k]))
    BY <2>1, <2>2, PlaceOfXor
  <2>6. T(k) \in SUBSET Nat /\ \A e \in T(k) : e <= d - 8
    BY <2>1, TailIs DEF n
  <2> HIDE DEF d, y
  <2>7. Xor(Place(d, x[k - 1]), T(k - 1)) = q
    BY <2>4, <2>5, XorAssociates
  <2>8. q \in SUBSET Nat
    <3>1. Place(d, y) \in SUBSET Nat
      BY <2>1, <2>2, PlaceIs
    <3> QED BY <3>1, <2>6, XorOfPolynomials
  <2>9. ByteDivided(q, d) = Xor(Place(d - 8, ZeroByte(y)), T(k))
    BY <2>1, <2>2, <2>6, ByteDividedIs
  <2>10. ZeroByte(y) = x[k]
    BY <2>2, <1>5, STEP1Is DEF y
  <2>11. s[k] = d /\ s[k] \in Degrees
    BY <1>2 DEF d
  <2> HIDE DEF q, T
  <2>12. F[<<q, s[k]>>] = ByteDivided(q, d)
    BY <2>8, <2>11, <1>3
  <2> QED BY <2>1, <2>7, <2>9, <2>10, <2>12
<1> DEFINE p == [k \in 0..n |-> Xor(Place(8 * (n - k) + 31, x[k]), T(k))]
<1>10. Passes(F, r, s, p)
  <2>1. p[0] = r
    BY <1>1, <1>5, <1>7
  <2>2. ASSUME NEW k \in 1..n PROVE p[k] = F[<<p[k - 1], s[k]>>]
    <3>1. k - 1 \in 0..n /\ k \in 0..n
      BY <1>1
    <3> HIDE DEF T
    <3>2. p[k - 1] = Xor(Place(8 * (n - (k - 1)) + 31, x[k - 1]), T(k - 1))
      BY <3>1
    <3>3. p[k] = Xor(Place(8 * (n - k) + 31, x[k]), T(k))
      BY <3>1
    <3> HIDE DEF p
    <3> QED BY <3>2, <3>3, <1>9
  <2> HIDE DEF p
  <2> QED BY <2>1, <2>2, <1>2 DEF Passes
<1>11. Closed(F, Polynomials, Degrees)
  <2> SUFFICES ASSUME NEW q \in SUBSET Nat, NEW e \in Degrees PROVE F[<<q, e>>] \in SUBSET Nat
    BY DEF Closed, Polynomials
  <2>1. e \in Nat /\ e >= 39
    BY <1>8
  <2>2. ByteDivided(q, e) \in SUBSET Nat
    BY <2>1, ByteDividedType
  <2> QED BY <2>2, <1>3
<1>12. r \in Polynomials
  <2>1. 0 \in 0..n /\ 8 * (n - 0) + 31 \in Nat /\ 8 * (n - 0) + 31 >= 31 /\ 0 \in Nat /\ 0 <= n
    BY <1>1
  <2>2. T(0) \in SUBSET Nat
    BY <2>1, TailIs DEF n
  <2>3. Place(8 * (n - 0) + 31, Ones) \in SUBSET Nat
    BY <2>1, ComplementIs, PlaceIs
  <2> QED BY <1>7, <2>2, <2>3, XorOfPolynomials DEF Polynomials
<1>13. Loop(F, r, s) = p[Len(s)]
  <2>1. s \in Seq(Degrees)
    BY <1>2
  <2> HIDE DEF p
  <2> QED BY <2>1, <1>10, <1>11, <1>12, LoopIs
<1>14. p[n] = Place(31, Single(Ones, buf))
  <2>1. n \in 0..n /\ 8 * (n - n) + 31 = 31 /\ n \in Nat /\ n <= n
    BY <1>1
  <2>2. T(n) = {}
    BY <2>1, TailIs DEF n
  <2> HIDE DEF T
  <2>3. p[n] = Xor(Place(31, x[n]), T(n))
    BY <2>1
  <2> QED BY <2>2, <2>3, <1>5, XorEmpty
<1> QED BY <1>2, <1>4, <1>13, <1>14 DEF r, n

\* The tables and loops compute what the definition of CRC-32C says, wherever
\* the string is.
THEOREM ValueIsCrc32c ==
    ASSUME NEW buf \in Seq(Bytes), NEW pval \in Nat
    PROVE  Value(buf, pval) = Crc32c(buf)
<1>1. Value(buf, pval) = Xor(Single(Ones, buf), Ones)
  BY ComplementIs, ExtendIs DEF Value
<1>2. Single(Ones, buf) \in Registers
  BY ComplementIs, SingleType
<1> DEFINE w == Single(Ones, buf)
<1>3. Crc32c(buf) = Ones \ {31 - e : e \in Place(31, w)}
  BY RemainderIs DEF Crc32c
<1>4. \A i \in w : i \in Ones
  BY <1>2 DEF Registers
<1> HIDE DEF w
<1>5. \A i \in w : 31 - (31 - i) = i
  <2>1. \A i \in Ones : 31 - (31 - i) = i
    BY DEF Ones
  <2> QED BY <2>1, <1>4
<1>6. {31 - e : e \in Place(31, w)} = w
  BY <1>5 DEF Place
<1>7. Xor(w, Ones) = Ones \ w
  BY <1>4 DEF Xor
<1> QED BY <1>1, <1>3, <1>6, <1>7 DEF w

-----------------------------------------------------------------------------
(* One byte changed. *)

LEMMA XorOfBytes ==
    \A b \in Bytes, v \in Bytes : Xor(b, v) \in Bytes /\ (v # {} => Xor(b, v) # b)
<1>1. \A b \in Bytes, v \in Bytes : Xor(b, v) \in Bytes
  BY XorType DEF Bytes
<1>2. \A b, v : Xor(b, v) = b => v = {}
  BY DEF Xor
<1> QED BY <1>1, <1>2

LEMMA STEP1Injective ==
    /\ \A v \in Registers, w \in Registers, b \in Bytes : STEP1(v, b) = STEP1(w, b) => v = w
    /\ \A v \in Registers, b \in Bytes, c \in Bytes : STEP1(v, b) = STEP1(v, c) => b = c
<1>1. \A v \in Registers, b \in Bytes : Xor(v, b) \in Registers
  BY ByteIsRegister, XorType DEF Registers
<1>2. ASSUME NEW v \in Registers, NEW w \in Registers, NEW b \in Bytes, NEW c \in Bytes,
             STEP1(v, b) = STEP1(w, c)
      PROVE  Xor(v, b) = Xor(w, c)
  <2>1. ZeroByte(Xor(v, b)) = ZeroByte(Xor(w, c))
    BY <1>2, STEP1Is
  <2> QED BY <2>1, <1>1, ZeroByteLinear
<1>3. \A v \in Registers, w \in Registers, b \in Bytes : STEP1(v, b) = STEP1(w, b) => v = w
  BY <1>2, XorCancels
<1>4. \A v \in Registers, b \in Bytes, c \in Bytes : STEP1(v, b) = STEP1(v, c) => b = c
  BY <1>2, XorCancels, XorCommutes
<1> QED BY <1>3, <1>4

LEMMA SingleDiffers ==
    ASSUME NEW l \in Registers, NEW s \in Seq(Bytes), NEW t \in Seq(Bytes), Len(s) = Len(t),
           NEW k \in 1..Len(s), s[k] # t[k], \A j \in 1..Len(s) : j # k => s[j] = t[j]
    PROVE  Single(l, s) # Single(l, t)
<1> DEFINE n == Len(s)
<1>0. n \in Nat /\ n = Len(t) /\ \A j \in 1..n : s[j] \in Bytes /\ t[j] \in Bytes
  OBVIOUS
<1>1. PICK p \in [0..n -> Registers] :
          /\ p[0] = l /\ p[n] = Single(l, s)
          /\ \A j \in 1..n : p[j] = STEP1(p[j - 1], s[j])
  BY SingleRuns
<1>2. PICK q \in [0..n -> Registers] :
          /\ q[0] = l /\ q[n] = Single(l, t)
          /\ \A j \in 1..n : q[j] = STEP1(q[j - 1], t[j])
  <2>1. PICK q \in [0..Len(t) -> Registers] :
            /\ q[0] = l /\ q[Len(t)] = Single(l, t)
            /\ \A j \in 1..Len(t) : q[j] = STEP1(q[j - 1], t[j])
    BY SingleRuns
  <2> QED BY <2>1
<1> HIDE DEF n
<1> DEFINE P == {j \in Nat : j <= n => (p[j] = q[j] <=> j < k)}
<1>3. k \in 1..n
  BY DEF n
<1>4. 0 \in P
  BY <1>0, <1>1, <1>2, <1>3
<1>5. \A j \in P \cap Nat : j + 1 \in P
  <2> SUFFICES ASSUME NEW j \in P, j \in Nat, j + 1 <= n
               PROVE  p[j + 1] = q[j + 1] <=> j + 1 < k
    OBVIOUS
  <2>1. j + 1 \in 1..n /\ (j + 1) - 1 = j /\ j \in 0..n /\ j <= n
    BY <1>0
  <2>2. p[j] = q[j] <=> j < k
    BY <2>1
  <2>3. p[j + 1] = STEP1(p[j], s[j + 1]) /\ q[j + 1] = STEP1(q[j], t[j + 1])
    BY <2>1, <1>1, <1>2
  <2>4. p[j] \in Registers /\ q[j] \in Registers /\ s[j + 1] \in Bytes /\ t[j + 1] \in Bytes
    BY <2>1, <1>0
  <2>5. CASE j + 1 = k
    <3>1. p[j] = q[j] /\ s[j + 1] # t[j + 1]
      BY <2>2, <2>5, <1>3
    <3> QED BY <2>3, <2>4, <2>5, <3>1, <1>3, STEP1Injective
  <2>6. CASE j + 1 # k
    <3>1. s[j + 1] = t[j + 1]
      BY <2>1, <2>6 DEF n
    <3>2. p[j + 1] = q[j + 1] <=> p[j] = q[j]
      BY <2>3, <2>4, <3>1, STEP1Injective
    <3>3. j < k <=> j + 1 < k
      BY <2>6, <1>3
    <3> QED BY <2>2, <3>2, <3>3
  <2> QED BY <2>5, <2>6
<1> HIDE DEF P
<1>6. Nat \subseteq P
  BY <1>4, <1>5, Induction
<1>7. n \in P /\ ~(n < k)
  BY <1>0, <1>3, <1>6
<1> QED BY <1>0, <1>1, <1>2, <1>7 DEF P

-----------------------------------------------------------------------------
(* Addition, subtraction and rotation. *)

\* The carries of an addition.
IsCarry(v, w, c) ==
    /\ c \in SUBSET Ones /\ 0 \notin c
    /\ \A i \in 0..30 : i + 1 \in c <=> \/ i \in v /\ i \in w
                                        \/ (i \in v \/ i \in w) /\ i \in c

LEMMA CarryExists ==
    ASSUME NEW v, NEW w
    PROVE  \E c : IsCarry(v, w, c)
<1> DEFINE From(i, j) == /\ j < i /\ j \in v /\ j \in w
                         /\ \A m \in Ones : j < m /\ m < i => m \in v \/ m \in w
           c == {i \in Ones : \E j \in Ones : From(i, j)}
<1>1. 0 \notin c
  BY DEF Ones
<1>2. ASSUME NEW i \in 0..30
      PROVE  i + 1 \in c <=> \/ i \in v /\ i \in w
                             \/ (i \in v \/ i \in w) /\ i \in c
  <2>1. i \in Ones /\ i + 1 \in Ones
    BY DEF Ones
  <2>2. ASSUME i \in v, i \in w PROVE i + 1 \in c
    <3>1. From(i + 1, i)
      BY <2>1, <2>2 DEF Ones
    <3> QED BY <2>1, <3>1
  <2>3. ASSUME i \in v \/ i \in w, i \in c PROVE i + 1 \in c
    <3>1. PICK j \in Ones : From(i, j)
      BY <2>3
    <3>2. From(i + 1, j)
      BY <2>1, <2>3, <3>1 DEF Ones
    <3> QED BY <2>1, <3>2
  <2>4. ASSUME i + 1 \in c PROVE \/ i \in v /\ i \in w
                                 \/ (i \in v \/ i \in w) /\ i \in c
    <3>1. PICK j \in Ones : From(i + 1, j)
      BY <2>4
    <3>2. CASE j = i
      BY <3>1, <3>2
    <3>3. CASE j # i
      <4>1. j < i
        BY <2>1, <3>1, <3>3 DEF Ones
      <4>2. From(i, j)
        BY <2>1, <3>1, <3>3 DEF Ones
      <4>3. i \in c
        BY <2>1, <4>2
      <4>4. i \in v \/ i \in w
        BY <2>1, <3>1, <3>3 DEF Ones
      <4> QED BY <4>3, <4>4
    <3> QED BY <3>2, <3>3
  <2> HIDE DEF c
  <2> QED BY <2>2, <2>3, <2>4
<1>3. c \in SUBSET Ones
  OBVIOUS
<1> HIDE DEF c
<1>4. IsCarry(v, w, c)
  BY <1>1, <1>2, <1>3 DEF IsCarry
<1> QED BY <1>4

LEMMA PlusIs ==
    ASSUME NEW v \in Registers, NEW w \in Registers
    PROVE  /\ Plus(v, w) \in Registers
           /\ \E c : IsCarry(v, w, c) /\ Plus(v, w) = Xor(Xor(v, w), c)
<1> DEFINE Eq(f) == f = [i \in Ones |-> i > 0 /\ \/ i - 1 \in v \cap w
                                                 \/ i - 1 \in v \cup w /\ f[i - 1]]
           carry == CHOOSE f : Eq(f)
<1>1. PICK c : IsCarry(v, w, c)
  BY CarryExists
<1>2. Eq([i \in Ones |-> i \in c])
  <2> DEFINE f == [i \in Ones |-> i \in c]
  <2>1. ASSUME NEW i \in Ones
        PROVE  i \in c <=> i > 0 /\ (i - 1 \in v \cap w \/ (i - 1 \in v \cup w /\ f[i - 1]))
    <3>1. CASE i = 0
      BY <1>1, <3>1 DEF IsCarry
    <3>2. CASE i # 0
      <4>1. i > 0 /\ i - 1 \in 0..30 /\ (i - 1) + 1 = i /\ i - 1 \in Ones
        BY <3>2 DEF Ones
      <4>2. f[i - 1] = (i - 1 \in c)
        BY <4>1
      <4> HIDE DEF f
      <4> QED BY <4>1, <4>2, <1>1 DEF IsCarry
    <3> QED BY <3>1, <3>2
  <2> QED BY <2>1
<1>3. Eq(carry)
  BY <1>2
<1>4. Plus(v, w) = Xor(Xor(v, w), {i \in Ones : carry[i]})
  BY DEF Plus
<1> DEFINE d == {i \in Ones : carry[i]}
<1> HIDE DEF carry
<1>5. \A i \in Ones : i \in d <=> i > 0 /\ (i - 1 \in v \cap w \/ (i - 1 \in v \cup w /\ carry[i - 1]))
  BY <1>3
<1>6. IsCarry(v, w, d)
  <2>1. 0 \notin d
    BY <1>5
  <2>2. ASSUME NEW i \in 0..30
        PROVE  i + 1 \in d <=> \/ i \in v /\ i \in w
                               \/ (i \in v \/ i \in w) /\ i \in d
    <3>1. i + 1 \in Ones /\ i \in Ones /\ i + 1 > 0 /\ (i + 1) - 1 = i
      BY DEF Ones
    <3>2. i \in d <=> carry[i]
      BY <3>1
    <3> HIDE DEF d
    <3> QED BY <3>1, <3>2, <1>5
  <2>3. d \in SUBSET Ones
    OBVIOUS
  <2> HIDE DEF d
  <2> QED BY <2>1, <2>2, <2>3 DEF IsCarry
<1>7. Plus(v, w) \in Registers
  <2>1. d \in SUBSET Ones
    OBVIOUS
  <2> QED BY <2>1, <1>4 DEF Xor, Registers
<1> QED BY <1>4, <1>6, <1>7

LEMMA MinusIs ==
    ASSUME NEW v \in Registers, NEW w \in Registers
    PROVE  /\ Minus(v, w) \in Registers
           /\ \E t \in Registers : \E c, d :
                  /\ IsCarry(v, Ones \ w, c) /\ t = Xor(Xor(v, Ones \ w), c)
                  /\ IsCarry(t, {0}, d) /\ Minus(v, w) = Xor(Xor(t, {0}), d)
<1>1. Ones \ w \in Registers /\ {0} \in Registers
  BY DEF Registers, Ones
<1> DEFINE t == Plus(v, Ones \ w)
<1>2. t \in Registers /\ \E c : IsCarry(v, Ones \ w, c) /\ t = Xor(Xor(v, Ones \ w), c)
  BY <1>1, PlusIs
<1>3. Minus(v, w) = Plus(t, {0})
  BY DEF Minus
<1> HIDE DEF t
<1>4. Plus(t, {0}) \in Registers
      /\ \E d : IsCarry(t, {0}, d) /\ Plus(t, {0}) = Xor(Xor(t, {0}), d)
  BY <1>1, <1>2, PlusIs
<1> QED BY <1>2, <1>3, <1>4

\* Of three carries, just one goes into each place; the last is the 1 that
\* completes the complement.
OneCarry(i, a, b, c) ==
    \/ i \in a /\ i \notin b /\ ~(i \in c \/ i = 0)
    \/ i \notin a /\ i \in b /\ ~(i \in c \/ i = 0)
    \/ i \notin a /\ i \notin b /\ (i \in c \/ i = 0)

LEMMA Everywhere ==
    ASSUME NEW a, NEW b, NEW c, OneCarry(0, a, b, c),
           \A i \in 0..30 : OneCarry(i, a, b, c) => OneCarry(i + 1, a, b, c)
    PROVE  \A i \in Ones : OneCarry(i, a, b, c)
<1> DEFINE P == {i \in Nat : i <= 31 => OneCarry(i, a, b, c)}
<1>1. 0 \in P
  OBVIOUS
<1>2. \A i \in P \cap Nat : i + 1 \in P
  <2> SUFFICES ASSUME NEW i \in P, i \in Nat, i + 1 <= 31 PROVE OneCarry(i + 1, a, b, c)
    OBVIOUS
  <2>1. i \in 0..30 /\ i <= 31
    OBVIOUS
  <2> QED BY <2>1
<1> HIDE DEF P
<1>3. Nat \subseteq P
  BY <1>1, <1>2, Induction
<1> QED BY <1>3 DEF P, Ones

LEMMA MinusOfPlus ==
    ASSUME NEW r \in Registers, NEW k \in Registers
    PROVE  Minus(Plus(r, k), k) = r
<1> DEFINE s == Plus(r, k)
           u == Minus(s, k)
           n == Ones \ k
<1>1. s \in Registers
  BY PlusIs
<1>2. PICK a : IsCarry(r, k, a) /\ s = Xor(Xor(r, k), a)
  BY PlusIs
<1>3. u \in Registers
  BY <1>1, MinusIs
<1>4. PICK t, b, c :
          /\ t \in Registers
          /\ IsCarry(s, n, b) /\ t = Xor(Xor(s, n), b)
          /\ IsCarry(t, {0}, c) /\ u = Xor(Xor(t, {0}), c)
  BY <1>1, MinusIs
<1> HIDE DEF s, u
<1>5. \A i \in Ones : /\ i \in n <=> i \notin k
                      /\ i \in s <=> ~((i \in r <=> i \notin k) <=> i \in a)
                      /\ i \in t <=> ~((i \in s <=> i \in k) <=> i \in b)
                      /\ i \in u <=> ~((i \in t <=> i # 0) <=> i \in c)
  BY <1>2, <1>4, XorIs
<1>6. OneCarry(0, a, b, c)
  BY <1>2, <1>4 DEF OneCarry, IsCarry
<1>7. ASSUME NEW i \in 0..30, OneCarry(i, a, b, c) PROVE OneCarry(i + 1, a, b, c)
  <2>1. i \in Ones /\ i + 1 # 0
    BY DEF Ones
  <2>2. /\ i + 1 \in a <=> (i \in r /\ i \in k) \/ ((i \in r \/ i \in k) /\ i \in a)
        /\ i + 1 \in b <=> (i \in s /\ i \notin k) \/ ((i \in s \/ i \notin k) /\ i \in b)
        /\ i + 1 \in c <=> i \in t /\ (i \in c \/ i = 0)
    <3>1. i \in n <=> i \notin k
      BY <2>1
    <3>2. i + 1 \in c <=> (i \in t /\ i \in {0}) \/ ((i \in t \/ i \in {0}) /\ i \in c)
      BY <1>4 DEF IsCarry
    <3>3. i \in c => i # 0
      BY <1>4 DEF IsCarry
    <3> HIDE DEF n
    <3> QED BY <1>2, <1>4, <3>1, <3>2, <3>3 DEF IsCarry
  <2> QED BY <1>5, <1>7, <2>1, <2>2 DEF OneCarry
<1>8. \A i \in Ones : OneCarry(i, a, b, c)
  BY <1>6, <1>7, Everywhere
<1>9. \A i \in Ones : i \in u <=> i \in r
  BY <1>4, <1>5, <1>8 DEF OneCarry, IsCarry
<1>10. u = r
  BY <1>3, <1>9 DEF Registers
<1> QED BY <1>10 DEF u, s

LEMMA PlusOfMinus ==
    ASSUME NEW m \in Registers, NEW k \in Registers
    PROVE  Plus(Minus(m, k), k) = m
<1> DEFINE u == Minus(m, k)
           v == Plus(u, k)
           n == Ones \ k
<1>1. u \in Registers
  BY MinusIs
<1>2. PICK t, a, c :
          /\ t \in Registers
          /\ IsCarry(m, n, a) /\ t = Xor(Xor(m, n), a)
          /\ IsCarry(t, {0}, c) /\ u = Xor(Xor(t, {0}), c)
  BY MinusIs
<1>3. v \in Registers
  BY <1>1, PlusIs
<1>4. PICK b : IsCarry(u, k, b) /\ v = Xor(Xor(u, k), b)
  BY <1>1, PlusIs
<1> HIDE DEF u, v
<1>5. \A i \in Ones : /\ i \in n <=> i \notin k
                      /\ i \in t <=> ~((i \in m <=> i \in k) <=> i \in a)
                      /\ i \in u <=> ~((i \in t <=> i # 0) <=> i \in c)
                      /\ i \in v <=> ~((i \in u <=> i \notin k) <=> i \in b)
  BY <1>2, <1>4, XorIs
<1>6. OneCarry(0, a, b, c)
  BY <1>2, <1>4 DEF OneCarry, IsCarry
<1>7. ASSUME NEW i \in 0..30, OneCarry(i, a, b, c) PROVE OneCarry(i + 1, a, b, c)
  <2>1. i \in Ones /\ i + 1 # 0
    BY DEF Ones
  <2>2. /\ i + 1 \in a <=> (i \in m /\ i \notin k) \/ ((i \in m \/ i \notin k) /\ i \in a)
        /\ i + 1 \in b <=> (i \in u /\ i \in k) \/ ((i \in u \/ i \in k) /\ i \in b)
        /\ i + 1 \in c <=> i \in t /\ (i \in c \/ i = 0)
        /\ i \in c => i # 0
    <3>1. i \in n <=> i \notin k
      BY <2>1
    <3>2. i + 1 \in c <=> (i \in t /\ i \in {0}) \/ ((i \in t \/ i \in {0}) /\ i \in c)
      BY <1>2 DEF IsCarry
    <3>3. i \in c => i # 0
      BY <1>2 DEF IsCarry
    <3> HIDE DEF n
    <3> QED BY <1>2, <1>4, <3>1, <3>2, <3>3 DEF IsCarry
  <2> QED BY <1>5, <1>7, <2>1, <2>2 DEF OneCarry
<1>8. \A i \in Ones : OneCarry(i, a, b, c)
  BY <1>6, <1>7, Everywhere
<1>9. \A i \in Ones : i \in v <=> i \in m
  BY <1>2, <1>5, <1>8 DEF OneCarry, IsCarry
<1>10. v = m
  BY <1>3, <1>9 DEF Registers
<1> QED BY <1>10 DEF u, v

\* The two rotations.
Turned(w)   == Right(w, 15) \cup Left(w, 17)
Unturned(w) == Right(w, 17) \cup Left(w, 15)

LEMMA LeftIs ==
    ASSUME NEW w \in Registers, NEW n \in Nat
    PROVE  /\ Left(w, n) \in Registers
           /\ \A i \in Ones : i \in Left(w, n) <=> i - n \in w
<1>1. \A j \in w : j \in Nat
  BY DEF Registers, Ones
<1>2. \A j \in w : (j + n) - n = j
  BY <1>1
<1>3. \A i \in Ones : (i - n) + n = i /\ i <= 31
  BY DEF Ones
<1> QED BY <1>1, <1>2, <1>3 DEF Left, Registers, Ones

LEMMA Turning ==
    ASSUME NEW w \in Registers
    PROVE  /\ Turned(w) \in Registers /\ Unturned(w) \in Registers
           /\ \A i \in Ones : i \in Turned(w) <=> IF i <= 16 THEN i + 15 \in w ELSE i - 17 \in w
           /\ \A i \in Ones : i \in Unturned(w) <=> IF i <= 14 THEN i + 17 \in w ELSE i - 15 \in w
<1>1. Turned(w) \in Registers /\ Unturned(w) \in Registers
  BY RightIs, LeftIs DEF Turned, Unturned, Registers
<1>2. ASSUME NEW i \in Ones
      PROVE  /\ i \in Turned(w) <=> IF i <= 16 THEN i + 15 \in w ELSE i - 17 \in w
             /\ i \in Unturned(w) <=> IF i <= 14 THEN i + 17 \in w ELSE i - 15 \in w
  <2>1. /\ i \in Turned(w) <=> i + 15 \in w \/ i - 17 \in w
        /\ i \in Unturned(w) <=> i + 17 \in w \/ i - 15 \in w
    <3>1. i \in Nat
      BY DEF Ones
    <3> QED BY <3>1, RightIs, LeftIs DEF Turned, Unturned
  <2>2. \A j \in w : 0 <= j /\ j <= 31 /\ j \in Int
    BY DEF Registers, Ones
  <2>3. i \in Int
    BY DEF Ones
  <2>4. /\ i <= 16 => i - 17 \notin w
        /\ ~(i <= 16) => i + 15 \notin w
        /\ i <= 14 => i - 15 \notin w
        /\ ~(i <= 14) => i + 17 \notin w
    BY <2>2, <2>3
  <2> QED BY <2>1, <2>4
<1> QED BY <1>1, <1>2

LEMMA TurnedBack ==
    ASSUME NEW w \in Registers
    PROVE  Unturned(Turned(w)) = w /\ Turned(Unturned(w)) = w
<1>1. Turned(w) \in Registers /\ Unturned(w) \in Registers
  BY Turning
<1>2. Unturned(Turned(w)) \in Registers /\ Turned(Unturned(w)) \in Registers
  BY <1>1, Turning
<1>3. ASSUME NEW i \in Ones PROVE i \in Unturned(Turned(w)) <=> i \in w
  <2>1. CASE i <= 14
    <3>1. i + 17 \in Ones /\ ~(i + 17 <= 16) /\ (i + 17) - 17 = i
      BY <2>1 DEF Ones
    <3> QED BY <2>1, <3>1, <1>1, Turning
  <2>2. CASE ~(i <= 14)
    <3>1. i - 15 \in Ones /\ i - 15 <= 16 /\ (i - 15) + 15 = i
      BY <2>2 DEF Ones
    <3> QED BY <2>2, <3>1, <1>1, Turning
  <2> QED BY <2>1, <2>2
<1>4. ASSUME NEW i \in Ones PROVE i \in Turned(Unturned(w)) <=> i \in w
  <2>1. CASE i <= 16
    <3>1. i + 15 \in Ones /\ ~(i + 15 <= 14) /\ (i + 15) - 15 = i
      BY <2>1 DEF Ones
    <3> QED BY <2>1, <3>1, <1>1, Turning
  <2>2. CASE ~(i <= 16)
    <3>1. i - 17 \in Ones /\ i - 17 <= 14 /\ (i - 17) + 17 = i
      BY <2>2 DEF Ones
    <3> QED BY <2>2, <3>1, <1>1, Turning
  <2> QED BY <2>1, <2>2
<1> QED BY <1>2, <1>3, <1>4 DEF Registers

LEMMA DeltaIs == kMaskDelta \in Registers
<1>1. \A n : \A i \in Bits(n) : i \in 0..15
  BY DEF Bits
<1>2. \A i \in 0..15 : i \in Ones /\ i + 16 \in Ones
  BY DEF Ones
<1> QED BY <1>1, <1>2 DEF kMaskDelta, Word, Registers

\* Masking loses nothing: Mask and Unmask are each other's inverse, so that no
\* two checksums are stored alike (base/crc32c.h:27-37).
THEOREM MaskInverse ==
    \A w \in Registers : /\ Mask(w) \in Registers /\ Unmask(w) \in Registers
                         /\ Unmask(Mask(w)) = w /\ Mask(Unmask(w)) = w
<1> SUFFICES ASSUME NEW w \in Registers
             PROVE  /\ Mask(w) \in Registers /\ Unmask(w) \in Registers
                    /\ Unmask(Mask(w)) = w /\ Mask(Unmask(w)) = w
  OBVIOUS
<1>1. /\ \A v : Mask(v) = Plus(Turned(v), kMaskDelta)
      /\ \A v : Unmask(v) = Unturned(Minus(v, kMaskDelta))
  BY DEF Mask, Unmask, Turned, Unturned
<1>2. Turned(w) \in Registers /\ Minus(w, kMaskDelta) \in Registers
  BY Turning, MinusIs, DeltaIs
<1>3. Mask(w) \in Registers /\ Unmask(w) \in Registers
  BY <1>1, <1>2, Turning, PlusIs, DeltaIs
<1>4. Unmask(Mask(w)) = w
  BY <1>1, <1>2, MinusOfPlus, DeltaIs, TurnedBack
<1>5. Mask(Unmask(w)) = w
  BY <1>1, <1>2, PlusOfMinus, DeltaIs, TurnedBack
<1> QED BY <1>3, <1>4, <1>5

LEMMA ValueIs ==
    ASSUME NEW buf \in Seq(Bytes), NEW pval \in Nat
    PROVE  /\ Value(buf, pval) = Xor(Single(Ones, buf), Ones)
           /\ Value(buf, pval) \in Registers
BY ComplementIs, ExtendIs DEF Value

\* The checksum prepared for the type and extended over the payload is the one
\* of both as one string (log_writer.h:163-166).
LEMMA StoredIs ==
    ASSUME NEW type \in Bytes, NEW payload \in Seq(Bytes), NEW ptr \in Nat
    PROVE  /\ <<type>> \o payload \in Seq(Bytes)
           /\ StoredChecksum(type, payload, ptr) = Mask(Crc32c(<<type>> \o payload))
           /\ StoredChecksum(type, payload, ptr) \in Registers
<1> DEFINE head == <<type>>
           v    == Value(head, 0)
           s    == head \o payload
<1>1. head \in Seq(Bytes)
  OBVIOUS
<1> HIDE DEF head
<1>2. s \in Seq(Bytes)
  BY <1>1, ConcatProperties
<1>3. v \in Registers /\ v = Xor(Single(Ones, head), Ones) /\ Single(Ones, head) \in Registers
  BY <1>1, ValueIs, ComplementIs, SingleType
<1>4. Xor(v, Ones) = Single(Ones, head)
  BY <1>3, ComplementIs
<1> HIDE DEF v
<1>5. Extend(v, payload, ptr) = Xor(Single(Xor(v, Ones), payload), Ones)
  BY <1>3, ExtendIs
<1>6. Single(Ones, s) = Single(Single(Ones, head), payload)
  BY <1>1, ComplementIs, SingleInTwo
<1>7. Value(s, 0) = Xor(Single(Ones, s), Ones) /\ Value(s, 0) \in Registers
  BY <1>2, ValueIs
<1>8. Value(s, 0) = Crc32c(s)
  BY <1>2, ValueIsCrc32c
<1>9. Extend(v, payload, ptr) = Crc32c(s)
  BY <1>4, <1>5, <1>6, <1>7, <1>8
<1>10. StoredChecksum(type, payload, ptr) = Mask(Extend(v, payload, ptr))
  BY DEF StoredChecksum, v, head
<1>11. Crc32c(s) \in Registers
  BY <1>7, <1>8
<1> HIDE DEF s
<1>12. StoredChecksum(type, payload, ptr) = Mask(Crc32c(s)) /\ Mask(Crc32c(s)) \in Registers
  BY <1>9, <1>10, <1>11, MaskInverse
<1> QED BY <1>2, <1>12 DEF s, head

\* A reader accepts the masked CRC-32C of what it reads and nothing else,
\* wherever its block is.
THEOREM JustTheChecksumIsAccepted ==
    ASSUME NEW bytes \in Seq(Bytes), NEW pval \in Nat
    PROVE  /\ Crc32c(bytes) \in Registers
           /\ \A word \in Registers :
                  IsAccepted(word, bytes, pval) <=> word = Mask(Crc32c(bytes))
<1>1. Value(bytes, pval) = Crc32c(bytes) /\ Value(bytes, pval) \in Registers
  BY ValueIs, ValueIsCrc32c
<1>2. \A word \in Registers : Unmask(word) = Crc32c(bytes) <=> word = Mask(Crc32c(bytes))
  BY <1>1, MaskInverse
<1> QED BY <1>1, <1>2 DEF IsAccepted

\* Any change of one byte changes the checksum.
THEOREM OneByteIsNoticed ==
    ASSUME NEW bytes \in Seq(Bytes), NEW k \in DOMAIN bytes, NEW b \in Bytes, b # bytes[k]
    PROVE  /\ [bytes EXCEPT ![k] = b] \in Seq(Bytes)
           /\ Crc32c([bytes EXCEPT ![k] = b]) # Crc32c(bytes)
<1> DEFINE t == [bytes EXCEPT ![k] = b]
<1>1. /\ t \in Seq(Bytes) /\ Len(t) = Len(bytes) /\ k \in 1..Len(bytes)
      /\ bytes[k] # t[k] /\ \A j \in 1..Len(bytes) : j # k => bytes[j] = t[j]
  OBVIOUS
<1> HIDE DEF t
<1>2. Single(Ones, bytes) # Single(Ones, t)
  BY <1>1, ComplementIs, SingleDiffers
<1>3. Xor(Single(Ones, bytes), Ones) # Xor(Single(Ones, t), Ones)
  BY <1>2, XorCancels
<1>4. \A s \in Seq(Bytes) : Crc32c(s) = Xor(Single(Ones, s), Ones)
  <2> SUFFICES ASSUME NEW s \in Seq(Bytes) PROVE Crc32c(s) = Xor(Single(Ones, s), Ones)
    OBVIOUS
  <2>1. Value(s, 0) = Crc32c(s) /\ Value(s, 0) = Xor(Single(Ones, s), Ones)
    BY ValueIs, ValueIsCrc32c
  <2> QED BY <2>1
<1>5. Crc32c(t) # Crc32c(bytes)
  BY <1>1, <1>3, <1>4
<1> QED BY <1>1, <1>5 DEF t
=============================================================================
