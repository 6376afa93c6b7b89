---------------------------- MODULE ArenaProofs -----------------------------
(***************************************************************************)
(* The arena hands out no byte twice and none beyond a block, for blocks,  *)
(* alignments and requests of any size.                                    *)
(***************************************************************************)
EXTENDS Arena, TLAPS

\* The pointer and what remains make up the current block, and nothing was
\* handed out behind the pointer.
CurrentBlock ==
    /\ alloc_ptr_.block \in DOMAIN blocks_ \cup {0}
    /\ alloc_ptr_.block = 0 => alloc_bytes_remaining_ = 0
    /\ alloc_ptr_.block # 0 =>
          alloc_ptr_.offset + alloc_bytes_remaining_ = blocks_[alloc_ptr_.block]
    /\ \A r \in regions : r.block = alloc_ptr_.block => End(r) <= alloc_ptr_.offset

ArenaInv ==
    /\ TypeOK
    /\ CurrentBlock
    /\ RegionsAreInBlocks
    /\ RegionsAreDisjoint

\* Slop is a natural number smaller than the alignment (arena.cpp:56-57).
LEMMA SlopIsSmall ==
    ASSUME TypeOK PROVE Slop \in 0 .. Align - 1
<1>1. alloc_ptr_.offset \in Nat
  BY DEF TypeOK
<1>2. alloc_ptr_.offset % Align \in 0 .. Align - 1
  BY <1>1, ArenaAssumption
<1> QED
  BY <1>2, ArenaAssumption DEF Slop

\* Cutting bytes off the current block keeps the invariant when they and the
\* slop fit in what remains (arena.h:38-42, arena.cpp:60-63).
LEMMA CutKeepsInv ==
    ASSUME ArenaInv, NEW bytes \in Nat \ {0}, NEW slop \in Nat, NEW aligned \in BOOLEAN,
           bytes + slop <= alloc_bytes_remaining_, Cut(bytes, slop, aligned)
    PROVE  ArenaInv'
<1> DEFINE p == alloc_ptr_
           new == [block |-> p.block, first |-> p.offset + slop, bytes |-> bytes,
                   aligned |-> aligned]
<1>1. /\ regions' = regions \cup {new}
      /\ alloc_ptr_' = [alloc_ptr_ EXCEPT !.offset = @ + bytes + slop]
      /\ alloc_bytes_remaining_' = alloc_bytes_remaining_ - (bytes + slop)
      /\ blocks_' = blocks_ /\ memory_usage_' = memory_usage_
      /\ count' = count + 1
  BY DEF Cut, HandOut
<1>2. /\ p \in [block : Nat, offset : Nat] /\ p.block \in Nat /\ p.offset \in Nat
      /\ alloc_bytes_remaining_ \in Nat /\ regions \subseteq Regions
      /\ count \in Nat /\ memory_usage_ \in Nat /\ blocks_ \in Seq(Nat)
  BY DEF ArenaInv, TypeOK
<1>3. p.block # 0 /\ p.block \in DOMAIN blocks_
  BY <1>2 DEF ArenaInv, CurrentBlock
<1>4. p.offset + alloc_bytes_remaining_ = blocks_[p.block]
  BY <1>3 DEF ArenaInv, CurrentBlock
<1>5. \A r \in regions : r.block = p.block => End(r) <= p.offset
  BY DEF ArenaInv, CurrentBlock
<1>6. new \in Regions /\ End(new) = p.offset + slop + bytes
  BY <1>2, <1>3 DEF Regions, End
<1>7. /\ alloc_ptr_'.block = p.block
      /\ alloc_ptr_'.offset = p.offset + bytes + slop
      /\ alloc_ptr_' \in [block : Nat, offset : Nat]
  <2>1. alloc_ptr_' = [alloc_ptr_ EXCEPT !.offset = alloc_ptr_.offset + bytes + slop]
    BY <1>1
  <2>2. alloc_ptr_.offset + bytes + slop \in Nat
    BY <1>2
  <2> HIDE DEF new
  <2> QED
    BY <1>2, <2>1, <2>2
<1>8. TypeOK'
  <2>1. regions' \subseteq Regions
    <3> HIDE DEF new
    <3> QED
      BY <1>1, <1>2, <1>6
  <2>2. alloc_bytes_remaining_' \in Nat /\ count' \in Nat
    BY <1>1, <1>2
  <2> QED
    BY <1>1, <1>2, <1>7, <2>1, <2>2 DEF TypeOK
<1>9. \A r \in regions : End(r) \in Nat /\ r.first \in Nat
  BY <1>2 DEF Regions, End
<1>10. CurrentBlock'
  <2>1. alloc_ptr_'.offset + alloc_bytes_remaining_' = blocks_[p.block]
    BY <1>1, <1>2, <1>4, <1>7
  <2>2. \A r \in regions' : r.block = p.block => End(r) <= p.offset + bytes + slop
    BY <1>1, <1>2, <1>5, <1>6, <1>9
  <2> QED
    BY <1>1, <1>3, <1>7, <2>1, <2>2 DEF CurrentBlock, End
<1>11. RegionsAreInBlocks'
  <2>1. End(new) <= blocks_[p.block]
    BY <1>2, <1>4, <1>6
  <2> QED
    BY <1>1, <1>3, <2>1 DEF ArenaInv, RegionsAreInBlocks, End
<1>12. RegionsAreDisjoint'
  <2>1. \A r \in regions : r.block = new.block => End(r) <= new.first
    BY <1>2, <1>5, <1>9
  <2> QED
    BY <1>1, <2>1 DEF ArenaInv, RegionsAreDisjoint, End
<1> QED
  BY <1>8, <1>10, <1>11, <1>12 DEF ArenaInv

\* A region of its own at the start of a new block keeps the invariant,
\* whether the block becomes the current one or not (arena.cpp:37-50).
LEMMA FallBackKeepsInv ==
    ASSUME ArenaInv, NEW bytes \in Nat \ {0}, NEW aligned \in BOOLEAN,
           AllocateFallBack(bytes, aligned)
    PROVE  ArenaInv'
<1> DEFINE b == Len(blocks_) + 1
           new == [block |-> b, first |-> 0, bytes |-> bytes, aligned |-> aligned]
<1>1. /\ blocks_ \in Seq(Nat) /\ Len(blocks_) \in Nat
      /\ DOMAIN blocks_ = 1 .. Len(blocks_)
      /\ regions \subseteq Regions /\ count \in Nat /\ memory_usage_ \in Nat
      /\ alloc_ptr_ \in [block : Nat, offset : Nat] /\ alloc_bytes_remaining_ \in Nat
  BY DEF ArenaInv, TypeOK
<1>2. PICK size \in Nat :
        /\ bytes <= size
        /\ blocks_' = Append(blocks_, size) /\ memory_usage_' = memory_usage_ + size + PointerSize
        /\ \/ UNCHANGED <<alloc_ptr_, alloc_bytes_remaining_>>
           \/ /\ alloc_ptr_' = [block |-> b, offset |-> bytes]
              /\ alloc_bytes_remaining_' = size - bytes
  <2>1. BlockSize \div 4 <= BlockSize
    BY ArenaAssumption
  <2> QED
    BY <2>1, ArenaAssumption DEF AllocateFallBack, AllocateNewBlock, PointerSize
<1>3. regions' = regions \cup {new} /\ count' = count + 1
  BY DEF AllocateFallBack, HandOut
<1>4. new \in Regions /\ End(new) = bytes
  BY <1>1 DEF Regions, End
<1>5. /\ blocks_' \in Seq(Nat) /\ Len(blocks_') = b /\ blocks_'[b] = size
      /\ \A i \in 1 .. Len(blocks_) : blocks_'[i] = blocks_[i]
      /\ DOMAIN blocks_' = 1 .. b
  BY <1>1, <1>2
<1>6. \A r \in regions : r.block \in DOMAIN blocks_ /\ End(r) <= blocks_[r.block]
  BY DEF ArenaInv, RegionsAreInBlocks
<1>7. \A r \in regions : r.block # b
  BY <1>1, <1>6
<1>8. TypeOK'
  BY <1>1, <1>2, <1>3, <1>4, <1>5 DEF TypeOK, PointerSize
<1>9. CurrentBlock'
  <2>1. CASE UNCHANGED <<alloc_ptr_, alloc_bytes_remaining_>>
    <3>1. alloc_ptr_.block # b
      BY <1>1 DEF ArenaInv, CurrentBlock
    <3>2. alloc_ptr_.block # 0 => blocks_'[alloc_ptr_.block] = blocks_[alloc_ptr_.block]
      BY <1>1, <1>5 DEF ArenaInv, CurrentBlock
    <3>3. alloc_ptr_.block \in DOMAIN blocks_' \cup {0}
      BY <1>1, <1>5 DEF ArenaInv, CurrentBlock
    <3>4. \A r \in regions' : r.block = alloc_ptr_.block => r \in regions
      BY <1>3, <3>1
    <3> QED
      BY <2>1, <3>2, <3>3, <3>4 DEF ArenaInv, CurrentBlock, End
  <2>2. CASE /\ alloc_ptr_' = [block |-> b, offset |-> bytes]
             /\ alloc_bytes_remaining_' = size - bytes
    <3>1. \A r \in regions' : r.block = b => r = new
      BY <1>3, <1>7
    <3> QED
      BY <1>1, <1>4, <1>5, <2>2, <3>1 DEF CurrentBlock, End
  <2> QED
    BY <1>2, <2>1, <2>2
<1>10. RegionsAreInBlocks'
  <2>1. \A r \in regions : r.block \in DOMAIN blocks_' /\ End(r) <= blocks_'[r.block]
    BY <1>1, <1>5, <1>6
  <2>2. new.block \in DOMAIN blocks_' /\ End(new) <= blocks_'[new.block]
    BY <1>1, <1>2, <1>4, <1>5
  <2> QED
    BY <1>3, <2>1, <2>2 DEF RegionsAreInBlocks, End
<1>11. RegionsAreDisjoint'
  BY <1>3, <1>7 DEF ArenaInv, RegionsAreDisjoint, End
<1> QED
  BY <1>8, <1>9, <1>10, <1>11 DEF ArenaInv

\* The inductive invariant holds in every behaviour: every allocation cuts
\* bytes off the current block or starts a block (arena.h:36-45,
\* arena.cpp:53-69).
THEOREM ArenaInvariant == Spec => []ArenaInv
<1>1. Init => ArenaInv
  BY DEF Init, ArenaInv, TypeOK, CurrentBlock, RegionsAreInBlocks, RegionsAreDisjoint
<1>2. ArenaInv /\ [Next]_vars => ArenaInv'
  <2> SUFFICES ASSUME ArenaInv, [Next]_vars PROVE ArenaInv'
    OBVIOUS
  <2>1. alloc_bytes_remaining_ \in Nat /\ Slop \in Nat
    BY SlopIsSmall, ArenaAssumption DEF ArenaInv, TypeOK
  <2>2. ASSUME NEW bytes \in Sizes, Allocate(bytes) PROVE ArenaInv'
    <3>1. bytes \in Nat \ {0}
      BY ArenaAssumption
    <3>2. CASE bytes <= alloc_bytes_remaining_ /\ Cut(bytes, 0, FALSE)
      <4>1. bytes + 0 <= alloc_bytes_remaining_
        BY <2>1, <3>1, <3>2
      <4> QED
        BY <3>1, <3>2, <4>1, CutKeepsInv
    <3>3. CASE AllocateFallBack(bytes, FALSE)
      BY <3>1, <3>3, FallBackKeepsInv
    <3> QED
      BY <2>2, <3>2, <3>3 DEF Allocate
  <2>3. ASSUME NEW bytes \in Sizes, AllocateAligned(bytes) PROVE ArenaInv'
    <3>1. bytes \in Nat \ {0}
      BY ArenaAssumption
    <3>2. CASE bytes + Slop <= alloc_bytes_remaining_ /\ Cut(bytes, Slop, TRUE)
      BY <2>1, <3>1, <3>2, CutKeepsInv
    <3>3. CASE AllocateFallBack(bytes, TRUE)
      BY <3>1, <3>3, FallBackKeepsInv
    <3> QED
      BY <2>3, <3>2, <3>3 DEF AllocateAligned
  <2>4. CASE UNCHANGED vars
    BY <2>4 DEF vars, ArenaInv, TypeOK, CurrentBlock, RegionsAreInBlocks,
                RegionsAreDisjoint, End
  <2> QED
    BY <2>2, <2>3, <2>4 DEF Next
<1> QED
  BY <1>1, <1>2, PTL DEF Spec

\* No two callers of the arena are given the same byte.
THEOREM Disjoint == Spec => []RegionsAreDisjoint
<1>1. ArenaInv => RegionsAreDisjoint
  BY DEF ArenaInv
<1> QED
  BY <1>1, ArenaInvariant, PTL

\* No caller of the arena is given a byte beyond the end of a block.
THEOREM InBlocks == Spec => []RegionsAreInBlocks
<1>1. ArenaInv => RegionsAreInBlocks
  BY DEF ArenaInv
<1> QED
  BY <1>1, ArenaInvariant, PTL

-----------------------------------------------------------------------------
(* What is given up. *)

\* The bytes a block may lose.
Little == (BlockSize \div 4) + Align

\* The current block is handed out up to the pointer, and of every other block
\* all but little.
WellUsed ==
    /\ alloc_ptr_.block # 0 =>
          \E r \in regions : r.block = alloc_ptr_.block /\ End(r) = alloc_ptr_.offset
    /\ \A b \in DOMAIN blocks_ :
          b # alloc_ptr_.block =>
              \E r \in regions : r.block = b /\ blocks_[b] - End(r) < Little

\* Cutting bytes off the current block moves the pointer to their end, however
\* much was skipped before them.
LEMMA CutKeepsUsed ==
    ASSUME ArenaInv, WellUsed, NEW bytes \in Nat \ {0}, NEW slop \in Nat,
           NEW aligned \in BOOLEAN, Cut(bytes, slop, aligned)
    PROVE  WellUsed'
<1> DEFINE new == [block |-> alloc_ptr_.block, first |-> alloc_ptr_.offset + slop,
                   bytes |-> bytes, aligned |-> aligned]
<1>1. /\ regions' = regions \cup {new} /\ blocks_' = blocks_
      /\ alloc_ptr_' = [alloc_ptr_ EXCEPT !.offset = alloc_ptr_.offset + bytes + slop]
  BY DEF Cut, HandOut
<1>2. /\ alloc_ptr_ \in [block : Nat, offset : Nat]
      /\ alloc_ptr_.block \in Nat /\ alloc_ptr_.offset \in Nat
  BY DEF ArenaInv, TypeOK
<1>3. /\ alloc_ptr_'.block = alloc_ptr_.block
      /\ alloc_ptr_'.offset = alloc_ptr_.offset + bytes + slop
  BY <1>1, <1>2
<1>4. /\ new.block = alloc_ptr_.block
      /\ End(new) = alloc_ptr_.offset + bytes + slop
  BY <1>2 DEF End
<1> HIDE DEF new
<1> QED BY <1>1, <1>3, <1>4 DEF WellUsed, End

\* A block is given up only for a small request that does not fit, and a
\* block of its own is used up.
LEMMA FallBackKeepsUsed ==
    ASSUME ArenaInv, WellUsed, NEW bytes \in Nat \ {0}, NEW aligned \in BOOLEAN,
           NEW slop \in 0 .. Align - 1, bytes + slop > alloc_bytes_remaining_,
           AllocateFallBack(bytes, aligned)
    PROVE  WellUsed'
<1> DEFINE c == Len(blocks_) + 1
           new == [block |-> c, first |-> 0, bytes |-> bytes, aligned |-> aligned]
           q == BlockSize \div 4
<1>1. /\ blocks_ \in Seq(Nat) /\ Len(blocks_) \in Nat
      /\ DOMAIN blocks_ = 1 .. Len(blocks_)
      /\ alloc_ptr_ \in [block : Nat, offset : Nat] /\ alloc_bytes_remaining_ \in Nat
      /\ alloc_ptr_.block \in Nat /\ alloc_ptr_.offset \in Nat
  BY DEF ArenaInv, TypeOK
<1>2. q \in Nat /\ Little = q + Align /\ Align \in Nat \ {0}
  BY ArenaAssumption DEF Little
<1>3. regions' = regions \cup {new} /\ new.block = c /\ End(new) = bytes
  BY DEF AllocateFallBack, HandOut, End
<1> HIDE DEF new
<1>4. ASSUME NEW size \in Nat, blocks_' = Append(blocks_, size)
      PROVE  /\ DOMAIN blocks_' = 1 .. c /\ blocks_'[c] = size
             /\ \A b \in DOMAIN blocks_ : blocks_'[b] = blocks_[b]
  BY <1>1, <1>4
<1>5. CASE /\ bytes > q /\ blocks_' = Append(blocks_, bytes)
           /\ UNCHANGED <<alloc_ptr_, alloc_bytes_remaining_>>
  <2>1. \A b \in DOMAIN blocks_' : b \in DOMAIN blocks_ \/ b = c
    BY <1>1, <1>4, <1>5
  <2>2. blocks_'[c] - End(new) < Little
    BY <1>2, <1>3, <1>4, <1>5
  <2> HIDE DEF c
  <2> QED BY <1>3, <1>4, <1>5, <2>1, <2>2 DEF WellUsed, End
<1>6. CASE /\ bytes <= q /\ blocks_' = Append(blocks_, BlockSize)
           /\ alloc_ptr_' = [block |-> c, offset |-> bytes]
  <2>1. \A b \in DOMAIN blocks_' : b # c => b \in DOMAIN blocks_
    BY <1>1, <1>4, <1>6, ArenaAssumption
  <2>2. alloc_ptr_.block # 0 => blocks_[alloc_ptr_.block] - alloc_ptr_.offset < Little
    <3> SUFFICES ASSUME alloc_ptr_.block # 0
                 PROVE  blocks_[alloc_ptr_.block] - alloc_ptr_.offset < Little
      OBVIOUS
    <3>1. alloc_ptr_.offset + alloc_bytes_remaining_ = blocks_[alloc_ptr_.block]
      BY DEF ArenaInv, CurrentBlock
    <3> HIDE DEF q
    <3> QED BY <1>1, <1>2, <1>6, <3>1
  <2>3. ASSUME NEW b \in DOMAIN blocks_
        PROVE  \E r \in regions : r.block = b /\ blocks_'[b] - End(r) < Little
    <3>1. b # 0 /\ blocks_'[b] = blocks_[b]
      BY <1>1, <1>4, <1>6, ArenaAssumption
    <3>2. CASE b = alloc_ptr_.block
      <4>1. PICK r \in regions : r.block = b /\ End(r) = alloc_ptr_.offset
        BY <3>1, <3>2 DEF WellUsed
      <4> QED BY <2>2, <3>1, <3>2, <4>1
    <3>3. CASE b # alloc_ptr_.block
      BY <3>1, <3>3 DEF WellUsed
    <3> QED BY <3>2, <3>3
  <2>4. alloc_ptr_'.block = c /\ alloc_ptr_'.offset = bytes
    BY <1>6
  <2> HIDE DEF c
  <2> QED BY <1>3, <2>1, <2>3, <2>4 DEF WellUsed, End
<1> QED BY <1>5, <1>6 DEF AllocateFallBack, AllocateNewBlock

\* Every allocation keeps blocks well used, because the slop is less than the
\* alignment.
LEMMA UsedAlways == Spec => []WellUsed
<1>1. Init => WellUsed
  BY DEF Init, WellUsed
<1>2. ArenaInv /\ WellUsed /\ [Next]_vars => WellUsed'
  <2> SUFFICES ASSUME ArenaInv, WellUsed, [Next]_vars PROVE WellUsed'
    OBVIOUS
  <2>1. alloc_bytes_remaining_ \in Nat /\ Slop \in 0 .. Align - 1 /\ Slop \in Nat
    BY SlopIsSmall, ArenaAssumption DEF ArenaInv, TypeOK
  <2>2. ASSUME NEW bytes \in Sizes, Allocate(bytes) PROVE WellUsed'
    <3>1. bytes \in Nat \ {0} /\ 0 \in 0 .. Align - 1
      BY ArenaAssumption
    <3>2. CASE Cut(bytes, 0, FALSE)
      BY <3>1, <3>2, CutKeepsUsed
    <3>3. CASE bytes > alloc_bytes_remaining_ /\ AllocateFallBack(bytes, FALSE)
      <4>1. bytes + 0 > alloc_bytes_remaining_
        BY <3>1, <3>3
      <4> QED BY <3>1, <3>3, <4>1, FallBackKeepsUsed
    <3> QED BY <2>2, <3>2, <3>3 DEF Allocate
  <2>3. ASSUME NEW bytes \in Sizes, AllocateAligned(bytes) PROVE WellUsed'
    <3>1. bytes \in Nat \ {0}
      BY ArenaAssumption
    <3>2. CASE Cut(bytes, Slop, TRUE)
      BY <2>1, <3>1, <3>2, CutKeepsUsed
    <3>3. CASE bytes + Slop > alloc_bytes_remaining_ /\ AllocateFallBack(bytes, TRUE)
      BY <2>1, <3>1, <3>3, FallBackKeepsUsed
    <3> QED BY <2>3, <3>2, <3>3 DEF AllocateAligned
  <2>4. CASE UNCHANGED vars
    BY <2>4 DEF vars, WellUsed, End
  <2> QED BY <2>2, <2>3, <2>4 DEF Next
<1> QED BY <1>1, <1>2, ArenaInvariant, PTL DEF Spec

\* A block that is given up has lost less than a quarter of a block and one
\* alignment (arena.cpp:37-69).
THEOREM LittleLost == Spec => []LittleIsLost
<1>1. ArenaInv /\ WellUsed => LittleIsLost
  <2> SUFFICES ASSUME ArenaInv, WellUsed,
                      NEW b \in DOMAIN blocks_, b # alloc_ptr_.block,
                      NEW n \in 0 .. blocks_[b],
                      \A r \in regions : r.block = b => End(r) <= n
               PROVE  blocks_[b] - n < Little
    BY DEF LittleIsLost, Little
  <2>1. PICK r \in regions : r.block = b /\ blocks_[b] - End(r) < Little
    BY DEF WellUsed
  <2>2. End(r) \in Nat
    BY DEF ArenaInv, TypeOK, Regions, End
  <2>3. blocks_[b] \in Nat /\ n \in Nat
    BY DEF ArenaInv, TypeOK
  <2>4. Little \in Int
    BY ArenaAssumption DEF Little
  <2> QED BY <2>1, <2>2, <2>3, <2>4
<1> QED BY <1>1, UsedAlways, ArenaInvariant, PTL
=============================================================================
