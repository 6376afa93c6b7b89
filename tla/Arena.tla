------------------------------- MODULE Arena --------------------------------
(***************************************************************************)
(* The arena of base/arena.h and base/arena.cpp: memory is cut off blocks  *)
(* and freed only with the arena.  An address is a block and an offset in  *)
(* it; new[] aligns blocks, so that an address is aligned when its offset  *)
(* is.  An arena has one user at a time.                                   *)
(***************************************************************************)
EXTENDS Integers, Sequences

CONSTANTS
    BlockSize,      \* kBlockSize
    Align,          \* align, in AllocateAligned
    Sizes,          \* sizes asked for
    MaxAllocations  \* bound: allocations in a behaviour

ASSUME ArenaAssumption ==
    /\ BlockSize \in Nat
    /\ Align \in Nat \ {0}
    /\ Sizes \subseteq Nat \ {0}
    /\ MaxAllocations \in Nat

VARIABLES
    blocks_,                 \* the size of each block
    alloc_ptr_,              \* its block (0 if null) and offset
    alloc_bytes_remaining_,
    memory_usage_,           \* bytes in blocks and in the list of them
    regions,                 \* what has been handed out
    count                    \* allocations so far

vars == <<blocks_, alloc_ptr_, alloc_bytes_remaining_, memory_usage_, regions, count>>

Init ==
    /\ blocks_ = <<>>
    /\ alloc_ptr_ = [block |-> 0, offset |-> 0]
    /\ alloc_bytes_remaining_ = 0
    /\ memory_usage_ = 0
    /\ regions = {}
    /\ count = 0

HandOut(block, first, bytes, aligned) ==
    /\ regions' = regions \cup
           {[block |-> block, first |-> first, bytes |-> bytes, aligned |-> aligned]}
    /\ count' = count + 1

\* Mutant: what is skipped still counts as remaining.
CutKeepsSlop(bytes, slop, aligned) ==
    /\ HandOut(alloc_ptr_.block, alloc_ptr_.offset + slop, bytes, aligned)
    /\ alloc_ptr_' = [alloc_ptr_ EXCEPT !.offset = @ + bytes + slop]
    /\ alloc_bytes_remaining_' = alloc_bytes_remaining_ - bytes
    /\ UNCHANGED <<blocks_, memory_usage_>>

\* Cut bytes off the current block, behind slop bytes that are skipped.
Cut(bytes, slop, aligned) ==
    /\ HandOut(alloc_ptr_.block, alloc_ptr_.offset + slop, bytes, aligned)
    /\ alloc_ptr_' = [alloc_ptr_ EXCEPT !.offset = @ + bytes + slop]
    /\ alloc_bytes_remaining_' = alloc_bytes_remaining_ - (bytes + slop)
    /\ UNCHANGED <<blocks_, memory_usage_>>

PointerSize == 8   \* sizeof(char*)

AllocateNewBlock(size) ==
    /\ blocks_' = Append(blocks_, size)
    /\ memory_usage_' = memory_usage_ + size + PointerSize

\* Mutant: a large block becomes the current one.
AllocateFallBackMoves(bytes, aligned) ==
    LET size == IF bytes > BlockSize \div 4 THEN bytes ELSE BlockSize
    IN  /\ AllocateNewBlock(size)
        /\ HandOut(Len(blocks_) + 1, 0, bytes, aligned)
        /\ alloc_ptr_' = [block |-> Len(blocks_) + 1, offset |-> 0]
        /\ alloc_bytes_remaining_' = size - bytes

\* Mutant: only what a block cannot hold gets one of its own.
AllocateFallBackLate(bytes, aligned) ==
    /\ HandOut(Len(blocks_) + 1, 0, bytes, aligned)
    /\ \/ /\ bytes > BlockSize
          /\ AllocateNewBlock(bytes)
          /\ UNCHANGED <<alloc_ptr_, alloc_bytes_remaining_>>
       \/ /\ bytes <= BlockSize
          /\ AllocateNewBlock(BlockSize)
          /\ alloc_ptr_' = [block |-> Len(blocks_) + 1, offset |-> bytes]
          /\ alloc_bytes_remaining_' = BlockSize - bytes

\* More than a quarter of a block gets a block of its own; for less a new
\* block becomes the current one, and the rest of the old one is lost.
AllocateFallBack(bytes, aligned) ==
    /\ HandOut(Len(blocks_) + 1, 0, bytes, aligned)
    /\ \/ /\ bytes > BlockSize \div 4
          /\ AllocateNewBlock(bytes)
          /\ UNCHANGED <<alloc_ptr_, alloc_bytes_remaining_>>
       \/ /\ bytes <= BlockSize \div 4
          /\ AllocateNewBlock(BlockSize)
          /\ alloc_ptr_' = [block |-> Len(blocks_) + 1, offset |-> bytes]
          /\ alloc_bytes_remaining_' = BlockSize - bytes

Allocate(bytes) ==
    \/ /\ bytes <= alloc_bytes_remaining_
       /\ Cut(bytes, 0, FALSE)
    \/ /\ bytes > alloc_bytes_remaining_
       /\ AllocateFallBack(bytes, FALSE)

\* The bytes to the next aligned address.
Slop ==
    IF alloc_ptr_.offset % Align = 0 THEN 0 ELSE Align - (alloc_ptr_.offset % Align)

AllocateAligned(bytes) ==
    \/ /\ bytes + Slop <= alloc_bytes_remaining_
       /\ Cut(bytes, Slop, TRUE)
    \/ /\ bytes + Slop > alloc_bytes_remaining_
       /\ AllocateFallBack(bytes, TRUE)

Next ==
    \E bytes \in Sizes :
        /\ count < MaxAllocations
        /\ Allocate(bytes) \/ AllocateAligned(bytes)

Spec == Init /\ [][Next]_vars

-----------------------------------------------------------------------------
(* Properties. *)

Regions == [block : Nat \ {0}, first : Nat, bytes : Nat \ {0}, aligned : BOOLEAN]

TypeOK ==
    /\ blocks_ \in Seq(Nat)
    /\ alloc_ptr_ \in [block : Nat, offset : Nat]
    /\ alloc_bytes_remaining_ \in Nat
    /\ memory_usage_ \in Nat
    /\ regions \subseteq Regions
    /\ count \in Nat

End(r) == r.first + r.bytes

\* No two callers are given the same byte (arena.h:36-45, arena.cpp:37-69).
RegionsAreDisjoint ==
    \A r, s \in regions :
        r # s /\ r.block = s.block => End(r) <= s.first \/ End(s) <= r.first

\* Nobody is given a byte beyond the end of a block: the slop of an aligned
\* allocation counts (arena.cpp:58-66).
RegionsAreInBlocks ==
    \A r \in regions : r.block \in DOMAIN blocks_ /\ End(r) <= blocks_[r.block]

\* A block that is given up has less than a quarter of a block and the slop
\* of one allocation left: requests larger than that never make the arena
\* leave its current block (arena.cpp:38-44, 60).
LittleIsLost ==
    \A b \in DOMAIN blocks_ :
        b # alloc_ptr_.block =>
            \A n \in 0 .. blocks_[b] :
                (\A r \in regions : r.block = b => End(r) <= n)
                    => blocks_[b] - n < (BlockSize \div 4) + Align
=============================================================================
