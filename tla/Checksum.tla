------------------------------ MODULE Checksum ------------------------------
(***************************************************************************)
(* The checksum of the record log: base/crc32c.cpp with its tables and its *)
(* loops over 16, 4 and single bytes, the masking of base/crc32c.h, and    *)
(* what log_writer.h and log_reader.cpp make of them.  A 32-bit word, and  *)
(* a byte, is the set of its one bits.                                     *)
(***************************************************************************)
EXTENDS Naturals, SequencesExt

Bytes     == SUBSET (0..7)
Ones      == 0..31
Registers == SUBSET Ones

\* The bits of a number of at most 16 bits, and a word by its halves.
Bits(n)        == {i \in 0..15 : (n \div 2^i) % 2 = 1}
Word(high, low) == {i + 16 : i \in Bits(high)} \cup Bits(low)

Xor(v, w)   == (v \ w) \cup (w \ v)
Right(w, n) == {i - n : i \in {j \in w : j >= n}}
Left(w, n)  == {i + n : i \in {j \in w : j + n <= 31}}
Low(w)      == w \cap (0..7)

Times(n) == [i \in 1..n |-> i]

\* What a loop over the elements of s makes of b.
Loop(step, b, s) == FoldLeft(LAMBDA x, y : step[<<x, y>>], b, s)

\* Addition and subtraction modulo 2^32.
Plus(v, w) ==
    LET carry[i \in Ones] ==
            i > 0 /\ (i - 1 \in v \cap w \/ (i - 1 \in v \cup w /\ carry[i - 1]))
    IN  Xor(Xor(v, w), {i \in Ones : carry[i]})
Minus(v, w) == Plus(Plus(v, Ones \ w), {0})

-----------------------------------------------------------------------------
(* The four tables: the register that a byte leaves, and what one, two and *)
(* three zero bytes behind it make of that.                                *)

\* CRC-32C's generator, as the set of its exponents.
Generator ==
    {32, 28, 27, 26, 25, 23, 22, 20, 19, 18, 14, 13, 11, 10, 9, 8, 6, 0}

\* The generator without its highest term; bit 0 of a word is its highest
\* exponent.
Polynomial == {31 - e : e \in Generator \ {32}}

ZeroBit(w) == IF 0 \in w THEN Xor(Right(w, 1), Polynomial) ELSE Right(w, 1)

ZeroByte(w) == Loop([x \in Registers \X (1..8) |-> ZeroBit(x[1])], w, Times(8))

table0_ == [c \in Bytes |-> ZeroByte(c)]
table1_ == [c \in Bytes |-> ZeroByte(table0_[c])]
table2_ == [c \in Bytes |-> ZeroByte(table1_[c])]
table3_ == [c \in Bytes |-> ZeroByte(table2_[c])]

-----------------------------------------------------------------------------
(* Extend *)

LE_LOAD32(p) == UNION {{8 * (k - 1) + i : i \in p[k]} : k \in 1..4}

STEP1(l, byte) == Xor(table0_[Xor(Low(l), byte)], Right(l, 8))

\* Mutant: the tables in the order of the bytes.
STEP4InOrder(l, p) ==
    LET c == Xor(l, LE_LOAD32(p))
    IN  Xor(Xor(table0_[Low(c)], table1_[Low(Right(c, 8))]),
            Xor(table2_[Low(Right(c, 16))], table3_[Right(c, 24)]))

STEP4(l, p) ==
    LET c == Xor(l, LE_LOAD32(p))
    IN  Xor(Xor(table3_[Low(c)], table2_[Low(Right(c, 8))]),
            Xor(table1_[Low(Right(c, 16))], table0_[Right(c, 24)]))

Single(l, p) == Loop([x \in Registers \X Bytes |-> STEP1(x[1], x[2])], l, p)

\* 16 bytes at a time, then 4 at a time: STEP4 for each of the words; and the
\* last few.
Steps(l, p) ==
    LET words == Len(p) \div 4
        Words == [k \in 1..words |-> SubSeq(p, 4 * k - 3, 4 * k)]
    IN  Single(Loop([x \in Registers \X Seq(Bytes) |-> STEP4(x[1], x[2])], l, Words),
               SubSeq(p, 4 * words + 1, Len(p)))

\* Of a string at an address: single bytes to the next multiple of 4, if that
\* is not beyond the end.
Extend(crc, buf, pval) ==
    LET x     == ((pval + 3) \div 4) * 4 - pval
        first == IF x <= Len(buf) THEN x ELSE 0
        l     == Single(Xor(crc, Ones), SubSeq(buf, 1, first))
    IN  Xor(Steps(l, SubSeq(buf, first + 1, Len(buf))), Ones)

Value(buf, pval) == Extend({}, buf, pval)

kMaskDelta == Word(\hA282, \hEAD8)

Mask(crc) == Plus(Right(crc, 15) \cup Left(crc, 17), kMaskDelta)

Unmask(masked) == LET rot == Minus(masked, kMaskDelta)
                  IN  Right(rot, 17) \cup Left(rot, 15)

\* EmitPhysicalRecord: the checksum of the type is prepared, and extended over
\* the payload, which is wherever the caller has it.
StoredChecksum(type, payload, pval) ==
    Mask(Extend(Value(<<type>>, 0), payload, pval))

\* ReadPhysicalRecord: type and payload are one string in the block it read.
IsAccepted(stored, bytes, pval) == Unmask(stored) = Value(bytes, pval)

-----------------------------------------------------------------------------
(* The reference. *)

\* CRC-32C by its definition: the remainder of the message, its first 32 bits
\* complemented, divided by the generator; polynomials are sets of exponents.

\* The step of the long division that takes degree d away, and the eight that
\* take a byte away whose first bit is of degree d.
Divided(r, d) == IF d \in r THEN Xor(r, {e + d - 32 : e \in Generator}) ELSE r
ByteDivided(r, d) ==
    Loop([x \in (SUBSET Nat) \X Nat |-> Divided(x[1], x[2])], r, [j \in 1..8 |-> d + 1 - j])

\* The remainder of p with 32 + 8 * bytes coefficients.
Remainder(p, bytes) ==
    Loop([x \in (SUBSET Nat) \X Nat |-> ByteDivided(x[1], x[2])], p,
         [i \in 1..bytes |-> 39 + 8 * (bytes - i)])

Message(buf) ==
    UNION {{8 * (Len(buf) - i) + 7 - j + 32 : j \in buf[i]} : i \in 1..Len(buf)}

Crc32c(buf) ==
    LET first == {8 * Len(buf) + i : i \in Ones}
    IN  Ones \ {31 - e : e \in Remainder(Xor(Message(buf), first), Len(buf))}

\* The definition gives the results of RFC 3720 that the code's test expects of
\* Value (test/base/crc32c_test.cpp:13-29).
StandardResults ==
    \A result \in {<<[i \in 1..32 |-> {}],          Word(\h8A91, \h36AA)>>,
                   <<[i \in 1..32 |-> 0..7],        Word(\h62A8, \hAB43)>>,
                   <<[i \in 1..32 |-> Bits(i - 1)],  Word(\h46DD, \h794E)>>,
                   <<[i \in 1..32 |-> Bits(32 - i)], Word(\h113F, \hDB5C)>>} :
        Crc32c(result[1]) = result[2]

ASSUME StandardResultsHold == StandardResults
=============================================================================
