-------------------------- MODULE RecordLogProofs ---------------------------
(***************************************************************************)
(* Theorems about RecordLog, for blocks, headers and records of any size,  *)
(* any number of crashes, and readers of any initial offset.               *)
(***************************************************************************)
EXTENDS RecordLog, ChecksumProofs, SequenceTheorems, WellFoundedInduction, TLAPS

-----------------------------------------------------------------------------
(* Blocks. *)

\* A position a block begins at.
Boundary(b) == \E q \in Nat : b = BlockSize * q

\* Where the writer goes on behind position x.
Pad(x) == IF BlockStart(x) + BlockSize - x < HeaderSize THEN BlockStart(x) + BlockSize ELSE x

LEMMA Sizes ==
    /\ BlockSize \in Nat /\ HeaderSize \in Nat
    /\ 0 < HeaderSize /\ HeaderSize < BlockSize
BY RecordLogAssumption

LEMMA Product ==
    ASSUME NEW a \in Nat, NEW b \in Nat
    PROVE  a * b \in Nat /\ a * (b + 1) = a * b + a
OBVIOUS

LEMMA DivMod ==
    ASSUME NEW a \in Nat, NEW b \in Nat, 0 < b
    PROVE  /\ a % b \in Nat /\ a % b < b
           /\ a \div b \in Nat
           /\ a - (a % b) = b * (a \div b)
<1>1. a % b \in 0 .. b - 1
  OBVIOUS
<1>2. a % b \in Nat /\ a % b < b
  BY <1>1
<1>3. a \div b \in Nat
  BY Z3
<1>4. a % b = a - (a \div b) * b
  BY Z3
<1>5. \A n \in Nat, p \in Int : n = a - p => a - n = p
  OBVIOUS
<1>6. (a \div b) * b \in Nat /\ (a \div b) * b = b * (a \div b)
  BY <1>3
<1> QED BY <1>2, <1>3, <1>4, <1>5, <1>6

LEMMA BoundaryZero == Boundary(0)
<1>1. 0 = BlockSize * 0
  BY Sizes
<1> QED BY <1>1 DEF Boundary

LEMMA BoundaryNat == ASSUME NEW b, Boundary(b) PROVE b \in Nat
BY Sizes DEF Boundary

LEMMA BoundaryNext == ASSUME NEW b, Boundary(b) PROVE Boundary(b + BlockSize)
<1>1. PICK q \in Nat : b = BlockSize * q
  BY DEF Boundary
<1>2. b + BlockSize = BlockSize * (q + 1)
  BY <1>1, Product, Sizes
<1> QED BY <1>2 DEF Boundary

LEMMA BoundaryGap ==
    ASSUME NEW a, Boundary(a), NEW b, Boundary(b), a < b
    PROVE  a + BlockSize <= b
<1>1. PICK p \in Nat : a = BlockSize * p
  BY DEF Boundary
<1>2. PICK q \in Nat : b = BlockSize * q
  BY DEF Boundary
<1> QED BY <1>1, <1>2, Sizes

LEMMA StartOfBlock ==
    ASSUME NEW x \in Nat
    PROVE  /\ BlockStart(x) \in Nat /\ Boundary(BlockStart(x))
           /\ BlockStart(x) <= x /\ x < BlockStart(x) + BlockSize
<1>1. /\ x % BlockSize \in Nat /\ x % BlockSize < BlockSize
      /\ x \div BlockSize \in Nat
      /\ BlockStart(x) = BlockSize * (x \div BlockSize)
  BY DivMod, Sizes DEF BlockStart
<1>2. Boundary(BlockStart(x))
  BY <1>1 DEF Boundary
<1>3. BlockStart(x) \in Nat
  BY <1>2, BoundaryNat
<1>4. \A m \in Nat : m < BlockSize => x - m <= x /\ x < (x - m) + BlockSize
  BY Sizes
<1> QED BY <1>1, <1>2, <1>3, <1>4 DEF BlockStart

LEMMA StartOfBlockIs ==
    ASSUME NEW x \in Nat, NEW b, Boundary(b), b <= x, x < b + BlockSize
    PROVE  BlockStart(x) = b
<1>1. /\ BlockStart(x) \in Nat /\ Boundary(BlockStart(x))
      /\ BlockStart(x) <= x /\ x < BlockStart(x) + BlockSize
  BY StartOfBlock
<1>2. b \in Nat /\ BlockSize \in Nat
  BY BoundaryNat, Sizes
<1>3. CASE b < BlockStart(x)
  BY <1>1, <1>2, <1>3, BoundaryGap
<1>4. CASE BlockStart(x) < b
  BY <1>1, <1>2, <1>4, BoundaryGap
<1> QED BY <1>1, <1>2, <1>3, <1>4

\* The place of the next header is at x, or at the next block if none fits.
LEMMA PadIs ==
    ASSUME NEW x \in Nat
    PROVE  /\ Pad(x) \in Nat /\ x <= Pad(x) /\ Pad(x) < x + HeaderSize
           /\ Pad(x) = x \/ Boundary(Pad(x))
           /\ Pad(x) + HeaderSize <= BlockStart(Pad(x)) + BlockSize
           /\ \A b : Boundary(b) /\ x <= b => Pad(x) <= b
           /\ \A s \in x .. Pad(x) : Pad(s) = Pad(x)
<1> DEFINE b0 == BlockStart(x)
<1>1. b0 \in Nat /\ Boundary(b0) /\ b0 <= x /\ x < b0 + BlockSize
  BY StartOfBlock
<1>2. Boundary(b0 + BlockSize) /\ b0 + BlockSize \in Nat
  BY <1>1, BoundaryNext, BoundaryNat
<1>3. CASE b0 + BlockSize - x < HeaderSize
  <2>1. Pad(x) = b0 + BlockSize
    BY <1>3 DEF Pad
  <2>2. BlockStart(b0 + BlockSize) = b0 + BlockSize
    BY <1>2, Sizes, StartOfBlockIs
  <2>3. ASSUME NEW b, Boundary(b), x <= b PROVE b0 + BlockSize <= b
    <3>1. b \in Nat /\ (b0 < b \/ b = b0)
      BY <1>1, <2>3, BoundaryNat, Sizes
    <3>2. b \in Nat
      BY <2>3, BoundaryNat
    <3>3. CASE b = b0
      <4>1. x = b0
        BY <1>1, <2>3, <3>3
      <4> QED BY <4>1, <1>1, <1>3, Sizes
    <3> QED BY <3>1, <3>3, <1>1, <2>3, BoundaryGap
  <2>4. ASSUME NEW s \in x .. b0 + BlockSize PROVE Pad(s) = b0 + BlockSize
    <3>1. s \in Nat /\ x <= s /\ s <= b0 + BlockSize
      BY <1>1, <1>2, <2>4
    <3>2. CASE s < b0 + BlockSize
      <4>1. BlockStart(s) = b0
        BY <1>1, <3>1, <3>2, StartOfBlockIs, Sizes
      <4>2. b0 + BlockSize - s < HeaderSize
        BY <1>1, <1>3, <3>1, Sizes
      <4> QED BY <4>1, <4>2 DEF Pad
    <3>3. CASE s = b0 + BlockSize
      <4>1. ~(b0 + BlockSize + BlockSize - s < HeaderSize)
        BY <1>1, <3>3, Sizes
      <4> QED BY <4>1, <2>2, <3>3 DEF Pad
    <3> QED BY <3>1, <3>2, <3>3, <1>2
  <2> HIDE DEF b0
  <2>5. x <= b0 + BlockSize /\ b0 + BlockSize < x + HeaderSize
    BY <1>1, <1>3, Sizes
  <2> QED BY <2>1, <2>2, <2>3, <2>4, <2>5, <1>2, Sizes
<1>4. CASE ~(b0 + BlockSize - x < HeaderSize)
  <2>1. Pad(x) = x
    BY <1>4 DEF Pad
  <2>2. \A s \in x .. x : s = x
    OBVIOUS
  <2>3. x + HeaderSize <= b0 + BlockSize
    BY <1>1, <1>4, Sizes
  <2> QED BY <2>1, <2>2, <2>3, <1>1, Sizes
<1> QED BY <1>3, <1>4

LEMMA PadOfBoundary == ASSUME NEW b, Boundary(b) PROVE Pad(b) = b
<1>1. b \in Nat
  BY BoundaryNat
<1>2. Pad(b) \in Nat /\ b <= Pad(b) /\ Pad(b) <= b
  BY <1>1, PadIs
<1> QED BY <1>1, <1>2

-----------------------------------------------------------------------------
(* The file and the writer. *)

Types == {"full", "first", "middle", "last"}

Fragments == [type : Types, record : Nat \ {0}, from : Nat, at : Nat, length : Nat, have : Nat]

At(i) == file[i].at

\* Where a fragment ends, when all of it is there, and where what is there does.
EndOf(i) == file[i].at + FragmentSize(file[i])
EndOfPart(i) == file[i].at + file[i].have

FileType ==
    /\ file \in Seq(Fragments)
    /\ \A i \in DOMAIN file :
          /\ file[i].record \in DOMAIN lengths
          /\ file[i].have <= FragmentSize(file[i])
    /\ size \in Nat
    /\ block_offset \in 0 .. BlockSize
    /\ record \in [number : Nat, left : Nat, begin : BOOLEAN, writing : BOOLEAN]
    /\ lengths \in Seq(Lengths)
    /\ complete \subseteq DOMAIN lengths
    /\ crashes \in Nat

\* Fragments do not cross blocks, and each is written where what is there of
\* the one before it ends, but for the trailer of a block.
Tiled ==
    /\ \A i \in DOMAIN file : EndOf(i) <= BlockStart(At(i)) + BlockSize
    /\ \A i, j \in DOMAIN file :
          i < j => EndOfPart(i) <= At(j) /\ file[i].have > 0
    /\ \A i \in DOMAIN file : At(i) = IF i = 1 THEN 0 ELSE Pad(EndOfPart(i - 1))

Begins(i) == file[i].type \in {"full", "first"}
Ends(i)   == file[i].type \in {"full", "last"}

\* A fragment begins a record newer than all before it, or goes on, without a
\* gap, with that of the one before it, which is all there.
Joined ==
    /\ \A i, j \in DOMAIN file :
          i < j => file[i].record <= file[j].record /\ (Begins(j) => file[i].record < file[j].record)
    /\ \A i \in DOMAIN file :
          IF Begins(i) THEN file[i].from = 0
          ELSE /\ i > 1
               /\ ~Ends(i - 1)
               /\ ~Torn(i - 1)
               /\ file[i - 1].record = file[i].record
               /\ file[i].from = file[i - 1].from + file[i - 1].length
    /\ \A i \in DOMAIN file :
          Ends(i) => file[i].from + file[i].length = lengths[file[i].record]

\* Between fragments: the file ends where the next one will be, but for a
\* trailer, and block_offset_ is right.
Between ==
    /\ \A i \in DOMAIN file : EndOfPart(i) <= size /\ file[i].have > 0
    /\ Pad(size) = IF file = <<>> THEN 0 ELSE Pad(EndOfPart(Len(file)))
    /\ Boundary(size - block_offset)

\* In a fragment, the last one: there is a part of it, or not yet the trailer.
Within ==
    LET n == Len(file)
    IN  /\ n > 0
        /\ \A i \in DOMAIN file : i < n => EndOfPart(i) <= size
        /\ Torn(n)
        /\ file[n].record = record.number
        /\ Ends(n) <=> record.left = 0
        /\ IF file[n].have = 0 THEN size <= At(n) /\ Pad(size) = At(n) ELSE size = EndOfPart(n)
        /\ Boundary(EndOf(n) - block_offset)

\* The record being written.
Underway ==
    record.number # 0 =>
        /\ record.number = Len(lengths)
        /\ record.number \notin complete
        /\ IF record.begin
           THEN /\ ~record.writing
                /\ record.left = lengths[record.number]
                /\ \A i \in DOMAIN file : file[i].record < record.number
           ELSE LET n == Len(file)
                IN  /\ n > 0
                    /\ file[n].record = record.number
                    /\ file[n].from + file[n].length = lengths[record.number] - record.left
                    /\ ~record.writing => ~Torn(n) /\ ~Ends(n)

\* A complete record is there, and each of its fragments, to its end.
Complete ==
    \A n \in complete :
        /\ \E i \in DOMAIN file : file[i].record = n
        /\ \A i \in DOMAIN file :
              file[i].record = n =>
                  /\ ~Torn(i)
                  /\ Ends(i) \/ (i + 1 \in DOMAIN file /\ file[i + 1].record = n)

\* As long as no process has died every fragment but the one being written is
\* whole, nothing else is in the file, and records are not left unfinished.
Uninterrupted ==
    crashes = 0 =>
        /\ \A i \in DOMAIN file : Torn(i) => record.writing /\ i = Len(file)
        /\ IF file = <<>> THEN size = 0 ELSE size <= EndOf(Len(file))
        /\ \A i \in DOMAIN file : i + 1 \in DOMAIN file => (Begins(i + 1) <=> Ends(i))
        /\ file # <<>> /\ (record.number = 0 \/ record.begin) => Ends(Len(file))

Placed == IF record.writing THEN record.number # 0 /\ ~record.begin /\ Within ELSE Between

FileInv ==
    /\ FileType
    /\ Tiled
    /\ Joined
    /\ Placed
    /\ Underway
    /\ Complete
    /\ Uninterrupted

-----------------------------------------------------------------------------
(* Type and size of fragments. *)

LEMMA FragmentType1 ==
    ASSUME NEW f \in Fragments
    PROVE  /\ f.type \in Types /\ f.record \in Nat /\ f.record # 0 /\ f.from \in Nat
           /\ f.at \in Nat /\ f.length \in Nat /\ f.have \in Nat
           /\ FragmentSize(f) \in Nat /\ HeaderSize <= FragmentSize(f)
BY Sizes DEF Fragments, FragmentSize

LEMMA InFile ==
    ASSUME FileType, NEW i \in DOMAIN file
    PROVE  /\ i \in Nat /\ 1 <= i /\ i <= Len(file) /\ Len(file) \in Nat
           /\ file[i] \in Fragments
           /\ file[i].type \in Types /\ file[i].record \in Nat /\ file[i].record # 0
           /\ file[i].from \in Nat /\ file[i].at \in Nat /\ file[i].length \in Nat
           /\ file[i].have \in Nat /\ file[i].have <= FragmentSize(file[i])
           /\ FragmentSize(file[i]) \in Nat /\ HeaderSize <= FragmentSize(file[i])
           /\ At(i) \in Nat /\ EndOf(i) \in Nat /\ EndOfPart(i) \in Nat
           /\ At(i) + HeaderSize <= EndOf(i)
           /\ EndOfPart(i) <= EndOf(i)
           /\ Torn(i) <=> EndOfPart(i) < EndOf(i)
           /\ ~Torn(i) <=> EndOfPart(i) = EndOf(i)
<1>1. file \in Seq(Fragments)
  BY DEF FileType
<1>2. i \in 1 .. Len(file) /\ Len(file) \in Nat
  BY <1>1
<1>3. i \in Nat /\ 1 <= i /\ i <= Len(file)
  BY <1>2
<1>4. file[i] \in Fragments
  BY <1>1, <1>2, ElementOfSeq
<1>5. /\ file[i].type \in Types /\ file[i].record \in Nat /\ file[i].record # 0
      /\ file[i].from \in Nat /\ file[i].at \in Nat /\ file[i].length \in Nat
      /\ file[i].have \in Nat
      /\ FragmentSize(file[i]) \in Nat /\ HeaderSize <= FragmentSize(file[i])
  BY <1>4, FragmentType1
<1>6. file[i].have <= FragmentSize(file[i])
  BY DEF FileType
<1> DEFINE s == FragmentSize(file[i])
<1>7. At(i) = file[i].at /\ EndOf(i) = file[i].at + s /\ EndOfPart(i) = file[i].at + file[i].have
      /\ (Torn(i) <=> file[i].have < s)
  BY DEF At, EndOf, EndOfPart, Torn
<1>8. s \in Nat /\ HeaderSize <= s /\ file[i].have <= s
  BY <1>5, <1>6
<1> HIDE DEF s
<1>9. /\ At(i) \in Nat /\ EndOf(i) \in Nat /\ EndOfPart(i) \in Nat
      /\ At(i) + HeaderSize <= EndOf(i)
      /\ EndOfPart(i) <= EndOf(i)
      /\ Torn(i) <=> EndOfPart(i) < EndOf(i)
      /\ ~Torn(i) <=> EndOfPart(i) = EndOf(i)
  BY <1>5, <1>7, <1>8, Sizes
<1> QED BY <1>2, <1>3, <1>4, <1>5, <1>6, <1>9

\* Fragments are one behind the other.
LEMMA Order ==
    ASSUME FileType, Tiled, NEW i \in DOMAIN file, NEW j \in DOMAIN file
    PROVE  /\ i < j => EndOfPart(i) <= At(j) /\ At(i) < At(j) /\ file[i].have > 0
           /\ i < j /\ ~Torn(i) => EndOf(i) <= At(j)
           /\ At(i) < At(j) => i < j
           /\ At(i) = At(j) => i = j
<1>1. /\ i \in Nat /\ At(i) \in Nat /\ EndOfPart(i) \in Nat
      /\ file[i].have \in Nat /\ EndOfPart(i) = At(i) + file[i].have
      /\ ~Torn(i) <=> EndOfPart(i) = EndOf(i)
  BY InFile DEF EndOfPart, At
<1>2. /\ j \in Nat /\ At(j) \in Nat /\ EndOfPart(j) \in Nat
      /\ file[j].have \in Nat /\ EndOfPart(j) = At(j) + file[j].have
  BY InFile DEF EndOfPart, At
<1>3. i < j => EndOfPart(i) <= At(j) /\ file[i].have > 0
  BY DEF Tiled
<1>4. j < i => EndOfPart(j) <= At(i) /\ file[j].have > 0
  BY DEF Tiled
<1> QED BY <1>1, <1>2, <1>3, <1>4

-----------------------------------------------------------------------------
(* The writer's steps. *)

LEMMA InitFileInv == Init => FileInv
<1> SUFFICES ASSUME Init PROVE FileInv
  OBVIOUS
<1> USE DEF Init
<1>1. file = <<>> /\ DOMAIN file = {} /\ Len(file) = 0
  OBVIOUS
<1>2. FileType
  <2>1. file \in Seq(Fragments) /\ lengths \in Seq(Lengths)
    OBVIOUS
  <2>2. record \in [number : Nat, left : Nat, begin : BOOLEAN, writing : BOOLEAN]
    BY DEF NoRecord
  <2>3. block_offset \in 0 .. BlockSize
    BY Sizes
  <2>4. size \in Nat /\ crashes \in Nat /\ complete \subseteq DOMAIN lengths
    OBVIOUS
  <2> QED BY <2>1, <2>2, <2>3, <2>4, <1>1 DEF FileType
<1>3. Tiled /\ Joined
  BY <1>1 DEF Tiled, Joined
<1>4. Between
  <2>1. size - block_offset = 0
    OBVIOUS
  <2>2. Pad(size) = 0
    BY BoundaryZero, PadOfBoundary
  <2> QED BY <1>1, <2>1, <2>2, BoundaryZero DEF Between
<1>5. ~record.writing /\ record.number = 0
  BY DEF NoRecord
<1> QED BY <1>1, <1>2, <1>3, <1>4, <1>5 DEF FileInv, Placed, Underway, Complete, Uninterrupted

\* A step that leaves the file and the writer alone.
LEMMA FileStutter ==
    FileInv /\ UNCHANGED <<file, size, block_offset, record, lengths, complete, crashes>> => FileInv'
<1> SUFFICES ASSUME FileInv,
                    UNCHANGED <<file, size, block_offset, record, lengths, complete, crashes>>
             PROVE  FileInv'
  OBVIOUS
<1>1. FileType' /\ Tiled'
  BY DEF FileInv, FileType, Tiled, At, EndOf, EndOfPart
<1>2. Joined'
  BY DEF FileInv, Joined, Begins, Ends, Torn
<1>3. Between => Between'
  BY DEF Between, EndOfPart
<1>4. Within => Within'
  BY DEF Within, EndOfPart, EndOf, At, Torn, Ends
<1>5. Placed'
  BY <1>3, <1>4 DEF FileInv, Placed
<1>6. Underway'
  BY DEF FileInv, Underway, Torn, Ends
<1>7. Complete'
  BY DEF FileInv, Complete, Torn, Ends
<1>8. Uninterrupted'
  BY DEF FileInv, Uninterrupted, Torn, Ends, EndOf, Begins
<1> QED BY <1>1, <1>2, <1>5, <1>6, <1>7, <1>8 DEF FileInv

LEMMA AddRecordFile ==
    ASSUME FileInv, NEW length \in Lengths, AddRecord(length)
    PROVE  FileInv'
<1> DEFINE n == Len(lengths) + 1
<1>0. FileType /\ Joined /\ Complete
  BY DEF FileInv
<1>1. lengths \in Seq(Lengths) /\ Lengths \subseteq Nat /\ Len(lengths) \in Nat
  BY <1>0, RecordLogAssumption DEF FileType
<1>2. record = NoRecord /\ lengths' = Append(lengths, length)
      /\ UNCHANGED <<file, size, block_offset, complete, crashes>>
  BY DEF AddRecord
<1>3. record' = [number |-> n, left |-> length, begin |-> TRUE, writing |-> FALSE]
  BY DEF AddRecord, NoRecord
<1>4. /\ record.number = 0 /\ ~record.writing
      /\ record'.number = n /\ record'.left = length /\ record'.begin /\ ~record'.writing
  BY <1>2, <1>3 DEF NoRecord
<1>5. /\ lengths' \in Seq(Lengths) /\ Len(lengths') = n /\ lengths'[n] = length
      /\ \A m \in DOMAIN lengths : m \in DOMAIN lengths' /\ lengths'[m] = lengths[m] /\ m < n
      /\ n \in Nat
  BY <1>1, <1>2
<1>6. \A i \in DOMAIN file : file[i].record \in DOMAIN lengths
  BY <1>0 DEF FileType
<1> HIDE DEF n
<1>7. FileType'
  <2>1. record' \in [number : Nat, left : Nat, begin : BOOLEAN, writing : BOOLEAN]
    BY <1>1, <1>3, <1>5
  <2>2. /\ file' \in Seq(Fragments)
        /\ \A i \in DOMAIN file : file[i].have <= FragmentSize(file[i])
        /\ size' \in Nat /\ block_offset' \in 0 .. BlockSize /\ crashes' \in Nat
        /\ complete' \subseteq DOMAIN lengths
    BY <1>0, <1>2 DEF FileType
  <2> QED BY <2>1, <2>2, <1>2, <1>5, <1>6 DEF FileType
<1>8. Tiled'
  BY <1>2 DEF FileInv, Tiled, At, EndOf, EndOfPart
<1>9. Joined'
  <2>1. \A i \in DOMAIN file : lengths'[file[i].record] = lengths[file[i].record]
    BY <1>5, <1>6
  <2>2. \A i \in DOMAIN file :
           Ends(i) => file[i].from + file[i].length = lengths'[file[i].record]
    BY <2>1, <1>0 DEF Joined
  <2>3. \A i \in DOMAIN file' :
           Ends(i)' => file'[i].from + file'[i].length = lengths'[file'[i].record]
    BY <2>2, <1>2 DEF Ends
  <2>4. /\ \A i, j \in DOMAIN file' :
             i < j => file'[i].record <= file'[j].record
                      /\ (Begins(j)' => file'[i].record < file'[j].record)
        /\ \A i \in DOMAIN file' :
             IF Begins(i)' THEN file'[i].from = 0
             ELSE /\ i > 1
                  /\ ~Ends(i - 1)'
                  /\ ~Torn(i - 1)'
                  /\ file'[i - 1].record = file'[i].record
                  /\ file'[i].from = file'[i - 1].from + file'[i - 1].length
    BY <1>0, <1>2 DEF Joined, Begins, Ends, Torn
  <2> QED BY <2>3, <2>4 DEF Joined, Begins, Ends, Torn
<1>10. Placed'
  <2>1. Between
    BY <1>4 DEF FileInv, Placed
  <2>2. Between'
    BY <2>1, <1>2 DEF Between, EndOfPart
  <2> QED BY <2>2, <1>4 DEF Placed
<1>11. Underway'
  <2>1. n \notin complete
    BY <1>0, <1>1, <1>5 DEF FileType
  <2>2. \A i \in DOMAIN file : file[i].record < n
    BY <1>5, <1>6
  <2> QED BY <2>1, <2>2, <1>2, <1>4, <1>5 DEF Underway
<1>12. Complete'
  BY <1>0, <1>2 DEF Complete, Torn, Ends
<1>13. Uninterrupted'
  BY <1>2, <1>4 DEF FileInv, Uninterrupted, Torn, Ends, EndOf, Begins
<1> QED BY <1>7, <1>8, <1>9, <1>10, <1>11, <1>12, <1>13 DEF FileInv

\* What is said of a fragment by itself.
LEMMA SameFragment ==
    ASSUME NEW i \in Nat, file'[i] = file[i]
    PROVE  /\ At(i)' = At(i) /\ EndOf(i)' = EndOf(i) /\ EndOfPart(i)' = EndOfPart(i)
           /\ Torn(i)' = Torn(i) /\ Begins(i)' = Begins(i) /\ Ends(i)' = Ends(i)
           /\ BlockOf(i)' = BlockOf(i)
BY DEF At, EndOf, EndOfPart, Torn, Begins, Ends, BlockOf

\* The trailer takes the file to where the next header is to be.
LEMMA TrailerPads ==
    ASSUME FileType, Boundary(size - block_offset),
           NEW start,
           start = IF BlockSize - block_offset < HeaderSize THEN 0 ELSE block_offset
    PROVE  /\ size + Trailer = Pad(size)
           /\ start \in Nat /\ start + HeaderSize <= BlockSize
           /\ Boundary(Pad(size) - start)
<1>1. size \in Nat /\ block_offset \in Nat /\ block_offset <= BlockSize
  BY Sizes DEF FileType
<1> DEFINE b == size - block_offset
<1>2. b \in Nat /\ Boundary(b) /\ size = b + block_offset
  BY <1>1, BoundaryNat
<1> HIDE DEF b
<1>3. Boundary(b + BlockSize) /\ b + BlockSize \in Nat
  BY <1>2, BoundaryNext, BoundaryNat
<1>4. CASE block_offset = BlockSize
  <2>1. Trailer = 0 /\ start = 0
    BY <1>4, Sizes DEF Trailer
  <2>2. size = b + BlockSize
    BY <1>2, <1>4
  <2>3. Pad(size) = size
    BY <2>2, <1>3, PadOfBoundary
  <2>4. size - 0 = size /\ size + 0 = size
    BY <1>1
  <2> QED BY <2>1, <2>2, <2>3, <2>4, <1>3, Sizes
<1>5. CASE block_offset < BlockSize
  <2>1. BlockStart(size) = b
    BY <1>1, <1>2, <1>5, StartOfBlockIs, Sizes
  <2>2. CASE BlockSize - block_offset < HeaderSize
    <3>1. Trailer = BlockSize - block_offset /\ start = 0
      BY <2>2 DEF Trailer
    <3>2. b + BlockSize - size < HeaderSize
      BY <1>1, <1>2, <2>2, Sizes
    <3>3. Pad(size) = b + BlockSize
      BY <2>1, <3>2 DEF Pad
    <3>4. size + Trailer = b + BlockSize /\ b + BlockSize - 0 = b + BlockSize
      BY <1>1, <1>2, <3>1, Sizes
    <3> QED BY <3>1, <3>3, <3>4, <1>3, Sizes
  <2>3. CASE ~(BlockSize - block_offset < HeaderSize)
    <3>1. Trailer = 0 /\ start = block_offset
      BY <2>3 DEF Trailer
    <3>2. ~(b + BlockSize - size < HeaderSize)
      BY <1>1, <1>2, <2>3, Sizes
    <3>3. Pad(size) = size
      BY <2>1, <3>2 DEF Pad
    <3>4. size + Trailer = size /\ size - start = b
      BY <1>1, <1>2, <3>1
    <3>5. start + HeaderSize <= BlockSize
      BY <1>1, <2>3, <3>1, Sizes
    <3> QED BY <3>1, <3>3, <3>4, <3>5, <1>1, <1>2
  <2> QED BY <2>2, <2>3
<1> QED BY <1>1, <1>4, <1>5, Sizes

\* What one turn of AddRecord's loop does to the file.
LEMMA Emitted ==
    ASSUME FileInv, EmitPhysicalRecord
    PROVE  LET n == Len(file) + 1
               f == file'[n]
           IN  /\ ~record.writing /\ record.number # 0 /\ Between
               /\ file' \in Seq(Fragments) /\ Len(file') = n /\ n \in Nat
               /\ DOMAIN file' = 1 .. n /\ DOMAIN file = 1 .. Len(file)
               /\ \A i \in DOMAIN file : i \in DOMAIN file' /\ i < n /\ file'[i] = file[i]
               /\ \A i \in DOMAIN file' : i \in DOMAIN file \/ i = n
               /\ f.record = record.number /\ f.have = 0
               /\ f.at = Pad(size)
               /\ f.from + f.length = lengths[record.number] - record'.left
               /\ IF record.begin THEN f.from = 0
                  ELSE f.from = file[Len(file)].from + file[Len(file)].length
               /\ f.type \in {"full", "first"} <=> record.begin
               /\ f.type \in {"full", "last"} <=> record'.left = 0
               /\ record' = [record EXCEPT !.left = record'.left, !.begin = FALSE, !.writing = TRUE]
               /\ record'.left \in Nat
               /\ block_offset' \in 0 .. BlockSize
               /\ Boundary(f.at + FragmentSize(f) - block_offset')
               /\ f.at + FragmentSize(f) <= BlockStart(f.at) + BlockSize
<1> DEFINE n == Len(file) + 1
           k == Len(file)
           start == IF BlockSize - block_offset < HeaderSize THEN 0 ELSE block_offset
           avail == BlockSize - start - HeaderSize
           length == IF record.left < avail THEN record.left ELSE avail
           from == lengths[record.number] - record.left
           f == [type |-> FragmentType(record.begin, record.left = length),
                 record |-> record.number, from |-> from,
                 at |-> size + Trailer, length |-> length, have |-> 0]
<1>0. FileType /\ Tiled /\ Underway /\ Placed /\ Joined
  BY DEF FileInv
<1>1. record.number # 0 /\ ~record.writing /\ Between
  BY <1>0 DEF EmitPhysicalRecord, Placed
<1>2. /\ file' = Append(file, f)
      /\ block_offset' = start + HeaderSize + length
      /\ record' = [record EXCEPT !.left = record.left - length, !.begin = FALSE, !.writing = TRUE]
      /\ UNCHANGED <<size, lengths, complete, crashes, reader>>
  BY DEF EmitPhysicalRecord
<1>3. /\ record.number \in Nat /\ record.left \in Nat /\ record.begin \in BOOLEAN
      /\ record \in [number : Nat, left : Nat, begin : BOOLEAN, writing : BOOLEAN]
      /\ size \in Nat /\ file \in Seq(Fragments) /\ Len(file) \in Nat
      /\ lengths \in Seq(Lengths)
  BY <1>0 DEF FileType
<1>4. /\ size + Trailer = Pad(size)
      /\ start \in Nat /\ start + HeaderSize <= BlockSize
      /\ Boundary(Pad(size) - start)
  BY <1>0, <1>1, TrailerPads DEF Between
<1>5. /\ Pad(size) \in Nat
      /\ Pad(size) + HeaderSize <= BlockStart(Pad(size)) + BlockSize
  BY <1>3, PadIs
<1> HIDE DEF start
<1>6. avail \in Nat /\ start + HeaderSize + avail = BlockSize
  BY <1>4, Sizes
<1> HIDE DEF avail
<1>7. length \in Nat /\ length <= avail /\ length <= record.left /\ record.left - length \in Nat
  BY <1>3, <1>6
<1> HIDE DEF length
<1>8. /\ f.type = FragmentType(record.begin, record.left = length) /\ f.record = record.number
      /\ f.from = from /\ f.at = Pad(size) /\ f.length = length /\ f.have = 0
  BY <1>4
<1>9. record'.left = record.left - length /\ record'.left \in Nat
  BY <1>2, <1>3, <1>7
<1>10. from \in Nat /\ (IF record.begin THEN from = 0
                        ELSE from = file[k].from + file[k].length)
  <2>1. CASE record.begin
    <3>1. record.left = lengths[record.number]
      BY <1>0, <1>1, <2>1 DEF Underway
    <3> QED BY <3>1, <2>1, <1>3
  <2>2. CASE ~record.begin
    <3>1. k > 0 /\ file[k].from + file[k].length = from
      BY <1>0, <1>1, <2>2 DEF Underway
    <3>2. k \in DOMAIN file
      BY <3>1, <1>3
    <3>3. file[k].from \in Nat /\ file[k].length \in Nat
      BY <3>2, <1>0, InFile
    <3> QED BY <3>1, <3>3, <2>2
  <2> QED BY <2>1, <2>2
<1>11. lengths[record.number] \in Nat
  <2>1. record.number = Len(lengths) /\ Len(lengths) \in Nat
    BY <1>0, <1>1, <1>3 DEF Underway
  <2>2. record.number \in DOMAIN lengths
    BY <2>1, <1>1, <1>3
  <2>3. lengths[record.number] \in Lengths
    BY <2>2, <1>3
  <2> QED BY <2>3, RecordLogAssumption
<1>12. from + length = lengths[record.number] - record'.left
  BY <1>3, <1>7, <1>9, <1>11
<1>13. /\ f.type \in Types
       /\ f.type \in {"full", "first"} <=> record.begin
       /\ f.type \in {"full", "last"} <=> record'.left = 0
  <2>1. record'.left = 0 <=> record.left = length
    BY <1>3, <1>7, <1>9
  <2>2. DEFINE ty == FragmentType(record.begin, record.left = length)
  <2>3. /\ ty \in Types
        /\ ty \in {"full", "first"} <=> record.begin
        /\ ty \in {"full", "last"} <=> record.left = length
    BY <1>3 DEF FragmentType, Types
  <2> QED BY <2>1, <2>3, <1>8
<1>14. f \in Fragments
  BY <1>1, <1>3, <1>5, <1>7, <1>8, <1>10, <1>13 DEF Fragments
<1>15. FragmentSize(f) = HeaderSize + length
  BY <1>8 DEF FragmentSize
<1>16. block_offset' \in 0 .. BlockSize
  BY <1>2, <1>4, <1>6, <1>7, Sizes
<1>17. f.at + FragmentSize(f) - block_offset' = Pad(size) - start
  BY <1>2, <1>4, <1>5, <1>7, <1>8, <1>15, Sizes
<1>18. f.at + FragmentSize(f) <= BlockStart(f.at) + BlockSize
  <2>1. BlockStart(Pad(size)) = Pad(size) - start
    <3>1. Pad(size) - start \in Nat
      BY <1>4, BoundaryNat
    <3>2. Pad(size) - start <= Pad(size) /\ Pad(size) < (Pad(size) - start) + BlockSize
      BY <1>4, <1>5, <3>1, Sizes
    <3> QED BY <3>2, <1>4, <1>5, StartOfBlockIs
  <2> QED BY <2>1, <1>4, <1>5, <1>6, <1>7, <1>8, <1>15, Sizes
<1> HIDE DEF f
<1>19. /\ file' \in Seq(Fragments) /\ Len(file') = n /\ file'[n] = f /\ n \in Nat
       /\ DOMAIN file' = 1 .. n /\ DOMAIN file = 1 .. Len(file)
       /\ \A i \in DOMAIN file : i \in DOMAIN file' /\ i < n /\ file'[i] = file[i]
       /\ \A i \in DOMAIN file' : i \in DOMAIN file \/ i = n
  BY <1>2, <1>3, <1>14
<1>20. record' = [record EXCEPT !.left = record'.left, !.begin = FALSE, !.writing = TRUE]
  BY <1>2, <1>9
<1> HIDE DEF from, n, k
<1>21. f.from + f.length = lengths[record.number] - record'.left
  BY <1>8, <1>12
<1>22. IF record.begin THEN f.from = 0 ELSE f.from = file[k].from + file[k].length
  BY <1>8, <1>10
<1>23. Boundary(f.at + FragmentSize(f) - block_offset')
  BY <1>4, <1>17
<1> QED BY <1>1, <1>8, <1>9, <1>13, <1>16, <1>18, <1>19, <1>20, <1>21, <1>22, <1>23
        DEF n, k

LEMMA EmitFile ==
    ASSUME FileInv, EmitPhysicalRecord
    PROVE  FileInv'
<1>0. FileType /\ Tiled /\ Joined /\ Underway /\ Complete /\ Uninterrupted
  BY DEF FileInv
<1>1. UNCHANGED <<size, lengths, complete, crashes>>
  BY DEF EmitPhysicalRecord
<1>2. /\ ~record.writing /\ record.number # 0 /\ Between
      /\ Len(file) + 1 \in Nat
  BY Emitted
<1>3. PICK n \in Nat : n = Len(file) + 1
  BY <1>2
<1>4. PICK k : k = Len(file)
  OBVIOUS
<1>5. PICK f : f = file'[n]
  OBVIOUS
<1>6. /\ file' \in Seq(Fragments) /\ Len(file') = n
      /\ DOMAIN file' = 1 .. n /\ DOMAIN file = 1 .. k
      /\ \A i \in DOMAIN file : i \in DOMAIN file' /\ i < n /\ file'[i] = file[i]
      /\ \A i \in DOMAIN file' : i \in DOMAIN file \/ i = n
      /\ f.record = record.number /\ f.have = 0
      /\ f.at = Pad(size)
  BY <1>3, <1>4, <1>5, Emitted
<1>7. /\ f.from + f.length = lengths[record.number] - record'.left
      /\ IF record.begin THEN f.from = 0
         ELSE f.from = file[k].from + file[k].length
      /\ f.type \in {"full", "first"} <=> record.begin
      /\ f.type \in {"full", "last"} <=> record'.left = 0
  BY <1>3, <1>4, <1>5, Emitted
<1>8. /\ record' = [record EXCEPT !.left = record'.left, !.begin = FALSE, !.writing = TRUE]
      /\ record'.left \in Nat
      /\ block_offset' \in 0 .. BlockSize
      /\ Boundary(f.at + FragmentSize(f) - block_offset')
      /\ f.at + FragmentSize(f) <= BlockStart(f.at) + BlockSize
  BY <1>3, <1>5, Emitted
<1>9. /\ size \in Nat /\ Len(file) \in Nat /\ lengths \in Seq(Lengths)
      /\ record \in [number : Nat, left : Nat, begin : BOOLEAN, writing : BOOLEAN]
  BY <1>0 DEF FileType
<1>10. /\ record'.number = record.number /\ ~record'.begin /\ record'.writing
       /\ record' \in [number : Nat, left : Nat, begin : BOOLEAN, writing : BOOLEAN]
  <2>1. PICK l \in Nat : /\ l = record'.left
                         /\ record' = [record EXCEPT !.left = l, !.begin = FALSE, !.writing = TRUE]
    BY <1>8
  <2> QED BY <2>1, <1>9
<1>11. /\ record.number = Len(lengths) /\ record.number \notin complete
       /\ record.number \in DOMAIN lengths
  <2>1. record.number = Len(lengths) /\ record.number \notin complete
    BY <1>0, <1>2 DEF Underway
  <2> QED BY <2>1, <1>2, <1>9
<1>12. /\ n \in DOMAIN file' /\ (k > 0 <=> k \in DOMAIN file) /\ n = k + 1 /\ k \in Nat /\ n # k
       /\ (n = 1 <=> k = 0) /\ n - 1 = k
       /\ \A i \in DOMAIN file : i \in Nat /\ i # n /\ i - 1 # n /\ i <= k
                                 /\ (i # 1 => i - 1 \in DOMAIN file)
  BY <1>3, <1>4, <1>6, <1>9
<1>13. k = 0 <=> file = <<>>
  BY <1>4, <1>0 DEF FileType
<1>14. /\ \A i \in DOMAIN file :
              /\ At(i)' = At(i) /\ EndOf(i)' = EndOf(i) /\ EndOfPart(i)' = EndOfPart(i)
              /\ Torn(i)' = Torn(i) /\ Begins(i)' = Begins(i) /\ Ends(i)' = Ends(i)
  BY <1>6, <1>12, SameFragment
<1>15. /\ At(n)' = Pad(size) /\ EndOf(n)' = f.at + FragmentSize(f)
       /\ (Begins(n)' <=> record.begin) /\ (Ends(n)' <=> record'.left = 0)
  BY <1>5, <1>6, <1>7 DEF At, EndOf, Begins, Ends
<1>16. Torn(n)'
  <2>1. FragmentSize(f) > 0
    BY <1>5, <1>6, <1>12, FragmentType1, Sizes
  <2> QED BY <2>1, <1>5, <1>6 DEF Torn
<1>17. f \in Fragments /\ f.have <= FragmentSize(f)
  BY <1>5, <1>6, <1>12, FragmentType1, Sizes
<1>18. /\ \A i \in DOMAIN file : EndOfPart(i) <= size /\ file[i].have > 0
       /\ Pad(size) = IF file = <<>> THEN 0 ELSE Pad(EndOfPart(k))
  BY <1>2, <1>4 DEF Between
<1>19. Pad(size) \in Nat /\ size <= Pad(size) /\ Pad(Pad(size)) = Pad(size)
  <2>1. Pad(size) \in Nat /\ size <= Pad(size) /\ \A s \in size .. Pad(size) : Pad(s) = Pad(size)
    BY <1>9, PadIs
  <2>2. Pad(size) \in size .. Pad(size)
    BY <2>1, <1>9
  <2> QED BY <2>1, <2>2
<1>20. FileType'
  <2>1. \A i \in DOMAIN file' :
           /\ file'[i].record \in DOMAIN lengths
           /\ file'[i].have <= FragmentSize(file'[i])
    BY <1>0, <1>5, <1>6, <1>11, <1>17 DEF FileType
  <2> QED BY <2>1, <1>0, <1>1, <1>6, <1>8, <1>10 DEF FileType
<1>21. Tiled'
  <2>1. \A i \in DOMAIN file' : EndOf(i)' <= BlockStart(At(i)') + BlockSize
    <3>1. \A i \in DOMAIN file : EndOf(i)' <= BlockStart(At(i)') + BlockSize
      BY <1>0, <1>14 DEF Tiled
    <3>2. EndOf(n)' <= BlockStart(At(n)') + BlockSize
      BY <1>6, <1>8, <1>15
    <3> QED BY <3>1, <3>2, <1>6
  <2>2. \A i, j \in DOMAIN file' : i < j => EndOfPart(i)' <= At(j)' /\ file'[i].have > 0
    <3>1. \A i, j \in DOMAIN file : i < j => EndOfPart(i)' <= At(j)' /\ file'[i].have > 0
      BY <1>0, <1>6, <1>14 DEF Tiled
    <3>2. ASSUME NEW i \in DOMAIN file PROVE EndOfPart(i)' <= At(n)' /\ file'[i].have > 0
      <4>1. EndOfPart(i) \in Nat /\ EndOfPart(i) <= size /\ file[i].have > 0
        BY <1>0, <1>18, InFile
      <4> QED BY <4>1, <1>6, <1>9, <1>14, <1>15, <1>19
    <3>3. \A i \in DOMAIN file : ~(n < i)
      BY <1>6, <1>12
    <3> QED BY <3>1, <3>2, <3>3, <1>6, <1>3
  <2>3. \A i \in DOMAIN file' : At(i)' = IF i = 1 THEN 0 ELSE Pad(EndOfPart(i - 1)')
    <3>1. ASSUME NEW i \in DOMAIN file
          PROVE  At(i)' = IF i = 1 THEN 0 ELSE Pad(EndOfPart(i - 1)')
      <4>1. At(i) = IF i = 1 THEN 0 ELSE Pad(EndOfPart(i - 1))
        BY <1>0 DEF Tiled
      <4>2. i # 1 => EndOfPart(i - 1)' = EndOfPart(i - 1)
        BY <1>12, <1>14
      <4> QED BY <4>1, <4>2, <1>14
    <3>2. At(n)' = IF n = 1 THEN 0 ELSE Pad(EndOfPart(n - 1)')
      <4>1. n # 1 => EndOfPart(n - 1)' = EndOfPart(k)
        BY <1>12, <1>14
      <4> QED BY <4>1, <1>12, <1>13, <1>15, <1>18
    <3> QED BY <3>1, <3>2, <1>6
  <2> QED BY <2>1, <2>2, <2>3 DEF Tiled
<1>22. Joined'
  <2>1. ASSUME NEW i \in DOMAIN file
        PROVE  file[i].record <= record.number /\ (record.begin => file[i].record < record.number)
    <3>1. CASE record.begin
      <4>1. file[i].record < record.number
        BY <1>0, <1>2, <3>1 DEF Underway
      <4> QED BY <4>1, <1>0, <1>9, InFile
    <3>2. CASE ~record.begin
      <4>1. k > 0 /\ file[k].record = record.number
        BY <1>0, <1>2, <1>4, <3>2 DEF Underway
      <4>2. k \in DOMAIN file /\ (i = k \/ i < k) /\ record.number \in Nat
        BY <4>1, <1>9, <1>12
      <4>3. i < k => file[i].record <= file[k].record
        BY <4>2, <1>0 DEF Joined
      <4> QED BY <4>1, <4>2, <4>3, <3>2
    <3> QED BY <3>1, <3>2
  <2>2. \A i, j \in DOMAIN file' :
           i < j => /\ file'[i].record <= file'[j].record
                    /\ Begins(j)' => file'[i].record < file'[j].record
    <3>1. \A i, j \in DOMAIN file :
             i < j => /\ file'[i].record <= file'[j].record
                      /\ Begins(j)' => file'[i].record < file'[j].record
      BY <1>0, <1>6, <1>14 DEF Joined
    <3>2. \A i \in DOMAIN file : /\ file'[i].record <= file'[n].record
                                 /\ Begins(n)' => file'[i].record < file'[n].record
      BY <2>1, <1>5, <1>6, <1>15
    <3>3. \A i \in DOMAIN file : ~(n < i)
      BY <1>6, <1>12
    <3> QED BY <3>1, <3>2, <3>3, <1>6, <1>3
  <2> DEFINE GoesOn(i) ==
                 IF Begins(i)' THEN file'[i].from = 0
                 ELSE /\ i > 1
                      /\ ~Ends(i - 1)'
                      /\ ~Torn(i - 1)'
                      /\ file'[i - 1].record = file'[i].record
                      /\ file'[i].from = file'[i - 1].from + file'[i - 1].length
  <2>3. ASSUME NEW i \in DOMAIN file PROVE GoesOn(i)
    <3>1. IF Begins(i) THEN file[i].from = 0
          ELSE /\ i > 1
               /\ ~Ends(i - 1)
               /\ ~Torn(i - 1)
               /\ file[i - 1].record = file[i].record
               /\ file[i].from = file[i - 1].from + file[i - 1].length
      BY <1>0 DEF Joined
    <3>2. i > 1 => i - 1 \in DOMAIN file
      BY <1>12
    <3>3. i > 1 => (Ends(i - 1)' <=> Ends(i - 1)) /\ (Torn(i - 1)' <=> Torn(i - 1))
                   /\ file'[i - 1] = file[i - 1]
      BY <3>2, <1>6, <1>14
    <3> QED BY <3>1, <3>3, <1>6, <1>14
  <2>4. GoesOn(n)
    <3>1. CASE record.begin
      BY <3>1, <1>5, <1>7, <1>15
    <3>2. CASE ~record.begin
      <4>1. /\ k > 0 /\ file[k].record = record.number /\ ~Torn(k) /\ ~Ends(k)
        BY <1>0, <1>2, <1>4, <3>2 DEF Underway
      <4>2. k \in DOMAIN file /\ n - 1 = k /\ n > 1
        BY <4>1, <1>12
      <4>3. ~Torn(n - 1)' /\ ~Ends(n - 1)' /\ file'[n - 1] = file[k]
        BY <4>1, <4>2, <1>6, <1>14
      <4> QED BY <4>1, <4>2, <4>3, <3>2, <1>5, <1>6, <1>7, <1>15
    <3> QED BY <3>1, <3>2
  <2>5. \A i \in DOMAIN file' : GoesOn(i)
    BY <2>3, <2>4, <1>6
  <2>6. \A i \in DOMAIN file' :
           Ends(i)' => file'[i].from + file'[i].length = lengths[file'[i].record]
    <3>1. \A i \in DOMAIN file :
             Ends(i)' => file'[i].from + file'[i].length = lengths[file'[i].record]
      BY <1>0, <1>6, <1>14 DEF Joined
    <3>2. Ends(n)' => file'[n].from + file'[n].length = lengths[file'[n].record]
      <4>1. SUFFICES ASSUME record'.left = 0
                     PROVE  f.from + f.length = lengths[record.number]
        BY <1>5, <1>6, <1>15
      <4>2. lengths[record.number] \in Lengths
        BY <1>9, <1>11
      <4>3. lengths[record.number] \in Nat
        BY <4>2, RecordLogAssumption
      <4> QED BY <4>1, <4>3, <1>7
    <3> QED BY <3>1, <3>2, <1>6
  <2> QED BY <2>2, <2>5, <2>6, <1>1 DEF Joined
<1>23. Placed'
  <2>1. Len(file') = n /\ n > 0
    BY <1>3, <1>6, <1>9
  <2>2. \A i \in DOMAIN file' : i < n => EndOfPart(i)' <= size
    BY <1>6, <1>14, <1>18, <1>3
  <2>3. IF file'[n].have = 0 THEN size <= At(n)' /\ Pad(size) = At(n)' ELSE size = EndOfPart(n)'
    BY <1>5, <1>6, <1>15, <1>19
  <2>4. Boundary(EndOf(n)' - block_offset')
    <3>1. EndOf(n)' - block_offset' = f.at + FragmentSize(f) - block_offset'
      BY <1>8, <1>15, <1>17, FragmentType1, Sizes
    <3> QED BY <3>1, <1>8
  <2>5. file'[n].record = record'.number
    BY <1>5, <1>6, <1>10
  <2>6. Within'
    BY <2>1, <2>2, <2>3, <2>4, <2>5, <1>1, <1>15, <1>16 DEF Within
  <2> QED BY <2>6, <1>2, <1>10 DEF Placed
<1>24. Underway'
  <2>1. file'[n].from + file'[n].length = lengths[record.number] - record'.left
    BY <1>5, <1>7
  <2> QED BY <2>1, <1>1, <1>3, <1>5, <1>6, <1>9, <1>10, <1>11 DEF Underway
<1>25. Complete'
  <2> SUFFICES ASSUME NEW m \in complete
               PROVE  /\ \E i \in DOMAIN file' : file'[i].record = m
                      /\ \A i \in DOMAIN file' :
                            file'[i].record = m =>
                                /\ ~Torn(i)'
                                /\ Ends(i)' \/ (i + 1 \in DOMAIN file' /\ file'[i + 1].record = m)
    BY <1>1 DEF Complete
  <2>1. /\ \E i \in DOMAIN file : file[i].record = m
        /\ \A i \in DOMAIN file :
              file[i].record = m =>
                  ~Torn(i) /\ (Ends(i) \/ (i + 1 \in DOMAIN file /\ file[i + 1].record = m))
    BY <1>0 DEF Complete
  <2>2. file'[n].record # m
    BY <1>5, <1>6, <1>11
  <2> QED BY <2>1, <2>2, <1>6, <1>14
<1>26. Uninterrupted'
  <2> SUFFICES ASSUME crashes = 0
               PROVE  /\ \A i \in DOMAIN file' : Torn(i)' => record'.writing /\ i = n
                      /\ IF file' = <<>> THEN size = 0 ELSE size <= EndOf(n)'
                      /\ \A i \in DOMAIN file' :
                            i + 1 \in DOMAIN file' => (Begins(i + 1)' <=> Ends(i)')
                      /\ ~(record'.number = 0 \/ record'.begin)
    BY <1>1, <1>6 DEF Uninterrupted
  <2>1. /\ \A i \in DOMAIN file : ~Torn(i)
        /\ \A i \in DOMAIN file : i + 1 \in DOMAIN file => (Begins(i + 1) <=> Ends(i))
        /\ file # <<>> /\ record.begin => Ends(k)
    BY <1>0, <1>2, <1>4 DEF Uninterrupted
  <2>2. size <= EndOf(n)'
    BY <1>6, <1>9, <1>15, <1>17, <1>19, FragmentType1
  <2>3. file' # <<>>
    BY <1>12
  <2>4. ASSUME NEW i \in DOMAIN file', i + 1 \in DOMAIN file'
        PROVE  Begins(i + 1)' <=> Ends(i)'
    <3>1. i \in DOMAIN file /\ (i + 1 \in DOMAIN file \/ (i = k /\ i + 1 = n))
      BY <2>4, <1>3, <1>4, <1>6, <1>9
    <3>2. CASE i + 1 \in DOMAIN file
      BY <2>1, <3>1, <3>2, <1>14
    <3>3. CASE i = k /\ i + 1 = n
      <4>1. Begins(i + 1)' <=> record.begin
        BY <3>3, <1>15
      <4>2. Ends(i)' <=> Ends(k)
        BY <3>1, <3>3, <1>14
      <4>3. record.begin => Ends(k)
        BY <2>1, <3>1
      <4>4. ~record.begin => ~Ends(k)
        BY <1>0, <1>2, <1>4 DEF Underway
      <4> QED BY <4>1, <4>2, <4>3, <4>4
    <3> QED BY <3>1, <3>2, <3>3
  <2> QED BY <2>1, <2>2, <2>3, <2>4, <1>2, <1>6, <1>10, <1>14
<1> QED BY <1>20, <1>21, <1>22, <1>23, <1>24, <1>25, <1>26 DEF FileInv

LEMMA MoreOfFragment ==
    ASSUME NEW f \in Fragments, NEW h \in Nat, NEW g, g = [f EXCEPT !.have = h]
    PROVE  /\ g.type = f.type /\ g.record = f.record /\ g.from = f.from /\ g.at = f.at
           /\ g.length = f.length /\ g.have = h /\ g \in Fragments /\ f.at \in Nat
BY DEF Fragments

\* What stdio's writing some of the fragment does to the file.
LEMMA Written ==
    ASSUME FileInv, NEW bytes \in Pieces \cup {Unwritten}, WriteOut(bytes),
           NEW n, n = Len(file)
    PROVE  /\ record.writing /\ record.number # 0 /\ ~record.begin /\ Within
           /\ n \in Nat /\ n \in DOMAIN file /\ n > 0
           /\ file' \in Seq(Fragments) /\ DOMAIN file = 1 .. n
           /\ Len(file') = n /\ DOMAIN file' = DOMAIN file
           /\ \A i \in DOMAIN file : (i < n \/ i = n) /\ (i # n => file'[i] = file[i])
           /\ file'[n].type = file[n].type /\ file'[n].record = file[n].record
           /\ file'[n].from = file[n].from /\ file'[n].at = file[n].at
           /\ file'[n].length = file[n].length
           /\ file'[n].have \in Nat /\ file'[n].have > file[n].have
           /\ file'[n].have <= FragmentSize(file[n])
           /\ size' = file[n].at + file'[n].have
           /\ file'[n].have < FragmentSize(file[n]) =>
                 record' = record /\ complete' = complete
           /\ ~(file'[n].have < FragmentSize(file[n])) =>
                 /\ record' = IF record.left = 0 THEN NoRecord
                              ELSE [record EXCEPT !.writing = FALSE]
                 /\ complete' = IF record.left = 0 THEN complete \cup {record.number}
                                ELSE complete
           /\ UNCHANGED <<block_offset, lengths, crashes, reader>>
<1>0. FileType /\ Placed
  BY DEF FileInv
<1>1. record.writing /\ record.number # 0 /\ ~record.begin /\ Within
  BY <1>0 DEF WriteOut, Placed
<1>2. n \in Nat /\ n > 0 /\ n \in DOMAIN file /\ DOMAIN file = 1 .. n /\ file \in Seq(Fragments)
  BY <1>0, <1>1 DEF FileType, Within
<1> DEFINE f == file[n]
           s == FragmentSize(f)
<1>3. /\ f \in Fragments /\ f.have \in Nat /\ s \in Nat /\ f.have < s /\ Last(file) = f
  BY <1>0, <1>1, <1>2, InFile DEF Within, Torn, Last
<1>4. Unwritten = s - f.have
  BY <1>1, <1>3 DEF Unwritten
<1>5. bytes \in Nat /\ bytes > 0 /\ bytes <= s - f.have
  <2>1. bytes <= s - f.have
    BY <1>4 DEF WriteOut
  <2>2. CASE bytes \in Pieces
    BY <2>1, <2>2, RecordLogAssumption
  <2>3. CASE bytes = Unwritten
    BY <2>3, <1>3, <1>4
  <2> QED BY <2>2, <2>3, <2>1
<1>6. /\ file' = [file EXCEPT ![n] = [f EXCEPT !.have = f.have + bytes]]
      /\ size' = f.at + f.have + bytes
      /\ record' = IF ~(bytes = s - f.have) THEN record
                   ELSE IF record.left = 0 THEN NoRecord
                   ELSE [record EXCEPT !.writing = FALSE]
      /\ complete' = IF bytes = s - f.have /\ record.left = 0
                     THEN complete \cup {record.number} ELSE complete
      /\ UNCHANGED <<block_offset, lengths, crashes, reader>>
  BY <1>3, <1>4 DEF WriteOut
<1>7. PICK g : g = [f EXCEPT !.have = f.have + bytes]
  OBVIOUS
<1>8. /\ g.type = f.type /\ g.record = f.record /\ g.from = f.from /\ g.at = f.at
      /\ g.length = f.length /\ g.have = f.have + bytes /\ g \in Fragments
      /\ f.at \in Nat
  <2>1. f.have + bytes \in Nat
    BY <1>3, <1>5
  <2> QED BY <2>1, <1>3, <1>7, MoreOfFragment
<1>9. /\ file' \in Seq(Fragments) /\ Len(file') = n /\ DOMAIN file' = DOMAIN file /\ file'[n] = g
      /\ \A i \in DOMAIN file : (i < n \/ i = n) /\ (i # n => file'[i] = file[i])
  <2>1. file' = [file EXCEPT ![n] = g]
    BY <1>6, <1>7
  <2> HIDE DEF f, s
  <2>2. file' \in Seq(Fragments) /\ Len(file') = n /\ DOMAIN file' = DOMAIN file
    BY <2>1, <1>2, <1>8
  <2>3. file'[n] = g /\ \A i \in DOMAIN file : i # n => file'[i] = file[i]
    BY <2>1, <1>2
  <2>4. \A i \in DOMAIN file : i < n \/ i = n
    BY <1>2
  <2> QED BY <2>2, <2>3, <2>4
<1>10. g.have < s <=> ~(bytes = s - f.have)
  <2>1. PICK a \in Nat : a = f.have /\ g.have = a + bytes
    BY <1>3, <1>8
  <2> HIDE DEF f, s
  <2>2. bytes \in Nat /\ s \in Nat /\ bytes <= s - a
    BY <2>1, <1>3, <1>5
  <2>3. a + bytes < s <=> ~(bytes = s - a)
    BY <2>2
  <2> QED BY <2>1, <2>3
<1>11. g.have \in Nat /\ g.have > f.have /\ g.have <= s /\ size' = f.at + g.have
  BY <1>3, <1>5, <1>6, <1>8
<1> HIDE DEF s
<1>12. /\ g.have < s => record' = record /\ complete' = complete
       /\ ~(g.have < s) =>
             /\ record' = IF record.left = 0 THEN NoRecord ELSE [record EXCEPT !.writing = FALSE]
             /\ complete' = IF record.left = 0 THEN complete \cup {record.number} ELSE complete
  BY <1>6, <1>10
<1> QED BY <1>1, <1>2, <1>6, <1>8, <1>9, <1>11, <1>12 DEF s

LEMMA WriteOutFile ==
    ASSUME FileInv, NEW bytes \in Pieces \cup {Unwritten}, WriteOut(bytes)
    PROVE  FileInv'
<1>1. PICK n : n = Len(file)
  OBVIOUS
<1>2. /\ record.writing /\ record.number # 0 /\ ~record.begin /\ Within
      /\ n \in Nat /\ n \in DOMAIN file /\ n > 0
      /\ file' \in Seq(Fragments) /\ DOMAIN file = 1 .. n
      /\ Len(file') = n /\ DOMAIN file' = DOMAIN file
      /\ \A i \in DOMAIN file : (i < n \/ i = n) /\ (i # n => file'[i] = file[i])
      /\ UNCHANGED <<block_offset, lengths, crashes, reader>>
  BY <1>1, Written
<1>3. /\ file'[n].type = file[n].type /\ file'[n].record = file[n].record
      /\ file'[n].from = file[n].from /\ file'[n].at = file[n].at
      /\ file'[n].length = file[n].length
      /\ file'[n].have \in Nat /\ file'[n].have > file[n].have
      /\ file'[n].have <= FragmentSize(file[n])
      /\ size' = file[n].at + file'[n].have
  BY <1>1, Written
<1>4. /\ file'[n].have < FragmentSize(file[n]) => record' = record /\ complete' = complete
      /\ ~(file'[n].have < FragmentSize(file[n])) =>
             /\ record' = IF record.left = 0 THEN NoRecord
                          ELSE [record EXCEPT !.writing = FALSE]
             /\ complete' = IF record.left = 0 THEN complete \cup {record.number} ELSE complete
  BY <1>1, Written
<1>5. FileType /\ Tiled /\ Joined /\ Underway /\ Complete /\ Uninterrupted
  BY DEF FileInv
<1>6. /\ record \in [number : Nat, left : Nat, begin : BOOLEAN, writing : BOOLEAN]
      /\ lengths \in Seq(Lengths) /\ complete \subseteq DOMAIN lengths
      /\ record.number \in Nat /\ record.left \in Nat
  BY <1>5 DEF FileType
<1>7. /\ record.number = Len(lengths) /\ record.number \notin complete
      /\ file[n].record = record.number
      /\ file[n].from + file[n].length = lengths[record.number] - record.left
      /\ record.number \in DOMAIN lengths
  <2>1. Len(lengths) \in Nat /\ DOMAIN lengths = 1 .. Len(lengths)
    BY <1>6
  <2> QED BY <2>1, <1>1, <1>2, <1>5, <1>6 DEF Underway
<1>8. /\ Torn(n) /\ (Ends(n) <=> record.left = 0)
      /\ \A i \in DOMAIN file : i < n => EndOfPart(i) <= size
      /\ Boundary(EndOf(n) - block_offset)
  BY <1>1, <1>2 DEF Within
<1>9. \A i \in DOMAIN file : i # n =>
         /\ At(i)' = At(i) /\ EndOf(i)' = EndOf(i) /\ EndOfPart(i)' = EndOfPart(i)
         /\ Torn(i)' = Torn(i) /\ Begins(i)' = Begins(i) /\ Ends(i)' = Ends(i)
  BY <1>2, SameFragment
<1>10. FragmentSize(file'[n]) = FragmentSize(file[n])
  BY <1>3 DEF FragmentSize
<1>11. /\ At(n)' = At(n) /\ EndOf(n)' = EndOf(n) /\ Begins(n)' = Begins(n) /\ Ends(n)' = Ends(n)
       /\ (Torn(n)' <=> file'[n].have < FragmentSize(file[n]))
       /\ EndOfPart(n)' = size'
  BY <1>3, <1>10 DEF At, EndOf, EndOfPart, Torn, Begins, Ends
<1>12. \A i \in DOMAIN file :
          /\ At(i)' = At(i) /\ EndOf(i)' = EndOf(i) /\ Begins(i)' = Begins(i) /\ Ends(i)' = Ends(i)
          /\ file'[i].record = file[i].record /\ file'[i].from = file[i].from
          /\ file'[i].length = file[i].length
          /\ i \in Nat /\ (i > 1 => i - 1 \in DOMAIN file /\ i - 1 # n)
  BY <1>2, <1>3, <1>9, <1>11
<1>13. /\ At(n) \in Nat /\ At(n) = file[n].at /\ size' \in Nat /\ size' <= EndOf(n)
       /\ file[n].have \in Nat /\ FragmentSize(file[n]) \in Nat
  <2>1. /\ file[n].at \in Nat /\ file[n].have \in Nat /\ FragmentSize(file[n]) \in Nat
    BY <1>2, <1>5, InFile
  <2>2. At(n) = file[n].at /\ EndOf(n) = file[n].at + FragmentSize(file[n])
    BY DEF At, EndOf
  <2> QED BY <2>1, <2>2, <1>3
<1>14. (Torn(n)' /\ record' = record /\ complete' = complete)
       \/ (/\ ~Torn(n)'
           /\ record' = IF record.left = 0 THEN NoRecord
                        ELSE [record EXCEPT !.writing = FALSE]
           /\ complete' = IF record.left = 0 THEN complete \cup {record.number} ELSE complete)
  BY <1>4, <1>11
<1>15. /\ record.left # 0 /\ ~Torn(n)' =>
             /\ record'.number = record.number /\ record'.left = record.left
             /\ ~record'.begin /\ ~record'.writing /\ complete' = complete
       /\ record.left = 0 /\ ~Torn(n)' =>
             /\ record'.number = 0 /\ ~record'.writing
             /\ complete' = complete \cup {record.number}
       /\ record' \in [number : Nat, left : Nat, begin : BOOLEAN, writing : BOOLEAN]
  <2>1. CASE Torn(n)'
    BY <2>1, <1>6, <1>14
  <2>2. CASE ~Torn(n)' /\ record.left = 0
    <3>1. record' = NoRecord /\ complete' = complete \cup {record.number}
      BY <2>2, <1>14
    <3> QED BY <2>2, <3>1 DEF NoRecord
  <2>3. CASE ~Torn(n)' /\ record.left # 0
    <3>1. record' = [record EXCEPT !.writing = FALSE] /\ complete' = complete
      BY <2>3, <1>14
    <3> QED BY <2>3, <3>1, <1>2, <1>6
  <2> QED BY <2>1, <2>2, <2>3
<1>16. FileType'
  <2>1. \A i \in DOMAIN file' :
           file'[i].record \in DOMAIN lengths /\ file'[i].have <= FragmentSize(file'[i])
    BY <1>2, <1>3, <1>5, <1>10 DEF FileType
  <2>2. complete' \subseteq DOMAIN lengths
    BY <1>6, <1>7, <1>14
  <2> QED BY <2>1, <2>2, <1>2, <1>5, <1>13, <1>15 DEF FileType
<1>17. Tiled'
  <2>1. \A i \in DOMAIN file' : EndOf(i)' <= BlockStart(At(i)') + BlockSize
    BY <1>2, <1>5, <1>12 DEF Tiled
  <2>2. \A i, j \in DOMAIN file' : i < j => EndOfPart(i)' <= At(j)' /\ file'[i].have > 0
    <3> SUFFICES ASSUME NEW i \in DOMAIN file, NEW j \in DOMAIN file, i < j
                 PROVE  EndOfPart(i)' <= At(j)' /\ file'[i].have > 0
      BY <1>2
    <3>1. i # n
      BY <1>2, <1>12
    <3> QED BY <3>1, <1>2, <1>5, <1>9, <1>12 DEF Tiled
  <2>3. \A i \in DOMAIN file' : At(i)' = IF i = 1 THEN 0 ELSE Pad(EndOfPart(i - 1)')
    <3> SUFFICES ASSUME NEW i \in DOMAIN file
                 PROVE  At(i)' = IF i = 1 THEN 0 ELSE Pad(EndOfPart(i - 1)')
      BY <1>2
    <3>1. At(i) = IF i = 1 THEN 0 ELSE Pad(EndOfPart(i - 1))
      BY <1>5 DEF Tiled
    <3>2. i # 1 => i - 1 \in DOMAIN file /\ i - 1 # n
      BY <1>2, <1>12
    <3>3. i # 1 => EndOfPart(i - 1)' = EndOfPart(i - 1)
      BY <3>2, <1>9
    <3> QED BY <3>1, <3>3, <1>12
  <2> QED BY <2>1, <2>2, <2>3 DEF Tiled
<1>18. Joined'
  <2>1. \A i, j \in DOMAIN file' :
           i < j => /\ file'[i].record <= file'[j].record
                    /\ Begins(j)' => file'[i].record < file'[j].record
    BY <1>2, <1>5, <1>12 DEF Joined
  <2>2. \A i \in DOMAIN file' :
           IF Begins(i)' THEN file'[i].from = 0
           ELSE /\ i > 1
                /\ ~Ends(i - 1)'
                /\ ~Torn(i - 1)'
                /\ file'[i - 1].record = file'[i].record
                /\ file'[i].from = file'[i - 1].from + file'[i - 1].length
    <3> SUFFICES ASSUME NEW i \in DOMAIN file, ~Begins(i)
                 PROVE  /\ i > 1
                        /\ ~Ends(i - 1)'
                        /\ ~Torn(i - 1)'
                        /\ file'[i - 1].record = file'[i].record
                        /\ file'[i].from = file'[i - 1].from + file'[i - 1].length
      BY <1>2, <1>5, <1>12 DEF Joined
    <3>1. /\ i > 1
          /\ ~Ends(i - 1)
          /\ ~Torn(i - 1)
          /\ file[i - 1].record = file[i].record
          /\ file[i].from = file[i - 1].from + file[i - 1].length
      BY <1>5 DEF Joined
    <3>2. i - 1 \in DOMAIN file /\ i - 1 # n
      BY <3>1, <1>12
    <3>3. (Torn(i - 1)' <=> Torn(i - 1)) /\ (Ends(i - 1)' <=> Ends(i - 1))
      BY <3>2, <1>9
    <3> QED BY <3>1, <3>2, <3>3, <1>12
  <2>3. \A i \in DOMAIN file' :
           Ends(i)' => file'[i].from + file'[i].length = lengths'[file'[i].record]
    BY <1>2, <1>5, <1>12 DEF Joined
  <2> QED BY <2>1, <2>2, <2>3 DEF Joined
<1>19. Placed'
  <2>1. CASE Torn(n)'
    <3>1. record' = record
      BY <2>1, <1>14
    <3>2. \A i \in DOMAIN file' : i < n => EndOfPart(i)' <= size'
      <4> SUFFICES ASSUME NEW i \in DOMAIN file, i < n PROVE EndOfPart(i)' <= size'
        BY <1>2
      <4>1. EndOfPart(i) <= At(n) /\ EndOfPart(i) \in Nat
        BY <1>2, <1>5, Order, InFile
      <4>2. At(n) <= size'
        BY <1>3, <1>13
      <4>3. EndOfPart(i)' = EndOfPart(i)
        BY <1>2, <1>9
      <4> QED BY <4>1, <4>2, <4>3, <1>13
    <3>3. ~(file'[n].have = 0)
      BY <1>3, <1>13
    <3>4. EndOf(n)' - block_offset' = EndOf(n) - block_offset
      BY <1>2, <1>11
    <3>5. Boundary(EndOf(n)' - block_offset')
      BY <3>4, <1>8
    <3>6. (Ends(n)' <=> record'.left = 0) /\ file'[n].record = record'.number
      BY <3>1, <1>3, <1>7, <1>8, <1>11
    <3>7. Within'
      BY <2>1, <3>2, <3>3, <3>5, <3>6, <1>2, <1>11 DEF Within
    <3> QED BY <3>1, <3>7, <1>2 DEF Placed
  <2>2. CASE ~Torn(n)'
    <3>1. ~record'.writing
      BY <2>2, <1>15
    <3>2. size' = EndOf(n)
      BY <2>2, <1>3, <1>11, <1>13 DEF EndOf, At
    <3>3. ASSUME NEW i \in DOMAIN file PROVE EndOfPart(i)' <= size' /\ file'[i].have > 0
      <4>1. CASE i = n
        BY <4>1, <1>3, <1>11, <1>13
      <4>2. CASE i < n
        <5>1. EndOfPart(i) <= At(n) /\ EndOfPart(i) \in Nat /\ file[i].have > 0
          BY <4>2, <1>2, <1>5, Order, InFile
        <5>2. At(n) <= size'
          BY <1>3, <1>13
        <5>3. EndOfPart(i)' = EndOfPart(i) /\ file'[i] = file[i]
          BY <4>2, <1>2, <1>9
        <5> QED BY <5>1, <5>2, <5>3, <1>13
      <4> QED BY <4>1, <4>2, <1>2
    <3>4. Pad(size') = IF file' = <<>> THEN 0 ELSE Pad(EndOfPart(n)')
      BY <1>2, <1>11
    <3>5. size' - block_offset' = EndOf(n) - block_offset
      BY <3>2, <1>2
    <3>6. Boundary(size' - block_offset')
      BY <3>5, <1>8
    <3>7. Between'
      BY <3>3, <3>4, <3>6, <1>2 DEF Between
    <3> QED BY <3>1, <3>7 DEF Placed
  <2> QED BY <2>1, <2>2
<1>20. Underway'
  <2>1. CASE Torn(n)'
    <3>1. record' = record /\ complete' = complete
      BY <2>1, <1>14
    <3> QED BY <3>1, <1>2, <1>3, <1>7 DEF Underway
  <2>2. CASE ~Torn(n)' /\ record.left = 0
    BY <2>2, <1>15 DEF Underway
  <2>3. CASE ~Torn(n)' /\ record.left # 0
    <3>1. /\ record'.number = record.number /\ record'.left = record.left
          /\ ~record'.begin /\ ~record'.writing /\ complete' = complete
      BY <2>3, <1>15
    <3>2. ~Ends(n)'
      BY <2>3, <1>8, <1>11
    <3> QED BY <2>3, <3>1, <3>2, <1>2, <1>3, <1>7 DEF Underway
  <2> QED BY <2>1, <2>2, <2>3
<1>21. Complete'
  <2> DEFINE Whole(m) == /\ \E i \in DOMAIN file' : file'[i].record = m
                         /\ \A i \in DOMAIN file' :
                               file'[i].record = m =>
                                   /\ ~Torn(i)'
                                   /\ Ends(i)' \/ (i + 1 \in DOMAIN file' /\ file'[i + 1].record = m)
  <2>1. ASSUME NEW m \in complete PROVE Whole(m)
    <3>1. /\ \E i \in DOMAIN file : file[i].record = m
          /\ \A i \in DOMAIN file :
                file[i].record = m =>
                    ~Torn(i) /\ (Ends(i) \/ (i + 1 \in DOMAIN file /\ file[i + 1].record = m))
      BY <1>5 DEF Complete
    <3>2. file[n].record # m
      BY <1>7
    <3> QED BY <3>1, <3>2, <1>2, <1>9, <1>12
  <2>2. ASSUME ~Torn(n)', record.left = 0 PROVE Whole(record.number)
    <3> SUFFICES ASSUME NEW i \in DOMAIN file, file[i].record = record.number
                 PROVE  /\ ~Torn(i)'
                        /\ Ends(i)' \/ (i + 1 \in DOMAIN file /\ file[i + 1].record = record.number)
      BY <1>2, <1>7, <1>12
    <3>1. CASE i = n
      BY <3>1, <2>2, <1>8, <1>11
    <3>2. CASE i < n
      <4>1. i + 1 \in DOMAIN file /\ (i + 1 < n \/ i + 1 = n) /\ (i + 1) - 1 = i /\ i < i + 1
        BY <3>2, <1>2
      <4>2. file[i].record <= file[i + 1].record /\ file[i + 1].record <= file[n].record
            /\ (Begins(i + 1) => file[i].record < file[i + 1].record)
        <5>1. i + 1 < n => file[i + 1].record <= file[n].record
          BY <4>1, <1>2, <1>5 DEF Joined
        <5>2. file[n].record <= file[n].record
          BY <1>6, <1>7
        <5>3. file[i].record <= file[i + 1].record
              /\ (Begins(i + 1) => file[i].record < file[i + 1].record)
          BY <4>1, <1>5 DEF Joined
        <5> QED BY <4>1, <5>1, <5>2, <5>3
      <4>3. file[i + 1].record \in Nat
        BY <4>1, <1>5, InFile
      <4>4. file[i + 1].record = record.number /\ ~Begins(i + 1)
        BY <4>2, <4>3, <1>6, <1>7
      <4>5. ~Torn(i)
        BY <4>1, <4>4, <1>5 DEF Joined
      <4>6. i # n
        BY <3>2, <1>2
      <4> QED BY <4>1, <4>4, <4>5, <4>6, <1>9
    <3> QED BY <3>1, <3>2, <1>2
  <2>3. \A m \in complete' : Whole(m)
    BY <2>1, <2>2, <1>14
  <2> QED BY <2>3 DEF Complete
<1>22. Uninterrupted'
  <2> SUFFICES ASSUME crashes = 0
               PROVE  /\ \A i \in DOMAIN file' : Torn(i)' => record'.writing /\ i = n
                      /\ IF file' = <<>> THEN size' = 0 ELSE size' <= EndOf(n)'
                      /\ \A i \in DOMAIN file' :
                            i + 1 \in DOMAIN file' => (Begins(i + 1)' <=> Ends(i)')
                      /\ file' # <<>> /\ (record'.number = 0 \/ record'.begin) => Ends(n)'
    BY <1>2 DEF Uninterrupted
  <2>1. /\ \A i \in DOMAIN file : Torn(i) => record.writing /\ i = n
        /\ \A i \in DOMAIN file : i + 1 \in DOMAIN file => (Begins(i + 1) <=> Ends(i))
    BY <1>1, <1>5 DEF Uninterrupted
  <2>2. \A i \in DOMAIN file' : Torn(i)' => record'.writing /\ i = n
    BY <2>1, <1>2, <1>9, <1>14
  <2>3. \A i \in DOMAIN file' : i + 1 \in DOMAIN file' => (Begins(i + 1)' <=> Ends(i)')
    BY <2>1, <1>2, <1>12
  <2>4. record'.number = 0 \/ record'.begin => Ends(n)'
    BY <1>2, <1>8, <1>11, <1>14, <1>15
  <2>5. file' # <<>>
    BY <1>2
  <2> QED BY <2>2, <2>3, <2>4, <2>5, <1>11, <1>13
<1> QED BY <1>16, <1>17, <1>18, <1>19, <1>20, <1>21, <1>22 DEF FileInv

\* A crash takes the fragment of which nothing had been written, if there is one.
LEMMA Crashed ==
    ASSUME FileInv, Crash, NEW n, n = Len(file), NEW k, k = Len(file')
    PROVE  /\ n \in Nat /\ k \in Nat /\ k <= n /\ DOMAIN file = 1 .. n /\ DOMAIN file' = 1 .. k
           /\ file' \in Seq(Fragments) /\ size' \in Nat /\ size <= size'
           /\ \A i \in DOMAIN file' : i \in DOMAIN file /\ file'[i] = file[i] /\ file[i].have > 0
           /\ \A i \in DOMAIN file' : EndOfPart(i) <= size'
           /\ \A i \in DOMAIN file : i \in DOMAIN file' \/ (i = n /\ file[i].have = 0
                                        /\ record.writing /\ file[i].record = record.number)
           /\ Pad(size') = IF file' = <<>> THEN 0 ELSE Pad(EndOfPart(k))
           /\ record' = NoRecord /\ block_offset' = size' % BlockSize /\ crashes' = crashes + 1
           /\ UNCHANGED <<lengths, complete, reader>>
<1>0. FileType /\ Tiled /\ Placed
  BY DEF FileInv
<1>1. /\ file \in Seq(Fragments) /\ size \in Nat /\ n \in Nat /\ DOMAIN file = 1 .. n
  BY <1>0 DEF FileType
<1>2. /\ record' = NoRecord /\ block_offset' = size' % BlockSize /\ crashes' = crashes + 1
      /\ UNCHANGED <<lengths, complete, reader>>
  BY DEF Crash, BlockOffsetOf
<1>3. CASE record.writing /\ Last(file).have = 0
  <2>1. /\ file' = Front(file) /\ size' \in size .. Last(file).at
    BY <1>3 DEF Crash
  <2>2. /\ n > 0 /\ file[n].record = record.number /\ Last(file) = file[n] /\ file[n].have = 0
        /\ \A i \in DOMAIN file : i < n => EndOfPart(i) <= size
        /\ size <= At(n) /\ Pad(size) = At(n)
    BY <1>0, <1>1, <1>3 DEF Placed, Within, Last
  <2>3. /\ file' \in Seq(Fragments) /\ k = n - 1 /\ DOMAIN file' = 1 .. k
        /\ \A i \in 1 .. k : file'[i] = file[i]
    BY <2>1, <2>2, <1>1 DEF Front
  <2>4. n \in DOMAIN file /\ k \in Nat /\ k <= n /\ n - 1 = k /\ (n = 1 <=> k = 0)
        /\ \A i \in 1 .. k : i \in DOMAIN file /\ i < n
    BY <2>2, <2>3, <1>1
  <2>5. At(n) \in Nat /\ At(n) = file[n].at
    BY <2>4, <1>0, InFile DEF At
  <2>6. size' \in Nat /\ size <= size' /\ size' \in size .. At(n)
    BY <2>1, <2>2, <2>5, <1>1
  <2>7. \A i \in 1 .. k : file[i].have > 0 /\ EndOfPart(i) \in Nat
    BY <2>4, <1>0, Order, InFile
  <2>8. \A i \in 1 .. k : EndOfPart(i) <= size'
    BY <2>2, <2>4, <2>6, <2>7, <1>1
  <2>9. Pad(size') = At(n)
    BY <2>2, <2>6, <1>1, PadIs
  <2>10. At(n) = IF n = 1 THEN 0 ELSE Pad(EndOfPart(n - 1))
    BY <2>4, <1>0 DEF Tiled
  <2>11. file' = <<>> <=> k = 0
    BY <2>3, EmptySeq
  <2>12. \A i \in DOMAIN file : i \in 1 .. k \/ i = n
    BY <2>4, <1>1
  <2> QED BY <2>2, <2>3, <2>4, <2>6, <2>7, <2>8, <2>9, <2>10, <2>11, <2>12, <1>1, <1>2, <1>3
<1>4. CASE ~(record.writing /\ Last(file).have = 0)
  <2>1. file' = file /\ size' = size /\ k = n
    BY <1>4 DEF Crash
  <2>2. CASE record.writing
    <3>1. /\ n > 0 /\ \A i \in DOMAIN file : i < n => EndOfPart(i) <= size
          /\ file[n].have # 0 /\ size = EndOfPart(n)
      BY <2>2, <1>0, <1>1, <1>4 DEF Placed, Within, Last
    <3>2. n \in DOMAIN file /\ \A i \in DOMAIN file : i < n \/ i = n
      BY <3>1, <1>1
    <3>3. \A i \in DOMAIN file : file[i].have > 0
      <4>1. \A i \in DOMAIN file : i < n => file[i].have > 0
        BY <3>2, <1>0, Order
      <4>2. file[n].have > 0
        BY <3>1, <3>2, <1>0, InFile
      <4> QED BY <4>1, <4>2, <3>2
    <3>4. \A i \in DOMAIN file : EndOfPart(i) <= size
      BY <3>1, <3>2, <1>1
    <3>5. file # <<>>
      BY <3>2
    <3> QED BY <3>1, <3>2, <3>3, <3>4, <3>5, <2>1, <1>1, <1>2
  <2>3. CASE ~record.writing
    <3>1. Between
      BY <2>3, <1>0 DEF Placed
    <3> QED BY <3>1, <2>1, <1>1, <1>2 DEF Between
  <2> QED BY <2>2, <2>3
<1> QED BY <1>3, <1>4

LEMMA CrashFile ==
    ASSUME FileInv, Crash
    PROVE  FileInv'
<1>1. PICK n : n = Len(file)
  OBVIOUS
<1>2. PICK k : k = Len(file')
  OBVIOUS
<1>3. /\ n \in Nat /\ k \in Nat /\ k <= n /\ DOMAIN file = 1 .. n /\ DOMAIN file' = 1 .. k
      /\ file' \in Seq(Fragments) /\ size' \in Nat /\ size <= size'
      /\ \A i \in DOMAIN file' : i \in DOMAIN file /\ file'[i] = file[i] /\ file[i].have > 0
      /\ \A i \in DOMAIN file' : EndOfPart(i) <= size'
      /\ \A i \in DOMAIN file : i \in DOMAIN file' \/ (i = n /\ file[i].have = 0
                                   /\ record.writing /\ file[i].record = record.number)
      /\ Pad(size') = IF file' = <<>> THEN 0 ELSE Pad(EndOfPart(k))
      /\ record' = NoRecord /\ block_offset' = size' % BlockSize /\ crashes' = crashes + 1
      /\ UNCHANGED <<lengths, complete, reader>>
  BY <1>1, <1>2, Crashed
<1>4. FileType /\ Tiled /\ Joined /\ Underway /\ Complete /\ Placed
  BY DEF FileInv
<1>5. /\ record'.number = 0 /\ ~record'.writing
      /\ record' \in [number : Nat, left : Nat, begin : BOOLEAN, writing : BOOLEAN]
  BY <1>3 DEF NoRecord
<1>6. \A i \in DOMAIN file' : i \in Nat /\ i \in DOMAIN file
                              /\ (i > 1 => i - 1 \in DOMAIN file' /\ i - 1 \in DOMAIN file)
                              /\ (i # 1 <=> i > 1)
  BY <1>3
<1>7. \A i \in DOMAIN file' :
         /\ At(i)' = At(i) /\ EndOf(i)' = EndOf(i) /\ EndOfPart(i)' = EndOfPart(i)
         /\ Torn(i)' = Torn(i) /\ Begins(i)' = Begins(i) /\ Ends(i)' = Ends(i)
  BY <1>3, <1>6, SameFragment
<1>8. crashes \in Nat
  BY <1>4 DEF FileType
<1>9. FileType'
  <2>1. \A i \in DOMAIN file' :
           file'[i].record \in DOMAIN lengths /\ file'[i].have <= FragmentSize(file'[i])
    BY <1>3, <1>4 DEF FileType
  <2>2. block_offset' \in 0 .. BlockSize
    <3>1. \A m \in Nat : m < BlockSize => m \in 0 .. BlockSize
      BY Sizes
    <3>2. size' % BlockSize \in Nat /\ size' % BlockSize < BlockSize
      <4>1. PICK x \in Nat : x = size'
        BY <1>3
      <4>2. x % BlockSize \in Nat /\ x % BlockSize < BlockSize
        BY DivMod, Sizes
      <4> QED BY <4>1, <4>2
    <3> QED BY <3>1, <3>2, <1>3
  <2>3. crashes' \in Nat
    BY <1>3, <1>8
  <2>4. lengths \in Seq(Lengths) /\ complete \subseteq DOMAIN lengths
    BY <1>4 DEF FileType
  <2> QED BY <2>1, <2>2, <2>3, <2>4, <1>3, <1>5 DEF FileType
<1>10. Tiled'
  <2>1. \A i \in DOMAIN file' : EndOf(i)' <= BlockStart(At(i)') + BlockSize
    BY <1>4, <1>6, <1>7 DEF Tiled
  <2>2. \A i, j \in DOMAIN file' : i < j => EndOfPart(i)' <= At(j)' /\ file'[i].have > 0
    BY <1>3, <1>4, <1>6, <1>7 DEF Tiled
  <2>3. \A i \in DOMAIN file' : At(i)' = IF i = 1 THEN 0 ELSE Pad(EndOfPart(i - 1)')
    BY <1>4, <1>6, <1>7 DEF Tiled
  <2> QED BY <2>1, <2>2, <2>3 DEF Tiled
<1>11. Joined'
  <2>1. \A i, j \in DOMAIN file' :
           i < j => /\ file'[i].record <= file'[j].record
                    /\ Begins(j)' => file'[i].record < file'[j].record
    BY <1>3, <1>4, <1>6, <1>7 DEF Joined
  <2>2. \A i \in DOMAIN file' :
           IF Begins(i)' THEN file'[i].from = 0
           ELSE /\ i > 1
                /\ ~Ends(i - 1)'
                /\ ~Torn(i - 1)'
                /\ file'[i - 1].record = file'[i].record
                /\ file'[i].from = file'[i - 1].from + file'[i - 1].length
    <3> SUFFICES ASSUME NEW i \in DOMAIN file', ~Begins(i)
                 PROVE  /\ i > 1
                        /\ ~Ends(i - 1)'
                        /\ ~Torn(i - 1)'
                        /\ file'[i - 1].record = file'[i].record
                        /\ file'[i].from = file'[i - 1].from + file'[i - 1].length
      BY <1>3, <1>4, <1>6, <1>7 DEF Joined
    <3>1. /\ i > 1
          /\ ~Ends(i - 1)
          /\ ~Torn(i - 1)
          /\ file[i - 1].record = file[i].record
          /\ file[i].from = file[i - 1].from + file[i - 1].length
      BY <1>4, <1>6 DEF Joined
    <3>2. i - 1 \in DOMAIN file'
      BY <3>1, <1>6
    <3>3. (Torn(i - 1)' <=> Torn(i - 1)) /\ (Ends(i - 1)' <=> Ends(i - 1))
      BY <3>2, <1>7
    <3> QED BY <3>1, <3>2, <3>3, <1>3
  <2>3. \A i \in DOMAIN file' :
           Ends(i)' => file'[i].from + file'[i].length = lengths'[file'[i].record]
    BY <1>3, <1>4, <1>6, <1>7 DEF Joined
  <2> QED BY <2>1, <2>2, <2>3 DEF Joined
<1>12. Placed'
  <2>1. Pad(size') = IF file' = <<>> THEN 0 ELSE Pad(EndOfPart(k)')
    <3>1. file' # <<>> => k \in DOMAIN file'
      BY <1>2, <1>3
    <3> QED BY <3>1, <1>3, <1>7
  <2>2. \A i \in DOMAIN file' : EndOfPart(i)' <= size' /\ file'[i].have > 0
    BY <1>3, <1>7
  <2>3. Boundary(size' - block_offset')
    <3>1. size' - block_offset' = BlockStart(size')
      BY <1>3 DEF BlockStart
    <3> QED BY <3>1, <1>3, StartOfBlock
  <2>4. Between'
    BY <2>1, <2>2, <2>3, <1>2 DEF Between
  <2> QED BY <2>4, <1>5 DEF Placed
<1>13. Underway'
  BY <1>5 DEF Underway
<1>14. Complete'
  <2> SUFFICES ASSUME NEW m \in complete
               PROVE  /\ \E i \in DOMAIN file' : file'[i].record = m
                      /\ \A i \in DOMAIN file' :
                            file'[i].record = m =>
                                /\ ~Torn(i)'
                                /\ Ends(i)' \/ (i + 1 \in DOMAIN file' /\ file'[i + 1].record = m)
    BY <1>3 DEF Complete
  <2>1. /\ \E i \in DOMAIN file : file[i].record = m
        /\ \A i \in DOMAIN file :
              file[i].record = m =>
                  ~Torn(i) /\ (Ends(i) \/ (i + 1 \in DOMAIN file /\ file[i + 1].record = m))
    BY <1>4 DEF Complete
  <2>2. \A i \in DOMAIN file : file[i].record = m => i \in DOMAIN file'
    <3> SUFFICES ASSUME NEW i \in DOMAIN file, i = n, record.writing, file[i].record = record.number
                 PROVE  file[i].record # m
      BY <1>3
    <3>1. record.number # 0 /\ record.number \notin complete
      BY <1>4 DEF Placed, Underway
    <3> QED BY <3>1
  <2> QED BY <2>1, <2>2, <1>3, <1>7
<1>15. Uninterrupted'
  BY <1>3, <1>8 DEF Uninterrupted
<1> QED BY <1>9, <1>10, <1>11, <1>12, <1>13, <1>14, <1>15 DEF FileInv

-----------------------------------------------------------------------------
(* Records in the file. *)

\* A fragment's record begins with a fragment of its own, the only one that
\* begins it, and StartOf has its position.
LEMMA FirstOfRecord ==
    ASSUME FileInv, NEW j \in DOMAIN file
    PROVE  \E i \in DOMAIN file :
               i <= j /\ Begins(i) /\ file[i].record = file[j].record
<1>0. FileType /\ Joined
  BY DEF FileInv
<1> DEFINE S == {i \in DOMAIN file : file[i].record = file[j].record}
<1>1. S \in SUBSET Nat /\ j \in S
  BY <1>0, InFile
<1>2. PICK i \in S : \A y \in S : i <= y
  BY <1>1, LeastOf
<1>3. i \in DOMAIN file /\ i \in Nat /\ i <= j /\ file[i].record = file[j].record
  BY <1>0, <1>1, <1>2, InFile
<1>4. Begins(i)
  <2> SUFFICES ASSUME ~Begins(i) PROVE FALSE
    OBVIOUS
  <2>1. i > 1 /\ file[i - 1].record = file[i].record
    BY <1>0, <1>3 DEF Joined
  <2>2. i - 1 \in DOMAIN file /\ ~(i <= i - 1)
    BY <2>1, <1>0, <1>3 DEF FileType
  <2>3. i - 1 \in S
    BY <2>1, <2>2, <1>3
  <2> QED BY <2>2, <2>3, <1>2
<1> QED BY <1>3, <1>4

LEMMA OneBeginning ==
    ASSUME FileInv, NEW i \in DOMAIN file, NEW j \in DOMAIN file,
           Begins(i), Begins(j), file[i].record = file[j].record
    PROVE  i = j
<1>0. FileType /\ Joined
  BY DEF FileInv
<1>1. i \in Nat /\ j \in Nat /\ file[i].record \in Nat /\ file[j].record \in Nat
  BY <1>0, InFile
<1>2. ~(i < j) /\ ~(j < i)
  BY <1>0, <1>1 DEF Joined
<1> QED BY <1>1, <1>2

LEMMA StartOfIs ==
    ASSUME FileInv, NEW i \in DOMAIN file, Begins(i)
    PROVE  StartOf(file[i].record) = At(i)
<1> DEFINE n == file[i].record
           P(j) == file[j].record = n /\ file[j].type \in {"full", "first"}
           c == CHOOSE j \in DOMAIN file : P(j)
<1>1. \E j \in DOMAIN file : P(j)
  BY DEF Begins
<1>2. c \in DOMAIN file /\ P(c)
  <2> HIDE DEF P
  <2> QED BY <1>1
<1>3. c = i
  <2> HIDE DEF c
  <2> QED BY <1>2, OneBeginning DEF Begins
<1>4. StartOf(n) = file[c].at
  BY DEF StartOf
<1> QED BY <1>3, <1>4 DEF At

\* No fragment of a record is before its beginning.
LEMMA StartIsFirst ==
    ASSUME FileInv, NEW j \in DOMAIN file
    PROVE  \E i \in DOMAIN file :
              /\ i <= j /\ Begins(i) /\ file[i].record = file[j].record
              /\ StartOf(file[j].record) = At(i)
              /\ At(i) <= At(j) /\ (~Begins(j) => i < j)
<1>0. FileType /\ Tiled
  BY DEF FileInv
<1>1. PICK i \in DOMAIN file : i <= j /\ Begins(i) /\ file[i].record = file[j].record
  BY FirstOfRecord
<1>2. StartOf(file[j].record) = At(i)
  BY <1>1, StartOfIs
<1>3. i \in Nat /\ j \in Nat /\ At(i) \in Nat /\ At(j) \in Nat
  BY <1>0, InFile
<1>4. At(i) <= At(j)
  BY <1>0, <1>1, <1>3, Order
<1>5. ~Begins(j) => i < j
  BY <1>1, <1>3
<1> QED BY <1>1, <1>2, <1>4, <1>5

\* What is there of a fragment that is not torn is in the file.
LEMMA WholeIsInFile ==
    ASSUME FileInv, NEW i \in DOMAIN file, ~Torn(i)
    PROVE  EndOf(i) <= size
<1>0. FileType /\ Placed
  BY DEF FileInv
<1>1. EndOfPart(i) = EndOf(i) /\ i \in Nat /\ i <= Len(file) /\ Len(file) \in Nat
  BY <1>0, InFile
<1>2. CASE record.writing
  <2>1. Torn(Len(file)) /\ \A j \in DOMAIN file : j < Len(file) => EndOfPart(j) <= size
    BY <1>0, <1>2 DEF Placed, Within
  <2>2. i # Len(file)
    BY <2>1
  <2> QED BY <2>1, <2>2, <1>1
<1>3. CASE ~record.writing
  BY <1>0, <1>1, <1>3 DEF Placed, Between
<1> QED BY <1>2, <1>3

\* The fragments of a complete record.
LEMMA OfComplete ==
    ASSUME FileInv, NEW i \in DOMAIN file, file[i].record \in complete
    PROVE  /\ ~Torn(i) /\ EndOf(i) <= size
           /\ ~Ends(i) => i + 1 \in DOMAIN file /\ file[i + 1].record = file[i].record
                          /\ ~Begins(i + 1)
<1>0. FileType /\ Complete /\ Joined
  BY DEF FileInv
<1>1. ~Torn(i) /\ (Ends(i) \/ (i + 1 \in DOMAIN file /\ file[i + 1].record = file[i].record))
  BY <1>0 DEF Complete
<1>2. EndOf(i) <= size
  BY <1>1, WholeIsInFile
<1>3. ASSUME i + 1 \in DOMAIN file, file[i + 1].record = file[i].record PROVE ~Begins(i + 1)
  <2>1. i \in Nat /\ file[i].record \in Nat /\ i < i + 1
    BY <1>0, InFile
  <2> QED BY <2>1, <1>0, <1>3 DEF Joined
<1> QED BY <1>1, <1>2, <1>3

LEMMA EndOfComplete ==
    ASSUME FileInv, NEW n \in complete
    PROVE  \E i \in DOMAIN file : file[i].record = n /\ Ends(i)
<1>0. FileType /\ Complete
  BY DEF FileInv
<1> DEFINE S == {i \in DOMAIN file : file[i].record = n}
<1>1. S \in SUBSET Nat /\ S # {} /\ Len(file) + 1 \in Nat /\ \A x \in S : x < Len(file) + 1
  <2>1. S # {}
    BY <1>0 DEF Complete
  <2>2. \A x \in S : x \in Nat /\ x <= Len(file)
    BY <1>0, InFile
  <2>3. Len(file) \in Nat
    BY <1>0 DEF FileType
  <2> QED BY <2>1, <2>2, <2>3
<1>2. PICK i \in S : \A y \in S : y <= i
  <2> HIDE DEF S
  <2>1. PICK m \in Nat : m = Len(file) + 1 /\ \A x \in S : x < m
    BY <1>1
  <2> QED BY <1>1, <2>1, GreatestOf
<1>3. i \in DOMAIN file /\ i \in Nat /\ file[i].record = n
  BY <1>0, <1>2, InFile
<1>4. Ends(i)
  <2> SUFFICES ASSUME ~Ends(i) PROVE FALSE
    OBVIOUS
  <2>1. i + 1 \in S
    BY <1>3, OfComplete
  <2> QED BY <2>1, <1>2, <1>3
<1> QED BY <1>3, <1>4

-----------------------------------------------------------------------------
(* The reader. *)

Readers ==
    [state : {"none", "reading", "eof"}, initial : Nat, pos : Nat, end : Nat,
     eof : BOOLEAN, resyncing : BOOLEAN, scratch : Seq(Nat), fragmented : BOOLEAN,
     out : Seq(Seq(Nat)), reported : BOOLEAN, due : SUBSET Nat]

ReaderType(rd) ==
    /\ rd \in Readers
    /\ rd.pos <= rd.end
    /\ rd.due \subseteq complete

\* A torn fragment before another one in the same block.
Spoils(t, i) == t < i /\ Torn(t) /\ BlockOf(t) = BlockOf(i)

\* Consecutive fragments of one record from its beginning on, each of them
\* whole, read, and behind no torn one in its block.
Piece(o, rd) ==
    /\ o # <<>>
    /\ Begins(o[1]) /\ At(o[1]) >= rd.initial
    /\ \A j \in DOMAIN o :
          /\ o[j] = o[1] + (j - 1)
          /\ o[j] \in DOMAIN file
          /\ ~Torn(o[j]) /\ EndOf(o[j]) <= rd.pos
          /\ \A t \in DOMAIN file : ~Spoils(t, o[j])
          /\ file[o[j]].record = file[o[1]].record
          /\ j > 1 => ~Begins(o[j])
          /\ j < Len(o) => ~Ends(o[j])

\* What has been returned are whole records, in their order.
Output(rd) ==
    /\ \A k \in DOMAIN rd.out : Piece(rd.out[k], rd) /\ Ends(Last(rd.out[k]))
    /\ \A k, m \in DOMAIN rd.out : k < m => Last(rd.out[k]) < rd.out[m][1]

\* The beginning of a record that has been read: what comes next in the file
\* is what comes next in the buffer.
Scratch(rd) ==
    IF rd.fragmented
    THEN LET s == rd.scratch
         IN  /\ Piece(s, rd)
             /\ ~Ends(Last(s))
             /\ \A k \in DOMAIN rd.out : Last(rd.out[k]) < s[1]
             /\ \A i \in DOMAIN file : Last(s) < i => rd.pos <= At(i)
    ELSE rd.scratch = <<>>

\* The buffer is the rest of a block, or of its part there was; the reader is
\* at the beginning of the block or behind a fragment, and has met no torn one.
Buffer(rd) ==
    /\ ~rd.eof => Boundary(rd.end)
    /\ rd.end <= size \/ (rd.pos = rd.end /\ rd.out = <<>> /\ ~rd.fragmented)
    /\ rd.pos < rd.end =>
          LET b == BlockStart(rd.pos)
          IN  /\ rd.end <= b + BlockSize
              /\ rd.pos = b \/ \E k \in DOMAIN file : ~Torn(k) /\ EndOf(k) = rd.pos
              /\ \A t \in DOMAIN file : Torn(t) /\ BlockOf(t) = b => rd.pos <= At(t)
    /\ rd.resyncing => rd.out = <<>> /\ ~rd.fragmented

\* Fragments that have been read and not dropped.
Taken(i, rd) ==
    \/ \E k \in DOMAIN rd.out : \E j \in DOMAIN rd.out[k] : rd.out[k][j] = i
    \/ rd.fragmented /\ \E j \in DOMAIN rd.scratch : rd.scratch[j] = i

\* The fragments of the records that the reader is to return.
Wanted(i, rd) ==
    /\ file[i].record \in rd.due
    /\ StartOf(file[i].record) >= rd.initial
    /\ ~Spoiled(file[i].record)

\* Nothing of them is passed over, and all of them are there.
Progress(rd) ==
    /\ \A i \in DOMAIN file : Wanted(i, rd) /\ At(i) < rd.pos => Taken(i, rd)
    /\ rd.eof => \A i \in DOMAIN file : file[i].record \in rd.due => EndOf(i) <= rd.end

\* A reader of the whole log of an uninterrupted writer has reported nothing
\* and is in the middle of a record if the last fragment it has passed is.
Faultless(rd) ==
    crashes = 0 /\ rd.initial = 0 =>
        /\ ~rd.reported
        /\ ~rd.resyncing
        /\ rd.end <= size
        /\ ~rd.fragmented => \A i \in DOMAIN file :
              At(i) < rd.pos /\ ~Ends(i) => i + 1 \in DOMAIN file /\ At(i + 1) < rd.pos

Reading(rd) ==
    /\ ReaderType(rd)
    /\ rd.state = "reading"
    /\ Output(rd)
    /\ Scratch(rd)
    /\ Buffer(rd)
    /\ Progress(rd)
    /\ Faultless(rd)

\* At the end of the file all records have been returned that were to be.
Finished(rd) ==
    /\ ReaderType(rd)
    /\ rd.state = "eof"
    /\ Output(rd)
    /\ \A n \in rd.due :
          (\E k \in DOMAIN rd.out : n = RecordOf(rd.out[k]))
              <=> (StartOf(n) >= rd.initial /\ ~Spoiled(n))
    /\ crashes = 0 /\ rd.initial = 0 => ~rd.reported

ReaderInv == reader = NoReader \/ Reading(reader) \/ Finished(reader)

LogInv == FileInv /\ ReaderInv

-----------------------------------------------------------------------------
(* Where the reader is in the file. *)

\* Positions of a reader.
LEMMA ReaderAt ==
    ASSUME Reading(reader)
    PROVE  /\ reader.pos \in Nat /\ reader.end \in Nat /\ reader.pos <= reader.end
           /\ Buffered \in Nat /\ Buffered = reader.end - reader.pos
           /\ BlockStart(reader.pos) \in Nat /\ Boundary(BlockStart(reader.pos))
           /\ BlockStart(reader.pos) <= reader.pos
           /\ reader.pos < BlockStart(reader.pos) + BlockSize
<1>1. reader.pos \in Nat /\ reader.end \in Nat /\ reader.pos <= reader.end
  BY DEF Reading, ReaderType, Readers
<1>2. Buffered \in Nat /\ Buffered = reader.end - reader.pos
  BY <1>1 DEF Buffered
<1> QED BY <1>1, <1>2, StartOfBlock

\* No fragment goes over the beginning of a block, nor over the reader's
\* position.
LEMMA NotAcross ==
    ASSUME FileInv, NEW i \in DOMAIN file, NEW b, Boundary(b), At(i) < b
    PROVE  EndOf(i) <= b
<1>0. FileType /\ Tiled
  BY DEF FileInv
<1>1. At(i) \in Nat /\ EndOf(i) \in Nat /\ b \in Nat
  BY <1>0, InFile, BoundaryNat
<1>2. PICK c : c = BlockStart(At(i))
  OBVIOUS
<1>3. c \in Nat /\ Boundary(c) /\ c <= At(i) /\ EndOf(i) <= c + BlockSize
  BY <1>0, <1>1, <1>2, StartOfBlock DEF Tiled
<1>4. c + BlockSize <= b
  BY <1>1, <1>3, BoundaryGap
<1> QED BY <1>1, <1>3, <1>4, Sizes

LEMMA NotOverPosition ==
    ASSUME FileInv, Reading(reader), reader.pos < reader.end,
           NEW i \in DOMAIN file, At(i) < reader.pos
    PROVE  EndOfPart(i) <= reader.pos
<1>0. FileType /\ Tiled
  BY DEF FileInv
<1>1. /\ At(i) \in Nat /\ EndOf(i) \in Nat /\ EndOfPart(i) \in Nat /\ EndOfPart(i) <= EndOf(i)
      /\ reader.pos \in Nat /\ i \in Nat
  BY <1>0, InFile, ReaderAt
<1>2. CASE reader.pos = BlockStart(reader.pos)
  <2>1. Boundary(reader.pos)
    BY <1>2, ReaderAt
  <2>2. EndOf(i) <= reader.pos
    BY <2>1, NotAcross
  <2> QED BY <2>2, <1>1
<1>3. CASE reader.pos # BlockStart(reader.pos)
  <2>1. PICK k \in DOMAIN file : ~Torn(k) /\ EndOf(k) = reader.pos
    BY <1>3 DEF Reading, Buffer
  <2>2. k \in Nat /\ EndOfPart(k) = EndOf(k) /\ At(k) \in Nat
    BY <1>0, <2>1, InFile
  <2>3. CASE i = k
    BY <2>1, <2>2, <2>3, <1>1
  <2>4. CASE i < k
    <3>1. EndOfPart(i) <= At(k)
      BY <2>4, <1>0, Order
    <3>2. At(k) <= EndOf(k)
      <4>1. At(k) + HeaderSize <= EndOf(k) /\ At(k) \in Nat /\ EndOf(k) \in Nat
        BY <1>0, InFile
      <4> QED BY <4>1, Sizes
    <3> QED BY <3>1, <3>2, <2>1, <2>2, <1>1
  <2>5. CASE k < i
    <3>1. EndOf(k) <= At(i)
      BY <2>1, <2>5, <1>0, Order
    <3> QED BY <3>1, <2>1, <1>1
  <2> QED BY <2>2, <2>3, <2>4, <2>5, <1>1
<1> QED BY <1>2, <1>3

\* If there is room for a header and any fragment further on, there is one at
\* the reader's position.
LEMMA NextFragment ==
    ASSUME FileInv, Reading(reader), Buffered >= HeaderSize,
           NEW j \in DOMAIN file, reader.pos <= At(j)
    PROVE  \E m \in DOMAIN file : m <= j /\ At(m) = reader.pos
<1>0. FileType /\ Tiled
  BY DEF FileInv
<1>1. /\ reader.pos \in Nat /\ reader.end \in Nat /\ reader.pos < reader.end
      /\ reader.pos + HeaderSize <= reader.end
  BY ReaderAt, Sizes
<1>2. Pad(reader.pos) = reader.pos
  <2>1. reader.end <= BlockStart(reader.pos) + BlockSize
    BY <1>1 DEF Reading, Buffer
  <2>2. ~(BlockStart(reader.pos) + BlockSize - reader.pos < HeaderSize)
    BY <2>1, <1>1, ReaderAt, Sizes
  <2> QED BY <2>2 DEF Pad
<1> DEFINE S == {i \in DOMAIN file : reader.pos <= At(i)}
<1>3. S \in SUBSET Nat /\ j \in S
  <2>1. \A i \in DOMAIN file : i \in Nat
    BY <1>0, InFile
  <2> QED BY <2>1
<1>4. PICK m \in S : \A y \in S : m <= y
  BY <1>3, LeastOf
<1>5. m \in DOMAIN file /\ m \in Nat /\ reader.pos <= At(m) /\ m <= j /\ At(m) \in Nat
  BY <1>0, <1>3, <1>4, InFile
<1>6. CASE m = 1
  <2>1. At(m) = 0
    BY <1>0, <1>5, <1>6 DEF Tiled
  <2>2. At(m) = reader.pos
    BY <2>1, <1>1, <1>5
  <2> QED BY <2>2, <1>5
<1>7. CASE m # 1
  <2>1. PICK k : k = m - 1
    OBVIOUS
  <2>2. k \in DOMAIN file /\ k \in Nat /\ k < m /\ ~(m <= k)
    BY <2>1, <1>0, <1>5, <1>7 DEF FileType
  <2>3. At(k) < reader.pos
    <3>1. k \notin S
      BY <2>2, <1>4
    <3>2. At(k) \in Nat
      BY <2>2, <1>0, InFile
    <3> QED BY <3>1, <3>2, <2>2, <1>1
  <2>4. EndOfPart(k) <= reader.pos /\ EndOfPart(k) \in Nat
    BY <2>2, <2>3, <1>0, <1>1, NotOverPosition, InFile
  <2>5. At(m) = Pad(EndOfPart(k))
    BY <2>1, <1>0, <1>5, <1>7 DEF Tiled
  <2>6. Pad(EndOfPart(k)) <= Pad(reader.pos)
    <3>1. /\ Pad(EndOfPart(k)) \in Nat
          /\ \A s \in EndOfPart(k) .. Pad(EndOfPart(k)) : Pad(s) = Pad(EndOfPart(k))
      BY <2>4, PadIs
    <3>2. CASE reader.pos <= Pad(EndOfPart(k))
      <4>1. reader.pos \in EndOfPart(k) .. Pad(EndOfPart(k))
        BY <2>4, <3>1, <3>2, <1>1
      <4>2. Pad(reader.pos) = Pad(EndOfPart(k))
        BY <3>1, <4>1
      <4> QED BY <3>1, <4>2
    <3>3. CASE Pad(EndOfPart(k)) < reader.pos
      BY <3>1, <3>3, <1>1, <1>2
    <3> QED BY <3>1, <3>2, <3>3, <1>1
  <2>7. At(m) = reader.pos
    BY <2>5, <2>6, <1>1, <1>2, <1>5
  <2> QED BY <2>7, <1>5
<1> QED BY <1>6, <1>7

\* In what is too short for a header no fragment begins.
LEMMA NoneInRest ==
    ASSUME FileInv, Reading(reader), Buffered < HeaderSize, ~reader.eof,
           NEW i \in DOMAIN file, reader.pos <= At(i)
    PROVE  reader.end <= At(i)
<1>0. FileType /\ Tiled
  BY DEF FileInv
<1>1. /\ reader.pos \in Nat /\ reader.end \in Nat /\ reader.pos <= reader.end
      /\ reader.end < reader.pos + HeaderSize
      /\ At(i) \in Nat /\ EndOf(i) \in Nat /\ At(i) + HeaderSize <= EndOf(i)
      /\ Boundary(reader.end)
  <2>1. /\ reader.pos \in Nat /\ reader.end \in Nat /\ reader.pos <= reader.end
        /\ Buffered = reader.end - reader.pos
    BY ReaderAt
  <2>2. reader.end < reader.pos + HeaderSize
    BY <2>1, Sizes
  <2>3. At(i) \in Nat /\ EndOf(i) \in Nat /\ At(i) + HeaderSize <= EndOf(i)
    BY <1>0, InFile
  <2>4. Boundary(reader.end)
    BY DEF Reading, Buffer
  <2> QED BY <2>1, <2>2, <2>3, <2>4
<1> SUFFICES ASSUME At(i) < reader.end PROVE FALSE
  BY <1>1
<1>2. EndOf(i) <= reader.end
  BY <1>1, NotAcross
<1> QED BY <1>1, <1>2, Sizes

\* A fragment at the reader's position fits in a block that is there to its end.
LEMMA FitsInBlock ==
    ASSUME FileInv, Reading(reader), reader.pos < reader.end, ~reader.eof,
           NEW i \in DOMAIN file, At(i) = reader.pos
    PROVE  Fits(i)
<1>0. FileType
  BY DEF FileInv
<1>1. At(i) < reader.end /\ Boundary(reader.end)
  BY DEF Reading, Buffer
<1>2. EndOf(i) <= reader.end
  BY <1>1, NotAcross
<1>3. EndOf(i) = At(i) + FragmentSize(file[i])
  BY DEF EndOf, At
<1>4. FragmentSize(file[i]) \in Nat /\ At(i) \in Nat
  BY <1>0, InFile
<1> QED BY <1>2, <1>3, <1>4, ReaderAt DEF Fits

\* The fragment at the reader's position, if there is one, is in the block of
\* the buffer, as all are that begin in the buffer.
LEMMA InBlock ==
    ASSUME FileInv, Reading(reader), reader.pos < reader.end,
           NEW i \in DOMAIN file, reader.pos <= At(i), At(i) < reader.end
    PROVE  BlockOf(i) = BlockStart(reader.pos)
<1>0. FileType
  BY DEF FileInv
<1>1. At(i) \in Nat
  BY <1>0, InFile
<1>2. reader.end <= BlockStart(reader.pos) + BlockSize
  BY DEF Reading, Buffer
<1>3. BlockStart(At(i)) = BlockStart(reader.pos)
  <2>1. PICK b : b = BlockStart(reader.pos)
    OBVIOUS
  <2>2. Boundary(b) /\ b \in Nat /\ b <= At(i) /\ At(i) < b + BlockSize
    BY <2>1, <1>1, <1>2, ReaderAt, Sizes
  <2> QED BY <2>1, <2>2, <1>1, StartOfBlockIs
<1> QED BY <1>3 DEF BlockOf, At

-----------------------------------------------------------------------------
(* What the reader keeps from step to step. *)

LEMMA ReaderFields ==
    ASSUME NEW rd, ReaderType(rd)
    PROVE  /\ rd.state \in {"none", "reading", "eof"} /\ rd.initial \in Nat
           /\ rd.pos \in Nat /\ rd.end \in Nat /\ rd.pos <= rd.end
           /\ rd.eof \in BOOLEAN /\ rd.resyncing \in BOOLEAN
           /\ rd.fragmented \in BOOLEAN /\ rd.reported \in BOOLEAN
           /\ rd.scratch \in Seq(Nat) /\ rd.out \in Seq(Seq(Nat)) /\ rd.due \subseteq complete
BY DEF ReaderType, Readers

\* What has been read stays read when the reader goes on.
LEMMA PieceStays ==
    ASSUME FileInv, ReaderType(reader), NEW rd, NEW o, Piece(o, reader),
           rd.initial = reader.initial, rd.pos \in Nat, reader.pos <= rd.pos
    PROVE  Piece(o, rd)
<1>0. FileType
  BY DEF FileInv
<1>1. reader.pos \in Nat
  BY ReaderFields
<1>2. ASSUME NEW j \in DOMAIN o PROVE EndOf(o[j]) <= rd.pos
  <2>1. o[j] \in DOMAIN file /\ EndOf(o[j]) <= reader.pos
    BY DEF Piece
  <2>2. EndOf(o[j]) \in Nat
    BY <2>1, <1>0, InFile
  <2> QED BY <2>1, <2>2, <1>1
<1> QED BY <1>2 DEF Piece

LEMMA OutputStays ==
    ASSUME FileInv, ReaderType(reader), Output(reader), NEW rd,
           rd.initial = reader.initial, rd.pos \in Nat, reader.pos <= rd.pos,
           rd.out = reader.out
    PROVE  Output(rd)
<1>1. \A k \in DOMAIN reader.out : Piece(reader.out[k], rd)
  <2>1. \A k \in DOMAIN reader.out : Piece(reader.out[k], reader)
    BY DEF Output
  <2> QED BY <2>1, PieceStays
<1> QED BY <1>1 DEF Output

\* The last fragment of a piece, and that all others are before it.
LEMMA LastOfPiece ==
    ASSUME FileInv, ReaderType(reader), NEW o \in Seq(Nat), Piece(o, reader)
    PROVE  /\ Len(o) \in Nat /\ Len(o) > 0 /\ 1 \in DOMAIN o /\ Len(o) \in DOMAIN o
           /\ DOMAIN o = 1 .. Len(o)
           /\ Last(o) = o[Len(o)] /\ Last(o) \in DOMAIN file /\ Last(o) \in Nat
           /\ ~Torn(Last(o)) /\ EndOf(Last(o)) <= reader.pos
           /\ At(Last(o)) < reader.pos
           /\ file[Last(o)].record = file[o[1]].record
           /\ At(Last(o)) >= reader.initial
           /\ o[1] \in DOMAIN file /\ o[1] <= Last(o)
           /\ \A j \in DOMAIN o : /\ j \in Nat /\ o[j] \in DOMAIN file /\ o[j] \in Nat
                                  /\ o[j] <= Last(o) /\ o[1] <= o[j]
                                  /\ At(o[j]) < reader.pos
<1>0. FileType /\ Tiled
  BY DEF FileInv
<1>1. /\ Len(o) \in Nat /\ Len(o) > 0 /\ 1 \in DOMAIN o /\ Len(o) \in DOMAIN o
      /\ DOMAIN o = 1 .. Len(o)
  <2>1. o # <<>>
    BY DEF Piece
  <2>2. Len(o) \in Nat /\ Len(o) # 0 /\ DOMAIN o = 1 .. Len(o)
    BY <2>1, EmptySeq
  <2> QED BY <2>2
<1>2. Last(o) = o[Len(o)]
  BY DEF Last
<1>3. reader.pos \in Nat /\ reader.initial \in Nat
  BY ReaderFields
<1>4. ASSUME NEW j \in DOMAIN o
      PROVE  /\ j \in Nat /\ o[j] \in DOMAIN file /\ o[j] \in Nat
             /\ o[j] <= Last(o) /\ o[1] <= o[j]
             /\ At(o[j]) < reader.pos
  <2>1. j \in Nat /\ 1 <= j /\ j <= Len(o)
    BY <1>1
  <2>2. /\ o[j] \in DOMAIN file /\ EndOf(o[j]) <= reader.pos /\ o[j] = o[1] + (j - 1)
        /\ o[Len(o)] = o[1] + (Len(o) - 1) /\ o[1] \in DOMAIN file
    BY <1>1 DEF Piece
  <2>3. o[j] \in Nat /\ o[1] \in Nat /\ At(o[j]) \in Nat /\ EndOf(o[j]) \in Nat
        /\ At(o[j]) + HeaderSize <= EndOf(o[j])
    BY <2>2, <1>0, InFile
  <2>4. At(o[j]) < reader.pos
    BY <2>2, <2>3, <1>3, Sizes
  <2>5. o[j] <= Last(o) /\ o[1] <= o[j]
    BY <2>1, <2>2, <2>3, <1>1, <1>2
  <2> QED BY <2>1, <2>2, <2>3, <2>4, <2>5
<1>5. /\ ~Torn(Last(o)) /\ EndOf(Last(o)) <= reader.pos
      /\ file[Last(o)].record = file[o[1]].record
      /\ Begins(o[1]) /\ At(o[1]) >= reader.initial
  BY <1>1, <1>2 DEF Piece
<1>6. At(o[1]) <= At(Last(o)) /\ At(Last(o)) \in Nat /\ At(o[1]) \in Nat
  <2>1. /\ o[1] \in DOMAIN file /\ Last(o) \in DOMAIN file
        /\ o[1] \in Nat /\ Last(o) \in Nat /\ o[1] <= Last(o)
    BY <1>1, <1>2, <1>4
  <2>2. At(Last(o)) \in Nat /\ At(o[1]) \in Nat
    BY <2>1, <1>0, InFile
  <2>3. o[1] < Last(o) => At(o[1]) < At(Last(o))
    BY <2>1, <1>0, Order
  <2> QED BY <2>1, <2>2, <2>3
<1>7. At(Last(o)) >= reader.initial
  BY <1>3, <1>5, <1>6
<1> QED BY <1>1, <1>2, <1>4, <1>5, <1>7

\* A record that has all its fragments in a piece with its end.
LEMMA WholePiece ==
    ASSUME FileInv, ReaderType(reader), NEW o \in Seq(Nat), Piece(o, reader), Ends(Last(o)),
           NEW i \in DOMAIN file, file[i].record = file[o[1]].record
    PROVE  \E j \in DOMAIN o : o[j] = i
<1>0. FileType /\ Joined
  BY DEF FileInv
<1>1. /\ Len(o) \in Nat /\ Len(o) > 0 /\ 1 \in DOMAIN o /\ Len(o) \in DOMAIN o
      /\ DOMAIN o = 1 .. Len(o) /\ Last(o) = o[Len(o)]
      /\ Last(o) \in DOMAIN file /\ Last(o) \in Nat /\ o[1] \in DOMAIN file /\ o[1] \in Nat
      /\ file[Last(o)].record = file[o[1]].record
  BY LastOfPiece
<1>2. i \in Nat /\ file[i].record \in Nat /\ i <= Len(file) /\ Len(file) \in Nat
      /\ DOMAIN file = 1 .. Len(file)
  <2>1. file \in Seq(Fragments)
    BY <1>0 DEF FileType
  <2>2. Len(file) \in Nat /\ DOMAIN file = 1 .. Len(file)
    BY <2>1
  <2> QED BY <2>2, <1>0, InFile
<1>3. o[1] <= i
  <2>1. Begins(o[1])
    BY DEF Piece
  <2>2. i < o[1] => file[i].record < file[o[1]].record
    BY <2>1, <1>0, <1>1 DEF Joined
  <2> QED BY <2>2, <1>1, <1>2
<1>4. i <= Last(o)
  <2> SUFFICES ASSUME Last(o) < i PROVE FALSE
    BY <1>1, <1>2
  <2>1. PICK l \in Nat : l = Last(o)
    BY <1>1
  <2>2. l + 1 \in DOMAIN file /\ (l + 1) - 1 = l /\ l < l + 1 /\ (l + 1 = i \/ l + 1 < i)
    <3>1. l >= 1
      BY <2>1, <1>0, <1>1, InFile
    <3>2. l + 1 <= i
      BY <2>1, <1>2
    <3> QED BY <3>1, <3>2, <1>2
  <2>3. ~Begins(l + 1) => ~Ends(l)
    BY <2>2, <1>0 DEF Joined
  <2>4. Begins(l + 1)
    BY <2>1, <2>3
  <2>5. file[l].record < file[l + 1].record
    BY <2>1, <2>2, <2>4, <1>0, <1>1 DEF Joined
  <2>6. l + 1 < i => file[l + 1].record <= file[i].record
    BY <2>2, <1>0 DEF Joined
  <2>7. file[l].record \in Nat /\ file[l + 1].record \in Nat
    BY <2>1, <2>2, <1>0, <1>1, InFile
  <2> QED BY <2>1, <2>2, <2>5, <2>6, <2>7, <1>1, <1>2
<1>5. PICK j : j = i - o[1] + 1
  OBVIOUS
<1>6. Last(o) = o[1] + (Len(o) - 1)
  BY <1>1 DEF Piece
<1>7. j \in DOMAIN o /\ o[1] + (j - 1) = i
  <2>1. \A a, m, n \in Nat : a <= m /\ m <= a + (n - 1) /\ n > 0
                              => m - a + 1 \in 1 .. n /\ a + ((m - a + 1) - 1) = m
    OBVIOUS
  <2>2. PICK a \in Nat : a = o[1]
    BY <1>1
  <2> QED BY <2>1, <2>2, <1>1, <1>2, <1>3, <1>4, <1>5, <1>6
<1>8. o[j] = i
  BY <1>7 DEF Piece
<1> QED BY <1>7, <1>8

-----------------------------------------------------------------------------
(* The fragment at the reader's position. *)

\* It comes right behind the fragments in scratch.
LEMMA AfterScratch ==
    ASSUME FileInv, Reading(reader), reader.fragmented,
           NEW i \in DOMAIN file, At(i) = reader.pos
    PROVE  /\ i = Last(reader.scratch) + 1 /\ Last(reader.scratch) \in DOMAIN file
           /\ Last(reader.scratch) < i /\ i - 1 = Last(reader.scratch)
           /\ ~Ends(Last(reader.scratch)) /\ Piece(reader.scratch, reader)
           /\ reader.scratch \in Seq(Nat)
<1>0. FileType /\ Tiled
  BY DEF FileInv
<1>1. PICK k : k = Last(reader.scratch)
  OBVIOUS
<1>2. reader.scratch \in Seq(Nat) /\ Piece(reader.scratch, reader) /\ ReaderType(reader)
  BY ReaderFields DEF Reading, Scratch
<1>3. /\ k \in DOMAIN file /\ k \in Nat /\ At(k) < reader.pos /\ ~Ends(k)
      /\ \A j \in DOMAIN file : k < j => reader.pos <= At(j)
  BY <1>1, <1>2, LastOfPiece DEF Reading, Scratch
<1>4. k < i
  BY <1>0, <1>3, Order
<1>5. i \in Nat /\ i <= Len(file) /\ Len(file) \in Nat /\ 1 <= k /\ file \in Seq(Fragments)
  BY <1>0, <1>3, InFile DEF FileType
<1>6. ~(k + 1 < i)
  <2> SUFFICES ASSUME k + 1 < i PROVE FALSE
    OBVIOUS
  <2>1. k + 1 \in DOMAIN file /\ k < k + 1
    BY <1>3, <1>5
  <2>2. At(k + 1) < At(i) /\ At(k + 1) \in Nat
    BY <2>1, <1>0, Order, InFile
  <2>3. reader.pos <= At(k + 1)
    BY <2>1, <1>3
  <2> QED BY <2>2, <2>3, ReaderAt
<1>7. i = k + 1 /\ i - 1 = k
  BY <1>3, <1>4, <1>5, <1>6
<1> QED BY <1>1, <1>2, <1>3, <1>4, <1>7

\* Scratch is given up for the beginning of another record only if its record
\* is none to be returned and a process has died.
LEMMA ScratchUnwanted ==
    ASSUME FileInv, Reading(reader), reader.fragmented,
           NEW i \in DOMAIN file, At(i) = reader.pos, Begins(i)
    PROVE  /\ \A j \in DOMAIN reader.scratch : ~Wanted(reader.scratch[j], reader)
           /\ crashes # 0
<1>0. FileType
  BY DEF FileInv
<1>1. PICK k \in Nat : k = Last(reader.scratch)
  BY <1>0, AfterScratch, InFile
<1>2. /\ i = k + 1 /\ k \in DOMAIN file /\ ~Ends(k) /\ Piece(reader.scratch, reader)
      /\ reader.scratch \in Seq(Nat) /\ ReaderType(reader)
  BY <1>1, AfterScratch DEF Reading
<1>3. file[k].record \notin complete
  BY <1>2, OfComplete
<1>4. ASSUME NEW j \in DOMAIN reader.scratch PROVE ~Wanted(reader.scratch[j], reader)
  <2>1. file[reader.scratch[j]].record = file[reader.scratch[1]].record
    BY <1>2 DEF Piece
  <2>2. file[reader.scratch[j]].record = file[k].record
    BY <2>1, <1>1, <1>2, LastOfPiece
  <2> QED BY <2>2, <1>2, <1>3, ReaderFields DEF Wanted
<1>5. crashes # 0
  <2>1. crashes = 0 => (Begins(k + 1) <=> Ends(k))
    BY <1>2 DEF FileInv, Uninterrupted
  <2> QED BY <2>1, <1>2
<1> QED BY <1>4, <1>5

LEMMA NotSpoilt ==
    ASSUME FileInv, Reading(reader), reader.pos < reader.end,
           NEW i \in DOMAIN file, At(i) = reader.pos
    PROVE  \A t \in DOMAIN file : ~Spoils(t, i)
<1>0. FileType /\ Tiled
  BY DEF FileInv
<1> SUFFICES ASSUME NEW t \in DOMAIN file, t < i, Torn(t), BlockOf(t) = BlockOf(i)
             PROVE  FALSE
  BY DEF Spoils
<1>1. BlockOf(t) = BlockStart(reader.pos)
  BY ReaderAt, InBlock
<1>2. reader.pos <= At(t)
  BY <1>1 DEF Reading, Buffer
<1>3. At(t) < At(i) /\ At(t) \in Nat
  BY <1>0, Order, InFile
<1> QED BY <1>2, <1>3, ReaderAt

\* A torn fragment at the reader's position spoils all that is in the buffer.
LEMMA TornUnwanted ==
    ASSUME FileInv, Reading(reader), reader.pos < reader.end,
           NEW m \in DOMAIN file, At(m) = reader.pos, Torn(m),
           NEW j \in DOMAIN file, reader.pos <= At(j), At(j) < reader.end
    PROVE  ~Wanted(j, reader)
<1>0. FileType /\ Tiled
  BY DEF FileInv
<1>1. CASE j = m
  <2>1. reader.due \subseteq complete
    BY ReaderFields DEF Reading
  <2> QED BY <2>1, <1>1, OfComplete DEF Wanted
<1>2. CASE j # m
  <2>1. m < j
    <3>1. At(m) \in Nat /\ At(j) \in Nat
      BY <1>0, InFile
    <3>2. At(m) < At(j)
      BY <3>1, <1>0, <1>2, Order
    <3> QED BY <3>2, <1>0, Order
  <2>2. BlockOf(m) = BlockOf(j)
    BY ReaderAt, InBlock
  <2> QED BY <2>1, <2>2 DEF Wanted, Spoiled
<1> QED BY <1>1, <1>2

\* A reader that goes on behind a whole fragment that is in the buffer.
LEMMA Passing ==
    ASSUME FileInv, Reading(reader), Buffered >= HeaderSize,
           NEW i \in DOMAIN file, At(i) = reader.pos, Fits(i), ~Torn(i)
    PROVE  /\ reader.pos < reader.end /\ EndOf(i) \in Nat
           /\ reader.pos < EndOf(i) /\ EndOf(i) <= reader.end
           /\ EndOf(i) = reader.pos + FragmentSize(file[i])
           /\ \A j \in DOMAIN file : At(j) < EndOf(i) => At(j) < reader.pos \/ j = i
           /\ \A j \in DOMAIN file : i < j => EndOf(i) <= At(j)
           /\ \A t \in DOMAIN file : ~Spoils(t, i)
<1>0. FileType /\ Tiled
  BY DEF FileInv
<1>1. /\ reader.pos \in Nat /\ reader.end \in Nat /\ reader.pos < reader.end
      /\ Buffered = reader.end - reader.pos
  BY ReaderAt, Sizes
<1>2. /\ FragmentSize(file[i]) \in Nat /\ EndOf(i) = At(i) + FragmentSize(file[i])
      /\ HeaderSize <= FragmentSize(file[i]) /\ EndOf(i) \in Nat /\ i \in Nat
  BY <1>0, InFile DEF EndOf, At
<1>3. EndOf(i) <= reader.end /\ reader.pos < EndOf(i)
  BY <1>1, <1>2, Sizes DEF Fits
<1>4. \A j \in DOMAIN file : i < j => EndOf(i) <= At(j)
  BY <1>0, Order
<1>5. ASSUME NEW j \in DOMAIN file, At(j) < EndOf(i) PROVE At(j) < reader.pos \/ j = i
  <2>1. j \in Nat /\ At(j) \in Nat
    BY <1>0, InFile
  <2>2. ~(i < j)
    BY <2>1, <1>2, <1>4, <1>5
  <2>3. j < i => At(j) < At(i)
    BY <1>0, Order
  <2> QED BY <2>1, <2>2, <2>3, <1>2
<1> QED BY <1>1, <1>2, <1>3, <1>4, <1>5, NotSpoilt

LEMMA PassedBuffer ==
    ASSUME FileInv, Reading(reader), Buffered >= HeaderSize,
           NEW i \in DOMAIN file, At(i) = reader.pos, Fits(i), ~Torn(i),
           NEW rd, rd.pos = EndOf(i), rd.end = reader.end, rd.eof = reader.eof,
           rd.resyncing => rd.out = <<>> /\ ~rd.fragmented
    PROVE  Buffer(rd)
<1>0. FileType
  BY DEF FileInv
<1>1. /\ reader.pos < reader.end /\ EndOf(i) \in Nat /\ EndOf(i) <= reader.end
      /\ reader.pos < EndOf(i)
      /\ \A j \in DOMAIN file : i < j => EndOf(i) <= At(j)
  BY Passing
<1>2. /\ reader.pos \in Nat /\ reader.end \in Nat
  BY ReaderAt
<1>3. (~rd.eof => Boundary(rd.end)) /\ rd.end <= size
  BY <1>1, <1>2 DEF Reading, Buffer
<1>4. ASSUME rd.pos < rd.end
      PROVE  LET b == BlockStart(rd.pos)
             IN  /\ rd.end <= b + BlockSize
                 /\ \E k \in DOMAIN file : ~Torn(k) /\ EndOf(k) = rd.pos
                 /\ \A t \in DOMAIN file : Torn(t) /\ BlockOf(t) = b => rd.pos <= At(t)
  <2>1. PICK b : b = BlockStart(reader.pos)
    OBVIOUS
  <2>2. /\ b \in Nat /\ Boundary(b) /\ b <= reader.pos /\ reader.end <= b + BlockSize
        /\ \A t \in DOMAIN file : Torn(t) /\ BlockOf(t) = b => reader.pos <= At(t)
    BY <2>1, <1>1, ReaderAt DEF Reading, Buffer
  <2>3. BlockStart(rd.pos) = b
    <3>1. rd.pos \in Nat /\ b <= rd.pos /\ rd.pos < b + BlockSize
      BY <2>2, <1>1, <1>2, <1>4, Sizes
    <3> QED BY <3>1, <2>2, StartOfBlockIs
  <2>4. ASSUME NEW t \in DOMAIN file, Torn(t), BlockOf(t) = b PROVE rd.pos <= At(t)
    <3>1. reader.pos <= At(t) /\ t # i /\ t \in Nat /\ i \in Nat /\ At(t) \in Nat
      BY <2>2, <2>4, <1>0, InFile
    <3>2. ~(t < i)
      <4>1. t < i => At(t) < At(i)
        BY Order DEF FileInv
      <4> QED BY <4>1, <3>1, <1>2
    <3> QED BY <3>1, <3>2, <1>1
  <2> QED BY <2>2, <2>3, <2>4
<1> QED BY <1>3, <1>4 DEF Buffer

LEMMA PassedProgress ==
    ASSUME FileInv, Reading(reader), Buffered >= HeaderSize,
           NEW i \in DOMAIN file, At(i) = reader.pos, Fits(i), ~Torn(i),
           NEW rd, rd.pos = EndOf(i), rd.end = reader.end, rd.eof = reader.eof,
           rd.due = reader.due, rd.initial = reader.initial,
           \A j \in DOMAIN file : Wanted(j, reader) /\ Taken(j, reader) => Taken(j, rd),
           Wanted(i, reader) => Taken(i, rd)
    PROVE  Progress(rd)
<1>1. ASSUME NEW j \in DOMAIN file, Wanted(j, rd), At(j) < rd.pos PROVE Taken(j, rd)
  <2>1. At(j) < reader.pos \/ j = i
    BY <1>1, Passing
  <2>2. Wanted(j, reader)
    BY <1>1 DEF Wanted
  <2>3. CASE At(j) < reader.pos
    BY <2>2, <2>3 DEF Reading, Progress
  <2>4. CASE j = i
    BY <2>2, <2>4
  <2> QED BY <2>1, <2>3, <2>4
<1>2. rd.eof => \A j \in DOMAIN file : file[j].record \in rd.due => EndOf(j) <= rd.end
  BY DEF Reading, Progress
<1> QED BY <1>1, <1>2 DEF Progress

LEMMA PassedFaultless ==
    ASSUME FileInv, Reading(reader), Buffered >= HeaderSize,
           NEW i \in DOMAIN file, At(i) = reader.pos, Fits(i), ~Torn(i),
           NEW rd, rd.pos = EndOf(i), rd.end = reader.end, rd.initial = reader.initial,
           crashes = 0 /\ reader.initial = 0 =>
               ~rd.reported /\ ~rd.resyncing /\ (rd.fragmented \/ Ends(i))
    PROVE  Faultless(rd)
<1>0. FileType /\ Tiled
  BY DEF FileInv
<1> SUFFICES ASSUME crashes = 0, reader.initial = 0
             PROVE  /\ rd.end <= size
                    /\ ~rd.fragmented => \A j \in DOMAIN file :
                          At(j) < rd.pos /\ ~Ends(j) =>
                              j + 1 \in DOMAIN file /\ At(j + 1) < rd.pos
  BY DEF Faultless
<1>1. rd.end <= size
  BY DEF Reading, Faultless
<1>2. ASSUME Ends(i), NEW j \in DOMAIN file, At(j) < rd.pos, ~Ends(j)
      PROVE  j + 1 \in DOMAIN file /\ At(j + 1) < rd.pos
  <2>1. At(j) < reader.pos
    BY <1>2, Passing
  <2>2. j < i
    BY <2>1, <1>0, Order
  <2>3. j \in Nat /\ i \in Nat /\ 1 <= j /\ i <= Len(file) /\ Len(file) \in Nat /\ At(i) \in Nat
    BY <1>0, InFile
  <2>4. j + 1 \in DOMAIN file /\ j + 1 <= i
    <3>1. file \in Seq(Fragments)
      BY <1>0 DEF FileType
    <3> QED BY <3>1, <2>2, <2>3
  <2>5. At(j + 1) <= At(i) /\ At(j + 1) \in Nat
    <3>1. At(j + 1) \in Nat
      BY <2>4, <1>0, InFile
    <3>2. j + 1 < i => At(j + 1) < At(i)
      BY <2>4, <1>0, Order
    <3> QED BY <3>1, <3>2, <2>3, <2>4
  <2>6. At(i) < rd.pos /\ rd.pos \in Nat
    BY Passing
  <2> QED BY <2>3, <2>4, <2>5, <2>6
<1> QED BY <1>1, <1>2

-----------------------------------------------------------------------------
(* ReadFragment. *)

\* A fragment is passed over that belongs to no record the reader is to return.
LEMMA SkipFragment ==
    ASSUME FileInv, Reading(reader), Buffered >= HeaderSize,
           NEW i \in DOMAIN file, At(i) = reader.pos, Fits(i), ~Torn(i),
           ~reader.fragmented, ~Wanted(i, reader), ~(crashes = 0 /\ reader.initial = 0),
           NEW rd, ReaderType(rd), rd.state = "reading",
           rd.pos = EndOf(i), rd.end = reader.end, rd.eof = reader.eof,
           rd.due = reader.due, rd.initial = reader.initial, rd.out = reader.out,
           ~rd.fragmented, rd.scratch = <<>>, rd.resyncing => reader.resyncing
    PROVE  Reading(rd)
<1>1. ReaderType(reader) /\ Output(reader)
  BY DEF Reading
<1>2. rd.pos \in Nat /\ reader.pos <= rd.pos
  BY Passing, ReaderAt
<1>3. Output(rd)
  BY <1>1, <1>2, OutputStays
<1>4. Scratch(rd)
  BY DEF Scratch
<1>5. Buffer(rd)
  <2>1. rd.resyncing => rd.out = <<>> /\ ~rd.fragmented
    BY DEF Reading, Buffer
  <2> QED BY <2>1, PassedBuffer
<1>6. Progress(rd)
  <2>1. \A j \in DOMAIN file : Taken(j, reader) => Taken(j, rd)
    BY DEF Taken
  <2> QED BY <2>1, PassedProgress
<1>7. Faultless(rd)
  BY DEF Faultless
<1> QED BY <1>3, <1>4, <1>5, <1>6, <1>7 DEF Reading

\* t is s with one more element, e.
Longer(t, s, e) == t = Append(s, e)

LEMMA AppendedNumber ==
    ASSUME NEW s \in Seq(Nat), NEW e \in Nat, NEW t, Longer(t, s, e)
    PROVE  \E n \in Nat :
           /\ n = Len(s) /\ t \in Seq(Nat) /\ Len(t) = n + 1 /\ t # <<>>
           /\ DOMAIN s = 1 .. n /\ DOMAIN t = 1 .. (n + 1)
           /\ t[n + 1] = e /\ \A x \in 1 .. n : t[x] = s[x]
BY DEF Longer

LEMMA AppendedSequence ==
    ASSUME NEW s \in Seq(Seq(Nat)), NEW e \in Seq(Nat), NEW t, Longer(t, s, e)
    PROVE  \E n \in Nat :
           /\ n = Len(s) /\ DOMAIN s = 1 .. n /\ DOMAIN t = 1 .. (n + 1)
           /\ t[n + 1] = e /\ \A x \in 1 .. n : t[x] = s[x]
<1> DEFINE S == Seq(Nat)
<1>2. s \in Seq(S) /\ e \in S
  OBVIOUS
<1> HIDE DEF S
<1>3. t = Append(s, e)
  BY DEF Longer
<1>4. Len(s) \in Nat /\ DOMAIN s = 1 .. Len(s) /\ DOMAIN t = 1 .. (Len(s) + 1)
  BY <1>2, <1>3
<1>5. t[Len(s) + 1] = e /\ \A x \in 1 .. Len(s) : t[x] = s[x]
  BY <1>2, <1>3
<1> QED BY <1>4, <1>5

LEMMA ReturnedPieces ==
    ASSUME NEW rd, NEW next, NEW p,
           rd.out \in Seq(Seq(Nat)), p \in Seq(Nat), Longer(next.out, rd.out, p)
    PROVE  \E n \in Nat :
           /\ DOMAIN rd.out = 1 .. n /\ DOMAIN next.out = 1 .. (n + 1)
           /\ next.out[n + 1] = p /\ \A x \in 1 .. n : next.out[x] = rd.out[x]
<1>1. PICK o : o = rd.out
  OBVIOUS
<1>2. PICK q : q = next.out
  OBVIOUS
<1>3. o \in Seq(Seq(Nat)) /\ Longer(q, o, p)
  BY <1>1, <1>2
<1>4. \E n \in Nat :
           /\ DOMAIN o = 1 .. n /\ DOMAIN q = 1 .. (n + 1)
           /\ q[n + 1] = p /\ \A x \in 1 .. n : q[x] = o[x]
  BY <1>3, AppendedSequence
<1> QED BY <1>1, <1>2, <1>4

\* What scratch becomes with the i-th fragment.
Grown(p, i) == IF Begins(i) THEN p = <<i>> ELSE Longer(p, reader.scratch, i)

\* The piece a fragment begins or ends or goes on with.
LEMMA NextPiece ==
    ASSUME FileInv, Reading(reader), Buffered >= HeaderSize,
           NEW i \in DOMAIN file, At(i) = reader.pos, Fits(i), ~Torn(i),
           At(i) >= reader.initial, Begins(i) \/ reader.fragmented,
           NEW p, Grown(p, i),
           NEW rd, rd.initial = reader.initial, rd.pos = EndOf(i)
    PROVE  /\ p \in Seq(Nat) /\ Piece(p, rd) /\ Last(p) = i
           /\ \A k \in DOMAIN reader.out : Last(reader.out[k]) < p[1]
           /\ \E x \in DOMAIN p : p[x] = i
           /\ reader.fragmented => \A j \in DOMAIN file :
                 Wanted(j, reader) /\ (\E x \in DOMAIN reader.scratch : reader.scratch[x] = j)
                    => \E x \in DOMAIN p : p[x] = j
<1>0. FileType /\ Tiled /\ Joined /\ ReaderType(reader)
  BY DEF FileInv, Reading
<1>1. /\ EndOf(i) \in Nat /\ reader.pos < EndOf(i) /\ i \in Nat /\ reader.pos \in Nat
      /\ \A t \in DOMAIN file : ~Spoils(t, i)
  BY <1>0, Passing, InFile, ReaderAt
<1>2. EndOf(i) <= rd.pos
  BY <1>1
<1>3. CASE Begins(i)
  <2>0. p = <<i>>
    BY <1>3 DEF Grown
  <2>1. p = <<i>> /\ p \in Seq(Nat) /\ Len(p) = 1 /\ DOMAIN p = {1} /\ p[1] = i /\ p # <<>>
    BY <2>0, <1>1
  <2>2. Last(p) = i
    BY <2>1 DEF Last
  <2>3. Piece(p, rd)
    <3>1. 1 + (1 - 1) = 1 /\ ~(1 > 1) /\ ~(1 < 1) /\ i + (1 - 1) = i
      BY <1>1
    <3> QED BY <2>1, <3>1, <1>1, <1>2, <1>3 DEF Piece
  <2>4. ASSUME NEW k \in DOMAIN reader.out PROVE Last(reader.out[k]) < i
    <3>1. Piece(reader.out[k], reader) /\ reader.out[k] \in Seq(Nat)
      BY <1>0, ReaderFields DEF Reading, Output
    <3>2. Last(reader.out[k]) \in DOMAIN file /\ At(Last(reader.out[k])) < reader.pos
      BY <3>1, <1>0, LastOfPiece
    <3> QED BY <3>2, <1>0, Order
  <2>5. ASSUME reader.fragmented, NEW x \in DOMAIN reader.scratch
        PROVE  ~Wanted(reader.scratch[x], reader)
    BY <2>5, <1>3, ScratchUnwanted
  <2> QED BY <2>1, <2>2, <2>3, <2>4, <2>5
<1>4. CASE ~Begins(i)
  <2>1. PICK s : s = reader.scratch
    OBVIOUS
  <2>2. reader.fragmented /\ Longer(p, s, i) /\ s \in Seq(Nat) /\ Piece(s, reader)
    BY <2>1, <1>4, AfterScratch DEF Grown
  <2>3. PICK n \in Nat : n = Len(s) /\ n > 0 /\ DOMAIN s = 1 .. n
    BY <2>2, <1>0, LastOfPiece
  <2>4. /\ p \in Seq(Nat) /\ Len(p) = n + 1 /\ DOMAIN p = 1 .. (n + 1)
        /\ p[n + 1] = i /\ \A x \in 1 .. n : p[x] = s[x]
        /\ p # <<>> /\ 1 \in DOMAIN s /\ n \in DOMAIN s
    <3>1. s \in Seq(Nat) /\ i \in Nat /\ Longer(p, s, i) /\ n = Len(s)
      BY <2>2, <2>3, <1>1
    <3>2. /\ p \in Seq(Nat) /\ Len(p) = n + 1 /\ DOMAIN p = 1 .. (n + 1)
          /\ p[n + 1] = i /\ (\A x \in 1 .. n : p[x] = s[x]) /\ p # <<>>
      BY <3>1, AppendedNumber
    <3> QED BY <3>2, <2>3
  <2>5. Last(p) = i
    BY <2>4 DEF Last
  <2>6. /\ i = Last(s) + 1 /\ i - 1 = Last(s) /\ ~Ends(Last(s)) /\ Last(s) = s[n]
        /\ Last(s) \in DOMAIN file /\ file[Last(s)].record = file[s[1]].record
        /\ s[1] \in DOMAIN file /\ s[1] \in Nat
    BY <2>1, <2>2, <2>3, <1>0, AfterScratch, LastOfPiece
  <2>7. Piece(s, rd)
    BY <2>2, <1>0, <1>1, PieceStays
  <2>8. file[i].record = file[s[1]].record
    BY <2>6, <1>0, <1>4 DEF Joined
  <2>9. i = s[1] + n
    <3>1. s[n] = s[1] + (n - 1)
      BY <2>2, <2>4 DEF Piece
    <3> QED BY <3>1, <2>3, <2>6
  <2>10. Piece(p, rd)
    <3>1. p[1] = s[1]
      BY <2>3, <2>4
    <3>2. Begins(p[1]) /\ At(p[1]) >= rd.initial
      BY <2>7, <3>1 DEF Piece
    <3> DEFINE Q(x) == /\ p[x] = p[1] + (x - 1)
                       /\ p[x] \in DOMAIN file
                       /\ ~Torn(p[x]) /\ EndOf(p[x]) <= rd.pos
                       /\ \A t \in DOMAIN file : ~Spoils(t, p[x])
                       /\ file[p[x]].record = file[p[1]].record
                       /\ x > 1 => ~Begins(p[x])
                       /\ x < Len(p) => ~Ends(p[x])
    <3>3. ASSUME NEW x \in 1 .. n PROVE Q(x)
      <4>1. x \in DOMAIN s /\ p[x] = s[x] /\ (x < n \/ x = n) /\ x \in Nat
        BY <2>3, <2>4
      <4>2. ~Ends(p[x])
        <5>1. x < n => ~Ends(s[x])
          BY <2>3, <2>7, <4>1 DEF Piece
        <5> QED BY <5>1, <4>1, <2>6
      <4> QED BY <2>7, <3>1, <4>1, <4>2 DEF Piece
    <3>4. Q(n + 1)
      <4>1. ~(n + 1 < Len(p)) /\ (n + 1) - 1 = n
        BY <2>3, <2>4
      <4> QED BY <2>4, <2>8, <2>9, <3>1, <4>1, <1>1, <1>2, <1>4
    <3>5. \A x \in DOMAIN p : x \in 1 .. n \/ x = n + 1
      BY <2>3, <2>4
    <3>6. \A x \in DOMAIN p : Q(x)
      BY <3>3, <3>4, <3>5
    <3> QED BY <3>2, <3>6, <2>4 DEF Piece
  <2>11. \A k \in DOMAIN reader.out : Last(reader.out[k]) < p[1]
    <3>1. \A k \in DOMAIN reader.out : Last(reader.out[k]) < s[1]
      BY <2>1, <2>2 DEF Reading, Scratch
    <3> QED BY <3>1, <2>3, <2>4
  <2>12. \A x \in DOMAIN s : x \in DOMAIN p /\ p[x] = s[x]
    BY <2>3, <2>4
  <2>13. n + 1 \in DOMAIN p
    BY <2>4
  <2> QED BY <2>1, <2>4, <2>5, <2>10, <2>11, <2>12, <2>13
<1> QED BY <1>3, <1>4

\* ReadRecord keeps the piece in scratch.
LEMMA KeepPiece ==
    ASSUME FileInv, Reading(reader), Buffered >= HeaderSize,
           NEW i \in DOMAIN file, At(i) = reader.pos, Fits(i), ~Torn(i),
           At(i) >= reader.initial, Begins(i) \/ reader.fragmented, ~Ends(i),
           NEW rd, ReaderType(rd), rd.state = "reading",
           rd.pos = EndOf(i), rd.end = reader.end, rd.eof = reader.eof,
           rd.due = reader.due, rd.initial = reader.initial, rd.out = reader.out,
           rd.fragmented, ~rd.resyncing,
           Grown(rd.scratch, i),
           crashes = 0 /\ reader.initial = 0 => ~rd.reported
    PROVE  Reading(rd)
<1>0. ReaderType(reader) /\ Output(reader)
  BY DEF Reading
<1>1. PICK p : p = rd.scratch
  OBVIOUS
<1>2. /\ p \in Seq(Nat) /\ Piece(p, rd) /\ Last(p) = i
      /\ \A k \in DOMAIN reader.out : Last(reader.out[k]) < p[1]
      /\ \E x \in DOMAIN p : p[x] = i
      /\ reader.fragmented => \A j \in DOMAIN file :
            Wanted(j, reader) /\ (\E x \in DOMAIN reader.scratch : reader.scratch[x] = j)
               => \E x \in DOMAIN p : p[x] = j
  BY <1>1, NextPiece
<1>3. Output(rd)
  <2>1. rd.pos \in Nat /\ reader.pos <= rd.pos
    BY Passing, ReaderAt
  <2> QED BY <2>1, <1>0, OutputStays
<1>4. Scratch(rd)
  <2>1. \A j \in DOMAIN file : i < j => rd.pos <= At(j)
    BY Passing
  <2> QED BY <2>1, <1>1, <1>2 DEF Scratch
<1>5. Buffer(rd)
  BY PassedBuffer
<1>6. Progress(rd)
  <2>1. \A j \in DOMAIN file : Wanted(j, reader) /\ Taken(j, reader) => Taken(j, rd)
    BY <1>1, <1>2 DEF Taken
  <2>2. Taken(i, rd)
    BY <1>1, <1>2 DEF Taken
  <2> QED BY <2>1, <2>2, PassedProgress
<1>7. Faultless(rd)
  BY PassedFaultless
<1> QED BY <1>3, <1>4, <1>5, <1>6, <1>7 DEF Reading

\* ReadRecord returns the piece.
LEMMA ReturnPiece ==
    ASSUME FileInv, Reading(reader), Buffered >= HeaderSize,
           NEW i \in DOMAIN file, At(i) = reader.pos, Fits(i), ~Torn(i),
           At(i) >= reader.initial, Begins(i) \/ reader.fragmented, Ends(i),
           NEW p, Grown(p, i),
           NEW rd, ReaderType(rd), rd.state = "reading",
           rd.pos = EndOf(i), rd.end = reader.end, rd.eof = reader.eof,
           rd.due = reader.due, rd.initial = reader.initial,
           Longer(rd.out, reader.out, p),
           ~rd.fragmented, rd.scratch = <<>>, ~rd.resyncing,
           crashes = 0 /\ reader.initial = 0 => ~rd.reported
    PROVE  Reading(rd)
<1>0. ReaderType(reader) /\ Output(reader)
  BY DEF Reading
<1>1. /\ p \in Seq(Nat) /\ Piece(p, rd) /\ Last(p) = i
      /\ \A k \in DOMAIN reader.out : Last(reader.out[k]) < p[1]
      /\ \E x \in DOMAIN p : p[x] = i
      /\ reader.fragmented => \A j \in DOMAIN file :
            Wanted(j, reader) /\ (\E x \in DOMAIN reader.scratch : reader.scratch[x] = j)
               => \E x \in DOMAIN p : p[x] = j
  BY NextPiece
<1>2. PICK n \in Nat : /\ DOMAIN reader.out = 1 .. n /\ DOMAIN rd.out = 1 .. (n + 1)
                       /\ rd.out[n + 1] = p
                       /\ \A k \in 1 .. n : rd.out[k] = reader.out[k]
  <2>1. reader.out \in Seq(Seq(Nat))
    BY <1>0, ReaderFields
  <2>2. p \in Seq(Nat) /\ Longer(rd.out, reader.out, p)
    BY <1>1
  <2>3. \E n \in Nat :
           /\ DOMAIN reader.out = 1 .. n /\ DOMAIN rd.out = 1 .. (n + 1)
           /\ rd.out[n + 1] = p /\ \A x \in 1 .. n : rd.out[x] = reader.out[x]
    BY <2>1, <2>2, ReturnedPieces
  <2> QED BY <2>3
<1>3. /\ \A k \in DOMAIN rd.out : k \in DOMAIN reader.out \/ k = n + 1
      /\ \A k \in DOMAIN reader.out : k \in DOMAIN rd.out /\ rd.out[k] = reader.out[k] /\ ~(n + 1 < k)
      /\ n + 1 \in DOMAIN rd.out /\ ~(n + 1 < n + 1)
  BY <1>2
<1>4. Output(rd)
  <2>1. rd.pos \in Nat /\ reader.pos <= rd.pos
    BY Passing, ReaderAt
  <2>2. \A k \in DOMAIN reader.out :
           Piece(reader.out[k], rd) /\ Ends(Last(reader.out[k]))
    <3>1. \A k \in DOMAIN reader.out :
             Piece(reader.out[k], reader) /\ Ends(Last(reader.out[k]))
      BY <1>0 DEF Output
    <3> QED BY <2>1, <3>1, <1>0, PieceStays
  <2>3. \A k \in DOMAIN rd.out : Piece(rd.out[k], rd) /\ Ends(Last(rd.out[k]))
    BY <2>2, <1>1, <1>2, <1>3
  <2>4. \A k, m \in DOMAIN rd.out : k < m => Last(rd.out[k]) < rd.out[m][1]
    <3>1. \A k, m \in DOMAIN reader.out : k < m => Last(reader.out[k]) < reader.out[m][1]
      BY <1>0 DEF Output
    <3> QED BY <3>1, <1>1, <1>2, <1>3
  <2> QED BY <2>3, <2>4 DEF Output
<1>5. Scratch(rd)
  BY DEF Scratch
<1>6. Buffer(rd)
  BY PassedBuffer
<1>7. Progress(rd)
  <2>1. \A j \in DOMAIN file : Wanted(j, reader) /\ Taken(j, reader) => Taken(j, rd)
    <3> SUFFICES ASSUME NEW j \in DOMAIN file, Wanted(j, reader), Taken(j, reader)
                 PROVE  Taken(j, rd)
      OBVIOUS
    <3>1. CASE \E k \in DOMAIN reader.out : \E x \in DOMAIN reader.out[k] : reader.out[k][x] = j
      BY <3>1, <1>3 DEF Taken
    <3>2. CASE reader.fragmented /\ \E x \in DOMAIN reader.scratch : reader.scratch[x] = j
      <4>1. \E x \in DOMAIN p : p[x] = j
        BY <3>2, <1>1
      <4> QED BY <4>1, <1>2, <1>3 DEF Taken
    <3> QED BY <3>1, <3>2 DEF Taken
  <2>2. Taken(i, rd)
    BY <1>1, <1>2, <1>3 DEF Taken
  <2> QED BY <2>1, <2>2, PassedProgress
<1>8. Faultless(rd)
  BY PassedFaultless
<1> QED BY <1>4, <1>5, <1>6, <1>7, <1>8 DEF Reading

\* A reader that has moved on.
Moved(r, pos, resyncing, scratch, fragmented, out, reported) ==
    [r EXCEPT !.pos = pos, !.resyncing = resyncing, !.scratch = scratch,
              !.fragmented = fragmented, !.out = out, !.reported = reported]

LEMMA MovedFields ==
    ASSUME NEW r, ReaderType(r), NEW pos \in Nat, pos <= r.end, NEW resyncing \in BOOLEAN,
           NEW scratch \in Seq(Nat), NEW fragmented \in BOOLEAN,
           NEW out \in Seq(Seq(Nat)), NEW reported \in BOOLEAN,
           NEW rd, rd = Moved(r, pos, resyncing, scratch, fragmented, out, reported)
    PROVE  /\ ReaderType(rd) /\ rd.state = r.state /\ rd.initial = r.initial
           /\ rd.pos = pos /\ rd.end = r.end /\ rd.eof = r.eof /\ rd.due = r.due
           /\ rd.resyncing = resyncing /\ rd.scratch = scratch
           /\ rd.fragmented = fragmented /\ rd.out = out /\ rd.reported = reported
<1>1. r \in Readers /\ r.due \subseteq complete
  BY DEF ReaderType
<1>2. /\ rd \in Readers /\ rd.state = r.state /\ rd.initial = r.initial
      /\ rd.pos = pos /\ rd.end = r.end /\ rd.eof = r.eof /\ rd.due = r.due
      /\ rd.resyncing = resyncing /\ rd.scratch = scratch
      /\ rd.fragmented = fragmented /\ rd.out = out /\ rd.reported = reported
  BY <1>1 DEF Moved, Readers
<1> QED BY <1>1, <1>2 DEF ReaderType

LEMMA ReportIs ==
    ASSUME NEW rd, NEW bytes
    PROVE  \E b \in BOOLEAN : Report(rd, bytes) = [rd EXCEPT !.reported = b]
BY DEF Report

\* Only the partial record in scratch is reported.
LEMMA ReportPartialIs ==
    ASSUME NEW rd \in Readers
    PROVE  \E b \in BOOLEAN : /\ ReportPartial(rd) = [rd EXCEPT !.reported = b]
                              /\ ~rd.fragmented => b = rd.reported
<1>1. CASE rd.fragmented /\ ScratchSize(rd) > 0
  BY <1>1, ReportIs DEF ReportPartial
<1>2. CASE ~(rd.fragmented /\ ScratchSize(rd) > 0)
  <2>1. ReportPartial(rd) = rd /\ rd.reported \in BOOLEAN
    BY <1>2 DEF ReportPartial, Readers
  <2>2. rd = [rd EXCEPT !.reported = rd.reported]
    BY DEF Readers
  <2> QED BY <2>1, <2>2
<1> QED BY <1>1, <1>2

LEMMA FragmentedWhole ==
    ASSUME FileInv, NEW i \in DOMAIN file
    PROVE  /\ file[i].type = "full"   <=> Begins(i) /\ Ends(i)
           /\ file[i].type = "first"  <=> Begins(i) /\ ~Ends(i)
           /\ file[i].type = "last"   <=> ~Begins(i) /\ Ends(i)
           /\ file[i].type = "middle" <=> ~Begins(i) /\ ~Ends(i)
<1>1. file[i].type \in Types
  BY InFile DEF FileInv
<1> QED BY <1>1 DEF Types, Begins, Ends

\* A fragment before the initial offset.
LEMMA ReadBefore ==
    ASSUME FileInv, Reading(reader), Buffered >= HeaderSize,
           NEW i \in DOMAIN file, At(i) = reader.pos, Fits(i), ~Torn(i),
           At(i) < reader.initial,
           NEW next, next = BadRecord([reader EXCEPT !.pos = EndOf(i)])
    PROVE  Reading(next)
<1>0. /\ FileType /\ Tiled /\ ReaderType(reader) /\ reader.state = "reading"
      /\ EndOf(i) \in Nat /\ EndOf(i) <= reader.end
  BY Passing DEF FileInv, Reading
<1>1. /\ reader.initial \in Nat /\ reader.pos \in Nat /\ reader.reported \in BOOLEAN
      /\ reader.out \in Seq(Seq(Nat)) /\ reader.scratch \in Seq(Nat) /\ reader \in Readers
  BY <1>0, ReaderFields DEF ReaderType
<1>2. ~reader.fragmented
  <2> SUFFICES ASSUME reader.fragmented PROVE FALSE
    OBVIOUS
  <2>1. At(Last(reader.scratch)) < reader.pos /\ At(Last(reader.scratch)) >= reader.initial
        /\ At(Last(reader.scratch)) \in Nat
    BY <1>0, AfterScratch, LastOfPiece, InFile
  <2> QED BY <2>1, <1>1
<1>3. reader.scratch = <<>> /\ reader.fragmented = FALSE
  BY <1>1, <1>2 DEF Reading, Scratch, Readers
<1>4. next = Moved(reader, EndOf(i), FALSE, <<>>, FALSE, reader.out, reader.reported)
  <2>1. next = [[reader EXCEPT !.pos = EndOf(i)] EXCEPT !.resyncing = FALSE]
    BY <1>1, <1>3 DEF BadRecord, Readers
  <2> QED BY <2>1, <1>1, <1>3 DEF Moved, Readers
<1>5. /\ ReaderType(next) /\ next.state = "reading" /\ next.initial = reader.initial
      /\ next.pos = EndOf(i) /\ next.end = reader.end /\ next.eof = reader.eof
      /\ next.due = reader.due /\ ~next.resyncing /\ next.scratch = <<>>
      /\ ~next.fragmented /\ next.out = reader.out
  <2>1. PICK p \in Nat : p = EndOf(i) /\ p <= reader.end
    BY <1>0
  <2>2. PICK s \in Seq(Nat) : s = <<>>
    <3>1. <<>> \in Seq(Nat)
      OBVIOUS
    <3> QED BY <3>1
  <2>3. PICK no \in BOOLEAN : no = FALSE
    OBVIOUS
  <2>4. PICK o \in Seq(Seq(Nat)) : o = reader.out
    BY <1>1
  <2>5. PICK b \in BOOLEAN : b = reader.reported
    BY <1>1
  <2>6. next = Moved(reader, p, no, s, no, o, b)
    BY <1>4, <2>1, <2>2, <2>3, <2>4, <2>5
  <2>7. /\ ReaderType(next) /\ next.state = reader.state /\ next.initial = reader.initial
        /\ next.pos = p /\ next.end = reader.end /\ next.eof = reader.eof
        /\ next.due = reader.due /\ next.resyncing = no /\ next.scratch = s
        /\ next.fragmented = no /\ next.out = o
    BY <2>1, <2>6, <1>0, MovedFields
  <2> QED BY <2>1, <2>2, <2>3, <2>4, <2>7, <1>0
<1>6. ~Wanted(i, reader)
  <2>1. PICK j \in DOMAIN file : StartOf(file[i].record) = At(j) /\ At(j) <= At(i)
    BY StartIsFirst
  <2>2. At(j) \in Nat /\ At(i) \in Nat
    BY <1>0, InFile
  <2> QED BY <2>1, <2>2, <1>1 DEF Wanted
<1>7. ~(crashes = 0 /\ reader.initial = 0)
  BY <1>1
<1> QED BY <1>2, <1>5, <1>6, <1>7, SkipFragment

\* A fragment with which nothing begins, when no record is in scratch, goes on
\* with a record that is none to be returned.
LEMMA Rest ==
    ASSUME FileInv, Reading(reader), Buffered >= HeaderSize,
           NEW i \in DOMAIN file, At(i) = reader.pos, Fits(i), ~Torn(i),
           ~Begins(i), ~reader.fragmented
    PROVE  ~Wanted(i, reader) /\ ~(crashes = 0 /\ reader.initial = 0)
<1>0. FileType /\ Tiled /\ Joined /\ ReaderType(reader)
  BY DEF FileInv, Reading
<1>1. PICK h \in DOMAIN file : h = i - 1 /\ h < i /\ ~Ends(h) /\ file[h].record = file[i].record
  <2>1. i > 1 /\ ~Ends(i - 1) /\ file[i - 1].record = file[i].record
    BY <1>0 DEF Joined
  <2>2. i \in Nat /\ i \in 1 .. Len(file) /\ DOMAIN file = 1 .. Len(file) /\ Len(file) \in Nat
    BY <1>0, InFile DEF FileType
  <2>3. i - 1 \in DOMAIN file /\ i - 1 < i
    BY <2>1, <2>2
  <2> QED BY <2>1, <2>3
<1>2. At(h) < At(i) /\ At(h) \in Nat /\ At(i) \in Nat /\ h \in Nat /\ i \in Nat
  BY <1>0, <1>1, Order, InFile
<1>3. ASSUME Wanted(i, reader) PROVE FALSE
  <2>1. Wanted(h, reader)
    BY <1>1, <1>3 DEF Wanted
  <2>2. Taken(h, reader)
    BY <2>1, <1>2 DEF Reading, Progress
  <2>3. PICK k \in DOMAIN reader.out : \E x \in DOMAIN reader.out[k] : reader.out[k][x] = h
    BY <2>2 DEF Taken
  <2>4. PICK o \in Seq(Nat) : o = reader.out[k] /\ Piece(o, reader) /\ Ends(Last(o))
    <3>1. reader.out \in Seq(Seq(Nat))
      BY <1>0, ReaderFields
    <3>2. reader.out[k] \in Seq(Nat)
      BY <3>1
    <3>3. Piece(reader.out[k], reader) /\ Ends(Last(reader.out[k]))
      BY DEF Reading, Output
    <3> QED BY <3>2, <3>3
  <2>5. file[i].record = file[o[1]].record
    <3>1. PICK x \in DOMAIN o : o[x] = h
      BY <2>3, <2>4
    <3> QED BY <3>1, <2>4, <1>1 DEF Piece
  <2>6. PICK y \in DOMAIN o : o[y] = i
    BY <2>4, <2>5, <1>0, WholePiece
  <2>7. At(i) < reader.pos
    BY <2>4, <2>6, <1>0, LastOfPiece
  <2> QED BY <2>7, <1>2
<1>4. ASSUME crashes = 0, reader.initial = 0 PROVE FALSE
  <2>1. h + 1 \in DOMAIN file /\ At(h + 1) < reader.pos
    BY <1>1, <1>2, <1>4 DEF Reading, Faultless
  <2> QED BY <2>1, <1>1, <1>2
<1> QED BY <1>3, <1>4

\* ReadRecord skips it, be it resynchronizing or not.
LEMMA ReadRest ==
    ASSUME FileInv, Reading(reader), Buffered >= HeaderSize,
           NEW i \in DOMAIN file, At(i) = reader.pos, Fits(i), ~Torn(i),
           ~Begins(i), ~reader.fragmented,
           NEW resyncing \in BOOLEAN, resyncing => reader.resyncing,
           NEW reported \in BOOLEAN,
           NEW next,
           next = Moved(reader, EndOf(i), resyncing, reader.scratch, reader.fragmented,
                        reader.out, reported)
    PROVE  Reading(next)
<1>1. PICK p \in Nat : p = EndOf(i) /\ p <= reader.end
  BY Passing
<1>2. ReaderType(reader) /\ reader.state = "reading"
  BY DEF Reading
<1>3. PICK s \in Seq(Nat) : s = reader.scratch /\ s = <<>>
  <2>1. reader.scratch = <<>>
    BY DEF Reading, Scratch
  <2> QED BY <2>1, <1>2, ReaderFields
<1>4. PICK o \in Seq(Seq(Nat)) : o = reader.out
  BY <1>2, ReaderFields
<1>5. PICK no \in BOOLEAN : no = reader.fragmented
  BY <1>2, ReaderFields
<1>6. next = Moved(reader, p, resyncing, s, no, o, reported)
  BY <1>1, <1>3, <1>4, <1>5
<1>7. /\ ReaderType(next) /\ next.state = reader.state /\ next.initial = reader.initial
      /\ next.pos = p /\ next.end = reader.end /\ next.eof = reader.eof
      /\ next.due = reader.due /\ next.resyncing = resyncing /\ next.scratch = s
      /\ next.fragmented = no /\ next.out = o
  BY <1>1, <1>2, <1>6, MovedFields
<1> QED BY <1>1, <1>2, <1>3, <1>4, <1>5, <1>7, Rest, SkipFragment

\* The reader has moved on with a piece in scratch; and has returned one.
Keeps(next, i, piece, reported) ==
    next = Moved(reader, EndOf(i), FALSE, piece, TRUE, reader.out, reported)

Returns(next, i, out, reported) ==
    next = Moved(reader, EndOf(i), FALSE, <<>>, FALSE, out, reported)

LEMMA KeepsPiece ==
    ASSUME FileInv, Reading(reader), Buffered >= HeaderSize,
           NEW i \in DOMAIN file, At(i) = reader.pos, Fits(i), ~Torn(i),
           At(i) >= reader.initial, Begins(i) \/ reader.fragmented, ~Ends(i),
           NEW piece \in Seq(Nat), Grown(piece, i),
           NEW reported \in BOOLEAN,
           crashes = 0 /\ reader.initial = 0 => ~reported,
           NEW next, Keeps(next, i, piece, reported)
    PROVE  Reading(next)
<1>1. PICK p \in Nat : p = EndOf(i) /\ p <= reader.end
  BY Passing
<1>2. ReaderType(reader) /\ reader.state = "reading"
  BY DEF Reading
<1>4. PICK o \in Seq(Seq(Nat)) : o = reader.out
  BY <1>2, ReaderFields
<1>5. PICK no \in BOOLEAN : no = FALSE
  OBVIOUS
<1>6. PICK yes \in BOOLEAN : yes = TRUE
  OBVIOUS
<1>7. next = Moved(reader, p, no, piece, yes, o, reported)
  BY <1>1, <1>4, <1>5, <1>6 DEF Keeps
<1>8. /\ ReaderType(next) /\ next.state = reader.state /\ next.initial = reader.initial
      /\ next.pos = p /\ next.end = reader.end /\ next.eof = reader.eof
      /\ next.due = reader.due /\ next.resyncing = no /\ next.scratch = piece
      /\ next.fragmented = yes /\ next.out = o /\ next.reported = reported
  BY <1>1, <1>2, <1>7, MovedFields
<1>9. Grown(next.scratch, i)
  BY <1>8
<1> QED BY <1>1, <1>2, <1>4, <1>5, <1>6, <1>8, <1>9, KeepPiece

LEMMA ReturnsPiece ==
    ASSUME FileInv, Reading(reader), Buffered >= HeaderSize,
           NEW i \in DOMAIN file, At(i) = reader.pos, Fits(i), ~Torn(i),
           At(i) >= reader.initial, Begins(i) \/ reader.fragmented, Ends(i),
           NEW piece \in Seq(Nat), Grown(piece, i),
           NEW reported \in BOOLEAN,
           crashes = 0 /\ reader.initial = 0 => ~reported,
           NEW out \in Seq(Seq(Nat)), Longer(out, reader.out, piece),
           NEW next, Returns(next, i, out, reported)
    PROVE  Reading(next)
<1>1. PICK p \in Nat : p = EndOf(i) /\ p <= reader.end
  BY Passing
<1>2. ReaderType(reader) /\ reader.state = "reading"
  BY DEF Reading
<1>3. PICK s \in Seq(Nat) : s = <<>>
  <2>1. <<>> \in Seq(Nat)
    OBVIOUS
  <2> QED BY <2>1
<1>5. PICK no \in BOOLEAN : no = FALSE
  OBVIOUS
<1>7. next = Moved(reader, p, no, s, no, out, reported)
  BY <1>1, <1>3, <1>5 DEF Returns
<1>8. /\ ReaderType(next) /\ next.state = reader.state /\ next.initial = reader.initial
      /\ next.pos = p /\ next.end = reader.end /\ next.eof = reader.eof
      /\ next.due = reader.due /\ next.resyncing = no /\ next.scratch = s
      /\ next.fragmented = no /\ next.out = out /\ next.reported = reported
  BY <1>1, <1>2, <1>7, MovedFields
<1>9. Longer(next.out, reader.out, piece)
  BY <1>8
<1> QED BY <1>1, <1>2, <1>3, <1>5, <1>8, <1>9, ReturnPiece
\* What ReadRecord makes of a fragment, as a move of the reader.
On(r, p) == [r EXCEPT !.pos = p]

LEMMA ResyncMiddle ==
    ASSUME NEW r \in Readers, NEW p \in Nat, NEW i, r.resyncing, file[i].type = "middle"
    PROVE  Resynchronize(On(r, p), i)
             = Moved(r, p, r.resyncing, r.scratch, r.fragmented, r.out, r.reported)
<1>1. On(r, p).resyncing
  BY DEF On, Readers
<1>2. Resynchronize(On(r, p), i) = On(r, p)
  BY <1>1 DEF Resynchronize
<1> QED BY <1>2 DEF On, Moved, Readers

LEMMA ResyncLast ==
    ASSUME NEW r \in Readers, NEW p \in Nat, NEW i, r.resyncing, file[i].type = "last"
    PROVE  Resynchronize(On(r, p), i)
             = Moved(r, p, FALSE, r.scratch, r.fragmented, r.out, r.reported)
<1>1. On(r, p).resyncing
  BY DEF On, Readers
<1>2. Resynchronize(On(r, p), i) = [On(r, p) EXCEPT !.resyncing = FALSE]
  BY <1>1 DEF Resynchronize
<1> QED BY <1>2 DEF On, Moved, Readers

Synced(r, p) == Moved(r, p, FALSE, r.scratch, r.fragmented, r.out, r.reported)

LEMMA SyncedFields ==
    ASSUME NEW r \in Readers, NEW p \in Nat
    PROVE  /\ Synced(r, p) \in Readers
           /\ Synced(r, p).scratch = r.scratch /\ Synced(r, p).fragmented = r.fragmented
           /\ Synced(r, p).out = r.out /\ Synced(r, p).reported = r.reported
BY DEF Synced, Moved, Readers

LEMMA InSync ==
    ASSUME NEW r \in Readers, NEW p \in Nat, NEW i,
           ~(r.resyncing /\ file[i].type = "middle"), ~(r.resyncing /\ file[i].type = "last")
    PROVE  Resynchronize(On(r, p), i) = Fragment(Synced(r, p), i)
<1>1. On(r, p).resyncing = r.resyncing
  BY DEF On, Readers
<1>2. Resynchronize(On(r, p), i) = Fragment([On(r, p) EXCEPT !.resyncing = FALSE], i)
  BY <1>1 DEF Resynchronize
<1>3. [On(r, p) EXCEPT !.resyncing = FALSE] = Synced(r, p)
  BY DEF On, Synced, Moved, Readers
<1> QED BY <1>2, <1>3

LEMMA FullIs ==
    ASSUME NEW r \in Readers, NEW p \in Nat, NEW i \in Nat, file[i].type = "full"
    PROVE  \E b \in BOOLEAN :
              /\ ~r.fragmented => b = r.reported
              /\ Fragment(Synced(r, p), i) = Moved(r, p, FALSE, <<>>, FALSE, Append(r.out, <<i>>), b)
<1>1. Fragment(Synced(r, p), i) = Returned(ReportPartial(Synced(r, p)), <<i>>)
  BY DEF Fragment
<1>2. PICK b \in BOOLEAN : /\ ReportPartial(Synced(r, p)) = [Synced(r, p) EXCEPT !.reported = b]
                           /\ ~r.fragmented => b = r.reported
  BY SyncedFields, ReportPartialIs
<1>3. Returned([Synced(r, p) EXCEPT !.reported = b], <<i>>)
        = Moved(r, p, FALSE, <<>>, FALSE, Append(r.out, <<i>>), b)
  BY DEF Returned, Synced, Moved, Readers
<1> QED BY <1>1, <1>2, <1>3

LEMMA FirstIs ==
    ASSUME NEW r \in Readers, NEW p \in Nat, NEW i \in Nat, file[i].type = "first"
    PROVE  \E b \in BOOLEAN :
              /\ ~r.fragmented => b = r.reported
              /\ Fragment(Synced(r, p), i) = Moved(r, p, FALSE, <<i>>, TRUE, r.out, b)
<1>1. Fragment(Synced(r, p), i)
        = [ReportPartial(Synced(r, p)) EXCEPT !.scratch = <<i>>, !.fragmented = TRUE]
  BY DEF Fragment
<1>2. PICK b \in BOOLEAN : /\ ReportPartial(Synced(r, p)) = [Synced(r, p) EXCEPT !.reported = b]
                           /\ ~r.fragmented => b = r.reported
  BY SyncedFields, ReportPartialIs
<1>3. [[Synced(r, p) EXCEPT !.reported = b] EXCEPT !.scratch = <<i>>, !.fragmented = TRUE]
        = Moved(r, p, FALSE, <<i>>, TRUE, r.out, b)
  BY DEF Synced, Moved, Readers
<1> QED BY <1>1, <1>2, <1>3

LEMMA MiddleIs ==
    ASSUME NEW r \in Readers, NEW p \in Nat, NEW i \in Nat, file[i].type = "middle", r.fragmented
    PROVE  Fragment(Synced(r, p), i) = Moved(r, p, FALSE, Append(r.scratch, i), TRUE, r.out, r.reported)
<1>1. Synced(r, p).fragmented
  BY SyncedFields
<1>2. Fragment(Synced(r, p), i) = [Synced(r, p) EXCEPT !.scratch = Append(@, i)]
  BY <1>1 DEF Fragment
<1>3. r.fragmented = TRUE
  BY DEF Readers
<1> QED BY <1>2, <1>3 DEF Synced, Moved, Readers

LEMMA LastIs ==
    ASSUME NEW r \in Readers, NEW p \in Nat, NEW i \in Nat, file[i].type = "last", r.fragmented
    PROVE  Fragment(Synced(r, p), i)
             = Moved(r, p, FALSE, <<>>, FALSE, Append(r.out, Append(r.scratch, i)), r.reported)
<1>1. Synced(r, p).fragmented /\ Synced(r, p).scratch = r.scratch
  BY SyncedFields
<1>2. Fragment(Synced(r, p), i) = Returned(Synced(r, p), Append(r.scratch, i))
  BY <1>1 DEF Fragment
<1> QED BY <1>2 DEF Returned, Synced, Moved, Readers

LEMMA OtherIs ==
    ASSUME NEW r \in Readers, NEW p \in Nat, NEW i \in Nat,
           file[i].type \in {"middle", "last"}, ~r.fragmented
    PROVE  \E b \in BOOLEAN :
              Fragment(Synced(r, p), i) = Moved(r, p, FALSE, r.scratch, r.fragmented, r.out, b)
<1>1. ~Synced(r, p).fragmented
  BY SyncedFields
<1>2. Fragment(Synced(r, p), i) = Report(Synced(r, p), file[i].length)
  BY <1>1 DEF Fragment
<1>3. PICK b \in BOOLEAN : Fragment(Synced(r, p), i) = [Synced(r, p) EXCEPT !.reported = b]
  BY <1>2, ReportIs
<1>4. [Synced(r, p) EXCEPT !.reported = b] = Moved(r, p, FALSE, r.scratch, r.fragmented, r.out, b)
  BY DEF Synced, Moved, Readers
<1> QED BY <1>3, <1>4

LEMMA AppendType ==
    ASSUME NEW s \in Seq(Nat), NEW e \in Nat
    PROVE  Append(s, e) \in Seq(Nat) /\ <<e>> \in Seq(Nat)
OBVIOUS

LEMMA AppendPiece ==
    ASSUME NEW s \in Seq(Seq(Nat)), NEW e \in Seq(Nat)
    PROVE  Append(s, e) \in Seq(Seq(Nat))
<1> DEFINE S == Seq(Nat)
<1>1. s \in Seq(S) /\ e \in S
  OBVIOUS
<1> HIDE DEF S
<1>2. Append(s, e) \in Seq(S)
  BY <1>1
<1> QED BY <1>2 DEF S

\* A fragment at or behind the initial offset.
LEMMA ReadBehind ==
    ASSUME FileInv, Reading(reader), Buffered >= HeaderSize,
           NEW i \in DOMAIN file, At(i) = reader.pos, Fits(i), ~Torn(i),
           At(i) >= reader.initial,
           NEW next, next = Resynchronize(On(reader, EndOf(i)), i)
    PROVE  Reading(next)
<1>0. /\ FileType /\ ReaderType(reader) /\ reader \in Readers
      /\ EndOf(i) \in Nat /\ i \in Nat /\ file[i].type \in Types
  BY Passing, InFile DEF FileInv, Reading, ReaderType
<1>1. /\ reader.reported \in BOOLEAN /\ reader.resyncing \in BOOLEAN
      /\ reader.out \in Seq(Seq(Nat)) /\ reader.scratch \in Seq(Nat)
      /\ FALSE \in BOOLEAN
  BY <1>0, ReaderFields
<1>2. crashes = 0 /\ reader.initial = 0 => ~reader.reported
  BY DEF Reading, Faultless
<1>3. reader.resyncing => ~reader.fragmented
  BY DEF Reading, Buffer
<1>4. /\ file[i].type = "full"   <=> Begins(i) /\ Ends(i)
      /\ file[i].type = "first"  <=> Begins(i) /\ ~Ends(i)
      /\ file[i].type = "last"   <=> ~Begins(i) /\ Ends(i)
      /\ file[i].type = "middle" <=> ~Begins(i) /\ ~Ends(i)
  BY FragmentedWhole
<1>5. CASE reader.resyncing /\ file[i].type = "middle"
  <2>1. next = Moved(reader, EndOf(i), reader.resyncing, reader.scratch, reader.fragmented,
                     reader.out, reader.reported)
    BY <1>0, <1>5, ResyncMiddle
  <2> QED BY <2>1, <1>1, <1>3, <1>4, <1>5, ReadRest
<1>6. CASE reader.resyncing /\ file[i].type = "last"
  <2>1. PICK no \in BOOLEAN : no = FALSE /\ (no => reader.resyncing)
    OBVIOUS
  <2>2. next = Moved(reader, EndOf(i), no, reader.scratch, reader.fragmented,
                     reader.out, reader.reported)
    BY <1>0, <1>6, <2>1, ResyncLast
  <2>3. no => reader.resyncing
    BY <2>1
  <2> QED BY <2>2, <2>3, <1>1, <1>3, <1>4, <1>6, ReadRest
<1>7. CASE ~(reader.resyncing /\ file[i].type = "middle") /\ ~(reader.resyncing /\ file[i].type = "last")
  <2>0. next = Fragment(Synced(reader, EndOf(i)), i)
    BY <1>0, <1>7, InSync
  <2>1. CASE file[i].type = "full"
    <3>1. PICK b \in BOOLEAN :
             /\ ~reader.fragmented => b = reader.reported
             /\ Fragment(Synced(reader, EndOf(i)), i)
                  = Moved(reader, EndOf(i), FALSE, <<>>, FALSE, Append(reader.out, <<i>>), b)
      BY <1>0, <2>1, FullIs
    <3>2. crashes = 0 /\ reader.initial = 0 => ~b
      BY <3>1, <1>2, <1>4, <2>1, ScratchUnwanted
    <3>3. PICK piece \in Seq(Nat) : piece = <<i>>
      BY <1>0, <1>1, AppendType
    <3>4. PICK o \in Seq(Seq(Nat)) : o = Append(reader.out, piece)
      BY <1>1, AppendPiece
    <3>5. Grown(piece, i) /\ Longer(o, reader.out, piece)
      BY <3>3, <3>4, <1>4, <2>1 DEF Grown, Longer
    <3>6. Returns(next, i, o, b)
      BY <2>0, <3>1, <3>3, <3>4 DEF Returns
    <3> QED BY <3>2, <3>5, <3>6, <1>4, <2>1, ReturnsPiece
  <2>2. CASE file[i].type = "first"
    <3>1. PICK b \in BOOLEAN :
             /\ ~reader.fragmented => b = reader.reported
             /\ Fragment(Synced(reader, EndOf(i)), i)
                  = Moved(reader, EndOf(i), FALSE, <<i>>, TRUE, reader.out, b)
      BY <1>0, <2>2, FirstIs
    <3>2. crashes = 0 /\ reader.initial = 0 => ~b
      BY <3>1, <1>2, <1>4, <2>2, ScratchUnwanted
    <3>3. PICK piece \in Seq(Nat) : piece = <<i>>
      BY <1>0, <1>1, AppendType
    <3>5. Grown(piece, i)
      BY <3>3, <1>4, <2>2 DEF Grown
    <3>6. Keeps(next, i, piece, b)
      BY <2>0, <3>1, <3>3 DEF Keeps
    <3> QED BY <3>2, <3>5, <3>6, <1>4, <2>2, KeepsPiece
  <2>3. CASE file[i].type = "middle" /\ reader.fragmented
    <3>1. next = Moved(reader, EndOf(i), FALSE, Append(reader.scratch, i), TRUE,
                       reader.out, reader.reported)
      BY <1>0, <2>0, <2>3, MiddleIs
    <3>3. PICK piece \in Seq(Nat) : piece = Append(reader.scratch, i)
      BY <1>0, <1>1, AppendType
    <3>5. Grown(piece, i)
      BY <3>3, <1>4, <2>3 DEF Grown, Longer
    <3>6. Keeps(next, i, piece, reader.reported)
      BY <3>1, <3>3 DEF Keeps
    <3> QED BY <3>5, <3>6, <1>1, <1>2, <1>4, <2>3, KeepsPiece
  <2>4. CASE file[i].type = "last" /\ reader.fragmented
    <3>1. next = Moved(reader, EndOf(i), FALSE, <<>>, FALSE,
                       Append(reader.out, Append(reader.scratch, i)), reader.reported)
      BY <1>0, <2>0, <2>4, LastIs
    <3>3. PICK piece \in Seq(Nat) : piece = Append(reader.scratch, i)
      BY <1>0, <1>1, AppendType
    <3>4. PICK o \in Seq(Seq(Nat)) : o = Append(reader.out, piece)
      BY <1>1, AppendPiece
    <3>5. Grown(piece, i) /\ Longer(o, reader.out, piece)
      BY <3>3, <3>4, <1>4, <2>4 DEF Grown, Longer
    <3>6. Returns(next, i, o, reader.reported)
      BY <3>1, <3>3, <3>4 DEF Returns
    <3> QED BY <3>5, <3>6, <1>1, <1>2, <1>4, <2>4, ReturnsPiece
  <2>5. CASE file[i].type \in {"middle", "last"} /\ ~reader.fragmented
    <3>1. PICK b \in BOOLEAN :
             Fragment(Synced(reader, EndOf(i)), i)
               = Moved(reader, EndOf(i), FALSE, reader.scratch, reader.fragmented, reader.out, b)
      BY <1>0, <2>5, OtherIs
    <3>2. PICK no \in BOOLEAN : no = FALSE /\ (no => reader.resyncing)
      OBVIOUS
    <3>3. next = Moved(reader, EndOf(i), no, reader.scratch, reader.fragmented, reader.out, b)
      BY <2>0, <3>1, <3>2
    <3>4. no => reader.resyncing
      BY <3>2
    <3> QED BY <3>3, <3>4, <1>4, <2>5, ReadRest
  <2> QED BY <2>1, <2>2, <2>3, <2>4, <2>5, <1>0 DEF Types
<1> QED BY <1>5, <1>6, <1>7

\* ReadFragment.
LEMMA ReadFragmentReads ==
    ASSUME FileInv, Reading(reader), ReadFragment
    PROVE  \E next : reader' = next /\ Reading(next)
<1>1. PICK i \in Header :
        /\ Buffered >= HeaderSize
        /\ Fits(i)
        /\ file[i].have = FragmentSize(file[i])
        /\ LET rd == [reader EXCEPT !.pos = @ + FragmentSize(file[i])]
           IN  Reads(IF file[i].at < rd.initial THEN BadRecord(rd) ELSE Resynchronize(rd, i))
  BY DEF ReadFragment
<1>2. i \in DOMAIN file /\ At(i) = reader.pos
  BY DEF Header, At
<1>3. /\ ~Torn(i) /\ At(i) \in Nat /\ reader.initial \in Nat /\ EndOf(i) \in Nat
      /\ reader \in Readers
  BY <1>1, <1>2, InFile, ReaderFields DEF Torn, FileInv, Reading, ReaderType
<1>4. [reader EXCEPT !.pos = @ + FragmentSize(file[i])] = On(reader, EndOf(i))
  BY <1>2 DEF On, EndOf, At
<1>5. On(reader, EndOf(i)).initial = reader.initial
  BY <1>3 DEF On, Readers
<1>6. PICK next : next = reader'
  OBVIOUS
<1>7. next = IF At(i) < reader.initial THEN BadRecord(On(reader, EndOf(i)))
             ELSE Resynchronize(On(reader, EndOf(i)), i)
  BY <1>1, <1>4, <1>5, <1>6 DEF Reads, At
<1>8. CASE At(i) < reader.initial
  <2>1. next = BadRecord([reader EXCEPT !.pos = EndOf(i)])
    BY <1>7, <1>8 DEF On
  <2>2. Reading(next)
    BY <2>1, <1>1, <1>2, <1>3, <1>8, ReadBefore
  <2> QED BY <2>2, <1>6
<1>9. CASE ~(At(i) < reader.initial)
  <2>1. next = Resynchronize(On(reader, EndOf(i)), i) /\ At(i) >= reader.initial
    BY <1>3, <1>7, <1>9
  <2>2. Reading(next)
    BY <2>1, <1>1, <1>2, <1>3, ReadBehind
  <2> QED BY <2>2, <1>6
<1> QED BY <1>8, <1>9

-----------------------------------------------------------------------------
(* The reader's other steps. *)

\* Refill.
LEMMA BlockReadIs ==
    ASSUME FileInv, Reading(reader)
    PROVE  /\ BlockRead \in Nat /\ BlockRead <= BlockSize
           /\ reader.end <= size => reader.end + BlockRead <= size
           /\ reader.end > size => BlockRead = 0
           /\ BlockRead < BlockSize => size <= reader.end + BlockRead
<1>1. reader.end \in Nat /\ size \in Nat /\ BlockSize \in Nat
  BY ReaderAt, Sizes DEF FileInv, FileType
<1>2. PICK e \in Nat : e = reader.end
  BY <1>1
<1> QED BY <1>1, <1>2 DEF BlockRead

LEMMA RefillReads ==
    ASSUME FileInv, Reading(reader), Refill
    PROVE  \E next : reader' = next /\ Reading(next)
<1>0. FileType /\ Tiled /\ ReaderType(reader) /\ Output(reader) /\ reader \in Readers
  BY DEF FileInv, Reading, ReaderType
<1>1. Buffered < HeaderSize /\ ~reader.eof
  BY DEF Refill
<1>2. PICK next : next = reader'
  OBVIOUS
<1>3. next = [reader EXCEPT !.pos = reader.end, !.end = reader.end + BlockRead,
                            !.eof = BlockRead < BlockSize]
  BY <1>2 DEF Refill, Reads
<1>4. /\ BlockRead \in Nat /\ BlockRead <= BlockSize
      /\ reader.end <= size => reader.end + BlockRead <= size
      /\ reader.end > size => BlockRead = 0
      /\ BlockRead < BlockSize => size <= reader.end + BlockRead
      /\ reader.end \in Nat /\ reader.pos \in Nat /\ reader.pos <= reader.end
      /\ size \in Nat /\ BlockSize \in Nat
  BY <1>0, BlockReadIs, ReaderAt, Sizes DEF FileType
<1>5. /\ next \in Readers /\ next.state = reader.state /\ next.initial = reader.initial
      /\ next.pos = reader.end /\ next.end = reader.end + BlockRead
      /\ (next.eof <=> BlockRead < BlockSize) /\ next.due = reader.due
      /\ next.resyncing = reader.resyncing /\ next.scratch = reader.scratch
      /\ next.fragmented = reader.fragmented /\ next.out = reader.out
      /\ next.reported = reader.reported
  <2>1. PICK e \in Nat : e = reader.end + BlockRead
    BY <1>4
  <2>2. PICK b \in BOOLEAN : b <=> BlockRead < BlockSize
    <3>1. CASE BlockRead < BlockSize
      BY <3>1
    <3>2. CASE ~(BlockRead < BlockSize)
      BY <3>2
    <3> QED BY <3>1, <3>2
  <2>3. PICK p \in Nat : p = reader.end
    BY <1>4
  <2>4. next = [reader EXCEPT !.pos = p, !.end = e, !.eof = b]
    <3>1. b = (BlockRead < BlockSize)
      BY <2>2
    <3> QED BY <1>3, <2>1, <2>3, <3>1, Zenon
  <2>5. /\ next \in Readers /\ next.state = reader.state /\ next.initial = reader.initial
        /\ next.pos = p /\ next.end = e /\ next.eof = b /\ next.due = reader.due
        /\ next.resyncing = reader.resyncing /\ next.scratch = reader.scratch
        /\ next.fragmented = reader.fragmented /\ next.out = reader.out
        /\ next.reported = reader.reported
    BY <2>4, <1>0 DEF Readers
  <2> QED BY <2>1, <2>2, <2>3, <2>5
<1>6. ReaderType(next) /\ next.state = "reading"
  BY <1>0, <1>4, <1>5 DEF ReaderType, Reading
<1>7. Output(next)
  BY <1>0, <1>4, <1>5, OutputStays
<1>8. ASSUME NEW i \in DOMAIN file
      PROVE  reader.pos <= At(i) => reader.end <= At(i)
  BY <1>1, NoneInRest
<1>9. Scratch(next)
  <2>1. CASE reader.fragmented
    <3>1. /\ Piece(reader.scratch, reader) /\ ~Ends(Last(reader.scratch))
          /\ \A k \in DOMAIN reader.out : Last(reader.out[k]) < reader.scratch[1]
          /\ \A i \in DOMAIN file : Last(reader.scratch) < i => reader.pos <= At(i)
      BY <2>1 DEF Reading, Scratch
    <3>2. Piece(reader.scratch, next)
      BY <3>1, <1>0, <1>4, <1>5, PieceStays
    <3> QED BY <2>1, <3>1, <3>2, <1>5, <1>8 DEF Scratch
  <2>2. CASE ~reader.fragmented
    BY <2>2, <1>5 DEF Reading, Scratch
  <2> QED BY <2>1, <2>2
<1>10. Buffer(next)
  <2>1. Boundary(reader.end)
    BY <1>1 DEF Reading, Buffer
  <2>2. ~next.eof => Boundary(next.end)
    <3>1. ~next.eof => BlockRead = BlockSize
      BY <1>4, <1>5
    <3> QED BY <3>1, <2>1, <1>5, BoundaryNext
  <2>3. next.end <= size \/ (next.pos = next.end /\ next.out = <<>> /\ ~next.fragmented)
    <3>1. reader.end <= size \/ (reader.out = <<>> /\ ~reader.fragmented)
      BY DEF Reading, Buffer
    <3>2. CASE reader.end <= size
      BY <3>2, <1>4, <1>5
    <3>3. CASE reader.end > size
      <4>1. BlockRead = 0 /\ reader.end + BlockRead = reader.end
        BY <3>3, <1>4
      <4> QED BY <3>1, <3>3, <4>1, <1>4, <1>5
    <3> QED BY <3>2, <3>3, <1>4
  <2>4. BlockStart(reader.end) = reader.end
    BY <2>1, <1>4, Sizes, StartOfBlockIs
  <2>5. next.end <= reader.end + BlockSize
    BY <1>4, <1>5
  <2>6. ASSUME NEW t \in DOMAIN file, BlockOf(t) = reader.end PROVE reader.end <= At(t)
    <3>1. At(t) \in Nat
      BY <1>0, InFile
    <3>2. BlockStart(At(t)) <= At(t)
      BY <3>1, StartOfBlock
    <3> QED BY <2>6, <3>2 DEF BlockOf, At
  <2>7. next.resyncing => next.out = <<>> /\ ~next.fragmented
    BY <1>5 DEF Reading, Buffer
  <2> QED BY <2>2, <2>3, <2>4, <2>5, <2>6, <2>7, <1>5 DEF Buffer
<1>11. Progress(next)
  <2>1. ASSUME NEW i \in DOMAIN file, Wanted(i, next), At(i) < next.pos PROVE Taken(i, next)
    <3>1. At(i) \in Nat
      BY <1>0, InFile
    <3>2. At(i) < reader.pos
      BY <2>1, <3>1, <1>4, <1>5, <1>8
    <3>3. Wanted(i, reader)
      BY <2>1, <1>5 DEF Wanted
    <3>4. Taken(i, reader)
      BY <3>2, <3>3 DEF Reading, Progress
    <3> QED BY <3>4, <1>5 DEF Taken
  <2>2. ASSUME next.eof, NEW i \in DOMAIN file, file[i].record \in next.due
        PROVE  EndOf(i) <= next.end
    <3>1. file[i].record \in complete
      BY <2>2, <1>0, <1>5 DEF ReaderType
    <3>2. EndOf(i) <= size /\ EndOf(i) \in Nat
      BY <3>1, <1>0, OfComplete, InFile
    <3>3. size <= next.end
      BY <2>2, <1>4, <1>5
    <3> QED BY <3>2, <3>3, <1>4, <1>5
  <2> QED BY <2>1, <2>2 DEF Progress
<1>12. Faultless(next)
  <2> SUFFICES ASSUME crashes = 0, reader.initial = 0
               PROVE  /\ ~next.reported
                      /\ ~next.resyncing
                      /\ next.end <= size
                      /\ ~next.fragmented => \A i \in DOMAIN file :
                            At(i) < next.pos /\ ~Ends(i) => i + 1 \in DOMAIN file /\ At(i + 1) < next.pos
    BY <1>5 DEF Faultless
  <2>1. /\ ~reader.reported
        /\ ~reader.resyncing
        /\ reader.end <= size
        /\ ~reader.fragmented => \A i \in DOMAIN file :
              At(i) < reader.pos /\ ~Ends(i) => i + 1 \in DOMAIN file /\ At(i + 1) < reader.pos
    BY DEF Reading, Faultless
  <2>2. next.end <= size
    BY <2>1, <1>4, <1>5
  <2>3. ASSUME ~reader.fragmented, NEW i \in DOMAIN file, At(i) < next.pos, ~Ends(i)
        PROVE  i + 1 \in DOMAIN file /\ At(i + 1) < next.pos
    <3>1. At(i) \in Nat
      BY <1>0, InFile
    <3>2. At(i) < reader.pos
      BY <2>3, <3>1, <1>4, <1>5, <1>8
    <3>3. i + 1 \in DOMAIN file /\ At(i + 1) < reader.pos
      BY <2>1, <2>3, <3>2
    <3>4. At(i + 1) \in Nat
      BY <3>3, <1>0, InFile
    <3> QED BY <3>3, <3>4, <1>4, <1>5
  <2> QED BY <2>1, <2>2, <2>3, <1>5
<1> QED BY <1>2, <1>6, <1>7, <1>9, <1>10, <1>11, <1>12 DEF Reading

\* DropBuffer.  A fragment at the reader's position is torn.
LEMMA OnlyTorn ==
    ASSUME FileInv, Reading(reader), DropBuffer,
           NEW m \in DOMAIN file, At(m) = reader.pos
    PROVE  Torn(m)
<1>0. Buffered >= HeaderSize /\ FileType
  BY DEF DropBuffer, FileInv
<1>1. reader.pos < reader.end
  BY <1>0, ReaderAt, Sizes
<1>2. SUFFICES ASSUME ~Torn(m) PROVE FALSE
  OBVIOUS
<1>3. m \in Header
  <2>1. file[m].have = FragmentSize(file[m])
    BY <1>0, <1>2, InFile DEF Torn
  <2>2. file[m].have >= HeaderSize
    BY <2>1, <1>0, InFile, Sizes
  <2> QED BY <2>2 DEF Header, At
<1>4. IF Fits(m) THEN file[m].have < FragmentSize(file[m]) ELSE ~reader.eof
  BY <1>3 DEF DropBuffer
<1>5. Fits(m)
  BY <1>1, <1>4, FitsInBlock
<1> QED BY <1>2, <1>4, <1>5 DEF Torn

\* It happens only to a reader that starts behind the beginning or after a crash.
LEMMA DropsAfterCrash ==
    ASSUME FileInv, Reading(reader), DropBuffer
    PROVE  ~(crashes = 0 /\ reader.initial = 0)
<1>0. SUFFICES ASSUME crashes = 0, reader.initial = 0 PROVE FALSE
  OBVIOUS
<1>1. /\ FileType /\ Tiled /\ Placed
      /\ Buffered >= HeaderSize /\ reader.end <= size
      /\ \A i \in DOMAIN file : Torn(i) => record.writing /\ i = Len(file)
      /\ IF file = <<>> THEN size = 0 ELSE size <= EndOf(Len(file))
  BY <1>0 DEF FileInv, Reading, Faultless, DropBuffer, Uninterrupted
<1>2. /\ reader.pos \in Nat /\ reader.end \in Nat /\ size \in Nat /\ HeaderSize \in Nat
      /\ HeaderSize > 0 /\ reader.pos + HeaderSize <= reader.end
      /\ reader.pos + HeaderSize <= size /\ reader.pos < reader.end
  <2>1. /\ reader.pos \in Nat /\ reader.end \in Nat /\ Buffered = reader.end - reader.pos
        /\ size \in Nat /\ HeaderSize \in Nat /\ HeaderSize > 0
    BY <1>1, ReaderAt, Sizes DEF FileType
  <2> QED BY <2>1, <1>1
<1>3. file # <<>> /\ file \in Seq(Fragments)
  BY <1>1, <1>2 DEF FileType
<1>4. PICK n \in Nat : n = Len(file) /\ n \in DOMAIN file /\ size <= EndOf(n)
  <2>1. Len(file) \in Nat /\ Len(file) > 0 /\ DOMAIN file = 1 .. Len(file)
    BY <1>3, EmptySeq
  <2>2. size <= EndOf(Len(file))
    BY <1>1, <1>3
  <2>3. Len(file) \in DOMAIN file
    BY <2>1
  <2> QED BY <2>1, <2>2, <2>3
<1>5. /\ At(n) \in Nat /\ EndOf(n) \in Nat /\ EndOfPart(n) \in Nat
      /\ ~Torn(n) <=> EndOfPart(n) = EndOf(n)
      /\ EndOfPart(n) = At(n) + file[n].have
      /\ file[n].have \in Nat
  BY <1>1, <1>4, InFile DEF EndOfPart, At
<1>6. Torn(n) => IF file[n].have = 0 THEN size <= At(n) ELSE size = EndOfPart(n)
  BY <1>1, <1>4 DEF Placed, Within
<1>7. reader.pos <= At(n)
  <2> SUFFICES ASSUME At(n) < reader.pos PROVE FALSE
    BY <1>2, <1>5
  <2>1. EndOfPart(n) <= reader.pos
    BY <1>2, <1>4, NotOverPosition
  <2> QED BY <2>1, <1>2, <1>4, <1>5, <1>6
<1>8. PICK m \in DOMAIN file : At(m) = reader.pos
  BY <1>1, <1>4, <1>7, NextFragment
<1>9. Torn(m) /\ m = n
  BY <1>1, <1>4, <1>8, OnlyTorn
<1>10. CASE file[n].have = 0
  BY <1>10, <1>2, <1>6, <1>8, <1>9
<1>11. CASE file[n].have # 0
  <2>1. size = EndOfPart(n) /\ At(n) = reader.pos
    BY <1>11, <1>6, <1>8, <1>9
  <2>2. file[n].have >= HeaderSize
    BY <2>1, <1>2, <1>5
  <2>3. n \in Header
    BY <2>1, <2>2, <1>4 DEF Header, At
  <2>4. Fits(n)
    <3>1. IF Fits(n) THEN file[n].have < FragmentSize(file[n]) ELSE ~reader.eof
      BY <2>3 DEF DropBuffer
    <3> QED BY <3>1, <2>1, <1>2, <1>4, FitsInBlock
  <2>5. EndOf(n) <= reader.end
    <3>1. /\ FragmentSize(file[n]) <= Buffered /\ Buffered = reader.end - reader.pos
          /\ FragmentSize(file[n]) \in Nat
          /\ EndOf(n) = reader.pos + FragmentSize(file[n])
      BY <2>1, <2>4, <1>1, <1>4, ReaderAt, InFile DEF Fits, EndOf, At
    <3> QED BY <3>1, <1>2
  <2>6. size < EndOf(n)
    BY <2>1, <1>1, <1>4, <1>9, InFile
  <2> QED BY <2>5, <2>6, <1>1, <1>2, <1>5
<1> QED BY <1>10, <1>11

LEMMA BadRecordIs ==
    ASSUME NEW r, ReaderType(r), ~r.fragmented => r.scratch = <<>>, NEW b \in BOOLEAN
    PROVE  \E c \in BOOLEAN :
              BadRecord([[r EXCEPT !.pos = r.end] EXCEPT !.reported = b])
                = Moved(r, r.end, FALSE, <<>>, FALSE, r.out, c)
<1>0. r \in Readers
  BY DEF ReaderType
<1> DEFINE rd == [[r EXCEPT !.pos = r.end] EXCEPT !.reported = b]
           sync == [rd EXCEPT !.resyncing = FALSE]
<1>1. rd.fragmented = r.fragmented
  BY <1>0 DEF Readers
<1>2. CASE r.fragmented
  <2>1. BadRecord(rd) = [Report(sync, ScratchSize(rd)) EXCEPT !.fragmented = FALSE, !.scratch = <<>>]
    BY <1>1, <1>2 DEF BadRecord
  <2>2. PICK c \in BOOLEAN : Report(sync, ScratchSize(rd)) = [sync EXCEPT !.reported = c]
    BY ReportIs
  <2>3. [[sync EXCEPT !.reported = c] EXCEPT !.fragmented = FALSE, !.scratch = <<>>]
          = Moved(r, r.end, FALSE, <<>>, FALSE, r.out, c)
    BY <1>0 DEF Moved, Readers
  <2> HIDE DEF rd, sync
  <2>4. BadRecord(rd) = Moved(r, r.end, FALSE, <<>>, FALSE, r.out, c)
    BY <2>1, <2>2, <2>3
  <2> QED BY <2>4 DEF rd
<1>3. CASE ~r.fragmented
  <2>1. BadRecord(rd) = sync
    BY <1>1, <1>3 DEF BadRecord
  <2>2. r.fragmented = FALSE /\ r.scratch = <<>>
    BY <1>0, <1>3 DEF Readers
  <2>3. sync = Moved(r, r.end, FALSE, <<>>, FALSE, r.out, b)
    BY <1>0, <2>2 DEF Moved, Readers
  <2> HIDE DEF rd, sync
  <2>4. BadRecord(rd) = Moved(r, r.end, FALSE, <<>>, FALSE, r.out, b)
    BY <2>1, <2>3
  <2> QED BY <2>4 DEF rd
<1> QED BY <1>2, <1>3

\* What DropBuffer makes of the reader.
LEMMA Dropped ==
    ASSUME Reading(reader), DropBuffer, NEW next, next = reader'
    PROVE  /\ ReaderType(next) /\ next.state = "reading" /\ next.initial = reader.initial
           /\ next.pos = reader.end /\ next.end = reader.end /\ next.eof = reader.eof
           /\ next.due = reader.due /\ ~next.resyncing /\ next.scratch = <<>>
           /\ ~next.fragmented /\ next.out = reader.out
<1>0. ReaderType(reader) /\ reader \in Readers /\ reader.state = "reading"
  BY DEF Reading, ReaderType
<1>1. ~reader.fragmented => reader.scratch = <<>>
  BY DEF Reading, Scratch
<1> DEFINE rest == [reader EXCEPT !.pos = reader.end]
<1>2. \E b \in BOOLEAN : next = BadRecord([rest EXCEPT !.reported = b])
  <2>1. CASE next = BadRecord(Report(rest, Buffered))
    <3>1. PICK b \in BOOLEAN : Report(rest, Buffered) = [rest EXCEPT !.reported = b]
      BY ReportIs
    <3> QED BY <2>1, <3>1
  <2>2. CASE next = BadRecord(rest)
    <3>1. reader.reported \in BOOLEAN /\ rest = [rest EXCEPT !.reported = reader.reported]
      BY <1>0 DEF Readers
    <3> HIDE DEF rest
    <3> QED BY <2>2, <3>1
  <2> QED BY <2>1, <2>2 DEF DropBuffer, Reads
<1>3. PICK b \in BOOLEAN : next = BadRecord([rest EXCEPT !.reported = b])
  BY <1>2
<1>4. PICK c \in BOOLEAN : next = Moved(reader, reader.end, FALSE, <<>>, FALSE, reader.out, c)
  BY <1>0, <1>1, <1>3, BadRecordIs
<1>5. PICK p \in Nat : p = reader.end /\ p <= reader.end
  BY ReaderAt
<1>6. PICK s \in Seq(Nat) : s = <<>>
  <2>1. <<>> \in Seq(Nat)
    OBVIOUS
  <2> QED BY <2>1
<1>7. PICK no \in BOOLEAN : no = FALSE
  OBVIOUS
<1>8. PICK o \in Seq(Seq(Nat)) : o = reader.out
  BY <1>0, ReaderFields
<1>9. next = Moved(reader, p, no, s, no, o, c)
  BY <1>4, <1>5, <1>6, <1>7, <1>8
<1> HIDE DEF rest
<1>10. /\ ReaderType(next) /\ next.state = reader.state /\ next.initial = reader.initial
       /\ next.pos = p /\ next.end = reader.end /\ next.eof = reader.eof
       /\ next.due = reader.due /\ next.resyncing = no /\ next.scratch = s
       /\ next.fragmented = no /\ next.out = o
  BY <1>0, <1>5, <1>9, MovedFields
<1> QED BY <1>0, <1>5, <1>6, <1>7, <1>8, <1>10

LEMMA DropBufferReads ==
    ASSUME FileInv, Reading(reader), DropBuffer
    PROVE  \E next : reader' = next /\ Reading(next)
<1>0. FileType /\ Tiled /\ ReaderType(reader) /\ Output(reader)
  BY DEF FileInv, Reading
<1>1. PICK next : next = reader'
  OBVIOUS
<1>2. /\ ReaderType(next) /\ next.state = "reading" /\ next.initial = reader.initial
      /\ next.pos = reader.end /\ next.end = reader.end /\ next.eof = reader.eof
      /\ next.due = reader.due /\ ~next.resyncing /\ next.scratch = <<>>
      /\ ~next.fragmented /\ next.out = reader.out
  BY <1>1, Dropped
<1>3. /\ reader.pos \in Nat /\ reader.end \in Nat /\ Buffered >= HeaderSize
      /\ reader.pos < reader.end
  BY ReaderAt, Sizes DEF DropBuffer
<1>4. Output(next)
  BY <1>0, <1>2, <1>3, OutputStays
<1>5. Scratch(next)
  BY <1>2 DEF Scratch
<1>6. Buffer(next)
  <2>1. ~reader.eof => Boundary(reader.end)
    BY DEF Reading, Buffer
  <2>2. reader.end <= size
    BY <1>3 DEF Reading, Buffer
  <2>3. ~(next.pos < next.end)
    BY <1>2, <1>3
  <2> QED BY <2>1, <2>2, <2>3, <1>2 DEF Buffer
<1>7. ASSUME NEW i \in DOMAIN file, reader.pos <= At(i), At(i) < reader.end
      PROVE  ~Wanted(i, reader)
  <2>1. PICK m \in DOMAIN file : At(m) = reader.pos
    BY <1>3, <1>7, NextFragment
  <2>2. Torn(m)
    BY <2>1, OnlyTorn
  <2> QED BY <2>1, <2>2, <1>3, <1>7, TornUnwanted
<1>8. Progress(next)
  <2>1. ASSUME NEW i \in DOMAIN file, Wanted(i, next), At(i) < next.pos PROVE Taken(i, next)
    <3>1. At(i) \in Nat /\ Wanted(i, reader)
      BY <2>1, <1>0, <1>2, InFile DEF Wanted
    <3>2. At(i) < reader.pos
      BY <2>1, <3>1, <1>2, <1>3, <1>7
    <3>3. Taken(i, reader)
      BY <3>1, <3>2 DEF Reading, Progress
    <3>4. ~(reader.fragmented /\ \E j \in DOMAIN reader.scratch : reader.scratch[j] = i)
      <4> SUFFICES ASSUME reader.fragmented, NEW j \in DOMAIN reader.scratch, reader.scratch[j] = i
                   PROVE  FALSE
        OBVIOUS
      <4>1. PICK s \in Seq(Nat) : s = reader.scratch /\ Piece(s, reader) /\ ~Ends(Last(s))
                /\ \A k \in DOMAIN file : Last(s) < k => reader.pos <= At(k)
        BY <1>0, ReaderFields DEF Reading, Scratch
      <4>2. PICK l \in DOMAIN file : l = Last(s) /\ l \in Nat /\ At(l) < reader.pos
                /\ file[l].record = file[i].record
        <5>1. file[i].record = file[s[1]].record
          BY <4>1 DEF Piece
        <5> QED BY <4>1, <5>1, <1>0, LastOfPiece
      <4>3. file[l].record \in complete
        BY <3>1, <4>2, <1>0 DEF Wanted, ReaderType
      <4>4. PICK m \in DOMAIN file : m = l + 1 /\ file[m].record = file[l].record
        BY <4>1, <4>2, <4>3, OfComplete
      <4>5. reader.pos <= At(m) /\ ~Torn(m) /\ At(m) \in Nat
        <5>1. Last(s) < m
          BY <4>2, <4>4
        <5>2. file[m].record \in complete
          BY <4>3, <4>4
        <5>3. ~Torn(m)
          BY <5>2, OfComplete
        <5>4. At(m) \in Nat
          BY <1>0, InFile
        <5> QED BY <4>1, <5>1, <5>3, <5>4
      <4>6. PICK h \in DOMAIN file : h <= m /\ At(h) = reader.pos
        BY <4>5, <1>3, NextFragment
      <4>7. Torn(h)
        BY <4>6, OnlyTorn
      <4>8. h \in Nat /\ l < h
        <5>1. At(l) < At(h)
          BY <4>2, <4>6
        <5> QED BY <5>1, <1>0, Order, InFile
      <4>9. h = m
        BY <4>2, <4>4, <4>6, <4>8
      <4> QED BY <4>5, <4>7, <4>9
    <3> QED BY <3>3, <3>4, <1>2 DEF Taken
  <2>2. reader.eof => \A i \in DOMAIN file : file[i].record \in reader.due => EndOf(i) <= reader.end
    BY DEF Reading, Progress
  <2> QED BY <2>1, <2>2, <1>2 DEF Progress
<1>9. Faultless(next)
  BY <1>2, DropsAfterCrash DEF Faultless
<1> QED BY <1>1, <1>2, <1>4, <1>5, <1>6, <1>8, <1>9 DEF Reading

\* EndOfFile.
LEMMA ReturnedStarts ==
    ASSUME FileInv, Reading(reader), NEW k \in DOMAIN reader.out
    PROVE  /\ StartOf(RecordOf(reader.out[k])) >= reader.initial
           /\ ~Spoiled(RecordOf(reader.out[k]))
<1>0. ReaderType(reader)
  BY DEF Reading
<1>1. PICK o \in Seq(Nat) : o = reader.out[k] /\ Piece(o, reader) /\ Ends(Last(o))
  <2>1. reader.out \in Seq(Seq(Nat))
    BY <1>0, ReaderFields
  <2>2. reader.out[k] \in Seq(Nat)
    BY <2>1
  <2> QED BY <2>2 DEF Reading, Output
<1>2. Begins(o[1]) /\ At(o[1]) >= reader.initial /\ o[1] \in DOMAIN file
  BY <1>0, <1>1, LastOfPiece DEF Piece
<1>3. RecordOf(reader.out[k]) = file[o[1]].record
  BY <1>1 DEF RecordOf
<1>4. StartOf(RecordOf(reader.out[k])) >= reader.initial
  BY <1>2, <1>3, StartOfIs
<1>5. ASSUME NEW i \in DOMAIN file, NEW t \in DOMAIN file, file[i].record = file[o[1]].record,
             t < i, Torn(t), BlockOf(t) = BlockOf(i)
      PROVE  FALSE
  <2>1. PICK j \in DOMAIN o : o[j] = i
    BY <1>0, <1>1, <1>5, WholePiece
  <2> QED BY <2>1, <1>1, <1>5 DEF Piece, Spoils
<1> QED BY <1>3, <1>4, <1>5 DEF Spoiled

\* At the end of the file the reader has passed all that it is to return.
LEMMA PassedAll ==
    ASSUME FileInv, Reading(reader), EndOfFile,
           NEW i \in DOMAIN file, Wanted(i, reader)
    PROVE  At(i) < reader.pos
<1>0. FileType /\ Tiled
  BY DEF FileInv
<1>1. EndOf(i) <= reader.end
  BY DEF EndOfFile, Reading, Progress, Wanted
<1>2. /\ At(i) \in Nat /\ EndOf(i) \in Nat /\ At(i) + HeaderSize <= EndOf(i)
      /\ reader.pos \in Nat /\ reader.end \in Nat /\ Buffered = reader.end - reader.pos
      /\ HeaderSize \in Nat /\ 0 < HeaderSize
  BY <1>0, InFile, ReaderAt, Sizes
<1> SUFFICES ASSUME reader.pos <= At(i) PROVE FALSE
  BY <1>2
<1>3. Buffered >= HeaderSize /\ reader.pos < reader.end /\ At(i) < reader.end
  BY <1>1, <1>2
<1>4. PICK m \in DOMAIN file : m <= i /\ At(m) = reader.pos
  BY <1>3, NextFragment
<1>5. ~Torn(m)
  BY <1>3, <1>4, TornUnwanted
<1>6. m \in Header
  <2>1. file[m].have = FragmentSize(file[m])
    BY <1>0, <1>5, InFile DEF Torn
  <2>2. file[m].have >= HeaderSize
    BY <2>1, <1>0, InFile, Sizes
  <2> QED BY <2>2, <1>4 DEF Header, At
<1>7. ~Fits(m)
  BY <1>3, <1>6, <1>2 DEF EndOfFile
<1>8. EndOf(m) > reader.end
  <2>1. /\ FragmentSize(file[m]) \in Nat /\ EndOf(m) = reader.pos + FragmentSize(file[m])
    BY <1>0, <1>4, InFile DEF EndOf, At
  <2>2. FragmentSize(file[m]) > Buffered
    BY <2>1, <1>2, <1>7 DEF Fits
  <2> QED BY <2>1, <2>2, <1>2
<1>9. EndOf(m) <= EndOf(i) /\ EndOf(m) \in Nat
  <2>1. m \in Nat /\ i \in Nat /\ EndOf(m) \in Nat
    BY <1>0, InFile
  <2>2. m < i => EndOf(m) <= At(i)
    BY <1>0, <1>5, Order
  <2>3. CASE m = i
    BY <2>1, <2>3
  <2>4. CASE m < i
    <3>1. EndOf(m) <= At(i) /\ At(i) <= EndOf(i)
      BY <2>2, <2>4, <1>2
    <3> QED BY <3>1, <2>1, <1>2
  <2>5. m < i \/ m = i
    BY <2>1, <1>4
  <2> QED BY <2>3, <2>4, <2>5
<1> QED BY <1>1, <1>2, <1>8, <1>9

LEMMA EndOfFileReads ==
    ASSUME FileInv, Reading(reader), EndOfFile
    PROVE  \E next : reader' = next /\ Finished(next)
<1>0. FileType /\ Tiled /\ ReaderType(reader) /\ Output(reader) /\ reader \in Readers
  BY DEF FileInv, Reading, ReaderType
<1>1. PICK next : next = reader'
  OBVIOUS
<1>2. next = [reader EXCEPT !.state = "eof", !.scratch = <<>>]
  BY <1>1 DEF EndOfFile, Reads
<1>3. /\ next \in Readers /\ next.state = "eof" /\ next.initial = reader.initial
      /\ next.pos = reader.pos /\ next.end = reader.end /\ next.due = reader.due
      /\ next.out = reader.out /\ next.reported = reader.reported
  <2>1. PICK s \in Seq(Nat) : s = <<>>
    <3>1. <<>> \in Seq(Nat)
      OBVIOUS
    <3> QED BY <3>1
  <2>2. next = [reader EXCEPT !.state = "eof", !.scratch = s]
    BY <1>2, <2>1
  <2> QED BY <2>2, <1>0 DEF Readers
<1>4. ReaderType(next)
  BY <1>0, <1>3 DEF ReaderType
<1>5. Output(next)
  <2>1. reader.pos \in Nat
    BY ReaderAt
  <2> QED BY <2>1, <1>0, <1>3, OutputStays
<1>6. crashes = 0 /\ next.initial = 0 => ~next.reported
  BY <1>3 DEF Reading, Faultless
<1>7. ASSUME NEW n \in reader.due, StartOf(n) >= reader.initial, ~Spoiled(n)
      PROVE  \E k \in DOMAIN reader.out : n = RecordOf(reader.out[k])
  <2>1. n \in complete
    BY <1>0 DEF ReaderType
  <2>2. PICK i \in DOMAIN file : file[i].record = n /\ Ends(i)
    BY <2>1, EndOfComplete
  <2>3. Wanted(i, reader)
    BY <2>2, <1>7 DEF Wanted
  <2>4. At(i) < reader.pos
    BY <2>3, PassedAll
  <2>5. Taken(i, reader)
    BY <2>3, <2>4 DEF Reading, Progress
  <2>6. ~(reader.fragmented /\ \E j \in DOMAIN reader.scratch : reader.scratch[j] = i)
    <3> SUFFICES ASSUME reader.fragmented, NEW j \in DOMAIN reader.scratch, reader.scratch[j] = i
                 PROVE  FALSE
      OBVIOUS
    <3>1. PICK s \in Seq(Nat) : s = reader.scratch /\ Piece(s, reader) /\ ~Ends(Last(s))
      BY <1>0, ReaderFields DEF Reading, Scratch
    <3>2. Last(s) = s[Len(s)] /\ j \in 1 .. Len(s) /\ Len(s) \in Nat
      BY <3>1, <1>0, LastOfPiece
    <3>3. j < Len(s) => ~Ends(i)
      BY <3>1 DEF Piece
    <3> QED BY <2>2, <3>1, <3>2, <3>3
  <2>7. PICK k \in DOMAIN reader.out : \E j \in DOMAIN reader.out[k] : reader.out[k][j] = i
    BY <2>5, <2>6 DEF Taken
  <2>8. Piece(reader.out[k], reader)
    BY DEF Reading, Output
  <2>9. file[i].record = file[reader.out[k][1]].record
    BY <2>7, <2>8 DEF Piece
  <2> QED BY <2>2, <2>9 DEF RecordOf
<1>8. \A n \in next.due :
          (\E k \in DOMAIN next.out : n = RecordOf(next.out[k]))
              <=> (StartOf(n) >= next.initial /\ ~Spoiled(n))
  BY <1>3, <1>7, ReturnedStarts
<1> QED BY <1>1, <1>3, <1>4, <1>5, <1>6, <1>8 DEF Finished

\* Open.
LEMMA InitialBlockIs ==
    ASSUME NEW initial \in Nat
    PROVE  /\ InitialBlock(initial) \in Nat /\ Boundary(InitialBlock(initial))
           /\ initial = 0 => InitialBlock(initial) = 0
           /\ \/ InitialBlock(initial) = BlockStart(initial)
              \/ /\ InitialBlock(initial) = BlockStart(initial) + BlockSize
                 /\ initial + HeaderSize > BlockStart(initial) + BlockSize
<1>1. /\ BlockStart(initial) \in Nat /\ Boundary(BlockStart(initial))
      /\ BlockStart(initial) <= initial /\ initial < BlockStart(initial) + BlockSize
  BY StartOfBlock
<1>2. Boundary(BlockStart(initial) + BlockSize) /\ BlockStart(initial) + BlockSize \in Nat
  BY <1>1, BoundaryNext, BoundaryNat
<1>3. PICK m \in Nat : m = initial % BlockSize /\ BlockStart(initial) = initial - m
  <2>1. initial % BlockSize \in Nat
    BY DivMod, Sizes
  <2> QED BY <2>1 DEF BlockStart
<1>4. CASE m > BlockSize - (HeaderSize - 1)
  <2>1. InitialBlock(initial) = BlockStart(initial) + BlockSize
    BY <1>3, <1>4 DEF InitialBlock
  <2>2. initial = BlockStart(initial) + m
    BY <1>1, <1>3
  <2>3. initial + HeaderSize > BlockStart(initial) + BlockSize
    BY <2>2, <1>1, <1>4, Sizes
  <2>4. initial # 0
    BY <2>2, <1>1, <1>4, Sizes
  <2> QED BY <2>1, <2>3, <2>4, <1>2
<1>5. CASE ~(m > BlockSize - (HeaderSize - 1))
  <2>1. InitialBlock(initial) = BlockStart(initial)
    BY <1>1, <1>3, <1>5 DEF InitialBlock
  <2>2. initial = 0 => BlockStart(initial) = 0
    BY <1>1
  <2> QED BY <2>1, <2>2, <1>1
<1> QED BY <1>4, <1>5

LEMMA OpenReads ==
    ASSUME FileInv, reader = NoReader, NEW initial \in Nat, Open(initial)
    PROVE  \E next : reader' = next /\ Reading(next)
<1>0. FileType /\ Tiled
  BY DEF FileInv
<1>1. PICK next : next = reader'
  OBVIOUS
<1>2. PICK b \in Nat : b = InitialBlock(initial)
  BY InitialBlockIs
<1>3. /\ Boundary(b) /\ (initial = 0 => b = 0)
      /\ \/ b = BlockStart(initial)
         \/ b = BlockStart(initial) + BlockSize /\ initial + HeaderSize > BlockStart(initial) + BlockSize
  BY <1>2, InitialBlockIs
<1>4. next = [NoReader EXCEPT
                     !.state = "reading", !.initial = initial,
                     !.pos = b, !.end = b,
                     !.resyncing = initial > 0, !.due = complete]
  BY <1>1, <1>2 DEF Open
<1>5. complete \in SUBSET Nat
  BY <1>0 DEF FileType
<1>6. /\ next \in Readers /\ next.state = "reading" /\ next.initial = initial
      /\ next.pos = b /\ next.end = b /\ ~next.eof /\ (next.resyncing <=> initial > 0)
      /\ next.scratch = <<>> /\ ~next.fragmented /\ next.out = <<>> /\ ~next.reported
      /\ next.due = complete
  <2>1. PICK c \in BOOLEAN : c <=> initial > 0
    <3>1. CASE initial > 0
      BY <3>1
    <3>2. CASE ~(initial > 0)
      BY <3>2
    <3> QED BY <3>1, <3>2
  <2>2. next = [NoReader EXCEPT
                     !.state = "reading", !.initial = initial,
                     !.pos = b, !.end = b, !.resyncing = c, !.due = complete]
    <3>1. c = (initial > 0)
      BY <2>1
    <3> QED BY <1>4, <3>1, Zenon
  <2>3. PICK d \in SUBSET Nat : d = complete
    BY <1>5
  <2>4. PICK s \in Seq(Nat) : s = <<>>
    <3>1. <<>> \in Seq(Nat)
      OBVIOUS
    <3> QED BY <3>1
  <2>5. PICK o \in Seq(Seq(Nat)) : o = <<>>
    <3>1. <<>> \in Seq(Seq(Nat))
      OBVIOUS
    <3> QED BY <3>1
  <2>6. next = [state |-> "reading", initial |-> initial, pos |-> b, end |-> b, eof |-> FALSE,
                resyncing |-> c, scratch |-> s, fragmented |-> FALSE, out |-> o,
                reported |-> FALSE, due |-> d]
    BY <2>2, <2>3, <2>4, <2>5 DEF NoReader
  <2>7. /\ next \in Readers /\ next.state = "reading" /\ next.initial = initial
        /\ next.pos = b /\ next.end = b /\ ~next.eof /\ next.resyncing = c
        /\ next.scratch = s /\ ~next.fragmented /\ next.out = o /\ ~next.reported
        /\ next.due = d
    BY <2>6 DEF Readers
  <2> QED BY <2>1, <2>3, <2>4, <2>5, <2>7
<1>7. ReaderType(next)
  BY <1>6 DEF ReaderType
<1>8. Output(next) /\ Scratch(next)
  <2>1. DOMAIN next.out = {}
    BY <1>6
  <2> QED BY <2>1, <1>6 DEF Output, Scratch
<1>9. Buffer(next)
  <2>1. ~(b < b)
    OBVIOUS
  <2> QED BY <2>1, <1>3, <1>6 DEF Buffer
<1>10. Progress(next)
  <2>1. ASSUME NEW i \in DOMAIN file, Wanted(i, next), At(i) < next.pos PROVE FALSE
    <3>1. PICK j \in DOMAIN file : StartOf(file[i].record) = At(j) /\ At(j) <= At(i)
      BY StartIsFirst
    <3>2. /\ At(j) \in Nat /\ At(i) \in Nat /\ EndOf(j) \in Nat
          /\ At(j) + HeaderSize <= EndOf(j)
      BY <1>0, InFile
    <3>3. At(j) >= initial /\ At(j) < b
      BY <2>1, <3>1, <3>2, <1>6 DEF Wanted
    <3>4. BlockStart(initial) <= initial /\ BlockStart(initial) \in Nat
      BY StartOfBlock
    <3>5. EndOf(j) <= b
      BY <3>3, <1>3, NotAcross
    <3>6. b = BlockStart(initial) + BlockSize /\ initial + HeaderSize > b
      BY <3>2, <3>3, <3>4, <1>3
    <3> QED BY <3>2, <3>3, <3>5, <3>6, Sizes
  <2> QED BY <2>1, <1>6 DEF Progress
<1>11. Faultless(next)
  <2>1. ASSUME initial = 0
        PROVE  b <= size /\ ~(initial > 0) /\ \A i \in DOMAIN file : ~(At(i) < b)
    <3>1. b = 0 /\ size \in Nat
      BY <2>1, <1>0, <1>3 DEF FileType
    <3>2. \A i \in DOMAIN file : At(i) \in Nat
      BY <1>0, InFile
    <3> QED BY <2>1, <3>1, <3>2
  <2> QED BY <2>1, <1>6 DEF Faultless
<1> QED BY <1>1, <1>6, <1>7, <1>8, <1>9, <1>10, <1>11 DEF Reading

\* The reader's steps do not touch the file.
LEMMA ReadingPrimed ==
    ASSUME NEW rd, reader' = rd, Reading(rd),
           UNCHANGED <<file, size, complete, crashes>>
    PROVE  Reading(reader)'
<1>1. ReaderType(reader)' /\ (reader.state = "reading")'
  BY DEF Reading, ReaderType
<1>2. \A i : /\ (Begins(i)' <=> Begins(i)) /\ (Ends(i)' <=> Ends(i)) /\ At(i)' = At(i)
             /\ EndOf(i)' = EndOf(i) /\ (Torn(i)' <=> Torn(i)) /\ BlockOf(i)' = BlockOf(i)
  BY DEF Begins, Ends, At, EndOf, Torn, BlockOf
<1>3. \A t, i : Spoils(t, i)' <=> Spoils(t, i)
  BY <1>2 DEF Spoils
<1>4. \A o : Piece(o, rd) => Piece(o, reader)'
  BY <1>2, <1>3 DEF Piece
<1>5. Output(reader)'
  BY <1>2, <1>4 DEF Reading, Output
<1>6. Scratch(reader)'
  BY <1>2, <1>4 DEF Reading, Scratch
<1>7. Buffer(reader)'
  BY <1>2 DEF Reading, Buffer
<1>8. \A n : StartOf(n)' = StartOf(n) /\ (Spoiled(n)' <=> Spoiled(n))
  BY DEF StartOf, Spoiled, Torn, BlockOf
<1>9. Progress(reader)'
  BY <1>2, <1>8 DEF Reading, Progress, Wanted, Taken
<1>10. Faultless(reader)'
  BY <1>2 DEF Reading, Faultless
<1> QED BY <1>1, <1>5, <1>6, <1>7, <1>9, <1>10 DEF Reading

LEMMA FinishedPrimed ==
    ASSUME NEW rd, reader' = rd, Finished(rd),
           UNCHANGED <<file, size, complete, crashes>>
    PROVE  Finished(reader)'
<1>1. ReaderType(reader)' /\ (reader.state = "eof")' /\ (crashes = 0 /\ reader.initial = 0 => ~reader.reported)'
  BY DEF Finished, ReaderType
<1>2. Output(reader)'
  BY DEF Finished, Output, Piece, Begins, Ends, At, EndOf, Torn, Spoils, BlockOf
<1>3. \A n : StartOf(n)' = StartOf(n) /\ (Spoiled(n)' <=> Spoiled(n))
  BY DEF StartOf, Spoiled, Torn, BlockOf
<1>4. \A o : RecordOf(o)' = RecordOf(o)
  BY DEF RecordOf
<1>5. (\A n \in reader.due :
          (\E k \in DOMAIN reader.out : n = RecordOf(reader.out[k]))
              <=> (StartOf(n) >= reader.initial /\ ~Spoiled(n)))'
  BY <1>3, <1>4 DEF Finished
<1> QED BY <1>1, <1>2, <1>5 DEF Finished

-----------------------------------------------------------------------------
(* The writer's steps, seen by a reader. *)

\* A fragment that was there and may have more of its bytes now.
Old(i) ==
    /\ i \in DOMAIN file
    /\ At(i)' = At(i) /\ EndOf(i)' = EndOf(i) /\ BlockOf(i)' = BlockOf(i)
    /\ (Begins(i)' <=> Begins(i)) /\ (Ends(i)' <=> Ends(i)) /\ (Torn(i)' => Torn(i))
    /\ file'[i].record = file[i].record

Kept(i) == i \in DOMAIN file' /\ file'[i] = file[i]

\* What is whole, or has another fragment behind it, stays as it is; what comes
\* is behind all there is and belongs to no complete record.
Grows ==
    /\ reader' = reader
    /\ complete \subseteq complete'
    /\ size <= size' /\ size' \in Nat
    /\ DOMAIN file' \subseteq Nat \ {0}
    /\ crashes' = 0 => crashes = 0 /\ DOMAIN file \subseteq DOMAIN file'
    /\ \A i \in DOMAIN file : ~Torn(i) \/ i + 1 \in DOMAIN file => Kept(i)
    /\ \A i \in DOMAIN file' :
          \/ Old(i)
          \/ i \notin DOMAIN file /\ size <= At(i)' /\ file'[i].record \notin complete

LEMMA EmitGrows == ASSUME FileInv, EmitPhysicalRecord PROVE Grows
<1>0. FileType /\ Underway
  BY DEF FileInv
<1>1. PICK n \in Nat : n = Len(file) + 1
  BY <1>0 DEF FileType
<1>2. /\ record.number # 0
      /\ DOMAIN file' = 1 .. n
      /\ \A i \in DOMAIN file : i \in DOMAIN file' /\ i < n /\ file'[i] = file[i]
      /\ \A i \in DOMAIN file' : i \in DOMAIN file \/ i = n
      /\ file'[n].record = record.number /\ file'[n].at = Pad(size)
  BY <1>1, Emitted
<1>3. UNCHANGED <<size, complete, crashes, reader>>
  BY DEF EmitPhysicalRecord
<1>4. size \in Nat /\ size <= Pad(size)
  BY <1>0, PadIs DEF FileType
<1>5. \A i \in DOMAIN file : Kept(i) /\ Old(i)
  <2> TAKE i \in DOMAIN file
  <2>1. i \in Nat /\ file'[i] = file[i]
    BY <1>0, <1>2, InFile
  <2> QED BY <2>1, <1>2, SameFragment DEF Kept, Old
<1>6. n \notin DOMAIN file
  BY <1>1, <1>2
<1>7. size <= At(n)' /\ file'[n].record \notin complete
  <2>1. file'[n].record \notin complete
    BY <1>0, <1>2 DEF Underway
  <2> QED BY <2>1, <1>2, <1>4 DEF At
<1> QED BY <1>2, <1>3, <1>4, <1>5, <1>6, <1>7 DEF Grows

LEMMA WriteOutGrows ==
    ASSUME FileInv, NEW bytes \in Pieces \cup {Unwritten}, WriteOut(bytes)
    PROVE  Grows
<1>0. FileType
  BY DEF FileInv
<1>1. PICK n : n = Len(file)
  OBVIOUS
<1>2. /\ Within
      /\ n \in Nat /\ n \in DOMAIN file /\ n > 0
      /\ DOMAIN file = 1 .. n
      /\ DOMAIN file' = DOMAIN file
      /\ \A i \in DOMAIN file : (i < n \/ i = n) /\ (i # n => file'[i] = file[i])
      /\ file'[n].type = file[n].type /\ file'[n].record = file[n].record
      /\ file'[n].from = file[n].from /\ file'[n].at = file[n].at
      /\ file'[n].length = file[n].length
      /\ file'[n].have \in Nat /\ file'[n].have > file[n].have
      /\ size' = file[n].at + file'[n].have
      /\ UNCHANGED <<crashes, reader>>
  BY <1>1, Written
<1>3. complete \subseteq complete'
  BY DEF WriteOut
<1>4. Torn(n) /\ IF file[n].have = 0 THEN size <= At(n) ELSE size = EndOfPart(n)
  BY <1>1, <1>2 DEF Within
<1>5. size \in Nat /\ file[n].at \in Nat /\ file[n].have \in Nat
  BY <1>0, <1>2, InFile DEF FileType
<1>6. size <= size' /\ size' \in Nat
  BY <1>2, <1>4, <1>5 DEF At, EndOfPart
<1>7. Old(n)
  BY <1>2, <1>4 DEF Old, At, EndOf, BlockOf, Begins, Ends, FragmentSize
<1>8. \A i \in DOMAIN file : i # n => Kept(i) /\ Old(i)
  <2> TAKE i \in DOMAIN file
  <2> HAVE i # n
  <2>1. i \in Nat /\ file'[i] = file[i]
    BY <1>0, <1>2, InFile
  <2> QED BY <2>1, <1>2, SameFragment DEF Kept, Old
<1>9. n + 1 \notin DOMAIN file
  BY <1>2
<1>10. DOMAIN file' \subseteq Nat \ {0}
  BY <1>2
<1> QED BY <1>2, <1>3, <1>4, <1>6, <1>7, <1>8, <1>9, <1>10 DEF Grows

LEMMA CrashGrows == ASSUME FileInv, Crash PROVE Grows
<1>0. FileType
  BY DEF FileInv
<1>1. PICK n : n = Len(file)
  OBVIOUS
<1>2. PICK k : k = Len(file')
  OBVIOUS
<1>3. /\ n \in Nat /\ k \in Nat /\ k <= n /\ DOMAIN file = 1 .. n /\ DOMAIN file' = 1 .. k
      /\ size' \in Nat /\ size <= size'
      /\ \A i \in DOMAIN file' : i \in DOMAIN file /\ file'[i] = file[i]
      /\ \A i \in DOMAIN file : i \in DOMAIN file' \/ (i = n /\ file[i].have = 0)
      /\ crashes' = crashes + 1
      /\ UNCHANGED <<complete, reader>>
  BY <1>1, <1>2, Crashed
<1>4. crashes' # 0
  BY <1>0, <1>3 DEF FileType
<1>5. \A i \in DOMAIN file' : Old(i)
  <2> TAKE i \in DOMAIN file'
  <2>1. i \in Nat /\ file'[i] = file[i] /\ i \in DOMAIN file
    BY <1>3
  <2> QED BY <2>1, SameFragment DEF Old
<1>6. ASSUME NEW i \in DOMAIN file, ~Torn(i) \/ i + 1 \in DOMAIN file
      PROVE  Kept(i)
  <2>1. CASE i \in DOMAIN file'
    BY <2>1, <1>3 DEF Kept
  <2>2. CASE i = n /\ file[i].have = 0
    <3>1. Torn(i)
      <4>1. FragmentSize(file[i]) \in Nat /\ HeaderSize <= FragmentSize(file[i])
        BY <1>0, InFile
      <4> QED BY <2>2, <4>1, Sizes DEF Torn
    <3>2. i + 1 \notin DOMAIN file
      BY <2>2, <1>3
    <3> QED BY <3>1, <3>2, <1>6
  <2> QED BY <2>1, <2>2, <1>3
<1>7. DOMAIN file' \subseteq Nat \ {0}
  BY <1>3
<1> QED BY <1>3, <1>4, <1>5, <1>6, <1>7 DEF Grows

LEMMA OldOrNew ==
    ASSUME Grows, NEW i \in DOMAIN file'
    PROVE  \/ Old(i)
           \/ i \notin DOMAIN file /\ size <= At(i)' /\ file'[i].record \notin complete
BY DEF Grows

LEMMA KeptFragment ==
    ASSUME FileInv, Grows, NEW i \in DOMAIN file, ~Torn(i) \/ i + 1 \in DOMAIN file
    PROVE  /\ i \in DOMAIN file' /\ file'[i] = file[i]
           /\ At(i)' = At(i) /\ EndOf(i)' = EndOf(i) /\ BlockOf(i)' = BlockOf(i)
           /\ Torn(i)' = Torn(i) /\ Begins(i)' = Begins(i) /\ Ends(i)' = Ends(i)
<1>1. Kept(i)
  BY DEF Grows
<1>2. i \in Nat
  BY InFile DEF FileInv
<1> QED BY <1>1, <1>2, SameFragment DEF Kept

\* Torn fragments in front of one that was there.
LEMMA TornBefore ==
    ASSUME FileInv, Grows, NEW i \in DOMAIN file, NEW t, t < i
    PROVE  /\ t \in DOMAIN file' => t \in DOMAIN file /\ (Torn(t)' => Torn(t)) /\ BlockOf(t)' = BlockOf(t)
           /\ t \in DOMAIN file => t \in DOMAIN file' /\ Torn(t)' = Torn(t) /\ BlockOf(t)' = BlockOf(t)
<1>1. i \in Nat /\ Len(file) \in Nat /\ i <= Len(file) /\ DOMAIN file = 1 .. Len(file)
  BY InFile DEF FileInv, FileType
<1>2. ASSUME t \in DOMAIN file'
      PROVE  t \in DOMAIN file /\ (Torn(t)' => Torn(t)) /\ BlockOf(t)' = BlockOf(t)
  <2>1. t \in Nat \ {0}
    BY <1>2 DEF Grows
  <2>2. t \in DOMAIN file
    BY <2>1, <1>1
  <2> QED BY <2>2, <1>2, OldOrNew DEF Old
<1>3. ASSUME t \in DOMAIN file
      PROVE  t \in DOMAIN file' /\ Torn(t)' = Torn(t) /\ BlockOf(t)' = BlockOf(t)
  <2>1. t + 1 \in DOMAIN file
    BY <1>1, <1>3
  <2> QED BY <2>1, <1>3, KeptFragment
<1> QED BY <1>2, <1>3

LEMMA PieceGrows ==
    ASSUME FileInv, Grows, NEW rd, NEW o \in Seq(Nat), Piece(o, rd)
    PROVE  Piece(o, rd)'
<1>1. 1 \in DOMAIN o /\ o # <<>>
  <2>1. o # <<>>
    BY DEF Piece
  <2> QED BY <2>1, EmptySeq
<1>2. ASSUME NEW j \in DOMAIN o
      PROVE  /\ o[j] \in DOMAIN file /\ o[j] \in DOMAIN file' /\ file'[o[j]] = file[o[j]]
             /\ At(o[j])' = At(o[j]) /\ EndOf(o[j])' = EndOf(o[j]) /\ BlockOf(o[j])' = BlockOf(o[j])
             /\ Torn(o[j])' = Torn(o[j]) /\ Begins(o[j])' = Begins(o[j]) /\ Ends(o[j])' = Ends(o[j])
  <2>1. o[j] \in DOMAIN file /\ ~Torn(o[j])
    BY DEF Piece
  <2>2. PICK i \in DOMAIN file : i = o[j]
    BY <2>1
  <2>3. /\ i \in DOMAIN file' /\ file'[i] = file[i]
        /\ At(i)' = At(i) /\ EndOf(i)' = EndOf(i) /\ BlockOf(i)' = BlockOf(i)
        /\ Torn(i)' = Torn(i) /\ Begins(i)' = Begins(i) /\ Ends(i)' = Ends(i)
    BY <2>1, <2>2, KeptFragment
  <2> QED BY <2>2, <2>3
<1>3. ASSUME NEW j \in DOMAIN o, NEW t \in DOMAIN file'
      PROVE  ~Spoils(t, o[j])'
  <2> SUFFICES ASSUME Spoils(t, o[j])' PROVE FALSE
    OBVIOUS
  <2>1. t < o[j] /\ Torn(t)' /\ BlockOf(t)' = BlockOf(o[j])'
    BY DEF Spoils
  <2>2. o[j] \in DOMAIN file /\ BlockOf(o[j])' = BlockOf(o[j])
    BY <1>2
  <2>3. t \in DOMAIN file /\ Torn(t) /\ BlockOf(t)' = BlockOf(t)
    BY <2>1, <2>2, TornBefore
  <2> QED BY <2>1, <2>2, <2>3 DEF Piece, Spoils
<1>4. Begins(o[1])' /\ (At(o[1]) >= rd.initial)'
  BY <1>1, <1>2 DEF Piece
<1>5. ASSUME NEW j \in DOMAIN o
      PROVE  /\ o[j] = o[1] + (j - 1)
             /\ o[j] \in DOMAIN file'
             /\ ~Torn(o[j])' /\ EndOf(o[j])' <= rd.pos
             /\ file'[o[j]].record = file'[o[1]].record
             /\ j > 1 => ~Begins(o[j])'
             /\ j < Len(o) => ~Ends(o[j])'
  BY <1>1, <1>2 DEF Piece
<1> QED BY <1>1, <1>3, <1>4, <1>5 DEF Piece

LEMMA OutputGrows ==
    ASSUME FileInv, Grows, NEW rd, ReaderType(rd), Output(rd)
    PROVE  Output(rd)'
<1>1. rd.out \in Seq(Seq(Nat))
  BY ReaderFields
<1>2. ASSUME NEW k \in DOMAIN rd.out
      PROVE  Piece(rd.out[k], rd)' /\ Ends(Last(rd.out[k]))'
  <2>1. PICK o \in Seq(Nat) : o = rd.out[k] /\ Piece(o, rd) /\ Ends(Last(o))
    <3>1. rd.out[k] \in Seq(Nat)
      BY <1>1
    <3> QED BY <3>1 DEF Output
  <2>2. Piece(o, rd)'
    BY <2>1, PieceGrows
  <2>3. PICK i \in DOMAIN file : i = Last(o) /\ ~Torn(i)
    <3>1. o # <<>>
      BY <2>1 DEF Piece
    <3>2. Len(o) \in DOMAIN o /\ Last(o) = o[Len(o)]
      BY <3>1, EmptySeq DEF Last
    <3> QED BY <3>2, <2>1 DEF Piece
  <2>4. Ends(i)' = Ends(i)
    BY <2>3, KeptFragment
  <2>5. Ends(Last(o))'
    BY <2>1, <2>3, <2>4
  <2> QED BY <2>1, <2>2, <2>5
<1>3. \A k, m \in DOMAIN rd.out : k < m => Last(rd.out[k]) < rd.out[m][1]
  BY DEF Output
<1> QED BY <1>2, <1>3 DEF Output

\* Of a complete record nothing changes.
LEMMA CompleteStays ==
    ASSUME FileInv, Grows, NEW n \in complete
    PROVE  /\ \A i \in DOMAIN file' : file'[i].record = n =>
                 i \in DOMAIN file /\ file[i].record = n /\ Old(i)
           /\ StartOf(n)' = StartOf(n)
           /\ Spoiled(n)' <=> Spoiled(n)
<1>1. ASSUME NEW i \in DOMAIN file', file'[i].record = n
      PROVE  i \in DOMAIN file /\ file[i].record = n /\ Old(i)
  BY <1>1, OldOrNew DEF Old
<1>2. PICK b \in DOMAIN file : Begins(b) /\ file[b].record = n
  <2>1. PICK e \in DOMAIN file : file[e].record = n
    BY EndOfComplete
  <2> QED BY <2>1, FirstOfRecord
<1>3. /\ b \in DOMAIN file' /\ file'[b] = file[b] /\ At(b)' = At(b) /\ Begins(b)' = Begins(b)
  <2>1. ~Torn(b)
    BY <1>2, OfComplete
  <2> QED BY <2>1, KeptFragment
<1>4. ASSUME NEW i \in DOMAIN file', file'[i].record = n, file'[i].type \in {"full", "first"}
      PROVE  i = b
  <2>1. i \in DOMAIN file /\ file[i].record = n /\ (Begins(i)' <=> Begins(i))
    BY <1>1, <1>4 DEF Old
  <2>2. Begins(i)
    BY <2>1, <1>4 DEF Begins
  <2> QED BY <2>1, <2>2, <1>2, OneBeginning
<1>5. StartOf(n) = At(b)
  BY <1>2, StartOfIs
<1>6. StartOf(n)' = file'[b].at
  <2>1. (CHOOSE i \in DOMAIN file' : file'[i].record = n /\ file'[i].type \in {"full", "first"}) = b
    BY <1>2, <1>3, <1>4 DEF Begins
  <2> QED BY <2>1 DEF StartOf
<1>7. StartOf(n)' = StartOf(n)
  BY <1>3, <1>5, <1>6 DEF At
<1>8. ASSUME Spoiled(n) PROVE Spoiled(n)'
  <2>1. PICK i \in DOMAIN file, t \in DOMAIN file :
            file[i].record = n /\ t < i /\ Torn(t) /\ BlockOf(t) = BlockOf(i)
    BY <1>8 DEF Spoiled
  <2>2. i \in DOMAIN file' /\ file'[i] = file[i] /\ BlockOf(i)' = BlockOf(i)
    <3>1. ~Torn(i)
      BY <2>1, OfComplete
    <3> QED BY <3>1, KeptFragment
  <2>3. t \in DOMAIN file' /\ Torn(t)' = Torn(t) /\ BlockOf(t)' = BlockOf(t)
    BY <2>1, TornBefore
  <2> QED BY <2>1, <2>2, <2>3 DEF Spoiled
<1>9. ASSUME Spoiled(n)' PROVE Spoiled(n)
  <2>1. PICK i \in DOMAIN file', t \in DOMAIN file' :
            file'[i].record = n /\ t < i /\ Torn(t)' /\ BlockOf(t)' = BlockOf(i)'
    BY <1>9 DEF Spoiled
  <2>2. i \in DOMAIN file /\ file[i].record = n /\ BlockOf(i)' = BlockOf(i)
    BY <2>1, <1>1 DEF Old
  <2>3. t \in DOMAIN file /\ Torn(t) /\ BlockOf(t)' = BlockOf(t)
    BY <2>1, <2>2, TornBefore
  <2> QED BY <2>1, <2>2, <2>3 DEF Spoiled
<1> QED BY <1>1, <1>7, <1>8, <1>9

LEMMA AtPrimed == ASSUME FileInv', NEW i \in DOMAIN file' PROVE At(i)' \in Nat
<1>1. file' \in Seq(Fragments)
  BY DEF FileInv, FileType
<1>2. file'[i] \in Fragments
  BY <1>1
<1> QED BY <1>2 DEF At, Fragments

\* What is new is behind a reader whose buffer is in the file.
LEMMA NewIsBehind ==
    ASSUME FileInv, FileInv', Grows, NEW rd, ReaderType(rd), rd.end <= size,
           NEW i \in DOMAIN file', ~Old(i)
    PROVE  rd.end <= At(i)' /\ rd.pos <= At(i)' /\ ~(At(i)' < rd.pos)
<1>1. size <= At(i)' /\ At(i)' \in Nat
  BY OldOrNew, AtPrimed
<1>2. rd.pos \in Nat /\ rd.end \in Nat /\ rd.pos <= rd.end /\ size \in Nat
  BY ReaderFields DEF FileInv, FileType
<1> QED BY <1>1, <1>2

LEMMA WantedStays ==
    ASSUME FileInv, Grows, NEW rd, ReaderType(rd), NEW i \in DOMAIN file', Wanted(i, rd)'
    PROVE  i \in DOMAIN file /\ Old(i) /\ Wanted(i, rd)
<1>1. file'[i].record \in complete
  BY DEF ReaderType, Wanted
<1>2. PICK n \in complete : n = file'[i].record
  BY <1>1
<1>3. /\ i \in DOMAIN file /\ file[i].record = n /\ Old(i)
      /\ StartOf(n)' = StartOf(n) /\ (Spoiled(n)' <=> Spoiled(n))
  BY <1>2, CompleteStays
<1>4. /\ n \in rd.due /\ StartOf(n)' >= rd.initial /\ ~Spoiled(n)'
  BY <1>2 DEF Wanted
<1> QED BY <1>3, <1>4 DEF Wanted

LEMMA ReadingGrows ==
    ASSUME FileInv, FileInv', Grows, NEW rd, rd = reader, Reading(rd)
    PROVE  Reading(rd)'
<1>0. FileType /\ Tiled /\ ReaderType(rd) /\ Output(rd)
  BY DEF FileInv, Reading
<1>1. /\ complete \subseteq complete' /\ size <= size' /\ size' \in Nat /\ size \in Nat
      /\ crashes' = 0 => crashes = 0 /\ DOMAIN file \subseteq DOMAIN file'
      /\ rd.pos \in Nat /\ rd.end \in Nat /\ rd.pos <= rd.end
      /\ rd.scratch \in Seq(Nat)
  BY <1>0, ReaderFields DEF Grows, FileType
<1>2. ASSUME NEW i \in DOMAIN file', ~Old(i), rd.end <= size
      PROVE  rd.end <= At(i)' /\ rd.pos <= At(i)' /\ ~(At(i)' < rd.pos)
  BY <1>0, <1>2, NewIsBehind
<1>3. ReaderType(rd)'
  BY <1>0, <1>1 DEF ReaderType
<1>4. Output(rd)'
  BY <1>0, OutputGrows
<1>5. Scratch(rd)'
  <2>1. CASE rd.fragmented
    <3>1. /\ Piece(rd.scratch, rd) /\ ~Ends(Last(rd.scratch))
          /\ \A k \in DOMAIN rd.out : Last(rd.out[k]) < rd.scratch[1]
          /\ \A i \in DOMAIN file : Last(rd.scratch) < i => rd.pos <= At(i)
      BY <2>1 DEF Reading, Scratch
    <3>2. Piece(rd.scratch, rd)'
      BY <1>1, <3>1, PieceGrows
    <3>3. rd.end <= size
      BY <2>1 DEF Reading, Buffer
    <3>4. ASSUME NEW i \in DOMAIN file', Last(rd.scratch) < i PROVE rd.pos <= At(i)'
      <4>1. CASE Old(i)
        BY <4>1, <3>1, <3>4 DEF Old
      <4>2. CASE ~Old(i)
        BY <4>2, <3>3, <1>2
      <4> QED BY <4>1, <4>2
    <3>5. ~Ends(Last(rd.scratch))'
      <4>1. PICK s \in Seq(Nat) : s = rd.scratch
        BY <1>1
      <4>2. /\ Piece(s, reader) /\ Last(s) \in DOMAIN file /\ ~Torn(Last(s))
        BY <4>1, <3>1, <1>0, LastOfPiece
      <4>3. PICK l \in DOMAIN file : l = Last(s) /\ ~Torn(l)
        BY <4>2
      <4>4. Ends(l)' = Ends(l)
        BY <4>3, KeptFragment
      <4> QED BY <3>1, <4>1, <4>3, <4>4
    <3> QED BY <2>1, <3>1, <3>2, <3>4, <3>5 DEF Scratch
  <2>2. CASE ~rd.fragmented
    BY <2>2 DEF Reading, Scratch
  <2> QED BY <2>1, <2>2
<1>6. Buffer(rd)'
  <2>1. rd.end <= size' \/ (rd.pos = rd.end /\ rd.out = <<>> /\ ~rd.fragmented)
    <3>1. rd.end <= size => rd.end <= size'
      BY <1>1
    <3> QED BY <3>1 DEF Reading, Buffer
  <2>2. ASSUME rd.pos < rd.end
        PROVE  /\ rd.end <= BlockStart(rd.pos) + BlockSize
               /\ \/ rd.pos = BlockStart(rd.pos)
                  \/ \E k \in DOMAIN file' : ~Torn(k)' /\ EndOf(k)' = rd.pos
               /\ \A t \in DOMAIN file' : Torn(t)' /\ BlockOf(t)' = BlockStart(rd.pos) => rd.pos <= At(t)'
    <3>1. rd.end <= size
      BY <2>2, <1>1 DEF Reading, Buffer
    <3>2. /\ rd.end <= BlockStart(rd.pos) + BlockSize
          /\ \/ rd.pos = BlockStart(rd.pos)
             \/ \E k \in DOMAIN file : ~Torn(k) /\ EndOf(k) = rd.pos
          /\ \A t \in DOMAIN file : Torn(t) /\ BlockOf(t) = BlockStart(rd.pos) => rd.pos <= At(t)
      BY <2>2 DEF Reading, Buffer
    <3>3. ASSUME NEW k \in DOMAIN file, ~Torn(k), EndOf(k) = rd.pos
          PROVE  k \in DOMAIN file' /\ ~Torn(k)' /\ EndOf(k)' = rd.pos
      BY <3>3, KeptFragment
    <3>4. ASSUME NEW t \in DOMAIN file', Torn(t)', BlockOf(t)' = BlockStart(rd.pos)
          PROVE  rd.pos <= At(t)'
      <4>1. CASE Old(t)
        BY <4>1, <3>2, <3>4 DEF Old
      <4>2. CASE ~Old(t)
        BY <4>2, <3>1, <1>2
      <4> QED BY <4>1, <4>2
    <3> QED BY <3>2, <3>3, <3>4
  <2>3. (~rd.eof => Boundary(rd.end)) /\ (rd.resyncing => rd.out = <<>> /\ ~rd.fragmented)
    BY DEF Reading, Buffer
  <2> QED BY <2>1, <2>2, <2>3 DEF Buffer
<1>7. Progress(rd)'
  <2>1. ASSUME NEW i \in DOMAIN file', Wanted(i, rd)', At(i)' < rd.pos PROVE Taken(i, rd)
    <3>1. i \in DOMAIN file /\ At(i)' = At(i) /\ Wanted(i, rd)
      BY <2>1, <1>0, WantedStays DEF Old
    <3> QED BY <2>1, <3>1 DEF Reading, Progress
  <2>2. ASSUME rd.eof, NEW i \in DOMAIN file', file'[i].record \in rd.due
        PROVE  EndOf(i)' <= rd.end
    <3>1. PICK n \in complete : n = file'[i].record
      BY <2>2, <1>0 DEF ReaderType
    <3>2. i \in DOMAIN file /\ file[i].record = n /\ EndOf(i)' = EndOf(i)
      BY <3>1, CompleteStays DEF Old
    <3> QED BY <2>2, <3>1, <3>2 DEF Reading, Progress
  <2> QED BY <2>1, <2>2 DEF Progress, Taken
<1>8. Faultless(rd)'
  <2> SUFFICES ASSUME crashes' = 0, rd.initial = 0
               PROVE  /\ ~rd.reported
                      /\ ~rd.resyncing
                      /\ rd.end <= size'
                      /\ ~rd.fragmented => \A i \in DOMAIN file' :
                            At(i)' < rd.pos /\ ~Ends(i)' => i + 1 \in DOMAIN file' /\ At(i + 1)' < rd.pos
    BY DEF Faultless
  <2>1. /\ ~rd.reported
        /\ ~rd.resyncing
        /\ rd.end <= size
        /\ ~rd.fragmented => \A i \in DOMAIN file :
              At(i) < rd.pos /\ ~Ends(i) => i + 1 \in DOMAIN file /\ At(i + 1) < rd.pos
    BY <1>1 DEF Reading, Faultless
  <2>2. rd.end <= size'
    BY <2>1, <1>1
  <2>3. ASSUME ~rd.fragmented, NEW i \in DOMAIN file', At(i)' < rd.pos, ~Ends(i)'
        PROVE  i + 1 \in DOMAIN file' /\ At(i + 1)' < rd.pos
    <3>1. Old(i)
      BY <2>1, <2>3, <1>2
    <3>2. i \in DOMAIN file /\ At(i) < rd.pos /\ ~Ends(i)
      BY <2>3, <3>1 DEF Old
    <3>3. i + 1 \in DOMAIN file /\ At(i + 1) < rd.pos
      BY <2>1, <2>3, <3>2
    <3>4. PICK m : m = i + 1
      OBVIOUS
    <3>5. m \in DOMAIN file' /\ m \in DOMAIN file /\ At(m) < rd.pos
      BY <3>3, <3>4, <1>1
    <3>6. At(m)' = At(m)
      BY <3>5, OldOrNew DEF Old
    <3> QED BY <3>4, <3>5, <3>6 DEF At
  <2> QED BY <2>1, <2>2, <2>3
<1> QED BY <1>3, <1>4, <1>5, <1>6, <1>7, <1>8 DEF Reading

LEMMA FinishedGrows ==
    ASSUME FileInv, FileInv', Grows, NEW rd, Finished(rd)
    PROVE  Finished(rd)'
<1>0. ReaderType(rd) /\ Output(rd) /\ complete \subseteq complete' /\ (crashes' = 0 => crashes = 0)
  BY DEF Finished, Grows
<1>1. ReaderType(rd)' /\ Output(rd)'
  BY <1>0, OutputGrows DEF ReaderType
<1>2. ASSUME NEW k \in DOMAIN rd.out
      PROVE  RecordOf(rd.out[k])' = RecordOf(rd.out[k])
  <2>1. PICK o \in Seq(Nat) : o = rd.out[k] /\ Piece(o, rd)
    <3>1. rd.out \in Seq(Seq(Nat))
      BY <1>0, ReaderFields
    <3>2. rd.out[k] \in Seq(Nat)
      BY <3>1
    <3> QED BY <3>2, <1>0 DEF Output
  <2>2. PICK i \in DOMAIN file : i = o[1] /\ ~Torn(i)
    <3>1. o # <<>>
      BY <2>1 DEF Piece
    <3>2. 1 \in DOMAIN o
      BY <3>1, EmptySeq
    <3> QED BY <3>2, <2>1 DEF Piece
  <2>3. file'[i] = file[i]
    BY <2>2, KeptFragment
  <2> QED BY <2>1, <2>2, <2>3 DEF RecordOf
<1>3. ASSUME NEW n \in rd.due
      PROVE  ((\E k \in DOMAIN rd.out : n = RecordOf(rd.out[k]))
                 <=> (StartOf(n) >= rd.initial /\ ~Spoiled(n)))'
  <2>1. n \in complete
    BY <1>0 DEF ReaderType
  <2>2. StartOf(n)' = StartOf(n) /\ (Spoiled(n)' <=> Spoiled(n))
    BY <2>1, CompleteStays
  <2>3. (\E k \in DOMAIN rd.out : n = RecordOf(rd.out[k]))
             <=> (StartOf(n) >= rd.initial /\ ~Spoiled(n))
    BY DEF Finished
  <2> QED BY <2>2, <2>3, <1>2
<1>4. (rd.state = "eof")' /\ (crashes = 0 /\ rd.initial = 0 => ~rd.reported)'
  BY <1>0 DEF Finished
<1> QED BY <1>1, <1>3, <1>4 DEF Finished

LEMMA SameReader ==
    ASSUME ReaderInv, UNCHANGED <<file, size, complete, crashes, reader>>
    PROVE  ReaderInv'
<1>1. PICK rd : rd = reader
  OBVIOUS
<1>2. reader' = rd
  BY <1>1
<1>3. CASE reader = NoReader
  <2>1. (reader = NoReader)'
    BY <1>3
  <2> QED BY <2>1 DEF ReaderInv
<1>4. CASE Reading(reader)
  <2>1. Reading(rd)
    BY <1>1, <1>4
  <2>2. Reading(reader)'
    BY <1>2, <2>1, ReadingPrimed
  <2> QED BY <2>2 DEF ReaderInv
<1>5. CASE Finished(reader)
  <2>1. Finished(rd)
    BY <1>1, <1>5
  <2>2. Finished(reader)'
    BY <1>2, <2>1, FinishedPrimed
  <2> QED BY <2>2 DEF ReaderInv
<1> QED BY <1>3, <1>4, <1>5 DEF ReaderInv

LEMMA GrowsReader ==
    ASSUME FileInv, FileInv', ReaderInv, Grows
    PROVE  ReaderInv'
<1>1. PICK rd : rd = reader
  OBVIOUS
<1>2. reader' = rd
  BY <1>1 DEF Grows
<1>3. CASE reader = NoReader
  <2>1. (reader = NoReader)'
    BY <1>1, <1>2, <1>3 DEF NoReader
  <2> QED BY <2>1 DEF ReaderInv
<1>4. CASE Reading(reader)
  <2>1. Reading(rd)
    BY <1>1, <1>4
  <2>2. Reading(rd)'
    BY <1>1, <2>1, ReadingGrows
  <2>3. Reading(reader)'
    BY <1>2, <2>2
  <2> QED BY <2>3 DEF ReaderInv
<1>5. CASE Finished(reader)
  <2>1. Finished(rd)
    BY <1>1, <1>5
  <2>2. Finished(rd)'
    BY <2>1, FinishedGrows
  <2>3. Finished(reader)'
    BY <1>2, <2>2
  <2> QED BY <2>3 DEF ReaderInv
<1> QED BY <1>3, <1>4, <1>5 DEF ReaderInv

LEMMA ReadReader ==
    ASSUME FileInv, ReaderInv, Read
    PROVE  ReaderInv'
<1>1. UNCHANGED <<file, size, complete, crashes>> /\ reader.state = "reading"
  BY DEF Read, Refill, ReadFragment, DropBuffer, EndOfFile, Reads
<1>2. Reading(reader)
  BY <1>1 DEF ReaderInv, NoReader, Finished
<1>3. CASE Refill \/ ReadFragment \/ DropBuffer
  <2>1. PICK next : reader' = next /\ Reading(next)
    BY <1>2, <1>3, RefillReads, ReadFragmentReads, DropBufferReads
  <2>2. Reading(reader)'
    BY <1>1, <2>1, ReadingPrimed
  <2> QED BY <2>2 DEF ReaderInv
<1>4. CASE EndOfFile
  <2>1. PICK next : reader' = next /\ Finished(next)
    BY <1>2, <1>4, EndOfFileReads
  <2>2. Finished(reader)'
    BY <1>1, <2>1, FinishedPrimed
  <2> QED BY <2>2 DEF ReaderInv
<1> QED BY <1>3, <1>4 DEF Read

LEMMA OpenReader ==
    ASSUME FileInv, ReaderInv, NEW initial \in Offsets, Open(initial)
    PROVE  ReaderInv'
<1>1. initial \in Nat /\ UNCHANGED <<file, size, complete, crashes>>
  BY RecordLogAssumption DEF Open
<1>2. reader = NoReader
  BY DEF Open, ReaderInv, Reading, Finished
<1>3. PICK next : reader' = next /\ Reading(next)
  BY <1>1, <1>2, OpenReads
<1>4. Reading(reader)'
  BY <1>1, <1>3, ReadingPrimed
<1> QED BY <1>4 DEF ReaderInv

\* The inductive invariant: how the file is built up, what the writer is in the
\* middle of, and what the reader has read and is still to read.
THEOREM LogInvariant == Spec => []LogInv
<1>1. Init => LogInv
  BY InitFileInv DEF LogInv, ReaderInv, Init
<1>2. LogInv /\ [Next]_vars => LogInv'
  <2> SUFFICES ASSUME FileInv, ReaderInv, [Next]_vars PROVE FileInv' /\ ReaderInv'
    BY DEF LogInv
  <2>1. ASSUME NEW length \in Lengths, AddRecord(length) PROVE FileInv' /\ ReaderInv'
    <3>1. UNCHANGED <<file, size, complete, crashes, reader>>
      BY <2>1 DEF AddRecord
    <3> QED BY <2>1, <3>1, AddRecordFile, SameReader
  <2>2. CASE EmitPhysicalRecord
    BY <2>2, EmitFile, EmitGrows, GrowsReader
  <2>3. ASSUME NEW bytes \in Pieces \cup {Unwritten}, WriteOut(bytes) PROVE FileInv' /\ ReaderInv'
    BY <2>3, WriteOutFile, WriteOutGrows, GrowsReader
  <2>4. CASE Crash
    BY <2>4, CrashFile, CrashGrows, GrowsReader
  <2>5. ASSUME NEW initial \in Offsets, Open(initial) PROVE FileInv' /\ ReaderInv'
    <3>1. UNCHANGED <<file, size, block_offset, record, lengths, complete, crashes>>
      BY <2>5 DEF Open
    <3> QED BY <2>5, <3>1, FileStutter, OpenReader
  <2>6. CASE Read
    <3>1. UNCHANGED <<file, size, block_offset, record, lengths, complete, crashes>>
      BY <2>6 DEF Read, Refill, ReadFragment, DropBuffer, EndOfFile, Reads
    <3> QED BY <2>6, <3>1, FileStutter, ReadReader
  <2>7. CASE UNCHANGED vars
    <3>1. UNCHANGED <<file, size, block_offset, record, lengths, complete, crashes>>
          /\ UNCHANGED <<file, size, complete, crashes, reader>>
      BY <2>7 DEF vars
    <3> QED BY <3>1, FileStutter, SameReader
  <2> QED BY <2>1, <2>2, <2>3, <2>4, <2>5, <2>6, <2>7 DEF Next
<1> QED BY <1>1, <1>2, PTL DEF Spec

-----------------------------------------------------------------------------
(* Theorems. *)

LEMMA TypeFromInv == LogInv => TypeOK
<1> SUFFICES ASSUME LogInv PROVE TypeOK
  OBVIOUS
<1>0. FileInv /\ FileType /\ Tiled /\ Underway /\ ReaderInv
  BY DEF LogInv, FileInv
<1>1. ASSUME NEW i \in DOMAIN file
      PROVE  /\ file[i].type \in {"full", "first", "middle", "last"}
             /\ file[i].record \in DOMAIN lengths
             /\ (file[i].at % BlockSize) + FragmentSize(file[i]) <= BlockSize
             /\ file[i].have \in 0 .. FragmentSize(file[i])
  <2>1. /\ file[i].type \in Types /\ file[i].at \in Nat /\ file[i].have \in Nat
        /\ file[i].have <= FragmentSize(file[i]) /\ FragmentSize(file[i]) \in Nat
    BY <1>0, InFile
  <2>2. PICK m \in Nat : m = file[i].at % BlockSize
    BY <2>1, DivMod, Sizes
  <2>3. file[i].at + FragmentSize(file[i]) <= (file[i].at - m) + BlockSize
    BY <1>0, <2>2 DEF Tiled, EndOf, At, BlockStart
  <2>4. m + FragmentSize(file[i]) <= BlockSize
    BY <2>1, <2>3, Sizes
  <2> QED BY <1>0, <2>1, <2>2, <2>4 DEF FileType, Types
<1>2. record.number \in 0 .. Len(lengths) /\ record.left \in Nat
  <2>1. record.number \in Nat /\ record.left \in Nat /\ Len(lengths) \in Nat
    BY <1>0 DEF FileType
  <2> QED BY <1>0, <2>1 DEF Underway
<1>3. reader.state \in {"none", "reading", "eof"} /\ reader.pos \in 0 .. reader.end
  <2>1. CASE reader = NoReader
    BY <2>1 DEF NoReader
  <2>2. CASE ReaderType(reader)
    <3>1. reader.pos \in Nat /\ reader.end \in Nat /\ reader.pos <= reader.end
          /\ reader.state \in {"none", "reading", "eof"}
      BY <2>2, ReaderFields
    <3> QED BY <3>1
  <2> QED BY <1>0, <2>1, <2>2 DEF ReaderInv, Reading, Finished
<1> QED BY <1>0, <1>1, <1>2, <1>3 DEF TypeOK, FileType

\* Fragments do not cross blocks, the writer's counters stay in their ranges
\* and the reader does not go beyond its buffer, whatever the sizes.
THEOREM TypeCorrect == Spec => []TypeOK
BY LogInvariant, TypeFromInv, PTL

\* A reader that has returned anything has returned pieces that end.
LEMMA OutputOf ==
    ASSUME LogInv, reader.out # <<>>
    PROVE  ReaderType(reader) /\ Output(reader)
BY DEF LogInv, ReaderInv, NoReader, Reading, Finished

LEMMA WholeFromInv == LogInv => ReadsWholeRecords
<1> SUFFICES ASSUME LogInv PROVE ReadsWholeRecords
  OBVIOUS
<1>0. FileInv /\ FileType /\ Joined
  BY DEF LogInv, FileInv
<1>1. CASE reader.out = <<>>
  <2>1. DOMAIN reader.out = {}
    BY <1>1
  <2> QED BY <2>1 DEF ReadsWholeRecords
<1>2. CASE reader.out # <<>>
  <2>0. ReaderType(reader) /\ Output(reader)
    BY <1>2, OutputOf
  <2>1. ASSUME NEW k \in DOMAIN reader.out
        PROVE  \E o \in Seq(Nat) : o = reader.out[k] /\ Piece(o, reader) /\ Ends(Last(o))
    <3>1. reader.out \in Seq(Seq(Nat))
      BY <2>0, ReaderFields
    <3>2. reader.out[k] \in Seq(Nat)
      BY <3>1
    <3> QED BY <3>2, <2>0 DEF Output
  <2>2. ASSUME NEW o \in Seq(Nat), Piece(o, reader), Ends(Last(o))
        PROVE  LET n == RecordOf(o)
                   next(j) == file[o[j]].from + file[o[j]].length
               IN  /\ o # <<>>
                   /\ \A j \in DOMAIN o : file[o[j]].record = n /\ ~Torn(o[j])
                   /\ file[o[1]].from = 0
                   /\ \A j \in 1 .. Len(o) - 1 : o[j + 1] = o[j] + 1 /\ file[o[j + 1]].from = next(j)
                   /\ next(Len(o)) = lengths[n]
                   /\ ~\E i \in DOMAIN file \ ToSet(o) : file[i].record = n
    <3>1. /\ Len(o) \in Nat /\ Len(o) > 0 /\ 1 \in DOMAIN o /\ Len(o) \in DOMAIN o
          /\ DOMAIN o = 1 .. Len(o) /\ Last(o) = o[Len(o)] /\ Last(o) \in DOMAIN file
          /\ file[Last(o)].record = file[o[1]].record
          /\ \A j \in DOMAIN o : o[j] \in DOMAIN file /\ o[j] \in Nat
      BY <1>0, <2>0, <2>2, LastOfPiece
    <3>2. o # <<>> /\ \A j \in DOMAIN o : file[o[j]].record = RecordOf(o) /\ ~Torn(o[j])
      BY <2>2 DEF Piece, RecordOf
    <3>3. file[o[1]].from = 0
      BY <1>0, <2>2, <3>1 DEF Piece, Joined
    <3>4. ASSUME NEW j \in 1 .. Len(o) - 1
          PROVE  o[j + 1] = o[j] + 1 /\ file[o[j + 1]].from = file[o[j]].from + file[o[j]].length
      <4>1. j \in Nat /\ j \in DOMAIN o /\ j + 1 \in DOMAIN o /\ j + 1 > 1 /\ (j + 1) - 1 = j
        BY <3>1
      <4>2. o[j] = o[1] + (j - 1) /\ o[j + 1] = o[1] + j /\ ~Begins(o[j + 1])
        BY <2>2, <4>1 DEF Piece
      <4>3. o[j + 1] = o[j] + 1 /\ o[j + 1] - 1 = o[j]
        BY <3>1, <4>1, <4>2
      <4>4. PICK i \in DOMAIN file : i = o[j + 1] /\ ~Begins(i) /\ i - 1 = o[j]
        BY <3>1, <4>1, <4>2, <4>3
      <4>5. file[i].from = file[i - 1].from + file[i - 1].length
        BY <1>0, <4>4 DEF Joined
      <4> QED BY <4>3, <4>4, <4>5
    <3>5. file[o[Len(o)]].from + file[o[Len(o)]].length = lengths[RecordOf(o)]
      BY <1>0, <2>2, <3>1 DEF Joined, RecordOf
    <3>6. ~\E i \in DOMAIN file \ ToSet(o) : file[i].record = RecordOf(o)
      <4> SUFFICES ASSUME NEW i \in DOMAIN file, i \notin ToSet(o), file[i].record = RecordOf(o)
                   PROVE  FALSE
        OBVIOUS
      <4>1. PICK j \in DOMAIN o : o[j] = i
        BY <1>0, <2>0, <2>2, WholePiece DEF RecordOf
      <4> QED BY <4>1 DEF ToSet
    <3> QED BY <3>2, <3>3, <3>4, <3>5, <3>6
  <2>3. ASSUME NEW k \in DOMAIN reader.out, NEW m \in DOMAIN reader.out, k < m
        PROVE  RecordOf(reader.out[k]) < RecordOf(reader.out[m])
    <3>1. PICK o \in Seq(Nat) : o = reader.out[k] /\ Piece(o, reader) /\ Ends(Last(o))
      BY <2>1
    <3>2. PICK p \in Seq(Nat) : p = reader.out[m] /\ Piece(p, reader) /\ Ends(Last(p))
      BY <2>1
    <3>3. Last(o) < p[1]
      BY <2>0, <2>3, <3>1, <3>2 DEF Output
    <3>4. Last(o) \in DOMAIN file /\ file[Last(o)].record = file[o[1]].record
      BY <1>0, <2>0, <3>1, LastOfPiece
    <3>5. p[1] \in DOMAIN file /\ Begins(p[1])
      BY <1>0, <2>0, <3>2, LastOfPiece DEF Piece
    <3>6. file[Last(o)].record < file[p[1]].record
      BY <1>0, <3>3, <3>4, <3>5 DEF Joined
    <3> QED BY <3>1, <3>2, <3>4, <3>6 DEF RecordOf
  <2>4. ASSUME NEW k \in DOMAIN reader.out
        PROVE  LET o       == reader.out[k]
                   n       == RecordOf(o)
                   next(j) == file[o[j]].from + file[o[j]].length
               IN  /\ o # <<>>
                   /\ \A j \in DOMAIN o : file[o[j]].record = n /\ ~Torn(o[j])
                   /\ file[o[1]].from = 0
                   /\ \A j \in 1 .. Len(o) - 1 : o[j + 1] = o[j] + 1 /\ file[o[j + 1]].from = next(j)
                   /\ next(Len(o)) = lengths[n]
                   /\ ~\E i \in DOMAIN file \ ToSet(o) : file[i].record = n
    BY <2>1, <2>2
  <2> QED BY <2>3, <2>4 DEF ReadsWholeRecords
<1> QED BY <1>1, <1>2

\* What a reader returns is always one record as it was written, and records
\* come in their order.
THEOREM WholeRecords == Spec => []ReadsWholeRecords
BY LogInvariant, WholeFromInv, PTL

LEMMA AllFromInv == LogInv => ReadsWhatWasWritten
<1> SUFFICES ASSUME LogInv, reader.state = "eof"
             PROVE  {n \in reader.due : n \in {RecordOf(reader.out[k]) : k \in DOMAIN reader.out}}
                      = {n \in reader.due : StartOf(n) >= reader.initial /\ ~Spoiled(n)}
  BY DEF ReadsWhatWasWritten
<1>1. Finished(reader)
  BY DEF LogInv, ReaderInv, NoReader, Reading
<1>2. \A n \in reader.due :
          (\E k \in DOMAIN reader.out : n = RecordOf(reader.out[k]))
              <=> (StartOf(n) >= reader.initial /\ ~Spoiled(n))
  BY <1>1 DEF Finished
<1> QED BY <1>2

\* At the end of the file a reader has returned exactly the records complete
\* when it was opened that start at its initial offset or later and are not
\* spoiled.
THEOREM ReadsAll == Spec => []ReadsWhatWasWritten
BY LogInvariant, AllFromInv, PTL

LEMMA NoAlarmFromInv == LogInv => NoFalseAlarm
<1> SUFFICES ASSUME LogInv, reader.reported PROVE crashes > 0 \/ reader.initial > 0
  BY DEF NoFalseAlarm
<1>1. crashes \in Nat
  BY DEF LogInv, FileInv, FileType
<1>2. Reading(reader) \/ Finished(reader)
  BY DEF LogInv, ReaderInv, NoReader
<1>3. ReaderType(reader) /\ ~(crashes = 0 /\ reader.initial = 0)
  BY <1>2 DEF Reading, Finished, Faultless
<1>4. reader.initial \in Nat
  BY <1>3, ReaderFields
<1> QED BY <1>1, <1>3, <1>4

\* No reader of the whole log of an uninterrupted writer reports corruption.
THEOREM NoAlarm == Spec => []NoFalseAlarm
BY LogInvariant, NoAlarmFromInv, PTL

LEMMA BytesOfFragment ==
    ASSUME FileType, NEW i \in DOMAIN file
    PROVE  TypeByte(i) \in Bytes /\ Payload(i) \in Seq(Bytes)
<1>1. file[i].type \in Types /\ file[i].length \in Nat
  BY InFile
<1>2. TypeByte(i) \in Bytes
  <2>1. {0} \in Bytes /\ {1} \in Bytes /\ {0, 1} \in Bytes /\ {2} \in Bytes
    BY DEF Bytes
  <2> QED BY <1>1, <2>1 DEF TypeByte, Types
<1>3. \A n : Low(Bits(n)) \in Bytes
  BY DEF Low, Bytes
<1>4. Payload(i) \in [1 .. file[i].length -> Bytes]
  BY <1>3 DEF Payload
<1> QED BY <1>1, <1>2, <1>4, SequenceIs

LEMMA FitFromInv == LogInv => ChecksumsFit
<1> SUFFICES ASSUME LogInv, file # <<>> PROVE ChecksumsFit
  BY DEF ChecksumsFit
<1> DEFINE i        == Len(file)
           fragment == <<TypeByte(i)>> \o Payload(i)
           crc      == Crc32c(fragment)
           pval     == (file[i].at % BlockSize) + 6
<1>1. FileType /\ i \in DOMAIN file
  <2>1. FileType /\ file \in Seq(Fragments)
    BY DEF LogInv, FileInv, FileType
  <2> QED BY <2>1
<1>2. TypeByte(i) \in Bytes /\ Payload(i) \in Seq(Bytes)
  BY <1>1, BytesOfFragment
<1>3. pval \in Nat
  <2>1. file[i].at \in Nat
    BY <1>1, InFile
  <2> QED BY <2>1, DivMod, Sizes
<1>4. fragment \in Seq(Bytes)
  BY <1>2, StoredIs
<1>5. \A ptr \in 0..3 : StoredChecksum(TypeByte(i), Payload(i), ptr) = Mask(crc)
  BY <1>2, StoredIs
<1> HIDE DEF pval, fragment
<1>6. crc \in Registers /\ Mask(crc) \in Registers
  BY <1>3, <1>4, JustTheChecksumIsAccepted, MaskInverse
<1>7. \A word \in Registers : IsAccepted(word, fragment, pval) <=> word = Mask(crc)
  BY <1>3, <1>4, JustTheChecksumIsAccepted
<1>8. ASSUME NEW k \in DOMAIN fragment
      PROVE  ~IsAccepted(Mask(crc), [fragment EXCEPT ![k] = Xor(@, {0, 3, 7})], pval)
  <2> DEFINE b       == Xor(fragment[k], {0, 3, 7})
             changed == [fragment EXCEPT ![k] = b]
  <2>1. b \in Bytes /\ b # fragment[k]
    <3>1. fragment[k] \in Bytes
      BY <1>4
    <3>2. {0, 3, 7} \in Bytes /\ {0, 3, 7} # {}
      BY DEF Bytes
    <3> QED BY <3>1, <3>2, XorOfBytes
  <2> HIDE DEF b
  <2>2. changed \in Seq(Bytes) /\ Crc32c(changed) # crc
    BY <1>4, <2>1, OneByteIsNoticed
  <2> HIDE DEF changed
  <2>3. Crc32c(changed) \in Registers /\ (IsAccepted(Mask(crc), changed, pval)
                                           <=> Mask(crc) = Mask(Crc32c(changed)))
    BY <1>3, <1>6, <2>2, JustTheChecksumIsAccepted
  <2>4. Mask(crc) # Mask(Crc32c(changed))
    BY <1>6, <2>2, <2>3, MaskInverse
  <2> QED BY <2>3, <2>4 DEF changed, b
<1>9. \A word \in {crc, Xor(Mask(crc), {0}), Xor(Mask(crc), {31})} \ {Mask(crc)} :
          ~IsAccepted(word, fragment, pval)
  <2>1. {0} \in SUBSET Ones /\ {31} \in SUBSET Ones
    BY DEF Ones
  <2>2. Xor(Mask(crc), {0}) \in Registers /\ Xor(Mask(crc), {31}) \in Registers
    BY <1>6, <2>1, XorType DEF Registers
  <2> QED BY <1>6, <1>7, <2>2
<1> QED BY <1>5, <1>6, <1>7, <1>8, <1>9 DEF ChecksumsFit, pval, fragment

\* What the writer stores with a fragment is what the reader computes of it and
\* no other checksum is accepted, whatever the record, its address and the
\* place in the block; a byte changed in it is noticed.
THEOREM Checksums == Spec => []ChecksumsFit
BY LogInvariant, FitFromInv, PTL
=============================================================================
