---------------------------- MODULE TableProofs ----------------------------
(***************************************************************************)
(* Theorems about Table, for every schema, set of statements, threshold    *)
(* and bound: its invariants, and, from what a short read means, that it   *)
(* implements FirstWriteStore and that a batch is a slice of the log.      *)
(***************************************************************************)
EXTENDS Table, SequenceTheorems, WellFoundedInduction, TLAPS

(* Least and greatest elements. *)

\* A set of naturals that is not empty has a least element, and Min is it.
LEMMA LeastElement ==
    ASSUME NEW S \in SUBSET Nat, S # {}
    PROVE  Min(S) \in S /\ \A y \in S : Min(S) <= y
<1>1. PICK x \in S : \A y \in S : <<y, x>> \notin OpToRel(<, Nat)
  BY NatLessThanWellFounded, WFMin, Zenon
<1>2. \A y \in S : x <= y
  <2>1. \A y \in S : ~(y < x)
    BY <1>1, Zenon DEF OpToRel
  <2> QED BY <2>1
<1> QED BY <1>2 DEF Min

\* A bounded set of naturals that is not empty has a greatest element.
LEMMA GreatestElement ==
    ASSUME NEW S \in SUBSET Nat, S # {}, NEW n \in Nat, \A x \in S : x <= n
    PROVE  Max(S) \in S /\ \A y \in S : y <= Max(S)
<1> DEFINE T == {k \in Nat : n - k \in S}
<1>1. T # {}
  <2>1. PICK x \in S : TRUE
    OBVIOUS
  <2>2. n - x \in Nat /\ n - (n - x) = x
    BY <2>1
  <2> QED BY <2>1, <2>2
<1>2. Min(T) \in T /\ \A y \in T : Min(T) <= y
  BY <1>1, LeastElement
<1> DEFINE x == n - Min(T)
<1>3. x \in S /\ \A y \in S : y <= x
  <2>1. \A y \in S : n - y \in T
    OBVIOUS
  <2> QED BY <1>2, <2>1
<1> HIDE DEF x
<1> QED BY <1>3 DEF Max

-----------------------------------------------------------------------------
(* Type correctness. *)

Records == [offset : Nat, at : Nat, stmt : Statements]

\* The end of a record and of the file are positions.
LEMMA EndType ==
    ASSUME TypeOK
    PROVE  /\ DOMAIN log = 1 .. Len(log) /\ Len(log) \in Nat
           /\ \A i \in DOMAIN log :
                 /\ log[i] \in Records
                 /\ SizeOf[log[i].stmt] \in Nat
                 /\ EndOf(i) \in Nat
           /\ FileEnd \in Nat
           /\ FlushedEnd \in Nat
<1>1. DOMAIN log = 1 .. Len(log) /\ Len(log) \in Nat
  BY DEF TypeOK
<1>2. \A i \in DOMAIN log : log[i] \in Records
  BY <1>1, ElementOfSeq DEF TypeOK, Records
<1>3. \A i \in DOMAIN log : SizeOf[log[i].stmt] \in Nat /\ EndOf(i) \in Nat
  BY <1>2, StatementAssumption DEF Records, EndOf, HeaderSize
<1>4. FileEnd \in Nat
  <2>1. log # <<>> => Len(log) \in DOMAIN log
    BY <1>1, EmptySeq DEF TypeOK
  <2> QED BY <1>3, <2>1 DEF FileEnd
<1>5. FlushedEnd \in Nat
  <2>1. flushed # 0 => flushed \in DOMAIN log
    BY <1>1 DEF TypeOK
  <2> QED BY <1>3, <2>1 DEF FlushedEnd
<1> QED BY <1>1, <1>2, <1>3, <1>4, <1>5

\* When FindMessage returns a message it is one of the log.
LEMMA MessageIsLogged ==
    ASSUME NEW o, FindMessage(o).kind = "message"
    PROVE  FindMessage(o).at \in DOMAIN log
BY DEF FindMessage, OnTrack


\* What appending a record does to the log.
LEMMA AppendRecordProperties ==
    ASSUME TypeOK, NEW s \in Statements, AppendRecord(s)
    PROVE  /\ log' \in Seq(Records)
           /\ Len(log') = Len(log) + 1
           /\ DOMAIN log' = 1 .. Len(log) + 1
           /\ \A i \in 1 .. Len(log) : log'[i] = log[i]
           /\ log'[Len(log) + 1] =
                 [offset |-> current_offset, at |-> FileEnd, stmt |-> s]
           /\ flushed' \in flushed .. Len(log')
           /\ flushed' \in 0 .. Len(log')
           /\ current_pos' \in Nat
<1>1. FileEnd \in Nat /\ Len(log) \in Nat
  BY EndType
<1>2. log \in Seq(Records)
  BY DEF TypeOK, Records
<1> DEFINE r == [offset |-> current_offset, at |-> FileEnd, stmt |-> s]
<1>3. r \in Records
  BY <1>1 DEF Records, TypeOK
<1>4. log' = Append(log, r)
  BY DEF AppendRecord
<1> HIDE DEF r
<1>5. /\ log' \in Seq(Records)
      /\ Len(log') = Len(log) + 1
      /\ DOMAIN log' = 1 .. Len(log) + 1
      /\ \A i \in 1 .. Len(log) : log'[i] = log[i]
      /\ log'[Len(log) + 1] = r
  BY <1>2, <1>3, <1>4
<1>6. flushed' \in flushed .. Len(log') /\ flushed' \in 0 .. Len(log')
  BY <1>5, <1>1 DEF AppendRecord, TypeOK
<1>7. current_pos' \in Nat
  <2>1. current_pos + HeaderSize + SizeOf[s] \in Nat
    BY StatementAssumption DEF TypeOK, HeaderSize
  <2> QED BY <2>1, ThresholdAssumption DEF AppendRecord
<1> QED BY <1>5, <1>6, <1>7 DEF r

\* The state the constructor leaves has its types.
LEMMA InitTypeOK == Init => TypeOK
<1> SUFFICES ASSUME Init PROVE TypeOK
  OBVIOUS
<1>1. log \in Seq(Records) /\ reply.data \in Seq(Statements) /\ Len(log) = 0
  BY DEF Init, Reply
<1>2. segment_index \in [Bindings -> Nat \cup {NoOffset}]
  BY DEF Init
<1> QED BY <1>1, <1>2 DEF Init, TypeOK, Reply, Records

\* What a dying process leaves.
LEMMA DieTypeOK ==
    ASSUME TypeOK, NEW cause \in {"null_stream", "offset_assert", "open_assert"},
           Die(cause)
    PROVE  TypeOK'
BY DEF TypeOK, Die, Bindings

\* The sequence a batch read returns is made of statements of the log.
LEMMA BatchDataType ==
    ASSUME TypeOK, NEW start \in Nat, NEW upto \in Nat, NEW found,
           \A o \in start .. upto - 1 : found[o].at \in DOMAIN log
    PROVE  [k \in 1 .. upto - start |-> log[found[start + k - 1].at].stmt]
              \in Seq(Statements)
<1> DEFINE data == [k \in 1 .. upto - start |-> log[found[start + k - 1].at].stmt]
<1>1. \A k \in 1 .. upto - start : log[found[start + k - 1].at].stmt \in Statements
  <2> TAKE k \in 1 .. upto - start
  <2>1. start + k - 1 \in start .. upto - 1
    OBVIOUS
  <2>2. log[found[start + k - 1].at] \in Records
    BY <2>1, EndType
  <2> QED BY <2>2 DEF Records
<1>2. CASE upto >= start
  <2> DEFINE n == upto - start
  <2>1. n \in Nat /\ data \in [1 .. n -> Statements]
    BY <1>1, <1>2
  <2> HIDE DEF n, data
  <2>2. data \in Seq(Statements)
    BY <2>1, SeqDef
  <2> QED BY <2>2 DEF n, data
<1>3. CASE upto < start
  <2>1. 1 .. upto - start = 1 .. 0
    BY <1>3
  <2>2. data \in [1 .. 0 -> Statements]
    BY <1>1, <2>1
  <2> QED BY <2>2, SeqDef
<1> QED BY <1>2, <1>3

\* Every operation keeps them: one step per operation, one case per outcome.
LEMMA NextTypeOK == TypeOK /\ [Next]_vars => TypeOK'
<1> SUFFICES ASSUME TypeOK, [Next]_vars PROVE TypeOK'
  OBVIOUS
<1> USE DEF Reply
<1>1. ASSUME NEW s \in Statements, Put(s) PROVE TypeOK'
  <2>1. AppendRecord(s) /\ PutDisk(s) /\ PutIndex(s)
    BY <1>1 DEF Put
  <2>2. /\ log' \in Seq(Records) /\ flushed' \in 0 .. Len(log')
        /\ current_pos' \in Nat
    BY <2>1, AppendRecordProperties
  <2>3. /\ DOMAIN offset_pos_map' \subseteq Nat
        /\ \A o \in DOMAIN offset_pos_map' : offset_pos_map'[o] \in Nat
    <3>1. current_pos \in Nat /\ current_offset \in Nat
      BY DEF TypeOK
    <3> QED BY <2>1, <3>1 DEF PutDisk, MapInsert, TypeOK
  <2>4. current_offset' \in Nat
    BY <2>1 DEF PutDisk, TypeOK
  <2>5. segment_index' \in [Bindings -> Nat \cup {NoOffset}]
    BY <2>1 DEF PutIndex, TypeOK
  <2>6. UNCHANGED <<stream, offset_message, status>>
    BY <1>1 DEF Put
  <2>7. reply'.op = "put" /\ reply'.ok \in BOOLEAN /\ reply'.data = <<>>
    BY <1>1 DEF Put
  <2>8. reply'.data \in Seq(Statements)
    BY <2>7
  <2> QED BY <2>2, <2>3, <2>4, <2>5, <2>6, <2>7, <2>8 DEF TypeOK, Records, Bindings
<1>2. ASSUME NEW s \in Statements, PutSyncFails(s) PROVE TypeOK'
  <2>1. /\ log' \in Seq(Records) /\ flushed' \in 0 .. Len(log')
        /\ current_pos' \in Nat
    BY <1>2, AppendRecordProperties DEF PutSyncFails
  <2>2. reply'.data \in Seq(Statements) /\ reply'.op = "put" /\ reply'.ok = FALSE
    BY <1>2 DEF PutSyncFails
  <2> QED BY <1>2, <2>1, <2>2 DEF PutSyncFails, TypeOK, Records, Bindings
<1>3. ASSUME NEW s \in Statements, PutNullStream(s) PROVE TypeOK'
  BY <1>3, DieTypeOK DEF PutNullStream
<1>4. ASSUME NEW f \in Fields, NEW t \in Timestamps \cup {BadTs}, NEW v \in Values,
             Get(f, t, v)
      PROVE  TypeOK'
  <2> DEFINE o == IndexedOffset(f, t, v)
             found == FindMessage(o)
  <2>1. o # NoOffset => o \in Nat
    BY DEF IndexedOffset, TypeOK
  <2>2. CASE reply' = Reply("get", <<f, GetTs(t), v>>, FALSE, <<>>)
             /\ UNCHANGED <<log, flushed, stream, current_pos, current_offset,
                            offset_pos_map, segment_index, offset_message, status>>
    <3>1. reply'.data \in Seq(Statements) /\ reply'.op = "get" /\ reply'.ok = FALSE
      BY <2>2
    <3> QED BY <2>2, <3>1 DEF TypeOK, Bindings
  <2>3. CASE o \in DOMAIN offset_message
             /\ reply' = Reply("get", <<f, GetTs(t), v>>, TRUE, <<offset_message[o]>>)
             /\ UNCHANGED <<log, flushed, stream, current_pos, current_offset,
                            offset_pos_map, segment_index, offset_message, status>>
    <3>1. offset_message[o] \in Statements
      BY <2>3 DEF TypeOK
    <3>2. reply'.data \in Seq(Statements) /\ reply'.op = "get" /\ reply'.ok = TRUE
      BY <2>3, <3>1
    <3> QED BY <2>3, <3>2 DEF TypeOK, Bindings
  <2>4. CASE o # NoOffset /\ found.kind = "message"
             /\ reply' = Reply("get", <<f, GetTs(t), v>>, TRUE, <<log[found.at].stmt>>)
             /\ offset_message' = MapInsert(offset_message, o, log[found.at].stmt)
             /\ UNCHANGED <<log, flushed, stream, current_pos, current_offset,
                            offset_pos_map, segment_index, status>>
    <3>1. log[found.at].stmt \in Statements
      BY <2>4, MessageIsLogged, EndType DEF Records
    <3>2. reply'.data \in Seq(Statements) /\ reply'.op = "get" /\ reply'.ok = TRUE
      BY <2>4, <3>1
    <3>3. /\ DOMAIN offset_message' \subseteq Nat
          /\ \A x \in DOMAIN offset_message' : offset_message'[x] \in Statements
      BY <2>1, <2>4, <3>1 DEF MapInsert, TypeOK
    <3> QED BY <2>4, <3>2, <3>3 DEF TypeOK, Bindings
  <2>5. CASE found.kind \in {"offset_assert", "open_assert"} /\ Die(found.kind)
    BY <2>5, DieTypeOK
  <2> QED BY <1>4, <2>2, <2>3, <2>4, <2>5 DEF Get
<1>5. ASSUME NEW start \in 0 .. MaxPuts, NEW end \in 1 .. MaxPuts + 1,
             GetBatchData(start, end)
      PROVE  TypeOK'
  <2> DEFINE found  == [o \in start .. end - 1 |-> FindMessage(o)]
             missed == {o \in start .. end - 1 : found[o].kind # "message"}
             upto   == IF missed = {} THEN end ELSE Min(missed)
             data   == [k \in 1 .. upto - start |-> log[found[start + k - 1].at].stmt]
  <2>0. start \in Nat /\ end \in Nat
    BY ThresholdAssumption
  <2>1. upto \in Nat /\ \A o \in start .. upto - 1 : o \in start .. end - 1 /\ o \notin missed
    <3>1. missed \in SUBSET Nat
      BY <2>0
    <3>2. CASE missed = {}
      BY <2>0, <3>2
    <3>3. CASE missed # {}
      <4>1. Min(missed) \in missed /\ \A y \in missed : Min(missed) <= y
        BY <3>1, <3>3, LeastElement
      <4> HIDE DEF missed
      <4>2. \A o \in start .. Min(missed) - 1 : o \notin missed
        <5>1. Min(missed) \in Nat
          BY <4>1, <3>1
        <5>2. \A o \in start .. Min(missed) - 1 : ~(Min(missed) <= o)
          BY <5>1, <2>0
        <5> QED BY <4>1, <5>2
      <4>3. Min(missed) \in start .. end - 1
        BY <4>1 DEF missed
      <4> QED BY <4>2, <4>3, <3>3, <2>0
    <3> QED BY <3>2, <3>3
  <2>2. \A o \in start .. upto - 1 : found[o].at \in DOMAIN log
    <3> TAKE o \in start .. upto - 1
    <3>1. FindMessage(o).kind = "message" /\ found[o] = FindMessage(o)
      BY <2>1
    <3> QED BY <3>1, MessageIsLogged
  <2>3. data \in Seq(Statements)
    <3> HIDE DEF found, missed, upto
    <3> QED BY <2>0, <2>1, <2>2, BatchDataType
  <2>4. CASE reply' = Reply("batch", <<start, end>>, missed = {}, data)
             /\ UNCHANGED <<log, flushed, stream, current_pos, current_offset,
                            offset_pos_map, segment_index, offset_message, status>>
    <3> HIDE DEF found, missed, upto, data
    <3>1. reply'.data \in Seq(Statements) /\ reply'.op = "batch" /\ reply'.ok \in BOOLEAN
      BY <2>3, <2>4
    <3> QED BY <2>4, <3>1 DEF TypeOK, Bindings
  <2>5. CASE found[upto].kind \in {"offset_assert", "open_assert"} /\ Die(found[upto].kind)
    <3> HIDE DEF found, missed, upto, data
    <3> QED BY <2>5, DieTypeOK
  <2> QED BY <1>5, <2>4, <2>5 DEF GetBatchData
<1>6. CASE Sync
  <2>0. <<>> \in Seq(Statements)
    OBVIOUS
  <2>1. flushed' \in 0 .. Len(log) /\ stream' \in {"open", "null"}
    BY <1>6, EndType DEF Sync, TypeOK
  <2>2. reply'.data = <<>> /\ reply'.op = "sync" /\ reply'.ok \in BOOLEAN
    <3>1. \/ reply' = Reply("sync", <<>>, TRUE, <<>>)
          \/ reply' = Reply("sync", <<>>, FALSE, <<>>)
      BY <1>6 DEF Sync
    <3>2. CASE reply' = Reply("sync", <<>>, TRUE, <<>>)
      BY <3>2, Zenon
    <3>3. CASE reply' = Reply("sync", <<>>, FALSE, <<>>)
      BY <3>3, Zenon
    <3> QED BY <3>1, <3>2, <3>3
  <2> QED BY <1>6, <2>0, <2>1, <2>2 DEF Sync, TypeOK, Bindings
<1>7. CASE SyncNullStream
  <2>1. CASE Die("null_stream")
    BY <2>1, DieTypeOK
  <2>2. CASE ~Die("null_stream")
    <3>1. flushed' \in 0 .. Len(log)
      BY <1>7, <2>2, EndType DEF SyncNullStream, TypeOK
    <3>2. reply'.data \in Seq(Statements) /\ reply'.op = "sync" /\ reply'.ok = FALSE
      <4>1. reply' = Reply("sync", <<>>, FALSE, <<>>)
        BY <1>7, <2>2 DEF SyncNullStream
      <4>2. <<>> \in Seq(Statements)
        OBVIOUS
      <4>3. reply'.data = <<>> /\ reply'.op = "sync" /\ reply'.ok = FALSE
        BY <4>1
      <4> QED BY <4>2, <4>3
    <3> QED BY <1>7, <2>2, <3>1, <3>2 DEF SyncNullStream, TypeOK, Bindings
  <2> QED BY <2>1, <2>2
<1>8. CASE UNCHANGED vars
  BY <1>8 DEF vars, TypeOK, Bindings
<1> QED BY <1>1, <1>2, <1>3, <1>4, <1>5, <1>6, <1>7, <1>8 DEF Next

\* Every variable keeps its type, for every schema, set of statements and
\* threshold: offsets and positions stay natural numbers and everything a
\* reply, the cache or the log holds is a statement that was put.
THEOREM TypeCorrect == Spec => []TypeOK
<1>1. Init => TypeOK
  BY InitTypeOK
<1>2. TypeOK /\ [Next]_vars => TypeOK'
  BY NextTypeOK
<1> QED BY <1>1, <1>2, PTL DEF Spec
-----------------------------------------------------------------------------
(* Safety: what the log, the two indexes, the cache and the answers of Get
   have to do with one another. *)

\* The conjuncts need one another: reading a record takes the sparse index,
\* which takes the position counter and the numbering of the log; an answer
\* takes the memory index and the cache.
TableInv ==
    /\ TypeOK
    /\ OffsetsAreDense
    /\ PositionsAgree
    /\ SparseIndexFindsRecords
    /\ IndexIsReplayOfLog
    /\ CacheIsCoherent
    /\ NoAssertionFails
    /\ GetReturnsFirstPut

-----------------------------------------------------------------------------
(* What FindMessage returns. *)

\* The scan always ends, at the first record that ends it.
LEMMA ScanEndExists ==
    ASSUME TypeOK, NEW o, NEW from, NEW first \in DOMAIN log
    PROVE  /\ ScanEnd(o, from, first) \in first .. Len(log) + 1
           /\ ScanEnds(o, from, first, ScanEnd(o, from, first))
           /\ \A j \in first .. ScanEnd(o, from, first) - 1 : ~ScanEnds(o, from, first, j)
<1> DEFINE E == {i \in first .. Len(log) + 1 : ScanEnds(o, from, first, i)}
<1>1. DOMAIN log = 1 .. Len(log) /\ Len(log) \in Nat
  BY EndType
<1>2. Len(log) + 1 \in E
  <2>1. ~OnTrack(from, first, Len(log) + 1)
    BY <1>1 DEF OnTrack
  <2> QED BY <1>1, <2>1 DEF ScanEnds
<1>3. E \in SUBSET Nat /\ E # {}
  BY <1>1, <1>2
<1>4. Min(E) \in E /\ \A y \in E : Min(E) <= y
  BY <1>3, LeastElement
<1>5. Min(E) \in first .. Len(log) + 1 /\ ScanEnds(o, from, first, Min(E))
  BY <1>4
<1>6. \A j \in first .. Min(E) - 1 : ~ScanEnds(o, from, first, j)
  <2> SUFFICES ASSUME NEW j \in first .. Min(E) - 1, ScanEnds(o, from, first, j)
               PROVE  FALSE
    OBVIOUS
  <2>1. j \in E
    BY <1>1, <1>5
  <2> HIDE DEF E
  <2>2. Min(E) <= j /\ Min(E) \in Nat
    BY <1>3, <1>4, <2>1
  <2> QED BY <1>1, <2>2
<1> HIDE DEF E
<1> QED BY <1>5, <1>6 DEF ScanEnd

\* A message FindMessage returns for o is the record of offset o, whatever
\* the size of the log.
LEMMA MessageHasOffset ==
    ASSUME TypeOK, OffsetsAreDense, NEW o, FindMessage(o).kind = "message"
    PROVE  FindMessage(o).at = o + 1 /\ o + 1 \in DOMAIN log
<1> DEFINE from  == FindOffsetPosition(o)
           heads == {i \in DOMAIN log : log[i].at = from.pos}
           first == CHOOSE i \in heads : TRUE
           i     == ScanEnd(o, from, first)
<1>1. /\ heads # {}
      /\ Readable(ScanPos(from.pos, first, i))
      /\ OnTrack(from, first, i)
      /\ FindMessage(o).at = i
  <2> HIDE DEF from, first, i
  <2> QED BY DEF FindMessage, from, heads, first, i
<1>2. first \in DOMAIN log
  <2> HIDE DEF from
  <2> QED BY <1>1
<1>3. ScanEnds(o, from, first, i)
  <2> HIDE DEF from, first
  <2> QED BY <1>2, ScanEndExists
<1>4. i \in DOMAIN log /\ log[i].offset = o
  <2> HIDE DEF from, first, i
  <2> QED BY <1>1, <1>3 DEF ScanEnds, OnTrack
<1> HIDE DEF i
<1>5. log[i].offset = i - 1 /\ i \in Nat
  BY <1>4, EndType DEF OffsetsAreDense
<1> QED BY <1>1, <1>4, <1>5

\* What precedes a position of the log ends where it begins, and nothing
\* flushed is beyond the end of the file.
LEMMA FlushedEndInFile ==
    ASSUME TypeOK, PositionsAgree
    PROVE  /\ FlushedEnd <= FileEnd
           /\ \A i \in DOMAIN log : EndOf(i) <= FileEnd /\ log[i].at < FileEnd
<1>1. DOMAIN log = 1 .. Len(log) /\ Len(log) \in Nat
  BY EndType
<1>2. \A i \in DOMAIN log : EndOf(i) \in Nat /\ log[i].at < EndOf(i) /\ log[i].at \in Nat
  BY EndType DEF EndOf, HeaderSize, Records
<1>3. \A i \in DOMAIN log : log # <<>> /\ FileEnd = EndOf(Len(log))
  BY <1>1, EmptySeq DEF FileEnd
<1>4. \A i \in DOMAIN log : EndOf(i) <= FileEnd
  <2> TAKE i \in DOMAIN log
  <2>1. Len(log) \in DOMAIN log /\ FileEnd = EndOf(Len(log))
    BY <1>1, <1>3
  <2>2. CASE i = Len(log)
    BY <1>2, <2>1, <2>2
  <2>3. CASE i < Len(log)
    <3>1. EndOf(i) <= log[Len(log)].at
      BY <2>1, <2>3 DEF PositionsAgree
    <3> QED BY <1>2, <2>1, <3>1
  <2> QED BY <1>1, <2>2, <2>3
<1>5. FlushedEnd <= FileEnd
  <2>1. CASE flushed = 0
    BY <2>1, EndType DEF FlushedEnd
  <2>2. CASE flushed # 0
    <3>1. flushed \in DOMAIN log
      BY <1>1, <2>2 DEF TypeOK
    <3> QED BY <1>4, <2>2, <3>1 DEF FlushedEnd
  <2> QED BY <2>1, <2>2
<1>6. \A i \in DOMAIN log : log[i].at < FileEnd
  BY <1>2, <1>4, EndType
<1> QED BY <1>4, <1>5, <1>6

\* Where the sparse index sends the reader: to the record of an indexed
\* offset, at its position.
LEMMA SparsePosition ==
    ASSUME TypeOK, OffsetsAreDense, SparseIndexFindsRecords, Fits,
           DOMAIN offset_pos_map # {}, NEW o \in Nat
    PROVE  LET from == FindOffsetPosition(o)
           IN  /\ from.start \in Nat
               /\ from.start + 1 \in DOMAIN log
               /\ from.pos = log[from.start + 1].at
<1> DEFINE below == {x \in DOMAIN offset_pos_map : x <= o}
<1>1. /\ \A x \in DOMAIN offset_pos_map : x \in Nat /\ x < current_offset
      /\ current_offset \in Nat
  BY DEF SparseIndexFindsRecords, TypeOK
<1>2. 0 \in DOMAIN offset_pos_map
  <2>1. current_offset # 0
    BY <1>1
  <2>2. 0 % SparseThreshold = 0
    BY ThresholdAssumption
  <2> QED BY <1>1, <2>1, <2>2 DEF SparseIndexFindsRecords
<1>3. below \in SUBSET Nat /\ below # {}
  BY <1>1, <1>2
<1>4. Max(below) \in below
  <2> HIDE DEF below
  <2>1. \A x \in below : x <= o
    BY DEF below
  <2> QED BY <1>3, <2>1, GreatestElement
<1>5. FindOffsetPosition(o) = [start |-> Max(below), pos |-> offset_pos_map[Max(below)]]
  BY <1>3 DEF FindOffsetPosition
<1> DEFINE m == Max(below)
<1>6. m \in DOMAIN offset_pos_map
  BY <1>4
<1> HIDE DEF m, below
<1>7. m \in Nat /\ m < current_offset
  BY <1>1, <1>6
<1>8. m + 1 \in DOMAIN log
  <2>1. DOMAIN log = 1 .. Len(log) /\ Len(log) \in Nat
    BY EndType
  <2>2. current_offset <= Len(log)
    <3>1. current_offset \in Nat /\ Len(log) \in Nat
      BY <1>1, <2>1
    <3>2. Len(log) = current_offset \/ Len(log) = current_offset + 1
      BY DEF OffsetsAreDense
    <3> QED BY <3>1, <3>2, SMT
  <2> QED BY <1>1, <1>7, <2>1, <2>2
<1>9. offset_pos_map[m] = log[m + 1].at
  BY <1>6 DEF SparseIndexFindsRecords
<1> QED BY <1>5, <1>7, <1>8, <1>9 DEF m

\* On a log that fits the positions the reader never fails its assertion, for
\* an offset in the log or beyond it, whatever part of the log is flushed.
LEMMA ReaderStaysOnTrack ==
    ASSUME TypeOK, OffsetsAreDense, PositionsAgree, SparseIndexFindsRecords, Fits,
           NEW o \in Nat
    PROVE  FindMessage(o).kind # "offset_assert"
<1> DEFINE from  == FindOffsetPosition(o)
           heads == {i \in DOMAIN log : log[i].at = from.pos}
           first == CHOOSE i \in heads : TRUE
           i     == ScanEnd(o, from, first)
<1> SUFFICES ASSUME DOMAIN offset_pos_map # {}
             PROVE  FindMessage(o).kind # "offset_assert"
  BY DEF FindMessage, OpenAsserts
<1>1. /\ from.start \in Nat
      /\ from.start + 1 \in DOMAIN log
      /\ from.pos = log[from.start + 1].at
  BY SparsePosition
<1> HIDE DEF from
<1>2. DOMAIN log = 1 .. Len(log) /\ Len(log) \in Nat
  BY EndType
<1>3. \A k \in DOMAIN log : log[k].at \in Nat /\ EndOf(k) \in Nat /\ log[k].at < EndOf(k)
  BY EndType DEF Records, EndOf, HeaderSize
<1>4. heads = {from.start + 1}
  <2>1. \A j, k \in DOMAIN log : j < k => log[j].at < log[k].at
    BY <1>3 DEF PositionsAgree
  <2>2. \A k \in DOMAIN log : k # from.start + 1 => log[k].at # from.pos
    BY <1>1, <1>2, <1>3, <2>1
  <2> QED BY <1>1, <2>2
<1>5. first = from.start + 1
  BY <1>4
<1> HIDE DEF heads, first
<1>6. i \in first .. Len(log) + 1 /\ ScanEnds(o, from, first, i)
  BY <1>1, <1>5, ScanEndExists
<1> HIDE DEF i
<1>7. CASE i \in DOMAIN log
  <2>1. ScanPos(from.pos, first, i) = log[i].at
    <3>1. CASE i = first
      BY <1>1, <1>5, <3>1 DEF ScanPos
    <3>2. CASE i # first
      <4>1. i - 1 \in DOMAIN log /\ i # 1 /\ i \in Nat
        BY <1>1, <1>2, <1>5, <1>6, <1>7, <3>2
      <4>2. log[i].at = EndOf(i - 1)
        BY <1>7, <4>1 DEF PositionsAgree
      <4>3. EndOf(i - 1) \in Nat /\ EndOf(i - 1) < PosLimit
        <5>1. EndOf(i - 1) <= FileEnd
          BY <4>1, FlushedEndInFile
        <5>2. EndOf(i - 1) \in Nat
          BY <1>3, <4>1
        <5> HIDE DEF EndOf
        <5> QED BY <5>1, <5>2, EndType, ThresholdAssumption DEF Fits
      <4>4. EndOf(i - 1) % PosLimit = EndOf(i - 1)
        BY <4>3, ThresholdAssumption
      <4> QED BY <3>2, <4>2, <4>4 DEF ScanPos
    <3> QED BY <3>1, <3>2
  <2>2. log[i].offset = from.start + (i - first)
    BY <1>1, <1>2, <1>5, <1>7 DEF OffsetsAreDense
  <2>3. OnTrack(from, first, i)
    BY <1>7, <2>1, <2>2 DEF OnTrack
  <2> QED BY <1>4, <2>3 DEF FindMessage, OpenAsserts, from, heads, first, i
<1>8. CASE i \notin DOMAIN log
  <2>1. i = Len(log) + 1 /\ i # first /\ log # <<>>
    BY <1>1, <1>2, <1>5, <1>6, <1>8, EmptySeq
  <2>2. ScanPos(from.pos, first, i) = FileEnd % PosLimit
    BY <1>2, <2>1 DEF ScanPos, FileEnd
  <2>3. FileEnd % PosLimit = FileEnd
    BY EndType, ThresholdAssumption DEF Fits
  <2>4. ~Readable(ScanPos(from.pos, first, i))
    BY <2>2, <2>3, FlushedEndInFile, EndType DEF Readable
  <2> QED BY <1>4, <2>4 DEF FindMessage, OpenAsserts, from, heads, first, i
<1> QED BY <1>7, <1>8

-----------------------------------------------------------------------------
(* The log under an append. *)

\* Appending a record moves the end of the file and nothing before it.
LEMMA AppendKeepsPositions ==
    ASSUME TypeOK, PositionsAgree, NEW s \in Statements, AppendRecord(s)
    PROVE  /\ \A i \in DOMAIN log : i \in DOMAIN log' /\ EndOf(i)' = EndOf(i)
           /\ FileEnd' = FileEnd + HeaderSize + SizeOf[s]
           /\ Fits' => Fits
<1>1. /\ DOMAIN log = 1 .. Len(log) /\ Len(log) \in Nat
      /\ FileEnd \in Nat /\ SizeOf[s] \in Nat
  BY EndType, StatementAssumption
<1>2. /\ Len(log') = Len(log) + 1
      /\ DOMAIN log' = 1 .. Len(log) + 1
      /\ \A i \in 1 .. Len(log) : log'[i] = log[i]
      /\ log'[Len(log) + 1] = [offset |-> current_offset, at |-> FileEnd, stmt |-> s]
      /\ log' \in Seq(Records)
  BY AppendRecordProperties
<1>3. \A i \in DOMAIN log : i \in DOMAIN log' /\ EndOf(i)' = EndOf(i)
  <2> TAKE i \in DOMAIN log
  <2>1. Len(log) \in Nat /\ i \in 1 .. Len(log)
    BY <1>1
  <2>2. i \in DOMAIN log' /\ log'[i] = log[i]
    BY <1>2, <2>1
  <2> QED BY <2>2 DEF EndOf
<1>4. EndOf(Len(log))' = FileEnd + HeaderSize + SizeOf[s]
  <2>1. log'[Len(log')] = [offset |-> current_offset, at |-> FileEnd, stmt |-> s]
    BY <1>2
  <2> QED BY <2>1 DEF EndOf
<1>5. FileEnd' = EndOf(Len(log))'
  <2>1. log' # <<>>
    <3>1. Len(log) \in Nat /\ Len(log') = Len(log) + 1
      BY <1>1, <1>2
    <3>2. Len(log') # 0
      BY <3>1
    <3> QED BY <3>2, EmptySeq
  <2> QED BY <2>1 DEF FileEnd
<1>6. Fits' => Fits
  BY <1>1, <1>4, <1>5, ThresholdAssumption DEF Fits, HeaderSize
<1> QED BY <1>3, <1>4, <1>5, <1>6

\* So the records tile the file as before, with the new one at its end.
LEMMA AppendPositionsAgree ==
    ASSUME TypeOK, PositionsAgree, NEW s \in Statements, AppendRecord(s)
    PROVE  PositionsAgree'
<1>1. DOMAIN log = 1 .. Len(log) /\ FileEnd \in Nat
  BY EndType
<1>0. Len(log) \in Nat
  BY EndType
<1>2. /\ DOMAIN log' = 1 .. Len(log) + 1
      /\ \A i \in 1 .. Len(log) : log'[i] = log[i]
      /\ log'[Len(log) + 1].at = FileEnd
  <2>1. log'[Len(log) + 1] = [offset |-> current_offset, at |-> FileEnd, stmt |-> s]
    BY AppendRecordProperties
  <2>2. log'[Len(log) + 1].at = FileEnd
    BY <2>1
  <2> QED BY <2>2, AppendRecordProperties
<1>3. /\ \A i \in DOMAIN log : EndOf(i)' = EndOf(i)
      /\ FileEnd' = FileEnd + HeaderSize + SizeOf[s]
      /\ Fits' => Fits
  BY AppendKeepsPositions
<1>4. \A i \in DOMAIN log' : log'[i].at = IF i = 1 THEN 0 ELSE EndOf(i - 1)'
  <2> TAKE i \in DOMAIN log'
  <2>1. CASE i \in DOMAIN log
    <3>1. log'[i] = log[i] /\ log[i].at = IF i = 1 THEN 0 ELSE EndOf(i - 1)
      BY <1>1, <1>2, <2>1 DEF PositionsAgree
    <3>2. i # 1 => i - 1 \in DOMAIN log
      BY <1>0, <1>1, <2>1
    <3> QED BY <1>3, <3>1, <3>2
  <2>2. CASE i = Len(log) + 1
    <3>1. CASE Len(log) = 0
      <4>1. log = <<>>
        BY <3>1, EmptySeq DEF TypeOK
      <4> QED BY <1>2, <2>2, <3>1, <4>1 DEF FileEnd
    <3>2. CASE Len(log) # 0
      <4>1. log # <<>> /\ Len(log) \in DOMAIN log /\ i # 1 /\ i - 1 = Len(log)
        BY <1>0, <1>1, <2>2, <3>2, EmptySeq
      <4>2. EndOf(i - 1)' = FileEnd
        BY <1>3, <4>1 DEF FileEnd
      <4> QED BY <1>2, <2>2, <4>1, <4>2
    <3> QED BY <3>1, <3>2
  <2> QED BY <1>0, <1>1, <1>2, <2>1, <2>2
<1>5. \A i, j \in DOMAIN log' : i < j => EndOf(i)' <= log'[j].at
  <2> SUFFICES ASSUME NEW i \in DOMAIN log', NEW j \in DOMAIN log', i < j
               PROVE  EndOf(i)' <= log'[j].at
    OBVIOUS
  <2>1. i \in DOMAIN log
    BY <1>0, <1>1, <1>2
  <2>2. CASE j \in DOMAIN log
    <3>1. EndOf(i) <= log[j].at /\ log'[j] = log[j]
      BY <1>1, <1>2, <2>1, <2>2 DEF PositionsAgree
    <3> QED BY <1>3, <2>1, <3>1
  <2>3. CASE j = Len(log) + 1
    <3>1. EndOf(i) <= FileEnd
      BY <2>1, FlushedEndInFile
    <3> QED BY <1>2, <1>3, <2>1, <2>3, <3>1
  <2> QED BY <1>0, <1>1, <1>2, <2>2, <2>3
<1>6. Fits' => current_pos' = FileEnd'
  <2> SUFFICES ASSUME Fits' PROVE current_pos' = FileEnd'
    OBVIOUS
  <2> DEFINE n == FileEnd + HeaderSize + SizeOf[s]
  <2>1. current_pos' = n % PosLimit
    BY <1>3 DEF AppendRecord, PositionsAgree
  <2>2. n \in Nat /\ n < PosLimit
    BY <1>1, <1>3, StatementAssumption, ThresholdAssumption DEF Fits, HeaderSize
  <2>3. n % PosLimit = n
    BY <2>2, ThresholdAssumption
  <2> QED BY <1>3, <2>1, <2>3
<1> QED BY <1>4, <1>5, <1>6 DEF PositionsAgree

-----------------------------------------------------------------------------
(* Steps. *)

\* A step that leaves the log, its position counter and both indexes alone
\* can only disturb what is said of the cache, of the answer and of death.
LEMMA QuietStep ==
    ASSUME TableInv,
           UNCHANGED <<log, current_pos, current_offset, offset_pos_map, segment_index>>,
           stream' = stream \/ stream' = "null"
    PROVE  /\ OffsetsAreDense'
           /\ PositionsAgree'
           /\ SparseIndexFindsRecords'
           /\ IndexIsReplayOfLog'
<1>1. OffsetsAreDense'
  BY DEF TableInv, OffsetsAreDense
<1>2. PositionsAgree'
  BY DEF TableInv, PositionsAgree, EndOf, Fits, FileEnd
<1>3. SparseIndexFindsRecords'
  BY DEF TableInv, SparseIndexFindsRecords, EndOf, Fits, FileEnd
<1>4. IndexIsReplayOfLog'
  BY DEF TableInv, IndexIsReplayOfLog, PutsOf, BindingsOf, Bindings
<1> QED BY <1>1, <1>2, <1>3, <1>4

\* The offsets bound to a key, timestamp and value are offsets of the log.
LEMMA PutsOfType ==
    ASSUME TypeOK, NEW b
    PROVE  /\ PutsOf(b) \in SUBSET Nat
           /\ PutsOf(b) # {} => Min(PutsOf(b)) \in PutsOf(b)
<1>1. PutsOf(b) \in SUBSET Nat
  BY DEF PutsOf, TypeOK
<1> QED BY <1>1, LeastElement

\* Complete puts are among the records of the log.
LEMMA PutsAreLogged ==
    ASSUME TypeOK, OffsetsAreDense
    PROVE  \A o \in 0 .. current_offset - 1 : o \in Nat /\ o < current_offset /\ o + 1 \in 1 .. Len(log)
<1>1. current_offset \in Nat /\ Len(log) \in Nat
  BY EndType DEF TypeOK
<1>2. Len(log) = current_offset \/ Len(log) = current_offset + 1
  BY DEF OffsetsAreDense
<1> QED BY <1>1, <1>2, SMT

\* Dying changes nothing but the cause of death.
LEMMA DieInv ==
    ASSUME TableInv, NEW cause \in {"null_stream", "offset_assert", "open_assert"},
           Die(cause),
           cause = "offset_assert" => ~Fits,
           cause = "open_assert" => current_offset = 0
    PROVE  TableInv'
<1>1. TypeOK'
  BY DieTypeOK DEF TableInv
<1>2. /\ OffsetsAreDense' /\ PositionsAgree'
      /\ SparseIndexFindsRecords' /\ IndexIsReplayOfLog'
  BY QuietStep DEF Die
<1>3. CacheIsCoherent'
  BY DEF TableInv, CacheIsCoherent, Die
<1>4. NoAssertionFails'
  BY DEF TableInv, NoAssertionFails, Die, Fits, FileEnd, EndOf
<1>5. GetReturnsFirstPut'
  BY DEF TableInv, GetReturnsFirstPut, Die, PutsOf, BindingsOf, Bindings
<1> QED BY <1>1, <1>2, <1>3, <1>4, <1>5 DEF TableInv

\* A reader that finds no file to open has a table no put has completed on.
LEMMA OpenAssertOnlyWhenEmpty ==
    ASSUME TypeOK, SparseIndexFindsRecords, NEW o,
           FindMessage(o).kind = "open_assert"
    PROVE  current_offset = 0
<1>1. DOMAIN offset_pos_map = {}
  BY DEF FindMessage, OpenAsserts
<1>2. 0 % SparseThreshold = 0
  BY ThresholdAssumption
<1>3. 0 \notin 0 .. current_offset - 1
  BY <1>1, <1>2 DEF SparseIndexFindsRecords
<1> QED BY <1>3 DEF TypeOK

\* Either way a reader can die is one the invariant allows.
LEMMA ReaderDeathInv ==
    ASSUME TableInv, NEW o \in Nat,
           FindMessage(o).kind \in {"offset_assert", "open_assert"},
           Die(FindMessage(o).kind)
    PROVE  TableInv'
<1>1. FindMessage(o).kind = "offset_assert" => ~Fits
  BY ReaderStaysOnTrack DEF TableInv
<1>2. FindMessage(o).kind = "open_assert" => current_offset = 0
  BY OpenAssertOnlyWhenEmpty DEF TableInv
<1> QED BY <1>1, <1>2, DieInv

\* The invariant holds of the table the constructor makes.
LEMMA InitInv == Init => TableInv
<1> SUFFICES ASSUME Init PROVE TableInv
  OBVIOUS
<1>1. TypeOK
  BY InitTypeOK
<1>2. log = <<>> /\ Len(log) = 0 /\ DOMAIN log = {} /\ current_offset = 0 /\ current_pos = 0
  BY DEF Init
<1>3. OffsetsAreDense
  BY <1>2 DEF OffsetsAreDense
<1>4. PositionsAgree
  BY <1>2 DEF PositionsAgree, FileEnd
<1>5. 0 .. current_offset - 1 = {}
  BY <1>2
<1>6. SparseIndexFindsRecords
  BY <1>5 DEF Init, SparseIndexFindsRecords
<1>7. IndexIsReplayOfLog
  <2>1. \A b : PutsOf(b) = {}
    BY <1>5 DEF PutsOf
  <2> QED BY <2>1 DEF Init, IndexIsReplayOfLog
<1>8. CacheIsCoherent /\ NoAssertionFails /\ GetReturnsFirstPut
  BY DEF Init, CacheIsCoherent, NoAssertionFails, GetReturnsFirstPut, Reply
<1> QED BY <1>1, <1>3, <1>4, <1>6, <1>7, <1>8 DEF TableInv

\* A complete put adds its offset to the puts of the bindings it names.
LEMMA PutExtendsPuts ==
    ASSUME TableInv, NEW s \in Statements, AppendRecord(s), Len(log) = current_offset,
           current_offset' = current_offset + 1, NEW b
    PROVE  PutsOf(b)' = IF b \in BindingsOf(s) THEN PutsOf(b) \cup {current_offset}
                        ELSE PutsOf(b)
<1>1. current_offset \in Nat
  BY DEF TableInv, TypeOK
<1>2. /\ \A i \in 1 .. Len(log) : log'[i] = log[i]
      /\ log'[Len(log) + 1].stmt = s
  <2>1. log'[Len(log) + 1] = [offset |-> current_offset, at |-> FileEnd, stmt |-> s]
    BY AppendRecordProperties DEF TableInv
  <2>2. log'[Len(log) + 1].stmt = s
    BY <2>1
  <2> QED BY <2>2, AppendRecordProperties DEF TableInv
<1>3. \A o \in 0 .. current_offset - 1 : log'[o + 1] = log[o + 1]
  BY <1>1, <1>2
<1>4. log'[current_offset + 1].stmt = s
  BY <1>2
<1>5. 0 .. current_offset' - 1 = (0 .. current_offset - 1) \cup {current_offset}
  BY <1>1
<1>6. PutsOf(b)' = {o \in 0 .. current_offset' - 1 : b \in BindingsOf(log'[o + 1].stmt)}
  BY DEF PutsOf, BindingsOf, Bindings
<1> QED BY <1>3, <1>4, <1>5, <1>6 DEF PutsOf

\* A put that completes keeps the invariant.
LEMMA PutInv == ASSUME TableInv, NEW s \in Statements, Put(s) PROVE TableInv'
<1> USE DEF TableInv
<1>1. /\ AppendRecord(s) /\ stream = "open" /\ status = "running"
      /\ UNCHANGED <<stream, offset_message, status>>
      /\ current_offset' = current_offset + 1
      /\ PutIndex(s)
      /\ PutDisk(s)
      /\ reply'.op = "put"
  BY DEF Put, PutDisk, CanPut, Reply
<1>2. TypeOK'
  BY NextTypeOK DEF Next
<1>3. current_offset \in Nat /\ Len(log) \in Nat /\ Len(log) = current_offset
  BY <1>1, EndType DEF OffsetsAreDense, TypeOK
<1>4. /\ DOMAIN log' = 1 .. Len(log) + 1
      /\ Len(log') = Len(log) + 1
      /\ \A i \in 1 .. Len(log) : log'[i] = log[i]
      /\ log'[Len(log) + 1] = [offset |-> current_offset, at |-> FileEnd, stmt |-> s]
  BY <1>1, AppendRecordProperties
<1>4a. /\ log'[Len(log) + 1].offset = current_offset
       /\ log'[Len(log) + 1].at = FileEnd
       /\ log'[Len(log) + 1].stmt = s
  BY <1>4
<1>5. OffsetsAreDense'
  <2>1. \A i \in DOMAIN log' : log'[i].offset = i - 1
    <3> TAKE i \in DOMAIN log'
    <3>1. CASE i \in 1 .. Len(log)
      BY <1>4, <3>1, EndType DEF OffsetsAreDense
    <3>2. CASE i = Len(log) + 1
      BY <1>3, <1>4a, <3>2
    <3> QED BY <1>3, <1>4, <3>1, <3>2
  <2>2. Len(log') = current_offset'
    BY <1>1, <1>3, <1>4
  <2> QED BY <2>1, <2>2 DEF OffsetsAreDense
<1>6. PositionsAgree'
  BY <1>1, AppendPositionsAgree
<1>7. SparseIndexFindsRecords'
  <2>1. DOMAIN offset_pos_map' = {o \in 0 .. current_offset' - 1 : o % SparseThreshold = 0}
    <3>1. 0 .. current_offset' - 1 = (0 .. current_offset - 1) \cup {current_offset}
      BY <1>1, <1>3
    <3>2. DOMAIN offset_pos_map = {o \in 0 .. current_offset - 1 : o % SparseThreshold = 0}
      BY DEF SparseIndexFindsRecords
    <3>3. CASE current_offset % SparseThreshold = 0
      <4>1. DOMAIN offset_pos_map' = DOMAIN offset_pos_map \cup {current_offset}
        BY <1>1, <3>3 DEF PutDisk, MapInsert
      <4> QED BY <3>1, <3>2, <3>3, <4>1
    <3>4. CASE current_offset % SparseThreshold # 0
      <4>1. offset_pos_map' = offset_pos_map
        BY <1>1, <3>4 DEF PutDisk
      <4> QED BY <3>1, <3>2, <3>4, <4>1
    <3> QED BY <3>3, <3>4
  <2>2. ASSUME Fits', NEW o \in DOMAIN offset_pos_map'
        PROVE  offset_pos_map'[o] = log'[o + 1].at
    <3>1. Fits /\ current_pos = FileEnd
      BY <1>1, <2>2, AppendKeepsPositions DEF PositionsAgree
    <3>2. CASE o \in DOMAIN offset_pos_map
      <4>1. offset_pos_map'[o] = offset_pos_map[o]
        BY <1>1, <3>2 DEF PutDisk, MapInsert
      <4>2. offset_pos_map[o] = log[o + 1].at
        BY <3>1, <3>2 DEF SparseIndexFindsRecords
      <4>3. o + 1 \in 1 .. Len(log)
        <5>1. o \in 0 .. current_offset - 1
          BY <3>2 DEF SparseIndexFindsRecords
        <5> QED BY <5>1, PutsAreLogged
      <4> QED BY <1>4, <4>1, <4>2, <4>3
    <3>3. CASE o \notin DOMAIN offset_pos_map
      <4>1. o = current_offset /\ offset_pos_map'[o] = current_pos
        BY <1>1, <2>2, <3>3 DEF PutDisk, MapInsert
      <4> QED BY <1>3, <1>4a, <3>1, <4>1
    <3> QED BY <3>2, <3>3
  <2> QED BY <2>1, <2>2 DEF SparseIndexFindsRecords
<1>8. IndexIsReplayOfLog'
  <2> SUFFICES ASSUME NEW b \in Bindings
               PROVE  segment_index'[b] =
                         IF PutsOf(b)' = {} THEN NoOffset ELSE Min(PutsOf(b)')
    BY DEF IndexIsReplayOfLog, Bindings
  <2>1. PutsOf(b)' = IF b \in BindingsOf(s) THEN PutsOf(b) \cup {current_offset}
                     ELSE PutsOf(b)
    BY <1>1, <1>3, PutExtendsPuts
  <2>2. segment_index[b] = IF PutsOf(b) = {} THEN NoOffset ELSE Min(PutsOf(b))
    BY DEF IndexIsReplayOfLog
  <2>3. segment_index'[b] = IF b \in BindingsOf(s) /\ segment_index[b] = NoOffset
                            THEN current_offset ELSE segment_index[b]
    BY <1>1 DEF PutIndex
  <2>4. PutsOf(b) # {} => Min(PutsOf(b)) \in PutsOf(b) /\ Min(PutsOf(b)) # NoOffset
    BY PutsOfType DEF NoOffset
  <2>5. CASE b \notin BindingsOf(s)
    BY <2>1, <2>2, <2>3, <2>5
  <2>6. CASE b \in BindingsOf(s) /\ PutsOf(b) = {}
    <3>1. PutsOf(b)' = {current_offset}
      BY <2>1, <2>6
    <3>2. Min({current_offset}) = current_offset
      BY <1>3 DEF Min
    <3> QED BY <2>2, <2>3, <2>6, <3>1, <3>2
  <2>7. CASE b \in BindingsOf(s) /\ PutsOf(b) # {}
    <3> DEFINE P == PutsOf(b)
               Q == PutsOf(b) \cup {current_offset}
    <3>1. P \in SUBSET Nat /\ P # {} /\ Q \in SUBSET Nat /\ Q # {}
      BY <1>3, <2>7, PutsOfType
    <3>2. \A o \in P : o < current_offset
      BY <1>3 DEF PutsOf
    <3> HIDE DEF P
    <3>3. Min(P) \in P /\ \A y \in P : Min(P) <= y
      BY <3>1, LeastElement
    <3>4. Min(Q) \in Q /\ \A y \in Q : Min(Q) <= y
      BY <3>1, LeastElement
    <3>5. Q = P \cup {current_offset}
      BY DEF P
    <3> HIDE DEF Q
    <3>6. Min(P) = Min(Q)
      <4>1. Min(Q) <= Min(P) /\ Min(P) < current_offset /\ Min(P) \in Nat /\ Min(Q) \in Nat
        BY <3>1, <3>2, <3>3, <3>4, <3>5
      <4>2. Min(Q) \in P
        BY <1>3, <3>4, <3>5, <4>1
      <4>3. Min(P) <= Min(Q)
        BY <3>3, <4>2
      <4> QED BY <4>1, <4>3
    <3> QED BY <2>1, <2>2, <2>3, <2>4, <2>7, <3>1, <3>6 DEF P, Q
  <2> QED BY <2>5, <2>6, <2>7
<1>9. CacheIsCoherent'
  <2> SUFFICES ASSUME NEW o \in DOMAIN offset_message
               PROVE  o < current_offset' /\ offset_message[o] = log'[o + 1].stmt
    BY <1>1 DEF CacheIsCoherent
  <2>1. o \in Nat /\ o < current_offset /\ offset_message[o] = log[o + 1].stmt
    BY DEF CacheIsCoherent, TypeOK
  <2>2. o + 1 \in 1 .. Len(log)
    BY <1>3, <2>1
  <2> QED BY <1>1, <1>3, <1>4, <2>1, <2>2
<1>10. NoAssertionFails'
  BY <1>1 DEF NoAssertionFails
<1>11. GetReturnsFirstPut'
  BY <1>1 DEF GetReturnsFirstPut
<1> QED BY <1>2, <1>5, <1>6, <1>7, <1>8, <1>9, <1>10, <1>11

\* A put that fails in Sync, its record appended, keeps it too.
LEMMA PutSyncFailsInv ==
    ASSUME TableInv, NEW s \in Statements, PutSyncFails(s) PROVE TableInv'
<1> USE DEF TableInv
<1>1. /\ AppendRecord(s) /\ stream = "open" /\ stream' = "null"
      /\ UNCHANGED <<current_offset, offset_pos_map, segment_index, offset_message, status>>
      /\ status = "running"
      /\ reply'.op = "put"
  BY DEF PutSyncFails, CanPut, Reply
<1>2. TypeOK'
  BY NextTypeOK DEF Next
<1>3. current_offset \in Nat /\ Len(log) \in Nat /\ Len(log) = current_offset
  BY <1>1, EndType DEF OffsetsAreDense, TypeOK
<1>4. /\ DOMAIN log' = 1 .. Len(log) + 1
      /\ Len(log') = Len(log) + 1
      /\ \A i \in 1 .. Len(log) : log'[i] = log[i]
      /\ log'[Len(log) + 1] = [offset |-> current_offset, at |-> FileEnd, stmt |-> s]
  BY <1>1, AppendRecordProperties
<1>5. log'[Len(log) + 1].offset = current_offset
  BY <1>4
<1>6. \A o \in 0 .. current_offset - 1 : log'[o + 1] = log[o + 1]
  BY <1>3, <1>4
<1>7. OffsetsAreDense'
  <2>1. \A i \in DOMAIN log' : log'[i].offset = i - 1
    <3> TAKE i \in DOMAIN log'
    <3>1. CASE i \in 1 .. Len(log)
      BY <1>4, <3>1, EndType DEF OffsetsAreDense
    <3>2. CASE i = Len(log) + 1
      BY <1>3, <1>5, <3>2
    <3> QED BY <1>3, <1>4, <3>1, <3>2
  <2>2. Len(log') = current_offset' + 1 /\ stream' = "null"
    BY <1>1, <1>3, <1>4
  <2> QED BY <2>1, <2>2 DEF OffsetsAreDense
<1>8. PositionsAgree'
  BY <1>1, AppendPositionsAgree
<1>9. SparseIndexFindsRecords'
  <2>1. DOMAIN offset_pos_map' = {o \in 0 .. current_offset' - 1 : o % SparseThreshold = 0}
    BY <1>1 DEF SparseIndexFindsRecords
  <2>2. ASSUME Fits', NEW o \in DOMAIN offset_pos_map'
        PROVE  offset_pos_map'[o] = log'[o + 1].at
    <3>1. Fits
      BY <1>1, <2>2, AppendKeepsPositions
    <3>2. o \in DOMAIN offset_pos_map /\ offset_pos_map'[o] = offset_pos_map[o]
      BY <1>1, <2>2
    <3>3. o \in 0 .. current_offset - 1 /\ offset_pos_map[o] = log[o + 1].at
      BY <3>1, <3>2 DEF SparseIndexFindsRecords
    <3> QED BY <1>6, <3>2, <3>3
  <2> QED BY <2>1, <2>2 DEF SparseIndexFindsRecords
<1>10. IndexIsReplayOfLog'
  <2>1. \A b : PutsOf(b)' = PutsOf(b)
    <3> TAKE b
    <3>1. PutsOf(b)' = {o \in 0 .. current_offset - 1 : b \in BindingsOf(log'[o + 1].stmt)}
      BY <1>1 DEF PutsOf, BindingsOf, Bindings
    <3> QED BY <1>6, <3>1 DEF PutsOf
  <2> QED BY <1>1, <2>1 DEF IndexIsReplayOfLog, Bindings
<1>11. CacheIsCoherent'
  <2> SUFFICES ASSUME NEW o \in DOMAIN offset_message
               PROVE  o < current_offset /\ offset_message[o] = log'[o + 1].stmt
    BY <1>1 DEF CacheIsCoherent
  <2>1. o \in Nat /\ o < current_offset /\ offset_message[o] = log[o + 1].stmt
    BY DEF CacheIsCoherent, TypeOK
  <2>2. o + 1 \in 1 .. Len(log)
    BY <1>3, <2>1
  <2> QED BY <1>4, <2>1, <2>2
<1>12. NoAssertionFails' /\ GetReturnsFirstPut'
  BY <1>1 DEF NoAssertionFails, GetReturnsFirstPut
<1> QED BY <1>2, <1>7, <1>8, <1>9, <1>10, <1>11, <1>12

\* The offset the memory index gives for an entry of the segment is that of
\* the first complete put that names it.
LEMMA IndexedIsFirstPut ==
    ASSUME TableInv, NEW f, NEW t, NEW v, IndexedOffset(f, t, v) # NoOffset
    PROVE  LET asked == <<f, GetTs(t), v>>
           IN  /\ PutsOf(asked) # {}
               /\ IndexedOffset(f, t, v) = Min(PutsOf(asked))
               /\ IndexedOffset(f, t, v) \in 0 .. current_offset - 1
<1> DEFINE asked == <<f, GetTs(t), v>>
<1>1. asked \in Bindings /\ IndexedOffset(f, t, v) = segment_index[asked]
  BY DEF IndexedOffset
<1>2. PutsOf(asked) # {} /\ segment_index[asked] = Min(PutsOf(asked))
  BY <1>1 DEF TableInv, IndexIsReplayOfLog
<1>3. Min(PutsOf(asked)) \in PutsOf(asked)
  BY <1>2, PutsOfType DEF TableInv
<1>4. Min(PutsOf(asked)) \in 0 .. current_offset - 1
  BY <1>3 DEF PutsOf
<1> QED BY <1>1, <1>2, <1>4

\* A Get keeps it, wherever its answer comes from and when it kills the process.
LEMMA GetInv ==
    ASSUME TableInv, NEW f \in Fields, NEW t \in Timestamps \cup {BadTs}, NEW v \in Values,
           Get(f, t, v)
    PROVE  TableInv'
<1> USE DEF TableInv
<1> DEFINE o == IndexedOffset(f, t, v)
           found == FindMessage(o)
           asked == <<f, GetTs(t), v>>
<1>1. TypeOK'
  BY NextTypeOK DEF Next
<1>2. CASE found.kind \in {"offset_assert", "open_assert"} /\ o # NoOffset /\ Die(found.kind)
  <2>0. o \in 0 .. current_offset - 1 /\ current_offset \in Nat
    BY <1>2, IndexedIsFirstPut DEF TypeOK
  <2>1. o \in Nat
    BY <2>0
  <2> HIDE DEF o
  <2> QED BY <1>2, <2>1, ReaderDeathInv
<1>3. ASSUME UNCHANGED <<log, flushed, stream, current_pos, current_offset,
                         offset_pos_map, segment_index, status>>,
             CacheIsCoherent',
             reply'.op = "get", reply'.asked = asked,
             reply'.ok => o # NoOffset /\ reply'.data = <<log[o + 1].stmt>>
      PROVE  TableInv'
  <2>1. /\ OffsetsAreDense' /\ PositionsAgree'
        /\ SparseIndexFindsRecords' /\ IndexIsReplayOfLog'
    BY <1>3, QuietStep
  <2>2. NoAssertionFails'
    BY <1>3 DEF NoAssertionFails, Fits, FileEnd, EndOf
  <2>3. GetReturnsFirstPut'
    <3>1. \A b : PutsOf(b)' = PutsOf(b)
      BY <1>3 DEF PutsOf, BindingsOf, Bindings
    <3>2. reply'.ok => /\ PutsOf(asked) # {}
                       /\ reply'.data = <<log[Min(PutsOf(asked)) + 1].stmt>>
      BY <1>3, IndexedIsFirstPut
    <3> HIDE DEF asked
    <3> QED BY <1>3, <3>1, <3>2 DEF GetReturnsFirstPut
  <2> QED BY <1>1, <2>1, <2>2, <2>3, <1>3
<1>4. CASE reply' = Reply("get", asked, FALSE, <<>>)
           /\ UNCHANGED <<log, flushed, stream, current_pos, current_offset,
                          offset_pos_map, segment_index, offset_message, status>>
  <2>1. CacheIsCoherent'
    BY <1>4 DEF CacheIsCoherent
  <2>2. reply'.op = "get" /\ reply'.asked = asked /\ reply'.ok = FALSE
    BY <1>4 DEF Reply
  <2> HIDE DEF asked, o
  <2> QED BY <1>3, <1>4, <2>1, <2>2
<1>5. CASE o # NoOffset /\ o \in DOMAIN offset_message
           /\ reply' = Reply("get", asked, TRUE, <<offset_message[o]>>)
           /\ UNCHANGED <<log, flushed, stream, current_pos, current_offset,
                          offset_pos_map, segment_index, offset_message, status>>
  <2>1. CacheIsCoherent'
    BY <1>5 DEF CacheIsCoherent
  <2>2. offset_message[o] = log[o + 1].stmt
    BY <1>5 DEF CacheIsCoherent
  <2>3. reply'.op = "get" /\ reply'.asked = asked /\ reply'.data = <<log[o + 1].stmt>>
    BY <1>5, <2>2 DEF Reply
  <2> HIDE DEF asked, o
  <2> QED BY <1>3, <1>5, <2>1, <2>3
<1>6. CASE o # NoOffset /\ found.kind = "message"
           /\ reply' = Reply("get", asked, TRUE, <<log[found.at].stmt>>)
           /\ offset_message' = MapInsert(offset_message, o, log[found.at].stmt)
           /\ UNCHANGED <<log, flushed, stream, current_pos, current_offset,
                          offset_pos_map, segment_index, status>>
  <2>1. found.at = o + 1
    BY <1>6, MessageHasOffset
  <2>2. o \in 0 .. current_offset - 1 /\ current_offset \in Nat
    BY <1>6, IndexedIsFirstPut DEF TypeOK
  <2> HIDE DEF o
  <2>3. o < current_offset
    BY <2>2
  <2>4. CacheIsCoherent'
    <3>0. log' = log /\ current_offset' = current_offset
      BY <1>6
    <3> SUFFICES ASSUME NEW x \in DOMAIN offset_message'
                 PROVE  x < current_offset /\ offset_message'[x] = log[x + 1].stmt
      BY <3>0 DEF CacheIsCoherent
    <3>1. CASE x \in DOMAIN offset_message
      BY <1>6, <3>1 DEF MapInsert, CacheIsCoherent
    <3>2. CASE x \notin DOMAIN offset_message
      BY <1>6, <2>1, <2>3, <3>2 DEF MapInsert
    <3> QED BY <3>1, <3>2
  <2>5. reply'.op = "get" /\ reply'.asked = asked /\ reply'.data = <<log[o + 1].stmt>>
    BY <1>6, <2>1 DEF Reply
  <2> HIDE DEF asked
  <2> QED BY <1>3, <1>6, <2>4, <2>5
<1> QED BY <1>2, <1>4, <1>5, <1>6 DEF Get

\* A step that only answers something other than a get.
LEMMA AnswerInv ==
    ASSUME TableInv, TypeOK',
           UNCHANGED <<log, current_pos, current_offset, offset_pos_map,
                       segment_index, offset_message, status>>,
           stream' = stream \/ stream' = "null",
           reply'.op # "get" \/ UNCHANGED reply
    PROVE  TableInv'
<1>1. /\ OffsetsAreDense' /\ PositionsAgree'
      /\ SparseIndexFindsRecords' /\ IndexIsReplayOfLog'
  BY QuietStep
<1>2. CacheIsCoherent'
  BY DEF TableInv, CacheIsCoherent
<1>3. NoAssertionFails'
  BY DEF TableInv, NoAssertionFails, Fits, FileEnd, EndOf
<1>4. GetReturnsFirstPut'
  BY DEF TableInv, GetReturnsFirstPut, PutsOf, BindingsOf, Bindings
<1> QED BY <1>1, <1>2, <1>3, <1>4 DEF TableInv

\* A batch read keeps it.
LEMMA BatchInv ==
    ASSUME TableInv, NEW start \in 0 .. MaxPuts, NEW end \in 1 .. MaxPuts + 1,
           start < end, GetBatchData(start, end)
    PROVE  TableInv'
<1> DEFINE found  == [o \in start .. end - 1 |-> FindMessage(o)]
           missed == {o \in start .. end - 1 : found[o].kind # "message"}
           upto   == IF missed = {} THEN end ELSE Min(missed)
           data   == [k \in 1 .. upto - start |-> log[found[start + k - 1].at].stmt]
<1>1. TypeOK'
  BY NextTypeOK DEF Next, TableInv
<1>2. CASE /\ reply' = Reply("batch", <<start, end>>, missed = {}, data)
           /\ UNCHANGED <<log, flushed, stream, current_pos, current_offset,
                          offset_pos_map, segment_index, offset_message, status>>
  <2> HIDE DEF missed, data
  <2>1. reply'.op = "batch"
    BY <1>2 DEF Reply
  <2> QED BY <1>1, <1>2, <2>1, AnswerInv
<1>3. CASE /\ missed # {}
           /\ found[upto].kind \in {"offset_assert", "open_assert"}
           /\ Die(found[upto].kind)
  <2>1. missed \in SUBSET Nat
    BY ThresholdAssumption
  <2>2. Min(missed) \in missed
    <3> HIDE DEF missed
    <3> QED BY <1>3, <2>1, LeastElement
  <2>3. upto = Min(missed) /\ upto \in start .. end - 1 /\ upto \in Nat
    BY <1>3, <2>1, <2>2
  <2> HIDE DEF upto, missed
  <2>4. found[upto] = FindMessage(upto)
    BY <2>3
  <2> HIDE DEF found
  <2> QED BY <1>3, <2>3, <2>4, ReaderDeathInv
<1> QED BY <1>2, <1>3 DEF GetBatchData

\* Every step does.
LEMMA NextInv == TableInv /\ [Next]_vars => TableInv'
<1> SUFFICES ASSUME TableInv, [Next]_vars PROVE TableInv'
  OBVIOUS
<1>0. TypeOK'
  BY NextTypeOK DEF TableInv
<1>1. ASSUME NEW s \in Statements, PutNullStream(s) PROVE TableInv'
  BY <1>1, DieInv DEF PutNullStream
<1>2. CASE Sync
  <2>1. reply'.op = "sync"
    BY <1>2 DEF Sync, Reply
  <2> QED BY <1>0, <1>2, <2>1, AnswerInv DEF Sync
<1>3. CASE SyncNullStream
  <2>1. CASE Die("null_stream")
    BY <2>1, DieInv
  <2>2. CASE ~Die("null_stream")
    <3>1. reply'.op = "sync"
      BY <1>3, <2>2 DEF SyncNullStream, Reply
    <3> QED BY <1>0, <1>3, <2>2, <3>1, AnswerInv DEF SyncNullStream
  <2> QED BY <2>1, <2>2
<1>4. CASE UNCHANGED vars
  BY <1>0, <1>4, AnswerInv DEF vars
<1> QED BY <1>1, <1>2, <1>3, <1>4, PutInv, PutSyncFailsInv, GetInv, BatchInv DEF Next

\* The invariant holds throughout every behaviour.
LEMMA SpecInv == Spec => []TableInv
<1>1. Init => TableInv
  BY InitInv
<1>2. TableInv /\ [Next]_vars => TableInv'
  BY NextInv
<1> QED BY <1>1, <1>2, PTL DEF Spec

-----------------------------------------------------------------------------
(* Theorems. *)

\* However puts, failed syncs and reads follow one another, the o-th complete
\* put has offset o and is the (o+1)-th record of the file.
THEOREM OffsetsDense == Spec => []OffsetsAreDense
<1>1. TableInv => OffsetsAreDense
  BY DEF TableInv
<1> QED BY <1>1, SpecInv, PTL

\* The records tile the file, and the writer's counter is the file's length
\* while that is below 4 GiB.
THEOREM PositionsTile == Spec => []PositionsAgree
<1>1. TableInv => PositionsAgree
  BY DEF TableInv
<1> QED BY <1>1, SpecInv, PTL

\* The sparse index has exactly the offsets it should, each at the position
\* of its record while the log is below 4 GiB.
THEOREM SparseIndexExact == Spec => []SparseIndexFindsRecords
<1>1. TableInv => SparseIndexFindsRecords
  BY DEF TableInv
<1> QED BY <1>1, SpecInv, PTL

\* The memory index is at all times what a replay of the log would build.
THEOREM IndexReplaysLog == Spec => []IndexIsReplayOfLog
<1>1. TableInv => IndexIsReplayOfLog
  BY DEF TableInv
<1> QED BY <1>1, SpecInv, PTL

\* No read of a log below 4 GiB fails the assertion of FindMessage, and none
\* of a table with a complete put the one on fopen.
THEOREM AssertionsHold == Spec => []NoAssertionFails
<1>1. TableInv => NoAssertionFails
  BY DEF TableInv
<1> QED BY <1>1, SpecInv, PTL

\* The cache never disagrees with the log.
THEOREM CacheCoherent == Spec => []CacheIsCoherent
<1>1. TableInv => CacheIsCoherent
  BY DEF TableInv
<1> QED BY <1>1, SpecInv, PTL

\* A Get that succeeds returns the first statement put for what it asks, from
\* the cache or from the log, on logs of any size.
THEOREM GetReturnsFirst == Spec => []GetReturnsFirstPut
<1>1. TableInv => GetReturnsFirstPut
  BY DEF TableInv
<1> QED BY <1>1, SpecInv, PTL

-----------------------------------------------------------------------------
(* The table implements FirstWriteStore, and a batch is a slice of the     *)
(* log, also when the 32-bit positions have wrapped.                       *)

\* A position the writer has counted, wrapped or not, is not beyond the place
\* in the file it stands for.
PositionsBehind ==
    /\ current_pos <= FileEnd
    /\ \A o \in DOMAIN offset_pos_map : offset_pos_map[o] <= log[o + 1].at

\* An answer to a batch read is a slice of the log, as BatchIsLogSlice says.
StoreInv == TableInv /\ PositionsBehind /\ BatchIsLogSlice

-----------------------------------------------------------------------------
(* Short reads. *)

\* Remainders do not exceed what they are taken of.
LEMMA RemainderBound ==
    ASSUME NEW n \in Nat PROVE n % PosLimit \in Nat /\ n % PosLimit <= n
<1>1. CASE n < PosLimit
  BY <1>1, ThresholdAssumption
<1>2. CASE n >= PosLimit
  BY <1>2, ThresholdAssumption
<1> QED BY <1>1, <1>2, ThresholdAssumption

\* A record that is in the file can be read from any position up to its own.
LEMMA FlushedIsReadable ==
    ASSUME TypeOK, PositionsAgree, NEW i \in 1 .. flushed, NEW p \in Nat, p <= log[i].at
    PROVE  Readable(p)
<1>1. flushed \in Nat /\ Len(log) \in Nat /\ flushed <= Len(log) /\ i \in Nat /\ flushed # 0
  BY EndType DEF TypeOK
<1>2. i \in DOMAIN log /\ flushed \in DOMAIN log
  <2>1. i \in 1 .. Len(log) /\ flushed \in 1 .. Len(log)
    BY <1>1
  <2> QED BY <2>1, EndType
<1>3. \A k \in DOMAIN log : /\ EndOf(k) \in Nat /\ log[k].at \in Nat
                           /\ log[k].at + HeaderSize <= EndOf(k)
  <2> TAKE k \in DOMAIN log
  <2>1. log[k] \in Records /\ SizeOf[log[k].stmt] \in Nat
    BY EndType
  <2>2. log[k].at \in Nat
    BY <2>1 DEF Records
  <2> QED BY <2>1, <2>2 DEF EndOf, HeaderSize
<1>4. EndOf(i) <= EndOf(flushed)
  <2>1. CASE i = flushed
    BY <1>2, <1>3, <2>1
  <2>2. CASE i < flushed
    <3>1. EndOf(i) <= log[flushed].at
      BY <1>2, <2>2 DEF PositionsAgree
    <3>2. EndOf(i) \in Nat /\ EndOf(flushed) \in Nat /\ log[flushed].at <= EndOf(flushed)
      BY <1>2, <1>3 DEF HeaderSize
    <3> QED BY <1>2, <1>3, <3>1, <3>2
  <2> QED BY <1>1, <2>1, <2>2
<1>5. FlushedEnd = EndOf(flushed)
  BY <1>1 DEF FlushedEnd
<1> QED BY <1>2, <1>3, <1>4, <1>5 DEF Readable, HeaderSize

\* The sparse index sends the reader to the position it has for an offset not
\* above the one wanted.
LEMMA SparseStart ==
    ASSUME TypeOK, SparseIndexFindsRecords, DOMAIN offset_pos_map # {}, NEW o \in Nat
    PROVE  LET from == FindOffsetPosition(o)
           IN  /\ from.start \in DOMAIN offset_pos_map
               /\ from.start \in Nat /\ from.start <= o /\ from.start < current_offset
               /\ from.pos = offset_pos_map[from.start]
<1> DEFINE below == {x \in DOMAIN offset_pos_map : x <= o}
<1>1. /\ \A x \in DOMAIN offset_pos_map : x \in Nat /\ x < current_offset
      /\ current_offset \in Nat
  BY DEF SparseIndexFindsRecords, TypeOK
<1>2. 0 \in DOMAIN offset_pos_map
  <2>1. current_offset # 0
    BY <1>1
  <2>2. 0 % SparseThreshold = 0
    BY ThresholdAssumption
  <2> QED BY <1>1, <2>1, <2>2 DEF SparseIndexFindsRecords
<1>3. below \in SUBSET Nat /\ below # {}
  BY <1>1, <1>2
<1>4. Max(below) \in below
  <2> HIDE DEF below
  <2>1. \A x \in below : x <= o
    BY DEF below
  <2> QED BY <1>3, <2>1, GreatestElement
<1>5. FindOffsetPosition(o) = [start |-> Max(below), pos |-> offset_pos_map[Max(below)]]
  BY <1>3 DEF FindOffsetPosition
<1> DEFINE m == Max(below)
<1>6. m \in DOMAIN offset_pos_map /\ m <= o
  BY <1>4
<1> HIDE DEF m, below
<1> QED BY <1>1, <1>5, <1>6 DEF m

\* The record before the i-th is no further in the file than it.
LEMMA ScanPosBehind ==
    ASSUME TypeOK, PositionsAgree, NEW from, NEW first \in DOMAIN log, NEW i \in DOMAIN log,
           first <= i, from.pos = log[first].at
    PROVE  ScanPos(from.pos, first, i) \in Nat /\ ScanPos(from.pos, first, i) <= log[i].at
<1>1. DOMAIN log = 1 .. Len(log)
  BY EndType
<1>0. Len(log) \in Nat /\ i \in Nat /\ first \in Nat
  BY EndType
<1>2. log[i].at \in Nat
  BY EndType DEF Records
<1>3. CASE i = first
  BY <1>2, <1>3 DEF ScanPos
<1>4. CASE i # first
  <2>1. i # 1
    BY <1>0, <1>1, <1>4
  <2>2. i - 1 \in DOMAIN log
    BY <1>0, <1>1, <2>1
  <2>3. log[i].at = EndOf(i - 1)
    BY <2>1 DEF PositionsAgree
  <2>4. EndOf(i - 1) \in Nat
    BY <2>2, EndType
  <2> QED BY <1>4, <2>3, <2>4, RemainderBound DEF ScanPos
<1> QED BY <1>3, <1>4

\* Looking for a message that is in the file does not end in a short read:
\* the scan takes no step beyond the record wanted, and up to there all
\* positions it may have, wrapped ones too, are of bytes the file has.
LEMMA FlushedIsFound ==
    ASSUME TypeOK, OffsetsAreDense, PositionsAgree, SparseIndexFindsRecords, PositionsBehind,
           NEW o \in Nat, o < flushed
    PROVE  FindMessage(o).kind # "short_read"
<1> DEFINE from  == FindOffsetPosition(o)
           heads == {i \in DOMAIN log : log[i].at = from.pos}
           first == CHOOSE i \in heads : TRUE
           i     == ScanEnd(o, from, first)
<1> SUFFICES ASSUME DOMAIN offset_pos_map # {}
             PROVE  FindMessage(o).kind # "short_read"
  BY DEF FindMessage, OpenAsserts
<1>1. /\ from.start \in Nat /\ from.start <= o
      /\ from.start \in DOMAIN offset_pos_map
      /\ from.pos = offset_pos_map[from.start]
      /\ from.pos \in Nat
  BY SparseStart DEF TypeOK
<1>2. Len(log) \in Nat /\ flushed \in Nat /\ flushed <= Len(log)
  BY EndType DEF TypeOK
<1> HIDE DEF from
<1>3. Readable(from.pos)
  <2>1. from.start + 1 \in 1 .. flushed
    BY <1>1, <1>2
  <2>2. from.pos <= log[from.start + 1].at
    BY <1>1 DEF PositionsBehind
  <2> QED BY <1>1, <2>1, <2>2, FlushedIsReadable
<1>4. CASE heads = {}
  BY <1>3, <1>4 DEF FindMessage, OpenAsserts, from, heads
<1>5. CASE heads # {}
  <2>1. first \in DOMAIN log /\ log[first].at = from.pos
    BY <1>5
  <2> HIDE DEF first
  <2>2. /\ i \in first .. Len(log) + 1
        /\ \A j \in first .. i - 1 : ~ScanEnds(o, from, first, j)
    BY <2>1, ScanEndExists
  <2>3. Readable(ScanPos(from.pos, first, i))
    <3> HIDE DEF i
    <3>0. first \in 1 .. Len(log)
      BY <2>1, EndType
    <3>1. CASE i = first
      BY <1>3, <3>1 DEF ScanPos
    <3>2. CASE i # first
      <4>1. ~ScanEnds(o, from, first, first)
        BY <2>2, <3>0, <3>2
      <4>2. OnTrack(from, first, first)
        BY <4>1 DEF ScanEnds
      <4>3. first = from.start + 1
        <5>1. log[first].offset = from.start + (first - first) /\ log[first].offset = first - 1
          BY <2>1, <4>2 DEF OnTrack, OffsetsAreDense
        <5> QED BY <1>1, <3>0, <5>1
      <4>4. i <= o + 1
        <5> SUFFICES ASSUME i > o + 1 PROVE FALSE
          BY <2>2, <3>0
        <5>1. o + 1 \in first .. i - 1 /\ o + 1 \in 1 .. Len(log)
          BY <1>1, <1>2, <2>2, <3>0, <4>3
        <5>2. log[o + 1].offset = o
          <6>1. log[o + 1].offset = (o + 1) - 1
            BY <5>1, EndType DEF OffsetsAreDense
          <6> QED BY <6>1
        <5> QED BY <2>2, <5>1, <5>2 DEF ScanEnds
      <4>5. i \in 1 .. flushed /\ i \in 1 .. Len(log) /\ first <= i
        BY <1>2, <2>2, <3>0, <4>4
      <4>6. /\ ScanPos(from.pos, first, i) \in Nat
            /\ ScanPos(from.pos, first, i) <= log[i].at
        BY <2>1, <4>5, EndType, ScanPosBehind
      <4> QED BY <4>5, <4>6, FlushedIsReadable
    <3> QED BY <3>1, <3>2
  <2> HIDE DEF i
  <2> QED BY <1>3, <1>5, <2>3 DEF FindMessage, OpenAsserts, from, heads, first, i
<1> QED BY <1>4, <1>5

-----------------------------------------------------------------------------
(* The invariant. *)

LEMMA InitStoreInv == Init => StoreInv
<1> SUFFICES ASSUME Init PROVE StoreInv
  OBVIOUS
<1>1. PositionsBehind
  BY DEF Init, PositionsBehind, FileEnd
<1>2. BatchIsLogSlice
  BY DEF Init, BatchIsLogSlice, Reply
<1> QED BY <1>1, <1>2, InitInv DEF StoreInv

\* An append takes the counter no further than the end of the file.
LEMMA AppendBehind ==
    ASSUME TypeOK, PositionsAgree, PositionsBehind, NEW s \in Statements, AppendRecord(s)
    PROVE  current_pos' <= FileEnd'
<1>1. /\ current_pos \in Nat /\ current_pos <= FileEnd /\ FileEnd \in Nat
      /\ SizeOf[s] \in Nat
  BY EndType, StatementAssumption DEF TypeOK, PositionsBehind
<1> DEFINE n == current_pos + HeaderSize + SizeOf[s]
<1>2. n \in Nat /\ current_pos' = n % PosLimit
  BY <1>1 DEF AppendRecord, HeaderSize
<1>3. FileEnd' = FileEnd + HeaderSize + SizeOf[s]
  BY AppendKeepsPositions
<1>4. n <= FileEnd'
  BY <1>1, <1>3 DEF HeaderSize
<1>5. FileEnd' \in Nat
  BY <1>1, <1>3 DEF HeaderSize
<1> HIDE DEF n
<1>6. n % PosLimit \in Nat /\ n % PosLimit <= n
  BY <1>2, RemainderBound
<1> QED BY <1>2, <1>4, <1>5, <1>6

\* Records written stay where they are under an append.
LEMMA AppendKeepsBehind ==
    ASSUME TableInv, PositionsBehind, NEW s \in Statements, AppendRecord(s)
    PROVE  \A o \in DOMAIN offset_pos_map : offset_pos_map[o] <= log'[o + 1].at
<1> TAKE o \in DOMAIN offset_pos_map
<1>1. o \in 0 .. current_offset - 1
  BY DEF TableInv, SparseIndexFindsRecords
<1>2. o + 1 \in 1 .. Len(log)
  BY <1>1, PutsAreLogged DEF TableInv
<1>3. log'[o + 1] = log[o + 1]
  BY <1>2, AppendRecordProperties DEF TableInv
<1> QED BY <1>3 DEF PositionsBehind

LEMMA PutBehind ==
    ASSUME TableInv, PositionsBehind, NEW s \in Statements, Put(s)
    PROVE  PositionsBehind'
<1>1. AppendRecord(s) /\ PutDisk(s) /\ stream = "open"
  BY DEF Put
<1>2. current_offset \in Nat /\ Len(log) = current_offset
  BY <1>1 DEF TableInv, OffsetsAreDense, TypeOK
<1>3. log'[current_offset + 1].at = FileEnd
  <2>1. log'[Len(log) + 1] = [offset |-> current_offset, at |-> FileEnd, stmt |-> s]
    BY <1>1, AppendRecordProperties DEF TableInv
  <2> QED BY <1>2, <2>1
<1>4. \A o \in DOMAIN offset_pos_map : offset_pos_map[o] <= log'[o + 1].at
  BY <1>1, AppendKeepsBehind
<1>5. current_pos <= FileEnd
  BY DEF PositionsBehind
<1>6. \A o \in DOMAIN offset_pos_map' : offset_pos_map'[o] <= log'[o + 1].at
  <2>1. CASE offset_pos_map' = offset_pos_map
    BY <1>4, <2>1
  <2>2. CASE offset_pos_map' = MapInsert(offset_pos_map, current_offset, current_pos)
    BY <1>3, <1>4, <1>5, <2>2 DEF MapInsert
  <2> QED BY <1>1, <2>1, <2>2 DEF PutDisk
<1>7. current_pos' <= FileEnd'
  BY <1>1, AppendBehind DEF TableInv
<1> QED BY <1>6, <1>7 DEF PositionsBehind

LEMMA PutSyncFailsBehind ==
    ASSUME TableInv, PositionsBehind, NEW s \in Statements, PutSyncFails(s)
    PROVE  PositionsBehind'
<1>1. AppendRecord(s) /\ offset_pos_map' = offset_pos_map
  BY DEF PutSyncFails
<1>2. \A o \in DOMAIN offset_pos_map : offset_pos_map[o] <= log'[o + 1].at
  BY <1>1, AppendKeepsBehind
<1>3. current_pos' <= FileEnd'
  BY <1>1, AppendBehind DEF TableInv
<1> QED BY <1>1, <1>2, <1>3 DEF PositionsBehind

\* What a batch read answers.
LEMMA BatchSlice ==
    ASSUME StoreInv, NEW start \in 0 .. MaxPuts, NEW end \in 1 .. MaxPuts + 1,
           start < end, GetBatchData(start, end), ~UNCHANGED reply
    PROVE  BatchIsLogSlice'
<1> DEFINE found  == [o \in start .. end - 1 |-> FindMessage(o)]
           missed == {o \in start .. end - 1 : found[o].kind # "message"}
           upto   == IF missed = {} THEN end ELSE Min(missed)
           data   == [k \in 1 .. upto - start |-> log[found[start + k - 1].at].stmt]
<1>0. start \in Nat /\ end \in Nat
  BY ThresholdAssumption
<1>1. /\ missed # {} => found[upto].kind = "short_read"
      /\ reply' = Reply("batch", <<start, end>>, missed = {}, data)
      /\ log' = log /\ flushed' = flushed
  <2>1. CASE missed # {} /\ Die(found[upto].kind)
    BY <2>1 DEF Die
  <2>2. CASE /\ missed # {} => found[upto].kind = "short_read"
             /\ reply' = Reply("batch", <<start, end>>, missed = {}, data)
             /\ UNCHANGED <<log, flushed>>
    <3> HIDE DEF data, missed, found, upto
    <3> QED BY <2>2
  <2> QED BY <2>1, <2>2 DEF GetBatchData
<1>2. /\ upto \in Nat /\ start <= upto /\ upto <= end
      /\ missed = {} <=> upto = end
      /\ missed # {} => upto \in start .. end - 1
      /\ \A o \in start .. upto - 1 : o \in start .. end - 1 /\ o \notin missed
  <2>1. missed \in SUBSET Nat
    BY <1>0
  <2>2. CASE missed = {}
    <3>1. upto = end
      BY <2>2
    <3> HIDE DEF upto
    <3>2. \A o \in start .. end - 1 : o \notin missed
      BY <2>2
    <3> HIDE DEF missed
    <3> QED BY <1>0, <2>2, <3>1, <3>2
  <2>3. CASE missed # {}
    <3>1. Min(missed) \in missed /\ \A y \in missed : Min(missed) <= y
      <4> HIDE DEF missed
      <4> QED BY <2>1, <2>3, LeastElement
    <3>2. upto = Min(missed) /\ Min(missed) \in start .. end - 1
      BY <2>3, <3>1
    <3> HIDE DEF missed, upto
    <3>3. \A o \in start .. Min(missed) - 1 : ~(Min(missed) <= o)
      BY <1>0, <3>2
    <3>4. upto \in Nat /\ start <= upto /\ upto < end
      BY <1>0, <3>2
    <3>5. \A o \in start .. upto - 1 : o \in start .. end - 1 /\ o \notin missed
      BY <1>0, <3>1, <3>2, <3>3
    <3> QED BY <1>0, <2>3, <3>2, <3>4, <3>5
  <2> HIDE DEF upto, missed
  <2> QED BY <2>2, <2>3
<1>3. \A o \in start .. upto - 1 :
         found[o].at = o + 1 /\ o + 1 \in 1 .. Len(log)
  <2> TAKE o \in start .. upto - 1
  <2>1. FindMessage(o).kind = "message" /\ found[o] = FindMessage(o)
    BY <1>2
  <2> HIDE DEF found, missed, upto
  <2> QED BY <2>1, MessageHasOffset, EndType DEF StoreInv, TableInv
<1>4. missed # {} => upto >= flushed
  <2>0. flushed \in Nat
    BY EndType DEF StoreInv, TableInv, TypeOK
  <2> SUFFICES ASSUME missed # {}, upto < flushed PROVE FALSE
    <3> HIDE DEF missed, upto
    <3> QED BY <1>2, <2>0
  <2>1. FindMessage(upto).kind = "short_read"
    BY <1>1, <1>2
  <2> HIDE DEF upto, missed
  <2> QED BY <1>2, <2>1, FlushedIsFound DEF StoreInv, TableInv
<1>5. Len(data) = upto - start
  <2>1. upto - start \in Nat
    <3> HIDE DEF upto, missed
    <3> QED BY <1>0, <1>2
  <2> HIDE DEF upto
  <2> QED BY <2>1
<1>6. \A k \in 1 .. upto - start : start + k <= Len(log) /\ data[k] = log[start + k].stmt
  <2> TAKE k \in 1 .. upto - start
  <2> HIDE DEF upto, found
  <2>1. start + k - 1 \in start .. upto - 1
    BY <1>0, <1>2
  <2>2. found[start + k - 1].at = start + k /\ start + k \in 1 .. Len(log)
    BY <1>0, <1>3, <2>1
  <2> QED BY <2>2, EndType DEF StoreInv, TableInv
<1> HIDE DEF found, missed, upto, data
<1>7. /\ reply'.asked[1] = start /\ reply'.asked[2] = end
      /\ reply'.ok = (missed = {}) /\ reply'.data = data
  BY <1>1 DEF Reply
<1>8. start + Len(reply'.data) = upto
  BY <1>0, <1>2, <1>5, <1>7
<1>9. reply'.ok <=> start + Len(reply'.data) = end
  BY <1>2, <1>7, <1>8
<1>10. ~reply'.ok => start + Len(reply'.data) >= flushed'
  BY <1>1, <1>4, <1>7, <1>8
<1>11. \A k \in 1 .. Len(reply'.data) :
          start + k <= Len(log') /\ reply'.data[k] = log'[start + k].stmt
  <2>1. log' = log /\ reply'.data = data
    BY <1>1, <1>7
  <2> QED BY <1>5, <1>6, <2>1
<1> QED BY <1>7, <1>9, <1>10, <1>11, Zenon DEF BatchIsLogSlice

\* A step other than a batch read says nothing of batches.
LEMMA NoBatch ==
    ASSUME BatchIsLogSlice, reply'.op # "batch" \/ UNCHANGED <<reply, log, flushed>>
    PROVE  BatchIsLogSlice'
BY DEF BatchIsLogSlice

\* Every step keeps the invariant.
LEMMA NextStoreInv == StoreInv /\ [Next]_vars => StoreInv'
<1> SUFFICES ASSUME StoreInv, [Next]_vars PROVE StoreInv'
  OBVIOUS
<1> USE DEF StoreInv
<1>1. TableInv'
  BY NextInv
<1>2. CASE UNCHANGED <<log, current_pos, offset_pos_map>>
           /\ (reply'.op # "batch" \/ UNCHANGED <<reply, flushed>>)
  <2>1. PositionsBehind'
    BY <1>2 DEF PositionsBehind, FileEnd, EndOf
  <2>2. BatchIsLogSlice'
    BY <1>2, NoBatch
  <2> QED BY <1>1, <2>1, <2>2
<1>3. ASSUME NEW s \in Statements, Put(s) PROVE StoreInv'
  <2>1. reply'.op = "put"
    BY <1>3 DEF Put, Reply
  <2> QED BY <1>1, <1>3, <2>1, PutBehind, NoBatch
<1>4. ASSUME NEW s \in Statements, PutSyncFails(s) PROVE StoreInv'
  <2>1. reply'.op = "put"
    BY <1>4 DEF PutSyncFails, Reply
  <2> QED BY <1>1, <1>4, <2>1, PutSyncFailsBehind, NoBatch
<1>5. ASSUME NEW s \in Statements, PutNullStream(s) PROVE StoreInv'
  BY <1>2, <1>5 DEF PutNullStream, Die
<1>6. ASSUME NEW f \in Fields, NEW t \in Timestamps \cup {BadTs}, NEW v \in Values,
             Get(f, t, v)
      PROVE  StoreInv'
  <2>1. UNCHANGED <<log, current_pos, offset_pos_map, flushed>>
    BY <1>6 DEF Get, Die
  <2>2. reply'.op = "get" \/ UNCHANGED reply
    BY <1>6 DEF Get, Die, Reply
  <2> QED BY <1>2, <2>1, <2>2
<1>7. ASSUME NEW start \in 0 .. MaxPuts, NEW end \in 1 .. MaxPuts + 1,
             start < end, GetBatchData(start, end)
      PROVE  StoreInv'
  <2>1. UNCHANGED <<log, current_pos, offset_pos_map, flushed>>
    BY <1>7 DEF GetBatchData, Die
  <2>2. CASE UNCHANGED reply
    BY <1>2, <2>1, <2>2
  <2>3. CASE ~UNCHANGED reply
    <3>1. BatchIsLogSlice'
      BY <1>7, <2>3, BatchSlice
    <3>2. PositionsBehind'
      BY <2>1 DEF PositionsBehind, FileEnd, EndOf
    <3> QED BY <1>1, <3>1, <3>2
  <2> QED BY <2>2, <2>3
<1>8. CASE Sync
  <2>1. reply'.op = "sync"
    BY <1>8 DEF Sync, Reply
  <2> QED BY <1>2, <1>8, <2>1 DEF Sync
<1>9. CASE SyncNullStream
  <2>1. reply'.op = "sync" \/ UNCHANGED <<reply, flushed>>
    BY <1>9 DEF SyncNullStream, Reply, Die
  <2> QED BY <1>2, <1>9, <2>1 DEF SyncNullStream, Die
<1>10. CASE UNCHANGED vars
  BY <1>2, <1>10 DEF vars
<1> QED BY <1>3, <1>4, <1>5, <1>6, <1>7, <1>8, <1>9, <1>10 DEF Next

LEMMA StoreAlways == Spec => []StoreInv
BY InitStoreInv, NextStoreInv, PTL DEF Spec

-----------------------------------------------------------------------------
(* The refinement. *)

\* A bound binding has an offset of the log, and a statement.
LEMMA BoundInLog ==
    ASSUME TableInv, NEW b \in Bindings, Bound(b)
    PROVE  /\ segment_index[b] \in 0 .. current_offset - 1
           /\ segment_index[b] + 1 \in 1 .. Len(log)
           /\ log[segment_index[b] + 1].stmt \in Statements
<1>1. PutsOf(b) # {} /\ segment_index[b] = Min(PutsOf(b))
  BY DEF Bound, TableInv, IndexIsReplayOfLog
<1>2. segment_index[b] \in PutsOf(b)
  BY <1>1, PutsOfType DEF TableInv
<1>3. segment_index[b] \in 0 .. current_offset - 1
  BY <1>2 DEF PutsOf
<1>4. segment_index[b] + 1 \in 1 .. Len(log)
  BY <1>3, PutsAreLogged DEF TableInv
<1>5. log[segment_index[b] + 1] \in Records
  BY <1>4, EndType DEF TableInv
<1> QED BY <1>3, <1>4, <1>5 DEF Records

\* What is stored and what is certain, as the abstract store names them.
StoreTypes ==
    /\ \A b \in Bindings : Bound(b) <=> StoredStatements[b] # "missing"
    /\ Store!BoundBindings = {b \in Bindings : Bound(b)}
    /\ CertainBindings \subseteq Store!BoundBindings

LEMMA StoreType == TableInv => StoreTypes
<1> SUFFICES ASSUME TableInv PROVE StoreTypes
  OBVIOUS
<1>1. \A b \in Bindings : Bound(b) <=> StoredStatements[b] # "missing"
  BY BoundInLog, MissingAssumption DEF StoredStatements
<1>2. Store!BoundBindings = {b \in Bindings : Bound(b)}
  BY <1>1 DEF Store!BoundBindings
<1> QED BY <1>1, <1>2 DEF CertainBindings, StoreTypes

\* Nothing stored changes while the memory index and the records stay.
LEMMA StoreStays ==
    ASSUME TableInv, segment_index' = segment_index,
           \A i \in 1 .. Len(log) : log'[i] = log[i]
    PROVE  StoredStatements' = StoredStatements
<1>1. \A b \in Bindings : Bound(b)' = Bound(b)
  BY DEF Bound
<1>2. \A b \in Bindings : Bound(b) => log'[segment_index[b] + 1] = log[segment_index[b] + 1]
  BY BoundInLog
<1>3. StoredStatements' =
        [b \in Bindings |-> IF Bound(b) THEN log'[segment_index[b] + 1].stmt ELSE "missing"]
  BY <1>1 DEF StoredStatements, Bindings
<1> QED BY <1>2, <1>3 DEF StoredStatements

\* What is certain stays so while bindings stay and more leaves the buffer.
LEMMA MoreIsCertain ==
    ASSUME TableInv, TableInv', flushed <= flushed',
           \A b \in Bindings : Bound(b) => segment_index'[b] = segment_index[b]
    PROVE  Store!MoreCertain
<1>1. CertainBindings' \subseteq Store!BoundBindings'
  <2>1. StoreTypes'
    BY StoreType, PTL
  <2> QED BY <2>1 DEF StoreTypes
<1>2. CertainBindings \subseteq CertainBindings'
  <2> SUFFICES ASSUME NEW b \in CertainBindings PROVE b \in CertainBindings'
    OBVIOUS
  <2>1. b \in Bindings /\ Bound(b) /\ segment_index[b] < flushed
    BY DEF CertainBindings
  <2>2. segment_index'[b] = segment_index[b] /\ segment_index[b] \in Nat
    BY <2>1, BoundInLog
  <2>3. flushed \in Nat /\ flushed' \in Nat
    BY EndType DEF TableInv, TypeOK
  <2>4. segment_index'[b] # NoOffset /\ segment_index'[b] < flushed'
    BY <2>1, <2>2, <2>3 DEF NoOffset
  <2>5. Bound(b)'
    BY <2>4 DEF Bound, NoOffset
  <2> QED BY <2>1, <2>4, <2>5 DEF CertainBindings, Bindings
<1> QED BY <1>1, <1>2 DEF Store!MoreCertain

LEMMA InitStore == Init => Store!Init
<1> SUFFICES ASSUME Init PROVE Store!Init
  OBVIOUS
<1>1. \A b \in Bindings : ~Bound(b)
  BY DEF Init, Bound
<1>2. StoredStatements = [b \in Bindings |-> "missing"] /\ CertainBindings = {}
  BY <1>1 DEF StoredStatements, CertainBindings
<1>3. PublicAnswer = [op |-> "none", asked |-> <<>>, ok |-> TRUE, data |-> <<>>]
  BY DEF Init, Reply, PublicAnswer
<1> QED BY <1>2, <1>3 DEF Store!Init

\* A put that reaches the index binds what is not bound yet, whether or not it
\* says so.
LEMMA PutStore ==
    ASSUME TableInv, TableInv', NEW s \in Statements, Put(s)
    PROVE  \E ok \in BOOLEAN : Store!Put(s, ok)
<1>1. /\ AppendRecord(s) /\ PutDisk(s) /\ PutIndex(s) /\ stream = "open"
      /\ reply' = Reply("put", <<s>>, TsOf[s] # BadTs, <<>>)
  BY DEF Put
<1>2. current_offset \in Nat /\ Len(log) = current_offset
  BY <1>1 DEF TableInv, OffsetsAreDense, TypeOK
<1>3. /\ \A i \in 1 .. Len(log) : log'[i] = log[i]
      /\ log'[current_offset + 1].stmt = s
      /\ flushed \in Nat /\ flushed' \in flushed .. Len(log')
  <2>1. log'[Len(log) + 1] = [offset |-> current_offset, at |-> FileEnd, stmt |-> s]
    BY <1>1, AppendRecordProperties DEF TableInv
  <2>2. log'[current_offset + 1].stmt = s
    BY <1>2, <2>1
  <2>3. flushed \in Nat
    BY EndType DEF TableInv, TypeOK
  <2> QED BY <1>1, <2>2, <2>3, AppendRecordProperties DEF TableInv
<1>4. \A b \in Bindings :
         segment_index'[b] = IF b \in BindingsOf(s) /\ ~Bound(b)
                             THEN current_offset ELSE segment_index[b]
  BY <1>1 DEF PutIndex, Bound
<1>5. StoredStatements' = [b \in Bindings |->
         IF b \in BindingsOf(s) /\ StoredStatements[b] = "missing"
         THEN s ELSE StoredStatements[b]]
  <2>1. ASSUME NEW b \in Bindings
        PROVE  (IF Bound(b)' THEN log'[segment_index'[b] + 1].stmt ELSE "missing")
                 = IF b \in BindingsOf(s) /\ StoredStatements[b] = "missing"
                   THEN s ELSE StoredStatements[b]
    <3>1. Bound(b) <=> StoredStatements[b] # "missing"
      BY StoreType DEF StoreTypes
    <3>2. CASE b \in BindingsOf(s) /\ ~Bound(b)
      <4>1. segment_index'[b] = current_offset /\ current_offset # NoOffset
        BY <1>2, <1>4, <3>2 DEF NoOffset
      <4> QED BY <1>3, <3>1, <3>2, <4>1 DEF Bound
    <3>3. CASE ~(b \in BindingsOf(s) /\ ~Bound(b)) /\ Bound(b)
      <4>1. segment_index'[b] = segment_index[b]
        BY <1>4, <3>3
      <4>2. log'[segment_index[b] + 1] = log[segment_index[b] + 1]
        BY <1>3, <3>3, BoundInLog
      <4> QED BY <3>1, <3>3, <4>1, <4>2 DEF Bound, StoredStatements
    <3>4. CASE ~(b \in BindingsOf(s) /\ ~Bound(b)) /\ ~Bound(b)
      <4>1. segment_index'[b] = segment_index[b]
        BY <1>4, <3>4
      <4> QED BY <3>1, <3>4, <4>1 DEF Bound
    <3> QED BY <3>2, <3>3, <3>4
  <2> QED BY <2>1 DEF StoredStatements, Bindings
<1>6. Store!MoreCertain
  <2>1. \A b \in Bindings : Bound(b) => segment_index'[b] = segment_index[b]
    BY <1>4
  <2>2. flushed <= flushed'
    BY <1>3
  <2> QED BY <2>1, <2>2, MoreIsCertain
<1>7. PublicAnswer' = [op |-> "put", asked |-> <<s>>, ok |-> TsOf[s] # BadTs, data |-> <<>>]
  BY <1>1 DEF Reply, PublicAnswer
<1>8. Store!Put(s, TsOf[s] # BadTs)
  BY <1>5, <1>6, <1>7 DEF Store!Put
<1> QED BY <1>8

\* A put whose Sync fails binds nothing.
LEMMA PutSyncFailsStore ==
    ASSUME TableInv, TableInv', NEW s \in Statements, PutSyncFails(s)
    PROVE  Store!Put(s, FALSE)
<1>1. /\ AppendRecord(s) /\ segment_index' = segment_index
      /\ reply' = Reply("put", <<s>>, FALSE, <<>>)
  BY DEF PutSyncFails
<1>2. /\ \A i \in 1 .. Len(log) : log'[i] = log[i]
      /\ flushed \in Nat /\ flushed' \in flushed .. Len(log')
  <2>1. flushed \in Nat
    BY EndType DEF TableInv, TypeOK
  <2> QED BY <1>1, <2>1, AppendRecordProperties DEF TableInv
<1>3. StoredStatements' = StoredStatements
  BY <1>1, <1>2, StoreStays
<1>4. Store!MoreCertain
  <2>1. flushed <= flushed'
    BY <1>2
  <2> QED BY <1>1, <2>1, MoreIsCertain
<1>5. PublicAnswer' = [op |-> "put", asked |-> <<s>>, ok |-> FALSE, data |-> <<>>]
  BY <1>1 DEF Reply, PublicAnswer
<1> QED BY <1>3, <1>4, <1>5 DEF Store!Put

\* A step that changes no binding and no record, and flushes nothing.
LEMMA StoreSame ==
    ASSUME TableInv, UNCHANGED <<log, flushed, segment_index>>
    PROVE  StoredStatements' = StoredStatements /\ CertainBindings' = CertainBindings
<1>1. StoredStatements' = StoredStatements
  BY StoreStays
<1>2. CertainBindings' = CertainBindings
  BY DEF CertainBindings, Bound, Bindings
<1> QED BY <1>1, <1>2

LEMMA StutterStore ==
    ASSUME TableInv, UNCHANGED <<log, flushed, segment_index, reply>>
    PROVE  UNCHANGED Store!vars
<1>1. PublicAnswer' = PublicAnswer
  BY DEF PublicAnswer
<1> QED BY <1>1, StoreSame DEF Store!vars

\* A get answers with what is bound, and fails for nothing that is certain.
LEMMA GetStore ==
    ASSUME StoreInv, TableInv', NEW f \in Fields, NEW t \in Timestamps \cup {BadTs},
           NEW v \in Values, Get(f, t, v)
    PROVE  [Store!Next]_(Store!vars)
<1> USE DEF StoreInv
<1> DEFINE o == IndexedOffset(f, t, v)
           found == FindMessage(o)
           asked == <<f, GetTs(t), v>>
<1>1. CASE UNCHANGED reply
  <2>1. UNCHANGED <<log, flushed, segment_index>>
    BY DEF Get, Die
  <2> QED BY <1>1, <2>1, StutterStore
<1>2. CASE ~UNCHANGED reply
  <2>1. /\ UNCHANGED <<log, flushed, segment_index, stream, current_pos, current_offset>>
        /\ reply'.op = "get" /\ reply'.asked = asked /\ reply'.ok \in BOOLEAN
        /\ ~reply'.ok => o = NoOffset \/ found.kind = "short_read"
    <3>1. CASE Die(found.kind)
      BY <1>2, <3>1 DEF Die
    <3>2. CASE /\ UNCHANGED <<log, flushed, segment_index, stream, current_pos, current_offset>>
               /\ reply' = Reply("get", asked, FALSE, <<>>)
               /\ o = NoOffset \/ found.kind = "short_read"
      <4> HIDE DEF asked, o, found
      <4> QED BY <3>2 DEF Reply
    <3>3. ASSUME NEW data, reply' = Reply("get", asked, TRUE, data),
                 UNCHANGED <<log, flushed, segment_index, stream, current_pos, current_offset>>
          PROVE  /\ UNCHANGED <<log, flushed, segment_index, stream, current_pos, current_offset>>
                 /\ reply'.op = "get" /\ reply'.asked = asked /\ reply'.ok = TRUE
      <4> HIDE DEF asked, o, found
      <4> QED BY <3>3 DEF Reply
    <3> QED BY <3>1, <3>2, <3>3 DEF Get
  <2>2. StoredStatements' = StoredStatements /\ CertainBindings' = CertainBindings
    BY <2>1, StoreSame
  <2>3. CASE reply'.ok
    <3>1. /\ PutsOf(asked) # {} /\ Min(PutsOf(asked)) \in PutsOf(asked)
          /\ reply'.data = <<log[Min(PutsOf(asked)) + 1].stmt>>
      <4>1. \A b : PutsOf(b)' = PutsOf(b)
        BY <2>1 DEF PutsOf, BindingsOf, Bindings
      <4> HIDE DEF asked
      <4> QED BY <2>1, <2>3, <4>1, PutsOfType DEF TableInv, GetReturnsFirstPut
    <3>2. asked \in Bindings
      BY <3>1 DEF PutsOf, BindingsOf
    <3> HIDE DEF asked
    <3>3. segment_index[asked] = Min(PutsOf(asked))
      BY <3>1, <3>2 DEF TableInv, IndexIsReplayOfLog
    <3>4. Bound(asked)
      BY <3>1, <3>3 DEF Bound, PutsOf, NoOffset
    <3>5. StoredStatements[asked] = log[segment_index[asked] + 1].stmt
      BY <3>2, <3>4 DEF StoredStatements
    <3>6. asked \in Store!BoundBindings
      BY <3>2, <3>4, StoreType DEF StoreTypes
    <3>7. /\ PublicAnswer'.op = "get" /\ PublicAnswer'.asked = asked
          /\ PublicAnswer'.ok = TRUE /\ PublicAnswer'.data = <<StoredStatements[asked]>>
      BY <2>1, <2>3, <3>1, <3>3, <3>5 DEF PublicAnswer
    <3>8. Store!Get(asked, TRUE)
      BY <2>2, <3>6, <3>7 DEF Store!Get
    <3>9. Store!Get(PublicAnswer'.asked, TRUE)
      BY <3>7, <3>8
    <3> QED BY <3>9 DEF Store!Next
  <2>4. CASE ~reply'.ok
    <3>1. reply'.data = <<>> /\ asked \notin CertainBindings
      <4>1. reply'.data = <<>>
        <5>1. \/ UNCHANGED reply
              \/ reply' = Reply("get", asked, FALSE, <<>>)
              \/ reply'.ok = TRUE
          BY DEF Get, Die, Reply
        <5> HIDE DEF asked
        <5> QED BY <1>2, <2>4, <5>1 DEF Reply
      <4>2. asked \in CertainBindings => o # NoOffset /\ o < flushed /\ o \in Nat
        <5> SUFFICES ASSUME asked \in CertainBindings
                     PROVE  o # NoOffset /\ o < flushed /\ o \in Nat
          OBVIOUS
        <5>1. asked \in Bindings /\ Bound(asked) /\ segment_index[asked] < flushed
          BY DEF CertainBindings
        <5>2. o = segment_index[asked]
          BY <5>1 DEF IndexedOffset
        <5> HIDE DEF asked, o
        <5>3. segment_index[asked] \in Nat
          BY <5>1, BoundInLog
        <5> QED BY <5>1, <5>2, <5>3 DEF Bound
      <4> HIDE DEF asked, o
      <4>3. o \in Nat /\ o < flushed => FindMessage(o).kind # "short_read"
        BY FlushedIsFound DEF TableInv
      <4> QED BY <2>1, <2>4, <4>1, <4>2, <4>3
    <3> HIDE DEF asked
    <3>2. /\ PublicAnswer'.op = "get" /\ PublicAnswer'.asked = asked
          /\ PublicAnswer'.ok = FALSE /\ PublicAnswer'.data = <<>>
      BY <2>1, <2>4, <3>1 DEF PublicAnswer
    <3>3. Store!Get(PublicAnswer'.asked, FALSE)
      BY <2>2, <3>1, <3>2 DEF Store!Get
    <3> QED BY <3>3 DEF Store!Next
  <2> QED BY <2>3, <2>4
<1> QED BY <1>1, <1>2

\* A flush makes more certain, and everything when it succeeds.
LEMMA SyncStore ==
    ASSUME TableInv, TableInv', Sync \/ SyncNullStream
    PROVE  [Store!Next]_(Store!vars)
<1>1. CASE UNCHANGED reply /\ Die("null_stream")
  BY <1>1, StutterStore DEF Die
<1>2. ASSUME NEW ok \in BOOLEAN, reply' = Reply("sync", <<>>, ok, <<>>),
             UNCHANGED <<log, current_offset, segment_index>>,
             flushed' \in flushed .. Len(log), ok => flushed' = Len(log)
      PROVE  Store!Sync(ok)
  <2>0. flushed \in Nat /\ Len(log) \in Nat
    BY EndType DEF TableInv, TypeOK
  <2>1. StoredStatements' = StoredStatements
    BY <1>2, StoreStays
  <2>2. Store!MoreCertain
    <3>1. flushed <= flushed'
      BY <1>2, <2>0
    <3> QED BY <1>2, <3>1, MoreIsCertain
  <2>3. ok => CertainBindings' = Store!BoundBindings
    <3> SUFFICES ASSUME ok PROVE CertainBindings' = Store!BoundBindings
      OBVIOUS
    <3>1. Store!BoundBindings = {b \in Bindings : Bound(b)}
      BY StoreType DEF StoreTypes
    <3>2. \A b \in Bindings : Bound(b) => segment_index[b] < Len(log)
      <4> SUFFICES ASSUME NEW b \in Bindings, Bound(b) PROVE segment_index[b] < Len(log)
        OBVIOUS
      <4>1. segment_index[b] + 1 \in 1 .. Len(log) /\ segment_index[b] \in 0 .. current_offset - 1
        BY BoundInLog
      <4> QED BY <2>0, <4>1
    <3>3. CertainBindings' = {b \in Bindings : Bound(b) /\ segment_index[b] < Len(log)}
      BY <1>2 DEF CertainBindings, Bound, Bindings
    <3> QED BY <3>1, <3>2, <3>3
  <2>4. PublicAnswer' = [op |-> "sync", asked |-> <<>>, ok |-> ok, data |-> <<>>]
    BY <1>2 DEF Reply, PublicAnswer
  <2> QED BY <2>1, <2>2, <2>3, <2>4, Zenon DEF Store!Sync
<1>3. \/ UNCHANGED reply /\ Die("null_stream")
      \/ \E ok \in BOOLEAN : /\ reply' = Reply("sync", <<>>, ok, <<>>)
                             /\ UNCHANGED <<log, current_offset, segment_index>>
                             /\ flushed' \in flushed .. Len(log)
                             /\ ok => flushed' = Len(log)
  <2>0. flushed \in Nat /\ Len(log) \in Nat /\ flushed <= Len(log)
    BY EndType DEF TableInv, TypeOK
  <2>1. Len(log) \in flushed .. Len(log)
    BY <2>0
  <2> QED BY <2>1 DEF Sync, SyncNullStream, Die
<1> QED BY <1>1, <1>2, <1>3 DEF Store!Next

\* A batch read changes nothing the store speaks of.
LEMMA BatchStore ==
    ASSUME TableInv, NEW start \in 0 .. MaxPuts, NEW end \in 1 .. MaxPuts + 1,
           start < end, GetBatchData(start, end)
    PROVE  [Store!Next]_(Store!vars)
<1>1. UNCHANGED <<log, flushed, segment_index>> /\ (reply'.op = "batch" \/ UNCHANGED reply)
  BY DEF GetBatchData, Die, Reply
<1>2. CASE UNCHANGED reply
  BY <1>1, <1>2, StutterStore
<1>3. CASE reply'.op = "batch"
  <2>1. PublicAnswer'.op = "batch"
    BY <1>3 DEF PublicAnswer
  <2>2. Store!Batch
    BY <1>1, <2>1, StoreSame DEF Store!Batch
  <2> QED BY <2>2 DEF Store!Next
<1> QED BY <1>1, <1>2, <1>3

LEMMA StepStore == StoreInv /\ StoreInv' /\ [Next]_vars => [Store!Next]_(Store!vars)
<1> SUFFICES ASSUME StoreInv, StoreInv', [Next]_vars PROVE [Store!Next]_(Store!vars)
  OBVIOUS
<1>0. TableInv /\ TableInv'
  BY DEF StoreInv
<1>1. ASSUME NEW s \in Statements, Put(s) \/ PutSyncFails(s) PROVE Store!Next
  BY <1>0, <1>1, PutStore, PutSyncFailsStore DEF Store!Next
<1>2. ASSUME NEW s \in Statements, PutNullStream(s) PROVE UNCHANGED Store!vars
  BY <1>0, <1>2, StutterStore DEF PutNullStream, Die
<1>3. CASE UNCHANGED vars
  BY <1>0, <1>3, StutterStore DEF vars
<1> QED BY <1>0, <1>1, <1>2, <1>3, GetStore, SyncStore, BatchStore DEF Next

-----------------------------------------------------------------------------
(* Theorems. *)

\* A table is a map in which the first put of a binding wins; a Get that fails
\* asked for something no complete put has named, or whose record is still in
\* the stdio buffer (table.h:187-277 with disk.h:58-80, segment.h:225-257).
THEOREM ImplementsStore == Spec => ImplementsFirstWriteStore
<1>1. StoreInv /\ StoreInv' /\ [Next]_vars => [Store!Next]_(Store!vars)
  BY StepStore
<1>2. Init => Store!Init
  BY InitStore
<1> QED BY <1>1, <1>2, StoreAlways, PTL DEF Spec, ImplementsFirstWriteStore, Store!Spec

\* A batch read returns consecutive messages of the log, and one that returns
\* fewer than asked for has come to a record still in the stdio buffer
\* (table.h:374-393), on logs of any size.
THEOREM BatchesAreSlices == Spec => []BatchIsLogSlice
<1>1. StoreInv => BatchIsLogSlice
  BY DEF StoreInv
<1> QED BY <1>1, StoreAlways, PTL
=============================================================================
