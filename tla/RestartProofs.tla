--------------------------- MODULE RestartProofs ----------------------------
(***************************************************************************)
(* Theorems about TableRestart, for any number of crashes: what has left   *)
(* the stdio buffer survives, and each process numbers and indexes its own *)
(* records and no others.                                                  *)
(***************************************************************************)
EXTENDS TableRestart, TableProofs

\* The conjuncts need one another: an offset in the index leads to a record of
\* this process because the numbering follows the end of the log, and does so
\* only while the stream is open.
RestartInv ==
    /\ TypeOK
    /\ inherited \in 0 .. flushed
    /\ OffsetsAreDensePerLife
    /\ stream = "open" => Len(log) - inherited = current_offset
    /\ IndexKnowsOnlyThisLife

LEMMA InitRestart == RInit => RestartInv
<1> SUFFICES ASSUME RInit PROVE RestartInv
  OBVIOUS
<1>1. TypeOK
  BY InitTypeOK DEF RInit
<1>2. /\ Len(log) = 0 /\ inherited = 0 /\ flushed = 0 /\ current_offset = 0
      /\ \A b \in Bindings : segment_index[b] = NoOffset
  BY DEF RInit, Init
<1>3. OffsetsAreDensePerLife
  BY <1>2 DEF OffsetsAreDensePerLife
<1>4. IndexKnowsOnlyThisLife
  BY <1>2 DEF IndexKnowsOnlyThisLife
<1> QED BY <1>1, <1>2, <1>3, <1>4 DEF RestartInv

\* The numbers the proofs reckon with.
LEMMA LifeType ==
    ASSUME RestartInv
    PROVE  /\ Len(log) \in Nat /\ current_offset \in Nat
           /\ flushed \in 0 .. Len(log) /\ inherited \in 0 .. Len(log)
           /\ inherited + current_offset <= Len(log)
<1>1. Len(log) \in Nat
  BY EndType DEF RestartInv
<1>2. current_offset \in Nat /\ flushed \in 0 .. Len(log) /\ inherited \in 0 .. flushed
  BY DEF RestartInv, TypeOK
<1>3. Len(log) - inherited = current_offset \/ Len(log) - inherited = current_offset + 1
  BY DEF RestartInv, OffsetsAreDensePerLife
<1> QED BY <1>1, <1>2, <1>3

\* A record appended gets the next offset of this process, and is its last.
LEMMA AppendLife ==
    ASSUME RestartInv, NEW s \in Statements, AppendRecord(s), stream = "open",
           inherited' = inherited
    PROVE  /\ Len(log') = Len(log) + 1
           /\ Len(log) = inherited + current_offset
           /\ \A i \in 1 .. Len(log) : log'[i] = log[i]
           /\ log'[inherited + current_offset + 1].stmt = s
           /\ \A i \in inherited' + 1 .. Len(log') : log'[i].offset = i - 1 - inherited'
           /\ inherited' \in 0 .. flushed'
<1>1. /\ Len(log) \in Nat /\ current_offset \in Nat /\ inherited \in 0 .. Len(log)
      /\ inherited \in 0 .. flushed /\ flushed \in Nat
  BY LifeType DEF RestartInv
<1>2. Len(log) = inherited + current_offset
  BY <1>1 DEF RestartInv
<1>3. /\ Len(log') = Len(log) + 1
      /\ \A i \in 1 .. Len(log) : log'[i] = log[i]
      /\ flushed' \in flushed .. Len(log')
  BY AppendRecordProperties DEF RestartInv
<1>4. log'[Len(log) + 1].stmt = s /\ log'[Len(log) + 1].offset = current_offset
  <2>1. log'[Len(log) + 1] = [offset |-> current_offset, at |-> FileEnd, stmt |-> s]
    BY AppendRecordProperties DEF RestartInv
  <2> QED BY <2>1
<1>5. \A i \in inherited + 1 .. Len(log') : log'[i].offset = i - 1 - inherited
  <2> TAKE i \in inherited + 1 .. Len(log')
  <2>1. CASE i = Len(log) + 1
    BY <1>1, <1>2, <1>4, <2>1
  <2>2. CASE i # Len(log) + 1
    <3>1. i \in inherited + 1 .. Len(log) /\ i \in 1 .. Len(log)
      BY <1>1, <1>3, <2>2
    <3>2. log[i].offset = i - 1 - inherited
      BY <3>1 DEF RestartInv, OffsetsAreDensePerLife
    <3> QED BY <1>3, <3>1, <3>2
  <2> QED BY <2>1, <2>2
<1> QED BY <1>1, <1>2, <1>3, <1>4, <1>5

\* An offset of the index leads to the same record after an append.
LEMMA IndexUnderAppend ==
    ASSUME RestartInv, \A i \in 1 .. Len(log) : log'[i] = log[i],
           NEW b \in Bindings, segment_index[b] # NoOffset
    PROVE  /\ segment_index[b] \in Nat /\ segment_index[b] < current_offset
           /\ b \in BindingsOf(log'[LifeOf(segment_index[b])].stmt)
<1>1. segment_index[b] < current_offset /\ segment_index[b] \in Nat
  BY DEF RestartInv, IndexKnowsOnlyThisLife, TypeOK, NoOffset
<1>2. LifeOf(segment_index[b]) \in 1 .. Len(log)
  BY <1>1, LifeType DEF LifeOf
<1>3. b \in BindingsOf(log[LifeOf(segment_index[b])].stmt)
  BY DEF RestartInv, IndexKnowsOnlyThisLife
<1> QED BY <1>1, <1>2, <1>3

\* A put keeps the invariant, whether it reaches the index or fails in Sync.
LEMMA PutRestart ==
    ASSUME RestartInv, TypeOK', inherited' = inherited, NEW s \in Statements,
           Put(s) \/ PutSyncFails(s)
    PROVE  RestartInv'
<1>1. AppendRecord(s) /\ stream = "open"
  BY DEF Put, PutSyncFails
<1>2. /\ Len(log') = Len(log) + 1
      /\ Len(log) = inherited + current_offset
      /\ \A i \in 1 .. Len(log) : log'[i] = log[i]
      /\ log'[inherited + current_offset + 1].stmt = s
      /\ \A i \in inherited' + 1 .. Len(log') : log'[i].offset = i - 1 - inherited'
      /\ inherited' \in 0 .. flushed'
  BY <1>1, AppendLife
<1>3. Len(log) \in Nat /\ current_offset \in Nat /\ inherited \in Nat
  BY LifeType
<1>4. CASE Put(s)
  <2>1. /\ current_offset' = current_offset + 1
        /\ \A b \in Bindings :
              segment_index'[b] = IF b \in BindingsOf(s) /\ segment_index[b] = NoOffset
                                  THEN current_offset ELSE segment_index[b]
    BY <1>4 DEF Put, PutDisk, PutIndex
  <2>2. Len(log') - inherited' = current_offset'
    BY <1>2, <1>3, <2>1
  <2>3. IndexKnowsOnlyThisLife'
    <3> SUFFICES ASSUME NEW b \in Bindings, segment_index'[b] # NoOffset
                 PROVE  /\ segment_index'[b] < current_offset'
                        /\ b \in BindingsOf(log'[inherited + segment_index'[b] + 1].stmt)
      BY DEF IndexKnowsOnlyThisLife, LifeOf, BindingsOf, Bindings
    <3>1. CASE b \in BindingsOf(s) /\ segment_index[b] = NoOffset
      BY <1>2, <1>3, <2>1, <3>1
    <3>2. CASE ~(b \in BindingsOf(s) /\ segment_index[b] = NoOffset)
      <4>1. segment_index'[b] = segment_index[b]
        BY <2>1, <3>2
      <4>2. /\ segment_index[b] \in Nat /\ segment_index[b] < current_offset
            /\ b \in BindingsOf(log'[LifeOf(segment_index[b])].stmt)
        BY <1>2, <4>1, IndexUnderAppend
      <4> QED BY <1>3, <2>1, <4>1, <4>2 DEF LifeOf
    <3> QED BY <3>1, <3>2
  <2> QED BY <1>2, <2>2, <2>3 DEF RestartInv, OffsetsAreDensePerLife
<1>5. CASE PutSyncFails(s)
  <2>1. current_offset' = current_offset /\ segment_index' = segment_index /\ stream' = "null"
    BY <1>5 DEF PutSyncFails
  <2>2. Len(log') - inherited' = current_offset' + 1
    BY <1>2, <1>3, <2>1
  <2>3. IndexKnowsOnlyThisLife'
    <3> SUFFICES ASSUME NEW b \in Bindings, segment_index[b] # NoOffset
                 PROVE  /\ segment_index[b] < current_offset
                        /\ b \in BindingsOf(log'[LifeOf(segment_index[b])].stmt)
      BY <2>1 DEF IndexKnowsOnlyThisLife, LifeOf, BindingsOf, Bindings
    <3> QED BY <1>2, IndexUnderAppend
  <2> QED BY <1>2, <2>1, <2>2, <2>3 DEF RestartInv, OffsetsAreDensePerLife
<1> QED BY <1>4, <1>5

\* Steps that write no record keep it.
LEMMA QuietRestart ==
    ASSUME RestartInv, TypeOK', UNCHANGED <<log, current_offset, segment_index, inherited>>,
           flushed' \in flushed .. Len(log), stream' = stream \/ stream' = "null"
    PROVE  RestartInv'
<1>1. inherited' \in 0 .. flushed'
  BY LifeType DEF RestartInv
<1>2. OffsetsAreDensePerLife' /\ (stream' = "open" => Len(log') - inherited' = current_offset')
  BY DEF RestartInv, OffsetsAreDensePerLife
<1>3. IndexKnowsOnlyThisLife'
  BY DEF RestartInv, IndexKnowsOnlyThisLife, LifeOf, BindingsOf, Bindings
<1> QED BY <1>1, <1>2, <1>3 DEF RestartInv

\* The file a new process opens: what the old one had flushed.
LEMMA OpenedLog ==
    ASSUME RestartInv, Restart
    PROVE  /\ log' \in Seq(Records) /\ Len(log') = flushed
           /\ \A i \in 1 .. flushed : log'[i] = log[i]
           /\ inherited' = flushed /\ flushed' = flushed
<1>1. flushed \in 0 .. Len(log) /\ Len(log) \in Nat
  BY LifeType
<1>2. log \in Seq(Records) /\ log' = SubSeq(log, 1, flushed)
  BY DEF RestartInv, TypeOK, Records, Restart, OpenLog
<1>3. \A i \in 1 .. flushed : log[i] \in Records
  BY <1>1, EndType DEF RestartInv
<1> QED BY <1>1, <1>2, <1>3, SubSeqProperties DEF Restart, OpenLog

LEMMA RestartKeeps ==
    ASSUME RestartInv, Restart
    PROVE  RestartInv'
<1>1. /\ log' \in Seq(Records) /\ Len(log') = flushed
      /\ inherited' = flushed /\ flushed' = flushed
  BY OpenedLog
<1>2. flushed \in Nat
  BY LifeType
<1>3. /\ current_offset' = 0 /\ current_pos' = 0 /\ stream' = "open" /\ status' = "running"
      /\ segment_index' = [b \in Bindings |-> NoOffset]
      /\ DOMAIN offset_pos_map' = {} /\ DOMAIN offset_message' = {}
      /\ reply' = Reply("none", <<>>, TRUE, <<>>)
  BY DEF Restart, OpenLog, NewMemory
<1>4. reply'.data = <<>> /\ reply'.op = "none" /\ reply'.ok = TRUE
  BY <1>3 DEF Reply
<1>5. TypeOK'
  <2>1. reply'.data \in Seq(Statements)
    BY <1>4
  <2>2. segment_index' \in [Bindings -> Nat \cup {NoOffset}]
    BY <1>3
  <2>3. flushed' \in 0 .. Len(log')
    BY <1>1, <1>2
  <2> QED BY <1>1, <1>3, <1>4, <2>1, <2>2, <2>3 DEF TypeOK, Records, Bindings
<1>6. OffsetsAreDensePerLife' /\ Len(log') - inherited' = current_offset'
  BY <1>1, <1>2, <1>3 DEF OffsetsAreDensePerLife
<1>7. IndexKnowsOnlyThisLife'
  BY <1>3 DEF IndexKnowsOnlyThisLife, Bindings
<1> QED BY <1>1, <1>2, <1>5, <1>6, <1>7 DEF RestartInv

\* Only puts write records and change what offsets are bound to.
LEMMA OnlyPutsWrite ==
    ASSUME RestartInv, Next, ~\E s \in Statements : Put(s) \/ PutSyncFails(s)
    PROVE  /\ UNCHANGED <<log, current_offset, segment_index>>
           /\ flushed' \in flushed .. Len(log)
           /\ stream' = stream \/ stream' = "null"
<1>0. flushed \in flushed .. Len(log) /\ Len(log) \in flushed .. Len(log)
  BY LifeType
<1>1. ASSUME UNCHANGED <<log, current_offset, segment_index, flushed, stream>>
      PROVE  /\ UNCHANGED <<log, current_offset, segment_index>>
             /\ flushed' \in flushed .. Len(log)
             /\ stream' = stream \/ stream' = "null"
  BY <1>0, <1>1
<1>2. ASSUME NEW s \in Statements, PutNullStream(s)
      PROVE  UNCHANGED <<log, current_offset, segment_index, flushed, stream>>
  BY <1>2 DEF PutNullStream, Die
<1>3. ASSUME NEW f \in Fields, NEW t \in Timestamps \cup {BadTs}, NEW v \in Values,
             Get(f, t, v)
      PROVE  UNCHANGED <<log, current_offset, segment_index, flushed, stream>>
  BY <1>3 DEF Get, Die
<1>4. ASSUME NEW start \in 0 .. MaxPuts, NEW end \in 1 .. MaxPuts + 1,
             GetBatchData(start, end)
      PROVE  UNCHANGED <<log, current_offset, segment_index, flushed, stream>>
  BY <1>4 DEF GetBatchData, Die
<1>5. ASSUME Sync \/ SyncNullStream
      PROVE  /\ UNCHANGED <<log, current_offset, segment_index>>
             /\ flushed' \in flushed .. Len(log)
             /\ stream' = stream \/ stream' = "null"
  BY <1>0, <1>5 DEF Sync, SyncNullStream, Die
<1> QED BY <1>1, <1>2, <1>3, <1>4, <1>5 DEF Next

LEMMA NextRestart == RestartInv /\ [RNext]_rvars => RestartInv'
<1> SUFFICES ASSUME RestartInv, [RNext]_rvars PROVE RestartInv'
  OBVIOUS
<1>1. CASE Restart
  BY <1>1, RestartKeeps
<1>2. CASE [Next]_vars /\ UNCHANGED inherited
  <2>1. TypeOK'
    BY <1>2, NextTypeOK DEF RestartInv
  <2>2. CASE \E s \in Statements : Put(s) \/ PutSyncFails(s)
    BY <1>2, <2>1, <2>2, PutRestart
  <2>3. CASE ~\E s \in Statements : Put(s) \/ PutSyncFails(s)
    <3>1. CASE Next
      BY <1>2, <2>1, <2>3, <3>1, OnlyPutsWrite, QuietRestart
    <3>2. CASE UNCHANGED vars
      <4>1. flushed \in flushed .. Len(log)
        BY LifeType
      <4> QED BY <1>2, <2>1, <3>2, <4>1, QuietRestart DEF vars
    <3> QED BY <1>2, <3>1, <3>2
  <2> QED BY <2>2, <2>3
<1> QED BY <1>1, <1>2 DEF RNext, rvars

LEMMA RestartAlways == RSpec => []RestartInv
BY InitRestart, NextRestart, PTL DEF RSpec

-----------------------------------------------------------------------------
(* Theorems. *)

\* Each process numbers its own records from 0 without gap, behind however
\* many records earlier processes have left (table.h:90,136-167).
THEOREM DensePerLife == RSpec => []OffsetsAreDensePerLife
<1>1. RestartInv => OffsetsAreDensePerLife
  BY DEF RestartInv
<1> QED BY <1>1, RestartAlways, PTL

\* The memory index knows statements of this process only, and where they are
\* among its own records.
THEOREM IndexIsOfThisLife == RSpec => []IndexKnowsOnlyThisLife
<1>1. RestartInv => IndexKnowsOnlyThisLife
  BY DEF RestartInv
<1> QED BY <1>1, RestartAlways, PTL

\* No put, failed sync, crash or re-creation takes a record out of the file
\* that has left the stdio buffer (disk.h:102-109).
THEOREM RecordsSurvive == RSpec => FlushedRecordsSurvive
<1>1. RestartInv /\ [RNext]_rvars =>
         [\A i \in 1 .. flushed : i \in DOMAIN log' /\ log'[i] = log[i]]_rvars
  <2> SUFFICES ASSUME RestartInv, RNext
               PROVE  \A i \in 1 .. flushed : i \in DOMAIN log' /\ log'[i] = log[i]
    OBVIOUS
  <2>0. flushed \in 0 .. Len(log) /\ Len(log) \in Nat
    BY LifeType
  <2>1. CASE Restart
    <3>1. log' \in Seq(Records) /\ Len(log') = flushed
      BY <2>1, OpenedLog
    <3>2. DOMAIN log' = 1 .. flushed
      BY <3>1
    <3> QED BY <2>1, <3>2, OpenedLog
  <2>2. CASE \E s \in Statements : Put(s) \/ PutSyncFails(s)
    <3>1. PICK s \in Statements : AppendRecord(s)
      BY <2>2 DEF Put, PutSyncFails
    <3>2. DOMAIN log' = 1 .. Len(log) + 1 /\ \A i \in 1 .. Len(log) : log'[i] = log[i]
      BY <3>1, AppendRecordProperties DEF RestartInv
    <3> QED BY <2>0, <3>2
  <2>3. CASE Next /\ ~\E s \in Statements : Put(s) \/ PutSyncFails(s)
    <3>1. log' = log
      BY <2>3, OnlyPutsWrite
    <3>2. DOMAIN log = 1 .. Len(log)
      BY EndType DEF RestartInv
    <3> QED BY <2>0, <3>1, <3>2
  <2> QED BY <2>1, <2>2, <2>3 DEF RNext
<1> QED BY <1>1, RestartAlways, PTL DEF RSpec, FlushedRecordsSurvive
=============================================================================
