------------------------------- MODULE Table -------------------------------
(***************************************************************************)
(* One table of a tablet: storage/table.h with the log it appends to       *)
(* (WritableFileHandle and UnixWritableFile), the reader it looks messages *)
(* up with (RandomAccessFileHandle), the in-memory index (Segment) and the *)
(* message cache (LRUCacheMap), over one life of the process.              *)
(*                                                                         *)
(* A statement is a member of Statements; what the code parses out of its  *)
(* text is given by the functions TsOf, ColumnsOf and SizeOf.  The log     *)
(* file is the sequence of its records, each with the byte position it     *)
(* starts at; the stdio buffer is the suffix of the log after `flushed`.   *)
(***************************************************************************)
EXTENDS Integers, Sequences, FiniteSetsExt

CONSTANTS
    Statements,       \* the statements clients may put
    Fields,           \* names of columns
    KeyFields,        \* the columns declared is_key in the schema
    Timestamps,       \* timestamps that parse
    Values,           \* column values
    BadTs,            \* a timestamp text that lexical_cast rejects
    TsOf,             \* [Statements -> Timestamps \cup {BadTs}]
    ColumnsOf,        \* for a statement, the value of each column it names
    SizeOf,           \* bytes of a statement
    SparseThreshold,  \* FLAGS_log_index_sparse_threshold
    CacheThreshold,   \* disk_cache_threshold_
    PosLimit,         \* 2^32: current_pos_ and pos are uint32_t
    MaxPuts           \* bound: records appended in a behaviour

ASSUME StatementAssumption ==
    /\ KeyFields \subseteq Fields
    /\ Timestamps \subseteq Nat
    /\ BadTs \notin Timestamps
    /\ TsOf \in [Statements -> Timestamps \cup {BadTs}]
    /\ SizeOf \in [Statements -> Nat]
    /\ \A s \in Statements :
          /\ DOMAIN ColumnsOf[s] \subseteq Fields
          /\ \A f \in DOMAIN ColumnsOf[s] : ColumnsOf[s][f] \in Values

\* What stands for no statement where a table is described as a map.
ASSUME MissingAssumption == "missing" \notin Statements

ASSUME ThresholdAssumption ==
    /\ SparseThreshold \in Nat \ {0}
    /\ CacheThreshold \in Nat \ {0}
    /\ PosLimit \in Nat \ {0}
    /\ MaxPuts \in Nat

VARIABLES
    log,             \* records of 00000000.log, in file order
    flushed,         \* how many of them have left the stdio buffer
    stream,          \* UnixWritableFile::filestream_: "open" or "null"
    current_pos,     \* WritableFileHandle::current_pos_
    current_offset,  \* Table::current_offset_
    offset_pos_map,  \* sparse index: offset -> file position
    segment_index,   \* key, timestamp, value -> offset
    offset_message,  \* cache: offset -> message
    status,          \* "running", or what killed the process
    reply            \* the last call: operation, arguments, result

vars == <<log, flushed, stream, current_pos, current_offset, offset_pos_map,
          segment_index, offset_message, status, reply>>

-----------------------------------------------------------------------------
(* Data. *)

HeaderSize == 12   \* 8 bytes of offset and 4 bytes of message size

NoOffset == -1

\* The entries of the three nested skip lists of a Segment.
Bindings == KeyFields \X Timestamps \X Values

\* The entries Table::Put makes for a statement: one for each of its columns
\* the segment has an index for, none when the timestamp does not parse.
BindingsOf(s) ==
    {b \in Bindings : /\ b[2] = TsOf[s]
                      /\ b[1] \in DOMAIN ColumnsOf[s]
                      /\ b[3] = ColumnsOf[s][b[1]]}

\* std::map::insert, which leaves an entry that is already there alone.
MapInsert(m, k, v) ==
    [x \in DOMAIN m \cup {k} |-> IF x \in DOMAIN m THEN m[x] ELSE v]

EndOf(i) == log[i].at + HeaderSize + SizeOf[log[i].stmt]

FileEnd == IF log = <<>> THEN 0 ELSE EndOf(Len(log))

FlushedEnd == IF flushed = 0 THEN 0 ELSE EndOf(flushed)

-----------------------------------------------------------------------------
(* Looking a message up in the log. *)

\* Mutant: the offset of one entry goes with the position of another.
FindOffsetPositionMixed(o) ==
    LET below == {x \in DOMAIN offset_pos_map : x <= o}
    IN  IF below = {} THEN [start |-> 0, pos |-> 0]
        ELSE [start |-> Max(below), pos |-> offset_pos_map[Min(below)]]

\* The largest indexed offset that is not larger than o, and its position.
FindOffsetPosition(o) ==
    LET below == {x \in DOMAIN offset_pos_map : x <= o}
    IN  IF below = {} THEN [start |-> 0, pos |-> 0]
        ELSE [start |-> Max(below), pos |-> offset_pos_map[Max(below)]]

\* Mutant: the reader wants a block of 64 bytes, and the end of the log has
\* fewer.
ReadableBlock(p) == p + 64 <= FlushedEnd

\* RandomAccessFileHandle::GetMessageOffset gets its 8 bytes from pread.
Readable(p) == p + 8 <= FlushedEnd

\* The position the scan has when it comes to the i-th record, having begun
\* at position p with the record `first`.
ScanPos(p, first, i) == IF i = first THEN p ELSE EndOf(i - 1) % PosLimit

\* assert(start_offset == message_offset): what is read at that position is
\* a record, and it is the one the scan counts on.
OnTrack(from, first, i) ==
    /\ i \in DOMAIN log
    /\ log[i].at = ScanPos(from.pos, first, i)
    /\ log[i].offset = from.start + (i - first)

\* Mutant: the scan takes the record before the one asked for.
ScanEndsEarly(o, from, first, i) ==
    \/ ~Readable(ScanPos(from.pos, first, i))
    \/ ~OnTrack(from, first, i)
    \/ log[i].offset + 1 >= o

\* The scan ends at the i-th record: a short read, a failed assertion, or
\* the record that was asked for.
ScanEnds(o, from, first, i) ==
    \/ ~Readable(ScanPos(from.pos, first, i))
    \/ ~OnTrack(from, first, i)
    \/ log[i].offset = o

\* The record the scan ends at.
ScanEnd(o, from, first) ==
    CHOOSE i \in first .. Len(log) + 1 :
        /\ ScanEnds(o, from, first, i)
        /\ \A j \in first .. i - 1 : ~ScanEnds(o, from, first, j)

\* RandomAccessFileHandle's constructor asserts that fopen gave a stream.
\* Before the first complete put offset_pos_map_ has no file to name, and
\* fopen is given the directory.
OpenAsserts == DOMAIN offset_pos_map = {}

\* Whether FindMessage returns the message at offset o, returns false after
\* a short read, or kills the process, and which record it stops at.
FindMessage(o) ==
    LET from  == FindOffsetPosition(o)
        heads == {i \in DOMAIN log : log[i].at = from.pos}
        first == CHOOSE i \in heads : TRUE
        i     == ScanEnd(o, from, first)
    IN  IF OpenAsserts                THEN [kind |-> "open_assert", at |-> 0]
        ELSE IF ~Readable(from.pos)   THEN [kind |-> "short_read", at |-> 0]
        ELSE IF heads = {}            THEN [kind |-> "offset_assert", at |-> 0]
        ELSE IF ~Readable(ScanPos(from.pos, first, i))
                                      THEN [kind |-> "short_read", at |-> i]
        ELSE IF ~OnTrack(from, first, i)
                                      THEN [kind |-> "offset_assert", at |-> i]
        ELSE [kind |-> "message", at |-> i]

-----------------------------------------------------------------------------
(* The operations. *)

Reply(op, asked, ok, data) ==
    [op |-> op, asked |-> asked, ok |-> ok, data |-> data]

\* The constructor, in a directory that has no log yet.
Init ==
    /\ log = <<>>
    /\ flushed = 0
    /\ stream = "open"
    /\ current_pos = 0
    /\ current_offset = 0
    /\ offset_pos_map = [o \in {} |-> 0]
    /\ segment_index = [b \in Bindings |-> NoOffset]
    /\ offset_message = [o \in {} |-> 0]
    /\ status = "running"
    /\ reply = Reply("none", <<>>, TRUE, <<>>)

Die(cause) ==
    /\ status' = cause
    /\ UNCHANGED <<log, flushed, stream, current_pos, current_offset,
                   offset_pos_map, segment_index, offset_message, reply>>

\* Mutant: the position counter leaves the header out.
AppendRecordNoHeader(s) ==
    /\ log' = Append(log, [offset |-> current_offset, at |-> FileEnd, stmt |-> s])
    /\ current_pos' = (current_pos + SizeOf[s]) % PosLimit
    /\ flushed' \in flushed .. Len(log')

\* WritableFileHandle::Append: stdio may write out any of what it buffers.
AppendRecord(s) ==
    /\ log' = Append(log, [offset |-> current_offset, at |-> FileEnd, stmt |-> s])
    /\ current_pos' = (current_pos + HeaderSize + SizeOf[s]) % PosLimit
    /\ flushed' \in flushed .. Len(log')

\* Mutant: the position is read after the record is appended.
PutDiskPosAfter(s) ==
    /\ offset_pos_map' = IF current_offset % SparseThreshold = 0
                         THEN MapInsert(offset_pos_map, current_offset, current_pos')
                         ELSE offset_pos_map
    /\ current_offset' = current_offset + 1

\* Mutant: the position is taken to be that of the header before.
PutDiskPosBefore(s) ==
    /\ offset_pos_map' = IF current_offset % SparseThreshold = 0
                         THEN MapInsert(offset_pos_map, current_offset,
                                        current_pos - HeaderSize)
                         ELSE offset_pos_map
    /\ current_offset' = current_offset + 1

\* What PutDisk does after Append (and Sync) succeeded.
PutDisk(s) ==
    /\ offset_pos_map' = IF current_offset % SparseThreshold = 0
                         THEN MapInsert(offset_pos_map, current_offset, current_pos)
                         ELSE offset_pos_map
    /\ current_offset' = current_offset + 1

\* Mutant: the last offset of a binding replaces the first.
PutIndexLast(s) ==
    segment_index' = [b \in Bindings |->
        IF b \in BindingsOf(s) THEN current_offset ELSE segment_index[b]]

\* Segment::Put for every indexed column: the first offset bound stays.
PutIndex(s) ==
    segment_index' = [b \in Bindings |->
        IF b \in BindingsOf(s) /\ segment_index[b] = NoOffset
        THEN current_offset ELSE segment_index[b]]

CanPut == status = "running" /\ Len(log) < MaxPuts

\* Table::Put that reaches the index.  A timestamp that does not parse makes
\* it return false after the record is in the log and its offset is used.
Put(s) ==
    /\ CanPut
    /\ stream = "open"
    /\ AppendRecord(s)
    /\ current_offset % CacheThreshold = 0 => flushed' = Len(log')
    /\ PutDisk(s)
    /\ PutIndex(s)
    /\ reply' = Reply("put", <<s>>, TsOf[s] # BadTs, <<>>)
    /\ UNCHANGED <<stream, offset_message, status>>

\* Mutant: the stream survives a Sync that fails, and the put can be retried.
PutSyncFailsOpen(s) ==
    /\ CanPut
    /\ stream = "open"
    /\ current_offset % CacheThreshold = 0
    /\ AppendRecord(s)
    /\ reply' = Reply("put", <<s>>, FALSE, <<>>)
    /\ UNCHANGED <<stream, current_offset, offset_pos_map, segment_index,
                   offset_message, status>>

\* Table::Put whose Sync fails: PutDisk returns false with the record
\* appended, and UnixWritableFile has let go of its stream.
PutSyncFails(s) ==
    /\ CanPut
    /\ stream = "open"
    /\ current_offset % CacheThreshold = 0
    /\ AppendRecord(s)
    /\ stream' = "null"
    /\ reply' = Reply("put", <<s>>, FALSE, <<>>)
    /\ UNCHANGED <<current_offset, offset_pos_map, segment_index,
                   offset_message, status>>

\* Table::Put after a failed Sync: fwrite on a null stream.
PutNullStream(s) ==
    /\ CanPut
    /\ stream = "null"
    /\ Die("null_stream")

\* Segment::Get is asked with timestamp 0 when the text does not parse.
GetTs(t) == IF t = BadTs THEN 0 ELSE t

\* The offset Segment::Get finds for field f, timestamp text t and value v.
IndexedOffset(f, t, v) ==
    IF <<f, GetTs(t), v>> \in Bindings
    THEN segment_index[<<f, GetTs(t), v>>] ELSE NoOffset

\* Table::Get: index, then cache, then log; a message read from the log is
\* cached.
Get(f, t, v) ==
    LET o     == IndexedOffset(f, t, v)
        found == FindMessage(o)
        asked == <<f, GetTs(t), v>>
        Returns(ok, data) ==
            /\ reply' = Reply("get", asked, ok, data)
            /\ UNCHANGED <<log, flushed, stream, current_pos, current_offset,
                           offset_pos_map, segment_index, status>>
    IN  /\ status = "running"
        /\ \/ /\ o = NoOffset
              /\ Returns(FALSE, <<>>)
              /\ UNCHANGED offset_message
           \/ /\ o # NoOffset
              /\ o \in DOMAIN offset_message
              /\ Returns(TRUE, <<offset_message[o]>>)
              /\ UNCHANGED offset_message
           \/ /\ o # NoOffset
              /\ o \notin DOMAIN offset_message
              /\ found.kind = "short_read"
              /\ Returns(FALSE, <<>>)
              /\ UNCHANGED offset_message
           \/ /\ o # NoOffset
              /\ o \notin DOMAIN offset_message
              /\ found.kind = "message"
              /\ Returns(TRUE, <<log[found.at].stmt>>)
              /\ offset_message' = MapInsert(offset_message, o, log[found.at].stmt)
           \/ /\ o # NoOffset
              /\ o \notin DOMAIN offset_message
              /\ found.kind \in {"offset_assert", "open_assert"}
              /\ Die(found.kind)

\* Table::GetBatchData: the messages of start .. end - 1, up to the first one
\* FindMessage does not return.
GetBatchData(start, end) ==
    LET found  == [o \in start .. end - 1 |-> FindMessage(o)]
        missed == {o \in start .. end - 1 : found[o].kind # "message"}
        upto   == IF missed = {} THEN end ELSE Min(missed)
        data   == [k \in 1 .. upto - start |-> log[found[start + k - 1].at].stmt]
    IN  /\ status = "running"
        /\ \/ /\ missed # {} => found[upto].kind = "short_read"
              /\ reply' = Reply("batch", <<start, end>>, missed = {}, data)
              /\ UNCHANGED <<log, flushed, stream, current_pos, current_offset,
                             offset_pos_map, segment_index, offset_message, status>>
           \/ /\ missed # {}
              /\ found[upto].kind \in {"offset_assert", "open_assert"}
              /\ Die(found[upto].kind)

\* Table::Sync: flush everything, or fail and let go of the stream.
Sync ==
    /\ status = "running"
    /\ stream = "open"
    /\ \/ /\ flushed' = Len(log)
          /\ UNCHANGED stream
          /\ reply' = Reply("sync", <<>>, TRUE, <<>>)
       \/ /\ flushed' \in flushed .. Len(log)
          /\ stream' = "null"
          /\ reply' = Reply("sync", <<>>, FALSE, <<>>)
    /\ UNCHANGED <<log, current_pos, current_offset, offset_pos_map,
                   segment_index, offset_message, status>>

\* Table::Sync after a failed one: fflush(NULL) flushes every stream the
\* process has; when that succeeds fileno gets the null stream.
SyncNullStream ==
    /\ status = "running"
    /\ stream = "null"
    /\ \/ /\ flushed' \in flushed .. Len(log)
          /\ reply' = Reply("sync", <<>>, FALSE, <<>>)
          /\ UNCHANGED <<log, stream, current_pos, current_offset,
                         offset_pos_map, segment_index, offset_message, status>>
       \/ Die("null_stream")

Next ==
    \/ \E s \in Statements : Put(s) \/ PutSyncFails(s) \/ PutNullStream(s)
    \/ \E f \in Fields, t \in Timestamps \cup {BadTs}, v \in Values : Get(f, t, v)
    \/ \E start \in 0 .. MaxPuts, end \in 1 .. MaxPuts + 1 :
          start < end /\ GetBatchData(start, end)
    \/ Sync
    \/ SyncNullStream

Spec == Init /\ [][Next]_vars

-----------------------------------------------------------------------------
(* Properties. *)

TypeOK ==
    /\ log \in Seq([offset : Nat, at : Nat, stmt : Statements])
    /\ flushed \in 0 .. Len(log)
    /\ stream \in {"open", "null"}
    /\ current_pos \in Nat
    /\ current_offset \in Nat
    /\ DOMAIN offset_pos_map \subseteq Nat
    /\ \A o \in DOMAIN offset_pos_map : offset_pos_map[o] \in Nat
    /\ segment_index \in [Bindings -> Nat \cup {NoOffset}]
    /\ DOMAIN offset_message \subseteq Nat
    /\ \A o \in DOMAIN offset_message : offset_message[o] \in Statements
    /\ status \in {"running", "null_stream", "offset_assert", "open_assert"}
    /\ reply.op \in {"none", "put", "get", "batch", "sync"}
    /\ reply.ok \in BOOLEAN
    /\ reply.data \in Seq(Statements)

\* The log is small enough for the uint32_t positions.
Fits == FileEnd < PosLimit

\* The record of offset o is the (o+1)-th of the log: no offset is used twice
\* or skipped, though a put whose Sync fails has appended its record and not
\* advanced current_offset_ (table.h:147-167).
OffsetsAreDense ==
    /\ \A i \in DOMAIN log : log[i].offset = i - 1
    /\ \/ Len(log) = current_offset
       \/ Len(log) = current_offset + 1 /\ stream = "null"

\* Records follow one another in the file without gap or overlap, and the
\* position counter the writer keeps is the length of the file (disk.h:58-80).
PositionsAgree ==
    /\ \A i \in DOMAIN log :
          log[i].at = IF i = 1 THEN 0 ELSE EndOf(i - 1)
    /\ \A i, j \in DOMAIN log : i < j => EndOf(i) <= log[j].at
    /\ Fits => current_pos = FileEnd

\* The sparse index has an entry for each SparseThreshold-th complete put,
\* and its position is where that record really starts in the file, although
\* PutDisk takes it from a counter kept beside the file (table.h:135,155-166).
SparseIndexFindsRecords ==
    /\ DOMAIN offset_pos_map =
          {o \in 0 .. current_offset - 1 : o % SparseThreshold = 0}
    /\ Fits => \A o \in DOMAIN offset_pos_map : offset_pos_map[o] = log[o + 1].at

\* The offsets of the complete puts that name a binding.
PutsOf(b) == {o \in 0 .. current_offset - 1 : b \in BindingsOf(log[o + 1].stmt)}

\* The memory index is what a replay of the log would build: each binding has
\* the offset of the first complete put that names it, and a binding no put
\* names has none (table.h:219-226 with segment.h:225-257).
IndexIsReplayOfLog ==
    \A b \in Bindings :
        segment_index[b] = IF PutsOf(b) = {} THEN NoOffset ELSE Min(PutsOf(b))

\* The assertion of FindMessage (table.h:344) never fails while the log fits
\* the 32-bit positions, and the one on fopen (disk.h:288) can only fail
\* before the first complete put.
NoAssertionFails ==
    /\ Fits => status # "offset_assert"
    /\ status = "open_assert" => current_offset = 0

\* A cached message is the one the log has at its offset (table.h:256-275).
CacheIsCoherent ==
    \A o \in DOMAIN offset_message :
        o < current_offset /\ offset_message[o] = log[o + 1].stmt

\* A Get that returns true returns the first statement put for the binding
\* asked for, whether it comes from the cache or from the log (table.h:239-277).
GetReturnsFirstPut ==
    reply.op = "get" /\ reply.ok =>
        /\ PutsOf(reply.asked) # {}
        /\ reply.data = <<log[Min(PutsOf(reply.asked)) + 1].stmt>>

\* GetBatchData returns consecutive messages of the log from start on; it
\* returns true only with all of them, and with fewer it has stopped at the
\* first record that is not readable (table.h:374-393).
BatchIsLogSlice ==
    reply.op = "batch" =>
        LET start == reply.asked[1]
            got   == Len(reply.data)
        IN  /\ reply.ok <=> start + got = reply.asked[2]
            /\ ~reply.ok => start + got >= flushed
            /\ \A k \in 1 .. got :
                  start + k <= Len(log) /\ reply.data[k] = log[start + k].stmt

\* What test/storage/table_test.cpp:137-142 expects right after its puts: a
\* Get finds what a Put has stored.  PutDisk leaves the record in the stdio
\* buffer, which the reader's pread does not see (table.h:142-152).
PutIsReadable ==
    reply.op = "get" /\ PutsOf(reply.asked) # {} => reply.ok

\* assert(start_offset == message_offset) of table.h:344, for a log of any
\* size: current_pos_ and pos are uint32_t and wrap at 4 GiB.
OffsetAssertionHolds == status # "offset_assert"

\* What the table promises its callers.
Bound(b) == segment_index[b] # NoOffset

StoredStatements ==
    [b \in Bindings |-> IF Bound(b) THEN log[segment_index[b] + 1].stmt ELSE "missing"]

CertainBindings == {b \in Bindings : Bound(b) /\ segment_index[b] < flushed}

PublicAnswer ==
    [op |-> reply.op, asked |-> reply.asked, ok |-> reply.ok,
     data |-> IF reply.op = "get" THEN reply.data ELSE <<>>]

Store == INSTANCE FirstWriteStore WITH
    Missing <- "missing",
    store   <- StoredStatements,
    certain <- CertainBindings,
    answer  <- PublicAnswer

\* The table implements a store in which the first put of a binding wins, a
\* Get answers with that statement or fails, and fails for no binding whose
\* record is in the file.
ImplementsFirstWriteStore == Store!Spec
=============================================================================
