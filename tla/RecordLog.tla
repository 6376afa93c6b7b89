----------------------------- MODULE RecordLog ------------------------------
(***************************************************************************)
(* The record log of log/log_writer.h (IbdbWriter) and log/log_reader.cpp  *)
(* (Reader): records cut into fragments that do not cross blocks, written  *)
(* by a process that may die at any byte, appended to by the next one, and *)
(* read by a reader at any time.                                           *)
(*                                                                         *)
(* The file is the sequence of its fragments, each with the byte position  *)
(* of its header; what lies between them is the trailer of a block.  The   *)
(* checksum of anything but a fragment as it was written does not match,   *)
(* as ChecksumsFit says for a change in one byte.                          *)
(***************************************************************************)
EXTENDS Integers, SequencesExt, Checksum

CONSTANTS
    BlockSize,    \* kBlockSize
    HeaderSize,   \* kHeaderSize: checksum, length and type
    Lengths,      \* lengths of records
    Offsets,      \* values of initial_offset of a reader
    Pieces,       \* bound: bytes stdio writes at a time, if not all there are
    MaxRecords,   \* bound: records in a behaviour
    MaxCrashes    \* bound: crashes in a behaviour

ASSUME RecordLogAssumption ==
    /\ HeaderSize \in Nat \ {0}
    /\ BlockSize \in Nat /\ BlockSize > HeaderSize
    /\ Lengths \subseteq Nat
    /\ Offsets \subseteq Nat
    /\ Pieces \subseteq Nat \ {0}
    /\ MaxRecords \in Nat /\ MaxCrashes \in Nat

VARIABLES
    file,          \* the fragments: type, record, offset in the record, position,
                   \* length, bytes there
    size,          \* bytes of the file
    block_offset,  \* IbdbWriter::block_offset_
    record,        \* AddRecord: record number (0 if none), bytes left, begin,
                   \* and whether a fragment of it is being written
    lengths,       \* the length of each record so far
    complete,      \* the records AddRecord has returned OK for
    crashes,       \* crashes so far
    reader         \* the Reader

vars == <<file, size, block_offset, record, lengths, complete, crashes, reader>>

NoRecord == [number |-> 0, left |-> 0, begin |-> TRUE, writing |-> FALSE]

\* The members of Reader: the file offsets of the rest of buffer_ and of
\* end_of_buffer_offset_; then scratch with in_fragmented_record, the records
\* returned, each as its fragments, whether the reporter was told of a drop,
\* and the records complete when the reader was opened.
NoReader ==
    [state |-> "none", initial |-> 0, pos |-> 0, end |-> 0, eof |-> FALSE,
     resyncing |-> FALSE, scratch |-> <<>>, fragmented |-> FALSE, out |-> <<>>,
     reported |-> FALSE, due |-> {}]

Init ==
    /\ file = <<>>
    /\ size = 0
    /\ block_offset = 0
    /\ record = NoRecord
    /\ lengths = <<>>
    /\ complete = {}
    /\ crashes = 0
    /\ reader = NoReader

-----------------------------------------------------------------------------
(* IbdbWriter. *)

FragmentSize(f) == HeaderSize + f.length

\* AddRecord begins.
AddRecord(length) ==
    /\ record = NoRecord
    /\ Len(lengths) < MaxRecords
    /\ lengths' = Append(lengths, length)
    /\ record' = [NoRecord EXCEPT !.number = Len(lengths) + 1, !.left = length]
    /\ UNCHANGED <<file, size, block_offset, complete, crashes, reader>>

\* Mutant: a block with less than a header left is not filled up.
TrailerNever == 0

\* The bytes of zeros that fill a block with less than a header left.
Trailer ==
    IF BlockSize - block_offset < HeaderSize THEN BlockSize - block_offset ELSE 0

FragmentType(begin, end) ==
    IF begin /\ end THEN "full"
    ELSE IF begin   THEN "first"
    ELSE IF end     THEN "last"
    ELSE                 "middle"

\* One turn of AddRecord's loop, with EmitPhysicalRecord as far as Append:
\* the trailer, the header and the payload are with stdio.
EmitPhysicalRecord ==
    LET start  == IF BlockSize - block_offset < HeaderSize THEN 0 ELSE block_offset
        avail  == BlockSize - start - HeaderSize
        length == IF record.left < avail THEN record.left ELSE avail
    IN  /\ record.number # 0
        /\ ~record.writing
        /\ file' = Append(file,
              [type |-> FragmentType(record.begin, record.left = length),
               record |-> record.number, from |-> lengths[record.number] - record.left,
               at |-> size + Trailer, length |-> length, have |-> 0])
        /\ block_offset' = start + HeaderSize + length
        /\ record' = [record EXCEPT !.left = @ - length, !.begin = FALSE,
                                    !.writing = TRUE]
        /\ UNCHANGED <<size, lengths, complete, crashes, reader>>

\* The bytes stdio has of the fragment being written.
Unwritten == IF record.writing THEN FragmentSize(Last(file)) - Last(file).have ELSE 0

\* stdio writes some of the fragment or all of it; then Flush returns, and
\* AddRecord too after the last fragment.
WriteOut(bytes) ==
    LET f    == Last(file)
        ends == bytes = Unwritten
    IN  /\ record.writing
        /\ bytes <= Unwritten
        /\ file' = [file EXCEPT ![Len(file)].have = @ + bytes]
        /\ size' = f.at + f.have + bytes
        /\ record' = IF ~ends THEN record
                     ELSE IF record.left = 0 THEN NoRecord
                     ELSE [record EXCEPT !.writing = FALSE]
        /\ complete' = IF ends /\ record.left = 0
                       THEN complete \cup {record.number} ELSE complete
        /\ UNCHANGED <<block_offset, lengths, crashes, reader>>

\* Mutant: the writer is told nothing of what the file has.
BlockOffsetOfNew(bytes) == 0

\* IbdbWriter(dest, dest_length)
BlockOffsetOf(bytes) == bytes % BlockSize

\* The process dies and another opens the file for appending; or Flush fails
\* and leaves a null stream, on which the next Append dies.  What stdio had
\* not written is lost, be it in the middle of a trailer.
Crash ==
    /\ crashes < MaxCrashes
    /\ crashes' = crashes + 1
    /\ \/ /\ record.writing /\ Last(file).have = 0
          /\ file' = Front(file)
          /\ size' \in size .. Last(file).at
       \/ /\ ~(record.writing /\ Last(file).have = 0)
          /\ UNCHANGED <<file, size>>
    /\ block_offset' = BlockOffsetOf(size')
    /\ record' = NoRecord
    /\ UNCHANGED <<lengths, complete, reader>>

-----------------------------------------------------------------------------
(* Reader. *)

\* Where the block begins that has position x.
BlockStart(x) == x - (x % BlockSize)

\* SkipToInitialBlock: the block of the offset, or the next one if the offset
\* is in the trailer.
InitialBlock(initial) ==
    BlockStart(initial)
        + (IF initial % BlockSize > BlockSize - (HeaderSize - 1) THEN BlockSize ELSE 0)

\* A Reader is made and its first ReadRecord skips to the initial block.
Open(initial) ==
    /\ reader.state = "none"
    /\ reader' = [NoReader EXCEPT
                     !.state = "reading", !.initial = initial,
                     !.pos = InitialBlock(initial), !.end = InitialBlock(initial),
                     !.resyncing = initial > 0, !.due = complete]
    /\ UNCHANGED <<file, size, block_offset, record, lengths, complete, crashes>>

Buffered == reader.end - reader.pos

\* ReportDrop, asked after buffer_ has moved on.
Report(rd, bytes) ==
    [rd EXCEPT !.reported = @ \/ rd.pos - bytes >= rd.initial]

ScratchSize(rd) == FoldSeq(LAMBDA i, sum : file[i].length + sum, 0, rd.scratch)

\* A fragmented record that another one begins in is reported, unless it is
\* empty.
ReportPartial(rd) ==
    IF rd.fragmented /\ ScratchSize(rd) > 0 THEN Report(rd, ScratchSize(rd)) ELSE rd

Returned(rd, fragments) ==
    [rd EXCEPT !.out = Append(@, fragments), !.scratch = <<>>, !.fragmented = FALSE]

\* ReadRecord on kBadRecord.
BadRecord(rd) ==
    LET sync == [rd EXCEPT !.resyncing = FALSE]
    IN  IF rd.fragmented
        THEN [Report(sync, ScratchSize(rd)) EXCEPT !.fragmented = FALSE, !.scratch = <<>>]
        ELSE sync

\* ReadRecord on the i-th fragment, when it is not resynchronizing.
Fragment(rd, i) ==
    CASE file[i].type = "full"  -> Returned(ReportPartial(rd), <<i>>)
      [] file[i].type = "first" ->
            [ReportPartial(rd) EXCEPT !.scratch = <<i>>, !.fragmented = TRUE]
      [] file[i].type = "middle" /\ rd.fragmented -> [rd EXCEPT !.scratch = Append(@, i)]
      [] file[i].type = "last"   /\ rd.fragmented -> Returned(rd, Append(rd.scratch, i))
      [] OTHER -> Report(rd, file[i].length)

\* ReadRecord on the i-th fragment: after a seek the rest of a record that
\* began before it is skipped.
Resynchronize(rd, i) ==
    CASE rd.resyncing /\ file[i].type = "middle" -> rd
      [] rd.resyncing /\ file[i].type = "last"   -> [rd EXCEPT !.resyncing = FALSE]
      [] OTHER -> Fragment([rd EXCEPT !.resyncing = FALSE], i)

Reads(next) ==
    /\ reader.state = "reading"
    /\ reader' = next
    /\ UNCHANGED <<file, size, block_offset, record, lengths, complete, crashes>>

\* SequentialFile::Read of a block: how many bytes there are.
BlockRead ==
    IF reader.end > size THEN 0
    ELSE IF size - reader.end < BlockSize THEN size - reader.end
    ELSE BlockSize

\* Mutant: a short read does not count as the end of the file.
RefillForever ==
    /\ Buffered < HeaderSize
    /\ ~reader.eof
    /\ Reads([reader EXCEPT !.pos = reader.end, !.end = @ + BlockRead])

\* ReadPhysicalRecord reads the next block.
Refill ==
    /\ Buffered < HeaderSize
    /\ ~reader.eof
    /\ Reads([reader EXCEPT !.pos = reader.end, !.end = @ + BlockRead,
                            !.eof = BlockRead < BlockSize])

\* The fragment whose header is at the beginning of the buffer, if what is
\* there is a header.
Header == {i \in DOMAIN file : file[i].at = reader.pos /\ file[i].have >= HeaderSize}

Fits(i) == FragmentSize(file[i]) <= Buffered

\* Mutant: the checksum is not looked at.
ReadFragmentUnchecked ==
    \E i \in Header :
        /\ Buffered >= HeaderSize
        /\ Fits(i)
        /\ LET rd == [reader EXCEPT !.pos = @ + FragmentSize(file[i])]
           IN  Reads(IF file[i].at < rd.initial THEN BadRecord(rd) ELSE Resynchronize(rd, i))

\* A fragment with the right checksum; one that starts before the initial
\* offset is no record.
ReadFragment ==
    \E i \in Header :
        /\ Buffered >= HeaderSize
        /\ Fits(i)
        /\ file[i].have = FragmentSize(file[i])
        /\ LET rd == [reader EXCEPT !.pos = @ + FragmentSize(file[i])]
           IN  Reads(IF file[i].at < rd.initial THEN BadRecord(rd) ELSE Resynchronize(rd, i))

\* What is in the buffer is given up: a length beyond the block or a wrong
\* checksum, both reported, or zeros, which are not.  What is no header can
\* be taken for any of them.
DropBuffer ==
    LET rest == [reader EXCEPT !.pos = reader.end]
    IN  /\ Buffered >= HeaderSize
        /\ \A i \in Header :
              IF Fits(i) THEN file[i].have < FragmentSize(file[i]) ELSE ~reader.eof
        /\ \/ Reads(BadRecord(Report(rest, Buffered)))
           \/ Header = {} /\ Reads(BadRecord(rest))

\* Mutant: a fragment the file ends in is reported as corruption.
EndOfFileReported ==
    /\ reader.eof
    /\ \/ Buffered < HeaderSize
       \/ \A i \in Header : ~Fits(i)
    /\ Reads([Report(reader, 0) EXCEPT !.state = "eof", !.scratch = <<>>])

\* kEof: the file ends, perhaps in the middle of a fragment.
EndOfFile ==
    /\ reader.eof
    /\ \/ Buffered < HeaderSize
       \/ \A i \in Header : ~Fits(i)
    /\ Reads([reader EXCEPT !.state = "eof", !.scratch = <<>>])

Read == Refill \/ ReadFragment \/ DropBuffer \/ EndOfFile

Next ==
    \/ \E length \in Lengths : AddRecord(length)
    \/ EmitPhysicalRecord
    \/ \E bytes \in Pieces \cup {Unwritten} : WriteOut(bytes)
    \/ Crash
    \/ \E initial \in Offsets : Open(initial)
    \/ Read

Spec == Init /\ [][Next]_vars

\* The caller of ReadRecord goes on until it returns false.
FairSpec == Spec /\ WF_vars(Read)

-----------------------------------------------------------------------------
(* Properties. *)

TypeOK ==
    /\ \A i \in DOMAIN file :
          /\ file[i].type \in {"full", "first", "middle", "last"}
          /\ file[i].record \in DOMAIN lengths
          /\ (file[i].at % BlockSize) + FragmentSize(file[i]) <= BlockSize
          /\ file[i].have \in 0 .. FragmentSize(file[i])
    /\ size \in Nat
    /\ block_offset \in 0 .. BlockSize
    /\ record.number \in 0 .. Len(lengths) /\ record.left \in Nat
    /\ lengths \in Seq(Lengths)
    /\ complete \subseteq DOMAIN lengths
    /\ reader.state \in {"none", "reading", "eof"}
    /\ reader.pos \in 0 .. reader.end

Torn(i) == file[i].have < FragmentSize(file[i])

BlockOf(i) == BlockStart(file[i].at)

RecordOf(fragments) == file[fragments[1]].record

\* What ReadRecord returns is always one record as it was written, all of its
\* bytes in all of its fragments in their order, and records come in the order
\* they were written: no crash, however deep in a fragment, makes one record
\* out of the pieces of two (log_reader.cpp:66-184, 201-283).
ReadsWholeRecords ==
    /\ \A k \in DOMAIN reader.out :
          LET o == reader.out[k]
              n == RecordOf(o)
              next(j) == file[o[j]].from + file[o[j]].length
          IN  /\ o # <<>>
              /\ \A j \in DOMAIN o : file[o[j]].record = n /\ ~Torn(o[j])
              /\ file[o[1]].from = 0
              /\ \A j \in 1 .. Len(o) - 1 : o[j + 1] = o[j] + 1 /\ file[o[j + 1]].from = next(j)
              /\ next(Len(o)) = lengths[n]
              /\ ~\E i \in DOMAIN file \ ToSet(o) : file[i].record = n
    /\ \A k, m \in DOMAIN reader.out :
          k < m => RecordOf(reader.out[k]) < RecordOf(reader.out[m])

\* A torn fragment spoils what follows it in its block.
Spoiled(n) ==
    \E i, t \in DOMAIN file :
        file[i].record = n /\ t < i /\ Torn(t) /\ BlockOf(t) = BlockOf(i)

StartOf(n) ==
    LET i == CHOOSE i \in DOMAIN file :
                 file[i].record = n /\ file[i].type \in {"full", "first"}
    IN  file[i].at

\* Of the records complete when it was opened a reader returns exactly those
\* that start at its initial offset or later and share no block with the
\* torn fragment of an earlier process before them.
ReadsWhatWasWritten ==
    reader.state = "eof" =>
        {n \in reader.due : n \in {RecordOf(reader.out[k]) : k \in DOMAIN reader.out}}
            = {n \in reader.due : StartOf(n) >= reader.initial /\ ~Spoiled(n)}

\* A reader of the whole log reports no corruption unless a process has died:
\* it may run beside the writer, and the fragment the writer is in the middle
\* of is the end of the file for it (log_reader.cpp:219-224, 241-244).
NoFalseAlarm == reader.reported => crashes > 0 \/ reader.initial > 0

\* The bytes of the i-th fragment's payload, no two alike that are near.
Payload(i) == [k \in 1 .. file[i].length |-> Low(Bits(37 * (file[i].at + k) + 11))]

\* The numbers of RecordType (log/format.h).
TypeByte(i) ==
    CASE file[i].type = "full"   -> {0}
      [] file[i].type = "first"  -> {1}
      [] file[i].type = "middle" -> {0, 1}
      [] file[i].type = "last"   -> {2}

\* Each fragment is stored with the CRC-32C of its type and its payload, from
\* whatever address AddRecord's caller has it at, and the reader, which computes
\* it in one piece at another address (log_writer.h:163-166,
\* log_reader.cpp:256-259), accepts just that: not the fragment with a byte
\* changed, and not another checksum.
ChecksumsFit ==
    reader.state = "none" /\ file # <<>> /\ ~record.writing =>
        LET i        == Len(file)
            fragment == <<TypeByte(i)>> \o Payload(i)
            crc      == Crc32c(fragment)
            accepts(masked, bytes) == IsAccepted(masked, bytes, (file[i].at % BlockSize) + 6)
        IN  /\ \A ptr \in 0..3 : StoredChecksum(TypeByte(i), Payload(i), ptr) = Mask(crc)
            /\ accepts(Mask(crc), fragment)
            /\ \A k \in {1, 2, Len(fragment)} \cap DOMAIN fragment :
                   ~accepts(Mask(crc), [fragment EXCEPT ![k] = Xor(@, {0, 3, 7})])
            /\ \A word \in {crc, Xor(Mask(crc), {0}), Xor(Mask(crc), {31})} \ {Mask(crc)} :
                   ~accepts(word, fragment)

\* The reader comes to the end of the file (log_reader.cpp:82-182, 202-282).
ReaderComesToTheEnd == reader.state = "reading" ~> reader.state = "eof"

\* What log_reader.h:70-72 says of a reader that starts behind a record's
\* beginning: the rest of that record is skipped silently.
SeekIsSilent == reader.reported => crashes > 0
=============================================================================
