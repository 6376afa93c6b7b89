---------------------------- MODULE TableRestart ----------------------------
(***************************************************************************)
(* A table through crashes.  When the process dies the stdio buffer is     *)
(* lost.  A new process has an empty table_map_ (tablet.h) and never uses  *)
(* the constructor that takes a manifest, so the table is created again:   *)
(* the constructor for new tables runs on the directory of the old one,    *)
(* whose log it opens for appending.  A record the crash cuts in two is    *)
(* taken to be absent.                                                     *)
(***************************************************************************)
EXTENDS Table

CONSTANT MaxRestarts   \* bound: crashes in a behaviour

ASSUME RestartAssumption == MaxRestarts \in Nat

VARIABLES
    inherited,   \* records the log had when this process opened it
    restarts     \* crashes so far

rvars == <<vars, inherited, restarts>>

RInit == Init /\ inherited = 0 /\ restarts = 0

\* Mutant: the log is opened with "w+", which truncates it.
OpenLogTruncated ==
    /\ log' = <<>>
    /\ flushed' = 0
    /\ inherited' = 0
    /\ stream' = "open"
    /\ current_pos' = 0

\* WritableFileHandle's constructor: fopen "a+" keeps what the file has, and
\* current_pos_ starts at 0 as for an empty one.
OpenLog ==
    /\ log' = SubSeq(log, 1, flushed)
    /\ inherited' = flushed
    /\ stream' = "open"
    /\ current_pos' = 0
    /\ UNCHANGED flushed

\* Mutant: the numbering goes on where the earlier process was.
NewMemoryOldOffset ==
    /\ offset_pos_map' = [o \in {} |-> 0]
    /\ segment_index' = [b \in Bindings |-> NoOffset]
    /\ offset_message' = [o \in {} |-> 0]
    /\ UNCHANGED current_offset

\* Mutant: the segment outlives the table.
NewMemoryOldIndex ==
    /\ current_offset' = 0
    /\ offset_pos_map' = [o \in {} |-> 0]
    /\ offset_message' = [o \in {} |-> 0]
    /\ UNCHANGED segment_index

\* The members of a new Table.
NewMemory ==
    /\ current_offset' = 0
    /\ offset_pos_map' = [o \in {} |-> 0]
    /\ segment_index' = [b \in Bindings |-> NoOffset]
    /\ offset_message' = [o \in {} |-> 0]

\* The process dies, by itself or by an assertion, and the table is created
\* again.
Restart ==
    /\ restarts < MaxRestarts
    /\ restarts' = restarts + 1
    /\ OpenLog
    /\ NewMemory
    /\ status' = "running"
    /\ reply' = Reply("none", <<>>, TRUE, <<>>)

RNext ==
    \/ Next /\ UNCHANGED <<inherited, restarts>>
    \/ Restart

RSpec == RInit /\ [][RNext]_rvars

-----------------------------------------------------------------------------
(* Properties. *)

\* Every record that has left the stdio buffer stays in the file, at its
\* position, through puts, failures, crashes and re-creation of the table
\* (disk.h:102-109 opens it with "a+").
FlushedRecordsSurvive ==
    [][\A i \in 1 .. flushed : i \in DOMAIN log' /\ log'[i] = log[i]]_rvars

\* The i-th offset of this process is that of its i-th record: what earlier
\* processes left does not shift the numbering (table.h:90,136-167).
LifeOf(o) == inherited + o + 1

OffsetsAreDensePerLife ==
    /\ \A i \in inherited + 1 .. Len(log) : log[i].offset = i - 1 - inherited
    /\ Len(log) - inherited \in {current_offset, current_offset + 1}

\* The memory index knows only statements of this process, by the offsets it
\* gave them: a re-created table has forgotten every earlier put.
IndexKnowsOnlyThisLife ==
    \A b \in Bindings :
        segment_index[b] # NoOffset =>
            /\ segment_index[b] < current_offset
            /\ b \in BindingsOf(log[LifeOf(segment_index[b])].stmt)

\* What test/storage/table_test.cpp:139-142 expects of a Get: the message it
\* returns is one that was put for the key, timestamp and value asked for.
\* After a re-creation offsets are looked up among the records of the earlier
\* process.
GetAnswersTheQuestion ==
    reply.op = "get" /\ reply.ok => reply.asked \in BindingsOf(reply.data[1])
=============================================================================
