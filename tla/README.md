# IcebergDB in TLA+

IcebergDB (`src/ibdb`, C++) is a small write-once row store behind an RPC server.  A *tablet
node* serves `Create`, `Put` and `Get`; a *tablet* keeps the tables of a node; a *table* appends
each statement to a log file, indexes its key columns in memory, and answers a `Get` from a
message cache or by scanning the log from a sparse index.  Beside these the repository has a
LevelDB-style record log, a concurrent skip list on an arena, and a ZooKeeper client.  This
directory holds TLA+ models of these parts, TLC runs that check them on small instances, and
TLAPS proofs of what they keep safe, which hold for every instance.

Paths below are relative to `src/ibdb/src`.

## 1. Inventory

| Component (source) | State | Operations | What makes it hard | What makes it correct |
|---|---|---|---|---|
| table (`storage/table.h`) | `current_offset_`, `offset_pos_map_`, the segment, the cache, two file handles | `Put`, `PutDisk`, `Get`, `FindMessage`, `GetBatchData`, `Sync`, constructor | two handles on one file of which one is buffered; four structures that must agree; failed syncs; 32-bit positions; re-creation on old files | offsets are dense, positions and indexes exact, an answer is the first statement put |
| log file of a table (`storage/disk.h`, `log/format.h` 36-185) | stdio stream and its buffer, `current_pos_` | `Append`, `Flush`, `Sync`; `pread` of a message | data acknowledged but still in the buffer; a stream that becomes null after a failure | what is in the file stays; position = file length |
| segment (`storage/segment.h`) | key → timestamp → value → offset, three nested skip lists | `BuildKeyIndex`, `Put`, `Get` | first write wins | index = replay of the log |
| message cache (`base/cache.h`) | offset → message | `Insert`, lookup | never evicts | same message as the log |
| tablet (`tablet/tablet.h`) and tablet node (`cluster/tablet_node.h`) | `table_map_`, `table_manifest_map_`, the tablet manifest, `mu_` | `Create`, `Put`, `Get`, in one brpc thread per request | `Create` takes no lock | no put or increment is lost, every table has its manifest, every request is answered |
| skip list (`base/skiplist.h`) | nodes with towers of atomic pointers, `max_height_` | `Insert`, `Remove`, `Contains`, `FindEqual` | lock-free searches during an insertion | levels sorted and complete, searches linearizable and finite |
| arena (`base/arena.h`, `.cpp`) | blocks, `alloc_ptr_`, `alloc_bytes_remaining_` | `Allocate`, `AllocateAligned`, fall-back | boundary arithmetic, alignment slop | regions disjoint, inside blocks, little given up |
| record log (`log/log_writer.h`, `log_reader.*`) | `block_offset_`; the reader's buffer, scratch, end offset | `AddRecord`, `EmitPhysicalRecord`; `ReadRecord`, `ReadPhysicalRecord`, `SkipToInitialBlock` | torn fragments, appending behind them, a reader beside the writer, seeks | records whole and in order, none lost, no false alarm |
| ZooKeeper client (`client/zk.h`) | `zh_`, `connected_`, `acl_map_`, `mu_` | `Init`, `ConnectZK`, `CloseZK`, `CreateNode`, `CreateParent`, `DeleteNode`, `DeleteAllOfNodes`, `GetChildren`, `GetData`, `SetData`, `CheckNodeExisted`, `IsExistedPath` | other clients between the parts of a call, lost answers, expired sessions | one creator per node, parents tolerated, no deadlock |
| RPC client (`client/rpc.h`) | the channel, `timeout_ms`, `max_retry` | `SendRequest` | a request sent again while it runs, an answer that comes too late, a handler that never answers | it returns, and OK means done |
| checksums (`base/crc32c.*`, `base/coding.h`) | none | `Extend`, `Value`, `Mask`, `Unmask` | four tables, loops of different width, one string cut in different ways | CRC-32C, whatever the address |
| descriptor limiter (`log/format.h` 194-345) | `acquires_allowed_` | `Acquire`, `Release` | one limiter for each handle | (see 7) |
| encodings, strings, status (`base/`) | none | pure functions | byte arithmetic | (see 7) |
| `client/tablet_client.h`, `cluster_client.h`, `cluster/tablet_cluster.h`, `client/ibdb.cpp` | - | - | declarations without bodies, and a main program for a server API `TabletNode` does not have | - |

How they interact:

    SendRequest -> brpc stub ~~network~~> brpc thread -> TabletNode handler
    TabletNode handler -> Tablet (mu_, maps) -> Table
                                                                |-- WritableFileHandle -> stdio -> file
                                                                |-- RandomAccessFileHandle <- pread <- file
                                                                |-- Segment -> SkipList
                                                                `-- LRUCacheMap
    SkipList -> Arena     IbdbWriter -> file -> Reader, both -> crc32c     ZkClient -> ZooKeeper

The record log is used only by its tests and the skip list by the segment and its tests; the
table does not use the record log (its own format is offset, size, message).  ZkClient is used by
tests and by the cluster programs.

## 2. Modules

| Module | Models | State ↔ code |
|---|---|---|
| `Table` | `storage/table.h` with `disk.h`, `segment.h`, `cache.h` and the stdio stream of `log/format.h`, over one life of the process | `log` is the file with what stdio still holds, `flushed` how much of it has left stdio; the other variables have the members' names; `reply` is the last call and its answer |
| `TableRestart` | `Table` through crashes and re-creation on the old files | `inherited` = records the file had when this process opened it |
| `FirstWriteStore` | what a table promises: a map in which the first put of a binding wins, and a set of bindings a `Get` may not miss | abstract; `Table` implements it |
| `Tablet` | `tablet.h` under the concurrent handlers of `tablet_node.h` | `pc` is the line a handler is at, `mu` the holder of `mu_`, `table_map` names a Table object by the handler that constructed it |
| `RpcClient` | clients in `SendRequest` over `Tablet`: each attempt of a call is a handler | `sends` and `response` are the attempts of a call and what it came back with, `delivered` the attempts that reached the server |
| `AtLeastOnce` | what `SendRequest` promises: it returns, OK means done, and nothing is done more often than it was sent | abstract; `RpcClient` implements it |
| `SkipList` | `skiplist.h`, pointer by pointer | `next[node][level]` is `Node::next_`, `writer` and `reader` are the local variables of the running calls |
| `RecordLog` | writer and reader of the record log | `file` = fragments with type, record, position, length and how many bytes are there; `reader` = members of `Reader` |
| `Checksum` | `crc32c.cpp`, `crc32c.h` and the two ways the record log computes its checksum | no state; a word is the set of its one bits |
| `Arena` | `arena.h`, `arena.cpp` | members, and `regions`: what has been handed out |
| `ZkClient` | `zk.h` over a ZooKeeper tree with sessions | members per client object; `nodes`, `owner`, `live` are ZooKeeper; `freed` are the handles given to `zookeeper_close`, `misused` the threads that used one; `overtaken`, `claims`, `standing`, `bereft` are history |
| `MC*` | instances for TLC | - |
| `TableProofs` | proofs about `Table`: types, the inductive invariant; that it implements `FirstWriteStore`; batches | - |
| `RestartProofs` | proofs about `TableRestart` | - |
| `RpcProofs` | proofs about `Tablet`, and about it under the clients of `RpcClient` | - |
| `ZkProofs` | proofs about `ZkClient` | - |
| `ArenaProofs` | proofs about `Arena` | - |
| `SkipListProofs` | proofs about `SkipList` | - |
| `ChecksumProofs` | proofs about `Checksum`, for strings of any length | - |
| `RecordLogProofs` | proofs about `RecordLog`: the file, the writer, the reader, the checksums they agree on | - |

### Table

`Put` is one action for the whole call: append, optional flush and sync, sparse index, offset,
memory index.  `Table::Put` is only called under `Tablet::mu_`, so calls on one table do not
interleave.  Its outcomes are `Put` (reaches the index; answered false when the
timestamp does not parse, `table.h:213`, with the record in the log and its offset used), `PutSyncFails` (the
record is appended, `current_offset_` is not advanced, the stream is gone) and `PutNullStream`
(any put after that).  Because stdio writes when it likes, an append may move `flushed` to
anything between its old value and the end of the log.  `Get` is index, cache,
then `FindMessage`: the position of the greatest indexed offset not above the one wanted, then
records one by one until a short read, a failed assertion or the record.  The scan is defined
by what it stops at (`ScanEnd`), not by recursion, so it can be proved about.

The build type is Debug (`CMakeLists.txt:9`), so assertions are active; a failed one ends the process
(`status`).

Abstractions: statements are well formed, as `table.h` assumes; what parsing yields is given by
the constants `TsOf` and `ColumnsOf`.  Bytes are records with positions.  A record partly flushed is as
unreadable as one not flushed, and a record torn by a crash is taken to be absent.  The table's
own `table_manifest_` counter (set at `table.h:169`) is left out: nothing reads it after
construction.  Recovery constructors (`table.h:84-87`, `tablet.h:74-78`) leave members
uninitialised and have no caller.

### Tablet

A handler is a thread; each access to a shared map is a step.  `std::map::insert` is a search and a
link; protobuf's `add_table_manifest` is a read of the size and a store.  When two of these
overlap, the C++ behaviour is undefined: `raced` is set, and from then on the links may lose
entries of other names (a nondeterministic choice over what a torn tree can be left with).  `StoredPutsAreVisible` and `CatalogIsComplete` are stated
for behaviours in which the *containers* were not raced: what two insertions at once lose, a Table or an entry of the manifest, is
excluded from them and not checked, since nothing is promised of it.  The interleavings of the
`Create` check with other requests, which are races of the *protocol*, are in scope.  The handlers
call the overloads of `Tablet` that take the request and response only; the twins with a
controller (`tablet.h:93-123, 159-186`) have the same bodies.  `Tablet::Put` ignores the result of
`Table::Put` (`tablet.h:203`).  `Delete` and `Update` of `TabletNode` have an empty body that never
runs the closure (`tablet_node.h:45-52`): a handler of theirs ends without an answer (`Ignore`).

`Tablet` is checked on its own only where that is worse for it (`create_twice`); for everything else
it is checked under its clients.

### RpcClient

A handler is an attempt `<<client, number>>`.  `SendRequest` blocks in the stub; brpc and the network are
external, and are modelled by what the call's parameters make of them.  `Transmit` sends the request,
or sends it again when a connection breaks, which may or may not have delivered it.  `Receive` takes
the answer of the attempt that was sent last (brpc drops the answers of earlier ones), `Fail` is `cntl.Failed()`: the timeout, or the last connection broken.
An attempt that reached the server runs to its end, whatever becomes of the call: attempts of one call overlap, and a
`Create` sent twice may be answered FAILED because of its own first attempt.  The code of a lost call
is FAILED too, so FAILED promises nothing, which is what `AtLeastOnce` says of it.  Reading the answer of a
`Put` OK after `FAILED` of the first attempt, or the reverse, is therefore in scope; `AnswersHold` states what remains true.

### SkipList

One writer, any number of searches.  Each pointer load or store of `Insert` and of the search is a step.
Node memory from the arena is `Garbage` until written, and a search that stepped on it would break
`TypeOK`.  Left to the callers, and guards here: no key is inserted twice (Segment asks `Contains`), and
no search overlaps `Remove`, whose unlinking takes the pointers of its node away (nothing calls `Segment::Remove`).  What a level holds (`OnLevel`) and where
`FindGreaterOrEqual` comes on it (`Passed`, `StopsAt`) are least sets closed under the pointers, not recursions along
them, so that they can be proved about.  `Iterator` and `FindLast` (`skiplist.h:306-322`, whose loop is missing) are instantiated by nothing.

### RecordLog

A fragment is handed to stdio by `EmitPhysicalRecord` and reaches the file by `WriteOut` in pieces;
`Crash` may come between any two, and a new writer then starts with the file's length.  A fragment has the place `from` that its payload has in its record
(a history of the writer's `ptr`), which is what tells a record that is whole from one with a part missing or twice.  The reader runs at any time,
also beside the writer, from any of `Offsets`, with the checksum on.  Anything that is not a fragment as it was
written fails its checksum; what such bytes parse as (too long, zeros, bad checksum) is left open.
That a fragment is stored with a checksum the reader accepts, and that a change in one byte is noticed, is not assumed:
`ChecksumsFit` computes both with the code's algorithm, for the fragments the model writes.  It also says that the reader accepts no
other checksum, the unmasked one for instance, unless that is its own mask: `Mask` leaves two words as they are, 0x8299f00b
and 0xd7ee9ab5.
`WriteHandle`'s destructor, which deletes `wf_` a second time, is not modelled.

### Checksum

`Extend` is translated with its tables, its alignment prefix, its 4-byte steps (the loops over 16 bytes are four of
them, so the two loops are one) and its tail, on words of 32 bits.  Every loop is a fold (`Loop`) of a
step that is a function of the register and what is read, so that one lemma says what loops compute.  The tables are generated
from the polynomial and not transcribed.  That they equal the 4 × 256 literals of `crc32c.cpp:8-271` was compared once, outside
TLC; a wrong literal there would not show in a run.  The reference is
the definition: division of polynomials over GF(2).  `StandardResults`, an assumption TLC evaluates, says that the *reference*
gives the results of RFC 3720 which `crc32c_test.cpp:13-29` expects of the code; `ChecksumsFit` compares
the code with the reference.

### Arena

An address is a block and an offset; `new[]` aligns blocks, so alignment is that of the offset.

### ZkClient

A method that holds `mu_` for one request is one action: what it reads of the object is written
under `mu_` only.  `CreateParent` sends several requests under one lock, `CreateNode` and
`DeleteAllOfNodes` are several locked parts, and `CreateNode`, `DeleteAllOfNodes` and `IsExistedPath` read the
connection without the lock: these are separate actions.  ZooKeeper (external) is a tree with ephemeral nodes and
sessions; an answer may be lost before or after the request is carried out, and a session may expire.
`zookeeper_close` frees the handle whatever it returns (`ZookeeperClose`); `CloseZK` leaves `zh_` set, and after an error
`connected_` too, so later calls use a freed handle.  What such a call does is undefined: it is taken to fail, and
the thread is put into `misused`.  `FreedHandlesStayUnused` says in which two windows this happens to a call that looks at the
connection: `CreateNode` overtaken by a `CloseZK` (`zk.h:116`), and a close that failed (`zk.h:267-272`).  Both are defects, listed among
the hazards; no document, comment, assertion or test of the repository states the opposite, so they are no findings of a run.
`IsExistedPath` looks at nothing and is excepted.  `CreateNode`'s unlocked look at `acl_map_` is one step with that at the connection: an
`Init` beside it is before or after, and a lookup in a map that is being filled is not modelled.  Node data, watches (the watcher does nothing), sequence nodes and the destructor (which closes `zh_` a second
time after `CloseZK`) are left out.

## 3. Runs

| Run | Question | Result |
|---|---|---|
| `table` | Do log, positions, sparse index, memory index, cache and answers agree, and does the table implement `FirstWriteStore`? | holds |
| `read_your_writes` | Does a `Get` find what an earlier `Put` stored, as `table_test.cpp:139-142` expects? | violated: the record is still in stdio |
| `position_wrap` | Does the assertion of `table.h:344` hold for a log of any size? | violated: a record behind the wrap of the `uint32_t` position is indexed at a wrapped position, and the next `Get` of it comes to another record |
| `restart` | What survives a crash and a re-creation: flushed records, numbering, the index? | holds |
| `restart_answer` | Is an answer of a re-created table one that was put for the question? | violated: offsets restart at 0 on the old file |
| `rpc` | Do concurrent `Create`, `Put`, `Get` of clients that send again and give up lose a put, an increment or a manifest; is every request that arrives answered; does an OK stay true; does `SendRequest` keep the promise of `AtLeastOnce`? | holds without container races |
| `create_twice` | Is a table never created twice (`table.h:38`)? | violated: the check takes no lock |
| `skiplist` | Are levels sorted and complete and searches linearizable and finite? | holds |
| `record_log` | Are records read whole, in order and all, through crashes and beside the writer, and are their checksums CRC-32C, however the bytes are aligned? | holds |
| `record_log_seek` | Is the rest of a record skipped silently after a seek (`log_reader.h:70-72`)? | violated: a drop is reported |
| `arena` | Are regions disjoint and inside blocks, and is little memory lost? | holds |
| `zk_client` | One creator per node, parents no obstacle, complete deletion, which calls can use a freed handle, no deadlock? | holds |

Each property's comment in its module says what it states and of which lines.  The five violated
ones are the findings of `PROJECT.json`.  `restart_answer` has the same cause as an assertion
failure the re-created table can also run into.

`CHECK_DEADLOCK FALSE` is set where a bound or the end of all requests stops the model; `skiplist` never
stops, and is checked for deadlock.

## 4. Bounds, and why they are enough

- `table`: 4 puts of 3 statements (two share a binding, one has a malformed timestamp), sparse
  threshold 2, sync threshold 3: there are records between index entries, a second index entry, a sync in
  the middle, repeated and failed puts, and a record after a failed sync.  `MaxPuts` bounds puts.  `PosLimit` = 64
  is above every file of three records and some of four: the properties are checked on logs that fit and on logs
  whose counter has wrapped; `position_wrap` uses 30 so
  that the third record, at a threshold offset, begins behind the wrap, and takes puts and gets only (`PutGetSpec`), so that what fails is a `Get` by
  the sparse index.  `FindMessage`'s own `uint32_t pos` (`table.h:363`) wraps as well: with batch reads an
  offset behind the end of a file as long as the wrap fails the same assertion.  `restart` takes 3 puts and `MaxRestarts` = 1 crash: the second
  process already has an inherited file, and a third would differ in nothing a property speaks of.
- `rpc`: two clients, one with a retry and one without, each with one of the four kinds of request for one of
  2 names: two attempts of one call beside another client's, of one table or of two whose map entries
  share a container.  `create_twice` has 2 handlers of one name, without clients.
- `skiplist`: 3 keys with towers to height 3, one search at a time against any sequence of insertions and removals.
  Searches do not write, so two of them do not influence each other.
- `record_log`: blocks of 30 bytes with the real 7-byte header; lengths 0, 16 and 45 give full records, records of two and
  three fragments, empty first fragments, blocks with exactly a header and less than one left, and payloads that
  `Extend` takes through each of its loops; offsets 0, 8, 26 are the
  start, inside a fragment and inside a trailer (more than `BlockSize - 6`).  stdio writes `Pieces` = 5 bytes at a time or all, so a header
  and a payload are torn.  3 records, 1 crash.  `ChecksumsFit` takes each fragment when it has just been written,
  at the four alignments of the caller's buffer and the reader's own.
- `arena`: blocks of 16, alignment 4, sizes 1, 3, 4, 9, 17 (below, at and above a quarter, above a
  block), 5 allocations.
- `zk_client`: 3 threads, 2 client objects, 4 paths three levels deep, 14 calls, `MaxFaults` = 1 lost answer or
  expired session.  Threads are interchangeable, so calls are given out in the order of a list
  (`InOrder`).  Clients start constructed only or initialised.

## 5. Fairness

- `RpcClient`: time passes (`WF` of `Fail` by some client), and handlers run while one can go on (`WF` of a step of
  some handler).  Neither kind of step can go on for ever, so no more is needed, and no fairness among
  handlers is assumed: a handler takes the mutex once.  Nothing makes a call be sent, a request be
  delivered or an answer arrive.
- `SkipList`: a search is a loop of its thread.  The writer has no fairness; searches end without it.
- `RecordLog`: the caller of `ReadRecord` goes on until it returns false.  The writer may stop.
- `ZkClient`: threads are scheduled; `mu_` is released after finitely many requests, each of which
  ZooKeeper's library ends with an answer or an error.
- `Table`, `TableRestart`, `Arena`: safety only, no fairness.

## 6. Proofs

What TLC finds on small instances these theorems state for every value of the constants.  Each
rests on an inductive invariant, because none of the properties is inductive alone.

**Table** (`TableProofs`).  `TypeCorrect` is type correctness.  The rest rests on `TableInv`, which is inductive:

    TypeOK, OffsetsAreDense, PositionsAgree, SparseIndexFindsRecords,
    IndexIsReplayOfLog, CacheIsCoherent, NoAssertionFails, GetReturnsFirstPut

That a `Get` returns the first put needs that the scan ends at the record with the
indexed offset, which needs the sparse index to point at a record start and the records to
follow without a gap (`ReaderStaysOnTrack`); that the sparse index points there needs the
writer's position counter to be the length of the file; and a cached answer needs the cache to be coherent.  The argument goes:

1. `ScanEndExists`, `MessageHasOffset`: a message found for offset *o* is record *o + 1*, whatever the log's size;
2. `SparsePosition`, `ReaderStaysOnTrack`: below the 32-bit wrap the scan meets a record header each time,
   so the assertion of `table.h:344` cannot fail;
3. `PutInv`, `PutSyncFailsInv`, `GetInv`, `BatchInv`: one lemma for each action that changes more than `reply`;
4. `NextInv`, `SpecInv`, and a theorem for each conjunct.

Statements about positions are conditional on `Fits` (the file is below the wrap), as the run
`position_wrap` shows they must be.

**Refinement of the table** (`TableProofs`, second part).  `ImplementsStore` proves that every behaviour of `Table` is
one of `FirstWriteStore` under the mapping of `Table`, and `BatchesAreSlices` that a batch is a slice of the log that
ends early only where the file does.  Both need that a message which has left stdio is
*found*.  Behind the wrap the positions are wrong, so the invariant is extended by `PositionsBehind`: a
position the writer has counted, wrapped or not, is not beyond the true one.  Hence every read on the way to
a flushed record is of bytes that are there (`FlushedIsReadable`), and the scan ends at the record or at the assertion and
never short (`FlushedIsFound`).  `PutStore`, `PutSyncFailsStore`, `SyncStore`, `GetStore`, `BatchStore` map the actions
to steps of the abstract map or to stutters.

**Restarts** (`RestartProofs`).  `RestartInv` ties the numbering of a process to the end of the log it inherited:
while the stream is open, records behind `inherited` are counted by `current_offset`.  From it follow
`DensePerLife`, `IndexIsOfThisLife`, and, with `OnlyPutsWrite`, `RecordsSurvive`, for any number of crashes.

**Tablet** (`RpcProofs`, first part).  `TabletInv` has a part for each thing the handlers share:
`Control` (who holds `mu_`, and where it is), `Races` (a container somebody is linking into
without the lock), `Tables` (what a handler found is what the map has), `Counts` (the manifest's offset and
the one a handler is about to write) and `Lists` (the repeated field and its size).  One lemma per part says that a
handler keeps it; `PutsStayVisible`, `ManifestsCount`, `CatalogComplete` follow, for any number of handlers and names.

**RPC clients** (`RpcProofs`, second part).  `TabletUnderClients` is the composition: every behaviour with clients is
one of `Tablet`, so `TabletInv` holds under them.  `AnswersStayTrue` adds what a client has heard (`Heard`), and
`KeepsPromise` maps each step to one of `AtLeastOnce` or a stutter.

**ZooKeeper client** (`ZkProofs`).  `ZkInv` is types, `Control`, `Handles`, `ClaimsAreExclusive`, `Parents` and `Lists`.
`Handles` says that handles of different clients are of different sessions, so closing one frees no other's; that a connected client's
handle is freed only when its close has failed; and that a thread in `CreateNode` which has looked at the connection (`Looked`) has a freed handle only
when one of the two has happened (`StaleFor`).  The thread that holds `mu_` in `CreateParent` keeps a `CloseZK` out (`Held`), so only
`lock` and `create` can be overtaken.  `FreedHandlesUnused` follows.  `Parents` says that the prefixes a thread has passed are there unless one has been removed
(`Climbs`), and that an owned node is one somebody asked to be ephemeral (`Owners`); a failing request is then
excused (`FailureIsExcused`).  `Tries` keeps what is still standing within what is still to be tried.

**Arena** (`ArenaProofs`).  `ArenaInv` is types, regions inside blocks, disjoint, and `CurrentBlock` (pointer
plus remaining bytes is the end of the current block, and nothing is handed out behind the pointer), without which
disjointness is not inductive.  `LittleLost` adds `WellUsed`: the last region of the current block ends at the pointer, and
in every other block some region ends less than a quarter of a block and the slop from its end.

**Skip list** (`SkipListProofs`).  The invariant says what a level *is* rather than what is reached on it: `Linked(l)` is the
members that are high enough and, of the node of the operation under way, what it has come to, and `Chain` says that
the pointers of the level take these keys in ascending order from `head_` to the end.  `ListInv` is

    TypeOK, Chain for every level, members no higher than max_height_,
    WriterInv, SearchInv for every search, SearchIsLinearizable

`WriterInv`: a node being inserted is new, `prev` is the last node before it on each level still to come (`LastBefore`), and a node
about to be linked has its pointer.  `SearchInv`: a search is at a node of its level before its key, and `membership` has what is true now.
The parts need one another: a level stays a chain because `prev` is right, and `prev` is right because what is on a level is on the ones
below.  The argument goes:

1. `ChainIsLevel`: on a chain the least closed set is the chain, so `OnLevel(l) = Linked(l)`;
2. `StopsAtLastBefore`, `FindPrevIsLastBefore`: the search of `Insert` and `Remove` leaves the last node before the key on each
   level.  Induction has no theorem the provers could instantiate here; what stands for it is `LeastOf`, that a set of numbers has a least
   element: the highest level on which `prev` were wrong would follow from the one above, which is right;
3. `ChainInsert`, `ChainRemove`: linking or unlinking one node behind the last one before it leaves a chain;
4. one lemma for each action (`InsertStep`, `PrepareStep`, `LinkStep`, `RemoveStep`, `UnlinkStep`, `SearchBegins`,
   `SearchGoesOn`), then `ListInvariant`, and `TypeCorrect`, `Sorted`, `HoldsMembers`, `Linearizable`.

**Record log** (`RecordLogProofs`).  `LogInv` is `FileInv /\ ReaderInv`.  `FileInv` is about the file and its writer:

- `FileType`;
- `Tiled`: fragments are within blocks, each begins where what is there of the one before ends, but for a trailer (`Pad`);
- `Joined`: a fragment begins a record newer than all before, or goes on with the one before it, whole and without a gap; one
  that ends a record ends it at its length;
- `Placed`: where the file ends, with `block_offset_`, between two fragments (`Between`) and within one (`Within`);
- `Underway`: how far the record being written has come; `Complete`: a complete record is there to its end;
- `Uninterrupted`: as long as no process has died nothing is torn or unfinished but what is being written.

`ReaderInv`: there is no reader, or it is `Reading`, or `Finished`.  `Reading` is

- `Output`, `Scratch`: what has been returned, and what is in scratch, are consecutive whole fragments of one record from its
  beginning on (`Piece`), and what follows scratch in the file has not been passed;
- `Buffer`: the buffer is the rest of a block, or of its part there was; the reader stands at the beginning of the
  block or behind a fragment and has met no torn one in it.  Without this a header could be taken out of the middle of a payload;
- `Progress`: no fragment of a record to be returned (`Wanted`) is passed over;
- `Faultless`: a reader of the whole log without crashes has reported nothing and is at most in the middle of a record.

Both sides meet in `Grows`: whatever the writer does, a crash included, what is whole or has something behind it stays, and what comes is
behind all there is and belongs to no complete record.  `EmitGrows`, `WriteOutGrows` and `CrashGrows` prove it of the writer's
steps, and `ReadingGrows` and `FinishedGrows` that it keeps `ReaderInv`, so the reader's steps (`RefillReads`, `ReadFragmentReads`,
`DropBufferReads`, `EndOfFileReads`, `OpenReads`) are proved on a file that stands still.  From `LogInvariant` follow `TypeCorrect`,
`WholeRecords`, `ReadsAll` and `NoAlarm`, for blocks, headers and records of any size, any number of crashes and any initial offset.
`Checksums` joins this with the theorems about `Checksum`: by `FileType` every fragment has a type and a length, so type and payload are a
string of bytes (`BytesOfFragment`) that these are about (`FitFromInv`).

**Checksum** (`ChecksumProofs`).  The theorems are about every string of bytes, so each rests on what a loop computes for every sequence:

1. `Induction` stands for an induction theorem: a set that has 0, and with each number the next, has all of them
   (otherwise one of those missing is the least).  `LoopRuns` derives from it that a fold takes its elements one after the other, `LoopIs`
   that a sequence that follows the steps is its result, `LoopInTwo` that a loop may be cut in two;
2. `ZeroByteLinear`: the register is linear, what a zero byte makes of the sum of two words is the sum of what it makes of each.  With it a
   step over one byte is a zero byte behind the sum of the register and that byte (`STEP1Is`), and a step over four by the four tables is
   four steps over one (`STEP4Is`).  So the loops agree however the address cuts the string (`StepsIs`, `ExtendIs`);
3. `RemainderIs`: after *i* bytes of the long division, what is left of the dividend is the register of the code, mirrored, in the
   places next to be divided, plus what has not been read.  One bit of the division is `ZeroBit` there.  This gives `ValueIsCrc32c`;
4. `SingleDiffers`: a zero bit is an injection, because the polynomial has the register's highest place and a word shifted has not.
   So two registers that differ go on to differ over the same bytes, which gives `OneByteIsNoticed`;
5. `Plus` is a function of carries.  Adding the complement and one takes an addition back, place by place (of the carries of the three
   additions, each tells the others: `OneCarry`), and the rotations of `Mask` and `Unmask` undo each other, which gives `MaskInverse`, and with
   `ValueIsCrc32c` `JustTheChecksumIsAccepted`.

Assumptions: the named ones of the modules and no more.  `MissingAssumption` (the answer `"missing"` is no statement) keeps
`FirstWriteStore` from mistaking a statement for a miss; `ClientAssumption` (finitely many clients) lets `Init` number the
sessions; `AttemptAssumption` says what a handler of `RpcClient` is.  `RecordLog` takes for granted, in its actions, that a *torn* fragment
is not accepted; a checksum makes that likely and can guarantee it for no more than the changes `OneByteIsNoticed` is about and the like.

Checked by TLC only:

- `StandardResults`, that the definition of CRC-32C gives the results of RFC 3720: an assumption without parameters, which TLC computes;
- `EveryRequestIsAnswered`, `SearchEnds`, `ReaderComesToTheEnd`, `EveryCallReturns`, and that `SendRequest` comes back
  (`ImplementsAtLeastOnce` with its fairness): liveness under fairness is beyond the prover.

## 7. Not modelled, and why

- Descriptor limiter and `PosixRandomAccessFile`: every handle makes a limiter of its own with a limit of 100
  (`disk.h:291, 306`), so `Acquire` always succeeds and no two threads share a counter; the reads of a table go to the
  descriptor directly (`disk.h:215-268`).
- Encodings, slices, status, random, string helpers, directories: pure functions on bytes and file-system calls;
  the models take what they do (a record has an offset and a size; a directory is there).
- That aligned allocations are aligned: arithmetic that holds by the shape of `AllocateAligned`.
- Protocol messages, flags, port macros: declarations; thresholds are constants of the models.
- Tablet client, cluster, main program: no bodies, or calls to methods that do not exist.
- `Tablet::GetStatements` (`tablet.h:245`), which reads `table_map_` and a table without the lock: it has no caller.
- A short `fwrite` in the middle of a record, which `Append` answers OK (`format.h:149` tests `r < 0` on a `size_t`):
  stdio returns a short count only after a failed write of its buffer, and what such a stream holds is not specified.
- The reader without checksum: the constructions of `Reader` the repository has, all commented out, ask for it (`disk.h:174, 194`).
- `RandomAccessFileHandle`'s pointer to a local `Limiter` (`disk.h:291-292`): a lifetime error that no order of steps changes.

## 8. Plan

Done, in this order: `Table` with its abstract specification and proofs, `TableRestart`, `Tablet`, `SkipList`, `Arena` with
proofs, `RecordLog`, `ZkClient`; `RpcClient` composed with `Tablet` and its abstract specification `AtLeastOnce`, `Checksum`;
proofs of the table's refinement, of restarts, of the tablet under clients, of `ZkClient`, of `LittleIsLost`, of `SkipList`, of
`RecordLog` and of `Checksum`.  Every safety property the runs find to hold is a theorem.

What is left, and what stands in its way:

1. a refinement for the record log, to a queue of records that a crash may shorten at its end: `WholeRecords` and `ReadsAll` say most of it;
2. short writes inside `Append` of `Table`: what the stream holds after one has to be settled first (see 7);
3. the limiter with `PosixRandomAccessFile`, once a handle shares one with another;
4. the recovery constructors and `GetStatements`, once something calls them.

## 9. Running

    tlasany Table.tla
    tlc -workers 2 -config MCTable.cfg MCTable
    tlapm TableProofs.tla

`RecordLogProofs` is the longest; it takes `tlapm` some seven minutes, the others at most two or three.
