# Verification of libmw-core

libmw-core is the core library of a Mimblewimble node in C++: files and databases
with batched writes, Merkle mountain ranges, a task scheduler, transactions and
blocks, networking and cryptography. This directory holds TLA+ specifications of
the parts that carry state, the TLC configurations that check them on small
instances, and proofs that TLAPS checks for instances of any size.

To check everything here: `tlc -workers 2 -config X.cfg M` for each run of
`PROJECT.json`, and `tlapm P.tla` for each module `P` whose name ends in `Proofs`.

## Inventory

| Component | State | Operations | Used by |
|---|---|---|---|
| `Locked<T>`, `Reader`, `Writer`, `MultiLocker` (`common/Lock.h`), `IBatchable` (`traits/Batchable.h`) | a `shared_mutex` and an object; per handle a shared_ptr to `InnerReader`/`InnerWriter`; `m_dirty` | Read, Write, BatchWrite, MultiLocker::Lock and LockShared, Commit, Rollback, copies and destructors | everything that is written in batches |
| `AppendOnlyFile`, `MemMap`, `File` (`file/`) | the file, its map, `m_fileSize`, `m_bufferIndex`, `m_buffer` | Append, Rewind, Commit, Rollback, Read, Load | `FileBackend` |
| `BitmapFile` (`file/`) | the file, its map, `m_modifiedBytes` | Set, Unset, IsSet, Commit, Rollback, Load | the leaf set to come |
| `MMR`, `Index`, `LeafIndex`, `VectorBackend`, `FileBackend` (`mmr/`) | leaves, hashes of all nodes; in the file backend three append-only files | Add, Rewind, Root, GetNumNodes, Commit, Rollback, Open | the chain |
| `Scheduler` (`common/Scheduler.h`) | `m_tasks` by time, `m_tasksById`, `m_stop`, a main thread and workers | RunEvery, RunOnce, RemoveTask, the destructor | periodic work |
| `Database`, `DBTransaction`, `OrderedMultimap` (`db/common`) | LevelDB, `m_pTx`: a write batch and the versions added | Put, Get, Commit, Rollback, OnInitWrite, OnEndWrite | `BlockDB` |
| `BlockDB`, `ChainStore` (`db/`) | three tables of one database | add and look up headers and blocks | the chain |
| `Socket`, `Socks5Proxy`, `Server` (`net/`) | an asio socket, a timeout, a read buffer | connect, accept, receive, send with timeouts; the SOCKS5 handshake | RPC servers, peers |
| `TxBody`, `Transaction`, kernels, blocks (`models/`), validators (`consensus/`) | immutable values | sum, cut-through, validate, serialize | the node |
| `Serializer`, `Deserializer` (`serialization/`) | bytes and a cursor | append, read | every stored or sent value |
| `Crypto`, `AggSig`, `Bulletproofs`, `Pedersen` (`crypto/`), `ProofMessage`, proof cache | secp256k1 contexts, an LRU cache | commitments, signatures in parts, range proofs and rewinding them | wallets, validators |
| Logger, ThreadManager, ChildProcess, FilePath, utilities, RPC and JSON | little or none | text, paths, processes | everywhere |

How they interact. A `Writer` calls `OnInitWrite`, `Commit`, `Rollback` and
`OnEndWrite` on the object it guards: `AppendOnlyFile`, `BitmapFile`, `MMR` and
`BlockDB` are all driven that way, and their safety against other threads is that
of `Locked`. `MMR` calls its backend; `FileBackend` commits three
`AppendOnlyFile`s one after the other. `BlockDB` forwards the batch protocol to
`Database`, which opens a transaction for the life of the `Writer`. The scheduler
shares two tables with its threads under one mutex, but for one lookup.
`Socks5Proxy` drives one `Socket` after another, and a `Socket` runs asio's event
loop inside each blocking call. Wallets build a `Transaction` with `Crypto`; its
bytes pass through `Serializer` and `Deserializer` to a node, which calls
`TxBody::Validate` (cut-through, kernel signatures, range proofs) and
`KernelSumValidator`.

What is hard. Handles that share a mutex and outlive each other; several objects
locked at once; destructors that commit; commits made of several system calls and
of several files, cut by crashes; positions counted in bytes, leaves and nodes; a
condition variable without a predicate; a table read without its mutex; a
transaction that ends before its `Writer`; a timeout that races the completion it
waits for; a handshake retried over new connections; sizes and counts taken from a
packet; signatures in parts that depend on the parity of a sum nobody knows alone.
`PROJECT.json` lists these hazards with
the line where each bites.

What makes each part correct:

- locking: writers exclude everybody, readers see a stable committed object,
  nothing uncommitted survives a writer, no mutex is lost, no deadlock;
- files: committed bytes survive, a commit is all or nothing but for crashes, what
  is read is what was written;
- ranges: the root and the nodes are a function of the leaves; committed leaves
  survive crashes;
- scheduler: a task is in one place, a one-time task runs once, every task runs;
- database: a transaction reads its own writes, and is stored as a whole;
- network: bytes come out in order and once, whatever times out; a connection means
  that the proxy granted it; every call with a timeout returns;
- transactions: honest shares verify and aggregate, bytes round-trip and damaged ones
  are refused, what is accepted is sound, and coins are neither made nor lost.

## Modules

| Module | Models | Notes |
|---|---|---|
| `Locking` | `Lock.h`, `Batchable.h` | one action per call, step of `std::lock`, construction, use and destruction of a handle |
| `LockingProofs` | | the theorems |
| `MCLocking` | | symmetry and the sets passed to `MultiLocker` |
| `AppendOnlyFile` | `AppendOnlyFile.h`, `File::Write`, `Truncate`, `MemMap` | Commit in four steps |
| `BatchedLog` | | what `AppendOnlyFile` promises |
| `AppendOnlyFileProofs` | | the theorems about the file |
| `MMRIndex` | `Index`, `LeafIndex`, `BitUtil`, the peaks of `MMR::Root` | recursive functions |
| `MMRHash` | `Leaf`, `Node`, `AddLeaf`, `MMR::Root` | with reference definitions |
| `VectorMMR` | `MMR` over `VectorBackend` | |
| `VectorMMRProofs` | | the theorems about positions, nodes and roots |
| `MCMMR` | | the reference tree of positions |
| `FileBackend`, `MCFileBackend` | `MMR` over `FileBackend` | three instances of `AppendOnlyFile` |
| `Scheduler` | `Scheduler.h` | main thread, workers, clients, destructor |
| `SchedulerProofs` | | the theorems about it |
| `Database` | `Database.h`, `DBTransaction.h`, `OrderedMultimap.h` | |
| `BatchedMap` | | what `Database` promises |
| `BlockDB` | `BlockDB.cpp`, `DBTable.h` | extends `Database` |
| `DatabaseProofs` | | the theorems about `Database` and `BlockDB` |
| `BitmapFile` | `BitmapFile.h`, `File::WriteBytes` | |
| `BatchedBits` | | what `BitmapFile` promises |
| `BitmapFileProofs` | | the theorems about it |
| `Socket` | `Socket.h`, `Socket.cpp` | asio and the peer are external |
| `Socks5` | `Socks5Proxy.cpp`, `SOCKS.h` | extends `Socket`; also any client that uses a `Socket` directly |
| `Socks5Proofs` | | the theorems about `Socket` and `Socks5Proxy` |
| `Secp256k1` | the functions of `deps/secp256k1-zkp` that are called | a small group in place of the curve |
| `Crypto` | `Crypto.cpp`, `AggSig.cpp`, `Pedersen.cpp`, `PublicKeys.cpp`, `Bulletproofs.cpp`, `ConversionUtil.cpp`, the types of `models/crypto` | extends `Secp256k1` |
| `Wire` | `Serializer.h`, `Deserializer.h`, the bytes of `models/tx` and `models/crypto`, `ProofMessage.h` | extends `Crypto` |
| `Consensus` | `TxBody::Validate` and the three validators | extends `Wire` |
| `Transactions` | the composition: two wallets, the network and a node | extends `Consensus`; the wallets follow `tests/crypto` |
| `TransactionsProofs` | | the theorems about signatures, bytes, `TxBody::Validate` and the sums |

Correspondence of state and actions, where it is not obvious:

- `Locking`. `excl` and `shared` are the mutexes, `want`/`held` a call that is
  taking them, `handle`/`refs` the handles and their shared_ptr counts, `value` and
  `saved` an object's contents in memory and as committed. `~InnerWriter` is two
  steps, `DestroyWriter` and `Unlock`, because `MutexUnlocker` releases the mutex
  after the body. `std::lock` takes mutexes one by one (`TakeMutex`) and gives all
  back when one is taken (`BackOff`); `MultiLocker::LockShared` passes wrappers
  whose `lock` is `lock_shared`. A self-tracking object (`BitmapFile`) sets and
  clears `m_dirty` itself. The writers of `MultiLocker::Lock` are batched, as
  `GetWriter` makes them. `BuildThrows` is the exception of `BatchWrite(adopt_lock)`
  for an object without `IBatchable`; `CommitThrows` ends the program.
- `AppendOnlyFile`. `phase` says how far `Commit` is. `File::Write` opens the
  stream for appending, which makes `seekp` ineffective: the bytes go to the end of
  the file, and `Truncate` then cuts it to the new length. A batch that rewinds into
  the file and then appends is therefore committed with the old bytes; the abstract
  log promises only the length and the kept prefix in that case. `FailAt` names the
  calls that may fail (in the run, all but the `GetSize` of Commit), `faulty` remembers
  that one did. A crash inside a write leaves
  any prefix of it.
- `MMRHash`. Blake2b is injective: a hash is the tuple of what was hashed.
- `FileBackend`. A byte of a hash or of a position entry is the value and an index,
  so that a torn or misaligned read is recognised and gives garbage. `saved`,
  `leaves` and `state` are history; `saved` is the leaves of the last commit before any was
  interrupted, since a store that was torn has its hashes out of step for good.
  `Rewind` is kept out of `Next`, because after it
  nothing else is aligned; its own run shows why.
- `Scheduler`. What happens under `m_taskMutex` is one step. A worker's lookup in
  `m_tasksById` is not under it: if the table changes between its start and its end
  (`raced`), it may find or miss the task. An entry that was erased while a worker
  used it gives any interval. Time is discrete and relative: an entry of `tasks`
  carries how long it is until its time point.
- `Database`. LevelDB is external: `Write` applies a batch atomically or fails.
  A batch sets each of its keys to the last value it has for it (`Apply`). `added` maps a
  key to its versions, as `OrderedMultimap` does; `InsertAll` is the loop of `Put`.
- `BlockDB`. `Get<T>` passes over an item of another type that the transaction
  holds under the key; a block's key is the hash of its header, so two blocks with one
  header overwrite each other.
- `BitmapFile`. A byte is the set of its bits that are 1, numbered below `Width`: `|` is
  union and `& ~` is difference. `Commit` writes the modified bytes one by
  one in the order of `m_modifiedBytes`, with crashes between them.
- `Socket`. A call is three variables: `call`, `run` (`timed` while `run_for` waits,
  `drain` after it closed the socket and runs on until the handler has run) and `done`
  (the operation, with its handler queued or not). `Timeout` may fire although the
  operation has just completed: the handler then reports success on a closed socket.
  Closing cancels what is pending on the socket, and an accept is pending on the
  acceptor. `got`, `sent` are history; `heard` is what the peer received.
- `Socks5`. `pc` is the next or the current call of `Socks5Proxy::Connect`, and one
  action starts it while another takes its result; a read that the buffer can serve
  is one action. The messages sent are abstracted to their kind, the answers are bytes
  (18 variants of the reply, four of which grant the request; one has another version). Each
  attempt makes a `Socks5Proxy`, whose `m_destination` is set by its last step alone, so that
  one variable serves all attempts. An exception of
  `Socket::Connect` ends the attempts, since it is called outside the `try` block.
- `Secp256k1`. The group has order `Order` and two independent generators: `<<v, r>>`
  is v*H + r*G. A nonce is written as its x coordinate, shared by a point and its
  negation. The challenge is one fixed function of nonce, key and message. The random weights
  of the batch verification are left out: it accepts when each signature verifies. A
  range proof is the list of what it hides and a checksum, so that an altered byte is
  noticed. Keys are below the order.
- `Crypto`. A function that throws returns `Throw`. `m_pGenerators` is never
  initialized, so making or verifying a proof may also fail or crash
  (`GenerateRangeProof` and `VerifyBulletproofs` return sets of outcomes).
  `VerifyBulletproofs` hands the length of the first proof to the library for all of them: a
  shorter one is verified with the memory behind it, and may be accepted. A signature
  carries whether its bytes are in the library's form or in ECDSA's compact form;
  `AggSig` converts shares and messages, and not the aggregate.
- `Wire`. A byte holds one scalar, `Width` bytes make a `uint64_t`, and `size_t` wraps
  with it. A Deserializer that read past its end is in the state `beyond`. A count too
  large for `vector::reserve` throws in the code before the first item is read; in the model the
  packet runs out of bytes, which throws too. An index of a key's path is one byte here, four
  in the code, so that a message has 4 + 4 bytes for 20.
- `Transactions`. `phase` is the wallets' progress, `stage` the node's with one packet.
  `Arrivals` are the bytes sent, every beginning of them, every change of one byte, and
  the same transaction with fewer bytes in one of its proofs, which `RangeProof` admits.
  The kernel is the embedding program's class: fee, excess and signature, the fee
  being the message signed. `genuine` and `verified` are history.

## Runs

| Run | Shows | Bounds |
|---|---|---|
| `locking` | `LockingInv` (the inductive invariant), `MutexHasHolder`, `ReadersSeeStable`, and no deadlock: `std::lock` and single locks never block each other for good | 3 threads, 2 objects (one self-tracking), 2 copies of a handle |
| `locking_mixed` | `HandlesHoldMutex`, `NothingUncommitted` with nested calls, an object that is not batchable, Commit and Lock throwing | 2 threads, 2 objects |
| `append_only_file` | `FileInv` (types, indices that stay in the file, and how far Commit is), `ReadsView`, `KeptBytesSurvive`, and that the file implements `BatchedLog` | 4 bytes seen by the user, 8 on disk, appends of 1 or 2 bytes |
| `mmr` | `PositionsMatchTree`: heights, parents, siblings, children, leaf indices and peaks agree with the tree; nodes, size and root are those of the leaves after any additions and rewinds | positions of 128 leaves; ranges of 9 leaves |
| `file_backend` | `ViewIsLeaves`, `CommittedSurvive`, `TornCommitIsPrefix` | 3 leaves, 2 crashes |
| `file_backend_rewind` | a violation: `FileBackend::Rewind` passes indices for byte positions | 2 leaves |
| `scheduler` | `SchedulerInv` (types, every task in one place, ids handed out once), `OnceAtMostOnce`, `DanglingOnlyIfRemoved`, `NoTaskForgotten`, `OnceRuns`, `EveryRuns` | 2 workers, 2 tasks, interval 1 |
| `scheduler_stop` | a violation: the destructor may wait for ever | 1 worker, 1 task |
| `block_db` | `DatabaseInv` (types, `m_added` in step with the batch, and a transaction that reads its own writes), `LookupsReturnTheirOwn`, and that the database implements `BatchedMap` | 2 hashes, 2 bodies, 4 operations in a batch, lists of up to 4 headers |
| `bitmap_file` | `BitmapInv` (types, the map in step with the file, and `IsSet` telling the bits), `CommitSavesBits`, and that the bitmap implements `BatchedBits` | 3 bytes of 2 bits |
| `network` | `TypeOK` (with: no handler outlives its call), `StreamIntact`, `EstablishedMeansGranted`, `HandshakeInOrder`, `ConnectReturns` | the three attempts of the code; a direct client makes 4 calls and is sent 3 bytes |
| `transactions` | `TypeOK`, `SharesVerify`, `SignaturesVerify`, `RoundTrip`, `RefusesSafely`, `AcceptedIsSound`, `SumsBalance` | a group of order 5, all nonces but zero and their parities, 4 blinding factors, 2 offsets, `uint64_t` of 3 bytes, 2 packets |

Why these bounds are enough to meet the interesting cases. Locking: two objects
locked in opposite orders need two threads, and the third is a reader or writer of
one of them. Files: a batch that rewinds into the file, appends, fails, and is
committed again fits in 4 bytes; the disk bound is reached when bytes of failed
commits pile up, and twice the user's size lets one do so. Ranges: 9 leaves pass
through heights 0 to 3 and through one to three peaks; 128 leaves carry through 8 bits
of the arithmetic. File backend: three leaves have two peaks and a parent, and a
second crash may hit a store that the first one tore. Hashes and entries have 2
bytes, the fewest that can be torn. Scheduler: two workers can race for one task
and for the table; a second task is what makes the table change during a lookup.
Database: four operations hold two versions of each of two keys. Bitmap: with 2
bits each bit has a neighbour in its byte, and 3 bytes can be inside the file, at its
end or beyond it; the code's 8 bits only add neighbours. Network: the attempts are the
code's; 3 bytes sent and 4 calls let a line arrive with bytes behind it, a read time
out half way and another take up its bytes. Transactions: order 5 has nonces of both
parities, sums that vanish (and make the library throw) and sums that do not; 3 bytes
of a `uint64_t` make a size that wraps past the end of a packet possible; the second
packet meets what the first left in the node's sums and would leave in a proof cache.

Fairness. `scheduler` and `scheduler_stop` state liveness under weak fairness
of time, of the main thread and of each worker, and of the two joins: the operating
system runs every thread that can run, and grants the mutex. Nothing is assumed of
the clients, of notifications or of spurious wakeups. `OnceRuns` and `EveryRuns`
name the causes for which a task may stay unrun: the scheduler is stopped, the task
was removed, or a lookup that raced with a change of the table missed it. `network`
assumes that the calling thread runs on and that `run_for` returns once its time is
over; nothing is assumed of asio's operations, of the peer or of the proxy.

Deadlock is checked everywhere but where the system may stop: a scheduler that was
destroyed, a program that Commit's exception ended (`locking_mixed`, where nested
calls may also block each other), a client that is done (`network`), and wallets and
nodes that are done, have failed or have crashed (`transactions`).

## Disagreements found

The two violations, `file_backend_rewind` and `scheduler_stop`, are recorded as findings
in `PROJECT.json`, each with the line of the repository that says otherwise. Writing and
checking the models also showed, without a run of their own:

- `MultiLocker::Lock` takes all mutexes and then calls `BatchWrite(adopt_lock)`, which
  throws for an object that is not `IBatchable`: the mutexes without a `Writer` stay
  locked for good (`Lock.h:304`), against "Safely obtains the lock for multiple Locked<>
  objects at once." (`Lock.h:320`). In `locking_mixed` `BuildThrows` leaves them so; its
  properties hold all the same.
- `Rollback` through a `Writer` that is not batched resets `m_pTx` and not `m_dirty`, so
  the destructor's `Commit` goes through a null pointer (`assert(m_pTx != nullptr)`,
  `Database.h:113`). The model ends the process there (`Crash`).
- `KernelSumValidator` computes the sums and never compares them, although the comment in
  line 14 has it verify; `SumsBalance` is what a caller could compare.
- `Bulletproofs::VerifyBulletproofs` takes the length of the first proof for the length of
  all (`Bulletproofs.cpp:15`). A proof that is shorter than the first, which
  `RangeProof::Deserialize` admits, is verified together with bytes that are not its own,
  and nothing can be said of it when it is accepted. `AcceptedIsSound` therefore speaks of
  the first proof and of those that are as long; in `transactions` a body with a shorter
  proof is accepted, rejected, or crashes the node.
- `Socket::Accept`'s timeout closes the accepted socket, not the acceptor, and `run` then
  waits until a peer connects; the comment in `Socket.h` has the operation cancelled.
- a range proof's blinding factor is hidden with the private nonce and uncovered with the
  rewind nonce: `RewindProof` returns a wrong one, with success, when the two differ
  (the last conjunct of `RoundTrip`).
- `ProofMessage::ToKeyIndices` reads three indices from an original message and from an
  enhanced one of length 0, whatever was stored; `FromKeyIndices` writes a fifth index past
  the end of the message.
- `BigInt`'s constructor from an rvalue asserts the size of the vector it has just moved
  from, which fails in a debug build; the models are of a build with `NDEBUG`.
- `Socks5Proxy` writes its strings with the 8-byte length of `Serializer`, where SOCKS5
  has one byte.
- `File::Truncate` assigns to `sucess` outside Windows, and `Transaction.h`,
  `CompactBlock.h` and `KernelSumValidator.h` do not compile as they stand;
  `Server::Create` returns nothing. They are modelled, or left out, by what they say.

- `AppendOnlyFile::Rewind` asserts `m_fileSize == m_bufferIndex`, which a second
  rewind in one batch breaks; the code below handles that case.
- a `Commit` of `AppendOnlyFile` that throws leaves the file unmapped, and `Read`
  then reaches the assertion of `MemMap::Read`.
- after a torn commit of `FileBackend` the hash file may be longer than the position
  file; leaves added then put their hashes after the surplus, and the root is no
  longer that of the leaves. `CommittedSurvive` is what remains true.
- `BitmapFile::operator[]` returns references to two constants that are both false.
- `MultiLocker::BatchLock` calls a function that does not exist.

## What is proved

The proofs hold for every value of the constants: any sets of threads, objects,
keys, items, tasks and hashes, any numbers of bytes, calls and operations, a group of
any odd prime order, integers of any width and proofs of any size. Each module's proofs
use its own assumption on the constants (`LockingAssumption` and so on), which TLC
evaluates on the runs. Of these `Transactions` has the most: amounts and offsets are
scalars and blinding factors and nonces scalars other than zero, which secp256k1 asks for;
the amounts do not exceed the reward; `None` is no transaction and `NoSums` no sums
(`NoSumsAssumption`: `tl::nullopt` differs from every value); and `SizeAssumption`:
`RangeProof::MAX_SIZE` is the size of a proof, and a `size_t` counts more than the bytes of a
packet and of the longest single read together, so that a position in a packet cannot wrap
by itself, while one plus a size taken from the packet can. Three theorems have one
hypothesis more:

- `SizeIsKnown` (`AppendOnlyFileProofs`): `GetSize` does not fail on the file that
  Commit has just written. If it does, `m_fileSize` keeps the old size and the next
  Commit trusts it: the hazard at `AppendOnlyFile.h:49`. All other calls may fail.
- `LocksBatchable` (`NoLostMutex` alone): `MultiLocker::Lock` is given batchable
  objects. Otherwise it throws and loses mutexes, as told above.
- `MaxProof <= ProofSize` (`ValidateIsSound` alone), and no proof of the body is longer
  than `MaxProof`: `RangeProof::MAX_SIZE` is the length of a proof (675 bytes), and
  `RangeProof::Deserialize` admits no more.

| Module | Theorem | States |
|---|---|---|
| `LockingProofs` | `LockingInvariant`, `TypeCorrect` | `LockingInv`, `TypeOK` |
| | `MutualExclusion`, `CommittedAtRest`, `StableReads` | `HandlesHoldMutex`, `NothingUncommitted`, `ReadersSeeStable` |
| | `NoLostMutex` | `MutexHasHolder`, under `LocksBatchable` |
| `AppendOnlyFileProofs` | `FileInvariant`, `KeptBytes`, `ReadsAreTheView` | `FileInv`, `KeptBytesSurvive`, `ReadsView` |
| | `RefinesLog` | the file implements `BatchedLog` |
| `SchedulerProofs` | `SchedulerInvariant`, `RunsAtMostOnce` | `SchedulerInv`, `OnceAtMostOnce` |
| | `NoDanglingEntry`, `TasksKept` | `DanglingOnlyIfRemoved`, `NoTaskForgotten` |
| `BitmapFileProofs` | `BitmapInvariant`, `CommitSaves` | `BitmapInv`, `CommitSavesBits` |
| | `RefinesBits` | the bitmap implements `BatchedBits` |
| `DatabaseProofs` | `DatabaseInvariant`, `OwnLookups` | `DatabaseInv`, `LookupsReturnTheirOwn` |
| | `RefinesMap`, `BlockDBIsDatabase` | the database implements `BatchedMap`; `BlockSpec => Spec` |
| `Socks5Proofs` | `TypeCorrect`, `StreamInOrder` | `TypeOK`, `StreamIntact` |
| | `HandshakeKeepsOrder`, `EstablishedWasGranted` | `HandshakeInOrder`, `EstablishedMeansGranted` |
| `TransactionsProofs` | `SharesAlwaysVerify`, `SignaturesAlwaysVerify` | `SharesVerify`, `SignaturesVerify` |
| | `ShareVerifies` | `VerifyPartialSignature` accepts what `CalculatePartialSignature` makes, for any arguments |
| | `ValidateIsSound` | what `Validate` accepts is `Sound` (proofs shorter than the first excepted), for any body |
| | `TransactionsAreTyped`, `PacketsRoundTrip` | `TypeOK`, `RoundTrip` |
| | `NothingReadBeyond`, `AcceptedAlwaysSound` | `RefusesSafely`, `AcceptedIsSound` |
| | `SumsAlwaysBalance` | `SumsBalance` |
| `VectorMMRProofs` | `NodesAlwaysMatch`, `RootAlwaysMatches`, `RewindAlwaysRestores` | `NodesMatchLeaves`, `RootMatchesLeaves`, `RewindRestores` |
| | `LeafAtPosition`, `LeafFound`, `ParentsOfLeaf` | `LeafIndex::At` and `CalculateLeafIndex` are inverse to each other; the loop of `AddLeaf` ends at the next leaf |
| | `ChildrenAndParents` | the moves of `Index` agree with each other at every position |

The inductive invariants, and why the properties need them:

- Locking. `HandlesHoldMutex` alone is not inductive: a call that has taken some
  mutexes but built no handle yet would not be seen, and a handle could be built over
  somebody else's mutex. `MutexInv` therefore says what each pending call holds and
  that no mutex is shared and exclusive at once. `NothingUncommitted` speaks of objects
  without a writer; to survive the destructor, which commits or rolls back only what
  is dirty, it needs `DirtyInv`: an object that is not dirty equals what it committed,
  and only a living writer makes it dirty. `LockingInv` is their conjunction with
  `TypeOK`, with one lemma per part and one step per action. `StableReads` follows: an
  action that changes an object holds its mutex exclusively. `NoLostMutex` adds that a
  pending call for batched writers asks for batchable objects (`WantsBatchable`).
- AppendOnlyFile. `IndexInFile` says that `m_bufferIndex` and `m_fileSize` lie within
  the file; it depends on how far Commit is, which `CommitProgress` records: after the
  truncation the file has the length of the batch, and as long as nothing has failed
  `m_fileSize` is the file's length and the bytes written are those of the batch. The
  refinement maps each step of Commit but one to a stutter.
- Scheduler. A one-time task runs at most once because it is in one place at a time, the
  queue or one worker, and because a worker that has started it never puts it back.
  `SchedulerIInv` says so of all tasks (`Places`, with cardinalities of the entries that
  bear an id), that only ids already handed out occur (`Known`), that a one-time task
  that has started is in the table only while its worker runs it (`Started`), and that
  every other task of the table is in the queue or with a worker (`Remembered`). The
  actions are first reduced to eight effects on the tables (`StepEffect`), and each part of the invariant is proved once for every effect.
- BitmapFile. `Steady`: the map is there when no Commit runs and the file is not
  empty, and during a Commit the bytes written so far are in the file as the batch has
  them. `IsSetTellsBits` and the refinement follow from it without more induction.
- Database. `ReadYourWrites` compares a multimap with the effect of a batch.
  `AddedFollowsBatch` relates the two directly: for each key the last version of
  `m_added` is the write that comes last in the batch. That `InsertAll`, a recursive
  function, computes it is shown for lists of any length by taking a least
  counterexample (`LeastNumber`, `InductionTo`, from the library's `WFMin`). `RefinesMap`
  needs that applying a batch twice is applying it once (`ApplyEffect`). `TablesFit` says
  that under every key of a table, in the store, the batch and `m_added`, lies an item of that
  table with that hash.
- Network. `Base` holds of any client: the variables of the call agree (`Control`), and
  what the calls have returned, what is in `m_stringBuffer` and what is under way are
  together what the peer has sent (`Stream`). `Dialogue` holds of `Socks5Proxy` within
  an attempt: it is in one of four exchanges (greeting; credentials; request to a proxy
  that asked for none; request to one that took them), which determine what the proxy has
  heard, the answers it gave and how many of their bytes are consumed at each place. Both
  properties of the handshake are read off it.
- Transactions. `SlateInv` says how everything the wallets sent to each other was made:
  announced points are those of secrets that are not zero, the sums are the points of the
  summed secrets and are not zero, a share is what `CalculatePartialSignature` makes of
  these. Only with it does a verifier's equation become one of remainders: taking the
  challenge times the key off a signature leaves its nonce or the negation (`NonceIsLeft`),
  of which exactly one has a quadratic residue for y, since the order is odd
  (`NegatedNonce`); and if the sum of the nonces has none, all of them are negated, so the
  shares still add up (`SharesAddUp`). `FoldLeft` is unfolded for up to two elements, the
  two parties. `ValidateIsSound` needs no invariant: an accepted signature satisfies
  Schnorr's equation (`SingleIsSchnorr`), and although `VerifyBulletproofs` takes all proofs
  to be as long as the first, one that is no shorter was verified by itself: a beginning
  of it that proves has the length of a proof, and no proof is longer (`ProofsHold`). What
  is not claimed is that a shorter proof holds.
- Transactions, on the wire. `RoundTrip` and `RefusesSafely` speak of whatever may arrive,
  and rest on three lemmas for each thing that is read, from a byte to a transaction:
  `...Reads` (a value of the type or an exception, and never past the end), `...Exact` (what
  was written is read back, to its last byte) and `...Extends` (behind the same bytes, more
  bytes change nothing). The last is why a transaction cut short is refused: had it been
  read, the whole packet would be read to the same place, and there bytes would be left over,
  which `TransactionExact` excludes. `BuildInv` says what the transaction is made of,
  and that it is made once; `NodeInv` that what the node holds was deserialized from an
  arrival of it, which has at most the bytes of the packet (`ArrivalsAre`, `ShorterProof`),
  so that `ValidateIsSound` applies, and that the sums balance.
- Transactions, the sums. `CopyKeepsSum` and `CopyKeepsScalarSum`: leaving out points at
  infinity and blinding factors of zero, as `AddCommitments` and `AddBlindingFactors` do,
  changes no sum of any number of summands. Then amounts (`AmountsCancel`) and blinding factors
  (`KeysBalance`) cancel out coordinate by coordinate: the change's key was made of the two
  others and the offset (`BuildInv`). A packet altered in transit that is accepted all the same
  ends `genuine`, and nothing is claimed of the sums behind it: the kernel's excess is not
  tied to its outputs before they are compared.
- MMR. What the loops of `Index`, `LeafIndex` and `MMR::Root` compute is shown for perfect trees,
  by induction on their levels (`HeightRound`, `LeafRound`, `PeakRound`; `FillIs` says which tree a
  number of bits stands for). Two facts carry the rest: the nodes of a perfect tree have the
  heights of the tree before it (`HeightBeside`), and the heights behind a leaf count up from 0
  until the next leaf (`HeightsBehindLeaf`), so that `AddLeaf` appends exactly the parents that
  the leaf completes, each next to its right child. `RangeInv` is then inductive: the nodes are as
  many as the leaves call for, and their hashes are those of the leaves (`Matches`); a rewind keeps
  a prefix, because children come before their parents (`ChildrenBefore`). For the root, `Fits(n, h)`
  says that behind the first n leaves the positions and heights are those of a perfect tree of
  height h; it passes to both halves (`FitsHalves`), which gives the hash at the top of a tree
  (`TreeTop`) and, going down the levels, that the peaks of `MMR::Root` are the tops of the
  reference's trees and are bagged as it does (`BagsRest`, `RootIs`). The bag of no peaks is told
  by `ZERO_HASH`, so no tree may have that hash (`TreesNotZero`). `RewindRestores` follows: both
  roots are the reference's root of the leaves that stay. Positions are natural numbers: the
  result is about ranges whose positions fit in 64 bits.
- Recursion. The loops over items, bytes and digits are recursive functions or folds.
  `InductionOver` is induction over the set of the numbers that have a property;
  `RecursionExists` and `FoldExists` construct the function that a recursive definition
  chooses, so that the definition may be unfolded (`NumberUnfolds`, `ItemsUnfold`,
  `FlattenIs`, `SumOfUnfolds`). For loops that jump further back, as those that halve a number
  do, it is `DescentExists`; for hashes of hashes, which come from no given set, `HashSetExists`
  builds one that contains the parents of its members.

The inductive invariants were checked with TLC on the runs' instances before they were
proved; `FileInv`, `SchedulerInv`, `BitmapInv`, `DatabaseInv` and `LockingInv` stay
invariants of the runs.

What is only model-checked: liveness under fairness (`OnceRuns`, `EveryRuns`,
`ConnectReturns`) and the absence of deadlock, which TLAPS does not reach;
`PositionsMatchTree`, which compares `MMRIndex` with an explicit tree (its parts that the range
needs are theorems: `LeafAtPosition`, `LeafFound`, `ParentsOfLeaf`, `ChildrenAndParents`); and
`FileBackend`'s three invariants, which need the hashes cut into bytes of three files in any
state of an interrupted commit.

## What is not modelled

- Logging, paths, JSON, RPC messages and text: input and output.
- `LeafSet` has no implementation; `ChainStore` and the UTXO operations of `BlockDB` are
  empty; `Server` and `HttpServer` are stubs around external libraries.
- `CompactBlock`, `ShortId`, blocks beyond their key, headers, the meaning of features.
- Of `Crypto`: hashes, AES, PBKDF, `BlindSwitch`, and failures to randomize a context. They
  are single calls into a library, without control flow of their own.
- Of `Serializer` and `Deserializer`: strings, arrays and little-endian numbers, which
  transactions do not use.
- `FileBackend` with leaves of fixed length, and failing writes of `BitmapFile`.
- The proof cache at its bound of 3000.

## Plan

1. Proofs: `CommittedSurvive` of `FileBackend`, on top of `AppendOnlyFileProofs` and
   `VectorMMRProofs`.
2. `FileBackend` with leaves of fixed length; failing writes of `BitmapFile`.
