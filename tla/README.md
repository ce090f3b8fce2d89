# TinyLeveldb in TLA+

A verification project for TinyLeveldb, a small C++ storage engine in the manner
of LevelDB. The modules model the parts of `src/db/` that carry its logic; TLC
checks them on small instances and the TLA+ proof system proves their safety
properties for every value of the constants. `PROJECT.json` maps every
definition to the lines it models.

The repository is a set of components that are not yet put together. There is
no database class: `version*.h` and `compaction.h` are empty, CMake builds only
the demonstration `main.cpp`, and several headers would not work as written. So
each component is modelled by itself, together with what it calls, and used as
its methods and the other components expect it to be used.

## 1. Inventory

| Component | State | Operations | Used by |
|---|---|---|---|
| `LRUCache` (`tableCache.h`) | reference-counted `LRUHandle`s, the lists `lru_` and `in_use_`, `usage_`, `capacity_` | `Insert`, `Lookup`, `Release`, `Erase`, `Prune`, `SetCapacity`, destructor | `ShardedLRUCache` |
| `HandleTable` (`tableCache.h`) | buckets of chained handles | `Lookup`, `Insert`, `Remove`, `Resize` | `LRUCache` |
| `ShardedLRUCache` (`tableCache.h`) | sixteen shards | the same by hash of the key | the caller |
| Filter block (`filter_block.*`) | keys waiting, filters made, their offsets | `StartBlock`, `AddKey`, `Finish`; `KeyMayMatch` | `TableBuilder`, a table reader |
| `BloomFilterPolicy` (`bloom.h`) | bits per key, probes | `CreateFilter`, `KeyMayMatch` | filter block |
| Background work of `env` (`env.h`) | queue, mutex, semaphore, start flag | `Schedule`, `BackgroundThreadMain` | the caller's threads |
| `WritableFile` (`env.h`) | descriptor, buffer of 1024 bytes, `has_buffer_size` | `Append`, `FlushBUffer`, `Fsync`, destructor | `TableBuilder` |
| `TableBuilder` (`SSTable.h`) | `Rep`: offset, pending handle, data and index block | `Add`, `Flush`, `WriteBlock`, `Finish` | the caller |
| `BlockBuilder`, `Block`, `blockIter` (`block.h`) | encoded entries, restart array | `Add`, `Finish`, `Reset`; `Seek`, `Next` | `TableBuilder`, a table reader |
| `Arena` (`arena.h`) | blocks, the free rest of one | `Allocate`, `AllocateAligned`, `MemoryUsage` | `MemTable`, `SkipList` |
| `SkipList` (`skipList.h`) | nodes with a link per level, `level` | `insert`, `search`, `remove` | `MemTable` |
| `MemTable` (`memtable.h`) | a skip list, an arena, a reference count | `Add`, `Get`, `Ref`, `Unref` | the caller |
| `crc32c` (`crc32c.*`) | none | `Value`, `Extend`, `Mask`, `Unmask` | `TableBuilder` |
| `SequentialFile`, `RandomAccessFile`, directory operations (`env.h`) | a descriptor | reads, thin system calls | a table reader |
| `coding`, `slice`, `Status` | none | encodings | everything |

What interacts: `TableBuilder` calls `WritableFile`, `BlockBuilder` and the
filter block; the filter block calls the Bloom filter; `LRUCache` calls
`HandleTable`; `MemTable` and `SkipList` allocate from `Arena`. All of that is by
calls in one thread. Two parts have threads. The callers of `env::Schedule` and the
background threads share a queue, a semaphore and a flag. The links of a
`SkipList` are atomic, so that searches may run while one thread inserts.

What is hard, and what makes each component correct:

* **LRUCache.** An entry is held by clients and by the cache and is in one of two
  lists or in none; six methods move it. It is freed exactly when the last holder
  lets go; lists, table and `usage_` agree after each call and each round of a
  loop; eviction takes the entry longest idle.
* **Filter block.** Windows of 2048 bytes are shared by short blocks, skipped by
  long ones, and closed one call late. No key may be missed.
* **Background work.** The start flag is tested without the mutex, the semaphore
  is waited for before the mutex is taken, and a work item runs with the mutex
  held. `sem_wait` and the creation of a thread may fail, and nobody looks. Items
  must run once, in order, and not wait forever.
* **WritableFile.** Data around the size of the buffer, sizes that an `int` does
  not hold, partial and failing `write()`s. Bytes must reach the file once and in order.
* **TableBuilder.** Index, filter and file each have an idea of where a block
  is; the index learns it one call later. They must agree.
* **BlockBuilder.** Keys share prefixes inside a group and never across groups.
* **Arena.** No memory may be handed out twice, and what is counted for alignment
  must be enough for it.
* **SkipList.** A node enters its lists one by one while others search. All levels
  must lead to the same nodes in the same order, and a search that meets a
  half-made node must not be led past its key.
* **crc32c.** Data is cut into bytes, words and strides by its address and its
  length. None may be left out, and the stored form must give the checksum back.

`PROJECT.json` lists the hazards line by line, with the properties for each.

## 2. Modules

```
PinnedCache  <== refinement ==  LRUCache  <-- MCLRUCache, LRUCacheProofs
                                FilterBlock  <-- MCFilterBlock, FilterBlockProofs
                                BackgroundWork  <-- BackgroundWorkProofs
WritableFile <-- MCWritableFile, WritableFileProofs
     ^-- INSTANCE -- TableBuilder  <-- TableBuilderProofs  (INSTANCE WritableFileProofs)
                                Block  <-- MCBlock, BlockProofs
                                Arena  <-- MemTableProofs
                                SkipList  <-- MCSkipList, MemTableProofs
                                Crc32c  <-- MCCrc32c, Crc32cProofs
```

Definitions whose comment says "Mistake" are variants of the definition below
them with a plausible bug; no specification uses them. They serve to see that
each property fails when the code is wrong.

### Promised and built

Some members are used before anything sets them, and some structures are filled
with null pointers. Where the rest of the component is worth checking all the
same, a constant says which values the member may start with, and the state
remembers which it was:

| Constant | Member | Values |
|---|---|---|
| `Buckets` (LRUCache) | the buckets `Resize` leaves | `"null"`, as built: `FindPointer` reads through null. `"heads"`: the first table works, and `Resize` reads through null when it is outgrown. `"growing"`: every table works |
| `SemStarts` (BackgroundWork) | `bg_queue_semaphore`, no `sem_init` | any number of tokens |
| `Fresh` (WritableFile) | `has_buffer_size`, not initialised | any `int` |
| `Pointers` (TableBuilder) | `pending_handle`, `indexHandle`, ... | `"unset"`, as built: the first use is undefined. `"set"` |
| `FreshPending` (TableBuilder) | `pending_index_entry` | either Boolean |

The runs of the components cover both kinds of values; properties that only
hold for the intended start say so in their premise.

### LRUCache and PinnedCache

`shard` holds the members of `LRUCache` and the fields of every `LRUHandle`;
`next` and `prev` are real pointers, so `LRU_Remove` and `LRU_Append` are the
code's four assignments. `held` is what clients have not yet released. The
private methods are functions from shard to shard; every public method is an
action. The loops of `Insert`, `Prune` and the destructor take a step per round,
with `mode` and `cursor` where the loop is. The hash table is the map its methods
maintain. When a new key makes it larger than its `Length` buckets, `Resize` reads
through the null buckets of the new table (`NullResize`), unless `Buckets` is
`"growing"`. `Segfault` leaves the state of the dead process as it was before the
call. `PinnedCache` says what a client is promised, with neither counts
nor pointers. The refinement mapping at the end of `LRUCache` reads the idle queue
off the links: `Follow` is the sequence of idle entries that they lead through from
`lru_` or, once the destructor runs, from its cursor.

### FilterBlock

The offset array and the keys waiting are kept; the filters are records with
the range of bytes each occupies, because the reader finds them by their range. A
Bloom filter is its number of bits, its number of probes and the set of bits;
the hash sequence of a key is the constant `Hash`. `StartBlock`'s loop takes a
step per filter. `KeyMayMatch` is the reader on the finished contents.

### BackgroundWork

Every thread has a program counter; each step is one operation that another
thread can observe: lock and push, post, unlock, the test of the flag, its
assignment, the start of a thread, `sem_wait`, lock and pop, the return of the
function. `sem_wait` may fail, and the thread goes on without a token
(`SemWaitFails`); the creation of a thread may fail after the flag is set, and
nobody tries again (`SpawnFails`). `failed` remembers which of them has happened.
An item of `Reschedules` calls `Schedule` from its function, and so
waits for the mutex its own thread holds. `front()` of an empty queue is
undefined; the model keeps the thread there.

### WritableFile and TableBuilder

`slice::size()` returns an `int`: `size` is the conversion, for any `MaxInt`, and
`Append` works with what it leaves, as the code does. A negative size, or a sum
that an `int` does not hold, is undefined. `handed` counts the bytes the caller
has handed over, `taken` those `Append` has seen, and `whole` says whether they must
be the same, each size so far being `Small`: an `int` holds it together with a full
buffer. Bytes are numbered in the order `Append` sees them, so that contents show
which byte is where. Each `write()` is a step that takes any part of the
data or fails; a failure moves `offset` by `SizeMod - 1`, as adding `-1` to a
`size_t` does. `TableBuilder` instantiates `WritableFile` on its own variables,
with one step per call on the file; the file's own steps come in between. Keys
are numbered, blocks and entries are kept by size, and the filter block by the
offset under which it has each key. `TableBuilder::Finish` never calls `Finish` of
the filter block and never writes it: what the filter knows stays in memory, in the
model as in the code.

### Block

Byte by byte, because what matters is lost bytes: `CString` is what
`string::append(const char*)` leaves of four encoded bytes. `entries` remembers
what was added and where. It is also TableBuilder's data block, which keeps only
its size.

### Arena

Memory is a line of addresses; `new[]` may return any of `Addresses` where
nothing lies. `given` remembers what callers hold.

### SkipList

The nodes of one skip list, their keys and links, and two threads: `writer` in
`insert` or `remove`, and `reader` in `search`, which `MemTable::Add` and
`MemTable::Get` call. The writer's own search is one step per round, since nobody
else changes links; its stores are one step each. The reader loads a link three
times per round of its loop, as the code does, and each load is a step. One
reader stands for all of them, because readers change nothing.

The template cannot be instantiated. The comparisons at lines 69, 100 and 128 name
an `i` that is out of scope, and `newNode`, `Node`'s constructor and `DecodeEntry`
do not compile either. The model takes the algorithm: the three comparisons may
turn out either way, which includes whatever a repair makes of them, so that an
insert may or may not take a key twice and a `remove` may take a node whose key
differs from the one it was given. What is checked holds for all of them. No step
depends on what `search` answers, so the answer is not in the model; it would be
the wrong one, see section 4.
`remove` deletes a node that a reader may be at. Nothing calls it; it is taken to
be called only when nobody searches.

`level` becomes the height of a new node, which is one more than the index of its
highest list. With a node of height `MaxLevel` the next search starts behind the
links of `head`: the thread that does so is `"undefined"` and stays there, while
the other goes on.

### Crc32c

A word is the set of its bits, so that exclusive or and shifts are set operations
and 32 bits are 32 bits. The five tables, 1280 literals, are defined by what they
hold; the literals of the source are those values. `Extend` follows the code:
bytes up to the first aligned one, four strides over whole swaths, single words
with the strides rotated, their combination, and the bytes that are left. `Crc` is
the definition it is compared with, one bit after the other. As a check of `Crc`
itself, it gives 0xe3069283 for the bytes of "123456789", the published value.
`Store` is the end of `WriteBlock`: the checksum goes on over the first byte of the
trailer, which is not set, and then takes its place.

## 3. Runs

| Run | Shows | Bounds |
|---|---|---|
| `lru_cache` | counts, lists, table and usage agree after every step; the destructor frees what the cache owns; `LRUCache` implements `PinnedCache`; its loops end | 3 keys, 3 entries, charge 2, capacities 0 and 3, 2 handles per entry, tables of 2 buckets that grow or do not |
| `cache_off` (violation) | the first `Lookup` or `Erase` of a cache of capacity 0 reads through a null bucket | 1 key, 2 entries |
| `filter_block` | no key is missed; the assertion of `StartBlock` holds; no filter has another window's keys; `StartBlock` returns | 3 keys, 2 waiting, offsets 0, 1500, 2047, 2048, 6500 |
| `background_work` | items run once, in order; no empty `front()` with a semaphore that starts at 0 and no failing `sem_wait`; there is a worker after the first call unless its creation failed; items run and calls return unless a thread is lost | 2 callers, 2 workers, 3 items, one of which reschedules |
| `writable_file` | nothing is lost or reordered without failures, behind the rubbish `has_buffer_size` starts with; a failure takes the file back by at most one byte; `write()` loops end once `write()` stops failing | buffer of 3, five first values of `has_buffer_size`, an `int` of -8 to 7, data of 0 to 4, 6, 9 (which is seen as -7) and 17 (as 1), 7 bytes seen, 2 failures |
| `table_builder` | index, filter and file agree on every block, also in a finished and closed table | 4 entries of 1 or 2, blocks of 3, buffer of 3, 1 failure |
| `unflushed_footer` (violation) | the end of a finished table stays in the file's buffer and is dropped | 2 entries |
| `block` | prefixes can be put together again; groups start with a whole key, also after `Reset` | bytes below 6, groups of 2, 5 entries, 4 keys, 2 values |
| `restart_array` (violation) | the restart array cannot be read back | the same |
| `arena` | no memory is handed out twice; an aligned piece has room to be moved to a word boundary | blocks of 12 bytes, words of 4, requests 2 and 5, three places |
| `checksum` | `Extend` is the bit by bit checksum of all the data, at every alignment and in every cut; the stored trailer gives it back | pieces of 1, 3, 7, 19 and 46 bytes, three pieces, four alignments |
| `skip_list` | all levels lead to the same sorted nodes; `level` fits them; a search stays before its key and finds it | 3 keys, 3 nodes, 3 levels, 1 writer, 1 reader |

Why the bounds are enough: with three entries of charge 2 and capacity 3, the
cache is over capacity by one and by two entries, lists have up to three nodes
(an inner node has two neighbours), keys are replaced while the old entry is
held, idle, or being evicted, and capacity 0 is included. The offsets of the
filter run lie on, just before and just behind a window's edge, share a window,
and skip two windows. Two callers are what the race on the flag takes and two
workers what the race for a token takes; either may meet a failing `sem_wait` or a
failing creation. A table of two buckets is outgrown by the third key. The file's
data is smaller than, of the size of, and larger than the buffer by one; sizes
are small, just not, negative and truncated. Two failures reach the offset
going back twice and wrapping below 0. Blocks of the table are larger and
smaller than the file's buffer, and the table has up to four. Groups of two and
five entries make three restarts, with a second block after `Reset`; the keys
are prefixes of, equal to and different from each other. A request of 5 is
above a quarter of 12 and one of 2 is not, with padding it may be either; three
places allow a new block between two others. The pieces of the checksum are
shorter than a word and shorter than the way to the first aligned byte, of a swath
and a few bytes, and of two swaths, words and bytes. Three nodes make a list with
a node before, at and behind a key, a key twice, and nodes that differ in height by
two; three levels leave a level between the lowest and the highest.

`CHECK_DEADLOCK FALSE` is set where the system may stop: a destroyed or crashed
cache, a finished filter block, all items scheduled, a closed file, an arena
whose places are used up, a checksum that is stored, two threads of the skip list
that have both read behind the links. `block` runs forever through `Reset`.

### Fairness

Loops inside one call (`Evict`, `PruneOne`, `DestroyOne`, `Generate`,
`WriteStep`) are weakly fair: a thread in a call goes on, and
`write()` returns. `write()` may fail, and `WriteReturns` says what that takes: a call
comes back if `write()` stops failing one day. One-byte writes that alternate with
failing ones move `offset` 0, 1, 0, 1 and go on forever. `MaxFaults` makes every
behaviour of the instance stop failing, so the run speaks of the behaviours
the property's premise names, and of no others. No call is ever assumed to be
made. In `BackgroundWork` every thread's step in a call or in its main loop is strongly fair: a mutex and a
semaphore that become free again and again eventually let each waiting thread
pass. Schedulers of the platforms the code runs on give this in practice;
POSIX does not promise it. Failures of `sem_wait` and of `std::thread` may happen
and never have to. `Call` has no fairness. The items of `Reschedules`,
and an empty `front()`, stop their thread with the mutex held, and with it
everybody: the liveness properties say "unless".

## 4. Findings

Three runs show code that does not do what a comment beside it says; `PROJECT.json`
quotes the comments.

1. `HandleTable` has null buckets, so a cache of capacity 0 crashes too.
2. `TableBuilder::Finish` does not flush, so the footer is lost at close.
3. Encoded integers are appended as C strings, so restart arrays lose their zeros.

Others were met on the way and have no run of their own. A name in parentheses is
the definition that shows it:

* `bg_queue_semaphore` is not initialised. If it starts with tokens, a thread wakes
  to an empty queue (`TakeFromEmpty`).
* `AllocateAligned` counts the padding and returns the address before it
  (`AllocateAligned`): data of a word or less may lie across two words, which the
  comment at `arena.h:51` promises it does not. What `AlignedPieceHasRoom` shows is
  that a repair needs no more memory.
* The comparison that decides what `SkipList::search` returns (`skipList.h:100`) is `!=`
  where the comment at line 89 asks for an equal key, and it follows a link of the
  node it should compare. A search for the only key of a list reports it missing.
* `slice::size()` returns an `int`: `Append` of 2^32 + 5 bytes keeps 5 and returns OK
  (`size`).
* Nobody looks at the result of `sem_wait`, so a signal makes a thread go on without a
  token (`SemWaitFails`). If the first `std::thread` cannot be created, the flag stays
  set and no item ever runs (`SpawnFails`).
* `TableBuilder` never finishes or writes its filter block.
* `Resize` reads `next` of a null bucket of the table it makes (`NullResize`).
* `WriteToFile`'s test for an error is never true, so after a failing `write()` the
  call returns OK (`WriteFails`). `SequentialFile::Read` and
  `RandomAccessFile::Read` have the same test.
* The assertion of `~LRUCache` that is to report handles not yet released looks at
  `in_use_` only, where an entry that was erased while in use, or inserted with
  capacity 0, is not.
* The checksum of a block covers a type byte that is never set, and the checksum
  is stored over it (`Store`).
* `SkipList::level` may reach `maxLevel`, and the next search then reads behind the
  links of `head` (`FirstPc`).

## 5. Proofs

Theorems are proved for every value of the constants that satisfies the named
assumption of the module. Each proof has the same form: an inductive invariant
`IInv` (`ArenaIInv` for the arena) that contains the properties or implies them, `Init => IInv`, one step per
action for `IInv /\ [Next]_vars => IInv'`, and temporal logic for `Spec => []IInv`.

| Assumption | Beyond types it says |
|---|---|
| `CacheAssumption` | the list heads are no entries |
| `FilterAssumption` | the domains of the offsets and of the hash values |
| `WorkAssumption` | threads and items are told apart; the workers are a finite set |
| `FileAssumption` | a full buffer fits into an `int`, and an `int` into a `size_t`. Data may have any size |
| `BuilderAssumption` | the same; and an `int` holds what the builder hands to the file at once, together with a full buffer (`Small`): blocks, index and footer stay below 2^31 - 1024 bytes |
| `ArenaAssumption` | `new[]` returns addresses aligned to a word |
| `BlockAssumption` | the block is smaller than `Base^3`: beyond it an integer may have four bytes that are not 0, and `append` would read behind them |
| `CrcAssumption` | nothing: data and types are bytes |
| `SkipListAssumption` | keys are ordered as numbers; `head` and null are no nodes |

* **LRUCacheProofs**: `TypeCorrect`, `CountsCorrect`, `ListsCorrect`,
  `TableCorrect`, `DestructorCorrect`, `UsageCorrect`, `RefinesPinnedCache`. The invariants need each
  other: an unlink is right only if the entry's count says which ring it is in,
  and a count stays right only if the table gives up the entry it is asked for.
  The lemmas about rings say that unlinking a node leaves a ring of the others and
  that linking one makes a ring with it, whatever else the pointers hold. A ring
  has no circle besides the one through its head (`NoCircle`): without that, a
  head linked to itself would not mean that no entry is left, and the destructor
  could miss some. `LoopInv` ties `mode` and `cursor` to the list: an evicting
  loop has an entry to evict, and the destructor's cursor is the first of what is
  left of `lru_`, from which every entry is reached. `usage_` is followed by a
  second invariant, `UsageInv`, on top of the first. It needs that the sum over a
  finite set loses an element's value with the element, which the module proves of
  `MapThenSumSet` from its definition. The refinement has a third, `OrderInv`: there
  is a sequence that the links lead through (`Path`), and it is the only one
  (`AlongIsUnique`), so that it is the idle queue. What each method does to the links
  is said once (`Keeps`, `Skips`, `Extends`), with what that does to the sequence:
  nothing, `RemoveFirst`, `Append`. Each action is then one of `PinnedCache` or none;
  a round of the destructor is an `Evict`, and a crash is none. No bound on keys,
  entries, charges or capacities. With `"heads"` a cache never holds more entries than
  `Length`, because one more ends it; with `"growing"` it may hold any number.
* **FilterBlockProofs**: `TypeCorrect`, `AssertionHolds`, `NoKeyIsLost`,
  `OnlyItsWindowMatches`. `IInv` says that between calls there are exactly as many
  filters as windows before the current one, and that every key added is either
  covered by the filter of its window or still waiting in the current window. A
  lemma shows that a filter matches every key it is made from, for any hashes and
  any number of bits. For the converse, `Origins` says that filters lie behind
  each other, that a key that waits was added in the current window, and that a bit
  that is set comes from a key added in the filter's own window.
* **BackgroundWorkProofs**: `TypeCorrect`, `OrderCorrect`, `TokensCorrect`,
  `StartCorrect`. `Places` ties each thread's program counter to the mutex and its
  item; `Tokens` counts, for a semaphore that starts at 0 and as long as no `sem_wait` has failed: items in the queue =
  tokens + threads woken and not yet served + an item pushed and not yet announced.
  `Startup` follows the flag: once it is set there is a thread or a caller about to
  start one, and before that whoever has pushed is on its way to the flag, unless the
  creation of a thread has failed. Any
  number of callers and items, any finite set of workers.
* **WritableFileProofs**: `TypeCorrect`, `BytesCorrect`, `OrderCorrect`. The bytes
  that `Append` sees are a stream (`Nth`); `HeldInOrder` says that what a call still
  has to write, or else the buffer, is the end of it, and `FileInOrder` that
  without failures the file is its beginning up to there. With failures
  `FileIsBehind` bounds how far the file can be ahead of what a call still writes:
  by one byte for each failure. `SizeIsInt` says what the conversion returns for any
  size, and that it keeps one that fits. `SmallIsSafe`, a part of `IInv`, says that
  small sizes lose nothing and lead to nothing undefined.
* **TableBuilderProofs**: `TypeCorrect`, `PendingCorrect`, `IndexCorrect`,
  `FilterCorrect`, `LookupCorrect`. `IInv` contains that of `WritableFileProofs`,
  taken over with the builder's file: the steps of the file keep it by the lemmas
  proved there. `OffsetIsTaken` ties the offset the builder counts to the bytes
  handed over, `IndexInOrder` the index to the blocks written, with the one that is
  pending at each point of a call, and `BlocksInFile` says when `Flush` is done with
  a block.
* **BlockProofs**: `TypeCorrect`, `RestartsCorrect`, `KeysCorrect`. `IInv` has
  the division of the entries into groups without a quotient (`GroupsAreFull`),
  and `EntryFits`: what is appended later leaves the bytes of an entry where they
  are. How many bytes of an encoded integer `append` loses is never used.
* **MemTableProofs**, of the arena: `ArenaTypeCorrect`, `PiecesCorrect`, `AlignedPiecesHaveRoom`. A
  piece's hull is the piece with the padding counted for it; hulls are disjoint and
  lie in blocks, and the free rest of the current block touches none. The padding
  that is computed for the address before it is the way to the next word boundary.
* **MemTableProofs**, of the skip list: `TypeCorrect`, `LevelCorrect`, `SearchCorrect`,
  `ListsCorrect`, `LevelsCorrect`. The lists are described without following them
  (`ListsInOrder`): all nodes have one order, by key and among equal keys the newest
  first; a link leads to a node of its level that is later in the order, and passes
  none of its level. This holds between any two stores of an insert, for lists of any
  length. `UpdateFits` says that the place an insert found on each level stays the
  last before its key; `ReaderIsBefore` that what a search stands on is
  linked and before its key, whatever was linked in the meantime. From the order
  follows the sequence of the nodes that `LevelsHoldTheNodes` speaks of: there are
  finitely many (`FewNodes`), and the place of each is the number of those before
  it (`PlacesOfAnOrder`).
* **Crc32cProofs**: `ChecksumCorrect`, `TrailerCorrect`, `ExtendCorrect`,
  `UnmaskCorrect`. Division by the polynomial is linear, and only shifts a word whose
  lowest byte is empty (`DividedLinear`). No more is needed of the polynomial, and
  with it a table of bytes does what eight single shifts do (`TableStep`), a word
  what its four bytes do (`WordStep`), and a stride's tables what sixteen bytes of
  zeros do (`Step4Value`). A `Run` is what is left after each byte of the data. Four
  strides put together (`Together`) are where the run is; the stride in front may
  take the next word and go behind the others, because what it adds can be divided by
  itself (`StrideGoesBehind`), and a swath is four such words. So bytes, strides and
  words each take the run on by what they read, wherever the data is cut. For the
  trailer, what `Sum` carries into a bit `Difference` borrows from it
  (`DifferenceOfSum`). The invariant adds to the two properties that the trailer is
  made of the checksum. Any polynomial, data, cuts and addresses. That the 1280
  literals of the tables are the remainders `Divided` and `Stride` give is not
  proved: the model defines the tables by them.

Three arguments take the place of induction over data, which is out of the
prover's reach. Where something holds of every subset of a finite set, or a
minimum is needed, the least counterexample is taken, which exists because `<` is
well-founded on the naturals (`LeastIsThere`, `MinimalIsThere`). Where a definition
follows links, the invariant says what one link does; the sequence that comes of
it is named by its members' places, not built up. And where the code's recursion is
over a number, `StepsExist` shows for steps that are functions on a set that there
is a function that takes them all, so that the one the definition chooses obeys its
equation; `Upward` carries a fact from each number to the next.

Only model-checked:

* `LoopsEnd`, `StartBlockReturns`, `EveryItemRuns`, `ScheduleReturns`,
  `WriteReturns`: liveness is out of the prover's reach.

## 6. Not modelled

* `HandleTable`'s chains and what `Resize` moves: every bucket is null, so that the first
  access to any of them crashes, and `Resize` reads `next` where chains are linked
  by `next_hash`. What the table promises is modelled, and where it crashes.
* `~env` destroys the semaphore, the mutex and the queue under the detached threads
  that wait on them. What these do from then on is undefined, so nothing can be
  claimed; the model ends where an `env` does.
* `ShardedLRUCache`: each shard is an `LRUCache`, and no state relates two of them.
  `Hash` only chooses the shard. The mutex of each shard is commented out; two
  threads in one shard race on every member, and are not modelled.
* `blockIter`: an abstract class, since `Prev` and `status` have no definition, and
  nothing derives from it. Its member `size` is never set and decides where it reads.
* Of `SkipList`: the destructor, `print`, and `newNode`, which nothing calls. Of
  `MemTable`: the encoding of an entry, whose sequence number is shifted as an
  `int`, and the reference count.
* `SequentialFile`, `RandomAccessFile`: one system call each, and no caller.
  Directory operations: one system call each, no state.
* `Status`, `Iterator`, the empty version and compaction headers, `main.cpp`.
* Of `WritableFile`: the descriptors `syncManifest` opens and does not close, and
  `is_manifest`, which is only ever set to true and otherwise not initialised.
  Of `Arena`: the destructor and `MemoryUsage`'s caller. Of `BlockBuilder`:
  `CurrentSizeEstimate`, which `TableBuilder` keeps as the size of its block.

## 7. Plan

Done, in this order because the cache has the most state and the background
work the first threads: LRUCache with PinnedCache, FilterBlock, BackgroundWork,
WritableFile, TableBuilder, Arena, Block, SkipList, Crc32c; proofs of all of them.
Every safety invariant, action property and refinement that a run checks is proved.

What is left is outside the prover's reach or the code's: liveness, and the parts of
section 6 that would have to be repaired before they can be modelled.
