------------------------------ MODULE LRUCache ------------------------------
(***************************************************************************)
(* One shard of the table cache: class LRUCache of db/tableCache.h.        *)
(*                                                                         *)
(* Every entry is a malloc'ed LRUHandle with a reference count.  An entry  *)
(* that is in the cache is a node of one of two circular doubly linked     *)
(* lists: in_use_ while some client holds it, lru_ while only the cache    *)
(* does.  The module keeps the lists as the code does, by the next and     *)
(* prev pointers of their nodes.                                           *)
(*                                                                         *)
(* The hash table (class HandleTable) is kept as the map from keys to      *)
(* entries that its three methods maintain when FindPointer finds a head   *)
(* node in the bucket of the key.  In the code as it stands it finds none: *)
(* Resize fills the buckets with null pointers, and FindPointer then reads *)
(* through null.  Buckets says what a run considers: with "null" the model *)
(* is the code as built; with "heads" the buckets of the first table hold  *)
(* head nodes, but Resize still makes null ones when the table grows, and  *)
(* reads through them itself; with "growing" the buckets of every table    *)
(* hold head nodes, and it is LRUCache on top of a table that keeps its    *)
(* promise.                                                                *)
(***************************************************************************)
EXTENDS Integers, FiniteSets, FiniteSetsExt, Sequences

CONSTANTS
  Key,          \* the keys hashed to this shard
  Entry,        \* the LRUHandles malloc can return
  Charge,       \* the charges a client may insert an entry with
  Capacities,   \* what SetCapacity may be called with, before use
  Buckets,      \* the hash tables considered: "null", "heads", "growing"
  Length,       \* length_ of the first table: 4 in the code
  NoEntry,      \* nullptr where an LRUHandle* is expected
  MaxPins       \* bound on the handles to one entry clients hold at a time

Lru   == "lru_"      \* the dummy head of the list of unused entries
InUse == "in_use_"   \* the dummy head of the list of entries in use
Node  == Entry \cup {Lru, InUse}

ASSUME CacheAssumption ==
  /\ Charge \subseteq Nat
  /\ Capacities \subseteq Nat
  /\ Buckets \subseteq {"null", "heads", "growing"}
  /\ Length \in Nat
  /\ MaxPins \in Nat \ {0}
  /\ Lru \notin Entry /\ InUse \notin Entry /\ NoEntry \notin Node

VARIABLES
  shard,   \* the members of LRUCache and the fields of every LRUHandle
  config,  \* capacity_, and what the buckets of the hash table hold
  held,    \* held[e]: handles to e returned to clients and not yet released
  mode,    \* the loop a call is in, or how the cache ended; "open" between calls
  cursor   \* the node ~LRUCache has reached

vars == <<shard, config, held, mode, cursor>>

Shard == [key     : [Entry -> Key \cup {NoEntry}],
          charge  : [Entry -> Charge \cup {0}],
          refs    : [Entry -> Nat],
          inCache : [Entry -> BOOLEAN],
          next    : [Node -> Node \cup {NoEntry}],
          prev    : [Node -> Node \cup {NoEntry}],
          table   : [Key -> Entry \cup {NoEntry}],
          usage   : Int]

\* The entries that are allocated, and those of each list.
Live(s) == {e \in Entry : s.refs[e] > 0}
Unused(s) == {e \in Entry : s.inCache[e] /\ s.refs[e] = 1}
Used(s) == {e \in Entry : s.inCache[e] /\ s.refs[e] >= 2}

-----------------------------------------------------------------------------
(* The private methods, as functions of the shard they are called on.      *)

LRU_Remove(s, e) ==
  [s EXCEPT !.prev[s.next[e]] = s.prev[e],
            !.next[s.prev[e]] = s.next[e]]

\* Mistake: the entry is linked in as the oldest instead of the newest.
LRU_AppendOldest(s, list, e) ==
  [s EXCEPT !.prev[e] = list,
            !.next[e] = s.next[list],
            !.prev[s.next[list]] = e,
            !.next[list] = e]

LRU_Append(s, list, e) ==
  [s EXCEPT !.next[e] = list,
            !.prev[e] = s.prev[list],
            !.next[s.prev[list]] = e,
            !.prev[list] = e]

\* Mistake: an idle entry is not moved to in_use_ when it is handed out.
RefInPlace(s, e) == [s EXCEPT !.refs[e] = @ + 1]

Ref(s, e) ==
  LET moved == IF s.refs[e] = 1 /\ s.inCache[e]
               THEN LRU_Append(LRU_Remove(s, e), InUse, e)
               ELSE s
  IN  [moved EXCEPT !.refs[e] = @ + 1]

\* deleter, then free: nothing may read the memory of e again.
Freed(s, e) ==
  [s EXCEPT !.key[e] = NoEntry, !.charge[e] = 0,
            !.next[e] = NoEntry, !.prev[e] = NoEntry]

Unref(s, e) ==
  LET less == [s EXCEPT !.refs[e] = @ - 1]
  IN  IF less.refs[e] = 0
      THEN Freed(less, e)
      ELSE IF less.inCache[e] /\ less.refs[e] = 1
           THEN LRU_Append(LRU_Remove(less, e), Lru, e)
           ELSE less

\* Mistakes: in_cache stays set, or the charge is not given back.
FinishEraseStillCached(s, e) ==
  IF e = NoEntry
  THEN s
  ELSE Unref([LRU_Remove(s, e) EXCEPT !.usage = @ - s.charge[e]], e)

FinishEraseKeepsCharge(s, e) ==
  IF e = NoEntry
  THEN s
  ELSE Unref([LRU_Remove(s, e) EXCEPT !.inCache[e] = FALSE], e)

FinishErase(s, e) ==
  IF e = NoEntry
  THEN s
  ELSE LET out == [LRU_Remove(s, e) EXCEPT !.inCache[e] = FALSE,
                                           !.usage = @ - s.charge[e]]
       IN  Unref(out, e)

\* Mistake: the entry is looked up but left in the table.
EraseKeyInTable(s, k) == FinishErase(s, s.table[k])

\* FinishErase(table_.Remove(k)): it erases whatever entry the table gives up.
EraseKey(s, k) == FinishErase([s EXCEPT !.table[k] = NoEntry], s.table[k])

\* The fields of a fresh entry, with the reference its client gets.
Malloced(s, e, k, c) ==
  [s EXCEPT !.key[e] = k, !.charge[e] = c, !.refs[e] = 1]

\* Mistake: no reference is taken for the cache.
CachedWithoutRef(s, e, k, c) ==
  LET linked == [LRU_Append(s, InUse, e) EXCEPT !.inCache[e] = TRUE,
                                                !.usage = @ + c,
                                                !.table[k] = e]
  IN  FinishErase(linked, s.table[k])

\* Insert's e->refs++ to FinishErase(table_.Insert(e)).
Cached(s, e, k, c) ==
  LET linked == [LRU_Append(s, InUse, e) EXCEPT !.refs[e] = @ + 1,
                                                !.inCache[e] = TRUE,
                                                !.usage = @ + c,
                                                !.table[k] = e]
  IN  FinishErase(linked, s.table[k])

\* The condition of Insert's eviction loop, and of Prune's.
Evictable(s) == s.next[Lru] # Lru
OverFull(s) == s.usage > config.capacity /\ Evictable(s)

-----------------------------------------------------------------------------
Init ==
  /\ shard = [key     |-> [e \in Entry |-> NoEntry],
              charge  |-> [e \in Entry |-> 0],
              refs    |-> [e \in Entry |-> 0],
              inCache |-> [e \in Entry |-> FALSE],
              next    |-> [n \in Node |-> IF n \in Entry THEN NoEntry ELSE n],
              prev    |-> [n \in Node |-> IF n \in Entry THEN NoEntry ELSE n],
              table   |-> [k \in Key |-> NoEntry],
              usage   |-> 0]
  /\ config \in [capacity : {0}, buckets : Buckets]
  /\ held = [e \in Entry |-> 0]
  /\ mode = "new"
  /\ cursor = Lru

\* The owner of the shards calls SetCapacity on each before anything else.
SetCapacity(c) ==
  /\ mode = "new"
  /\ config' = [config EXCEPT !.capacity = c]
  /\ mode' = "open"
  /\ UNCHANGED <<shard, held, cursor>>

\* The process reads through a null pointer and is gone.
Segfault ==
  /\ mode' = "segfault"
  /\ UNCHANGED <<shard, config, held, cursor>>

TableWorks == config.buckets # "null"

\* FindPointer reads start->next_hash through the null pointer in the bucket.
NullBucket == ~TableWorks /\ Segfault

\* A new key makes the elements of the table more than its buckets, and Resize
\* reads ptr->next through the null pointer of a bucket it has just made.
Outgrown(k) ==
  /\ config.buckets = "heads"
  /\ shard.table[k] = NoEntry
  /\ Cardinality({j \in Key : shard.table[j] # NoEntry}) >= Length

NullResize(k) == Outgrown(k) /\ Segfault

\* With capacity 0 the entry is only handed out; otherwise it replaces the
\* entry of its key, and the eviction loop starts when the shard is too full.
InsertUncached(k, c, e) ==
  /\ config.capacity = 0
  /\ shard' = Malloced(shard, e, k, c)
  /\ held' = [held EXCEPT ![e] = 1]
  /\ UNCHANGED <<config, mode, cursor>>

InsertCached(k, c, e) ==
  /\ config.capacity > 0 /\ TableWorks /\ ~Outgrown(k)
  /\ shard' = Cached(Malloced(shard, e, k, c), e, k, c)
  /\ held' = [held EXCEPT ![e] = 1]
  /\ mode' = IF OverFull(shard') THEN "evict" ELSE "open"
  /\ UNCHANGED <<config, cursor>>

Insert(k, c) ==
  /\ mode = "open"
  /\ \/ config.capacity > 0 /\ (NullBucket \/ NullResize(k))
     \/ \E e \in Entry \ Live(shard) :
          InsertUncached(k, c, e) \/ InsertCached(k, c, e)

\* Mistake: the table does not find the entry, and the round erases nothing.
EvictMiss ==
  /\ mode = "evict"
  /\ shard' = FinishErase(shard, NoEntry)
  /\ mode' = IF OverFull(shard') THEN "evict" ELSE "open"
  /\ UNCHANGED <<config, held, cursor>>

\* One round of the loop of Insert: the least recently used entry goes.
Evict ==
  /\ mode = "evict"
  /\ shard' = EraseKey(shard, shard.key[shard.next[Lru]])
  /\ mode' = IF OverFull(shard') THEN "evict" ELSE "open"
  /\ UNCHANGED <<config, held, cursor>>

\* A miss returns nullptr and changes nothing.
Lookup(k) ==
  /\ mode = "open"
  /\ \/ NullBucket
     \/ /\ TableWorks
        /\ shard.table[k] # NoEntry
        /\ held[shard.table[k]] < MaxPins
        /\ shard' = Ref(shard, shard.table[k])
        /\ held' = [held EXCEPT ![shard.table[k]] = @ + 1]
        /\ UNCHANGED <<config, mode, cursor>>

Release(e) ==
  /\ mode = "open"
  /\ held[e] > 0
  /\ shard' = Unref(shard, e)
  /\ held' = [held EXCEPT ![e] = @ - 1]
  /\ UNCHANGED <<config, mode, cursor>>

Erase(k) ==
  /\ mode = "open"
  /\ \/ NullBucket
     \/ /\ TableWorks
        /\ shard' = EraseKey(shard, k)
        /\ UNCHANGED <<config, held, mode, cursor>>

Prune ==
  /\ mode = "open" /\ Evictable(shard)
  /\ mode' = "prune"
  /\ UNCHANGED <<shard, config, held, cursor>>

PruneOne ==
  /\ mode = "prune"
  /\ shard' = EraseKey(shard, shard.key[shard.next[Lru]])
  /\ mode' = IF Evictable(shard') THEN "prune" ELSE "open"
  /\ UNCHANGED <<config, held, cursor>>

\* ~LRUCache stops on its assertion when in_use_ is not empty.
Destroy ==
  /\ mode = "open"
  /\ cursor' = shard.next[Lru]
  /\ mode' = CASE shard.next[InUse] # InUse -> "assert failed"
               [] shard.next[InUse] = InUse /\ ~Evictable(shard) -> "destroyed"
               [] OTHER -> "destroy"
  /\ UNCHANGED <<shard, config, held>>

\* Mistake: the cache's reference is not given up.
DestroyOneLeaks ==
  /\ mode = "destroy"
  /\ cursor' = shard.next[cursor]
  /\ shard' = [shard EXCEPT !.inCache[cursor] = FALSE]
  /\ mode' = IF cursor' = Lru THEN "destroyed" ELSE "destroy"
  /\ UNCHANGED <<config, held>>

DestroyOne ==
  /\ mode = "destroy"
  /\ cursor' = shard.next[cursor]
  /\ shard' = Unref([shard EXCEPT !.inCache[cursor] = FALSE], cursor)
  /\ mode' = IF cursor' = Lru THEN "destroyed" ELSE "destroy"
  /\ UNCHANGED <<config, held>>

Next ==
  \/ \E c \in Capacities : SetCapacity(c)
  \/ \E k \in Key : Lookup(k) \/ Erase(k)
  \/ \E k \in Key, c \in Charge : Insert(k, c)
  \/ \E e \in Entry : Release(e)
  \/ Evict \/ Prune \/ PruneOne \/ Destroy \/ DestroyOne

Spec == Init /\ [][Next]_vars

\* A loop the program has entered keeps running: nothing in it waits.
FairSpec == Spec /\ WF_vars(Evict) /\ WF_vars(PruneOne) /\ WF_vars(DestroyOne)

-----------------------------------------------------------------------------
\* Every variable stays in its domain; in particular no count goes below 0.
TypeOK ==
  /\ shard \in Shard
  /\ config \in [capacity : Capacities \cup {0}, buckets : Buckets]
  /\ held \in [Entry -> Nat]
  /\ mode \in {"new", "open", "evict", "prune", "destroy", "destroyed",
              "assert failed", "segfault"}
  /\ cursor \in Node

\* The count of an entry is the number of handles clients have to it, plus one
\* for the cache while it is cached: an entry is freed exactly when the last
\* of them lets go, whatever the order of releases, erasures and evictions.
CountsMatch(s, h) ==
  \A e \in Entry : s.refs[e] = h[e] + (IF s.inCache[e] THEN 1 ELSE 0)

RefsAccountForHolders == CountsMatch(shard, held)

\* No nodes of S lead only to each other.
NoCircle(next, S) ==
  \A T \in SUBSET S : (\A n \in T : next[n] \in T) => T = {}

\* The head h and the nodes S are one ring: they are linked to each other and to
\* no other node, the links back are the inverse of the links forward, and from
\* every node the links lead to the head.
Ring(s, h, S) ==
  /\ \A n \in S \cup {h} :
       /\ s.next[n] \in S \cup {h} /\ s.prev[s.next[n]] = n
       /\ s.prev[n] \in S \cup {h} /\ s.next[s.prev[n]] = n
  /\ NoCircle(s.next, S)

Ending == mode \in {"destroy", "destroyed"}

\* The comments on lru_ and in_use_: an entry is linked behind lru_ when it is
\* cached with one reference and behind in_use_ when it is cached with more,
\* and no link leads to an entry that is erased or freed.
ListsMatch(s) == Ring(s, Lru, Unused(s)) /\ Ring(s, InUse, Used(s))

ListsHoldTheCache == ~Ending => ListsMatch(shard)

\* The hash table finds exactly the cached entries, each under its own key: no
\* cached entry is lost to Lookup, and Lookup never returns a dead one.
TableMatches(s) ==
  /\ \A k \in Key : s.table[k] # NoEntry =>
       s.inCache[s.table[k]] /\ s.key[s.table[k]] = k
  /\ \A e \in Entry : s.inCache[e] =>
       s.key[e] \in Key /\ s.table[s.key[e]] = e

TableMatchesCache == ~Ending => TableMatches(shard)

\* usage_ is the total charge of the cached entries, so that Insert evicts when
\* and only when they exceed the capacity: nothing is counted twice or leaks
\* when an entry is replaced, erased or evicted, held or not.
UsageIsTotalCharge ==
  ~Ending =>
    shard.usage = MapThenSumSet(LAMBDA e : shard.charge[e],
                                {e \in Entry : shard.inCache[e]})

\* With the destructor done, no entry is left allocated but those that clients
\* still hold.
DestructorFreesTheCache ==
  mode = "destroyed" => Live(shard) = {e \in Entry : held[e] > 0}

\* Insert, Prune and ~LRUCache never loop forever: each round takes an entry
\* out of lru_.
LoopsEnd ==
  \A loop \in {"evict", "prune", "destroy"} : mode = loop ~> mode # loop

-----------------------------------------------------------------------------
(* The refinement of PinnedCache: the table is the map, the handles of the  *)
(* clients are the pins, and the idle queue is read off the links from      *)
(* lru_, or from the cursor once ~LRUCache has started.                     *)

\* What a key finds, until ~LRUCache has taken it out of the cache.
Findable(s) ==
  [k \in Key |-> IF s.table[k] # NoEntry /\ s.inCache[s.table[k]]
                 THEN s.table[k]
                 ELSE NoEntry]

\* The links lead from first through the nodes of q to lru_.
NodeAt(q, i) == IF i <= Len(q) THEN q[i] ELSE Lru

Leads(next, first, q) ==
  /\ NodeAt(q, 1) = first
  /\ \A i \in 1..Len(q) : next[q[i]] = NodeAt(q, i + 1)

\* The nodes of S in the order of the links, which start at first.
Follow(next, first, S) ==
  CHOOSE q \in [1..Cardinality(S) -> S] : Leads(next, first, q)

IdleQueue ==
  Follow(shard.next, IF Ending THEN cursor ELSE shard.next[Lru], Unused(shard))

Abstract == INSTANCE PinnedCache WITH
  cached <- Findable(shard), pins <- held, idle <- IdleQueue, alive <- Live(shard)

\* The cache is a PinnedCache: the pointer lists implement the idle queue, the
\* counts keep alive exactly what is needed, evictions come in idle order.
ImplementsPinnedCache == Abstract!Spec

=============================================================================
