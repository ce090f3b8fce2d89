--------------------------- MODULE MemTableProofs ---------------------------
(***************************************************************************)
(* Proofs about what a MemTable is made of.                                *)
(*                                                                         *)
(* SkipList: types, the place of level, and what a search ends at.  The    *)
(* lists are described without following them.  The nodes have one order   *)
(* for all levels: by key, and among equal keys the newest first.  A link  *)
(* leads to a node behind its own and passes no node of its level.         *)
(*                                                                         *)
(* Arena, at the end: for every block size, alignment and size of request, *)
(* no two pieces of memory it hands out overlap, and aligned ones have     *)
(* room to be moved to a word boundary.                                    *)
(***************************************************************************)
EXTENDS SkipList, Arena, TLAPS, WellFoundedInduction, FiniteSetTheorems

\* Where the list of level i can be entered, or goes on from.
Places(i) == Linked(i) \cup {head}

\* age tells the nodes with the same key apart: the newest is first.
Earlier(age, m, n) ==
  /\ n # head
  /\ \/ m = head
     \/ m # head /\ key[m] < key[n]
     \/ m # head /\ key[m] = key[n] /\ age[n] < age[m]

\* age numbers the nodes in the order in which they were made, up to the one
\* that an insert is about to link.
Ages(age, made) ==
  /\ \A n \in Allocated : age[n] < made
  /\ \A m, n \in Allocated : age[m] = age[n] => m = n
  /\ writer.node # Null => \A n \in Allocated : age[n] <= age[writer.node]

LinksAscend(age) ==
  \A i \in Slot : \A m \in Places(i) :
    forward[m][i] # Null => /\ forward[m][i] \in Linked(i)
                            /\ Earlier(age, m, forward[m][i])

NoneIsPassed(age) ==
  \A i \in Slot : \A m \in Places(i), n \in Linked(i) :
    Earlier(age, m, n) => /\ forward[m][i] # Null
                          /\ forward[m][i] = n \/ Earlier(age, forward[m][i], n)

ListsInOrder ==
  \E age \in [Node -> Nat], made \in Nat :
    Ages(age, made) /\ LinksAscend(age) /\ NoneIsPassed(age)

Precedes(n, k) == n = head \/ key[n] < k

\* update has the last place of level j before the key of the writer.
UpdateFits(j) ==
  LET next == forward[writer.update[j]][j]
  IN  /\ writer.update[j] \in Places(j)
      /\ Precedes(writer.update[j], writer.key)
      /\ next # Null => writer.key <= key[next]

WriterSearches ==
  writer.pc \in {"insert", "remove"} =>
    /\ writer.node = Null /\ writer.key \in Key
    /\ level < MaxLevel /\ writer.i <= level
    /\ Precedes(writer.current, writer.key)
    /\ writer.i >= 0 => writer.current \in Places(writer.i)
    /\ writer.i < 0 => writer.current = writer.update[0]
    /\ \A j \in Slot : writer.i < j /\ j <= level => UpdateFits(j)

WriterLinks ==
  writer.pc \in {"set", "link"} =>
    /\ writer.node \in Allocated /\ key[writer.node] = writer.key
    /\ height[writer.node] <= level
    /\ writer.i \in 0..(height[writer.node] - 1)
    /\ \A j \in Slot : writer.i <= j /\ j < height[writer.node] => UpdateFits(j)
    /\ writer.pc = "link" =>
         forward[writer.node][writer.i] = forward[writer.update[writer.i]][writer.i]

WriterRests == writer.pc \in {"idle", "undefined"} => writer.node = Null

ReaderIsBefore ==
  reader.pc \in {"test", "compare", "move", "last"} =>
    /\ reader.i \in Slot /\ reader.key \in Key
    /\ reader.current \in Places(reader.i) /\ Precedes(reader.current, reader.key)
    /\ reader.present => \E n \in Linked(0) : key[n] = reader.key
    /\ reader.pc = "move" => Loaded # Null /\ key[Loaded] < reader.key
    /\ reader.pc = "last" =>
         /\ reader.i = 0
         /\ reader.alone => Loaded = Null \/ reader.key <= key[Loaded]

ReaderIsDone ==
  reader.pc = "done" /\ reader.present =>
    /\ reader.current \in Allocated /\ key[reader.current] <= reader.key
    /\ reader.alone => key[reader.current] = reader.key

ReadersStayAway == writer.pc = "remove" => reader.pc = "idle"

IInv ==
  /\ TypeOK /\ ListsInOrder /\ LevelFitsTheList
  /\ WriterSearches /\ WriterLinks /\ WriterRests
  /\ ReaderIsBefore /\ ReaderIsDone /\ ReadersStayAway

-----------------------------------------------------------------------------
(* Facts about one state.                                                  *)

LEMMA SlotFacts ==
  /\ 0 \in Slot /\ MaxLevel \in Nat /\ MaxLevel >= 1
  /\ \A i \in Slot : i \in Nat /\ i < MaxLevel
  /\ \A i \in Int : 0 <= i /\ i < MaxLevel => i \in Slot
BY SkipListAssumption DEF Slot

LEMMA NodeFacts ==
  ASSUME TypeOK
  PROVE  /\ \A n \in Allocated : /\ n \in Node /\ n # Null /\ n # head
                                 /\ key[n] \in Key /\ key[n] \in Nat
         /\ \A i \in Slot : \A n \in Linked(i) :
              n \in Allocated /\ height[n] \in 0..MaxLevel /\ i < height[n]
         /\ \A i \in Slot, m \in Node \cup {head} :
              /\ forward[m][i] \in Link
              /\ forward[m][i] # Null => forward[m][i] \in Node
         /\ level \in Nat /\ level <= MaxLevel
<1>1. \A n \in Allocated : /\ n \in Node /\ n # Null /\ n # head
                           /\ key[n] \in Key /\ key[n] \in Nat
  BY SkipListAssumption DEF TypeOK, Allocated
<1>2. \A n \in Node : height[n] \in 0..MaxLevel
  BY DEF TypeOK
<1>3. \A i \in Slot : \A n \in Linked(i) : n \in Allocated /\ i < height[n]
  BY DEF Linked
<1>4. \A i \in Slot, m \in Node \cup {head} : forward[m][i] \in Link
  BY DEF TypeOK
<1>5. level \in Nat /\ level <= MaxLevel
  BY SlotFacts DEF TypeOK
<1> QED BY <1>1, <1>2, <1>3, <1>4, <1>5 DEF Link

\* Before and behind: a strict order on the nodes and head.
LEMMA EarlierIsAnOrder ==
  ASSUME TypeOK, NEW age \in [Node -> Nat], NEW made \in Nat, Ages(age, made)
  PROVE  \A m, n \in Allocated \cup {head} :
           /\ ~Earlier(age, m, m)
           /\ m # n => Earlier(age, m, n) \/ Earlier(age, n, m)
           /\ \A p \in Allocated \cup {head} :
                Earlier(age, m, n) /\ Earlier(age, n, p) => Earlier(age, m, p)
<1>1. \A n \in Allocated : n \in Node /\ n # head /\ key[n] \in Nat /\ age[n] \in Nat
  BY NodeFacts
<1>2. \A m, n \in Allocated : age[m] = age[n] => m = n
  BY DEF Ages
<1> QED BY <1>1, <1>2 DEF Earlier

\* Nothing links a node that has no links to give.
LEMMA LinkedWithoutNode ==
  ASSUME TypeOK, writer.node = Null
  PROVE  \A i \in Slot : Linked(i) = {n \in Allocated : i < height[n]}
BY NodeFacts DEF Linked

-----------------------------------------------------------------------------
(* Steps that leave the lists as they are.                                 *)

ListsStay ==
  /\ \A i \in Slot : Linked(i)' = Linked(i)
  /\ \A i \in Slot : \A m \in Places(i) : forward'[m][i] = forward[m][i]
  /\ \A n \in Allocated : key'[n] = key[n]

\* A node that is made meanwhile is the newest.
LEMMA ListsStayInOrder ==
  ASSUME IInv, ListsStay, NEW x \in Link, x \notin Allocated, Allocated' \subseteq Allocated \cup {x},
         \/ writer'.node \in {Null, x}
         \/ writer'.node = writer.node /\ x \notin Allocated'
  PROVE  ListsInOrder'
<1>1. PICK age \in [Node -> Nat], made \in Nat :
        Ages(age, made) /\ LinksAscend(age) /\ NoneIsPassed(age)
  BY DEF IInv, ListsInOrder
<1> DEFINE now == [n \in Node |-> IF n = x THEN made ELSE age[n]]
<1>2. \A n \in Allocated : n \in Node /\ n # head /\ n # Null /\ now[n] = age[n]
  BY NodeFacts DEF IInv
<1>3. now \in [Node -> Nat] /\ (x \in Node => now[x] = made) /\ made + 1 \in Nat
  OBVIOUS
<1>4. Allocated' \subseteq Node
  BY DEF Allocated
<1> HIDE DEF now
<1>5. \A m, n \in Allocated \cup {head} : Earlier(now, m, n)' = Earlier(age, m, n)
  BY <1>2 DEF ListsStay, Earlier
<1>6. \A i \in Slot : /\ Places(i)' = Places(i) /\ Linked(i)' = Linked(i)
                      /\ Linked(i) \subseteq Allocated /\ Places(i) \subseteq Allocated \cup {head}
  BY NodeFacts DEF IInv, ListsStay, Places
<1>7. Ages(now, made + 1)'
  <2>1. \A n \in Allocated' : n \in Allocated \/ (n = x /\ now[n] = made)
    BY <1>3, <1>4
  <2>2. \A n \in Allocated : age[n] < made /\ age[n] \in Nat
    BY <1>1, <1>2 DEF Ages
  <2>3. /\ \A n \in Allocated' : now[n] < made + 1
        /\ \A m, n \in Allocated' : now[m] = now[n] => m = n
    BY <1>1, <1>2, <2>1, <2>2 DEF Ages
  <2>4. ASSUME writer'.node # Null, NEW n \in Allocated'
        PROVE  now[n] <= now[writer'.node]
    <3>1. CASE writer'.node = x
      BY <3>1, <1>2, <1>3, <2>1, <2>2, <2>4 DEF Link
    <3>2. CASE writer'.node = writer.node /\ x \notin Allocated'
      <4>1. writer.node \in Allocated
        BY <3>2, <2>4 DEF IInv, TypeOK, WriterSearches, WriterLinks, WriterRests
      <4> QED BY <3>2, <4>1, <1>1, <1>2, <2>1, <2>4 DEF Ages
    <3> QED BY <3>1, <3>2, <2>4
  <2> QED BY <1>3, <2>3, <2>4 DEF Ages
<1>8. LinksAscend(now)'
  <2> SUFFICES ASSUME NEW i \in Slot, NEW m \in Places(i), NEW next,
                      next = forward[m][i], next # Null
               PROVE  next \in Linked(i) /\ Earlier(now, m, next)'
    BY <1>6 DEF LinksAscend, ListsStay
  <2> QED BY <1>1, <1>5, <1>6 DEF LinksAscend
<1>9. NoneIsPassed(now)'
  <2> SUFFICES ASSUME NEW i \in Slot, NEW m \in Places(i), NEW n \in Linked(i),
                      NEW next, next = forward[m][i], Earlier(now, m, n)'
               PROVE  next # Null /\ (next = n \/ Earlier(now, next, n)')
    BY <1>6 DEF NoneIsPassed, ListsStay
  <2>1. Earlier(age, m, n)
    BY <1>5, <1>6
  <2>2. next # Null /\ (next = n \/ Earlier(age, next, n))
    BY <1>1, <2>1 DEF NoneIsPassed
  <2>3. next \in Linked(i)
    BY <1>1, <2>2 DEF LinksAscend
  <2> QED BY <1>5, <1>6, <2>2, <2>3
<1> QED BY <1>3, <1>7, <1>8, <1>9 DEF ListsInOrder

\* The places an insert has found are still right.
LEMMA UpdateStaysFit ==
  ASSUME IInv, ListsStay, NEW j \in Slot, UpdateFits(j),
         writer'.update[j] = writer.update[j], writer'.key = writer.key
  PROVE  UpdateFits(j)'
<1> DEFINE u == writer.update[j]
           next == forward[u][j]
<1>1. u \in Places(j) /\ Precedes(u, writer.key) /\ (next # Null => writer.key <= key[next])
  BY DEF UpdateFits
<1>2. next # Null => next \in Allocated
  BY <1>1, NodeFacts DEF IInv, ListsInOrder, LinksAscend
<1>3. u = head \/ u \in Allocated
  BY <1>1, NodeFacts DEF IInv, Places
<1>4. u \in Places(j)' /\ forward'[u][j] = next
  BY <1>1 DEF ListsStay, Places
<1> QED BY <1>1, <1>2, <1>3, <1>4 DEF UpdateFits, ListsStay, Precedes

\* A reader is as far as it was.
LEMMA ReaderStays ==
  ASSUME IInv, ListsStay, reader' = reader
  PROVE  ReaderIsBefore' /\ ReaderIsDone'
<1>1. \A i \in Slot : Places(i)' = Places(i) /\ Linked(i) \subseteq Allocated
  BY NodeFacts DEF IInv, ListsStay, Places
<1>2. \A n \in Allocated : n \in Allocated' /\ key'[n] = key[n]
  BY DEF ListsStay, Allocated
<1>3. ReaderIsDone'
  BY <1>2 DEF IInv, ReaderIsDone
<1>4. ASSUME reader.pc \in {"test", "compare", "move", "last"}
      PROVE  ReaderIsBefore'
  <2>1. /\ reader.i \in Slot /\ reader.current \in Places(reader.i)
        /\ Precedes(reader.current, reader.key) /\ 0 \in Slot
        /\ reader.present => \E n \in Linked(0) : key[n] = reader.key
    BY <1>4, SlotFacts DEF IInv, ReaderIsBefore
  <2>2. Loaded' = Loaded /\ Linked(0)' = Linked(0)
    BY <2>1 DEF Loaded, ListsStay
  <2>3. Loaded # Null => Loaded \in Allocated
    BY <2>1, <1>1 DEF IInv, ListsInOrder, LinksAscend, Loaded
  <2>4. reader.current = head \/ reader.current \in Allocated
    BY <1>1, <2>1 DEF Places
  <2>5. Precedes(reader.current, reader.key)'
    BY <1>2, <2>1, <2>4 DEF Precedes
  <2>6. reader.present => \E n \in Linked(0)' : key'[n] = reader.key
    BY <1>1, <1>2, <2>1, <2>2
  <2>7. /\ reader.pc = "move" => Loaded' # Null /\ key'[Loaded'] < reader.key
        /\ reader.pc = "last" => (reader.alone => Loaded' = Null \/ reader.key <= key'[Loaded'])
    BY <1>2, <1>4, <2>2, <2>3 DEF IInv, ReaderIsBefore
  <2>8. reader.current \in Places(reader.i)'
    BY <1>1, <2>1
  <2> QED BY <1>4, <2>1, <2>5, <2>6, <2>7, <2>8 DEF IInv, ReaderIsBefore
<1> QED BY <1>3, <1>4 DEF ReaderIsBefore

-----------------------------------------------------------------------------
(* The steps of a search.                                                  *)

LEMMA OnlyReaderMoves ==
  ASSUME IInv, UNCHANGED <<key, height, forward, level, writer>>
  PROVE  /\ ListsInOrder' /\ LevelFitsTheList'
         /\ WriterSearches' /\ WriterLinks' /\ WriterRests'
         /\ \A i : Linked(i)' = Linked(i)
<1>1. \A i : Linked(i)' = Linked(i)
  BY DEF Linked, Allocated
<1>2. ListsStay
  BY <1>1 DEF ListsStay
<1>3. \A j : UpdateFits(j)' = UpdateFits(j)
  BY <1>1 DEF UpdateFits, Places, Precedes
<1>4. LevelFitsTheList'
  BY DEF IInv, LevelFitsTheList, Allocated
<1>5. WriterSearches'
  BY <1>1, <1>3 DEF IInv, WriterSearches, Places, Precedes
<1>6. WriterLinks' /\ WriterRests'
  BY <1>3 DEF IInv, WriterLinks, WriterRests, Allocated
<1>7. ListsInOrder'
  <2>1. Null \notin Allocated /\ Allocated' = Allocated
    BY SkipListAssumption DEF Allocated
  <2> QED BY <1>2, <2>1, ListsStayInOrder DEF Link
<1> QED BY <1>1, <1>4, <1>5, <1>6, <1>7

LEMMA searchKeepsIInv ==
  ASSUME IInv, NEW k \in Key, search(k)
  PROVE  IInv'
<1>u. /\ UNCHANGED <<key, height, forward, level, writer>>
      /\ reader.pc = "idle" /\ writer.pc # "remove"
      /\ reader' = [pc |-> FirstPc("test"), key |-> k, current |-> head, i |-> level,
                    present |-> \E n \in Linked(0) : key[n] = k, alone |-> TRUE]
  BY DEF search, Resting
<1>l. level \in 0..MaxLevel /\ level \in Nat
  BY NodeFacts DEF IInv, TypeOK
<1>p. \/ level \in Slot /\ reader'.pc = "test"
      \/ reader'.pc = "undefined"
  BY <1>u, <1>l, SlotFacts DEF FirstPc
<1>1. TypeOK'
  BY <1>u, <1>l, <1>p DEF IInv, TypeOK
<1>2. ReaderIsBefore'
  BY <1>u, <1>p, OnlyReaderMoves DEF ReaderIsBefore, Places, Precedes
<1>3. ReaderIsDone' /\ ReadersStayAway'
  BY <1>u, <1>p DEF ReaderIsDone, ReadersStayAway
<1> QED BY <1>u, <1>1, <1>2, <1>3, OnlyReaderMoves DEF IInv

\* A level down, the place of a search is still a place and still before the key.
LEMMA NextLevelKeepsIInv ==
  ASSUME IInv, UNCHANGED <<key, height, forward, level, writer>>,
         reader.pc \in {"test", "compare"}, reader' = NextLevel,
         Loaded = Null \/ reader.key <= key[Loaded]
  PROVE  IInv'
<1>r. /\ reader.i \in Slot /\ reader.key \in Key
      /\ reader.current \in Places(reader.i) /\ Precedes(reader.current, reader.key)
      /\ reader.present => \E n \in Linked(0) : key[n] = reader.key
  BY DEF IInv, ReaderIsBefore
<1>i. reader.i \in Nat /\ reader.i < MaxLevel /\ MaxLevel \in Nat
  BY <1>r, SlotFacts
<1>u. /\ reader'.key = reader.key /\ reader'.current = reader.current
      /\ reader'.present = reader.present /\ reader'.alone = reader.alone
      /\ \/ reader.i > 0 /\ reader'.pc = "test" /\ reader'.i = reader.i - 1
         \/ reader.i = 0 /\ reader'.pc = "last" /\ reader'.i = 0
  BY <1>i DEF IInv, TypeOK, NextLevel
<1>n. reader'.i \in Slot /\ reader'.i <= reader.i /\ reader'.i \in Nat
  BY <1>u, <1>i, SlotFacts
<1>1. TypeOK'
  <2>1. reader'.i \in 0..MaxLevel
    BY <1>n, <1>i
  <2>2. reader' \in [pc : {"idle", "test", "compare", "move", "last", "done", "undefined"},
                     key : Key \cup {Null}, current : Node \cup {head, Null},
                     i : 0..MaxLevel, present : BOOLEAN, alone : BOOLEAN]
    BY <2>1, <1>i DEF IInv, TypeOK, NextLevel
  <2> QED BY <2>2 DEF IInv, TypeOK
<1>2. ASSUME NEW i \in Slot, i <= reader.i
      PROVE  reader.current \in Places(i)
  <2>1. CASE reader.current = head
    BY <2>1 DEF Places
  <2>2. CASE reader.current \in Linked(reader.i)
    <3>1. writer.node = reader.current => writer.i \in Int
      BY DEF IInv, TypeOK
    <3>2. height[reader.current] \in Int /\ i \in Int
      BY <2>2, <1>r, NodeFacts, SlotFacts DEF IInv
    <3> QED BY <2>2, <3>1, <3>2, <1>i, <1>2 DEF Linked, Places
  <2> QED BY <1>r, <2>1, <2>2 DEF Places
<1>3. reader'.pc = "last" => (reader'.alone => Loaded' = Null \/ reader'.key <= key'[Loaded'])
  BY <1>u DEF Loaded
<1>4. ReaderIsBefore'
  <2>1. /\ reader'.i \in Slot /\ reader'.key \in Key
        /\ reader'.present => \E n \in Linked(0)' : key'[n] = reader'.key
        /\ reader'.pc # "move" /\ (reader'.pc = "last" => reader'.i = 0)
    BY <1>u, <1>r, <1>n, OnlyReaderMoves
  <2>2. reader'.current \in Places(reader.i)'
    <3> DEFINE i == reader'.i
    <3>1. reader.current \in Places(i)
      BY <1>2, <1>n
    <3> QED BY <3>1, <1>u, OnlyReaderMoves DEF Places
  <2>3. Precedes(reader.current, reader.key)'
    BY <1>u, <1>r DEF Precedes
  <2> QED BY <1>3, <2>1, <2>2, <2>3 DEF ReaderIsBefore
<1>5. ReaderIsDone' /\ ReadersStayAway'
  BY <1>u DEF IInv, ReaderIsDone, ReadersStayAway
<1> QED BY <1>1, <1>4, <1>5, OnlyReaderMoves DEF IInv

LEMMA TestKeepsIInv ==
  ASSUME IInv, Test
  PROVE  IInv'
<1>u. UNCHANGED <<key, height, forward, level, writer>> /\ reader.pc = "test"
  BY DEF Test
<1>1. CASE Loaded = Null
  BY <1>1, <1>u, NextLevelKeepsIInv DEF Test
<1>2. CASE Loaded # Null
  <2>u. reader' = [reader EXCEPT !.pc = "compare"]
    BY <1>2 DEF Test
  <2>1. TypeOK'
    BY <1>u, <2>u DEF IInv, TypeOK
  <2>2. /\ reader'.pc = "compare" /\ reader'.key = reader.key
        /\ reader'.current = reader.current /\ reader'.i = reader.i
        /\ reader'.present = reader.present
    BY <2>u DEF IInv, TypeOK
  <2>3. ReaderIsBefore'
    BY <1>u, <2>2, OnlyReaderMoves DEF IInv, ReaderIsBefore, Places, Precedes
  <2>4. ReaderIsDone' /\ ReadersStayAway'
    BY <1>u, <2>2 DEF IInv, ReaderIsDone, ReadersStayAway
  <2> QED BY <1>u, <2>1, <2>3, <2>4, OnlyReaderMoves DEF IInv
<1> QED BY <1>1, <1>2

LEMMA CompareKeepsIInv ==
  ASSUME IInv, Compare
  PROVE  IInv'
<1>u. UNCHANGED <<key, height, forward, level, writer>> /\ reader.pc = "compare"
  BY DEF Compare
<1>1. CASE ~(Loaded # Null /\ key[Loaded] < reader.key)
  <2>1. Loaded = Null \/ reader.key <= key[Loaded]
    <3> SUFFICES ASSUME Loaded # Null, ~(key[Loaded] < reader.key)
                 PROVE  reader.key <= key[Loaded]
      BY <1>1
    <3>1. reader.i \in Slot /\ reader.key \in Key /\ reader.current \in Places(reader.i)
      BY <1>u DEF IInv, ReaderIsBefore
    <3>2. Loaded \in Allocated
      BY <3>1, NodeFacts DEF IInv, ListsInOrder, LinksAscend, Loaded
    <3>3. key[Loaded] \in Nat /\ reader.key \in Nat
      BY <3>1, <3>2, NodeFacts, SkipListAssumption DEF IInv
    <3> QED BY <3>3
  <2> QED BY <1>1, <1>u, <2>1, NextLevelKeepsIInv DEF Compare
<1>2. CASE Loaded # Null /\ key[Loaded] < reader.key
  <2>u. reader' = [reader EXCEPT !.pc = "move"]
    BY <1>2 DEF Compare
  <2>1. TypeOK'
    BY <1>u, <2>u DEF IInv, TypeOK
  <2>2. /\ reader'.pc = "move" /\ reader'.key = reader.key
        /\ reader'.current = reader.current /\ reader'.i = reader.i
        /\ reader'.present = reader.present
    BY <2>u DEF IInv, TypeOK
  <2>3. Loaded' = Loaded
    BY <1>u, <2>2 DEF Loaded
  <2>4. ReaderIsBefore'
    BY <1>u, <1>2, <2>2, <2>3, OnlyReaderMoves DEF IInv, ReaderIsBefore, Places, Precedes
  <2>5. ReaderIsDone' /\ ReadersStayAway'
    BY <1>u, <2>2 DEF IInv, ReaderIsDone, ReadersStayAway
  <2> QED BY <1>u, <2>1, <2>4, <2>5, OnlyReaderMoves DEF IInv
<1> QED BY <1>1, <1>2

LEMMA MoveKeepsIInv ==
  ASSUME IInv, Move
  PROVE  IInv'
<1>u. /\ UNCHANGED <<key, height, forward, level, writer>> /\ reader.pc = "move"
      /\ reader' = [reader EXCEPT !.pc = "test", !.current = Loaded]
  BY DEF Move
<1>1. /\ reader.i \in Slot /\ reader.current \in Places(reader.i)
      /\ Loaded # Null /\ key[Loaded] < reader.key
  BY <1>u DEF IInv, ReaderIsBefore
<1>2. Loaded \in Linked(reader.i)
  BY <1>1 DEF IInv, ListsInOrder, LinksAscend, Loaded
<1>3. Loaded \in Node
  BY <1>1, <1>2, NodeFacts DEF IInv
<1>4. TypeOK'
  BY <1>u, <1>3 DEF IInv, TypeOK
<1>5. /\ reader'.pc = "test" /\ reader'.key = reader.key
      /\ reader'.current = Loaded /\ reader'.i = reader.i
      /\ reader'.present = reader.present
  BY <1>u DEF IInv, TypeOK
<1>6. ReaderIsBefore'
  BY <1>u, <1>1, <1>2, <1>5, OnlyReaderMoves DEF IInv, ReaderIsBefore, Places, Precedes
<1>7. ReaderIsDone' /\ ReadersStayAway'
  BY <1>u, <1>5 DEF IInv, ReaderIsDone, ReadersStayAway
<1> QED BY <1>u, <1>4, <1>6, <1>7, OnlyReaderMoves DEF IInv

\* No node of the lowest list is passed: if one has the key, the link leads to
\* it or to a node before it.
LEMMA FinalKeepsIInv ==
  ASSUME IInv, Final
  PROVE  IInv'
<1>u. /\ UNCHANGED <<key, height, forward, level, writer>> /\ reader.pc = "last"
      /\ reader' = [reader EXCEPT !.pc = "done", !.current = Loaded]
  BY DEF Final
<1>1. /\ reader.i = 0 /\ 0 \in Slot /\ reader.current \in Places(0)
      /\ Precedes(reader.current, reader.key) /\ reader.key \in Key
      /\ reader.alone => Loaded = Null \/ reader.key <= key[Loaded]
      /\ reader.present => \E n \in Linked(0) : key[n] = reader.key
  BY <1>u DEF IInv, ReaderIsBefore
<1>2. Loaded \in Link
  <2>1. reader.current \in Node \cup {head}
    BY <1>1, NodeFacts DEF IInv, Places
  <2> QED BY <1>1, <2>1, NodeFacts DEF IInv, Loaded
<1>3. TypeOK'
  BY <1>u, <1>2 DEF IInv, TypeOK, Link
<1>4. /\ reader'.pc = "done" /\ reader'.key = reader.key
      /\ reader'.current = Loaded /\ reader'.i = reader.i
      /\ reader'.present = reader.present /\ reader'.alone = reader.alone
  BY <1>u DEF IInv, TypeOK
<1>5. ASSUME reader.present
      PROVE  Loaded \in Allocated /\ key[Loaded] <= reader.key
  <2>1. PICK n \in Linked(0) : key[n] = reader.key
    BY <1>1, <1>5
  <2>2. PICK age \in [Node -> Nat], made \in Nat : LinksAscend(age) /\ NoneIsPassed(age)
    BY DEF IInv, ListsInOrder
  <2>3. Earlier(age, reader.current, n)
    BY <1>1, <2>1, NodeFacts DEF IInv, Earlier, Precedes
  <2>4. Loaded # Null /\ (Loaded = n \/ Earlier(age, Loaded, n))
    BY <1>1, <2>1, <2>2, <2>3 DEF NoneIsPassed, Loaded
  <2>5. Loaded \in Linked(0)
    BY <1>1, <2>2, <2>4 DEF LinksAscend, Loaded
  <2>6. /\ Loaded \in Allocated /\ Loaded # head /\ key[Loaded] \in Nat /\ key[n] \in Nat
    BY <1>1, <2>1, <2>5, NodeFacts DEF IInv
  <2> QED BY <2>1, <2>4, <2>6 DEF Earlier
<1>6. ASSUME reader.present, reader.alone
      PROVE  key[Loaded] = reader.key
  <2>1. key[Loaded] \in Nat /\ reader.key \in Nat /\ Loaded # Null
    BY <1>1, <1>5, <1>6, NodeFacts, SkipListAssumption DEF IInv
  <2> QED BY <1>1, <1>5, <1>6, <2>1
<1>7. ReaderIsDone'
  BY <1>u, <1>4, <1>5, <1>6 DEF ReaderIsDone, Allocated
<1>8. ReaderIsBefore' /\ ReadersStayAway'
  BY <1>u, <1>4 DEF IInv, ReaderIsBefore, ReadersStayAway
<1> QED BY <1>u, <1>3, <1>7, <1>8, OnlyReaderMoves DEF IInv

LEMMA ReturnKeepsIInv ==
  ASSUME IInv, Return
  PROVE  IInv'
<1>u. UNCHANGED <<key, height, forward, level, writer>> /\ reader' = Resting
  BY DEF Return
<1>1. TypeOK'
  BY <1>u, SlotFacts DEF IInv, TypeOK, Resting
<1>2. ReaderIsBefore' /\ ReaderIsDone' /\ ReadersStayAway'
  BY <1>u DEF ReaderIsBefore, ReaderIsDone, ReadersStayAway, Resting
<1> QED BY <1>u, <1>1, <1>2, OnlyReaderMoves DEF IInv

-----------------------------------------------------------------------------
(* insert and remove until they have found the place of the key.           *)

LEMMA OnlyWriterMoves ==
  ASSUME IInv, UNCHANGED <<key, height, forward, level, reader>>,
         writer.node = Null, writer'.node = Null
  PROVE  /\ ListsStay /\ ListsInOrder' /\ LevelFitsTheList'
         /\ ReaderIsBefore' /\ ReaderIsDone'
         /\ \A i : Linked(i)' = Linked(i)
<1>1. Allocated' = Allocated /\ Null \notin Allocated
  BY SkipListAssumption DEF Allocated
<1>2. \A i : Linked(i)' = Linked(i)
  BY <1>1 DEF Linked
<1>3. ListsStay
  BY <1>2 DEF ListsStay
<1>4. LevelFitsTheList'
  BY <1>1 DEF IInv, LevelFitsTheList
<1>5. ListsInOrder'
  BY <1>1, <1>3, ListsStayInOrder DEF Link
<1> QED BY <1>2, <1>3, <1>4, <1>5, ReaderStays

LEMMA StartKeepsIInv ==
  ASSUME IInv, NEW k \in Key, NEW pc \in {"insert", "remove"}, Start(pc, k),
         pc = "remove" => reader.pc = "idle"
  PROVE  IInv'
<1>u. /\ UNCHANGED <<key, height, forward, level, reader>> /\ writer.pc = "idle"
      /\ writer' = [pc |-> FirstPc(pc), key |-> k, current |-> head, i |-> level,
                    update |-> [i \in Slot |-> Null], node |-> Null]
  BY DEF Start, Idle
<1>n. writer.node = Null /\ writer'.node = Null
  BY <1>u DEF IInv, WriterRests
<1>l. level \in 0..MaxLevel /\ level \in Nat
  BY NodeFacts DEF IInv, TypeOK
<1>p. \/ level < MaxLevel /\ writer'.pc = pc
      \/ writer'.pc = "undefined"
  BY <1>u DEF FirstPc
<1>1. TypeOK'
  <2>1. writer'.pc \in {"idle", "insert", "remove", "set", "link", "undefined"}
    BY <1>p
  <2>2. level \in -1..MaxLevel
    BY <1>l, SlotFacts
  <2>3. [i \in Slot |-> Null] \in [Slot -> Node \cup {head, Null}]
    OBVIOUS
  <2> QED BY <1>u, <2>1, <2>2, <2>3 DEF IInv, TypeOK, Link
<1>2. WriterSearches'
  <2>1. \A j \in Slot : ~(level < j /\ j <= level)
    BY <1>l, SlotFacts
  <2> QED BY <1>u, <1>l, <1>p, <2>1 DEF WriterSearches, Precedes, Places
<1>3. WriterLinks' /\ WriterRests'
  BY <1>u, <1>p DEF WriterLinks, WriterRests
<1>4. ReadersStayAway'
  BY <1>u, <1>p DEF ReadersStayAway
<1> QED BY <1>u, <1>n, <1>1, <1>2, <1>3, <1>4, OnlyWriterMoves DEF IInv

\* What a search of the writer knows in the middle of it.
LEMMA SearchingFacts ==
  ASSUME IInv, Searching
  PROVE  /\ writer.node = Null /\ writer.key \in Key /\ writer.key \in Nat
         /\ writer.i \in Slot /\ writer.i \in Nat /\ writer.i <= level
         /\ level < MaxLevel /\ level \in Nat
         /\ writer.current \in Places(writer.i) /\ Precedes(writer.current, writer.key)
         /\ writer.current \in Node \cup {head}
         /\ LET next == forward[writer.current][writer.i]
            IN  /\ next \in Link
                /\ next # Null => /\ next \in Linked(writer.i) /\ next \in Node
                                  /\ key[next] \in Nat
         /\ \A j \in Slot : writer.i < j /\ j <= level => UpdateFits(j)
<1>1. /\ writer.node = Null /\ writer.key \in Key /\ writer.i <= level
      /\ level < MaxLevel /\ level \in Nat /\ writer.i >= 0 /\ writer.i \in Int
      /\ writer.current \in Places(writer.i) /\ Precedes(writer.current, writer.key)
      /\ \A j \in Slot : writer.i < j /\ j <= level => UpdateFits(j)
  BY NodeFacts DEF IInv, TypeOK, WriterSearches, Searching
<1>2. writer.i \in Slot /\ writer.i \in Nat
  BY <1>1, SlotFacts
<1>3. writer.key \in Nat
  BY <1>1, SkipListAssumption
<1>4. writer.current \in Node \cup {head}
  BY DEF IInv, TypeOK
<1>5. forward[writer.current][writer.i] \in Link
  BY <1>2, <1>4, NodeFacts DEF IInv
<1>6. forward[writer.current][writer.i] # Null =>
        forward[writer.current][writer.i] \in Linked(writer.i)
  BY <1>1, <1>2 DEF IInv, ListsInOrder, LinksAscend
<1> QED BY <1>1, <1>2, <1>3, <1>4, <1>5, <1>6, NodeFacts DEF IInv

LEMMA ForwardKeepsIInv ==
  ASSUME IInv, Forward
  PROVE  IInv'
<1> DEFINE next == forward[writer.current][writer.i]
<1>u. /\ Searching /\ next # Null /\ key[next] < writer.key
      /\ writer' = [writer EXCEPT !.current = next]
      /\ UNCHANGED <<key, height, forward, level, reader>>
  BY DEF Forward, Before
<1>f. /\ next \in Linked(writer.i) /\ next \in Node /\ writer.node = Null
      /\ writer.i \in Nat
      /\ \A j \in Slot : writer.i < j /\ j <= level => UpdateFits(j)
  BY <1>u, SearchingFacts
<1> HIDE DEF next
<1>1. TypeOK'
  BY <1>u, <1>f DEF IInv, TypeOK
<1>w. /\ writer'.pc = writer.pc /\ writer'.key = writer.key /\ writer'.i = writer.i
      /\ writer'.update = writer.update /\ writer'.node = Null /\ writer'.current = next
  BY <1>u, <1>f DEF IInv, TypeOK
<1>2. /\ ListsStay /\ ListsInOrder' /\ LevelFitsTheList'
      /\ ReaderIsBefore' /\ ReaderIsDone' /\ \A i : Linked(i)' = Linked(i)
  BY <1>u, <1>f, <1>w, OnlyWriterMoves
<1>3. WriterSearches'
  <2>1. \A j \in Slot : writer.i < j /\ j <= level => UpdateFits(j)'
    BY <1>f, <1>w, <1>2, UpdateStaysFit
  <2> QED BY <1>u, <1>f, <1>w, <1>2, <2>1
          DEF IInv, WriterSearches, Places, Precedes
<1>4. WriterLinks' /\ WriterRests' /\ ReadersStayAway'
  BY <1>u, <1>w DEF IInv, WriterLinks, WriterRests, ReadersStayAway, Searching
<1> QED BY <1>1, <1>2, <1>3, <1>4 DEF IInv

LEMMA DownKeepsIInv ==
  ASSUME IInv, Down
  PROVE  IInv'
<1> DEFINE next == forward[writer.current][writer.i]
<1>u. /\ Searching /\ ~(next # Null /\ key[next] < writer.key)
      /\ writer' = [writer EXCEPT !.update[writer.i] = writer.current, !.i = writer.i - 1]
      /\ UNCHANGED <<key, height, forward, level, reader>>
  BY DEF Down, Before
<1>f. /\ writer.node = Null /\ writer.key \in Key /\ writer.key \in Nat
      /\ writer.i \in Slot /\ writer.i \in Nat /\ writer.i <= level
      /\ level < MaxLevel /\ level \in Nat
      /\ writer.current \in Places(writer.i) /\ Precedes(writer.current, writer.key)
      /\ writer.current \in Node \cup {head}
      /\ next # Null => key[next] \in Nat
      /\ \A j \in Slot : writer.i < j /\ j <= level => UpdateFits(j)
  BY <1>u, SearchingFacts
<1>k. next # Null => writer.key <= key[next]
  BY <1>u, <1>f
<1>t. /\ writer.update \in [Slot -> Node \cup {head, Null}]
      /\ writer \in [pc : {"idle", "insert", "remove", "set", "link", "undefined"},
                     key : Key \cup {Null}, current : Node \cup {head}, i : -1..MaxLevel,
                     update : [Slot -> Node \cup {head, Null}], node : Link]
  BY DEF IInv, TypeOK
<1>i. writer.i - 1 \in -1..MaxLevel
  BY <1>f, SlotFacts
<1>w. /\ writer'.pc = writer.pc /\ writer'.key = writer.key /\ writer'.i = writer.i - 1
      /\ writer'.update = [writer.update EXCEPT ![writer.i] = writer.current]
      /\ writer'.node = Null /\ writer'.current = writer.current
      /\ writer' \in [pc : {"idle", "insert", "remove", "set", "link", "undefined"},
                      key : Key \cup {Null}, current : Node \cup {head}, i : -1..MaxLevel,
                      update : [Slot -> Node \cup {head, Null}], node : Link]
  <2> HIDE DEF next
  <2> QED BY <1>u, <1>f, <1>t, <1>i
<1>1. TypeOK'
  BY <1>u, <1>w DEF IInv, TypeOK
<1>2. /\ ListsStay /\ ListsInOrder' /\ LevelFitsTheList'
      /\ ReaderIsBefore' /\ ReaderIsDone' /\ \A i : Linked(i)' = Linked(i)
  BY <1>u, <1>f, <1>w, OnlyWriterMoves
<1>3. \A i : Places(i)' = Places(i)
  BY <1>2 DEF Places
<1>4. ASSUME NEW j \in Slot, writer.i - 1 < j, j <= level
      PROVE  UpdateFits(j)'
  <2>1. CASE j = writer.i
    BY <2>1, <1>u, <1>f, <1>k, <1>t, <1>w, <1>3 DEF UpdateFits, Precedes
  <2>2. CASE j # writer.i
    <3>1. writer.i < j /\ writer'.update[j] = writer.update[j]
      BY <2>2, <1>4, <1>f, <1>t, <1>w, SlotFacts
    <3> QED BY <3>1, <1>4, <1>f, <1>w, <1>2, UpdateStaysFit
  <2> QED BY <2>1, <2>2
<1>5. /\ writer'.i >= 0 => writer'.current \in Places(writer'.i)
      /\ writer'.i < 0 => writer'.current = writer'.update[0]
  <2>1. CASE writer.current = head
    BY <2>1, <1>f, <1>t, <1>w DEF Places
  <2>2. CASE writer.current \in Linked(writer.i)
    <3>1. writer'.i < 0 => writer'.current = writer'.update[0]
      BY <1>f, <1>t, <1>w
    <3>2. ASSUME writer'.i >= 0
          PROVE  writer'.i \in Slot /\ writer'.i < writer.i /\ writer'.i \in Nat
      BY <3>2, <1>f, <1>w, SlotFacts
    <3>3. height[writer.current] \in Int /\ writer.i < height[writer.current]
          /\ writer.current \in Allocated /\ writer.current # Null
      BY <2>2, <1>f, NodeFacts DEF IInv
    <3> QED BY <3>1, <3>2, <3>3, <1>f, <1>w DEF Places, Linked
  <2> QED BY <1>f, <2>1, <2>2 DEF Places
<1>6. WriterSearches'
  <2>1. /\ writer'.node = Null /\ writer'.key \in Key /\ writer'.i <= level
        /\ writer'.i \in Int
    BY <1>f, <1>w
  <2>2. Precedes(writer.current, writer.key)'
    BY <1>f, <1>w, <1>u DEF Precedes
  <2>3. writer'.i >= 0 => writer'.current \in Places(writer.i)'
    BY <1>2, <1>5 DEF Places
  <2> QED BY <2>1, <2>2, <2>3, <1>f, <1>u, <1>w, <1>4, <1>5 DEF WriterSearches, Precedes
<1>7. WriterLinks' /\ WriterRests' /\ ReadersStayAway'
  BY <1>u, <1>w DEF IInv, WriterLinks, WriterRests, ReadersStayAway, Searching
<1> QED BY <1>1, <1>2, <1>6, <1>7 DEF IInv

LEMMA NothingKeepsIInv ==
  ASSUME IInv, Nothing
  PROVE  IInv'
<1>u. /\ UNCHANGED <<key, height, forward, level, reader>>
      /\ writer.pc \in {"insert", "remove"} /\ writer' = Idle
  BY DEF Nothing, Reached
<1>1. TypeOK'
  BY <1>u, SlotFacts DEF IInv, TypeOK, Idle, Link
<1>2. writer.node = Null /\ writer'.node = Null
  BY <1>u DEF IInv, WriterSearches, Idle
<1>3. WriterSearches' /\ WriterLinks' /\ WriterRests' /\ ReadersStayAway'
  BY <1>u DEF WriterSearches, WriterLinks, WriterRests, ReadersStayAway, Idle
<1> QED BY <1>u, <1>1, <1>2, <1>3, OnlyWriterMoves DEF IInv

-----------------------------------------------------------------------------
(* insert: the node.                                                       *)

\* What a search of the writer has found.
LEMMA ReachedFacts ==
  ASSUME IInv, NEW pc \in {"insert", "remove"}, Reached(pc)
  PROVE  /\ writer.node = Null /\ writer.key \in Key /\ writer.key \in Nat
         /\ level < MaxLevel /\ level \in Nat
         /\ writer.current = writer.update[0]
         /\ \A j \in Slot : j <= level => UpdateFits(j)
<1>1. /\ writer.node = Null /\ writer.key \in Key /\ level < MaxLevel
      /\ writer.current = writer.update[0] /\ writer.i < 0 /\ writer.i \in Int
      /\ \A j \in Slot : writer.i < j /\ j <= level => UpdateFits(j)
  BY DEF IInv, TypeOK, WriterSearches, Reached
<1>2. \A j \in Slot : writer.i < j
  BY <1>1, SlotFacts
<1> QED BY <1>1, <1>2, NodeFacts, SkipListAssumption DEF IInv

LEMMA NewNodeKeepsIInv ==
  ASSUME IInv, NEW n \in Node, NEW newLevel \in 1..MaxLevel, NewNode(n, newLevel)
  PROVE  IInv'
<1> DEFINE update == [i \in Slot |-> IF level < i /\ i < newLevel THEN head
                                     ELSE writer.update[i]]
<1>u. /\ Reached("insert") /\ n \notin Allocated /\ forward' = forward /\ reader' = reader
      /\ level' = (IF newLevel > level THEN newLevel ELSE level)
      /\ key' = [key EXCEPT ![n] = writer.key]
      /\ height' = [height EXCEPT ![n] = newLevel]
      /\ writer' = [writer EXCEPT !.pc = "set", !.node = n, !.i = 0, !.update = update]
  BY DEF NewNode
<1>f. /\ writer.node = Null /\ writer.key \in Key /\ writer.key \in Nat
      /\ level < MaxLevel /\ level \in Nat
      /\ \A j \in Slot : j <= level => UpdateFits(j)
  BY <1>u, ReachedFacts
<1>m. /\ newLevel \in Nat /\ newLevel >= 1 /\ newLevel <= MaxLevel /\ MaxLevel \in Nat
      /\ newLevel \in 0..MaxLevel /\ 0 \in -1..MaxLevel
  BY SlotFacts
<1>l. level' \in 0..MaxLevel /\ level <= level' /\ newLevel <= level' /\ level' \in Nat
  BY <1>u, <1>f, <1>m
<1>t. /\ writer.update \in [Slot -> Node \cup {head, Null}]
      /\ writer \in [pc : {"idle", "insert", "remove", "set", "link", "undefined"},
                     key : Key \cup {Null}, current : Node \cup {head}, i : -1..MaxLevel,
                     update : [Slot -> Node \cup {head, Null}], node : Link]
      /\ key \in [Node -> Key \cup {Null}] /\ height \in [Node -> 0..MaxLevel]
  BY DEF IInv, TypeOK
<1>w. /\ writer'.pc = "set" /\ writer'.key = writer.key /\ writer'.i = 0
      /\ writer'.update = update /\ writer'.node = n
      /\ writer' \in [pc : {"idle", "insert", "remove", "set", "link", "undefined"},
                      key : Key \cup {Null}, current : Node \cup {head}, i : -1..MaxLevel,
                      update : [Slot -> Node \cup {head, Null}], node : Link]
  <2>1. update \in [Slot -> Node \cup {head, Null}]
    BY <1>t
  <2> HIDE DEF update
  <2> QED BY <1>u, <1>m, <1>t, <2>1 DEF Link
<1>k. /\ key' \in [Node -> Key \cup {Null}] /\ height' \in [Node -> 0..MaxLevel]
      /\ key'[n] = writer.key /\ height'[n] = newLevel /\ writer.key # Null
      /\ \A m \in Node \ {n} : key'[m] = key[m] /\ height'[m] = height[m]
  BY <1>u, <1>f, <1>m, <1>t, SkipListAssumption
<1>1. TypeOK'
  BY <1>u, <1>l, <1>w, <1>k DEF IInv, TypeOK
<1>2. Allocated' = Allocated \cup {n} /\ n # head
  BY <1>k, SkipListAssumption DEF Allocated
<1>3. \A i \in Slot : Linked(i)' = Linked(i)
  <2> SUFFICES ASSUME NEW i \in Slot, NEW m
               PROVE  m \in Linked(i)' <=> m \in Linked(i)
    OBVIOUS
  <2>1. m \in Linked(i) <=> m \in Allocated /\ i < height[m]
    BY <1>f, LinkedWithoutNode DEF IInv
  <2>2. m \in Linked(i)' <=> m \in Allocated \cup {n} /\ i < height'[m] /\ (m = n => i < 0)
    BY <1>2, <1>w DEF Linked
  <2>3. ~(i < 0)
    BY SlotFacts
  <2>4. m \in Allocated => m \in Node /\ m # n /\ height'[m] = height[m]
    BY <1>u, <1>k DEF Allocated
  <2> QED BY <2>1, <2>2, <2>3, <2>4
<1>4. ListsStay
  BY <1>u, <1>3, <1>k DEF ListsStay, Allocated
<1>5. ListsInOrder'
  BY <1>u, <1>w, <1>2, <1>4, ListsStayInOrder DEF Link
<1>6. LevelFitsTheList'
  <2>1. \A i \in Slot : forward'[head][i] # Null => i <= level'
    <3>1. \A i \in Slot : forward[head][i] # Null => i <= level
      BY DEF IInv, LevelFitsTheList
    <3> QED BY <3>1, <1>u, <1>f, <1>l, SlotFacts
  <2>2. CASE newLevel > level
    <3>1. n \in Allocated' /\ height'[n] >= level'
      BY <2>2, <1>2, <1>u, <1>k, <1>m
    <3> QED BY <2>1, <3>1 DEF LevelFitsTheList
  <2>3. CASE ~(newLevel > level)
    <3>1. level' = level
      BY <2>3, <1>u
    <3>2. ASSUME level > 0
          PROVE  \E m \in Allocated' : height'[m] >= level'
      <4>1. PICK m \in Allocated : height[m] >= level
        BY <3>2 DEF IInv, LevelFitsTheList
      <4>2. m \in Node \ {n}
        BY <1>u DEF Allocated
      <4> QED BY <4>1, <4>2, <3>1, <1>2, <1>k
    <3> QED BY <2>1, <3>1, <3>2 DEF LevelFitsTheList
  <2> QED BY <2>2, <2>3
<1>7. ASSUME NEW j \in Slot, j < newLevel
      PROVE  UpdateFits(j)'
  <2>0. j \in Nat
    BY SlotFacts
  <2>1. CASE j <= level
    <3>1. writer'.update[j] = writer.update[j] /\ UpdateFits(j)
      BY <2>0, <2>1, <1>f, <1>w
    <3> QED BY <3>1, <1>4, <1>w, UpdateStaysFit
  <2>2. CASE level < j
    <3>1. writer'.update[j] = head
      BY <2>2, <1>7, <1>w
    <3>2. forward[head][j] = Null
      BY <2>0, <2>2, <1>f DEF IInv, LevelFitsTheList
    <3> QED BY <3>1, <3>2, <1>u DEF UpdateFits, Places, Precedes
  <2> QED BY <2>0, <2>1, <2>2, <1>f
<1>8. WriterLinks'
  <2>1. writer'.i \in 0..(height'[n] - 1)
    BY <1>w, <1>k, <1>m
  <2>2. height'[n] = newLevel /\ newLevel <= level'
    BY <1>k, <1>l
  <2> QED BY <2>1, <2>2, <1>2, <1>7, <1>k, <1>w DEF WriterLinks
<1>9. WriterSearches' /\ WriterRests' /\ ReadersStayAway'
  BY <1>w DEF WriterSearches, WriterRests, ReadersStayAway
<1> QED BY <1>u, <1>1, <1>4, <1>5, <1>6, <1>8, <1>9, ReaderStays DEF IInv

\* What an insert knows about its next link.
LEMMA LinkingFacts ==
  ASSUME IInv, writer.pc \in {"set", "link"}
  PROVE  LET x == writer.node
             i == writer.i
             u == writer.update[i]
         IN  /\ x \in Allocated /\ x \in Node /\ x # head /\ key[x] = writer.key
             /\ key[x] \in Nat /\ height[x] \in Nat /\ height[x] <= level
             /\ i \in Slot /\ i \in Nat /\ i < height[x] /\ height[x] <= MaxLevel
             /\ level \in Nat /\ x \notin Linked(i)
             /\ u \in Places(i) /\ u \in Node \cup {head} /\ u # x /\ Precedes(u, key[x])
             /\ forward[u][i] \in Link
             /\ forward[u][i] # Null => /\ key[x] <= key[forward[u][i]]
                                        /\ forward[u][i] \in Linked(i)
             /\ \A j \in Slot : i <= j /\ j < height[x] => UpdateFits(j)
<1> DEFINE x == writer.node
           i == writer.i
           u == writer.update[i]
<1>1. /\ x \in Allocated /\ key[x] = writer.key /\ height[x] <= level
      /\ i \in 0..(height[x] - 1)
      /\ \A j \in Slot : i <= j /\ j < height[x] => UpdateFits(j)
  BY DEF IInv, WriterLinks
<1>2. /\ x \in Node /\ x # head /\ key[x] \in Nat /\ level \in Nat /\ height[x] \in 0..MaxLevel
  BY <1>1, NodeFacts DEF IInv, TypeOK
<1>3. /\ i \in Slot /\ i \in Nat /\ i < height[x] /\ height[x] \in Nat
      /\ height[x] <= MaxLevel
  BY <1>1, <1>2, SlotFacts
<1>4. UpdateFits(i)
  BY <1>1, <1>3
<1>5. x \notin Linked(i)
  BY <1>3 DEF Linked
<1>6. /\ u \in Places(i) /\ Precedes(u, key[x])
      /\ forward[u][i] # Null => key[x] <= key[forward[u][i]]
  BY <1>1, <1>4 DEF UpdateFits
<1>7. u \in Node \cup {head} /\ u # x
  BY <1>2, <1>3, <1>5, <1>6, NodeFacts DEF IInv, Places
<1>8. /\ forward[u][i] \in Link
      /\ forward[u][i] # Null => forward[u][i] \in Linked(i)
  BY <1>3, <1>6, <1>7, NodeFacts DEF IInv, ListsInOrder, LinksAscend
<1> QED BY <1>1, <1>2, <1>3, <1>5, <1>6, <1>7, <1>8

LEMMA SetForwardKeepsIInv ==
  ASSUME IInv, SetForward
  PROVE  IInv'
<1> DEFINE x == writer.node
           i == writer.i
           u == writer.update[i]
<1>u. /\ writer.pc = "set" /\ UNCHANGED <<key, height, level, reader>>
      /\ forward' = [forward EXCEPT ![x][i] = forward[u][i]]
      /\ writer' = [writer EXCEPT !.pc = "link"]
  BY DEF SetForward
<1>f. /\ x \in Allocated /\ x \in Node /\ x # head /\ key[x] = writer.key
      /\ i \in Slot /\ i \in Nat /\ i < height[x] /\ x \notin Linked(i) /\ height[x] \in Nat
      /\ u \in Node \cup {head} /\ u # x /\ forward[u][i] \in Link /\ height[x] <= level
      /\ \A j \in Slot : i <= j /\ j < height[x] => UpdateFits(j)
  BY <1>u, LinkingFacts
<1>t. forward \in [Node \cup {head} -> [Slot -> Link]]
  BY DEF IInv, TypeOK
<1>w. /\ writer'.pc = "link" /\ writer'.key = writer.key /\ writer'.i = writer.i
      /\ writer'.update = writer.update /\ writer'.node = writer.node
  BY <1>u DEF IInv, TypeOK
<1>g. /\ forward' \in [Node \cup {head} -> [Slot -> Link]]
      /\ forward'[x][i] = forward[u][i] /\ forward'[u][i] = forward[u][i]
      /\ \A m \in Node \cup {head} : m # x => forward'[m] = forward[m]
      /\ \A j \in Slot : j # i => forward'[x][j] = forward[x][j]
  <2> HIDE DEF x, i, u
  <2> QED BY <1>u, <1>f, <1>t
<1> HIDE DEF x, i, u
<1>1. TypeOK'
  BY <1>u, <1>g DEF IInv, TypeOK
<1>2. Allocated' = Allocated /\ \A j : Linked(j)' = Linked(j)
  BY <1>u, <1>w DEF Allocated, Linked
<1>3. ListsStay
  <2>1. ASSUME NEW j \in Slot, NEW m \in Places(j)
        PROVE  forward'[m][j] = forward[m][j]
    <3>1. m \in Node \cup {head}
      BY <2>1, NodeFacts DEF IInv, Places
    <3>2. m = x => j # i
      BY <2>1, <1>f DEF Places
    <3> QED BY <3>1, <3>2, <2>1, <1>g
  <2> QED BY <2>1, <1>u, <1>2 DEF ListsStay
<1>4. ListsInOrder'
  <2>1. Null \notin Allocated
    BY SkipListAssumption DEF Allocated
  <2> QED BY <2>1, <1>w, <1>2, <1>3, ListsStayInOrder DEF Link, x
<1>5. LevelFitsTheList'
  BY <1>u, <1>f, <1>g, <1>2 DEF IInv, LevelFitsTheList
<1>6. \A j \in Slot : i <= j /\ j < height[x] => UpdateFits(j)'
  BY <1>f, <1>w, <1>3, UpdateStaysFit
<1>7. WriterLinks'
  <2>1. i \in 0..(height[x] - 1)
    BY <1>f
  <2> QED BY <2>1, <1>u, <1>f, <1>g, <1>w, <1>2, <1>6 DEF WriterLinks, x, i, u
<1>8. WriterSearches' /\ WriterRests' /\ ReadersStayAway'
  BY <1>w DEF WriterSearches, WriterRests, ReadersStayAway
<1> QED BY <1>u, <1>1, <1>3, <1>4, <1>5, <1>7, <1>8, ReaderStays DEF IInv

-----------------------------------------------------------------------------
(* insert: a link to the node.                                             *)

\* What LinkNode does, in terms of its node x, its level i, the place u before
\* x on it, and the node d that followed u.
LEMMA LinkNodeEffect ==
  ASSUME IInv, LinkNode
  PROVE  LET x == writer.node
             i == writer.i
             u == writer.update[i]
             d == forward[u][i]
         IN  /\ forward'[u][i] = x /\ forward'[x][i] = d
             /\ \A m \in Node \cup {head}, j \in Slot :
                  m # u \/ j # i => forward'[m][j] = forward[m][j]
             /\ \A j \in Slot : Linked(j)' = IF j = i THEN Linked(i) \cup {x} ELSE Linked(j)
             /\ Allocated' = Allocated /\ key' = key /\ height' = height /\ level' = level
             /\ \/ i + 1 < height[x] /\ writer' = [writer EXCEPT !.pc = "set", !.i = i + 1]
                \/ ~(i + 1 < height[x]) /\ writer' = Idle
             /\ writer'.node \in {x, Null}
             /\ TypeOK'
<1> DEFINE x == writer.node
           i == writer.i
           u == writer.update[i]
           d == forward[u][i]
<1>u. /\ writer.pc = "link" /\ UNCHANGED <<key, height, level>>
      /\ forward' = [forward EXCEPT ![u][i] = x]
      /\ writer' = (IF i + 1 < height[x] THEN [writer EXCEPT !.pc = "set", !.i = i + 1]
                    ELSE Idle)
      /\ reader' = [reader EXCEPT !.alone = reader.alone /\ i # 0]
  BY DEF LinkNode
<1>f. /\ x \in Allocated /\ x \in Node
      /\ i \in Slot /\ i \in Nat /\ i < height[x] /\ height[x] \in Nat /\ height[x] <= MaxLevel
      /\ u \in Node \cup {head} /\ u # x
  BY <1>u, LinkingFacts
<1>d. forward[x][i] = d
  BY <1>u DEF IInv, WriterLinks
<1>t. forward \in [Node \cup {head} -> [Slot -> Link]]
  BY DEF IInv, TypeOK
<1>g. /\ forward' \in [Node \cup {head} -> [Slot -> Link]]
      /\ forward'[u][i] = x /\ forward'[x][i] = d
      /\ \A m \in Node \cup {head}, j \in Slot :
           m # u \/ j # i => forward'[m][j] = forward[m][j]
  <2> HIDE DEF x, i, u
  <2> QED BY <1>u, <1>f, <1>d, <1>t DEF Link
<1>w. /\ \/ i + 1 < height[x] /\ writer'.node = x /\ writer'.i = i + 1
         \/ ~(i + 1 < height[x]) /\ writer'.node = Null
  BY <1>u DEF IInv, TypeOK, Idle
<1>a. Allocated' = Allocated
  BY <1>u DEF Allocated
<1>l. ASSUME NEW j \in Slot
      PROVE  Linked(j)' = IF j = i THEN Linked(i) \cup {x} ELSE Linked(j)
  <2>1. \A n : n \in Linked(j) <=> n \in Allocated /\ j < height[n] /\ (n = x => j < i)
    BY DEF Linked
  <2>2. \A n : n \in Linked(j)' <=>
               n \in Allocated /\ j < height[n] /\ (n = writer'.node => j < writer'.i)
    BY <1>a, <1>u DEF Linked
  <2>3. \A n \in Allocated : n # Null
    BY SkipListAssumption DEF Allocated
  <2>4. j \in Nat /\ \A n \in Allocated : height[n] \in Nat
    BY SlotFacts, NodeFacts DEF IInv, TypeOK
  <2> HIDE DEF x, i
  <2>5. \A n : n \in Linked(j)' <=> n \in Linked(j) \/ (n = x /\ j = i)
    BY <1>f, <1>w, <2>1, <2>2, <2>3, <2>4
  <2>6. j = i => Linked(j) = Linked(i)
    OBVIOUS
  <2> QED BY <2>5, <2>6
<1>y. TypeOK'
  <2>1. i + 1 < height[x] => i + 1 \in -1..MaxLevel
    BY <1>f, SlotFacts
  <2>2. writer' \in [pc : {"idle", "insert", "remove", "set", "link", "undefined"},
                     key : Key \cup {Null}, current : Node \cup {head}, i : -1..MaxLevel,
                     update : [Slot -> Node \cup {head, Null}], node : Link]
    <3>1. CASE i + 1 < height[x]
      BY <3>1, <2>1, <1>u DEF IInv, TypeOK
    <3>2. CASE ~(i + 1 < height[x])
      BY <3>2, <1>u, SlotFacts DEF Idle, Link
    <3> QED BY <3>1, <3>2
  <2>3. reader' \in [pc : {"idle", "test", "compare", "move", "last", "done", "undefined"},
                     key : Key \cup {Null}, current : Node \cup {head, Null},
                     i : 0..MaxLevel, present : BOOLEAN, alone : BOOLEAN]
    BY <1>u DEF IInv, TypeOK
  <2> QED BY <1>u, <1>g, <2>2, <2>3 DEF IInv, TypeOK
<1> QED BY <1>u, <1>g, <1>l, <1>a, <1>w, <1>y

\* A node comes into the list between u and d, where its key belongs.
LEMMA LinkNodeKeepsOrder ==
  ASSUME IInv, LinkNode
  PROVE  ListsInOrder'
<1> DEFINE x == writer.node
           i == writer.i
           u == writer.update[i]
           d == forward[u][i]
<1>1. PICK age \in [Node -> Nat], made \in Nat :
        Ages(age, made) /\ LinksAscend(age) /\ NoneIsPassed(age)
  BY DEF IInv, ListsInOrder
<1>2. writer.pc = "link"
  BY DEF LinkNode
<1>f. /\ x \in Allocated /\ x \in Node /\ x # head /\ key[x] = writer.key /\ key[x] \in Nat
      /\ i \in Slot /\ x \notin Linked(i)
      /\ u \in Places(i) /\ u \in Node \cup {head} /\ u # x /\ Precedes(u, key[x])
      /\ d # Null => key[x] <= key[d] /\ d \in Linked(i)
  BY <1>2, LinkingFacts
<1>e. /\ forward'[u][i] = x /\ forward'[x][i] = d
      /\ \A m \in Node \cup {head}, j \in Slot :
           m # u \/ j # i => forward'[m][j] = forward[m][j]
      /\ \A j \in Slot : j # i => Linked(j)' = Linked(j)
      /\ \A j \in Slot : j = i => Linked(j)' = Linked(j) \cup {x}
      /\ Allocated' = Allocated /\ key' = key /\ writer'.node \in {x, Null}
  BY <1>f, LinkNodeEffect
<1>n. /\ x # Null /\ \A n \in Allocated : n \in Node /\ n # Null /\ n # head /\ key[n] \in Nat
      /\ \A j \in Slot : /\ Linked(j) \subseteq Allocated
                         /\ Places(j) \subseteq Allocated \cup {head}
                         /\ Places(j) \subseteq Node \cup {head}
  BY <1>f, NodeFacts DEF IInv, Places
<1> HIDE DEF x, i, u, d
<1>o. /\ \A m \in Allocated \cup {head} : ~Earlier(age, m, m)
      /\ \A m, n \in Allocated \cup {head} :
           m # n => Earlier(age, m, n) \/ Earlier(age, n, m)
      /\ \A m, n, p \in Allocated \cup {head} :
           Earlier(age, m, n) /\ Earlier(age, n, p) => Earlier(age, m, p)
  BY <1>1, EarlierIsAnOrder DEF IInv
<1>s. \A m, n : Earlier(age, m, n)' = Earlier(age, m, n)
  BY <1>e DEF Earlier
<1>p. /\ \A j \in Slot : j # i => Places(j)' = Places(j)
      /\ \A j \in Slot : j = i => Places(j)' = Places(j) \cup {x}
  BY <1>e, <1>f DEF Places
<1>3. Ages(age, made)'
  BY <1>1, <1>e, <1>n DEF Ages, x
<1>4. Earlier(age, u, x)
  BY <1>f DEF Earlier, Precedes
<1>5. d # Null => Earlier(age, x, d)
  <2> SUFFICES ASSUME d # Null PROVE Earlier(age, x, d)
    OBVIOUS
  <2>1. d \in Allocated /\ d # x /\ key[x] <= key[d]
    BY <1>f, <1>n
  <2>2. age[d] < age[x]
    <3>1. age[d] <= age[x] /\ age[d] # age[x]
      BY <1>1, <1>f, <1>n, <2>1 DEF Ages, x
    <3>2. age[d] \in Nat /\ age[x] \in Nat
      BY <1>f, <1>n, <2>1
    <3> QED BY <3>1, <3>2
  <2> QED BY <1>f, <1>n, <2>1, <2>2 DEF Earlier
<1>6. LinksAscend(age)'
  <2> SUFFICES ASSUME NEW j \in Slot, NEW m \in Places(j)', NEW next,
                      next = forward'[m][j], next # Null
               PROVE  next \in Linked(j)' /\ Earlier(age, m, next)
    BY <1>s DEF LinksAscend
  <2>1. CASE j # i
    <3>1. m \in Places(j) /\ next = forward[m][j]
      BY <2>1, <1>e, <1>n, <1>p
    <3> QED BY <2>1, <3>1, <1>1, <1>e DEF LinksAscend
  <2>2. CASE j = i /\ m = u
    BY <2>2, <1>4, <1>e
  <2>3. CASE j = i /\ m = x
    BY <2>3, <1>5, <1>e, <1>f
  <2>4. CASE j = i /\ m # u /\ m # x
    <3>1. m \in Places(i) /\ next = forward[m][i]
      BY <2>4, <1>e, <1>n, <1>p
    <3> QED BY <2>4, <3>1, <1>1, <1>e, <1>f DEF LinksAscend
  <2> QED BY <2>1, <2>2, <2>3, <2>4
<1>7. NoneIsPassed(age)'
  <2> SUFFICES ASSUME NEW j \in Slot, NEW m \in Places(j)', NEW n \in Linked(j)', NEW next,
                      next = forward'[m][j], Earlier(age, m, n)
               PROVE  next # Null /\ (next = n \/ Earlier(age, next, n))
    BY <1>s DEF NoneIsPassed
  <2>1. CASE j # i
    <3>1. m \in Places(j) /\ n \in Linked(j) /\ next = forward[m][j]
      BY <2>1, <1>e, <1>n, <1>p
    <3> QED BY <3>1, <1>1 DEF NoneIsPassed
  <2>2. ASSUME NEW p \in Linked(i), Earlier(age, u, p)
        PROVE  d # Null /\ (d = p \/ Earlier(age, d, p))
    BY <2>2, <1>1, <1>f DEF NoneIsPassed, d
  <2>a. /\ m \in Allocated \cup {head} /\ n \in Allocated
        /\ u \in Allocated \cup {head} /\ x \in Allocated
    BY <1>e, <1>f, <1>n, <1>p
  <2>3. CASE j = i /\ m = u
    <3>1. next = x
      BY <2>3, <1>e
    <3>2. n # x => Earlier(age, x, n)
      <4> SUFFICES ASSUME n # x PROVE Earlier(age, x, n)
        OBVIOUS
      <4>1. n \in Linked(i) /\ d # Null /\ (d = n \/ Earlier(age, d, n))
        BY <2>2, <2>3, <1>e
      <4>2. d \in Allocated
        BY <4>1, <1>f, <1>n
      <4> QED BY <4>1, <4>2, <1>5, <1>o, <2>a
    <3> QED BY <3>1, <3>2, <1>n
  <2>4. CASE j = i /\ m = x
    <3>1. next = d /\ n # x
      BY <2>4, <1>e, <1>o, <2>a
    <3>2. n \in Linked(i) /\ Earlier(age, u, n)
      BY <2>4, <3>1, <1>4, <1>e, <1>o, <2>a
    <3> QED BY <2>2, <3>1, <3>2
  <2>5. CASE j = i /\ m # u /\ m # x
    <3>1. m \in Places(i) /\ next = forward[m][i]
      BY <2>5, <1>e, <1>n, <1>p
    <3>2. CASE n # x
      BY <3>1, <3>2, <2>5, <1>1, <1>e, <1>f DEF NoneIsPassed
    <3>3. CASE n = x /\ Earlier(age, m, u)
      <4>1. u \in Linked(i)
        BY <3>3, <1>f DEF Earlier, Places
      <4>2. next # Null /\ (next = u \/ Earlier(age, next, u))
        BY <3>1, <3>3, <4>1, <1>1, <1>f DEF NoneIsPassed
      <4>3. next \in Allocated
        BY <3>1, <4>2, <1>1, <1>f, <1>n DEF LinksAscend
      <4> QED BY <3>3, <4>2, <4>3, <1>4, <1>o, <2>a
    <3>4. CASE n = x /\ Earlier(age, u, m)
      <4>1. m \in Linked(i)
        BY <3>1, <3>4 DEF Earlier, Places
      <4>2. d # Null /\ (d = m \/ Earlier(age, d, m))
        BY <3>4, <4>1, <2>2
      <4>3. d \in Allocated /\ Earlier(age, x, d)
        BY <4>2, <1>5, <1>f, <1>n
      <4> QED BY <3>4, <4>2, <4>3, <1>o, <2>a
    <3> QED BY <3>2, <3>3, <3>4, <2>5, <1>o, <2>a
  <2> QED BY <2>1, <2>3, <2>4, <2>5
<1> QED BY <1>1, <1>3, <1>6, <1>7 DEF ListsInOrder

\* Where a reader is about to follow the link, the new node is before its key.
LEMMA LinkNodeKeepsReader ==
  ASSUME IInv, LinkNode
  PROVE  ReaderIsBefore' /\ ReaderIsDone'
<1> DEFINE x == writer.node
           i == writer.i
           u == writer.update[i]
           d == forward[u][i]
<1>1. writer.pc = "link" /\ reader' = [reader EXCEPT !.alone = reader.alone /\ i # 0]
  BY DEF LinkNode
<1>f. /\ x \in Allocated /\ key[x] \in Nat /\ i \in Slot
      /\ u \in Node \cup {head}
      /\ d # Null => key[x] <= key[d] /\ d \in Linked(i)
  BY <1>1, LinkingFacts
<1>e. /\ forward'[u][i] = x
      /\ \A m \in Node \cup {head}, j \in Slot :
           m # u \/ j # i => forward'[m][j] = forward[m][j]
      /\ \A j \in Slot : Linked(j) \subseteq Linked(j)'
      /\ Allocated' = Allocated /\ key' = key
  BY <1>f, LinkNodeEffect
<1>r. /\ reader'.pc = reader.pc /\ reader'.key = reader.key /\ reader'.i = reader.i
      /\ reader'.current = reader.current /\ reader'.present = reader.present
      /\ reader'.alone <=> reader.alone /\ i # 0
  BY <1>1 DEF IInv, TypeOK
<1>2. ReaderIsDone'
  BY <1>e, <1>r DEF IInv, ReaderIsDone
<1>3. ASSUME reader.pc \in {"test", "compare", "move", "last"}
      PROVE  ReaderIsBefore'
  <2>1. /\ reader.i \in Slot /\ reader.key \in Key /\ reader.current \in Places(reader.i)
        /\ Precedes(reader.current, reader.key) /\ 0 \in Slot
        /\ reader.present => \E n \in Linked(0) : key[n] = reader.key
    BY <1>3, SlotFacts DEF IInv, ReaderIsBefore
  <2>2. reader.current \in Node \cup {head}
    BY <2>1, NodeFacts DEF IInv, Places
  <2>3. reader.current \in Places(reader.i)'
    BY <2>1, <1>e, <1>r DEF Places
  <2>4. Precedes(reader.current, reader.key)'
    BY <2>1, <1>e, <1>r DEF Precedes
  <2>5. reader'.present => \E n \in Linked(0)' : key'[n] = reader'.key
    BY <2>1, <1>e, <1>r
  <2>6. reader.pc = "move" => Loaded' # Null /\ key'[Loaded'] < reader.key
    <3> SUFFICES ASSUME reader.pc = "move"
                 PROVE  Loaded' # Null /\ key'[Loaded'] < reader.key
      OBVIOUS
    <3>1. Loaded # Null /\ key[Loaded] < reader.key
      BY DEF IInv, ReaderIsBefore
    <3>2. CASE reader.current = u /\ reader.i = i
      <4>1. Loaded = d /\ Loaded' = x
        BY <3>2, <1>e, <1>r DEF Loaded
      <4>2. key[x] <= key[d] /\ key[d] \in Nat /\ reader.key \in Nat /\ x # Null
        BY <3>1, <4>1, <2>1, <1>f, NodeFacts, SkipListAssumption DEF IInv
      <4> QED BY <3>1, <4>1, <4>2, <1>e, <1>f
    <3>3. CASE ~(reader.current = u /\ reader.i = i)
      <4>1. Loaded' = Loaded
        BY <3>3, <2>1, <2>2, <1>e, <1>r DEF Loaded
      <4> QED BY <3>1, <4>1, <1>e
    <3> QED BY <3>2, <3>3
  <2>7. reader.pc = "last" =>
          /\ reader.i = 0
          /\ reader'.alone => Loaded' = Null \/ reader.key <= key'[Loaded']
    <3> SUFFICES ASSUME reader.pc = "last", reader.alone, i # 0
                 PROVE  Loaded' = Null \/ reader.key <= key'[Loaded']
      BY <1>r DEF IInv, ReaderIsBefore
    <3>1. reader.i = 0 /\ (Loaded = Null \/ reader.key <= key[Loaded])
      BY DEF IInv, ReaderIsBefore
    <3>2. Loaded' = Loaded
      BY <3>1, <2>1, <2>2, <1>e, <1>r DEF Loaded
    <3> QED BY <3>1, <3>2, <1>e
  <2> QED BY <1>3, <1>r, <2>1, <2>3, <2>4, <2>5, <2>6, <2>7 DEF ReaderIsBefore
<1> QED BY <1>2, <1>3, <1>r DEF ReaderIsBefore

LEMMA LinkNodeKeepsIInv ==
  ASSUME IInv, LinkNode
  PROVE  IInv'
<1> DEFINE x == writer.node
           i == writer.i
           u == writer.update[i]
<1>1. writer.pc = "link"
  BY DEF LinkNode
<1>f. /\ x \in Allocated /\ key[x] = writer.key /\ x \in Node
      /\ i \in Slot /\ i \in Nat /\ i < height[x] /\ height[x] \in Nat /\ height[x] <= level
      /\ level \in Nat
      /\ \A j \in Slot : i <= j /\ j < height[x] => UpdateFits(j)
  BY <1>1, LinkingFacts
<1>e. /\ \A m \in Node \cup {head}, j \in Slot :
           j # i => forward'[m][j] = forward[m][j]
      /\ \A j \in Slot : j # i => Linked(j)' = Linked(j)
      /\ Allocated' = Allocated /\ key' = key /\ height' = height /\ level' = level
      /\ \/ i + 1 < height[x] /\ writer' = [writer EXCEPT !.pc = "set", !.i = i + 1]
         \/ ~(i + 1 < height[x]) /\ writer' = Idle
      /\ TypeOK'
  BY <1>f, LinkNodeEffect
<1>2. LevelFitsTheList'
  <2>1. \A j \in Slot : forward'[head][j] # Null => j <= level
    <3>1. \A j \in Slot : forward[head][j] # Null => j <= level
      BY DEF IInv, LevelFitsTheList
    <3>2. i <= level
      BY <1>f
    <3> QED BY <3>1, <3>2, <1>e
  <2> QED BY <2>1, <1>e DEF IInv, LevelFitsTheList
<1>3. CASE i + 1 < height[x]
  <2>w. /\ writer'.pc = "set" /\ writer'.key = writer.key /\ writer'.i = i + 1
        /\ writer'.update = writer.update /\ writer'.node = x
    <3>1. writer' = [writer EXCEPT !.pc = "set", !.i = i + 1]
      BY <1>3, <1>e
    <3>2. TypeOK
      BY DEF IInv
    <3> QED BY <3>1, <3>2 DEF TypeOK
  <2>1. ASSUME NEW j \in Slot, i + 1 <= j, j < height[x]
        PROVE  UpdateFits(j)'
    <3>1. j \in Nat /\ j # i /\ i <= j
      BY <2>1, <1>f, SlotFacts
    <3>2. UpdateFits(j)
      BY <2>1, <3>1, <1>f
    <3>3. writer.update[j] \in Places(j) /\ writer.update[j] \in Node \cup {head}
      BY <3>2, NodeFacts DEF IInv, UpdateFits, Places
    <3> QED BY <3>1, <3>2, <3>3, <2>w, <1>e DEF UpdateFits, Places, Precedes
  <2>2. i + 1 \in 0..(height[x] - 1)
    BY <1>3, <1>f
  <2>3. WriterLinks'
    BY <2>1, <2>2, <2>w, <1>e, <1>f DEF WriterLinks
  <2>4. WriterSearches' /\ WriterRests' /\ ReadersStayAway'
    BY <2>w DEF WriterSearches, WriterRests, ReadersStayAway
  <2> QED BY <1>2, <1>e, <2>3, <2>4, LinkNodeKeepsOrder, LinkNodeKeepsReader DEF IInv
<1>4. CASE ~(i + 1 < height[x])
  <2>1. writer' = Idle
    BY <1>4, <1>e
  <2>2. WriterLinks' /\ WriterSearches' /\ WriterRests' /\ ReadersStayAway'
    BY <2>1 DEF WriterLinks, WriterSearches, WriterRests, ReadersStayAway, Idle
  <2> QED BY <1>2, <1>e, <2>2, LinkNodeKeepsOrder, LinkNodeKeepsReader DEF IInv
<1> QED BY <1>3, <1>4

-----------------------------------------------------------------------------
(* remove.                                                                 *)

\* The loop that lowers level ends: at 0, or at a list with a node.
LEMMA LoweredFacts ==
  ASSUME level \in Nat, NEW links
  PROVE  /\ Lowered(links) \in 0..level
         /\ \A j \in (Lowered(links) + 1)..level : links[head][j] = Null
         /\ Lowered(links) > 0 => links[head][Lowered(links)] # Null
<1> DEFINE Stop(l) == l = 0 \/ links[head][l] # Null
           T == {d \in Nat : d <= level /\ Stop(level - d)}
           R == OpToRel(<, Nat)
<1>1. T \subseteq Nat /\ level \in T
  BY DEF T
<1>2. PICK d \in T : \A e \in T : <<e, d>> \notin R
  <2> HIDE DEF T, R
  <2>1. T # {}
    BY <1>1
  <2> QED BY <1>1, <2>1, WFMin, NatLessThanWellFounded, Zenon DEF R
<1>3. \A e \in T : ~(e < d)
  BY <1>1, <1>2 DEF OpToRel
<1>4. \A e \in Nat : e < d => ~(e <= level /\ Stop(level - e))
  <2> HIDE DEF Stop
  <2> QED BY <1>3
<1>5. d \in Nat /\ d <= level /\ Stop(level - d)
  BY <1>2
<1> DEFINE l == level - d
<1>6. l \in 0..level /\ l \in Nat
  BY <1>5
<1>7. ASSUME NEW j \in (l + 1)..level
      PROVE  links[head][j] = Null
  <2>1. level - j \in Nat /\ level - j < d /\ level - j <= level /\ level - (level - j) = j
        /\ j # 0
    BY <1>5
  <2>2. ~Stop(j)
    <3> HIDE DEF Stop
    <3> QED BY <1>4, <2>1
  <2> QED BY <2>2 DEF Stop
<1>8. l > 0 => links[head][l] # Null
  BY <1>5, <1>6
<1> HIDE DEF l
<1> QED BY <1>6, <1>7, <1>8 DEF Lowered

\* The candidate follows the place of the key on every level it is in, and on no
\* other.
LEMMA CandidateFacts ==
  ASSUME IInv, Reached("remove"), Candidate # Null
  PROVE  LET c == Candidate
         IN  /\ c \in Allocated
             /\ \A i \in Slot : i < height[c] =>
                  /\ i <= level /\ c \in Linked(i)
                  /\ writer.update[i] \in Places(i) /\ writer.update[i] # c
                  /\ forward[writer.update[i]][i] = c
                  /\ Precedes(writer.update[i], key[c])
             /\ \A i \in Slot : i <= level /\ forward[writer.update[i]][i] = c => i < height[c]
<1> DEFINE c == Candidate
           k == writer.key
<1>1. /\ writer.node = Null /\ k \in Nat /\ level < MaxLevel /\ level \in Nat
      /\ writer.current = writer.update[0]
      /\ \A j \in Slot : j <= level => UpdateFits(j)
  BY ReachedFacts
<1>2. PICK age \in [Node -> Nat], made \in Nat :
        Ages(age, made) /\ LinksAscend(age) /\ NoneIsPassed(age)
  BY DEF IInv, ListsInOrder
<1>o. /\ \A m \in Allocated \cup {head} : ~Earlier(age, m, m)
      /\ \A m, n, p \in Allocated \cup {head} :
           Earlier(age, m, n) /\ Earlier(age, n, p) => Earlier(age, m, p)
  BY <1>2, EarlierIsAnOrder DEF IInv
<1>u. \A i \in Slot : i <= level =>
        LET u == writer.update[i]
            d == forward[u][i]
        IN  /\ u \in Places(i) /\ Precedes(u, k)
            /\ d # Null => k <= key[d] /\ d \in Linked(i)
  BY <1>1, <1>2 DEF UpdateFits, LinksAscend
<1>3. /\ 0 \in Slot /\ 0 <= level /\ c = forward[writer.update[0]][0]
  BY <1>1, SlotFacts DEF Candidate
<1>4. c \in Linked(0) /\ k <= key[c] /\ c # Null
  BY <1>3, <1>u
<1>5. c \in Allocated /\ c \in Node /\ c # head /\ key[c] \in Nat
  BY <1>3, <1>4, NodeFacts DEF IInv
<1> HIDE DEF c, k
<1>6. \A i \in Slot : i < height[c] => c \in Linked(i)
  BY <1>1, <1>5, LinkedWithoutNode DEF IInv
<1>7. ASSUME NEW n \in Allocated, NEW i \in Slot, i <= level, key[n] >= k, key[n] \in Nat
      PROVE  Earlier(age, writer.update[i], n)
  <2>1. n # head
    BY NodeFacts DEF IInv
  <2>2. writer.update[i] = head \/ key[writer.update[i]] < k
    BY <1>7, <1>u DEF Precedes
  <2>3. writer.update[i] # head => key[writer.update[i]] \in Nat
    BY <1>7, <1>u, NodeFacts DEF IInv, Places
  <2> QED BY <1>1, <1>7, <2>1, <2>2, <2>3 DEF Earlier, k
<1>8. ASSUME NEW i \in Slot, i < height[c]
      PROVE  /\ i <= level /\ c \in Linked(i)
             /\ writer.update[i] \in Places(i) /\ writer.update[i] # c
             /\ forward[writer.update[i]][i] = c
             /\ Precedes(writer.update[i], key[c])
  <2> DEFINE u == writer.update[i]
             d == forward[u][i]
  <2>1. c \in Linked(i)
    BY <1>6, <1>8
  <2>2. i <= level
    <3>1. Earlier(age, head, c) /\ head \in Places(i)
      BY <1>5 DEF Earlier, Places
    <3>2. forward[head][i] # Null
      BY <3>1, <2>1, <1>2 DEF NoneIsPassed
    <3> QED BY <3>2 DEF IInv, LevelFitsTheList
  <2>3. u \in Places(i) /\ Precedes(u, k) /\ (d # Null => k <= key[d] /\ d \in Linked(i))
    BY <2>2, <1>u
  <2>4. Earlier(age, u, c)
    BY <2>2, <1>4, <1>5, <1>7
  <2>5. d # Null /\ (d = c \/ Earlier(age, d, c))
    BY <2>1, <2>3, <2>4, <1>2 DEF NoneIsPassed
  <2>6. d \in Allocated /\ key[d] \in Nat /\ height[d] \in Nat /\ i < height[d]
    BY <2>3, <2>5, NodeFacts DEF IInv
  <2>7. d \in Linked(0)
    <3>1. 0 < height[d]
      BY <2>6, SlotFacts
    <3> QED BY <3>1, <2>6, <1>1, <1>3, LinkedWithoutNode DEF IInv
  <2>8. Earlier(age, writer.update[0], d)
    BY <2>3, <2>5, <2>6, <1>1, <1>3, <1>7 DEF k
  <2>9. c = d \/ Earlier(age, c, d)
    BY <2>7, <2>8, <1>2, <1>3, <1>u DEF NoneIsPassed
  <2>10. c = d
    BY <2>5, <2>6, <2>9, <1>5, <1>o
  <2>11. u # c
    BY <2>4, <1>5, <1>o
  <2>12. Precedes(u, key[c])
    <3>1. u # head => key[u] \in Nat
      BY <2>3, NodeFacts DEF IInv, Places
    <3> QED BY <3>1, <2>3, <1>1, <1>4, <1>5 DEF Precedes, k
  <2> QED BY <2>1, <2>2, <2>3, <2>10, <2>11, <2>12
<1>9. ASSUME NEW i \in Slot, i <= level, forward[writer.update[i]][i] = c
      PROVE  i < height[c]
  BY <1>9, <1>4, <1>u, NodeFacts DEF IInv
<1> QED BY <1>5, <1>8, <1>9 DEF c

\* What Delete does, in terms of the candidate.
LEMMA DeleteEffect ==
  ASSUME IInv, Delete
  PROVE  LET c == Candidate
         IN  /\ forward' \in [Node \cup {head} -> [Slot -> Link]]
             /\ \A m \in Node \cup {head}, i \in Slot :
                  m # c => forward'[m][i] = IF i < height[c] /\ m = writer.update[i]
                                            THEN forward[c][i] ELSE forward[m][i]
             /\ \A i \in Slot : Linked(i)' = Linked(i) \ {c}
             /\ Allocated' = Allocated \ {c}
             /\ \A n \in Allocated \ {c} : key'[n] = key[n] /\ height'[n] = height[n]
<1> DEFINE c == Candidate
<1>u. /\ Reached("remove") /\ c # Null /\ forward' = Unlinked(c)
      /\ key' = [key EXCEPT ![c] = Null] /\ height' = [height EXCEPT ![c] = 0]
      /\ writer' = Idle
  BY DEF Delete
<1>c. /\ c \in Allocated
      /\ \A i \in Slot : i < height[c] =>
           i <= level /\ forward[writer.update[i]][i] = c
      /\ \A i \in Slot : i <= level /\ forward[writer.update[i]][i] = c => i < height[c]
  BY <1>u, CandidateFacts
<1>n. /\ c \in Node /\ c # head /\ height[c] \in Nat /\ level \in Nat /\ level < MaxLevel
      /\ writer.node = Null
  <2>1. /\ c \in Node /\ c # head /\ level \in Nat /\ level < MaxLevel
        /\ writer.node = Null
    BY <1>u, <1>c, NodeFacts, ReachedFacts DEF IInv
  <2>2. height[c] \in Nat
    BY <2>1, SlotFacts DEF IInv, TypeOK
  <2> QED BY <2>1, <2>2
<1>t. /\ forward \in [Node \cup {head} -> [Slot -> Link]]
      /\ key \in [Node -> Key \cup {Null}] /\ height \in [Node -> 0..MaxLevel]
  BY DEF IInv, TypeOK
<1> HIDE DEF c
<1>1. forward' \in [Node \cup {head} -> [Slot -> Link]]
  BY <1>u, <1>n, <1>t DEF Unlinked, Link
<1>2. ASSUME NEW i \in Slot
      PROVE  i <= level /\ LinkedUpTo(c, i) <=> i < height[c]
  <2>1. i \in Nat /\ i < MaxLevel
    BY SlotFacts
  <2>2. ASSUME i < height[c]
        PROVE  i <= level /\ LinkedUpTo(c, i)
    <3>1. \A j \in 0..i : j \in Slot /\ j < height[c]
      BY <2>1, <2>2, <1>n, SlotFacts
    <3> QED BY <2>2, <3>1, <1>c DEF LinkedUpTo
  <2>3. ASSUME i <= level, LinkedUpTo(c, i)
        PROVE  i < height[c]
    <3>1. i \in 0..i
      BY <2>1
    <3> QED BY <2>3, <3>1, <1>c DEF LinkedUpTo
  <2> QED BY <2>2, <2>3
<1>3. ASSUME NEW m \in Node \cup {head}, NEW i \in Slot, m # c
      PROVE  forward'[m][i] = IF i < height[c] /\ m = writer.update[i]
                              THEN forward[c][i] ELSE forward[m][i]
  <2>1. forward'[m][i] = IF i <= level /\ m = writer.update[i] /\ LinkedUpTo(c, i)
                         THEN forward[c][i] ELSE forward[m][i]
    BY <1>3, <1>u DEF Unlinked
  <2> QED BY <2>1, <1>2
<1>4. /\ Allocated' = Allocated \ {c}
      /\ \A n \in Allocated \ {c} : key'[n] = key[n] /\ height'[n] = height[n]
  BY <1>u, <1>n, <1>t DEF Allocated
<1>5. \A i \in Slot : Linked(i)' = Linked(i) \ {c}
  <2> SUFFICES ASSUME NEW i \in Slot, NEW n
               PROVE  n \in Linked(i)' <=> n \in Linked(i) /\ n # c
    OBVIOUS
  <2>1. n \in Linked(i) <=> n \in Allocated /\ i < height[n]
    BY <1>n, LinkedWithoutNode DEF IInv
  <2>2. n \in Linked(i)' <=> n \in Allocated' /\ i < height'[n] /\ n # Null
    BY <1>u, NodeFacts, SkipListAssumption DEF Linked, Idle, Allocated
  <2>3. n \in Allocated => n # Null
    BY NodeFacts DEF IInv
  <2> QED BY <1>4, <2>1, <2>2, <2>3
<1> QED BY <1>1, <1>3, <1>4, <1>5 DEF c

\* Its lists close behind the candidate, and no link leads to it any more.
LEMMA DeleteKeepsOrder ==
  ASSUME IInv, Delete
  PROVE  ListsInOrder'
<1> DEFINE c == Candidate
<1>1. PICK age \in [Node -> Nat], made \in Nat :
        Ages(age, made) /\ LinksAscend(age) /\ NoneIsPassed(age)
  BY DEF IInv, ListsInOrder
<1>c. /\ c \in Allocated
      /\ \A i \in Slot : i < height[c] =>
           /\ c \in Linked(i) /\ writer.update[i] \in Places(i) /\ writer.update[i] # c
           /\ forward[writer.update[i]][i] = c
  BY CandidateFacts DEF Delete
<1>e. /\ \A m \in Node \cup {head}, i \in Slot :
           m # c => forward'[m][i] = IF i < height[c] /\ m = writer.update[i]
                                     THEN forward[c][i] ELSE forward[m][i]
      /\ \A i \in Slot : Linked(i)' = Linked(i) \ {c}
      /\ Allocated' = Allocated \ {c}
      /\ \A n \in Allocated \ {c} : key'[n] = key[n]
      /\ writer'.node = Null
  BY DeleteEffect DEF Delete, Idle
<1>n. /\ c # head
      /\ \A i \in Slot : /\ Linked(i) \subseteq Allocated
                         /\ Places(i) \subseteq Allocated \cup {head}
                         /\ Places(i) \subseteq Node \cup {head}
                         /\ \A n \in Linked(i) : i < height[n]
  BY <1>c, NodeFacts DEF IInv, Places
<1>o. /\ \A m \in Allocated \cup {head} : ~Earlier(age, m, m)
      /\ \A m, n \in Allocated \cup {head} :
           m # n => Earlier(age, m, n) \/ Earlier(age, n, m)
      /\ \A m, n, p \in Allocated \cup {head} :
           Earlier(age, m, n) /\ Earlier(age, n, p) => Earlier(age, m, p)
  BY <1>1, EarlierIsAnOrder DEF IInv
<1> HIDE DEF c
<1>s. \A m, n \in (Allocated \cup {head}) \ {c} : Earlier(age, m, n)' = Earlier(age, m, n)
  BY <1>e DEF Earlier
<1>p. \A i \in Slot : Places(i)' = Places(i) \ {c}
  BY <1>e, <1>n DEF Places
<1>2. Ages(age, made)'
  BY <1>1, <1>e DEF Ages
<1>3. ASSUME NEW i \in Slot, NEW m \in Places(i), m # c, forward[m][i] = c
      PROVE  i < height[c] /\ m = writer.update[i]
  <2> DEFINE u == writer.update[i]
  <2>1. c \in Linked(i) /\ i < height[c] /\ Earlier(age, m, c)
    BY <1>3, <1>1, <1>c, <1>n, SkipListAssumption DEF LinksAscend, Allocated
  <2>2. u \in Places(i) /\ u # c /\ forward[u][i] = c /\ Earlier(age, u, c)
    BY <2>1, <1>1, <1>c, <1>n, SkipListAssumption DEF LinksAscend, Allocated
  <2>3. ~Earlier(age, m, u)
    <3> SUFFICES ASSUME Earlier(age, m, u) PROVE FALSE
      OBVIOUS
    <3>1. u \in Linked(i)
      BY <2>2 DEF Earlier, Places
    <3>2. c = u \/ Earlier(age, c, u)
      BY <3>1, <1>1, <1>3 DEF NoneIsPassed
    <3> QED BY <3>2, <2>2, <1>c, <1>n, <1>o
  <2>4. ~Earlier(age, u, m)
    <3> SUFFICES ASSUME Earlier(age, u, m) PROVE FALSE
      OBVIOUS
    <3>1. m \in Linked(i)
      BY <1>3 DEF Earlier, Places
    <3>2. c = m \/ Earlier(age, c, m)
      BY <3>1, <2>2, <1>1 DEF NoneIsPassed
    <3> QED BY <3>2, <2>1, <1>3, <1>c, <1>n, <1>o
  <2> QED BY <2>1, <2>2, <2>3, <2>4, <1>3, <1>n, <1>o
<1>4. ASSUME NEW i \in Slot, NEW m \in Places(i)', NEW next, next = forward'[m][i]
      PROVE  /\ m \in Places(i) /\ m # c
             /\ \/ next = forward[m][i] /\ next # c
                \/ /\ i < height[c] /\ forward[m][i] = c /\ next = forward[c][i]
                   /\ c \in Linked(i) /\ c \in Places(i)
  <2>1. m \in Places(i) /\ m # c /\ m \in Node \cup {head}
    BY <1>4, <1>n, <1>p
  <2>2. next = IF i < height[c] /\ m = writer.update[i] THEN forward[c][i] ELSE forward[m][i]
    BY <2>1, <1>4, <1>e
  <2> QED BY <2>1, <2>2, <1>3, <1>c DEF Places
<1>5. LinksAscend(age)'
  <2> SUFFICES ASSUME NEW i \in Slot, NEW m \in Places(i)', NEW next,
                      next = forward'[m][i], next # Null
               PROVE  next \in Linked(i)' /\ Earlier(age, m, next)'
    BY DEF LinksAscend
  <2>1. /\ m \in Places(i) /\ m # c
        /\ \/ next = forward[m][i] /\ next # c
           \/ /\ i < height[c] /\ forward[m][i] = c /\ next = forward[c][i]
              /\ c \in Linked(i) /\ c \in Places(i)
    BY <1>4
  <2>2. CASE next = forward[m][i] /\ next # c
    <3>1. next \in Linked(i) /\ Earlier(age, m, next)
      BY <2>1, <2>2, <1>1 DEF LinksAscend
    <3> QED BY <2>1, <2>2, <3>1, <1>e, <1>n, <1>s
  <2>3. CASE /\ i < height[c] /\ forward[m][i] = c /\ next = forward[c][i]
             /\ c \in Linked(i) /\ c \in Places(i)
    <3>1. /\ Earlier(age, m, c) /\ next \in Linked(i) /\ Earlier(age, c, next)
      BY <2>1, <2>3, <1>1, <1>c, SkipListAssumption DEF LinksAscend, Allocated
    <3>2. next # c /\ Earlier(age, m, next)
      BY <2>1, <3>1, <1>c, <1>n, <1>o
    <3> QED BY <2>1, <3>1, <3>2, <1>e, <1>n, <1>s
  <2> QED BY <2>1, <2>2, <2>3
<1>6. NoneIsPassed(age)'
  <2> SUFFICES ASSUME NEW i \in Slot, NEW m \in Places(i)', NEW n \in Linked(i)', NEW next,
                      next = forward'[m][i], Earlier(age, m, n)'
               PROVE  next # Null /\ (next = n \/ Earlier(age, next, n)')
    BY DEF NoneIsPassed
  <2>1. /\ m \in Places(i) /\ m # c
        /\ \/ next = forward[m][i] /\ next # c
           \/ /\ i < height[c] /\ forward[m][i] = c /\ next = forward[c][i]
              /\ c \in Linked(i) /\ c \in Places(i)
    BY <1>4
  <2>2. n \in Linked(i) /\ n # c /\ Earlier(age, m, n)
    BY <2>1, <1>e, <1>n, <1>s
  <2>3. CASE next = forward[m][i] /\ next # c
    <3>1. next # Null /\ (next = n \/ Earlier(age, next, n))
      BY <2>1, <2>2, <2>3, <1>1 DEF NoneIsPassed
    <3>2. next \in Linked(i)
      BY <2>1, <2>3, <3>1, <1>1 DEF LinksAscend
    <3> QED BY <2>2, <2>3, <3>1, <3>2, <1>n, <1>s
  <2>4. CASE /\ i < height[c] /\ forward[m][i] = c /\ next = forward[c][i]
             /\ c \in Linked(i) /\ c \in Places(i)
    <3>1. Earlier(age, c, n)
      BY <2>1, <2>2, <2>4, <1>1 DEF NoneIsPassed
    <3>2. next # Null /\ (next = n \/ Earlier(age, next, n))
      BY <2>2, <2>4, <3>1, <1>1 DEF NoneIsPassed
    <3>3. next \in Linked(i) /\ Earlier(age, c, next)
      BY <2>4, <3>2, <1>1 DEF LinksAscend
    <3>4. next # c
      BY <3>3, <1>c, <1>o
    <3> QED BY <2>2, <3>2, <3>3, <3>4, <1>n, <1>s
  <2> QED BY <2>1, <2>3, <2>4
<1> QED BY <1>1, <1>2, <1>5, <1>6 DEF ListsInOrder

LEMMA DeleteKeepsIInv ==
  ASSUME IInv, Delete
  PROVE  IInv'
<1> DEFINE c == Candidate
           l == Lowered(forward')
<1>u. /\ Reached("remove") /\ c # Null /\ level' = l
      /\ key' = [key EXCEPT ![c] = Null] /\ height' = [height EXCEPT ![c] = 0]
      /\ writer' = Idle /\ reader' = reader
  BY DEF Delete
<1>c. /\ c \in Allocated
      /\ \A i \in Slot : i < height[c] => i <= level
  BY <1>u, CandidateFacts
<1>n. c \in Node /\ c # head /\ level \in Nat /\ level < MaxLevel /\ MaxLevel \in Nat
  BY <1>u, <1>c, NodeFacts, SlotFacts, ReachedFacts DEF IInv
<1>e. /\ forward' \in [Node \cup {head} -> [Slot -> Link]]
      /\ \A i \in Slot : ~(i < height[c]) => forward'[head][i] = forward[head][i]
      /\ \A i \in Slot : Linked(i)' = Linked(i) \ {c}
  BY <1>n, DeleteEffect
<1> HIDE DEF c
<1>l. /\ l \in 0..level /\ l \in Nat /\ l <= level
      /\ \A j \in (l + 1)..level : forward'[head][j] = Null
      /\ l > 0 => forward'[head][l] # Null
  BY <1>n, LoweredFacts
<1> HIDE DEF l
<1>1. TypeOK'
  <2>1. key' \in [Node -> Key \cup {Null}] /\ height' \in [Node -> 0..MaxLevel]
    BY <1>u, <1>n DEF IInv, TypeOK
  <2>2. l \in 0..MaxLevel /\ 0 \in -1..MaxLevel
    BY <1>l, <1>n
  <2>3. writer' \in [pc : {"idle", "insert", "remove", "set", "link", "undefined"},
                     key : Key \cup {Null}, current : Node \cup {head}, i : -1..MaxLevel,
                     update : [Slot -> Node \cup {head, Null}], node : Link]
    BY <1>u, <2>2 DEF Idle, Link
  <2> QED BY <1>u, <1>e, <2>1, <2>2, <2>3 DEF IInv, TypeOK
<1>2. ListsInOrder'
  BY DeleteKeepsOrder
<1>3. LevelFitsTheList'
  <2>1. ASSUME NEW i \in Slot, forward'[head][i] # Null
        PROVE  i <= l
    <3>1. i <= level
      BY <2>1, <1>c, <1>e DEF IInv, LevelFitsTheList
    <3>2. i \in Nat /\ i \notin (l + 1)..level
      BY <2>1, <1>l, SlotFacts
    <3> QED BY <3>1, <3>2, <1>l, <1>n
  <2>2. ASSUME l > 0
        PROVE  \E n \in Allocated' : height'[n] >= l
    <3>1. l \in Slot /\ forward'[head][l] # Null
      BY <2>2, <1>l, <1>n, SlotFacts
    <3>2. ASSUME NEW i \in Slot, forward'[head][i] # Null
          PROVE  \E n \in Allocated' : i < height'[n]
      <4>1. forward'[head][i] \in Linked(i)'
        BY <3>2, <1>2 DEF ListsInOrder, LinksAscend, Places
      <4> QED BY <4>1 DEF Linked
    <3>3. Allocated' \subseteq Node
      BY DEF Allocated
    <3>4. PICK n \in Node : n \in Allocated' /\ l < height'[n]
      BY <3>1, <3>2, <3>3
    <3>5. height'[n] \in Nat
      BY <1>1, <3>4, SlotFacts DEF TypeOK
    <3> QED BY <3>4, <3>5, <1>l
  <2> QED BY <1>u, <2>1, <2>2 DEF LevelFitsTheList
<1>4. WriterSearches' /\ WriterLinks' /\ WriterRests' /\ ReadersStayAway'
  BY <1>u DEF WriterSearches, WriterLinks, WriterRests, ReadersStayAway, Idle
<1>5. ReaderIsBefore' /\ ReaderIsDone'
  BY <1>u DEF IInv, ReadersStayAway, Reached, ReaderIsBefore, ReaderIsDone
<1> QED BY <1>1, <1>2, <1>3, <1>4, <1>5 DEF IInv

-----------------------------------------------------------------------------
(* The theorems.                                                           *)

LEMMA InitGivesIInv == Init => IInv
<1> SUFFICES ASSUME Init PROVE IInv
  OBVIOUS
<1>1. TypeOK
  BY SlotFacts DEF Init, TypeOK, Idle, Resting, Link
<1>2. ListsInOrder
  <2>1. Allocated = {} /\ \A i \in Slot : Linked(i) = {}
    BY DEF Init, Allocated, Linked
  <2>2. \A i \in Slot : forward[head][i] = Null
    BY DEF Init
  <2>3. writer.node = Null
    BY DEF Init, Idle
  <2>4. \A age : Ages(age, 0) /\ LinksAscend(age) /\ NoneIsPassed(age)
    BY <2>1, <2>2, <2>3 DEF Ages, LinksAscend, NoneIsPassed, Places
  <2>5. [n \in Node |-> 0] \in [Node -> Nat]
    OBVIOUS
  <2> QED BY <2>4, <2>5 DEF ListsInOrder
<1>3. LevelFitsTheList
  BY DEF Init, LevelFitsTheList
<1>4. WriterSearches /\ WriterLinks /\ WriterRests
  BY DEF Init, Idle, WriterSearches, WriterLinks, WriterRests
<1>5. ReaderIsBefore /\ ReaderIsDone /\ ReadersStayAway
  BY DEF Init, Idle, Resting, ReaderIsBefore, ReaderIsDone, ReadersStayAway
<1> QED BY <1>1, <1>2, <1>3, <1>4, <1>5 DEF IInv

LEMMA StepKeepsIInv == IInv /\ [Next]_vars => IInv'
<1> SUFFICES ASSUME IInv, [Next]_vars PROVE IInv'
  OBVIOUS
<1>1. ASSUME NEW k \in Key, insert(k) \/ remove(k) \/ search(k)
      PROVE  IInv'
  BY <1>1, StartKeepsIInv, searchKeepsIInv DEF insert, remove
<1>2. CASE Forward \/ Down \/ Nothing
  BY <1>2, ForwardKeepsIInv, DownKeepsIInv, NothingKeepsIInv
<1>3. ASSUME NEW n \in Node, NEW newLevel \in 1..MaxLevel, NewNode(n, newLevel)
      PROVE  IInv'
  BY <1>3, NewNodeKeepsIInv
<1>4. CASE SetForward \/ LinkNode \/ Delete
  BY <1>4, SetForwardKeepsIInv, LinkNodeKeepsIInv, DeleteKeepsIInv
<1>5. CASE Test \/ Compare \/ Move \/ Final \/ Return
  BY <1>5, TestKeepsIInv, CompareKeepsIInv, MoveKeepsIInv, FinalKeepsIInv, ReturnKeepsIInv
<1>6. CASE UNCHANGED vars
  <2>1. UNCHANGED <<key, height, forward, level, writer>> /\ reader' = reader
    BY <1>6 DEF vars
  <2>2. TypeOK' /\ ReadersStayAway'
    BY <2>1 DEF IInv, TypeOK, ReadersStayAway
  <2>3. ListsStay
    BY <2>1, OnlyReaderMoves DEF ListsStay
  <2> QED BY <2>1, <2>2, <2>3, OnlyReaderMoves, ReaderStays DEF IInv
<1> QED BY <1>1, <1>2, <1>3, <1>4, <1>5, <1>6 DEF Next

THEOREM IInvariant == Spec => []IInv
BY InitGivesIInv, StepKeepsIInv, PTL DEF Spec

\* Every variable has its type: no step of an insert, a remove or a search goes
\* through a link that is not there.
THEOREM TypeCorrect == Spec => []TypeOK
<1>1. IInv => TypeOK
  BY DEF IInv
<1> QED BY <1>1, IInvariant, PTL

\* Searches start at or above the highest list with a node in it, and level is
\* never above the highest node.
THEOREM LevelCorrect == Spec => []LevelFitsTheList
<1>1. IInv => LevelFitsTheList
  BY DEF IInv
<1> QED BY <1>1, IInvariant, PTL

\* A search never passes its key, and finds it if it was there and no other node
\* came into the lowest list meanwhile.
THEOREM SearchCorrect == Spec => []ReaderFindsTheKey
<1>1. ASSUME IInv PROVE ReaderFindsTheKey
  <2>1. reader.pc \in {"test", "compare", "move", "last"} =>
          reader.current = head \/ key[reader.current] < reader.key
    BY <1>1 DEF IInv, ReaderIsBefore, Precedes
  <2>2. reader.pc = "done" /\ reader.present =>
          /\ reader.current \in Node /\ key[reader.current] <= reader.key
          /\ reader.alone => key[reader.current] = reader.key
    BY <1>1 DEF IInv, ReaderIsDone, Allocated
  <2> QED BY <2>1, <2>2 DEF ReaderFindsTheKey
<1> QED BY <1>1, IInvariant, PTL

\* In the list of each level a link leads to a node of that level further on in
\* the order of the keys, never to one deleted or not yet linked, and passes none
\* of them: between any two stores of an insert, and after every remove.
THEOREM ListsCorrect == Spec => []ListsInOrder
<1>1. IInv => ListsInOrder
  BY DEF IInv
<1> QED BY <1>1, IInvariant, PTL

-----------------------------------------------------------------------------
(* From the order of the nodes to the sequence of them: a node's place is   *)
(* one more than the number of nodes before it.                            *)

LEMMA PlacesOfAnOrder ==
  ASSUME NEW S, IsFiniteSet(S), NEW before \in [S -> SUBSET S],
         \A n \in S : n \notin before[n],
         \A m, n \in S : m # n => m \in before[n] \/ n \in before[m],
         \A m, n \in S : m \in before[n] => before[m] \subseteq before[n]
  PROVE  \E q \in [1..Cardinality(S) -> S] :
           /\ \A n \in S : \E j \in 1..Cardinality(S) : q[j] = n
           /\ \A j, k \in 1..Cardinality(S) : j < k => q[j] \in before[q[k]]
<1> DEFINE N == Cardinality(S)
           place == [n \in S |-> Cardinality(before[n]) + 1]
           q == [j \in 1..N |-> CHOOSE n \in S : place[n] = j]
<1>1. N \in Nat
  BY FS_CardinalityType
<1>2. \A n \in S : IsFiniteSet(before[n]) /\ Cardinality(before[n]) \in Nat
  BY FS_Subset, FS_CardinalityType
<1>3. ASSUME NEW n \in S PROVE place[n] \in 1..N
  <2>1. before[n] \in SUBSET (S \ {n})
    OBVIOUS
  <2>2. IsFiniteSet(S \ {n}) /\ Cardinality(S \ {n}) = N - 1
    BY FS_RemoveElement
  <2>3. Cardinality(before[n]) <= N - 1
    BY <2>1, <2>2, FS_Subset
  <2> QED BY <1>1, <1>2, <2>3
<1>4. ASSUME NEW m \in S, NEW n \in S, m \in before[n] PROVE place[m] < place[n]
  <2>1. before[m] \in SUBSET before[n] /\ before[m] # before[n]
    BY <1>4
  <2>2. Cardinality(before[m]) <= Cardinality(before[n])
        /\ Cardinality(before[m]) # Cardinality(before[n])
    BY <1>2, <2>1, FS_Subset
  <2> QED BY <1>2, <2>2
<1> HIDE DEF place
<1>5. place \in [S -> 1..N]
  BY <1>3 DEF place
<1>6. \A m, n \in S : place[m] = place[n] => m = n
  BY <1>1, <1>4, <1>5
<1>7. \A j \in 1..N : \E n \in S : place[n] = j
  <2>1. IsFiniteSet(1..N) /\ Cardinality(1..N) = N
    BY <1>1, FS_Interval
  <2>2. place \in Injection(S, 1..N)
    BY <1>5, <1>6 DEF Injection, IsInjective
  <2>3. place \in Surjection(S, 1..N)
    BY <2>1, <2>2, FS_Injection
  <2> QED BY <2>3 DEF Surjection
<1>8. \A j \in 1..N : q[j] \in S /\ place[q[j]] = j
  BY <1>7
<1>9. q \in [1..N -> S]
  BY <1>8
<1>10. \A n \in S : q[place[n]] = n /\ place[n] \in 1..N
  BY <1>5, <1>6, <1>8
<1> HIDE DEF q
<1>11. ASSUME NEW j \in 1..N, NEW k \in 1..N, j < k PROVE q[j] \in before[q[k]]
  <2>1. /\ q[j] \in S /\ place[q[j]] = j
        /\ q[k] \in S /\ place[q[k]] = k
    BY <1>8
  <2>2. q[j] # q[k] /\ ~(place[q[k]] < place[q[j]])
    BY <1>1, <1>11, <2>1
  <2>3. q[k] \notin before[q[j]]
    BY <1>4, <2>1, <2>2
  <2> QED BY <2>1, <2>2, <2>3
<1>12. \A n \in S : \E j \in 1..N : q[j] = n
  BY <1>10
<1> QED BY <1>9, <1>11, <1>12

FewNodes == IsFiniteSet(Allocated)

LEMMA StepKeepsFew == IInv /\ FewNodes /\ [Next]_vars => FewNodes'
<1> SUFFICES ASSUME IInv, FewNodes, [Next]_vars PROVE FewNodes'
  OBVIOUS
<1>1. ASSUME NEW x, Allocated' \subseteq Allocated \cup {x} PROVE FewNodes'
  <2>1. IsFiniteSet(Allocated \cup {x})
    BY FS_AddElement DEF FewNodes
  <2> QED BY <1>1, <2>1, FS_Subset DEF FewNodes
<1>2. CASE key' = key
  BY <1>1, <1>2 DEF Allocated
<1>3. ASSUME NEW n \in Node, NEW newLevel \in 1..MaxLevel, NewNode(n, newLevel)
      PROVE  FewNodes'
  <2>1. Allocated' \subseteq Allocated \cup {n}
    BY <1>3 DEF NewNode, Allocated, IInv, TypeOK
  <2> QED BY <1>1, <2>1
<1>4. CASE Delete
  <2>1. Allocated' \subseteq Allocated \cup {Null}
    BY <1>4 DEF Delete, Allocated, IInv, TypeOK
  <2> QED BY <1>1, <2>1
<1>5. CASE UNCHANGED vars
  BY <1>2, <1>5 DEF vars
<1>6. ASSUME NEW k \in Key, insert(k) \/ remove(k) \/ search(k) PROVE key' = key
  BY <1>6 DEF insert, remove, Start, search
<1>7. CASE Forward \/ Down \/ Nothing \/ SetForward \/ LinkNode
  BY <1>2, <1>7 DEF Forward, Down, Nothing, SetForward, LinkNode
<1>8. CASE Test \/ Compare \/ Move \/ Final \/ Return
  BY <1>2, <1>8 DEF Test, Compare, Move, Final, Return
<1> QED
  BY <1>2, <1>3, <1>4, <1>5, <1>6, <1>7, <1>8 DEF Next

\* The order of the nodes of the lowest list, and where the links lead in it.
LEMMA ListsAreSequences ==
  ASSUME IInv, FewNodes
  PROVE  LevelsHoldTheNodes
<1>1. PICK age \in [Node -> Nat], made \in Nat :
        Ages(age, made) /\ LinksAscend(age) /\ NoneIsPassed(age)
  BY DEF IInv, ListsInOrder
<1> DEFINE S == Linked(0)
           N == Cardinality(S)
           before == [n \in S |-> {m \in S : Earlier(age, m, n)}]
<1>2. /\ S \subseteq Allocated
      /\ \A i \in Slot : Linked(i) \subseteq S
      /\ \A n \in Allocated : n # Null /\ n # head /\ key[n] \in Nat
  <2>1. \A n \in Allocated : n # Null /\ n # head /\ key[n] \in Nat /\ height[n] \in Nat
    BY NodeFacts, SlotFacts DEF IInv, TypeOK
  <2>2. writer.i \in Int /\ \A i \in Slot : i \in Nat
    BY SlotFacts DEF IInv, TypeOK
  <2> QED BY <2>1, <2>2 DEF Linked
<1>3. /\ \A m \in S : ~Earlier(age, m, m)
      /\ \A m, n \in S : m # n => Earlier(age, m, n) \/ Earlier(age, n, m)
      /\ \A m, n, p \in S : Earlier(age, m, n) /\ Earlier(age, n, p) => Earlier(age, m, p)
  BY <1>1, <1>2, EarlierIsAnOrder DEF IInv
<1>4. IsFiniteSet(S)
  BY <1>2, FS_Subset DEF FewNodes
<1> HIDE DEF S
<1>5. PICK q \in [1..N -> S] :
        /\ \A n \in S : \E j \in 1..N : q[j] = n
        /\ \A j, k \in 1..N : j < k => Earlier(age, q[j], q[k])
  <2>1. /\ before \in [S -> SUBSET S]
        /\ \A n \in S : n \notin before[n]
        /\ \A m, n \in S : m # n => m \in before[n] \/ n \in before[m]
        /\ \A m, n \in S : m \in before[n] => before[m] \subseteq before[n]
    BY <1>3
  <2>2. \A m, n \in S : m \in before[n] => Earlier(age, m, n)
    OBVIOUS
  <2> HIDE DEF before
  <2>3. \E q \in [1..N -> S] : /\ \A n \in S : \E j \in 1..N : q[j] = n
                               /\ \A j, k \in 1..N : j < k => q[j] \in before[q[k]]
    BY <1>4, <2>1, PlacesOfAnOrder
  <2> QED BY <2>2, <2>3
<1>6. N \in Nat
  BY <1>4, FS_CardinalityType
<1> HIDE DEF N
<1>7. \A j, k \in 1..N : j < k => key[q[j]] <= key[q[k]]
  <2> SUFFICES ASSUME NEW j \in 1..N, NEW k \in 1..N, j < k PROVE key[q[j]] <= key[q[k]]
    OBVIOUS
  <2>1. key[q[j]] \in Nat /\ key[q[k]] \in Nat /\ q[j] # head
    BY <1>2
  <2>2. Earlier(age, q[j], q[k])
    BY <1>5
  <2> QED BY <2>1, <2>2 DEF Earlier
<1>8. ASSUME NEW i \in Slot, NEW j \in 0..N, NEW p \in Places(i),
             \A k \in 1..N : (k > j => Earlier(age, p, q[k]))
                             /\ (k <= j => ~Earlier(age, p, q[k]))
      PROVE  LeadsTo(q, i, j, forward[p][i])
  <2> DEFINE n == forward[p][i]
  <2>1. DOMAIN q = 1..N
    OBVIOUS
  <2>2. CASE n = Null
    <3>1. \A k \in 1..N : k > j => q[k] \notin Linked(i)
      BY <1>1, <1>8, <2>2 DEF NoneIsPassed
    <3> QED BY <2>1, <2>2, <3>1 DEF LeadsTo
  <2>3. CASE n # Null
    <3>1. n \in Linked(i) /\ n \in S /\ Earlier(age, p, n)
      BY <1>1, <1>2, <2>3 DEF LinksAscend
    <3> HIDE DEF n
    <3>2. PICK k \in 1..N : q[k] = n
      BY <1>5, <3>1
    <3>3. k > j
      BY <1>8, <3>1, <3>2
    <3>4. ASSUME NEW l \in (j + 1)..(k - 1) PROVE q[l] \notin Linked(i)
      <4>1. l \in 1..N /\ l > j /\ l < k
        BY <1>6
      <4>2. Earlier(age, p, q[l]) /\ Earlier(age, q[l], n) /\ q[l] \in S
        BY <1>5, <1>8, <3>2, <4>1
      <4>3. n # q[l] /\ ~Earlier(age, n, q[l])
        BY <1>3, <3>1, <4>2
      <4> QED BY <1>1, <4>2, <4>3 DEF NoneIsPassed, n
    <3> QED BY <2>1, <3>1, <3>2, <3>3, <3>4 DEF LeadsTo, n
  <2> QED BY <2>2, <2>3
<1>9. ASSUME NEW i \in Slot PROVE LeadsTo(q, i, 0, forward[head][i])
  <2>1. head \in Places(i) /\ \A k \in 1..N : q[k] # head
    BY <1>2 DEF Places
  <2>2. \A k \in 1..N : Earlier(age, head, q[k])
    BY <2>1 DEF Earlier
  <2> QED BY <1>6, <1>8, <2>1, <2>2
<1>10. ASSUME NEW i \in Slot, NEW j \in 1..N, q[j] \in Linked(i)
       PROVE  LeadsTo(q, i, j, forward[q[j]][i])
  <2>1. q[j] \in Places(i)
    BY <1>10 DEF Places
  <2>2. \A k \in 1..N : k > j => Earlier(age, q[j], q[k])
    BY <1>5
  <2>3. \A k \in 1..N : k <= j => ~Earlier(age, q[j], q[k])
    BY <1>3, <1>5
  <2> QED BY <1>6, <1>8, <2>1, <2>2, <2>3
<1>11. DOMAIN q = 1..N
  OBVIOUS
<1> QED BY <1>5, <1>7, <1>9, <1>10, <1>11 DEF LevelsHoldTheNodes, S, N

\* The lists of all levels, followed from head, are one sequence of the linked
\* nodes in the order of their keys, each level with the nodes of its height:
\* for any number of nodes, any heights and any places insert and remove stop at.
THEOREM LevelsCorrect == Spec => []LevelsHoldTheNodes
<1>1. Init => FewNodes
  BY FS_EmptySet DEF Init, Allocated, FewNodes
<1> QED BY <1>1, IInvariant, StepKeepsFew, ListsAreSequences, PTL DEF Spec

-----------------------------------------------------------------------------
(* The arena.                                                              *)

\* What is left of the current block.
Rest == [at |-> alloc_ptr, size |-> alloc_ptr_remain]

\* How far it is from an address to the next word boundary.
Gap(at) == (-at) % Align

\* A piece with what was counted to align it.
Hull(p) == [at |-> p.at, size |-> p.size + IF p.aligned THEN Gap(p.at) ELSE 0]

HullsAreDisjoint ==
  /\ \A p \in given : \E b \in block_ : Inside(Hull(p), b)
  /\ \A p, q \in given : p # q => Apart(Hull(p), Hull(q))

\* It lies in a block, and nothing in it is handed out or counted.
RestIsFree ==
  alloc_ptr_remain > 0 =>
    /\ \E b \in block_ : Inside(Rest, b)
    /\ \A p \in given : Apart(Hull(p), Rest)

ArenaIInv == ArenaTypeOK /\ HullsAreDisjoint /\ RestIsFree

LEMMA InitEstablishesArenaIInv == ArenaInit => ArenaIInv
BY DEF ArenaInit, ArenaIInv, ArenaTypeOK, HullsAreDisjoint, RestIsFree

-----------------------------------------------------------------------------
(* Intervals.                                                              *)

LEMMA InsideApart ==
  ASSUME NEW p, NEW q, NEW b, NEW c,
         {p.at, p.size, q.at, q.size, b.at, b.size, c.at, c.size} \subseteq Nat,
         Inside(p, b), Inside(q, c), Apart(b, c)
  PROVE  Apart(p, q) /\ Apart(q, p)
BY DEF Inside, Apart

-----------------------------------------------------------------------------
(* Alignment.                                                              *)

\* The gap is what AllocateAligned adds: the rest of a negative number is the
\* complement of that of its absolute value.
LEMMA GapByRest ==
  ASSUME NEW a \in Nat, NEW n \in Nat \ {0}
  PROVE  (-a) % n = IF a % n = 0 THEN 0 ELSE n - (a % n)
<1> DEFINE q == (-a) \div n
           p == a \div n
           r == (-a) % n
           s == a % n
<1>1. /\ q \in Int /\ p \in Int /\ r \in 0..(n - 1) /\ s \in 0..(n - 1)
      /\ -a = n * q + r /\ a = n * p + s
  OBVIOUS
<1> SUFFICES r = IF s = 0 THEN 0 ELSE n - s
  OBVIOUS
<1> HIDE DEF q, p, r, s
<1> DEFINE k == p + q
<1>2. k \in Int /\ n * k + r + s = 0
  <2>1. n * (p + q) = n * p + n * q
    BY <1>1
  <2> QED BY <1>1, <2>1
<1> HIDE DEF k
<1>3. n * k <= 0 /\ n * k >= 2 - 2 * n
  BY <1>1, <1>2
<1>4. k <= 0
  BY <1>2, <1>3
<1>5. ASSUME k <= -2 PROVE FALSE
  <2>1. n * k <= n * (-2)
    BY <1>2, <1>5
  <2> QED BY <1>2, <1>3, <2>1
<1>6. CASE k = 0
  BY <1>1, <1>2, <1>6
<1>7. CASE k = -1
  BY <1>1, <1>2, <1>7
<1> QED BY <1>2, <1>4, <1>5, <1>6, <1>7

LEMMA GapIsNat ==
  ASSUME NEW a \in Nat
  PROVE  Gap(a) \in Nat
BY ArenaAssumption DEF Gap

LEMMA GapIsPadding ==
  ASSUME alloc_ptr \in Nat
  PROVE  Gap(alloc_ptr) = Padding
BY ArenaAssumption, GapByRest DEF Gap, Padding

LEMMA NoGapInNewBlock ==
  ASSUME NEW at \in Addresses
  PROVE  Gap(at) = 0
<1>1. at \in Nat /\ at % Align = 0 /\ Align \in Nat \ {0}
  BY ArenaAssumption
<1> QED BY <1>1, GapByRest DEF Gap

LEMMA HullOfPiece ==
  ASSUME NEW p \in Piece
  PROVE  Hull(p).at \in Nat /\ Hull(p).size \in Nat
BY GapIsNat DEF Hull, Piece

\* The address a piece would be moved to leaves it inside its hull, and so does
\* the address it has.
LEMMA InsideHull ==
  ASSUME NEW p \in Piece
  PROVE  /\ Inside(p, Hull(p))
         /\ p.aligned => Inside(RoundedUp(p), Hull(p))
         /\ RoundedUp(p).at \in Nat /\ RoundedUp(p).size \in Nat
<1>1. p.at \in Nat /\ p.size \in Nat /\ Gap(p.at) \in Nat
  BY GapIsNat DEF Piece
<1>2. RoundedUp(p) = [at |-> p.at + Gap(p.at), size |-> p.size]
  BY DEF RoundedUp, Gap
<1> QED BY <1>1, <1>2 DEF Inside, Hull

-----------------------------------------------------------------------------
\* The piece that a request of n bytes returns when need bytes are cut from the
\* current block.
LEMMA CutKeepsIInv ==
  ASSUME ArenaIInv, NEW need \in Nat, NEW n \in Nat, NEW aligned \in BOOLEAN,
         need = n + (IF aligned THEN Gap(alloc_ptr) ELSE 0),
         Cut(need), Give(alloc_ptr, n, aligned)
  PROVE  ArenaIInv'
<1> DEFINE piece == [at |-> alloc_ptr, size |-> n, aligned |-> aligned]
           hull  == [at |-> alloc_ptr, size |-> need]
<1>t. /\ alloc_ptr \in Nat /\ alloc_ptr_remain \in Nat /\ alloc_ptr_remain > 0
      /\ block_ \subseteq Block /\ given \subseteq Piece /\ using_block \in Nat
  BY DEF ArenaIInv, ArenaTypeOK, Cut
<1>1. /\ alloc_ptr' = alloc_ptr + need /\ alloc_ptr_remain' = alloc_ptr_remain - need
      /\ need < alloc_ptr_remain
      /\ block_' = block_ /\ using_block' = using_block
      /\ given' = given \cup {piece}
  BY DEF Cut, Give
<1>2. ArenaTypeOK'
  BY <1>t, <1>1 DEF ArenaTypeOK, Piece
<1>h. Hull(piece) = hull
  BY DEF Hull
<1>3. PICK b \in block_ : Inside(Rest, b)
  BY <1>t DEF ArenaIInv, RestIsFree
<1>4. b \in Block
  BY <1>t
<1>5. Inside(hull, b) /\ Inside(Rest', b)
  BY <1>t, <1>1, <1>3, <1>4 DEF Inside, Rest, Block
<1>6. ASSUME NEW p \in given
      PROVE  Apart(Hull(p), hull) /\ Apart(hull, Hull(p)) /\ Apart(Hull(p), Rest')
  <2>1. Apart(Hull(p), Rest) /\ Hull(p).at \in Nat /\ Hull(p).size \in Nat
    BY <1>t, HullOfPiece DEF ArenaIInv, RestIsFree
  <2> QED BY <1>t, <1>1, <2>1 DEF Apart, Rest
<1>7. Apart(hull, Rest')
  BY <1>t, <1>1 DEF Apart, Rest
<1> HIDE DEF piece, hull
<1>8. HullsAreDisjoint'
  BY <1>1, <1>h, <1>5, <1>6 DEF HullsAreDisjoint, ArenaIInv
<1>9. RestIsFree'
  BY <1>1, <1>h, <1>5, <1>6, <1>7 DEF RestIsFree
<1> QED BY <1>2, <1>8, <1>9 DEF ArenaIInv

\* A block just allocated is apart from everything there was.
LEMMA NewBlockIsApart ==
  ASSUME ArenaIInv, NEW at \in Nat, NEW size \in Nat, alloc_new_block(at, size),
         NEW q, q.at \in Nat, q.size \in Nat, Inside(q, [at |-> at, size |-> size])
  PROVE  /\ \A p \in given : Apart(Hull(p), q) /\ Apart(q, Hull(p))
         /\ alloc_ptr_remain > 0 => Apart(q, Rest)
<1> DEFINE new == [at |-> at, size |-> size]
<1>1. ASSUME NEW p, p.at \in Nat, p.size \in Nat, NEW b \in block_, Inside(p, b)
      PROVE  Apart(p, q) /\ Apart(q, p)
  <2>1. b.at \in Nat /\ b.size \in Nat
    BY DEF ArenaIInv, ArenaTypeOK, Block
  <2>2. Apart(new, b)
    BY DEF alloc_new_block
  <2>3. new.at \in Nat /\ new.size \in Nat /\ Inside(q, new)
    OBVIOUS
  <2> HIDE DEF new
  <2> QED BY <1>1, <2>1, <2>2, <2>3, InsideApart
<1>2. \A p \in given : Apart(Hull(p), q) /\ Apart(q, Hull(p))
  <2> TAKE p \in given
  <2>1. Hull(p).at \in Nat /\ Hull(p).size \in Nat
    BY HullOfPiece DEF ArenaIInv, ArenaTypeOK
  <2>2. \E b \in block_ : Inside(Hull(p), b)
    BY DEF ArenaIInv, HullsAreDisjoint
  <2> QED BY <1>1, <2>1, <2>2
<1>3. ASSUME alloc_ptr_remain > 0 PROVE Apart(q, Rest)
  <2>1. Rest.at \in Nat /\ Rest.size \in Nat
    BY DEF ArenaIInv, ArenaTypeOK, Rest
  <2>2. \E b \in block_ : Inside(Rest, b)
    BY <1>3 DEF ArenaIInv, RestIsFree
  <2> QED BY <1>1, <2>1, <2>2
<1> QED BY <1>2, <1>3

\* The piece that a request of n bytes returns from a new block.
LEMMA FallbackKeepsIInv ==
  ASSUME ArenaIInv, NEW need \in Nat, NEW n \in Nat, n <= need, NEW aligned \in BOOLEAN,
         NEW at \in Addresses, alloc_fallback_block(at, need), Give(at, n, aligned)
  PROVE  ArenaIInv'
<1> DEFINE piece == [at |-> at, size |-> n, aligned |-> aligned]
           hull  == [at |-> at, size |-> n]
<1>t. /\ at \in Nat /\ MaxSize \in Nat /\ PointerSize \in Nat
      /\ alloc_ptr \in Nat /\ alloc_ptr_remain \in Nat
      /\ block_ \subseteq Block /\ given \subseteq Piece /\ using_block \in Nat
  BY ArenaAssumption DEF ArenaIInv, ArenaTypeOK
<1>g. given' = given \cup {piece} /\ piece.at = at /\ piece.size = n /\ piece \in Piece
  BY <1>t DEF Give, Piece
<1>h. Hull(piece) = hull /\ hull.at = at /\ hull.size = n
  BY NoGapInNewBlock DEF Hull
<1> HIDE DEF piece, hull
<1>1. CASE need > MaxSize \div 4
  <2> DEFINE new == [at |-> at, size |-> need]
  <2>1. alloc_new_block(at, need) /\ alloc_ptr' = alloc_ptr /\ alloc_ptr_remain' = alloc_ptr_remain
    BY <1>1 DEF alloc_fallback_block
  <2>2. /\ block_' = block_ \cup {new} /\ using_block' = using_block + need + PointerSize
        /\ new \in Block
    BY <1>t, <2>1 DEF alloc_new_block, Block
  <2>3. ArenaTypeOK'
    BY <1>t, <1>g, <2>1, <2>2 DEF ArenaTypeOK
  <2>4. Inside(hull, new)
    BY <1>t, <1>h DEF Inside
  <2>5. /\ \A p \in given : Apart(Hull(p), hull) /\ Apart(hull, Hull(p))
        /\ alloc_ptr_remain > 0 => Apart(hull, Rest)
    BY <1>t, <1>h, <2>1, <2>4, NewBlockIsApart
  <2>6. Rest' = Rest
    BY <2>1 DEF Rest
  <2> HIDE DEF new
  <2>7. HullsAreDisjoint'
    BY <1>g, <1>h, <2>2, <2>4, <2>5 DEF HullsAreDisjoint, ArenaIInv
  <2>8. RestIsFree'
    BY <1>g, <1>h, <2>1, <2>2, <2>5, <2>6 DEF RestIsFree, ArenaIInv
  <2> QED BY <2>3, <2>7, <2>8 DEF ArenaIInv
<1>2. CASE ~(need > MaxSize \div 4)
  <2> DEFINE new == [at |-> at, size |-> MaxSize]
  <2>1. /\ alloc_new_block(at, MaxSize)
        /\ alloc_ptr' = at + need /\ alloc_ptr_remain' = MaxSize - need
    BY <1>2 DEF alloc_fallback_block
  <2>0. need <= MaxSize
    BY <1>2, <1>t
  <2>2. /\ block_' = block_ \cup {new} /\ using_block' = using_block + MaxSize + PointerSize
        /\ new \in Block
    BY <1>t, <2>1 DEF alloc_new_block, Block
  <2>3. ArenaTypeOK'
    BY <1>t, <1>g, <2>0, <2>1, <2>2 DEF ArenaTypeOK
  <2>4. Inside(hull, new) /\ Inside(Rest', new) /\ Apart(hull, Rest')
        /\ Rest'.at \in Nat /\ Rest'.size \in Nat
    BY <1>t, <1>h, <2>0, <2>1 DEF Inside, Apart, Rest
  <2>5. \A p \in given : Apart(Hull(p), hull) /\ Apart(hull, Hull(p))
    BY <1>t, <1>h, <2>1, <2>4, NewBlockIsApart
  <2>6. \A p \in given : Apart(Hull(p), Rest')
    BY <1>t, <2>1, <2>4, NewBlockIsApart
  <2> HIDE DEF new
  <2>7. HullsAreDisjoint'
    BY <1>g, <1>h, <2>2, <2>4, <2>5 DEF HullsAreDisjoint, ArenaIInv
  <2>8. RestIsFree'
    BY <1>g, <1>h, <2>2, <2>4, <2>6 DEF RestIsFree
  <2> QED BY <2>3, <2>7, <2>8 DEF ArenaIInv
<1> QED BY <1>1, <1>2

LEMMA StepKeepsArenaIInv == ArenaIInv /\ [ArenaNext]_arenaVars => ArenaIInv'
<1> SUFFICES ASSUME ArenaIInv, [ArenaNext]_arenaVars PROVE ArenaIInv'
  OBVIOUS
<1>1. ASSUME NEW size \in Needs, Allocate(size) PROVE ArenaIInv'
  <2>1. size \in Nat /\ size <= size
    BY ArenaAssumption
  <2>2. CASE Cut(size) /\ Give(alloc_ptr, size, FALSE)
    <3>1. size = size + (IF FALSE THEN Gap(alloc_ptr) ELSE 0)
      BY <2>1
    <3> QED BY <2>1, <2>2, <3>1, CutKeepsIInv
  <2>3. CASE \E at \in Addresses : alloc_fallback_block(at, size) /\ Give(at, size, FALSE)
    BY <2>1, <2>3, FallbackKeepsIInv
  <2> QED BY <1>1, <2>2, <2>3 DEF Allocate
<1>2. ASSUME NEW size \in Needs, AllocateAligned(size) PROVE ArenaIInv'
  <2> DEFINE need == size + Padding
  <2>1. size \in Nat /\ Align \in Nat \ {0} /\ alloc_ptr \in Nat
    BY ArenaAssumption DEF ArenaIInv, ArenaTypeOK
  <2>2. Padding \in Nat
    <3>1. alloc_ptr % Align \in 0..(Align - 1)
      BY <2>1
    <3> QED BY <2>1, <3>1 DEF Padding
  <2>3. need \in Nat /\ size <= need
    BY <2>1, <2>2
  <2>g. need = size + Gap(alloc_ptr)
    BY <2>1, GapIsPadding
  <2>4. CASE Cut(need) /\ Give(alloc_ptr, size, TRUE)
    <3> HIDE DEF need
    <3> QED BY <2>1, <2>3, <2>g, <2>4, CutKeepsIInv
  <2>5. CASE \E at \in Addresses : alloc_fallback_block(at, need) /\ Give(at, size, TRUE)
    <3> HIDE DEF need
    <3> QED BY <2>1, <2>3, <2>5, FallbackKeepsIInv
  <2> QED BY <1>2, <2>4, <2>5 DEF AllocateAligned
<1>3. ASSUME UNCHANGED arenaVars PROVE ArenaIInv'
  BY <1>3 DEF arenaVars, ArenaIInv, ArenaTypeOK, HullsAreDisjoint, RestIsFree, Rest
<1> QED BY <1>1, <1>2, <1>3 DEF ArenaNext

\* The inductive invariant of the arena.
THEOREM ArenaInvariantHolds == ArenaSpec => []ArenaIInv
BY InitEstablishesArenaIInv, StepKeepsArenaIInv, PTL DEF ArenaSpec

\* Every variable keeps its type; what remains of a block is never negative.
THEOREM ArenaTypeCorrect == ArenaSpec => []ArenaTypeOK
<1>1. ArenaIInv => ArenaTypeOK
  BY DEF ArenaIInv
<1> QED BY <1>1, ArenaInvariantHolds, PTL

\* Every piece of memory lies in a block and no two of them overlap, for any
\* requests, aligned or not.
THEOREM PiecesCorrect == ArenaSpec => []PiecesAreDisjoint
<1>1. ASSUME ArenaIInv PROVE PiecesAreDisjoint
  <2>1. \A p \in given : \E b \in block_ : Inside(p, b)
    <3> TAKE p \in given
    <3>1. PICK b \in block_ : Inside(Hull(p), b)
      BY <1>1 DEF ArenaIInv, HullsAreDisjoint
    <3>2. p \in Piece /\ b \in Block
      BY <1>1 DEF ArenaIInv, ArenaTypeOK
    <3>3. Inside(p, b)
      BY <3>1, <3>2, InsideHull, HullOfPiece DEF Inside, Piece, Block
    <3> QED BY <3>3
  <2>2. ASSUME NEW p \in given, NEW q \in given, p # q PROVE Apart(p, q)
    <3>1. p \in Piece /\ q \in Piece
      BY <1>1 DEF ArenaIInv, ArenaTypeOK
    <3>2. Apart(Hull(p), Hull(q))
      BY <1>1, <2>2 DEF ArenaIInv, HullsAreDisjoint
    <3> QED BY <3>1, <3>2, HullOfPiece, InsideHull, InsideApart DEF Piece
  <2> QED BY <2>1, <2>2 DEF PiecesAreDisjoint
<1> QED BY <1>1, ArenaInvariantHolds, PTL

\* Every piece that AllocateAligned returned could be moved to a word boundary
\* without leaving its block or reaching another piece.
THEOREM AlignedPiecesHaveRoom == ArenaSpec => []AlignedPieceHasRoom
<1>1. ASSUME ArenaIInv PROVE AlignedPieceHasRoom
  <2> SUFFICES ASSUME NEW p \in given, p.aligned
               PROVE  /\ \E b \in block_ : Inside(RoundedUp(p), b)
                      /\ \A q \in given : q # p => Apart(RoundedUp(p), q)
    BY DEF AlignedPieceHasRoom
  <2>1. PICK b \in block_ : Inside(Hull(p), b)
    BY <1>1 DEF ArenaIInv, HullsAreDisjoint
  <2>2. p \in Piece /\ b \in Block
    BY <1>1 DEF ArenaIInv, ArenaTypeOK
  <2>3. Inside(RoundedUp(p), b)
    BY <2>1, <2>2, InsideHull, HullOfPiece DEF Inside, Block
  <2>4. ASSUME NEW q \in given, q # p PROVE Apart(RoundedUp(p), q)
    <3>1. q \in Piece
      BY <1>1 DEF ArenaIInv, ArenaTypeOK
    <3>2. Apart(Hull(p), Hull(q))
      BY <1>1, <2>4 DEF ArenaIInv, HullsAreDisjoint
    <3> QED BY <2>2, <3>1, <3>2, HullOfPiece, InsideHull, InsideApart DEF Piece
  <2> QED BY <2>3, <2>4
<1> QED BY <1>1, ArenaInvariantHolds, PTL

=============================================================================
