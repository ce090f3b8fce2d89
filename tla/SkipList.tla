------------------------------ MODULE SkipList ------------------------------
(***************************************************************************)
(* The sorted lists of the MemTable: class SkipList of db/skipList.h, as   *)
(* MemTable::Add and MemTable::Get of db/memtable.h use it.                *)
(*                                                                         *)
(* A node of height h is in the lists of levels 0 to h - 1, each sorted by *)
(* key and starting at head.  The links are atomic: one thread changes the *)
(* lists while others search them.  Every load and store of a link that    *)
(* another thread can tell apart is a step.  One reader stands for all,    *)
(* since readers change nothing.                                           *)
(*                                                                         *)
(* The template does not compile as it stands: the three comparisons after *)
(* the loops (lines 69, 100 and 128) name an i that is not declared there. *)
(* Here these comparisons may turn out either way.  That includes every    *)
(* repair: insert may or may not take a key twice, remove may or may not   *)
(* look for an equal key.  No step depends on what search makes of the     *)
(* node it ends at, and its answer is left out: the test at line 100 has   *)
(* != where a search for an equal key needs ==.                            *)
(*                                                                         *)
(* Nothing calls remove.  It deletes a node readers may be at, and is      *)
(* taken to be called only when there are none.                            *)
(***************************************************************************)
EXTENDS Integers, FiniteSets

CONSTANTS
  Key,       \* the keys of the entries, as numbers in their order
  Node,      \* the nodes new can return
  MaxLevel,  \* maxLevel
  head,      \* the node before the first of each level
  Null       \* nullptr

ASSUME SkipListAssumption ==
  /\ Key \subseteq Nat
  /\ MaxLevel \in Nat \ {0}
  /\ head \notin Node /\ Null \notin Node /\ head # Null
  /\ Null \notin Key

Slot == 0..(MaxLevel - 1)
Link == Node \cup {Null}

VARIABLES
  key,      \* the key of each node, Null if it is not allocated
  height,   \* for how many levels it has links
  forward,  \* the links of the nodes and of head
  level,    \* the level where searches start
  writer,   \* the thread in insert or remove
  reader    \* a thread in search

vars == <<key, height, forward, level, writer, reader>>

\* What insert and remove keep while they run: the key they are given, the node
\* and the level they have reached, and the last node before the key on each
\* level.  node is what insert has made.
Idle == [pc |-> "idle", key |-> Null, current |-> head, i |-> 0,
         update |-> [i \in Slot |-> Null], node |-> Null]

\* The same for search.  present and alone are for the properties: whether the
\* key was in the lowest list when it began, and whether nothing came in since.
Resting == [pc |-> "idle", key |-> Null, current |-> head, i |-> 0,
            present |-> FALSE, alone |-> TRUE]

Init ==
  /\ key = [n \in Node |-> Null]
  /\ height = [n \in Node |-> 0]
  /\ forward = [n \in Node \cup {head} |-> [i \in Slot |-> Null]]
  /\ level = 0
  /\ writer = Idle
  /\ reader = Resting

Allocated == {n \in Node : key[n] # Null}

\* The first access of a search is to head->forward[level].  With level equal to
\* maxLevel there is no such link.
FirstPc(pc) == IF level < MaxLevel THEN pc ELSE "undefined"

-----------------------------------------------------------------------------
(* insert and remove.                                                      *)

Start(pc, k) ==
  /\ writer.pc = "idle"
  /\ writer' = [Idle EXCEPT !.pc = FirstPc(pc), !.key = k, !.i = level]
  /\ UNCHANGED <<key, height, forward, level, reader>>

insert(k) == Start("insert", k)

remove(k) == reader.pc = "idle" /\ Start("remove", k)

Searching == writer.pc \in {"insert", "remove"} /\ writer.i >= 0

\* No other thread changes links: one round of the loop is one step.
Before(n) == n # Null /\ key[n] < writer.key

Forward ==
  LET next == forward[writer.current][writer.i]
  IN  /\ Searching /\ Before(next)
      /\ writer' = [writer EXCEPT !.current = next]
      /\ UNCHANGED <<key, height, forward, level, reader>>

Down ==
  /\ Searching /\ ~Before(forward[writer.current][writer.i])
  /\ writer' = [writer EXCEPT !.update[writer.i] = writer.current, !.i = @ - 1]
  /\ UNCHANGED <<key, height, forward, level, reader>>

\* The first node that is not before the key.
Candidate == forward[writer.current][0]

Reached(pc) == writer.pc = pc /\ writer.i < 0

\* The comparison says that there is nothing to insert, or to remove.
Nothing ==
  /\ Reached("insert") \/ Reached("remove")
  /\ Candidate = Null => writer.pc = "remove"
  /\ writer' = Idle
  /\ UNCHANGED <<key, height, forward, level, reader>>

\* Mistakes: level goes up by one too many, or stays.
NewNodeTwoAbove(n, newLevel) ==
  /\ Reached("insert") /\ n \notin Allocated
  /\ writer' = [writer EXCEPT !.pc = "set", !.node = n, !.i = 0,
                  !.update = [i \in Slot |-> IF level < i /\ i < newLevel THEN head ELSE @[i]]]
  /\ level' = IF newLevel > level THEN newLevel + 1 ELSE level
  /\ key' = [key EXCEPT ![n] = writer.key]
  /\ height' = [height EXCEPT ![n] = newLevel]
  /\ UNCHANGED <<forward, reader>>

NewNodeAtOldLevel(n, newLevel) ==
  /\ Reached("insert") /\ n \notin Allocated
  /\ writer' = [writer EXCEPT !.pc = "set", !.node = n, !.i = 0,
                  !.update = [i \in Slot |-> IF level < i /\ i < newLevel THEN head ELSE @[i]]]
  /\ key' = [key EXCEPT ![n] = writer.key]
  /\ height' = [height EXCEPT ![n] = newLevel]
  /\ UNCHANGED <<forward, level, reader>>

\* newLevel is what randomLevel returns.  level becomes newLevel, one more than
\* the highest level the node is in.
NewNode(n, newLevel) ==
  /\ Reached("insert") /\ n \notin Allocated
  /\ writer' = [writer EXCEPT !.pc = "set", !.node = n, !.i = 0,
                  !.update = [i \in Slot |-> IF level < i /\ i < newLevel THEN head ELSE @[i]]]
  /\ level' = IF newLevel > level THEN newLevel ELSE level
  /\ key' = [key EXCEPT ![n] = writer.key]
  /\ height' = [height EXCEPT ![n] = newLevel]
  /\ UNCHANGED <<forward, reader>>

\* Mistake: the new node does not lead on.
SetNothing ==
  /\ writer.pc = "set"
  /\ writer' = [writer EXCEPT !.pc = "link"]
  /\ UNCHANGED <<key, height, forward, level, reader>>

\* newNode->forward[i] = update[i]->forward[i]
SetForward ==
  /\ writer.pc = "set"
  /\ forward' = [forward EXCEPT ![writer.node][writer.i] =
                   forward[writer.update[writer.i]][writer.i]]
  /\ writer' = [writer EXCEPT !.pc = "link"]
  /\ UNCHANGED <<key, height, level, reader>>

\* update[i]->forward[i] = newNode, and on to the next level.
LinkNode ==
  /\ writer.pc = "link"
  /\ forward' = [forward EXCEPT ![writer.update[writer.i]][writer.i] = writer.node]
  /\ writer' = IF writer.i + 1 < height[writer.node]
               THEN [writer EXCEPT !.pc = "set", !.i = @ + 1]
               ELSE Idle
  /\ reader' = [reader EXCEPT !.alone = @ /\ writer.i # 0]
  /\ UNCHANGED <<key, height, level>>

\* remove unlinks the node from level 0 upwards, until a level it is not in.
LinkedUpTo(n, i) == \A j \in 0..i : forward[writer.update[j]][j] = n

\* Mistake: only level 0 is unlinked.
UnlinkedBelow(n) ==
  [m \in Node \cup {head} |->
     IF m = n
     THEN [i \in Slot |-> Null]
     ELSE [i \in Slot |-> IF i = 0 /\ m = writer.update[i] THEN forward[n][i] ELSE forward[m][i]]]

Unlinked(n) ==
  [m \in Node \cup {head} |->
     IF m = n
     THEN [i \in Slot |-> Null]
     ELSE [i \in Slot |->
             IF i <= level /\ m = writer.update[i] /\ LinkedUpTo(n, i)
             THEN forward[n][i] ELSE forward[m][i]]]

\* while (level > 0 && head->forward[level] == nullptr) level--
Lowered(links) ==
  CHOOSE l \in 0..level :
    /\ \A j \in (l + 1)..level : links[head][j] = Null
    /\ l > 0 => links[head][l] # Null

\* No reader is there to see the steps.
Delete ==
  /\ Reached("remove") /\ Candidate # Null
  /\ forward' = Unlinked(Candidate)
  /\ level' = Lowered(forward')
  /\ key' = [key EXCEPT ![Candidate] = Null]
  /\ height' = [height EXCEPT ![Candidate] = 0]
  /\ writer' = Idle
  /\ UNCHANGED reader

-----------------------------------------------------------------------------
(* search.                                                                 *)

\* The nodes in the list of level i: an insert has yet to link its node to the
\* levels from writer.i up.
Linked(i) ==
  {n \in Allocated : i < height[n] /\ (n = writer.node => i < writer.i)}

search(k) ==
  /\ reader.pc = "idle" /\ writer.pc # "remove"
  /\ reader' = [Resting EXCEPT !.pc = FirstPc("test"), !.key = k, !.i = level,
                               !.present = \E n \in Linked(0) : key[n] = k]
  /\ UNCHANGED <<key, height, forward, level, writer>>

\* A round of the loop loads the link three times: to see that there is a node,
\* to compare its key, and to go there.
Loaded == forward[reader.current][reader.i]

NextLevel == IF reader.i > 0
             THEN [reader EXCEPT !.pc = "test", !.i = @ - 1]
             ELSE [reader EXCEPT !.pc = "last"]

Test ==
  /\ reader.pc = "test"
  /\ reader' = IF Loaded = Null THEN NextLevel ELSE [reader EXCEPT !.pc = "compare"]
  /\ UNCHANGED <<key, height, forward, level, writer>>

Compare ==
  /\ reader.pc = "compare"
  /\ reader' = IF Loaded # Null /\ key[Loaded] < reader.key
               THEN [reader EXCEPT !.pc = "move"] ELSE NextLevel
  /\ UNCHANGED <<key, height, forward, level, writer>>

Move ==
  /\ reader.pc = "move"
  /\ reader' = [reader EXCEPT !.pc = "test", !.current = Loaded]
  /\ UNCHANGED <<key, height, forward, level, writer>>

\* current = current->forward[0], loaded once more.
Final ==
  /\ reader.pc = "last"
  /\ reader' = [reader EXCEPT !.pc = "done", !.current = Loaded]
  /\ UNCHANGED <<key, height, forward, level, writer>>

\* Whatever the test of line 100 makes of the node, nothing here changes by it.
Return ==
  /\ reader.pc = "done"
  /\ reader' = Resting
  /\ UNCHANGED <<key, height, forward, level, writer>>

Next ==
  \/ \E k \in Key : insert(k) \/ remove(k) \/ search(k)
  \/ Forward \/ Down \/ Nothing
  \/ \E n \in Node, newLevel \in 1..MaxLevel : NewNode(n, newLevel)
  \/ SetForward \/ LinkNode \/ Delete
  \/ Test \/ Compare \/ Move \/ Final \/ Return

Spec == Init /\ [][Next]_vars

-----------------------------------------------------------------------------
TypeOK ==
  /\ key \in [Node -> Key \cup {Null}]
  /\ height \in [Node -> 0..MaxLevel]
  /\ forward \in [Node \cup {head} -> [Slot -> Link]]
  /\ level \in 0..MaxLevel
  /\ writer \in [pc : {"idle", "insert", "remove", "set", "link", "undefined"},
                 key : Key \cup {Null}, current : Node \cup {head}, i : -1..MaxLevel,
                 update : [Slot -> Node \cup {head, Null}], node : Link]
  /\ reader \in [pc : {"idle", "test", "compare", "move", "last", "done", "undefined"},
                 key : Key \cup {Null}, current : Node \cup {head, Null}, i : 0..MaxLevel,
                 present : BOOLEAN, alone : BOOLEAN]

\* In the list of level i, the node at place j of q leads to n: to the next in
\* q that is linked to level i.  Place 0 is head.
LeadsTo(q, i, j, n) ==
  \/ n = Null /\ \A k \in DOMAIN q : k > j => q[k] \notin Linked(i)
  \/ \E k \in DOMAIN q :
       /\ k > j /\ n = q[k] /\ n \in Linked(i)
       /\ \A l \in (j + 1)..(k - 1) : q[l] \notin Linked(i)

\* The list of each level has every node of its height once, in the order q they
\* have in the lowest, which is that of their keys.  No list leads to a node
\* that was deleted or not yet linked to it; between any two stores of an
\* insert, and after a remove that finds its node on some levels only.
LevelsHoldTheNodes ==
  \E q \in [1..Cardinality(Linked(0)) -> Linked(0)] :
    /\ \A n \in Linked(0) : \E j \in DOMAIN q : q[j] = n
    /\ \A j, k \in DOMAIN q : j < k => key[q[j]] <= key[q[k]]
    /\ \A i \in Slot :
         /\ LeadsTo(q, i, 0, forward[head][i])
         /\ \A j \in DOMAIN q : q[j] \in Linked(i) => LeadsTo(q, i, j, forward[q[j]][i])

\* Searches start at or above the highest list with a node in it, also while an
\* insert links one and after a remove: no node is out of their reach.  And
\* level is never above the highest node: the access behind the links of head
\* (level = maxLevel) takes a node of the greatest height.
LevelFitsTheList ==
  /\ \A i \in Slot : forward[head][i] # Null => i <= level
  /\ level > 0 => \E n \in Allocated : height[n] >= level

\* Whatever an insert does meanwhile, a search stays before its key: it cannot
\* come past it through a link that is half made.  If the key was there when it
\* began, it ends at a node that is not behind the key, and at the key itself if
\* no node came into the lowest list since.  Otherwise it may end before its
\* key: the last load can find a node that was not there for the comparison.
ReaderFindsTheKey ==
  /\ reader.pc \in {"test", "compare", "move", "last"} =>
       reader.current = head \/ key[reader.current] < reader.key
  /\ reader.pc = "done" /\ reader.present =>
       /\ reader.current \in Node /\ key[reader.current] <= reader.key
       /\ reader.alone => key[reader.current] = reader.key

=============================================================================
