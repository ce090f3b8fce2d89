------------------------- MODULE FilterBlockProofs -------------------------
(***************************************************************************)
(* Proofs about FilterBlock, for every hash function, number of bits per   *)
(* key, block offset and number of keys: the filter block loses no key.    *)
(***************************************************************************)
EXTENDS FilterBlock, SequenceTheorems, TLAPS

LEMMA ProbesRange == Probes \in 1..30
BY FilterAssumption DEF Probes

LEMMA FilterBytesRange ==
  ASSUME NEW n \in Nat
  PROVE  FilterBytes(n) \in Nat /\ FilterBytes(n) >= 8
<1> DEFINE bits == IF n * BitsPerKey < 64 THEN 64 ELSE n * BitsPerKey
<1>1. n * BitsPerKey \in Nat
  BY FilterAssumption
<1>2. bits \in Nat /\ bits >= 64
  BY <1>1
<1>3. FilterBytes(n) = (bits + 7) \div 8
  BY DEF FilterBytes
<1> HIDE DEF bits
<1> QED BY <1>2, <1>3

\* A filter matches every key it was made from.
LEMMA FilterMatchesItsKeys ==
  ASSUME NEW keys \in Seq(Key), NEW i \in 1..Len(keys)
  PROVE  PolicyKeyMayMatch(keys[i], CreateFilter(keys))
<1> DEFINE bits == 8 * FilterBytes(Len(keys))
           set == {Hash[keys[m]][j] % bits : m \in 1..Len(keys), j \in 0..(Probes - 1)}
<1> HIDE DEF bits
<1>1. \A j \in 0..(Probes - 1) : Hash[keys[i]][j] % bits \in set
  OBVIOUS
<1>2. CreateFilter(keys) = [bits |-> bits, k |-> Probes, set |-> set]
  BY DEF CreateFilter, bits
<1> QED BY <1>1, <1>2 DEF PolicyKeyMayMatch

LEMMA FilterIsBloom ==
  ASSUME NEW keys \in Seq(Key)
  PROVE  CreateFilter(keys) \in Bloom
<1> DEFINE bits == 8 * FilterBytes(Len(keys))
           set == {Hash[keys[m]][j] % bits : m \in 1..Len(keys), j \in 0..(Probes - 1)}
<1>1. bits \in Nat /\ bits > 0
  <2>1. Len(keys) \in Nat
    OBVIOUS
  <2>2. FilterBytes(Len(keys)) \in Nat /\ FilterBytes(Len(keys)) >= 8
    BY <2>1, FilterBytesRange
  <2> QED BY <2>2
<1> HIDE DEF bits
<1>2. ASSUME NEW m \in 1..Len(keys), NEW j \in 0..(Probes - 1)
      PROVE  Hash[keys[m]][j] % bits \in Nat
  <2>1. j \in 0..29 /\ keys[m] \in Key
    BY ProbesRange
  <2>2. Hash[keys[m]][j] \in Nat
    BY <2>1, FilterAssumption
  <2> QED BY <1>1, <2>2
<1>3. set \subseteq Nat
  BY <1>2
<1>4. CreateFilter(keys) = [bits |-> bits, k |-> Probes, set |-> set]
  BY DEF CreateFilter, bits
<1> HIDE DEF set
<1> QED BY <1>1, <1>3, <1>4, ProbesRange DEF Bloom

-----------------------------------------------------------------------------
(* The inductive invariant.  A key the caller added has its filter already, *)
(* at the place the reader will look, or waits for the next filter, which  *)
(* will be the one of its window.                                          *)

Covered(offset, key) ==
  \E f \in filters :
    /\ f.start = Word(Window(offset)) /\ f.limit = Word(Window(offset) + 1)
    /\ f.start + 2 <= f.limit /\ f.limit <= size
    /\ PolicyKeyMayMatch(key, f.filter)

Waiting(key) == \E i \in 1..Len(pending) : pending[i] = key

IInv ==
  /\ TypeOK
  /\ target = Window(opened)
  /\ phase = "start" => Len(offsets) < target
  /\ phase = "block" => Len(offsets) = target
  /\ phase = "finished" => pending = <<>>
  /\ \A p \in added :
       \/ Window(p[1]) < Len(offsets) /\ Covered(p[1], p[2])
       \/ Window(p[1]) = Len(offsets) /\ Waiting(p[2])

LEMMA WindowMonotone ==
  ASSUME NEW x \in Nat, NEW y \in Nat, x <= y
  PROVE  Window(x) \in Nat /\ Window(y) \in Nat /\ Window(x) <= Window(y)
BY DEF Window, kFilterBase

\* A new filter leaves the place of the earlier ones, and covers what waited.
LEMMA GenerateFilterCovers ==
  ASSUME TypeOK, GenerateFilter
  PROVE  /\ offsets' \in Seq(Nat) /\ Len(offsets') = Len(offsets) + 1
         /\ pending' = <<>> /\ size' \in Nat
         /\ filters' \subseteq [start : Nat, limit : Nat, filter : Bloom]
         /\ \A o \in Nat, k \in Key :
              \/ Window(o) < Len(offsets) /\ Covered(o, k)
              \/ Window(o) = Len(offsets) /\ Waiting(k)
              => Covered(o, k)'
<1> DEFINE limit == size + FilterBytes(Len(pending)) + 1
           new == [start |-> size, limit |-> limit, filter |-> CreateFilter(pending)]
<1>1. /\ pending \in Seq(Key) /\ offsets \in Seq(Nat) /\ size \in Nat
      /\ filters \subseteq [start : Nat, limit : Nat, filter : Bloom]
      /\ Len(pending) \in Nat /\ Len(offsets) \in Nat
  BY DEF TypeOK
<1>2. limit \in Nat /\ size + 2 <= limit
  <2>1. FilterBytes(Len(pending)) \in Nat /\ FilterBytes(Len(pending)) >= 8
    BY <1>1, FilterBytesRange
  <2> QED BY <1>1, <2>1
<1>3. /\ offsets' = Append(offsets, size)
      /\ IF pending = <<>>
         THEN pending' = pending /\ filters' = filters /\ size' = size
         ELSE filters' = filters \cup {new} /\ size' = limit /\ pending' = <<>>
  BY DEF GenerateFilter
<1> HIDE DEF limit
<1>4. /\ offsets' \in Seq(Nat) /\ Len(offsets') = Len(offsets) + 1
      /\ \A i \in 1..Len(offsets) : offsets'[i] = offsets[i]
      /\ offsets'[Len(offsets) + 1] = size
  BY <1>1, <1>3
<1>5. new \in [start : Nat, limit : Nat, filter : Bloom]
  BY <1>1, <1>2, FilterIsBloom
<1>6. pending' = <<>> /\ size' \in Nat /\ size <= size'
  BY <1>1, <1>2, <1>3
<1>7. /\ filters' \subseteq [start : Nat, limit : Nat, filter : Bloom]
      /\ filters \subseteq filters'
  BY <1>1, <1>3, <1>5
<1>8. ASSUME NEW w \in Nat, w <= Len(offsets)
      PROVE  Word(w)' = Word(w)
  <2> HIDE DEF new
  <2>1. CASE w < Len(offsets)
    <3>1. w < Len(offsets') /\ w + 1 \in 1..Len(offsets)
      BY <1>1, <1>4, <2>1
    <3>2. offsets'[w + 1] = offsets[w + 1]
      BY <1>4, <3>1
    <3> QED BY <2>1, <3>1, <3>2 DEF Word
  <2>2. CASE w = Len(offsets)
    <3>1. w < Len(offsets') /\ offsets'[w + 1] = size
      BY <1>1, <1>4, <2>2
    <3>2. ~(w < Len(offsets))
      BY <1>1, <2>2
    <3> QED BY <3>1, <3>2 DEF Word
  <2> QED BY <1>1, <1>8, <2>1, <2>2
<1>9. ASSUME NEW o \in Nat, NEW k \in Key, Window(o) < Len(offsets), Covered(o, k)
      PROVE  Covered(o, k)'
  <2>1. PICK f \in filters :
          /\ f.start = Word(Window(o)) /\ f.limit = Word(Window(o) + 1)
          /\ f.start + 2 <= f.limit /\ f.limit <= size
          /\ PolicyKeyMayMatch(k, f.filter)
    BY <1>9 DEF Covered
  <2>2. Window(o) \in Nat /\ Window(o) + 1 \in Nat /\ Window(o) + 1 <= Len(offsets)
    <3>1. Window(o) \in Nat
      BY WindowMonotone
    <3> QED BY <1>1, <1>9, <3>1
  <2>3. Word(Window(o))' = Word(Window(o)) /\ Word(Window(o) + 1)' = Word(Window(o) + 1)
    BY <1>8, <1>9, <2>2, <1>1
  <2>4. f \in filters' /\ f.limit <= size'
    BY <1>1, <1>6, <1>7, <2>1
  <2> QED BY <2>1, <2>3, <2>4 DEF Covered, Window
<1>10. ASSUME NEW o \in Nat, NEW k \in Key, Window(o) = Len(offsets), Waiting(k)
       PROVE  Covered(o, k)'
  <2>1. PICK i \in 1..Len(pending) : pending[i] = k
    BY <1>10 DEF Waiting
  <2>2. pending # <<>>
    BY <1>1, <2>1
  <2>3. new \in filters' /\ size' = limit
    BY <1>3, <2>2
  <2>4. PolicyKeyMayMatch(k, new.filter)
    BY <1>1, <2>1, FilterMatchesItsKeys
  <2>5. Word(Window(o))' = size /\ Word(Window(o) + 1)' = limit
    BY <1>1, <1>4, <1>10, <2>3 DEF Word, Window
  <2>6. new.start = size /\ new.limit = limit
    OBVIOUS
  <2> HIDE DEF new
  <2> QED BY <1>1, <1>2, <1>10, <2>3, <2>4, <2>5, <2>6 DEF Covered, Window
<1> QED BY <1>4, <1>6, <1>7, <1>9, <1>10

LEMMA InitEstablishesIInv == Init => IInv
BY DEF Init, IInv, TypeOK, Window, kFilterBase

\* Every step of the builder keeps the invariant: one case per action.
THEOREM StepKeepsIInv == IInv /\ [Next]_vars => IInv'
<1> SUFFICES ASSUME IInv, [Next]_vars PROVE IInv'
  OBVIOUS
<1>1. /\ TypeOK /\ target = Window(opened)
      /\ phase = "start" => Len(offsets) < target
      /\ phase = "block" => Len(offsets) = target
      /\ phase = "finished" => pending = <<>>
      /\ \A p \in added :
           \/ Window(p[1]) < Len(offsets) /\ Covered(p[1], p[2])
           \/ Window(p[1]) = Len(offsets) /\ Waiting(p[2])
  BY DEF IInv
<1>2. /\ pending \in Seq(Key) /\ offsets \in Seq(Nat) /\ size \in Nat
      /\ filters \subseteq [start : Nat, limit : Nat, filter : Bloom]
      /\ target \in Nat /\ opened \in Nat /\ added \subseteq Nat \X Key
      /\ Len(pending) \in Nat /\ Len(offsets) \in Nat
  BY <1>1 DEF TypeOK
<1>3. ASSUME NEW offset \in BlockOffset, StartBlock(offset)
      PROVE  IInv'
  <2>1. offset \in Nat /\ opened <= offset
    BY <1>2, <1>3, FilterAssumption DEF StartBlock
  <2>2. target' = Window(offset) /\ target' \in Nat /\ target <= target'
    BY <1>1, <1>2, <1>3, <2>1, WindowMonotone DEF StartBlock, Window
  <2>3. /\ opened' = offset /\ phase = "block"
        /\ phase' = IF target' > Len(offsets) THEN "start" ELSE "block"
        /\ pending' = pending /\ filters' = filters /\ size' = size
        /\ offsets' = offsets /\ added' = added
    BY <1>3 DEF StartBlock
  <2>4. TypeOK'
    BY <1>1, <2>1, <2>2, <2>3 DEF TypeOK
  <2>5. /\ target' = Window(opened)' /\ Len(offsets') = Len(offsets)
        /\ phase' = "start" => Len(offsets') < target'
        /\ phase' = "block" => Len(offsets') = target'
    BY <1>1, <1>2, <2>2, <2>3 DEF Window
  <2>6. ASSUME NEW p \in added
        PROVE  /\ Covered(p[1], p[2]) => Covered(p[1], p[2])'
               /\ Waiting(p[2]) => Waiting(p[2])'
    BY <2>3 DEF Covered, Waiting, Word, Window
  <2> QED BY <1>1, <2>3, <2>4, <2>5, <2>6 DEF IInv, Window
<1>4. ASSUME GenerateFilter, added' = added, opened' = opened, target' = target,
             phase' \in {"start", "block", "finished"},
             phase' = "start" => Len(offsets') < target,
             phase' = "block" => Len(offsets') = target
      PROVE  IInv'
  <2>1. /\ offsets' \in Seq(Nat) /\ Len(offsets') = Len(offsets) + 1
        /\ pending' = <<>> /\ size' \in Nat
        /\ filters' \subseteq [start : Nat, limit : Nat, filter : Bloom]
        /\ \A o \in Nat, k \in Key :
             \/ Window(o) < Len(offsets) /\ Covered(o, k)
             \/ Window(o) = Len(offsets) /\ Waiting(k)
             => Covered(o, k)'
    BY <1>1, <1>4, GenerateFilterCovers
  <2>2. TypeOK'
    BY <1>2, <1>4, <2>1 DEF TypeOK
  <2>3. ASSUME NEW p \in added
        PROVE  Window(p[1]) < Len(offsets') /\ Covered(p[1], p[2])'
    <3>1. p[1] \in Nat /\ p[2] \in Key
      BY <1>2
    <3>2. Window(p[1]) \in Nat
      BY <3>1, WindowMonotone
    <3> QED BY <1>1, <1>2, <2>1, <3>1, <3>2
  <2>4. target' = Window(opened)'
    BY <1>1, <1>4 DEF Window
  <2>5. pending' = <<>>
    BY <2>1
  <2> QED BY <1>4, <2>2, <2>3, <2>4, <2>5 DEF IInv, Window
<1>5. ASSUME Generate PROVE IInv'
  <2>1. /\ phase = "start" /\ GenerateFilter /\ target' = target
        /\ opened' = opened /\ added' = added
        /\ phase' = IF target > Len(offsets') THEN "start" ELSE "block"
    BY <1>5 DEF Generate
  <2>2. Len(offsets') = Len(offsets) + 1
    BY <1>1, <2>1, GenerateFilterCovers
  <2> QED BY <1>1, <1>2, <1>4, <2>1, <2>2
<1>6. ASSUME NEW key \in Key, AddKey(key) PROVE IInv'
  <2>1. /\ phase = "block" /\ pending' = Append(pending, key)
        /\ added' = added \cup {<<opened, key>>}
        /\ filters' = filters /\ size' = size /\ offsets' = offsets
        /\ phase' = phase /\ target' = target /\ opened' = opened
    BY <1>6 DEF AddKey
  <2>2. TypeOK'
    BY <1>2, <2>1 DEF TypeOK
  <2>3. Waiting(key)' /\ \A k \in Key : Waiting(k) => Waiting(k)'
    BY <1>2, <2>1 DEF Waiting
  <2>4. ASSUME NEW p \in added'
        PROVE  \/ Window(p[1]) < Len(offsets') /\ Covered(p[1], p[2])'
               \/ Window(p[1]) = Len(offsets') /\ Waiting(p[2])'
    <3>1. CASE p \in added
      <4>1. p[2] \in Key
        BY <1>2, <3>1
      <4>2. Covered(p[1], p[2]) => Covered(p[1], p[2])'
        BY <2>1 DEF Covered, Word, Window
      <4> QED BY <1>1, <2>1, <2>3, <3>1, <4>1, <4>2
    <3>2. CASE p = <<opened, key>>
      <4>1. Window(p[1]) = Len(offsets') /\ p[2] = key
        BY <1>1, <2>1, <3>2
      <4> QED BY <2>3, <4>1
    <3> QED BY <2>1, <3>1, <3>2
  <2>5. target' = Window(opened)'
    BY <1>1, <2>1 DEF Window
  <2> QED BY <1>1, <2>1, <2>2, <2>4, <2>5 DEF IInv, Window
<1>7. ASSUME Finish PROVE IInv'
  <2>1. CASE pending # <<>>
    BY <1>4, <1>7, <2>1 DEF Finish
  <2>2. CASE pending = <<>>
    <3>1. /\ pending' = pending /\ filters' = filters /\ size' = size
          /\ offsets' = offsets /\ added' = added /\ opened' = opened
          /\ target' = target /\ phase' = "finished"
      BY <1>7, <2>2 DEF Finish
    <3>2. TypeOK'
      BY <1>1, <3>1 DEF TypeOK
    <3>3. \A o, k : /\ Covered(o, k) => Covered(o, k)'
                    /\ Waiting(k) => Waiting(k)'
      BY <3>1 DEF Covered, Waiting, Word, Window
    <3>4. target' = Window(opened)'
      BY <1>1, <3>1 DEF Window
    <3> QED BY <1>1, <2>2, <3>1, <3>2, <3>3, <3>4 DEF IInv, Window
  <2> QED BY <2>1, <2>2
<1>8. CASE UNCHANGED vars
  BY <1>1, <1>8 DEF vars, IInv, TypeOK, Covered, Waiting, Word, Window
<1> QED BY <1>3, <1>5, <1>6, <1>7, <1>8 DEF Next

LEMMA IInvAlways == Spec => []IInv
BY InitEstablishesIInv, StepKeepsIInv, PTL DEF Spec

\* The builder keeps its state well formed.
THEOREM TypeCorrect == Spec => []TypeOK
<1>1. IInv => TypeOK
  BY DEF IInv
<1> QED BY <1>1, IInvAlways, PTL

\* StartBlock never fails its assertion, as long as blocks follow one another.
THEOREM AssertionHolds == Spec => []StartBlockAssertion
<1>1. ASSUME IInv PROVE StartBlockAssertion
  <2> SUFFICES ASSUME phase = "block", NEW offset \in BlockOffset, offset >= opened
               PROVE  Window(offset) >= Len(offsets)
    BY DEF StartBlockAssertion
  <2>1. opened \in Nat /\ offset \in Nat /\ opened <= offset
    BY <1>1, FilterAssumption DEF IInv, TypeOK
  <2> QED BY <1>1, <2>1, WindowMonotone DEF IInv
<1> QED BY <1>1, IInvAlways, PTL

\* The finished filter block has no false negatives: every key that was added
\* to a block may match at the offset of that block.
THEOREM NoKeyIsLost == Spec => []NoFalseNegatives
<1>1. ASSUME IInv PROVE NoFalseNegatives
  <2> SUFFICES ASSUME phase = "finished", NEW p \in added
               PROVE  KeyMayMatch(p[1], p[2])
    BY DEF NoFalseNegatives
  <2>1. ~Waiting(p[2])
    BY <1>1 DEF IInv, Waiting
  <2>2. Covered(p[1], p[2])
    BY <1>1, <2>1 DEF IInv
  <2>3. PICK f \in filters :
          /\ f.start = Word(Window(p[1])) /\ f.limit = Word(Window(p[1]) + 1)
          /\ f.start + 2 <= f.limit /\ f.limit <= size
          /\ PolicyKeyMayMatch(p[2], f.filter)
    BY <2>2 DEF Covered
  <2>4. f.start \in Nat /\ f.limit \in Nat
    BY <1>1, <2>3 DEF IInv, TypeOK
  <2>5. f.start <= f.limit /\ f.limit - f.start >= 2
    BY <2>3, <2>4
  <2> QED BY <2>3, <2>5 DEF KeyMayMatch, Window
<1> QED BY <1>1, IInvAlways, PTL

-----------------------------------------------------------------------------
(* Where the bits of a filter come from.  The words of the offset array     *)
(* ascend and end at size, so a filter has the range of one window only;    *)
(* the keys that wait are those of the window that is being filled.         *)

WordsAscend ==
  /\ \A w \in 0..Len(offsets) : Word(w) \in Nat /\ Word(w) <= size
  /\ \A w \in 0..(Len(offsets) - 1) : Word(w) <= Word(w + 1)

FiltersLieBelow ==
  \A f \in filters : f.start < f.limit /\ f.limit <= size /\ f.filter.k = Probes

AddedTo(window, key) == \E p \in added : Window(p[1]) = window /\ p[2] = key

WaitingWasAdded ==
  \A i \in 1..Len(pending) : AddedTo(Len(offsets), pending[i])

BitsWereAdded ==
  \A w \in 0..(Len(offsets) - 1), f \in filters :
    f.start = Word(w) /\ f.limit = Word(w + 1) =>
      \A b \in f.filter.set :
        \E k \in Key, i \in 0..(Probes - 1) :
          AddedTo(w, k) /\ Hash[k][i] % f.filter.bits = b

Origins == WordsAscend /\ FiltersLieBelow /\ WaitingWasAdded /\ BitsWereAdded

\* The new filter is that of the window that waited, and of no other.
LEMMA GenerateFilterKeepsOrigins ==
  ASSUME IInv, Origins, GenerateFilter, added' = added
  PROVE  Origins'
<1>0. PICK n \in Nat : n = Len(offsets)
  BY DEF IInv, TypeOK
<1> DEFINE limit == size + FilterBytes(Len(pending)) + 1
           new == [start |-> size, limit |-> limit, filter |-> CreateFilter(pending)]
<1>1. /\ pending \in Seq(Key) /\ offsets \in Seq(Nat) /\ size \in Nat
      /\ filters \subseteq [start : Nat, limit : Nat, filter : Bloom]
      /\ Len(pending) \in Nat /\ n \in Nat
  BY <1>0 DEF IInv, TypeOK
<1>2. limit \in Nat /\ size + 2 <= limit
  <2>1. FilterBytes(Len(pending)) \in Nat /\ FilterBytes(Len(pending)) >= 8
    BY <1>1, FilterBytesRange
  <2> QED BY <1>1, <2>1
<1>3. /\ offsets' = Append(offsets, size) /\ pending' = <<>>
      /\ IF pending = <<>>
         THEN filters' = filters /\ size' = size
         ELSE filters' = filters \cup {new} /\ size' = limit
  BY DEF GenerateFilter
<1> HIDE DEF limit
<1>4. /\ Len(offsets') = n + 1 /\ offsets'[n + 1] = size
      /\ \A i \in 1..n : offsets'[i] = offsets[i]
  BY <1>0, <1>1, <1>3
<1>5. /\ new.start = size /\ new.limit = limit /\ new.filter = CreateFilter(pending)
      /\ new.filter.k = Probes
  BY DEF CreateFilter
<1> HIDE DEF new
<1>6. size' \in Nat /\ size <= size'
  BY <1>1, <1>2, <1>3
<1>7. /\ \A w \in 0..(n - 1) : Word(w) = offsets[w + 1]
      /\ \A w \in 0..n : Word(w)' = offsets'[w + 1]
      /\ Word(n) = size /\ Word(n + 1)' = size'
  <2>1. \A w \in 0..(n - 1) : w < n
    BY <1>1
  <2>2. \A w \in 0..n : w < n + 1
    BY <1>1
  <2>3. ~(n < n) /\ ~(n + 1 < n + 1)
    BY <1>1
  <2>4. \A w : Word(w)' = IF w < n + 1 THEN offsets'[w + 1] ELSE size'
    BY <1>4 DEF Word
  <2>5. \A w : Word(w) = IF w < n THEN offsets[w + 1] ELSE size
    BY <1>0 DEF Word
  <2> QED BY <2>1, <2>2, <2>3, <2>4, <2>5
<1>8. \A w \in 0..n : Word(w)' = Word(w)
  <2> SUFFICES ASSUME NEW w \in 0..n PROVE Word(w)' = Word(w)
    OBVIOUS
  <2>1. CASE w = n
    BY <1>1, <1>4, <1>7, <2>1
  <2>2. CASE w # n
    <3>1. w \in 0..(n - 1) /\ w + 1 \in 1..n
      BY <1>1, <2>2
    <3> QED BY <1>4, <1>7, <3>1
  <2> QED BY <2>1, <2>2
<1>9. /\ \A w \in 0..n : Word(w) \in Nat /\ Word(w) <= size
      /\ \A w \in 0..(n - 1) : Word(w) <= Word(w + 1)
  BY <1>0 DEF Origins, WordsAscend
<1>10. /\ \A w \in 0..(n + 1) : Word(w)' \in Nat /\ Word(w)' <= size'
       /\ \A w \in 0..n : Word(w)' <= Word(w + 1)'
  <2>1. ASSUME NEW w \in 0..(n + 1)
        PROVE  Word(w)' \in Nat /\ Word(w)' <= size'
    <3>1. CASE w \in 0..n
      BY <1>1, <1>6, <1>8, <1>9, <3>1
    <3>2. CASE w = n + 1
      BY <1>6, <1>7, <3>2
    <3> QED BY <1>1, <3>1, <3>2
  <2>2. ASSUME NEW w \in 0..n
        PROVE  Word(w)' <= Word(w + 1)'
    <3>1. CASE w \in 0..(n - 1)
      <4>1. w + 1 \in 0..n
        BY <1>1, <3>1
      <4>2. Word(w + 1)' = Word(w + 1) /\ Word(w)' = Word(w)
        BY <1>8, <4>1
      <4> QED BY <1>9, <3>1, <4>2
    <3>2. CASE w = n
      BY <1>6, <1>7, <1>8, <1>9, <3>2
    <3> QED BY <1>1, <3>1, <3>2
  <2> QED BY <2>1, <2>2
<1>11. WordsAscend'
  <2>1. n + 1 - 1 = n
    BY <1>1
  <2> QED BY <1>4, <1>10, <2>1 DEF WordsAscend
<1>12. \A f \in filters' : f \in filters \/ (pending # <<>> /\ f = new /\ size' = limit)
  BY <1>3
<1>13. /\ \A f \in filters : f.start < f.limit /\ f.limit <= size /\ f.filter.k = Probes
       /\ \A f \in filters : f.start \in Nat /\ f.limit \in Nat
  BY <1>1 DEF Origins, FiltersLieBelow
<1>14. FiltersLieBelow'
  <2> SUFFICES ASSUME NEW f \in filters'
               PROVE  f.start < f.limit /\ f.limit <= size' /\ f.filter.k = Probes
    BY DEF FiltersLieBelow
  <2>1. CASE f \in filters
    BY <1>1, <1>6, <1>13, <2>1
  <2>2. CASE f = new /\ size' = limit
    BY <1>1, <1>2, <1>5, <2>2
  <2> QED BY <1>12, <2>1, <2>2
<1>15. WaitingWasAdded'
  <2>1. Len(pending') = 0
    BY <1>3
  <2> QED BY <2>1 DEF WaitingWasAdded
<1>16. \A w, k : AddedTo(w, k)' <=> AddedTo(w, k)
  BY DEF AddedTo, Window
<1>17. ASSUME NEW w \in 0..n, NEW f \in filters', f.start = Word(w)', f.limit = Word(w + 1)',
              NEW b \in f.filter.set
       PROVE  \E k \in Key, i \in 0..(Probes - 1) :
                AddedTo(w, k) /\ Hash[k][i] % f.filter.bits = b
  <2>1. CASE f \in filters /\ w \in 0..(n - 1)
    <3>1. w + 1 \in 0..n
      BY <1>1, <2>1
    <3>2. f.start = Word(w) /\ f.limit = Word(w + 1)
      BY <1>8, <1>17, <2>1, <3>1
    <3> QED BY <1>0, <1>17, <2>1, <3>2 DEF Origins, BitsWereAdded
  <2>2. CASE f \in filters /\ w = n
    <3>1. f.start = size /\ f.start < f.limit /\ f.limit <= size
      BY <1>1, <1>7, <1>8, <1>13, <1>17, <2>2
    <3> QED BY <1>1, <1>13, <2>2, <3>1
  <2>3. CASE f = new /\ pending # <<>> /\ size' = limit /\ w \in 0..(n - 1)
    <3>1. w + 1 \in 0..n
      BY <1>1, <2>3
    <3>2. Word(w + 1)' \in Nat /\ Word(w + 1)' <= size
      BY <1>8, <1>9, <3>1
    <3> QED BY <1>1, <1>2, <1>5, <1>17, <2>3, <3>2
  <2>4. CASE f = new /\ pending # <<>> /\ w = n
    <3> DEFINE bits == 8 * FilterBytes(Len(pending))
    <3> HIDE DEF bits
    <3>1. f.filter.bits = bits /\ f.filter.set =
            {Hash[pending[m]][j] % bits : m \in 1..Len(pending), j \in 0..(Probes - 1)}
      BY <1>5, <2>4 DEF CreateFilter, bits
    <3>2. PICK m \in 1..Len(pending), j \in 0..(Probes - 1) : b = Hash[pending[m]][j] % bits
      BY <1>17, <3>1
    <3>3. AddedTo(w, pending[m])
      BY <1>0, <2>4 DEF Origins, WaitingWasAdded
    <3>4. pending[m] \in Key
      BY <1>1, <3>2
    <3> QED BY <3>1, <3>2, <3>3, <3>4
  <2>5. w \in 0..(n - 1) \/ w = n
    BY <1>1
  <2> QED BY <1>12, <1>17, <2>1, <2>2, <2>3, <2>4, <2>5
<1>18. BitsWereAdded'
  <2>1. Len(offsets') - 1 = n
    BY <1>1, <1>4
  <2> QED BY <1>16, <1>17, <2>1 DEF BitsWereAdded
<1> QED BY <1>11, <1>14, <1>15, <1>18 DEF Origins

LEMMA InitEstablishesOrigins == Init => Origins
BY DEF Init, Origins, WordsAscend, FiltersLieBelow, WaitingWasAdded, BitsWereAdded, Word

LEMMA StepKeepsOrigins == IInv /\ Origins /\ [Next]_vars => Origins'
<1> SUFFICES ASSUME IInv, Origins, [Next]_vars PROVE Origins'
  OBVIOUS
<1>1. ASSUME offsets' = offsets, size' = size, filters' = filters, pending' = pending,
             added' = added
      PROVE  Origins'
  <2>1. \A w : Word(w)' = Word(w)
    BY <1>1 DEF Word
  <2>2. \A w, k : AddedTo(w, k)' <=> AddedTo(w, k)
    BY <1>1 DEF AddedTo, Window
  <2>3. WordsAscend' /\ FiltersLieBelow' /\ WaitingWasAdded'
    BY <1>1, <2>1, <2>2 DEF Origins, WordsAscend, FiltersLieBelow, WaitingWasAdded
  <2>4. BitsWereAdded'
    BY <1>1, <2>1, <2>2 DEF Origins, BitsWereAdded
  <2> QED BY <2>3, <2>4 DEF Origins
<1>2. ASSUME NEW offset \in BlockOffset, StartBlock(offset) PROVE Origins'
  BY <1>1, <1>2 DEF StartBlock
<1>3. ASSUME Generate PROVE Origins'
  BY <1>3, GenerateFilterKeepsOrigins DEF Generate
<1>4. ASSUME NEW key \in Key, AddKey(key) PROVE Origins'
  <2>1. /\ offsets' = offsets /\ size' = size /\ filters' = filters
        /\ pending' = Append(pending, key) /\ added' = added \cup {<<opened, key>>}
        /\ Len(offsets) = Window(opened)
    BY <1>4 DEF AddKey, IInv
  <2>2. \A w : Word(w)' = Word(w)
    BY <2>1 DEF Word
  <2>3. \A w, k : AddedTo(w, k) => AddedTo(w, k)'
    BY <2>1 DEF AddedTo, Window
  <2>4. AddedTo(Len(offsets), key)'
    <3>1. <<opened, key>> \in added' /\ Window(opened) = Len(offsets')
      BY <2>1
    <3> QED BY <3>1 DEF AddedTo, Window
  <2>5. WordsAscend' /\ FiltersLieBelow'
    BY <2>1, <2>2 DEF Origins, WordsAscend, FiltersLieBelow
  <2>6. WaitingWasAdded'
    <3> SUFFICES ASSUME NEW i \in 1..Len(pending')
                 PROVE  AddedTo(Len(offsets), pending[i])'
      BY DEF WaitingWasAdded
    <3>1. pending \in Seq(Key) /\ Len(pending) \in Nat
      BY DEF IInv, TypeOK
    <3>2. CASE i \in 1..Len(pending)
      <4>1. pending'[i] = pending[i] /\ AddedTo(Len(offsets), pending[i])
        BY <2>1, <3>1, <3>2 DEF Origins, WaitingWasAdded
      <4> QED BY <2>1, <2>3, <4>1
    <3>3. CASE i = Len(pending) + 1
      <4>1. pending'[i] = key
        BY <2>1, <3>1, <3>3
      <4> QED BY <2>4, <4>1
    <3>4. i \in 1..Len(pending) \/ i = Len(pending) + 1
      BY <2>1, <3>1
    <3> QED BY <3>2, <3>3, <3>4
  <2>7. BitsWereAdded'
    BY <2>1, <2>2, <2>3 DEF Origins, BitsWereAdded
  <2> QED BY <2>5, <2>6, <2>7 DEF Origins
<1>5. ASSUME Finish PROVE Origins'
  <2>1. CASE pending = <<>>
    BY <1>1, <1>5, <2>1 DEF Finish
  <2>2. CASE pending # <<>>
    BY <1>5, <2>2, GenerateFilterKeepsOrigins DEF Finish
  <2> QED BY <2>1, <2>2
<1>6. CASE UNCHANGED vars
  BY <1>1, <1>6 DEF vars
<1> QED BY <1>2, <1>3, <1>4, <1>5, <1>6 DEF Next

\* No window's keys leak into the filter of another: when the reader finds a
\* match in a window that has a filter, every bit that it probed was set by a
\* key added in that window.
THEOREM OnlyItsWindowMatches == Spec => []MatchesComeFromTheWindow
<1>1. ASSUME IInv, Origins PROVE MatchesComeFromTheWindow
  <2> SUFFICES ASSUME NEW offset \in BlockOffset, NEW key \in Key,
                      Window(offset) < Len(offsets), KeyMayMatch(offset, key)
               PROVE  \E f \in filters :
                        /\ f.start = Word(Window(offset))
                        /\ \A j \in 0..(Probes - 1) :
                             \E p \in added, i \in 0..(Probes - 1) :
                               /\ Window(p[1]) = Window(offset)
                               /\ Hash[p[2]][i] % f.filter.bits = Hash[key][j] % f.filter.bits
    BY DEF MatchesComeFromTheWindow
  <2> DEFINE w == Window(offset)
  <2>1. w \in Nat /\ Len(offsets) \in Nat /\ size \in Nat /\ w < Len(offsets)
    <3>1. offset \in Nat /\ offset <= offset
      BY FilterAssumption
    <3>2. w \in Nat
      BY <3>1, WindowMonotone
    <3> QED BY <1>1, <3>2 DEF IInv, TypeOK
  <2> HIDE DEF w
  <2>2. w \in 0..(Len(offsets) - 1) /\ w + 1 \in 0..Len(offsets)
    BY <2>1
  <2>3. Word(w) <= Word(w + 1) /\ Word(w + 1) <= size
    BY <1>1, <2>2 DEF Origins, WordsAscend
  <2>4. PICK f \in filters : /\ f.start = Word(w) /\ f.limit = Word(w + 1)
                             /\ PolicyKeyMayMatch(key, f.filter)
    BY <2>1, <2>3 DEF KeyMayMatch, Window, w
  <2>5. f.filter.k = Probes /\ Probes <= 30
    BY <1>1, ProbesRange DEF Origins, FiltersLieBelow
  <2>6. ASSUME NEW j \in 0..(Probes - 1)
        PROVE  \E p \in added, i \in 0..(Probes - 1) :
                 /\ Window(p[1]) = w
                 /\ Hash[p[2]][i] % f.filter.bits = Hash[key][j] % f.filter.bits
    <3>1. Hash[key][j] % f.filter.bits \in f.filter.set
      BY <2>4, <2>5 DEF PolicyKeyMayMatch
    <3> QED BY <1>1, <2>2, <2>4, <3>1 DEF Origins, BitsWereAdded, AddedTo
  <2> QED BY <2>4, <2>6 DEF w
<1>2. Spec => []Origins
  <2>1. Init => Origins
    BY InitEstablishesOrigins
  <2>2. IInv /\ Origins /\ [Next]_vars => Origins'
    BY StepKeepsOrigins
  <2> QED BY <2>1, <2>2, IInvAlways, PTL DEF Spec
<1> QED BY <1>1, <1>2, IInvAlways, PTL

=============================================================================
