----------------------------- MODULE BlockProofs -----------------------------
(***************************************************************************)
(* Proofs about Block, for every size of a byte and of a group and every   *)
(* set of keys and values: its types, the places of the restarts, and that *)
(* keys can be rebuilt from what they share.                               *)
(*                                                                         *)
(* The induction theorems of the library cannot be used here.  Where a     *)
(* least number is needed it comes from the order of the naturals being    *)
(* well founded: for the first zero of a C string, the longest common      *)
(* prefix, and the function by which FlattenSeq is defined.                *)
(***************************************************************************)
EXTENDS Block, SequenceTheorems, WellFoundedInduction, TLAPS

-----------------------------------------------------------------------------
(* Numbers.                                                                *)

LEMMA LeastIsThere ==
  ASSUME NEW S \in SUBSET Nat, S # {}
  PROVE  \E x \in S : \A y \in S : x <= y
<1>1. PICK x \in S : \A y \in S : <<y, x>> \notin OpToRel(<, Nat)
  BY WFMin, NatLessThanWellFounded, Zenon
<1>2. \A y \in S : ~(y < x)
  BY <1>1 DEF OpToRel
<1>3. x \in Nat /\ \A y \in S : y \in Nat
  OBVIOUS
<1>4. \A y \in S : x <= y
  BY <1>2, <1>3
<1> QED BY <1>4

LEMMA MinIsThere ==
  ASSUME NEW S \in SUBSET Nat, S # {}
  PROVE  Min(S) \in S /\ \A y \in S : Min(S) <= y
BY LeastIsThere DEF Min

LEMMA GreatestIsThere ==
  ASSUME NEW S \in SUBSET Nat, S # {}, NEW b \in Nat, \A y \in S : y <= b
  PROVE  \E x \in S : \A y \in S : y <= x
<1> DEFINE T == {b - y : y \in S}
<1>1. T \in SUBSET Nat /\ T # {}
  <2>1. \A y \in S : y \in Nat /\ y <= b /\ b - y \in Nat
    OBVIOUS
  <2> QED BY <2>1
<1>2. PICK d \in T : \A e \in T : d <= e
  BY <1>1, LeastIsThere
<1>3. PICK x \in S : d = b - x
  BY <1>2
<1>4. \A y \in S : d <= b - y
  BY <1>2
<1> QED BY <1>3, <1>4

LEMMA TimesMonotonic ==
  ASSUME NEW a \in Nat, NEW b \in Nat, NEW c \in Nat, a <= b
  PROVE  a * c \in Nat /\ b * c \in Nat /\ a * c <= b * c
<1>1. (b - a) * c >= 0 /\ b - a \in Nat
  OBVIOUS
<1>2. b * c = a * c + (b - a) * c
  OBVIOUS
<1> QED BY <1>1, <1>2

LEMMA DivisionFacts ==
  ASSUME NEW v \in Nat, NEW d \in Nat \ {0}
  PROVE  v % d \in 0..(d - 1) /\ v \div d \in Nat
<1>1. v % d \in 0..(d - 1)
  OBVIOUS
<1>2. v \div d \in Nat
  OBVIOUS
<1> QED BY <1>1, <1>2

LEMMA QuotientIsUnique ==
  ASSUME NEW q \in Nat, NEW d \in Nat \ {0}, NEW r \in 0..(d - 1)
  PROVE  (q * d + r) \div d = q
OBVIOUS

-----------------------------------------------------------------------------
(* Bytes.                                                                  *)

LEMMA BaseFacts == Base \in Nat \ {0} /\ 0 \in Byte /\ Base * Base \in Nat \ {0}
                   /\ Base * Base * Base \in Nat \ {0}
BY BlockAssumption DEF Byte

LEMMA FixedIsBytes ==
  ASSUME NEW v \in Nat
  PROVE  EncodeFixed32(v) \in Seq(Byte)
<1>1. /\ v % Base \in Byte /\ (v \div Base) % Base \in Byte
      /\ (v \div (Base * Base)) % Base \in Byte
      /\ (v \div (Base * Base * Base)) % Base \in Byte
  BY BaseFacts, DivisionFacts DEF Byte
<1> QED BY <1>1 DEF EncodeFixed32

LEMMA CStringIsBytes ==
  ASSUME NEW bytes \in Seq(Byte)
  PROVE  CString(bytes) \in Seq(Byte)
<1> DEFINE z == bytes \o <<0>>
           I == {i \in 1..Len(z) : z[i] = 0}
           n == Min(I) - 1
<1>1. Len(bytes) \in Nat /\ Len(z) = Len(bytes) + 1 /\ z[Len(bytes) + 1] = 0
  BY BaseFacts
<1>2. I \in SUBSET Nat /\ Len(bytes) + 1 \in I
  BY <1>1
<1>3. n \in 0..Len(bytes)
  <2> DEFINE m == Min(I)
             l == Len(bytes)
  <2> HIDE DEF I
  <2>1. m \in I /\ m <= l + 1
    BY <1>2, MinIsThere
  <2>2. l \in Nat
    BY <1>1
  <2> HIDE DEF m
  <2>3. m \in Nat /\ 1 <= m
    BY <2>1, <1>1 DEF I
  <2> HIDE DEF l
  <2>4. m - 1 \in 0..l
    BY <2>1, <2>2, <2>3
  <2> QED BY <2>4 DEF m, l
<1>4. SelectInSeq(z, LAMBDA b : b = 0) - 1 = n
  BY <1>2 DEF SelectInSeq
<1>5. SubSeq(bytes, 1, n) \in Seq(Byte)
  <2> HIDE DEF n
  <2>1. \A i \in 1..n : bytes[i] \in Byte
    BY <1>1, <1>3, ElementOfSeq
  <2> QED BY <1>3, <2>1, SubSeqProperties
<1> QED BY <1>4, <1>5 DEF CString

LEMMA EncodedIsBytes ==
  ASSUME NEW v \in Nat
  PROVE  Encoded(v) \in Seq(Byte)
BY FixedIsBytes, CStringIsBytes DEF Encoded

\* FlattenSeq is defined by a recursive function: there is one, and its values
\* are sequences.
LEMMA FlattenIsSeq ==
  ASSUME NEW S, NEW seqs \in Seq(Seq(S))
  PROVE  FlattenSeq(seqs) \in Seq(S)
<1> DEFINE n == Len(seqs)
           Step(f, i) == IF i = 1 THEN seqs[i] ELSE f[i - 1] \o seqs[i]
           Solves(f, m) == f \in [1..m -> Seq(S)] /\ \A i \in 1..m : f[i] = Step(f, i)
           flatten == CHOOSE g : g = [i \in 1..n |-> Step(g, i)]
<1>1. n \in Nat /\ \A i \in 1..n : seqs[i] \in Seq(S)
  <2>1. n \in Nat
    OBVIOUS
  <2>2. \A i \in 1..n : seqs[i] \in Seq(S)
    BY ElementOfSeq
  <2> QED BY <2>1, <2>2
<1>2. FlattenSeq(seqs) = IF n = 0 THEN seqs ELSE flatten[n]
  BY DEF FlattenSeq
<1> HIDE DEF n
<1>3. \A m \in 0..n : \E f : Solves(f, m)
  <2> DEFINE T == {m \in 0..n : ~\E f : Solves(f, m)}
  <2>1. SUFFICES ASSUME T # {} PROVE FALSE
    OBVIOUS
  <2>2. PICK m \in T : \A y \in T : m <= y
    <3>1. T \in SUBSET Nat
      BY <1>1
    <3> HIDE DEF T
    <3> QED BY <2>1, <3>1, LeastIsThere
  <2>3. m \in 0..n /\ m \in Nat /\ ~\E f : Solves(f, m)
    <3> HIDE DEF Solves
    <3>1. m \in 0..n /\ ~\E f : Solves(f, m)
      BY <2>2
    <3> QED BY <1>1, <3>1
  <2>4. m # 0
    <3>1. Solves([i \in 1..0 |-> <<>>], 0)
      OBVIOUS
    <3> HIDE DEF Solves
    <3> QED BY <2>3, <3>1
  <2>5. m - 1 \in 0..n /\ m - 1 \in Nat /\ m \in 1..n /\ m - 1 \notin T
    <3>1. m - 1 \in 0..n /\ m - 1 \in Nat /\ m \in 1..n /\ ~(m <= m - 1)
      BY <1>1, <2>3, <2>4
    <3> HIDE DEF T
    <3> QED BY <2>2, <3>1
  <2>6. PICK f : Solves(f, m - 1)
    <3> HIDE DEF Solves
    <3> QED BY <2>5
  <2> DEFINE g == [i \in 1..m |-> IF i = m THEN Step(f, m) ELSE f[i]]
  <2>7. Step(f, m) \in Seq(S)
    <3>1. CASE m = 1
      BY <3>1, <1>1, <2>5
    <3>2. CASE m # 1
      <4>1. m - 1 \in 1..(m - 1)
        BY <2>3, <2>4, <3>2
      <4>2. f[m - 1] \in Seq(S) /\ seqs[m] \in Seq(S)
        BY <1>1, <2>5, <2>6, <4>1
      <4> QED BY <3>2, <4>2, ConcatProperties
    <3> QED BY <3>1, <3>2
  <2>8. \A i \in 1..m : g[i] = (IF i = m THEN Step(f, m) ELSE f[i]) /\ g[i] \in Seq(S)
    <3>1. \A i \in 1..m : i # m => i \in 1..(m - 1)
      BY <2>3
    <3> HIDE DEF Step
    <3> QED BY <2>6, <2>7, <3>1
  <2>9. ASSUME NEW i \in 1..m
        PROVE  g[i] = Step(g, i)
    <3>1. i # 1 => i - 1 \in 1..m /\ i - 1 # m /\ i - 1 \in 1..(m - 1)
      BY <2>3
    <3>2. i # m => i \in 1..(m - 1)
      BY <2>3
    <3>3. i # 1 => g[i - 1] = f[i - 1]
      BY <2>8, <3>1
    <3>4. g[i] = IF i = m THEN Step(f, m) ELSE f[i]
      BY <2>8
    <3> HIDE DEF g
    <3>5. g[i] = Step(f, i)
      BY <3>2, <3>4, <2>6
    <3> QED BY <3>3, <3>5
  <2>10. Solves(g, m)
    <3>1. g \in [1..m -> Seq(S)]
      BY <2>8
    <3> HIDE DEF g, Step
    <3> QED BY <2>9, <3>1
  <2> HIDE DEF Solves
  <2> QED BY <2>3, <2>10
<1>4. PICK f : Solves(f, n)
  <2> HIDE DEF Solves
  <2>1. n \in 0..n
    BY <1>1
  <2> QED BY <1>3, <2>1
<1>5. f = [i \in 1..n |-> Step(f, i)]
  <2> HIDE DEF Step
  <2> QED BY <1>4
<1>6. flatten = [i \in 1..n |-> Step(flatten, i)]
  <2> HIDE DEF Step
  <2> QED BY <1>5
<1> HIDE DEF flatten
<1>7. \A i \in 1..n : flatten[i] \in Seq(S)
  <2> DEFINE T == {i \in 1..n : flatten[i] \notin Seq(S)}
  <2>1. SUFFICES ASSUME T # {} PROVE FALSE
    OBVIOUS
  <2>2. PICK i \in T : \A y \in T : i <= y
    <3>1. T \in SUBSET Nat
      BY <1>1
    <3> HIDE DEF T
    <3> QED BY <2>1, <3>1, LeastIsThere
  <2>3. i \in 1..n /\ i \in Nat /\ flatten[i] \notin Seq(S)
    BY <1>1, <2>2
  <2>4. flatten[i] = Step(flatten, i)
    <3> HIDE DEF Step
    <3> QED BY <1>6, <2>3
  <2>5. i # 1
    BY <1>1, <2>3, <2>4
  <2>6. i - 1 \in 1..n /\ i - 1 \notin T
    <3>1. i - 1 \in 1..n /\ ~(i <= i - 1)
      BY <1>1, <2>3, <2>5
    <3> HIDE DEF T
    <3> QED BY <2>2, <3>1
  <2>7. flatten[i - 1] \in Seq(S) /\ seqs[i] \in Seq(S)
    BY <1>1, <2>3, <2>6
  <2> QED BY <2>3, <2>4, <2>5, <2>7, ConcatProperties
<1>8. CASE n = 0
  <2>1. seqs = <<>>
    BY <1>8 DEF n
  <2> QED BY <1>2, <1>8, <2>1
<1>9. CASE n # 0
  BY <1>1, <1>2, <1>7, <1>9
<1> QED BY <1>8, <1>9

-----------------------------------------------------------------------------
(* What a key shares with the one before it.                               *)

LEMMA PrefixIsShared ==
  ASSUME NEW S, NEW a \in Seq(S), NEW b \in Seq(S)
  PROVE  LET p == LongestCommonPrefix({a, b})
         IN  /\ p \in Seq(S) /\ Len(p) \in Nat /\ Len(p) <= Len(a) /\ Len(p) <= Len(b)
             /\ \A i \in 1..Len(p) : a[i] = b[i]
<1> DEFINE C == CommonPrefixes({a, b})
<1>1. /\ Len(a) \in Nat /\ Len(b) \in Nat
      /\ \A i \in 1..Len(a) : a[i] \in S
      /\ \A i \in 1..Len(b) : b[i] \in S
  BY ElementOfSeq
<1>2. ASSUME NEW s \in {a, b}, NEW l \in 0..Len(s)
      PROVE  /\ SubSeq(s, 1, l) \in Seq(S) /\ Len(SubSeq(s, 1, l)) = l
             /\ \A i \in 1..l : SubSeq(s, 1, l)[i] = s[i]
  <2>1. s \in Seq(S) /\ l \in Nat /\ \A i \in 1..l : s[i] \in S
    BY <1>1
  <2> QED BY <2>1, SubSeqProperties
<1>3. ASSUME NEW p \in C
      PROVE  /\ p \in Seq(S) /\ Len(p) \in Nat /\ Len(p) <= Len(a) /\ Len(p) <= Len(b)
             /\ \A i \in 1..Len(p) : a[i] = b[i]
  <2>1. /\ \E s \in {a, b} : \E l \in 0..Len(s) : p = SubSeq(s, 1, l)
        /\ IsPrefix(p, a) /\ IsPrefix(p, b)
    BY DEF CommonPrefixes, Prefixes
  <2>2. p \in Seq(S) /\ Len(p) \in Nat
    BY <1>2, <2>1
  <2> DEFINE n == Len(p)
  <2>3. n <= Len(a) /\ n <= Len(b) /\ SubSeq(a, 1, n) = SubSeq(b, 1, n)
    BY <2>1 DEF IsPrefix
  <2>4. n \in 0..Len(a) /\ n \in 0..Len(b)
    BY <1>1, <2>2, <2>3
  <2> HIDE DEF n
  <2>5. \A i \in 1..n : SubSeq(a, 1, n)[i] = a[i] /\ SubSeq(b, 1, n)[i] = b[i]
    BY <1>2, <2>4
  <2>6. \A i \in 1..n : a[i] = b[i]
    BY <2>3, <2>5
  <2> QED BY <2>2, <2>3, <2>6 DEF n
<1>4. <<>> \in C
  <2>1. SubSeq(a, 1, 0) = <<>> /\ 0 \in 0..Len(a)
    BY <1>1, SubSeqEmpty
  <2>2. \A s \in {a, b} : IsPrefix(<<>>, s)
    BY <1>1, SubSeqEmpty DEF IsPrefix
  <2> QED BY <2>1, <2>2 DEF CommonPrefixes, Prefixes
<1> HIDE DEF C
<1>5. \E p \in C : \A q \in C : Len(q) <= Len(p)
  <2> DEFINE L == {Len(p) : p \in C}
  <2>1. L \in SUBSET Nat /\ L # {} /\ \A l \in L : l <= Len(a)
    BY <1>3, <1>4
  <2>2. PICK l \in L : \A y \in L : y <= l
    BY <1>1, <2>1, GreatestIsThere
  <2> QED BY <2>2
<1>6. LongestCommonPrefix({a, b}) \in C
  BY <1>5 DEF LongestCommonPrefix, C
<1> QED BY <1>3, <1>6

-----------------------------------------------------------------------------
(* Pieces of a sequence that grows.                                        *)

LEMMA PieceStays ==
  ASSUME NEW S, NEW s \in Seq(S), NEW t \in Seq(S), NEW m \in Nat, NEW n \in Nat, n <= Len(s)
  PROVE  SubSeq(s \o t, m + 1, n) = SubSeq(s, m + 1, n)
<1> DEFINE l == Len(s)
<1>1. l \in Nat
  OBVIOUS
<1>2. CASE m + 1 <= n
  <2>1. m + 1 \in 1..l /\ n \in 1..l
    <3>1. n <= l
      OBVIOUS
    <3> HIDE DEF l
    <3> QED BY <1>1, <1>2, <3>1
  <2> QED BY <2>1, SubSeqOfConcat1
<1>3. CASE n < m + 1
  BY <1>3, SubSeqEmpty
<1> QED BY <1>2, <1>3

LEMMA PieceAtEnd ==
  ASSUME NEW S, NEW s \in Seq(S), NEW t \in Seq(S)
  PROVE  SubSeq(s \o t, Len(s) + 1, Len(s) + Len(t)) = t
<1> DEFINE a == Len(s)
           b == Len(t)
<1>1. a \in Nat /\ b \in Nat
  OBVIOUS
<1>2. CASE b = 0
  <2>1. t = <<>>
    BY <1>2
  <2>2. a + 1 \in Int /\ a + b \in Int /\ a + b < a + 1
    <3> HIDE DEF a, b
    <3> QED BY <1>1, <1>2
  <2> QED BY <2>1, <2>2, SubSeqEmpty
<1>3. CASE b # 0
  <2>1. /\ a + 1 \in a + 1 .. a + b /\ a + b \in a + 1 .. a + b
        /\ a + 1 - a = 1 /\ a + b - a = b
    <3> HIDE DEF a, b
    <3> QED BY <1>1, <1>3
  <2>2. SubSeq(s \o t, a + 1, a + b) = SubSeq(t, a + 1 - a, a + b - a)
    BY <2>1, SubSeqOfConcat2
  <2>3. SubSeq(t, 1, b) = t
    BY SubSeqFull
  <2> QED BY <2>1, <2>2, <2>3
<1> QED BY <1>2, <1>3

-----------------------------------------------------------------------------
(* The invariant.                                                          *)

\* There are q full groups, and one begun unless counter is 0.
GroupsAreFull ==
  \E q \in Nat : /\ Len(entries) = q * GroupSize + counter
                 /\ Len(restarts_) = IF counter = 0 THEN q ELSE q + 1

GroupsStart ==
  \A g \in 1..Len(restarts_) :
    LET first == (g - 1) * GroupSize + 1
    IN  /\ first \in 1..Len(entries)
        /\ restarts_[g] = entries[first].at /\ entries[first].shared = 0

KeyIsLast == last_key = IF Len(entries) = 0 THEN <<>> ELSE entries[Len(entries)].key

\* An entry lies in the buffer, and its key and value can be read there.
EntryFits(i) ==
  LET e      == entries[i]
      before == IF i = 1 THEN <<>> ELSE entries[i - 1].key
      rest   == Len(e.key) - e.shared
      from   == e.limit - Len(e.value) - rest
  IN  /\ e.limit <= Len(buffer)
      /\ e.shared <= Len(before) /\ e.shared <= Len(e.key) /\ e.at <= from
      /\ SubSeq(before, 1, e.shared) \o SubSeq(buffer, from + 1, from + rest) = e.key
      /\ SubSeq(buffer, from + rest + 1, e.limit) = e.value

IInv ==
  /\ TypeOK /\ GroupsAreFull /\ GroupsStart /\ KeyIsLast
  /\ \A i \in 1..Len(entries) : EntryFits(i)

LEMMA IInvTypes ==
  ASSUME TypeOK
  PROVE  /\ GroupSize \in Nat /\ GroupSize >= 1 /\ counter \in Nat /\ counter < GroupSize
         /\ buffer \in Seq(Byte) /\ Len(buffer) \in Nat
         /\ restarts_ \in Seq(Nat) /\ Len(restarts_) \in Nat
         /\ \A g \in 1..Len(restarts_) : restarts_[g] \in Nat
         /\ last_key \in Seq(Byte) /\ Len(last_key) \in Nat
         /\ Len(entries) \in Nat
         /\ \A s \in Keys \cup Values : s \in Seq(Byte) /\ Len(s) \in Nat
         /\ \A i \in 1..Len(entries) :
              /\ entries[i].key \in Keys /\ entries[i].value \in Values
              /\ entries[i].shared \in Nat /\ entries[i].at \in Nat
              /\ entries[i].limit \in Nat
<1>1. GroupSize \in Nat /\ GroupSize >= 1 /\ counter \in Nat /\ counter < GroupSize
  BY BlockAssumption DEF TypeOK
<1>2. /\ buffer \in Seq(Byte) /\ Len(buffer) \in Nat
      /\ restarts_ \in Seq(Nat) /\ Len(restarts_) \in Nat /\ Len(entries) \in Nat
  BY DEF TypeOK
<1>3. \A g \in 1..Len(restarts_) : restarts_[g] \in Nat
  BY <1>2, ElementOfSeq
<1>4. \A s \in Keys \cup Values : s \in Seq(Byte) /\ Len(s) \in Nat
  BY BlockAssumption
<1>5. last_key \in Seq(Byte) /\ Len(last_key) \in Nat
  <2>1. last_key \in Keys \/ last_key = <<>>
    BY DEF TypeOK
  <2>2. <<>> \in Seq(Byte) /\ Len(<<>>) = 0
    BY EmptySeq
  <2> QED BY <1>4, <2>1, <2>2
<1>6. \A i \in 1..Len(entries) :
        entries[i] \in [key : Keys, value : Values, shared : Nat, at : Nat, limit : Nat]
  BY ElementOfSeq DEF TypeOK
<1> QED BY <1>1, <1>2, <1>3, <1>4, <1>5, <1>6

\* What is in the buffer stays there when it grows.
LEMMA FitsStays ==
  ASSUME TypeOK, NEW i \in 1..Len(entries), EntryFits(i),
         NEW more \in Seq(Byte), buffer' = buffer \o more,
         entries'[i] = entries[i], i # 1 => entries'[i - 1] = entries[i - 1]
  PROVE  EntryFits(i)'
<1> DEFINE e == entries[i]
           b == Len(buffer)
           k == Len(e.key)
           v == Len(e.value)
           rest == k - e.shared
           from == e.limit - v - rest
<1>1. /\ buffer \in Seq(Byte) /\ b \in Nat /\ k \in Nat /\ v \in Nat
      /\ e.shared \in Nat /\ e.at \in Nat /\ e.limit \in Nat
  BY IInvTypes
<1>2. e.limit <= b /\ e.shared <= k /\ e.at <= from
  BY DEF EntryFits
<1>3. Len(buffer') = b + Len(more) /\ Len(more) \in Nat
  BY <1>1, ConcatProperties
<1>4. /\ from \in Nat /\ rest \in Nat /\ from + rest \in Nat /\ from + rest <= b
      /\ e.limit <= Len(buffer')
  <2> DEFINE c == Len(buffer')
             m == Len(more)
             sh == e.shared
             li == e.limit
             at == e.at
  <2>1. /\ b \in Nat /\ k \in Nat /\ v \in Nat /\ sh \in Nat /\ at \in Nat /\ li \in Nat
        /\ c = b + m /\ m \in Nat /\ li <= b /\ sh <= k /\ at <= li - v - (k - sh)
    BY <1>1, <1>2, <1>3
  <2> HIDE DEF c, m, sh, li, at, k, v, b
  <2>2. /\ li - v - (k - sh) \in Nat /\ k - sh \in Nat
        /\ (li - v - (k - sh)) + (k - sh) \in Nat
        /\ (li - v - (k - sh)) + (k - sh) <= b /\ li <= c
    BY <2>1
  <2> QED BY <2>2 DEF sh, li, c
<1>5. SubSeq(buffer', from + 1, from + rest) = SubSeq(buffer, from + 1, from + rest)
  <2> HIDE DEF from, rest, b, e
  <2> QED BY <1>1, <1>4, PieceStays DEF b
<1>6. SubSeq(buffer', from + rest + 1, e.limit) = SubSeq(buffer, from + rest + 1, e.limit)
  <2> DEFINE m == from + rest
  <2>1. m \in Nat /\ e.limit \in Nat /\ e.limit <= Len(buffer)
    BY <1>1, <1>2, <1>4
  <2> HIDE DEF m, e
  <2>2. SubSeq(buffer', m + 1, e.limit) = SubSeq(buffer, m + 1, e.limit)
    <3>1. /\ buffer \in Seq(Byte) /\ more \in Seq(Byte)
          /\ buffer' = buffer \o more
      BY <1>1
    <3> DEFINE n == e.limit
    <3>2. n \in Nat /\ n <= Len(buffer) /\ m \in Nat
      BY <2>1
    <3> HIDE DEF n
    <3>3. SubSeq(buffer \o more, m + 1, n) = SubSeq(buffer, m + 1, n)
      BY <3>1, <3>2, PieceStays, Zenon
    <3> QED BY <3>1, <3>3 DEF n
  <2> QED BY <2>2 DEF m
<1> HIDE DEF from, rest, e
<1> QED BY <1>4, <1>5, <1>6 DEF EntryFits, from, rest, e, k, v

LEMMA SharedFacts ==
  ASSUME TypeOK, NEW key \in Keys
  PROVE  LET s == Shared(key)
         IN  /\ s \in Nat /\ s <= Len(key) /\ s <= Len(last_key)
             /\ SubSeq(last_key, 1, s) = SubSeq(key, 1, s)
             /\ counter = 0 => s = 0
<1> DEFINE s == Shared(key)
<1>1. /\ key \in Seq(Byte) /\ Len(key) \in Nat
      /\ last_key \in Seq(Byte) /\ Len(last_key) \in Nat
  BY IInvTypes
<1>2. /\ s \in Nat /\ s <= Len(key) /\ s <= Len(last_key)
      /\ \A i \in 1..s : key[i] = last_key[i]
      /\ counter = 0 => s = 0
  <2>1. CASE counter = 0
    BY <1>1, <2>1 DEF Shared
  <2>2. CASE counter # 0
    <3>1. s = Len(LongestCommonPrefix({key, last_key}))
      BY <2>2 DEF Shared
    <3> DEFINE p == LongestCommonPrefix({key, last_key})
    <3>2. /\ Len(p) \in Nat /\ Len(p) <= Len(key) /\ Len(p) <= Len(last_key)
          /\ \A i \in 1..Len(p) : key[i] = last_key[i]
      BY <1>1, PrefixIsShared
    <3> HIDE DEF p
    <3>3. s = Len(p)
      BY <3>1 DEF p
    <3> HIDE DEF s
    <3> QED BY <2>2, <3>2, <3>3
  <2> QED BY <2>1, <2>2
<1> HIDE DEF s
<1>3. SubSeq(last_key, 1, s) = SubSeq(key, 1, s)
  <2> DEFINE a == SubSeq(last_key, 1, s)
             b == SubSeq(key, 1, s)
  <2>1. \A i \in 1..s : key[i] \in Byte /\ last_key[i] \in Byte
    BY <1>1, <1>2, ElementOfSeq
  <2>2. 1 \in Int /\ s \in Int
    BY <1>2
  <2>3. /\ a \in Seq(Byte) /\ Len(a) = s /\ (\A i \in 1..s : a[i] = last_key[i])
        /\ b \in Seq(Byte) /\ Len(b) = s /\ (\A i \in 1..s : b[i] = key[i])
    BY <1>2, <2>1, <2>2, SubSeqProperties
  <2> HIDE DEF a, b
  <2>4. a = b
    BY <1>2, <2>3, SeqEqual
  <2> QED BY <2>4 DEF a, b
<1> QED BY <1>2, <1>3 DEF s

-----------------------------------------------------------------------------
(* The steps.                                                              *)

LEMMA Associative ==
  \A a, b, c \in Seq(Byte) : (a \o b) \o c = a \o (b \o c)
BY ConcatAssociative

\* The bytes of a new entry, piece by piece.
LEMMA AddedBytes ==
  ASSUME TypeOK, NEW key \in Keys, NEW value \in Values, Add(key, value)
  PROVE  LET s    == Shared(key)
             from == Len(buffer') - Len(value) - (Len(key) - s)
         IN  /\ \E more \in Seq(Byte) : buffer' = buffer \o more
             /\ buffer' \in Seq(Byte) /\ Len(buffer') \in Nat
             /\ Len(buffer) <= from
             /\ SubSeq(key, 1, s) \o SubSeq(buffer', from + 1, from + (Len(key) - s)) = key
             /\ SubSeq(buffer', from + (Len(key) - s) + 1, Len(buffer')) = value
<1> DEFINE s == Shared(key)
           h == Header(key, value)
           rest == Rest(key)
<1>1. /\ buffer \in Seq(Byte) /\ Len(buffer) \in Nat
      /\ key \in Seq(Byte) /\ Len(key) \in Nat
      /\ value \in Seq(Byte) /\ Len(value) \in Nat
  BY IInvTypes
<1>2. s \in Nat /\ s <= Len(key)
  BY SharedFacts
<1>3. h \in Seq(Byte)
  <2>1. Len(key) - s \in Nat
    <3> DEFINE k == Len(key)
    <3>1. k \in Nat /\ s \in Nat /\ s <= k
      BY <1>1, <1>2
    <3> HIDE DEF k, s
    <3>2. k - s \in Nat
      BY <3>1
    <3> QED BY <3>2 DEF k
  <2>2. /\ Encoded(s) \in Seq(Byte) /\ Encoded(Len(key) - s) \in Seq(Byte)
        /\ Encoded(Len(value)) \in Seq(Byte)
    BY <1>1, <1>2, <2>1, EncodedIsBytes
  <2> QED BY <2>2, ConcatProperties DEF Header
<1>4. /\ rest \in Seq(Byte) /\ Len(rest) = Len(key) - s
      /\ SubSeq(key, 1, s) \o rest = key
  <2> DEFINE k == Len(key)
  <2>1. k \in Nat /\ s \in Nat /\ s <= k
    BY <1>1, <1>2
  <2>2. \A i \in (s + 1)..k : key[i] \in Byte
    <3>1. \A i \in (s + 1)..k : i \in 1..k
      <4> HIDE DEF k, s
      <4> QED BY <2>1
    <3> QED BY <1>1, <3>1, ElementOfSeq
  <2>3. /\ SubSeq(key, s + 1, k) \in Seq(Byte)
        /\ Len(SubSeq(key, s + 1, k)) = IF s + 1 <= k THEN k - (s + 1) + 1 ELSE 0
    <3>1. s + 1 \in Int /\ k \in Int
      BY <2>1
    <3> HIDE DEF k, s
    <3> QED BY <2>2, <3>1, SubSeqProperties
  <2>4. (IF s + 1 <= k THEN k - (s + 1) + 1 ELSE 0) = k - s
    <3> HIDE DEF k, s
    <3> QED BY <2>1
  <2>5. SubSeq(key, 1, s) \o SubSeq(key, s + 1, k) = key
    <3>1. 1 \in 1..k + 1 /\ s \in 1 - 1 .. k /\ k \in s..k
      <4> HIDE DEF k, s
      <4> QED BY <2>1
    <3>2. SubSeq(key, 1, s) \o SubSeq(key, s + 1, k) = SubSeq(key, 1, k)
      BY <1>1, <3>1, ConcatAdjacentSubSeq
    <3> QED BY <1>1, <3>2, SubSeqFull
  <2>6. rest = SubSeq(key, s + 1, k)
    BY DEF Rest
  <2> HIDE DEF rest, s, k
  <2>7. rest \in Seq(Byte) /\ Len(rest) = k - s /\ SubSeq(key, 1, s) \o rest = key
    BY <2>3, <2>4, <2>5, <2>6
  <2> QED BY <2>7 DEF k
<1>5. buffer' = ((buffer \o h) \o rest) \o value
  BY DEF Add
<1> HIDE DEF s, h, rest
<1> DEFINE p == buffer \o h
           q == p \o rest
           w == q \o value
           hr == h \o rest
           more == hr \o value
<1>6. /\ p \in Seq(Byte) /\ Len(p) = Len(buffer) + Len(h) /\ Len(h) \in Nat
      /\ hr \in Seq(Byte) /\ q = buffer \o hr
  <2>1. p \in Seq(Byte) /\ Len(p) = Len(buffer) + Len(h) /\ Len(h) \in Nat
    BY <1>1, <1>3, ConcatProperties
  <2>2. hr \in Seq(Byte)
    BY <1>3, <1>4, ConcatProperties
  <2>3. (buffer \o h) \o rest = buffer \o (h \o rest)
    <3>1. buffer \in Seq(Byte) /\ h \in Seq(Byte) /\ rest \in Seq(Byte)
      BY <1>1, <1>3, <1>4
    <3> QED BY <3>1, Associative, Zenon
  <2> QED BY <2>1, <2>2, <2>3
<1> HIDE DEF p, hr
<1>7. q \in Seq(Byte) /\ Len(q) = Len(p) + Len(rest)
  BY <1>4, <1>6, ConcatProperties
<1> HIDE DEF q
<1>8. w \in Seq(Byte) /\ Len(w) = Len(q) + Len(value)
  BY <1>1, <1>7, ConcatProperties
<1>9. more \in Seq(Byte) /\ w = buffer \o more
  <2>1. more \in Seq(Byte)
    BY <1>1, <1>6, ConcatProperties
  <2>2. (buffer \o hr) \o value = buffer \o (hr \o value)
    <3>1. buffer \in Seq(Byte) /\ hr \in Seq(Byte) /\ value \in Seq(Byte)
      BY <1>1, <1>6
    <3> QED BY <3>1, Associative, Zenon
  <2> QED BY <1>6, <2>1, <2>2
<1> HIDE DEF more, w
<1>10. buffer' = w
  BY <1>5 DEF p, q, w
<1> DEFINE b == Len(buffer)
           lp == Len(p)
           lq == Len(q)
           lw == Len(w)
           v == Len(value)
           r == Len(key) - s
           from == lw - v - r
<1>11. /\ from = lp /\ from + r = lq /\ lw = lq + v /\ b <= lp
       /\ lp \in Nat /\ lq \in Nat /\ lw \in Nat /\ lq = lp + r
  <2> DEFINE lh == Len(h)
  <2>1. /\ b \in Nat /\ lh \in Nat /\ v \in Nat /\ r \in Nat
        /\ lp = b + lh /\ lq = lp + r /\ lw = lq + v
    <3>1. r \in Nat
      BY <1>4
    <3> QED BY <3>1, <1>1, <1>4, <1>6, <1>7, <1>8
  <2> HIDE DEF b, lh, lp, lq, lw, v, r
  <2> QED BY <2>1
<1>12. SubSeq(w, lp + 1, lq) = rest
  <2>1. SubSeq(q \o value, lp + 1, lq) = SubSeq(q, lp + 1, lq)
    <3>1. lq <= Len(q)
      BY <1>11
    <3> QED BY <1>1, <1>7, <1>11, <3>1, PieceStays
  <2>2. SubSeq(p \o rest, Len(p) + 1, Len(p) + Len(rest)) = rest
    BY <1>4, <1>6, PieceAtEnd
  <2> QED BY <2>1, <2>2, <1>4, <1>11 DEF q, w
<1>13. SubSeq(w, lq + 1, lw) = value
  <2>1. SubSeq(q \o value, Len(q) + 1, Len(q) + Len(value)) = value
    BY <1>1, <1>7, PieceAtEnd
  <2> QED BY <2>1, <1>11 DEF w
<1> HIDE DEF lp, lq, lw, b, r
<1> QED BY <1>4, <1>8, <1>9, <1>10, <1>11, <1>12, <1>13 DEF s, lw, b, r

LEMMA AddKeepsIInv ==
  ASSUME IInv, NEW key \in Keys, NEW value \in Values, Add(key, value)
  PROVE  IInv'
<1> DEFINE Entry == [key : Keys, value : Values, shared : Nat, at : Nat, limit : Nat]
           n == Len(entries)
           r == Len(restarts_)
           b == Len(buffer)
           s == Shared(key)
           e == [key |-> key, value |-> value, shared |-> s, at |-> b,
                 limit |-> Len(buffer')]
<1>1. TypeOK /\ n \in Nat /\ r \in Nat /\ b \in Nat
  BY IInvTypes DEF IInv
<1>2. /\ buffer' \in Seq(Byte) /\ Len(buffer') \in Nat
      /\ \E more \in Seq(Byte) : buffer' = buffer \o more
  BY <1>1, AddedBytes
<1>3. s \in Nat /\ s <= Len(key) /\ s <= Len(last_key) /\ (counter = 0 => s = 0)
  BY <1>1, SharedFacts
<1>4. e \in Entry
  BY <1>1, <1>2, <1>3
<1>5. entries' = Append(entries, e) /\ entries \in Seq(Entry)
  BY <1>1 DEF Add, TypeOK
<1> HIDE DEF s, e
<1>6. /\ entries' \in Seq(Entry) /\ Len(entries') = n + 1 /\ entries'[n + 1] = e
      /\ \A i \in 1..n : entries'[i] = entries[i]
  BY <1>4, <1>5, AppendProperties
<1>7. /\ restarts_' \in Seq(Nat) /\ Len(restarts_') = (IF counter = 0 THEN r + 1 ELSE r)
      /\ \A g \in 1..r : restarts_'[g] = restarts_[g]
      /\ counter = 0 => restarts_'[r + 1] = b
  <2>1. restarts_ \in Seq(Nat)
    BY <1>1, IInvTypes
  <2>2. CASE counter = 0
    <3>1. restarts_' = Append(restarts_, b)
      BY <2>2 DEF Add
    <3> HIDE DEF b
    <3> QED BY <1>1, <2>1, <2>2, <3>1, AppendProperties
  <2>3. CASE counter # 0
    <3>1. restarts_' = restarts_
      BY <2>3 DEF Add
    <3> QED BY <2>1, <2>3, <3>1
  <2> QED BY <2>2, <2>3
<1>8. /\ GroupSize \in Nat /\ GroupSize >= 1 /\ counter \in Nat /\ counter < GroupSize
      /\ counter' = IF counter + 1 >= GroupSize THEN 0 ELSE counter + 1
  BY <1>1, IInvTypes DEF Add, Counted
<1> DEFINE m == Len(entries')
           rr == Len(restarts_')
           bb == Len(buffer')
<1>9. TypeOK'
  <2>1. counter' \in 0..(GroupSize - 1)
    <3> HIDE DEF n, r, b
    <3> QED BY <1>8
  <2>2. last_key' = key /\ finished' = finished /\ finished \in BOOLEAN
    BY <1>1 DEF Add, TypeOK
  <2> QED BY <1>2, <1>6, <1>7, <2>1, <2>2 DEF TypeOK
<1>10. PICK q \in Nat : n = q * GroupSize + counter /\ r = IF counter = 0 THEN q ELSE q + 1
  BY DEF IInv, GroupsAreFull
<1> HIDE DEF n, r, b, m, rr, bb
<1>11. m = n + 1 /\ rr = IF counter = 0 THEN r + 1 ELSE r
  BY <1>6, <1>7 DEF m, rr
<1>12. (q + 1) * GroupSize = q * GroupSize + GroupSize /\ q * GroupSize \in Nat
  BY <1>8, <1>10
<1>13. GroupsAreFull'
  <2>1. CASE counter + 1 >= GroupSize
    <3>1. counter' = 0 /\ counter + 1 = GroupSize
      BY <1>8, <2>1
    <3>2. m = (q + 1) * GroupSize + counter' /\ q + 1 \in Nat
      BY <1>8, <1>10, <1>11, <1>12, <3>1
    <3>3. rr = q + 1
      BY <1>10, <1>11
    <3> QED BY <3>1, <3>2, <3>3 DEF GroupsAreFull, m, rr
  <2>2. CASE ~(counter + 1 >= GroupSize)
    <3>1. counter' = counter + 1 /\ counter' # 0
      BY <1>8, <2>2
    <3>2. m = q * GroupSize + counter'
      BY <1>8, <1>10, <1>11, <1>12, <3>1
    <3>3. rr = q + 1
      BY <1>10, <1>11
    <3> QED BY <3>1, <3>2, <3>3 DEF GroupsAreFull, m, rr
  <2> QED BY <2>1, <2>2
<1>14. GroupsStart'
  <2> SUFFICES ASSUME NEW g \in 1..rr
               PROVE  LET first == (g - 1) * GroupSize + 1
                      IN  /\ first \in 1..m
                          /\ restarts_'[g] = entries'[first].at
                          /\ entries'[first].shared = 0
    BY DEF GroupsStart, m, rr
  <2>1. CASE g <= r
    <3> DEFINE first == (g - 1) * GroupSize + 1
    <3>1. g \in 1..r
      BY <2>1
    <3>2. /\ first \in 1..n /\ restarts_[g] = entries[first].at
          /\ entries[first].shared = 0
      BY <3>1 DEF IInv, GroupsStart, n, r
    <3> HIDE DEF first
    <3>3. first \in 1..m
      BY <1>1, <1>11, <3>2
    <3>4. entries'[first] = entries[first] /\ restarts_'[g] = restarts_[g]
      BY <1>6, <1>7, <3>1, <3>2
    <3> QED BY <3>2, <3>3, <3>4 DEF first
  <2>2. CASE ~(g <= r)
    <3>1. counter = 0 /\ g = r + 1 /\ r = q
      BY <1>1, <1>10, <1>11, <2>2
    <3>2. (g - 1) * GroupSize + 1 = n + 1
      <4>1. g - 1 = q
        BY <3>1
      <4> QED BY <1>10, <1>12, <3>1, <4>1
    <3>3. n + 1 \in 1..m
      BY <1>1, <1>11
    <3>4. restarts_'[g] = b /\ e.at = b /\ e.shared = 0
      BY <1>3, <1>7, <3>1 DEF e
    <3> QED BY <1>6, <3>2, <3>3, <3>4
  <2> QED BY <2>1, <2>2
<1>15. KeyIsLast'
  <2>1. m # 0 /\ last_key' = key /\ entries'[m] = e /\ e.key = key
    <3>1. m # 0
      BY <1>1, <1>11
    <3>2. last_key' = key
      BY DEF Add
    <3> QED BY <1>6, <1>11, <3>1, <3>2 DEF e
  <2> QED BY <2>1 DEF KeyIsLast, m
<1>16. ASSUME NEW i \in 1..n
       PROVE  EntryFits(i)'
  <2>1. EntryFits(i) /\ entries'[i] = entries[i]
    BY <1>6 DEF IInv, n
  <2>2. i # 1 => entries'[i - 1] = entries[i - 1]
    <3>1. i # 1 => i - 1 \in 1..n
      BY <1>1
    <3> QED BY <1>6, <3>1
  <2>3. i \in 1..Len(entries)
    BY DEF n
  <2> QED BY <1>1, <1>2, <2>1, <2>2, <2>3, FitsStays
<1>17. ASSUME NEW i \in 1..m, i = n + 1
       PROVE  EntryFits(i)'
  <2> DEFINE before == IF i = 1 THEN <<>> ELSE entries'[i - 1].key
             rest == Len(key) - s
             from == bb - Len(value) - rest
  <2>1. before = last_key
    <3>1. last_key = IF n = 0 THEN <<>> ELSE entries[n].key
      BY DEF IInv, KeyIsLast, n
    <3>2. n # 0 => n \in 1..n /\ n + 1 # 1 /\ n + 1 - 1 = n
      BY <1>1
    <3>3. n = 0 => n + 1 = 1
      OBVIOUS
    <3>4. n # 0 => entries'[n] = entries[n]
      BY <1>6, <3>2
    <3> QED BY <1>17, <3>1, <3>2, <3>3, <3>4
  <2> HIDE DEF before
  <2>2. /\ b <= from
        /\ SubSeq(key, 1, s) \o SubSeq(buffer', from + 1, from + rest) = key
        /\ SubSeq(buffer', from + rest + 1, bb) = value
    BY <1>1, AddedBytes DEF s, b, bb
  <2>3. SubSeq(last_key, 1, s) = SubSeq(key, 1, s)
    BY <1>1, SharedFacts DEF s
  <2>4. /\ entries'[i] = e /\ e.key = key /\ e.value = value /\ e.shared = s
        /\ e.at = b /\ e.limit = bb
    BY <1>6, <1>17 DEF e, bb
  <2>5. bb <= bb
    BY <1>2 DEF bb
  <2> HIDE DEF from, rest
  <2>6. /\ e.limit <= bb /\ e.shared <= Len(before) /\ e.shared <= Len(e.key)
        /\ e.at <= from
        /\ SubSeq(before, 1, e.shared) \o SubSeq(buffer', from + 1, from + rest) = e.key
        /\ SubSeq(buffer', from + rest + 1, e.limit) = e.value
    BY <1>3, <2>1, <2>2, <2>3, <2>4, <2>5
  <2> QED BY <2>4, <2>6 DEF EntryFits, before, from, rest, bb
<1>18. \A i \in 1..m : EntryFits(i)'
  <2> SUFFICES ASSUME NEW i \in 1..m PROVE EntryFits(i)'
    OBVIOUS
  <2>1. i \in 1..n \/ i = n + 1
    BY <1>1, <1>11
  <2> QED BY <1>16, <1>17, <2>1
<1> QED BY <1>9, <1>13, <1>14, <1>15, <1>18 DEF IInv, m

LEMMA FinishKeepsIInv ==
  ASSUME IInv, Finish
  PROVE  IInv'
<1> DEFINE n == Len(restarts_)
           words == [i \in DOMAIN restarts_ |-> Encoded(restarts_[i])]
           flat == FlattenSeq(words)
           last == Encoded(n)
           more == flat \o last
<1>1. /\ TypeOK /\ buffer \in Seq(Byte) /\ n \in Nat
      /\ \A g \in 1..n : restarts_[g] \in Nat
  BY IInvTypes DEF IInv
<1>2. flat \in Seq(Byte) /\ last \in Seq(Byte)
  <2>1. DOMAIN restarts_ = 1..n
    BY <1>1 DEF TypeOK
  <2>2. \A g \in 1..n : Encoded(restarts_[g]) \in Seq(Byte)
    BY <1>1, EncodedIsBytes
  <2>3. words \in Seq(Seq(Byte))
    <3>1. words = [i \in 1..n |-> Encoded(restarts_[i])]
      BY <2>1
    <3> HIDE DEF words, n
    <3> QED BY <1>1, <2>2, <3>1
  <2> HIDE DEF words
  <2> QED BY <1>1, <2>3, FlattenIsSeq, EncodedIsBytes
<1> HIDE DEF words, flat, last, n
<1>3. more \in Seq(Byte)
  BY <1>2, ConcatProperties
<1>4. buffer' = buffer \o more
  <2>1. buffer' = (buffer \o flat) \o last
    BY DEF Finish, flat, words, last, n
  <2> QED BY <1>1, <1>2, <2>1, Associative
<1> HIDE DEF more
<1>5. UNCHANGED <<restarts_, counter, last_key, entries>> /\ finished' \in BOOLEAN
  BY DEF Finish
<1>6. TypeOK'
  <2>1. buffer' \in Seq(Byte)
    BY <1>1, <1>3, <1>4, ConcatProperties
  <2> QED BY <1>1, <1>5, <2>1 DEF TypeOK
<1>7. ASSUME NEW i \in 1..Len(entries)
      PROVE  EntryFits(i)'
  <2>1. EntryFits(i) /\ entries'[i] = entries[i]
    BY <1>5 DEF IInv
  <2>2. i # 1 => entries'[i - 1] = entries[i - 1]
    BY <1>5
  <2> QED BY <1>1, <1>3, <1>4, <2>1, <2>2, FitsStays
<1>8. GroupsAreFull' /\ GroupsStart' /\ KeyIsLast'
  BY <1>5 DEF IInv, GroupsAreFull, GroupsStart, KeyIsLast
<1>9. \A i \in 1..Len(entries') : EntryFits(i)'
  BY <1>5, <1>7
<1> QED BY <1>6, <1>8, <1>9 DEF IInv

\* What Init and Reset leave.
LEMMA EmptyIsIInv ==
  ASSUME buffer = <<>>, restarts_ = <<>>, counter = 0, last_key = <<>>,
         finished = FALSE, entries = <<>>
  PROVE  IInv
<1>1. Len(entries) = 0 /\ Len(restarts_) = 0
  OBVIOUS
<1>2. TypeOK
  <2>1. counter \in 0..(GroupSize - 1)
    BY BlockAssumption
  <2>2. <<>> \in Seq(Byte) /\ <<>> \in Seq(Nat)
    BY EmptySeq
  <2> QED BY <2>1, <2>2, EmptySeq DEF TypeOK
<1>3. GroupsAreFull
  <2>1. 0 \in Nat /\ 0 = 0 * GroupSize + counter
    BY BlockAssumption
  <2> QED BY <1>1, <2>1 DEF GroupsAreFull
<1>4. GroupsStart /\ KeyIsLast
  BY <1>1 DEF GroupsStart, KeyIsLast
<1> QED BY <1>1, <1>2, <1>3, <1>4 DEF IInv

LEMMA InitGivesIInv == Init => IInv
BY EmptyIsIInv DEF Init

LEMMA ResetKeepsIInv ==
  ASSUME Reset
  PROVE  IInv'
<1>1. /\ buffer' = <<>> /\ restarts_' = <<>> /\ counter' = 0 /\ last_key' = <<>>
      /\ finished' = FALSE /\ entries' = <<>>
  BY DEF Reset
<1>2. Len(entries') = 0 /\ Len(restarts_') = 0
  BY <1>1
<1>3. TypeOK'
  <2>1. counter' \in 0..(GroupSize - 1)
    BY <1>1, BlockAssumption
  <2>2. <<>> \in Seq(Byte) /\ <<>> \in Seq(Nat)
    BY EmptySeq
  <2> QED BY <1>1, <2>1, <2>2, EmptySeq DEF TypeOK
<1>4. GroupsAreFull'
  <2>1. 0 \in Nat /\ 0 = 0 * GroupSize + counter'
    BY <1>1, BlockAssumption
  <2> QED BY <1>1, <1>2, <2>1 DEF GroupsAreFull
<1>5. GroupsStart' /\ KeyIsLast'
  BY <1>1, <1>2 DEF GroupsStart, KeyIsLast
<1> QED BY <1>2, <1>3, <1>4, <1>5 DEF IInv

LEMMA StepKeepsIInv ==
  ASSUME IInv, [Next]_vars
  PROVE  IInv'
<1>1. ASSUME NEW key \in Keys, NEW value \in Values, Add(key, value)
      PROVE  IInv'
  BY <1>1, AddKeepsIInv
<1>2. CASE Finish
  BY <1>2, FinishKeepsIInv
<1>3. CASE Reset
  BY <1>3, ResetKeepsIInv
<1>4. CASE UNCHANGED vars
  <2>1. TypeOK' /\ GroupsAreFull' /\ GroupsStart' /\ KeyIsLast'
    BY <1>4 DEF IInv, vars, TypeOK, GroupsAreFull, GroupsStart, KeyIsLast
  <2>2. ASSUME NEW i \in 1..Len(entries')
        PROVE  EntryFits(i)'
    BY <1>4 DEF IInv, vars, EntryFits
  <2> QED BY <2>1, <2>2 DEF IInv
<1> QED BY <1>1, <1>2, <1>3, <1>4 DEF Next

LEMMA IInvariant == Spec => []IInv
<1>1. Init => IInv
  BY InitGivesIInv
<1>2. IInv /\ [Next]_vars => IInv'
  BY StepKeepsIInv
<1> QED BY <1>1, <1>2, PTL DEF Spec

-----------------------------------------------------------------------------
(* The results.                                                            *)

\* Every variable keeps its type, whatever Add, Finish and Reset do, in the
\* order in which TableBuilder calls them.
THEOREM TypeCorrect == Spec => []TypeOK
<1>1. IInv => TypeOK
  BY DEF IInv
<1> QED BY <1>1, IInvariant, PTL

\* However many entries Add has put into the block, restarts_ has one place for
\* every groupSize of them and it is that of the first of the group, which has
\* its whole key: Finish writes an array that blockIter can begin at.
THEOREM RestartsCorrect == Spec => []RestartsStartGroups
<1>1. IInv => RestartsStartGroups
  <2> SUFFICES ASSUME IInv PROVE RestartsStartGroups
    OBVIOUS
  <2> DEFINE n == Len(entries)
             r == Len(restarts_)
  <2>1. /\ GroupSize \in Nat \ {0} /\ counter \in Nat /\ counter < GroupSize
        /\ n \in Nat /\ r \in Nat
    BY IInvTypes DEF IInv
  <2>2. PICK q \in Nat : n = q * GroupSize + counter /\ r = IF counter = 0 THEN q ELSE q + 1
    BY DEF IInv, GroupsAreFull
  <2>3. \A g \in 1..r : /\ restarts_[g] = entries[(g - 1) * GroupSize + 1].at
                        /\ entries[(g - 1) * GroupSize + 1].shared = 0
    BY DEF IInv, GroupsStart
  <2> HIDE DEF n, r
  <2>4. r = (n + GroupSize - 1) \div GroupSize
    <3> DEFINE full == q * GroupSize
    <3>1. full \in Nat /\ (q + 1) * GroupSize = full + GroupSize
      BY <2>1, <2>2
    <3>2. CASE counter = 0
      <4>1. n + GroupSize - 1 = full + (GroupSize - 1)
        <5> HIDE DEF full
        <5>1. n = full + counter
          BY <2>2 DEF full
        <5> QED BY <2>1, <3>1, <3>2, <5>1
      <4>2. GroupSize - 1 \in 0..(GroupSize - 1)
        BY <2>1
      <4>3. (q * GroupSize + (GroupSize - 1)) \div GroupSize = q
        BY <2>1, <4>2, QuotientIsUnique
      <4> QED BY <2>2, <3>2, <4>1, <4>3
    <3>3. CASE counter # 0
      <4>1. n + GroupSize - 1 = (full + GroupSize) + (counter - 1)
        <5> HIDE DEF full
        <5>1. n = full + counter
          BY <2>2 DEF full
        <5> QED BY <2>1, <3>1, <5>1
      <4>2. counter - 1 \in 0..(GroupSize - 1) /\ q + 1 \in Nat
        BY <2>1, <2>2, <3>3
      <4>3. ((q + 1) * GroupSize + (counter - 1)) \div GroupSize = q + 1
        BY <2>1, <4>2, QuotientIsUnique
      <4> QED BY <2>2, <3>1, <3>3, <4>1, <4>3
    <3> QED BY <3>2, <3>3
  <2> QED BY <2>3, <2>4 DEF RestartsStartGroups, n, r
<1> QED BY <1>1, IInvariant, PTL

\* Nothing of a key is lost by sharing, and the bytes Add has appended are not
\* disturbed by what Add and Finish append later: whoever knows the key of the
\* entry before gets key and value of an entry from its bytes.
THEOREM KeysCorrect == Spec => []KeysCanBeRebuilt
<1>1. IInv => KeysCanBeRebuilt
  BY DEF IInv, EntryFits, KeysCanBeRebuilt
<1> QED BY <1>1, IInvariant, PTL

=============================================================================
