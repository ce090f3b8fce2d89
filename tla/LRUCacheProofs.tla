--------------------------- MODULE LRUCacheProofs ---------------------------
(***************************************************************************)
(* Proofs about LRUCache.  The pointer surgery of LRU_Remove and LRU_Append *)
(* is dealt with once, on bare next and prev functions; then each private  *)
(* method is shown to keep the shard in order, then each action.           *)
(***************************************************************************)
EXTENDS LRUCache, FiniteSetTheorems, SequenceTheorems, WellFoundedInduction, TLAPS

Links == [Node -> Node \cup {NoEntry}]

\* One assignment through a pointer.
Put(f, a, b) == [f EXCEPT ![a] = b]

\* Ring, on the two functions alone.
Linked(nx, pv, h, S) ==
  /\ \A n \in S \cup {h} :
       /\ nx[n] \in S \cup {h} /\ pv[nx[n]] = n
       /\ pv[n] \in S \cup {h} /\ nx[pv[n]] = n
  /\ NoCircle(nx, S)

\* What circles in S is a matter of the links from S.
LEMMA CircleElsewhere ==
  ASSUME NEW f, NEW g, NEW S, \A n \in S : f[n] = g[n], NoCircle(f, S)
  PROVE  NoCircle(g, S)
<1> SUFFICES ASSUME NEW T \in SUBSET S, \A n \in T : g[n] \in T
             PROVE  T = {}
  BY DEF NoCircle
<1>1. \A n \in T : f[n] \in T
  OBVIOUS
<1> QED BY <1>1 DEF NoCircle

\* Unlinking a node leaves the others linked.
LEMMA UnlinkKeepsLinked ==
  ASSUME NEW nx \in Links, NEW pv \in Links,
         NEW h, NEW S, S \cup {h} \subseteq Node, h \notin S,
         NEW e \in S, Linked(nx, pv, h, S)
  PROVE  Linked(Put(nx, pv[e], nx[e]), Put(pv, nx[e], pv[e]),
                h, S \ {e})
<1> DEFINE f == Put(nx, pv[e], nx[e])
           g == Put(pv, nx[e], pv[e])
<1>1. /\ pv[e] \in S \cup {h} /\ nx[e] \in S \cup {h} /\ NoCircle(nx, S)
      /\ nx[pv[e]] = e
  BY DEF Linked
<1>2. /\ f[pv[e]] = nx[e]
      /\ \A n \in S \cup {h} : n # pv[e] => f[n] = nx[n]
  BY <1>1 DEF Links, Put
<1>3. \A n \in (S \ {e}) \cup {h} :
        /\ f[n] \in (S \ {e}) \cup {h} /\ g[f[n]] = n
        /\ g[n] \in (S \ {e}) \cup {h} /\ f[g[n]] = n
  BY DEF Linked, Links, Put
<1> HIDE DEF f, g
<1>4. NoCircle(f, S \ {e})
  <2> SUFFICES ASSUME NEW T \in SUBSET (S \ {e}), \A n \in T : f[n] \in T
               PROVE  T = {}
    BY DEF NoCircle
  <2> DEFINE U == IF pv[e] \in T THEN T \cup {e} ELSE T
  <2>1. \A n \in U : nx[n] \in U
    <3> SUFFICES ASSUME NEW n \in U PROVE nx[n] \in U
      OBVIOUS
    <3>1. CASE n = e
      BY <1>2, <3>1
    <3>2. CASE n # e /\ n = pv[e]
      BY <1>1, <3>2
    <3>3. CASE n # e /\ n # pv[e]
      <4>1. f[n] = nx[n] /\ f[n] \in T
        BY <1>2, <3>3
      <4> QED BY <4>1
    <3> QED BY <3>1, <3>2, <3>3
  <2>2. U \in SUBSET S /\ T \subseteq U
    OBVIOUS
  <2> HIDE DEF U
  <2>3. U = {}
    BY <1>1, <2>1, <2>2 DEF NoCircle
  <2> QED BY <2>2, <2>3
<1> QED BY <1>3, <1>4 DEF Linked, f, g

\* Unlinking a node of one list leaves the other list alone.
LEMMA UnlinkElsewhere ==
  ASSUME NEW nx \in Links, NEW pv \in Links,
         NEW h, NEW S, NEW g, NEW R, S \cup {h, g} \cup R \subseteq Node,
         (S \cup {h}) \cap (R \cup {g}) = {},
         NEW e \in S, Linked(nx, pv, h, S), Linked(nx, pv, g, R)
  PROVE  Linked(Put(nx, pv[e], nx[e]), Put(pv, nx[e], pv[e]),
                g, R)
<1> DEFINE f == Put(nx, pv[e], nx[e])
           b == Put(pv, nx[e], pv[e])
<1>1. pv[e] \notin R /\ NoCircle(nx, R)
  BY DEF Linked
<1>2. \A n \in R : f[n] = nx[n]
  BY <1>1 DEF Links, Put
<1>3. \A n \in R \cup {g} :
        /\ f[n] \in R \cup {g} /\ b[f[n]] = n
        /\ b[n] \in R \cup {g} /\ f[b[n]] = n
  BY DEF Linked, Links, Put
<1> HIDE DEF f, b
<1>4. NoCircle(f, R)
  BY <1>1, <1>2, CircleElsewhere
<1> QED BY <1>3, <1>4 DEF Linked, f, b

\* Linking a node in front of the head of a list extends that list by it ...
LEMMA LinkKeepsLinked ==
  ASSUME NEW nx \in Links, NEW pv \in Links,
         NEW h, NEW S, S \cup {h} \subseteq Node, h \notin S,
         NEW e \in Node, e \notin S \cup {h}, Linked(nx, pv, h, S)
  PROVE  Linked(Put(Put(nx, e, h), pv[h], e),
                Put(Put(pv, e, pv[h]), h, e),
                h, S \cup {e})
<1> DEFINE f == Put(Put(nx, e, h), pv[h], e)
           b == Put(Put(pv, e, pv[h]), h, e)
<1>1. pv[h] \in S \cup {h} /\ NoCircle(nx, S)
  BY DEF Linked
<1>2. /\ f[pv[h]] = e /\ f[e] = h
      /\ \A n \in S : n # pv[h] => f[n] = nx[n]
  BY <1>1 DEF Links, Put
<1>3. \A n \in (S \cup {e}) \cup {h} :
        /\ f[n] \in (S \cup {e}) \cup {h} /\ b[f[n]] = n
        /\ b[n] \in (S \cup {e}) \cup {h} /\ f[b[n]] = n
  BY DEF Linked, Links, Put
<1> HIDE DEF f, b
<1>4. NoCircle(f, S \cup {e})
  <2> SUFFICES ASSUME NEW T \in SUBSET (S \cup {e}), \A n \in T : f[n] \in T
               PROVE  T = {}
    BY DEF NoCircle
  <2>1. e \notin T
    BY <1>2
  <2>2. T \in SUBSET S /\ pv[h] \notin T
    BY <1>2, <2>1
  <2>3. \A n \in T : nx[n] \in T
    BY <1>2, <2>2
  <2> QED BY <1>1, <2>2, <2>3 DEF NoCircle
<1> QED BY <1>3, <1>4 DEF Linked, f, b

\* ... and leaves the other list alone.
LEMMA LinkElsewhere ==
  ASSUME NEW nx \in Links, NEW pv \in Links,
         NEW h, NEW S, NEW g, NEW R, S \cup {h, g} \cup R \subseteq Node,
         (S \cup {h}) \cap (R \cup {g}) = {},
         NEW e \in Node, e \notin S \cup {h} \cup R \cup {g},
         Linked(nx, pv, h, S), Linked(nx, pv, g, R)
  PROVE  Linked(Put(Put(nx, e, h), pv[h], e),
                Put(Put(pv, e, pv[h]), h, e),
                g, R)
<1> DEFINE f == Put(Put(nx, e, h), pv[h], e)
           b == Put(Put(pv, e, pv[h]), h, e)
<1>1. pv[h] \notin R /\ NoCircle(nx, R)
  BY DEF Linked
<1>2. \A n \in R : f[n] = nx[n]
  BY <1>1 DEF Links, Put
<1>3. \A n \in R \cup {g} :
        /\ f[n] \in R \cup {g} /\ b[f[n]] = n
        /\ b[n] \in R \cup {g} /\ f[b[n]] = n
  BY DEF Linked, Links, Put
<1> HIDE DEF f, b
<1>4. NoCircle(f, R)
  BY <1>1, <1>2, CircleElsewhere
<1> QED BY <1>3, <1>4 DEF Linked, f, b

-----------------------------------------------------------------------------
(* Sums over finite sets.  MapThenSumSet is a recursive function on the     *)
(* subsets of its set; what is proved is that there is one, that its value *)
(* is a number, and that any element may be added last.                    *)

Total(f, S) == MapThenSumSet(LAMBDA x : f[x], S)

\* The equation that the function g of Total(f, S) solves.
Last(s) == CHOOSE x \in s : TRUE
Round(f, g, s) == IF s = {} THEN 0 ELSE f[Last(s)] + g[s \ {Last(s)}]
Adds(f, g, S) == \A s \in SUBSET S : g[s] = Round(f, g, s)
AnyOrder(f, g, S) == \A s \in SUBSET S : \A x \in s : g[s] = f[x] + g[s \ {x}]

LEMMA LeastIsThere ==
  ASSUME NEW S \in SUBSET Nat, S # {}
  PROVE  \E x \in S : \A y \in S : x <= y
<1>1. PICK x \in S : \A y \in S : <<y, x>> \notin OpToRel(<, Nat)
  BY WFMin, NatLessThanWellFounded, Zenon
<1>2. \A y \in S : ~(y < x)
  BY <1>1 DEF OpToRel
<1>3. x \in Nat /\ \A y \in S : y \in Nat
  OBVIOUS
<1>4. \A y \in S : x <= y
  BY <1>2, <1>3
<1> QED BY <1>4

LEMMA SubsetCardinality ==
  ASSUME NEW S, IsFiniteSet(S), NEW s \in SUBSET S
  PROVE  /\ IsFiniteSet(s) /\ Cardinality(s) \in Nat /\ Cardinality(s) <= Cardinality(S)
         /\ \A x \in s : s \ {x} \in SUBSET S /\ Cardinality(s \ {x}) = Cardinality(s) - 1
<1>1. IsFiniteSet(s) /\ Cardinality(s) <= Cardinality(S)
  BY FS_Subset
<1>2. Cardinality(s) \in Nat
  BY <1>1, FS_CardinalityType
<1>3. \A x \in s : Cardinality(s \ {x}) = Cardinality(s) - 1
  BY <1>1, FS_RemoveElement
<1> QED BY <1>1, <1>2, <1>3

\* Some set of B loses its place in B with any of its elements.
LEMMA MinimalIsThere ==
  ASSUME NEW S, IsFiniteSet(S), NEW B \in SUBSET (SUBSET S), B # {}
  PROVE  \E s \in B : \A x \in s : s \ {x} \notin B
<1> DEFINE N == {Cardinality(s) : s \in B}
<1>1. N \in SUBSET Nat /\ N # {}
  BY SubsetCardinality
<1>2. PICK n \in N : \A m \in N : n <= m
  BY <1>1, LeastIsThere
<1>3. PICK s \in B : n = Cardinality(s)
  BY <1>2
<1>4. ASSUME NEW x \in s PROVE s \ {x} \notin B
  <2>1. Cardinality(s \ {x}) = n - 1 /\ n \in Nat
    BY <1>3, SubsetCardinality
  <2>2. ~(n <= n - 1)
    BY <2>1
  <2>3. s \ {x} \in B => n <= n - 1
    BY <1>2, <2>1
  <2> QED BY <2>2, <2>3
<1> QED BY <1>4

LEMMA LastIsIn ==
  ASSUME NEW s, s # {}
  PROVE  Last(s) \in s
BY DEF Last

\* There is only one such function, whatever f is outside the set.
LEMMA SumsAgree ==
  ASSUME NEW S, IsFiniteSet(S), NEW f, NEW d, \A x \in S : f[x] = d[x],
         NEW g, NEW h, Adds(f, g, S), Adds(d, h, S)
  PROVE  \A s \in SUBSET S : g[s] = h[s]
<1> DEFINE B == {s \in SUBSET S : g[s] # h[s]}
<1>1. SUFFICES ASSUME B # {} PROVE FALSE
  OBVIOUS
<1>2. PICK s \in B : \A x \in s : s \ {x} \notin B
  <2>1. B \in SUBSET (SUBSET S)
    OBVIOUS
  <2> HIDE DEF B
  <2> QED BY <1>1, <2>1, MinimalIsThere
<1>3. g[s] = Round(f, g, s) /\ h[s] = Round(d, h, s) /\ g[s] # h[s] /\ s \in SUBSET S
  BY DEF Adds
<1>4. s # {}
  BY <1>3 DEF Round
<1>5. Last(s) \in s /\ f[Last(s)] = d[Last(s)]
  BY <1>3, <1>4, LastIsIn
<1>6. g[s \ {Last(s)}] = h[s \ {Last(s)}]
  BY <1>2, <1>3, <1>5
<1> QED BY <1>3, <1>4, <1>5, <1>6 DEF Round

LEMMA SumExists ==
  ASSUME NEW S, IsFiniteSet(S), NEW f, \A x \in S : f[x] \in Int
  PROVE  \E g \in [SUBSET S -> Int] : Adds(f, g, S)
<1> DEFINE Upto(g, n) == /\ g \in [SUBSET S -> Int]
                         /\ \A s \in SUBSET S : Cardinality(s) <= n => g[s] = Round(f, g, s)
<1>1. \A n \in Nat : \E g : Upto(g, n)
  <2> DEFINE B == {n \in Nat : ~\E g : Upto(g, n)}
  <2>1. SUFFICES ASSUME B # {} PROVE FALSE
    OBVIOUS
  <2>2. PICK n \in B : \A m \in B : n <= m
    <3>1. B \in SUBSET Nat
      OBVIOUS
    <3> HIDE DEF B
    <3> QED BY <2>1, <3>1, LeastIsThere
  <2>3. n \in Nat /\ ~\E g : Upto(g, n)
    BY <2>2
  <2>4. n # 0
    <3> DEFINE g == [s \in SUBSET S |-> 0]
    <3>1. ASSUME NEW s \in SUBSET S, Cardinality(s) <= 0
          PROVE  g[s] = Round(f, g, s)
      <4>1. s = {}
        BY <3>1, SubsetCardinality, FS_EmptySet
      <4> QED BY <4>1 DEF Round
    <3>2. g \in [SUBSET S -> Int]
      OBVIOUS
    <3> HIDE DEF g
    <3>3. Upto(g, 0)
      BY <3>1, <3>2
    <3> HIDE DEF Upto
    <3> QED BY <2>3, <3>3
  <2>5. n - 1 \in Nat /\ n - 1 \notin B
    <3>1. n - 1 \in Nat /\ ~(n <= n - 1)
      BY <2>3, <2>4
    <3> HIDE DEF B
    <3> QED BY <2>2, <3>1
  <2>6. PICK g : Upto(g, n - 1)
    <3> HIDE DEF Upto
    <3> QED BY <2>5
  <2> DEFINE h == [s \in SUBSET S |-> IF Cardinality(s) = n THEN Round(f, g, s) ELSE g[s]]
  <2>7. ASSUME NEW s \in SUBSET S, s # {}
        PROVE  /\ Last(s) \in s /\ f[Last(s)] \in Int
               /\ s \ {Last(s)} \in SUBSET S /\ g[s \ {Last(s)}] \in Int
               /\ Cardinality(s \ {Last(s)}) = Cardinality(s) - 1
    <3>1. Last(s) \in s
      BY <2>7, LastIsIn
    <3> QED BY <2>6, <3>1, SubsetCardinality
  <2>8. h \in [SUBSET S -> Int]
    <3>1. \A s \in SUBSET S : Round(f, g, s) \in Int /\ g[s] \in Int
      BY <2>6, <2>7 DEF Round
    <3> QED BY <3>1
  <2>9. ASSUME NEW s \in SUBSET S, Cardinality(s) <= n
        PROVE  h[s] = Round(f, h, s)
    <3>1. Cardinality(s) \in Nat
      BY SubsetCardinality
    <3>2. Round(f, h, s) = Round(f, g, s)
      <4>1. CASE s = {}
        BY <4>1 DEF Round
      <4>2. CASE s # {}
        <5>1. /\ s \ {Last(s)} \in SUBSET S
              /\ Cardinality(s \ {Last(s)}) # n
          <6>1. /\ s \ {Last(s)} \in SUBSET S
                /\ Cardinality(s \ {Last(s)}) = Cardinality(s) - 1
            BY <2>7, <4>2
          <6>2. Cardinality(s) - 1 # n
            BY <2>3, <2>9, <3>1
          <6> QED BY <6>1, <6>2
        <5>2. h[s \ {Last(s)}] = g[s \ {Last(s)}]
          BY <5>1
        <5> HIDE DEF h
        <5> QED BY <4>2, <5>2 DEF Round
      <4> QED BY <4>1, <4>2
    <3>3. h[s] = IF Cardinality(s) = n THEN Round(f, g, s) ELSE g[s]
      OBVIOUS
    <3>4. Cardinality(s) # n => g[s] = Round(f, g, s)
      <4>1. Cardinality(s) # n => Cardinality(s) <= n - 1
        BY <2>3, <2>9, <3>1
      <4> QED BY <2>6, <4>1
    <3> HIDE DEF h
    <3> QED BY <3>2, <3>3, <3>4
  <2> HIDE DEF h
  <2>10. Upto(h, n)
    BY <2>8, <2>9
  <2> HIDE DEF Upto
  <2> QED BY <2>3, <2>10
<1>2. Cardinality(S) \in Nat
  BY FS_CardinalityType
<1>3. PICK g : Upto(g, Cardinality(S))
  <2> HIDE DEF Upto
  <2> QED BY <1>1, <1>2
<1>4. Adds(f, g, S)
  BY <1>3, SubsetCardinality DEF Adds
<1> QED BY <1>3, <1>4

\* The function in the definition of MapThenSumSet is that one.
LEMMA TotalIsSum ==
  ASSUME NEW S, IsFiniteSet(S), NEW f, \A x \in S : f[x] \in Int,
         NEW g, Adds(f, g, S)
  PROVE  Total(f, S) = g[S]
<1> DEFINE iter == CHOOSE h : h = [s \in SUBSET S |-> Round(f, h, s)]
<1>1. PICK h \in [SUBSET S -> Int] : Adds(f, h, S)
  BY SumExists
<1>2. h = [s \in SUBSET S |-> Round(f, h, s)]
  BY <1>1 DEF Adds
<1>3. iter = [s \in SUBSET S |-> Round(f, iter, s)]
  BY <1>2
<1>4. Total(f, S) = iter[S]
  BY DEF Total, MapThenSumSet, MapThenFoldSet, Round, Last
<1> HIDE DEF iter
<1>5. Adds(f, iter, S)
  <2>1. \A s \in SUBSET S : iter[s] = Round(f, iter, s)
    BY <1>3
  <2> QED BY <2>1 DEF Adds
<1>6. iter[S] = g[S]
  BY <1>5, SumsAgree
<1> QED BY <1>4, <1>6

\* It does not matter which element is added last.
LEMMA AnyIsLast ==
  ASSUME NEW S, IsFiniteSet(S), NEW f, \A x \in S : f[x] \in Int,
         NEW g \in [SUBSET S -> Int], Adds(f, g, S)
  PROVE  AnyOrder(f, g, S)
<1> DEFINE B == {s \in SUBSET S : \E x \in s : g[s] # f[x] + g[s \ {x}]}
<1>1. SUFFICES ASSUME B # {} PROVE FALSE
  BY DEF AnyOrder
<1>2. PICK s \in B : \A x \in s : s \ {x} \notin B
  <2>1. B \in SUBSET (SUBSET S)
    OBVIOUS
  <2> HIDE DEF B
  <2> QED BY <1>1, <2>1, MinimalIsThere
<1>3. PICK x \in s : g[s] # f[x] + g[s \ {x}]
  BY <1>2
<1> DEFINE y == Last(s)
<1>4. s \in SUBSET S /\ y \in s /\ g[s] = f[y] + g[s \ {y}]
  <2>1. s \in SUBSET S /\ s # {}
    BY <1>2, <1>3
  <2> QED BY <2>1, LastIsIn DEF Adds, Round
<1> HIDE DEF y
<1>5. x # y
  BY <1>3, <1>4
<1>6. g[s \ {y}] = f[x] + g[(s \ {y}) \ {x}]
  BY <1>2, <1>4, <1>5
<1>7. g[s \ {x}] = f[y] + g[(s \ {x}) \ {y}]
  BY <1>2, <1>4, <1>5
<1>8. (s \ {x}) \ {y} = (s \ {y}) \ {x}
  OBVIOUS
<1>9. f[x] \in Int /\ f[y] \in Int /\ g[(s \ {y}) \ {x}] \in Int
  BY <1>4
<1> DEFINE a == f[x]
           b == f[y]
           c == g[(s \ {y}) \ {x}]
<1>10. g[s] = b + (a + c) /\ g[s \ {x}] = b + c /\ a \in Int /\ b \in Int /\ c \in Int
  BY <1>4, <1>6, <1>7, <1>8, <1>9
<1>11. g[s] # a + g[s \ {x}]
  BY <1>3
<1> HIDE DEF a, b, c
<1> QED BY <1>10, <1>11

LEMMA TotalOfNone == \A f : Total(f, {}) = 0
<1> SUFFICES ASSUME NEW f PROVE Total(f, {}) = 0
  OBVIOUS
<1>1. IsFiniteSet({}) /\ \A x \in {} : f[x] \in Int
  BY FS_EmptySet
<1>2. PICK g \in [SUBSET {} -> Int] : Adds(f, g, {})
  BY <1>1, SumExists
<1>3. Total(f, {}) = g[{}] /\ g[{}] = Round(f, g, {})
  BY <1>1, <1>2, TotalIsSum DEF Adds
<1> QED BY <1>3 DEF Round

LEMMA TotalIsInt ==
  ASSUME NEW S, IsFiniteSet(S), NEW f, \A x \in S : f[x] \in Int
  PROVE  Total(f, S) \in Int
<1>1. PICK g \in [SUBSET S -> Int] : Adds(f, g, S)
  BY SumExists
<1>2. Total(f, S) = g[S] /\ S \in SUBSET S
  BY <1>1, TotalIsSum
<1> QED BY <1>1, <1>2

LEMMA TotalWithout ==
  ASSUME NEW S, IsFiniteSet(S), NEW f, \A x \in S : f[x] \in Int, NEW e \in S
  PROVE  Total(f, S) = f[e] + Total(f, S \ {e})
<1>1. PICK g \in [SUBSET S -> Int] : Adds(f, g, S)
  BY SumExists
<1>2. Total(f, S) = g[S]
  BY <1>1, TotalIsSum
<1>3. IsFiniteSet(S \ {e}) /\ Adds(f, g, S \ {e})
  BY <1>1, FS_RemoveElement DEF Adds
<1>4. Total(f, S \ {e}) = g[S \ {e}]
  BY <1>3, TotalIsSum
<1>5. g[S] = f[e] + g[S \ {e}]
  <2>1. AnyOrder(f, g, S)
    BY <1>1, AnyIsLast
  <2>2. S \in SUBSET S
    OBVIOUS
  <2> QED BY <2>1, <2>2 DEF AnyOrder
<1> QED BY <1>2, <1>4, <1>5

LEMMA TotalIsLocal ==
  ASSUME NEW S, IsFiniteSet(S), NEW f, NEW d,
         \A x \in S : f[x] \in Int /\ d[x] = f[x]
  PROVE  Total(d, S) = Total(f, S)
<1>1. PICK g \in [SUBSET S -> Int] : Adds(f, g, S)
  BY SumExists
<1>2. PICK h \in [SUBSET S -> Int] : Adds(d, h, S)
  BY SumExists
<1>3. Total(f, S) = g[S] /\ Total(d, S) = h[S]
  BY <1>1, <1>2, TotalIsSum
<1>4. g[S] = h[S]
  BY <1>1, <1>2, SumsAgree
<1> QED BY <1>3, <1>4

-----------------------------------------------------------------------------
(* The order of the idle entries, on a bare next function: the links lead   *)
(* from first through each node of S once and to lru_.  The n nodes are     *)
(* counted apart from the sequence.                                        *)

Along(f, first, q, n) ==
  /\ first = IF n = 0 THEN Lru ELSE q[1]
  /\ \A i \in 1..n : f[q[i]] = IF i < n THEN q[i + 1] ELSE Lru

Visits(f, first, S, q, n) ==
  /\ n \in Nat /\ q \in [1..n -> S] /\ Lru \notin S
  /\ Along(f, first, q, n)
  /\ \A e \in S : \E i \in 1..n : q[i] = e
  /\ \A i, j \in 1..n : q[i] = q[j] => i = j

Path(f, first, S, q) == \E n \in Nat : Visits(f, first, S, q, n)

\* A function on 1 to n is a sequence of length n.
LEMMA FunctionIsSeq ==
  ASSUME NEW n \in Nat, NEW S, NEW q \in [1..n -> S]
  PROVE  q \in Seq(S) /\ Len(q) = n
OBVIOUS

LEMMA LeadsIsAlong ==
  ASSUME NEW n \in Nat, NEW S, NEW q \in [1..n -> S], NEW f, NEW first
  PROVE  Leads(f, first, q) <=> Along(f, first, q, n)
<1>1. Len(q) = n
  BY FunctionIsSeq
<1> DEFINE l == Len(q)
<1>2. l = n
  BY <1>1
<1> HIDE DEF l
<1>3. /\ NodeAt(q, 1) = IF n = 0 THEN Lru ELSE q[1]
      /\ \A i \in 1..n : NodeAt(q, i + 1) = IF i < n THEN q[i + 1] ELSE Lru
  BY <1>2 DEF NodeAt, l
<1> QED BY <1>2, <1>3 DEF Leads, Along, l

\* No two sequences follow the same links.
LEMMA AlongIsUnique ==
  ASSUME NEW n \in Nat, NEW S, NEW p \in [1..n -> S], NEW q \in [1..n -> S],
         NEW f, NEW first, Along(f, first, p, n), Along(f, first, q, n)
  PROVE  p = q
<1> DEFINE B == {i \in 1..n : p[i] # q[i]}
<1>1. CASE B # {}
  <2>1. PICK i \in B : \A j \in B : i <= j
    <3>1. B \in SUBSET Nat
      OBVIOUS
    <3> HIDE DEF B
    <3> QED BY <1>1, <3>1, LeastIsThere
  <2>2. i \in 1..n /\ p[i] # q[i]
    OBVIOUS
  <2>3. CASE i = 1
    BY <2>2, <2>3 DEF Along
  <2>4. CASE i # 1
    <3>1. i - 1 \in 1..n /\ i - 1 < n /\ (i - 1) + 1 = i /\ i - 1 < i
      BY <2>2, <2>4
    <3>2. p[i - 1] = q[i - 1]
      <4>1. i - 1 \notin B
        BY <2>1, <3>1
      <4> QED BY <3>1, <4>1
    <3>3. f[p[i - 1]] = p[i] /\ f[q[i - 1]] = q[i]
      BY <3>1 DEF Along
    <3> QED BY <2>2, <3>2, <3>3
  <2> QED BY <2>3, <2>4
<1>2. CASE B = {}
  BY <1>2
<1> QED BY <1>1, <1>2

LEMMA PathIsFollow ==
  ASSUME NEW f, NEW first, NEW S, NEW q, Path(f, first, S, q)
  PROVE  Follow(f, first, S) = q
<1>1. PICK n \in Nat : Visits(f, first, S, q, n)
  BY DEF Path
<1>2. Cardinality(S) = n
  <2>1. q \in Bijection(1..n, S)
    BY <1>1 DEF Visits, Bijection, Injection, Surjection, IsInjective
  <2> QED BY <2>1, FS_CountingElements DEF ExistsBijection
<1>3. q \in [1..n -> S] /\ Along(f, first, q, n)
  BY <1>1 DEF Visits
<1>4. Leads(f, first, q)
  BY <1>3, LeadsIsAlong
<1>5. \A p \in [1..n -> S] : Leads(f, first, p) => p = q
  BY <1>3, LeadsIsAlong, AlongIsUnique
<1> QED BY <1>2, <1>3, <1>4, <1>5 DEF Follow

\* q without the node at i.
Cut(q, n, i) == [j \in 1..(n - 1) |-> IF j < i THEN q[j] ELSE q[j + 1]]

LEMMA RemoveFirstCuts ==
  ASSUME NEW n \in Nat, NEW S, NEW q \in [1..n -> S], NEW i \in 1..n,
         \A j \in 1..n : q[j] = q[i] => j = i
  PROVE  Abstract!RemoveFirst(q, q[i]) = Cut(q, n, i)
<1>1. q \in Seq(S) /\ Len(q) = n
  BY FunctionIsSeq
<1> DEFINE a == SubSeq(q, 1, i - 1)
           b == SubSeq(q, i + 1, n)
<1>2. Abstract!RemoveFirst(q, q[i]) = a \o b
  <2>1. {j \in 1..Len(q) : q[j] = q[i]} = {i}
    BY <1>1
  <2>2. Abstract!Min({i}) = i
    BY DEF Abstract!Min
  <2>3. Abstract!SelectInSeq(q, LAMBDA v : v = q[i]) = i
    BY <2>1, <2>2 DEF Abstract!SelectInSeq
  <2> QED BY <1>1, <2>3 DEF Abstract!RemoveFirst, Abstract!RemoveAt
<1>3. /\ a \in Seq(S) /\ Len(a) = i - 1 /\ \A j \in 1..(i - 1) : a[j] = q[j]
  <2>1. \A j \in 1..(i - 1) : q[j] \in S
    OBVIOUS
  <2>2. 1 \in Int /\ i - 1 \in Int
    OBVIOUS
  <2>3. /\ a \in Seq(S) /\ Len(a) = IF 1 <= i - 1 THEN (i - 1) - 1 + 1 ELSE 0
        /\ \A j \in 1..((i - 1) - 1 + 1) : a[j] = q[1 + j - 1]
    BY <2>1, <2>2, SubSeqProperties
  <2> HIDE DEF a
  <2> QED BY <2>3
<1>4. /\ b \in Seq(S) /\ Len(b) = n - i /\ \A j \in 1..(n - i) : b[j] = q[i + j]
  <2>1. \A j \in (i + 1)..n : q[j] \in S
    OBVIOUS
  <2>2. i + 1 \in Int /\ n \in Int
    OBVIOUS
  <2>3. /\ b \in Seq(S) /\ Len(b) = IF i + 1 <= n THEN n - (i + 1) + 1 ELSE 0
        /\ \A j \in 1..(n - (i + 1) + 1) : b[j] = q[(i + 1) + j - 1]
    BY <2>1, <2>2, SubSeqProperties
  <2> HIDE DEF b
  <2> QED BY <2>3
<1> HIDE DEF a, b
<1>5. /\ a \o b \in Seq(S) /\ Len(a \o b) = Len(a) + Len(b)
      /\ \A j \in 1..(Len(a) + Len(b)) :
           (a \o b)[j] = IF j <= Len(a) THEN a[j] ELSE b[j - Len(a)]
  BY <1>3, <1>4, ConcatProperties
<1> DEFINE c == a \o b
<1>6. /\ c \in [1..(n - 1) -> S]
      /\ \A j \in 1..(n - 1) : c[j] = IF j < i THEN q[j] ELSE q[j + 1]
  <2>1. Len(c) = n - 1 /\ c \in [1..Len(c) -> S]
    <3> DEFINE la == Len(a)
               lb == Len(b)
               lc == Len(c)
    <3>1. la = i - 1 /\ lb = n - i /\ lc = la + lb /\ c \in [1..lc -> S]
      BY <1>3, <1>4, <1>5, LenProperties
    <3>2. lc = n - 1
      <4> HIDE DEF la, lb, lc
      <4> QED BY <3>1
    <3> QED BY <3>1, <3>2
  <2>2. \A j \in 1..(n - 1) : c[j] = IF j <= i - 1 THEN a[j] ELSE b[j - (i - 1)]
    BY <1>3, <1>4, <1>5
  <2> HIDE DEF c
  <2>3. ASSUME NEW j \in 1..(n - 1) PROVE c[j] = IF j < i THEN q[j] ELSE q[j + 1]
    <3>1. CASE j < i
      BY <1>3, <2>2, <3>1
    <3>2. CASE ~(j < i)
      <4>1. j - (i - 1) \in 1..(n - i) /\ i + (j - (i - 1)) = j + 1 /\ ~(j <= i - 1)
        BY <3>2
      <4> QED BY <1>4, <2>2, <3>2, <4>1
    <3> QED BY <3>1, <3>2
  <2> QED BY <2>1, <2>3
<1> HIDE DEF c
<1>7. c = Cut(q, n, i)
  BY <1>6 DEF Cut
<1> QED BY <1>2, <1>7 DEF c

LEMMA RemoveFirstOfNone ==
  ASSUME NEW n \in Nat, NEW S, NEW q \in [1..n -> S], NEW e, e \notin S
  PROVE  Abstract!RemoveFirst(q, e) = q
<1>1. Len(q) = n
  BY FunctionIsSeq
<1> QED BY <1>1 DEF Abstract!RemoveFirst

\* The links of g are those of f but for the node e, which they pass by.
LEMMA PathWithout ==
  ASSUME NEW f, NEW g, NEW S, NEW q, NEW e, e # Lru, Path(f, f[Lru], S, q),
         \A m \in (S \ {e}) \cup {Lru} : g[m] = IF f[m] = e THEN f[e] ELSE f[m]
  PROVE  Path(g, g[Lru], S \ {e}, Abstract!RemoveFirst(q, e))
<1>1. PICK n \in Nat : Visits(f, f[Lru], S, q, n)
  BY DEF Path
<1>2. /\ q \in [1..n -> S] /\ Lru \notin S
      /\ f[Lru] = IF n = 0 THEN Lru ELSE q[1]
      /\ \A i \in 1..n : f[q[i]] = IF i < n THEN q[i + 1] ELSE Lru
      /\ \A x \in S : \E i \in 1..n : q[i] = x
      /\ \A i, j \in 1..n : q[i] = q[j] => i = j
  BY <1>1 DEF Visits, Along
<1>3. CASE e \notin S
  <2>1. Abstract!RemoveFirst(q, e) = q /\ S \ {e} = S
    BY <1>2, <1>3, RemoveFirstOfNone
  <2>2. \A i \in 1..n : f[q[i]] # e /\ q[i] \in S
    <3> SUFFICES ASSUME NEW i \in 1..n PROVE f[q[i]] # e /\ q[i] \in S
      OBVIOUS
    <3>1. q[i] \in S /\ (i < n => q[i + 1] \in S)
      BY <1>2
    <3>2. f[q[i]] = IF i < n THEN q[i + 1] ELSE Lru
      BY <1>2
    <3> QED BY <1>3, <3>1, <3>2
  <2>3. f[Lru] # e
    BY <1>2, <1>3
  <2>4. g[Lru] = f[Lru] /\ \A i \in 1..n : g[q[i]] = f[q[i]]
    BY <1>3, <2>2, <2>3
  <2>5. Visits(g, g[Lru], S, q, n)
    BY <1>2, <2>4 DEF Visits, Along
  <2> QED BY <2>1, <2>5 DEF Path
<1>4. CASE e \in S
  <2>1. PICK i \in 1..n : q[i] = e
    BY <1>2, <1>4
  <2> DEFINE r == Cut(q, n, i)
  <2>2. Abstract!RemoveFirst(q, e) = r
    <3>1. \A j \in 1..n : q[j] = q[i] => j = i
      BY <1>2
    <3>2. Abstract!RemoveFirst(q, q[i]) = r
      <4>1. q \in [1..n -> S]
        BY <1>2
      <4> HIDE DEF r
      <4>2. Abstract!RemoveFirst(q, q[i]) = Cut(q, n, i)
        BY <3>1, <4>1, RemoveFirstCuts
      <4> QED BY <4>2 DEF r
    <3> QED BY <2>1, <3>2
  <2>3. /\ n \in Nat \ {0} /\ n - 1 \in Nat /\ i <= n /\ i >= 1
        /\ \A j \in 1..(n - 1) : r[j] = IF j < i THEN q[j] ELSE q[j + 1]
    BY <2>1 DEF Cut
  <2>4. \A j \in 1..n : j # i => q[j] \in S \ {e} /\ q[j] # Lru
    BY <1>2, <2>1
  <2>5. r \in [1..(n - 1) -> S \ {e}]
    <3>1. \A j \in 1..(n - 1) : r[j] \in S \ {e}
      BY <2>3, <2>4
    <3> QED BY <3>1 DEF Cut
  <2> HIDE DEF r
  <2>6. f[e] = IF i < n THEN q[i + 1] ELSE Lru
    BY <1>2, <2>1
  <2>7. g[Lru] = IF n - 1 = 0 THEN Lru ELSE r[1]
    <3>1. CASE i = 1
      BY <1>2, <2>1, <2>3, <2>6, <3>1
    <3>2. CASE i # 1
      <4>1. f[Lru] = q[1] /\ q[1] # e /\ r[1] = q[1] /\ n - 1 # 0
        BY <1>2, <2>1, <2>3, <3>2
      <4> QED BY <4>1
    <3> QED BY <3>1, <3>2
  <2>8. ASSUME NEW j \in 1..(n - 1)
        PROVE  g[r[j]] = IF j < n - 1 THEN r[j + 1] ELSE Lru
    <3>1. g[r[j]] = IF f[r[j]] = e THEN f[e] ELSE f[r[j]]
      BY <2>5
    <3>2. CASE j < i
      <4>1. r[j] = q[j] /\ f[r[j]] = q[j + 1] /\ j + 1 \in 1..n
        BY <1>2, <2>3, <3>2
      <4>2. CASE j + 1 = i
        BY <2>1, <2>3, <2>6, <3>1, <3>2, <4>1, <4>2
      <4>3. CASE j + 1 # i
        <5>1. q[j + 1] # e /\ j + 1 < i /\ j + 1 \in 1..(n - 1) /\ j < n - 1
          BY <2>3, <2>4, <3>2, <4>1, <4>3
        <5>2. r[j + 1] = q[j + 1]
          BY <2>3, <5>1
        <5> QED BY <3>1, <4>1, <5>1, <5>2
      <4> QED BY <4>2, <4>3
    <3>3. CASE ~(j < i)
      <4>1. r[j] = q[j + 1] /\ j + 1 \in 1..n
            /\ f[q[j + 1]] = IF j + 1 < n THEN q[(j + 1) + 1] ELSE Lru
        BY <1>2, <2>3, <3>3
      <4>2. CASE j + 1 < n
        <5>1. /\ j < n - 1 /\ j + 1 \in 1..(n - 1) /\ ~(j + 1 < i)
              /\ (j + 1) + 1 \in 1..n /\ (j + 1) + 1 # i
          BY <2>3, <3>3, <4>2
        <5>2. r[j + 1] = q[(j + 1) + 1] /\ q[(j + 1) + 1] # e
          BY <2>3, <2>4, <5>1
        <5> QED BY <3>1, <4>1, <4>2, <5>1, <5>2
      <4>3. CASE ~(j + 1 < n)
        BY <3>1, <4>1, <4>3
      <4> QED BY <4>2, <4>3
    <3> QED BY <3>2, <3>3
  <2>9. ASSUME NEW x \in S \ {e} PROVE \E j \in 1..(n - 1) : r[j] = x
    <3>1. PICK l \in 1..n : q[l] = x
      BY <1>2
    <3>2. l # i
      BY <2>1, <3>1
    <3>3. CASE l < i
      <4>1. l \in 1..(n - 1) /\ r[l] = q[l]
        BY <2>3, <3>3
      <4> QED BY <3>1, <4>1
    <3>4. CASE ~(l < i)
      <4>1. l - 1 \in 1..(n - 1) /\ ~(l - 1 < i) /\ (l - 1) + 1 = l
        BY <2>3, <3>2, <3>4
      <4>2. r[l - 1] = q[l]
        BY <2>3, <4>1
      <4> QED BY <3>1, <4>1, <4>2
    <3> QED BY <3>3, <3>4
  <2>10. ASSUME NEW j \in 1..(n - 1), NEW l \in 1..(n - 1), r[j] = r[l] PROVE j = l
    <3> DEFINE J == IF j < i THEN j ELSE j + 1
               L == IF l < i THEN l ELSE l + 1
    <3>1. J \in 1..n /\ L \in 1..n /\ r[j] = q[J] /\ r[l] = q[L]
      BY <2>3
    <3>2. q[J] = q[L]
      BY <2>10, <3>1
    <3>3. J = L
      <4> HIDE DEF J, L
      <4> QED BY <1>2, <3>1, <3>2
    <3> QED BY <2>3, <3>3
  <2>11. Visits(g, g[Lru], S \ {e}, r, n - 1)
    <3>1. Lru \notin S \ {e}
      BY <1>2
    <3> QED BY <2>3, <2>5, <2>7, <2>8, <2>9, <2>10, <3>1 DEF Visits, Along
  <2> QED BY <2>2, <2>3, <2>11 DEF Path
<1> QED BY <1>3, <1>4

\* The links of g lead from the last node to e, where those of f ended.
LEMMA PathWith ==
  ASSUME NEW f, NEW g, NEW S, NEW q, NEW e, e # Lru, e \notin S,
         Path(f, f[Lru], S, q), g[e] = Lru,
         \A m \in S \cup {Lru} : g[m] = IF f[m] = Lru THEN e ELSE f[m]
  PROVE  Path(g, g[Lru], S \cup {e}, Append(q, e))
<1>1. PICK n \in Nat : Visits(f, f[Lru], S, q, n)
  BY DEF Path
<1>2. /\ q \in [1..n -> S] /\ Lru \notin S
      /\ f[Lru] = IF n = 0 THEN Lru ELSE q[1]
      /\ \A i \in 1..n : f[q[i]] = IF i < n THEN q[i + 1] ELSE Lru
      /\ \A x \in S : \E i \in 1..n : q[i] = x
      /\ \A i, j \in 1..n : q[i] = q[j] => i = j
  BY <1>1 DEF Visits, Along
<1> DEFINE r == Append(q, e)
<1>3. /\ r \in [1..(n + 1) -> S \cup {e}]
      /\ \A i \in 1..(n + 1) : r[i] = IF i <= n THEN q[i] ELSE e
  <2>1. q \in Seq(S \cup {e}) /\ Len(q) = n
    <3>1. q \in [1..n -> S \cup {e}]
      BY <1>2
    <3> QED BY <3>1, FunctionIsSeq
  <2> DEFINE l == Len(r)
  <2>2. /\ l = n + 1 /\ r \in [1..l -> S \cup {e}]
        /\ \A i \in 1..n : r[i] = q[i]
        /\ r[n + 1] = e
    <3>1. e \in S \cup {e}
      OBVIOUS
    <3>2. /\ r \in Seq(S \cup {e}) /\ Len(r) = n + 1 /\ r[n + 1] = e
          /\ \A i \in 1..n : r[i] = q[i]
      BY <2>1, <3>1, AppendProperties
    <3> HIDE DEF r
    <3> QED BY <3>2, LenProperties
  <2> HIDE DEF r, l
  <2> QED BY <2>2
<1> HIDE DEF r
<1>4. n + 1 \in Nat /\ n + 1 # 0 /\ r[1] = IF n = 0 THEN e ELSE q[1]
  BY <1>3
<1>5. g[Lru] = r[1]
  BY <1>2, <1>4
<1>6. ASSUME NEW i \in 1..(n + 1)
      PROVE  g[r[i]] = IF i < n + 1 THEN r[i + 1] ELSE Lru
  <2>1. CASE i = n + 1
    BY <1>3, <2>1
  <2>2. CASE i # n + 1
    <3>1. i \in 1..n /\ i + 1 \in 1..(n + 1) /\ i < n + 1
      BY <2>2
    <3>2. r[i] = q[i] /\ q[i] \in S /\ r[i + 1] = IF i < n THEN q[i + 1] ELSE e
      BY <1>2, <1>3, <3>1
    <3>3. f[q[i]] = IF i < n THEN q[i + 1] ELSE Lru
      BY <1>2, <3>1
    <3>4. i < n => q[i + 1] # Lru
      BY <1>2, <3>1
    <3> QED BY <3>1, <3>2, <3>3, <3>4
  <2> QED BY <2>1, <2>2
<1>7. ASSUME NEW x \in S \cup {e} PROVE \E i \in 1..(n + 1) : r[i] = x
  <2>1. CASE x = e
    BY <1>3, <2>1
  <2>2. CASE x \in S
    BY <1>2, <1>3, <2>2
  <2> QED BY <2>1, <2>2
<1>8. ASSUME NEW i \in 1..(n + 1), NEW j \in 1..(n + 1), r[i] = r[j] PROVE i = j
  BY <1>2, <1>3, <1>8
<1>9. Visits(g, g[Lru], S \cup {e}, r, n + 1)
  BY <1>2, <1>3, <1>4, <1>5, <1>6, <1>7, <1>8 DEF Visits, Along
<1> QED BY <1>4, <1>9 DEF Path, r

\* A path is a matter of the links from its nodes.
LEMMA PathElsewhere ==
  ASSUME NEW f, NEW g, NEW first, NEW S, NEW q, Path(f, first, S, q),
         \A m \in S : g[m] = f[m]
  PROVE  Path(g, first, S, q)
BY DEF Path, Visits, Along

\* The rest of a path, after its first node.
LEMMA PathTail ==
  ASSUME NEW f, NEW g, NEW e, NEW S, NEW q, Path(f, e, S, q), e \in S,
         \A m \in S \ {e} : g[m] = f[m]
  PROVE  /\ q # <<>> /\ Head(q) = e
         /\ Path(g, f[e], S \ {e}, Tail(q))
<1>1. PICK n \in Nat : Visits(f, e, S, q, n)
  BY DEF Path
<1>2. /\ q \in [1..n -> S] /\ Lru \notin S
      /\ e = IF n = 0 THEN Lru ELSE q[1]
      /\ \A i \in 1..n : f[q[i]] = IF i < n THEN q[i + 1] ELSE Lru
      /\ \A x \in S : \E i \in 1..n : q[i] = x
      /\ \A i, j \in 1..n : q[i] = q[j] => i = j
  BY <1>1 DEF Visits, Along
<1>3. n # 0 /\ q[1] = e /\ n - 1 \in Nat
  BY <1>2
<1>4. q \in Seq(S) /\ Len(q) = n
  BY <1>2, FunctionIsSeq
<1>5. q # <<>> /\ Head(q) = e
  BY <1>3, <1>4
<1> DEFINE r == Tail(q)
<1>6. /\ r \in [1..(n - 1) -> S \ {e}]
      /\ \A i \in 1..(n - 1) : r[i] = q[i + 1]
  <2>1. /\ r \in Seq(S) /\ Len(r) = Len(q) - 1
        /\ \A i \in 1..(Len(q) - 1) : r[i] = q[i + 1]
    BY <1>4, <1>5, HeadTailProperties
  <2> DEFINE l == Len(r)
  <2>2. l = n - 1 /\ r \in [1..l -> S] /\ \A i \in 1..(n - 1) : r[i] = q[i + 1]
    BY <1>4, <2>1, LenProperties
  <2> HIDE DEF r, l
  <2>3. \A i \in 1..(n - 1) : r[i] \in S \ {e}
    BY <1>2, <1>3, <2>2
  <2> QED BY <2>2, <2>3
<1> HIDE DEF r
<1>7. f[e] = IF n - 1 = 0 THEN Lru ELSE r[1]
  BY <1>2, <1>3, <1>6
<1>8. ASSUME NEW i \in 1..(n - 1)
      PROVE  g[r[i]] = IF i < n - 1 THEN r[i + 1] ELSE Lru
  <2>1. i + 1 \in 1..n /\ r[i] = q[i + 1] /\ g[r[i]] = f[r[i]]
    BY <1>6
  <2>2. f[q[i + 1]] = IF i + 1 < n THEN q[(i + 1) + 1] ELSE Lru
    BY <1>2, <2>1
  <2>3. i < n - 1 => r[i + 1] = q[(i + 1) + 1]
    BY <1>6
  <2> QED BY <2>1, <2>2, <2>3
<1>9. ASSUME NEW x \in S \ {e} PROVE \E i \in 1..(n - 1) : r[i] = x
  <2>1. PICK l \in 1..n : q[l] = x
    BY <1>2
  <2>2. l - 1 \in 1..(n - 1) /\ (l - 1) + 1 = l
    BY <1>3, <2>1
  <2> QED BY <1>6, <2>1, <2>2
<1>10. ASSUME NEW i \in 1..(n - 1), NEW j \in 1..(n - 1), r[i] = r[j] PROVE i = j
  <2>1. i + 1 \in 1..n /\ j + 1 \in 1..n /\ q[i + 1] = q[j + 1]
    BY <1>6, <1>10
  <2>2. i + 1 = j + 1
    BY <1>2, <2>1
  <2> QED BY <2>2
<1>11. Visits(g, f[e], S \ {e}, r, n - 1)
  BY <1>2, <1>3, <1>6, <1>7, <1>8, <1>9, <1>10 DEF Visits, Along
<1> QED BY <1>3, <1>5, <1>11 DEF Path, r

-----------------------------------------------------------------------------
(* The private methods.                                                    *)

\* What holds of a shard s between two statements of its methods, when h[e] is
\* the number of references to e other than the cache's.
Sound(s, h) ==
  /\ s \in Shard
  /\ CountsMatch(s, h)
  /\ ListsMatch(s)

LEMMA NodesApart ==
  ASSUME NEW s \in Shard
  PROVE  /\ Unused(s) \subseteq Entry /\ Used(s) \subseteq Entry
         /\ Unused(s) \cap Used(s) = {}
         /\ Lru \in Node /\ InUse \in Node /\ Entry \subseteq Node
         /\ Lru \notin Entry /\ InUse \notin Entry /\ Lru # InUse
         /\ NoEntry \notin Node
BY CacheAssumption DEF Unused, Used, Node, Lru, InUse, Shard

\* t is s up to the links of the lists.
Relinked(s, t) ==
  /\ t \in Shard
  /\ t.key = s.key /\ t.charge = s.charge /\ t.refs = s.refs
  /\ t.inCache = s.inCache /\ t.table = s.table /\ t.usage = s.usage

LEMMA RemoveFields ==
  ASSUME NEW s \in Shard, NEW e \in Node, s.next[e] \in Node, s.prev[e] \in Node
  PROVE  /\ LRU_Remove(s, e).next = Put(s.next, s.prev[e], s.next[e])
         /\ LRU_Remove(s, e).prev = Put(s.prev, s.next[e], s.prev[e])
         /\ Relinked(s, LRU_Remove(s, e))
<1>1. LRU_Remove(s, e) = [s EXCEPT !.next = Put(s.next, s.prev[e], s.next[e]),
                                   !.prev = Put(s.prev, s.next[e], s.prev[e])]
  BY DEF LRU_Remove, Shard, Put
<1>2. LRU_Remove(s, e) \in Shard
  BY DEF LRU_Remove, Shard
<1> QED BY <1>1, <1>2 DEF Shard, Relinked

LEMMA AppendFields ==
  ASSUME NEW s \in Shard, NEW e \in Node, NEW list \in Node,
         s.prev[list] \in Node
  PROVE  /\ LRU_Append(s, list, e).next = Put(Put(s.next, e, list), s.prev[list], e)
         /\ LRU_Append(s, list, e).prev = Put(Put(s.prev, e, s.prev[list]), list, e)
         /\ Relinked(s, LRU_Append(s, list, e))
<1>1. LRU_Append(s, list, e) =
        [s EXCEPT !.next = Put(Put(s.next, e, list), s.prev[list], e),
                  !.prev = Put(Put(s.prev, e, s.prev[list]), list, e)]
  BY DEF LRU_Append, Shard, Put
<1>2. LRU_Append(s, list, e) \in Shard
  BY DEF LRU_Append, Shard
<1> QED BY <1>1, <1>2 DEF Shard, Relinked

\* The lists after e was unlinked from the one it was in.
LEMMA RemoveKeepsLists ==
  ASSUME NEW s \in Shard, ListsMatch(s), NEW e \in Unused(s) \cup Used(s)
  PROVE  /\ Relinked(s, LRU_Remove(s, e))
         /\ Ring(LRU_Remove(s, e), Lru, Unused(s) \ {e})
         /\ Ring(LRU_Remove(s, e), InUse, Used(s) \ {e})
<1> DEFINE t == LRU_Remove(s, e)
<1>1. e \in Node /\ s.next[e] \in Node /\ s.prev[e] \in Node
  BY NodesApart DEF ListsMatch, Ring
<1>3. /\ t.next = Put(s.next, s.prev[e], s.next[e])
      /\ t.prev = Put(s.prev, s.next[e], s.prev[e])
      /\ Relinked(s, t)
  BY <1>1, RemoveFields
<1>4. /\ s.next \in Links /\ s.prev \in Links
      /\ Linked(s.next, s.prev, Lru, Unused(s))
      /\ Linked(s.next, s.prev, InUse, Used(s))
  BY DEF Shard, ListsMatch, Ring, Linked, Links
<1>5. /\ Unused(s) \cup {Lru} \subseteq Node /\ Lru \notin Unused(s)
      /\ Used(s) \cup {InUse} \subseteq Node /\ InUse \notin Used(s)
      /\ Unused(s) \cup {Lru, InUse} \cup Used(s) \subseteq Node
      /\ Used(s) \cup {InUse, Lru} \cup Unused(s) \subseteq Node
      /\ (Unused(s) \cup {Lru}) \cap (Used(s) \cup {InUse}) = {}
      /\ (Used(s) \cup {InUse}) \cap (Unused(s) \cup {Lru}) = {}
  BY NodesApart
<1>6. /\ Linked(t.next, t.prev, Lru, Unused(s) \ {e})
      /\ Linked(t.next, t.prev, InUse, Used(s) \ {e})
  <2>1. CASE e \in Unused(s)
    <3>1. Used(s) \ {e} = Used(s)
      BY <2>1, NodesApart
    <3>2. Linked(Put(s.next, s.prev[e], s.next[e]),
                 Put(s.prev, s.next[e], s.prev[e]), Lru, Unused(s) \ {e})
      BY <2>1, <1>4, <1>5, UnlinkKeepsLinked
    <3>3. Linked(t.next, t.prev, InUse, Used(s))
      BY <2>1, <1>3, <1>4, <1>5, UnlinkElsewhere
    <3> QED BY <3>1, <3>2, <3>3, <1>3
  <2>2. CASE e \in Used(s)
    <3>1. Unused(s) \ {e} = Unused(s)
      BY <2>2, NodesApart
    <3>2. Linked(Put(s.next, s.prev[e], s.next[e]),
                 Put(s.prev, s.next[e], s.prev[e]), InUse, Used(s) \ {e})
      BY <2>2, <1>4, <1>5, UnlinkKeepsLinked
    <3>3. Linked(t.next, t.prev, Lru, Unused(s))
      BY <2>2, <1>3, <1>4, <1>5, UnlinkElsewhere
    <3> QED BY <3>1, <3>2, <3>3, <1>3
  <2> QED BY <2>1, <2>2
<1> QED BY <1>3, <1>6 DEF Ring, Linked

\* The lists R and S after e, which is in neither, was linked into one of them.
LEMMA AppendKeepsLists ==
  ASSUME NEW s \in Shard, NEW R \in SUBSET Entry, NEW S \in SUBSET Entry,
         R \cap S = {}, NEW e \in Entry, e \notin R \cup S,
         NEW r \in {Lru, InUse}, NEW q \in {Lru, InUse}, r # q,
         Ring(s, r, R), Ring(s, q, S)
  PROVE  /\ Relinked(s, LRU_Append(s, r, e))
         /\ Ring(LRU_Append(s, r, e), r, R \cup {e})
         /\ Ring(LRU_Append(s, r, e), q, S)
<1> DEFINE t == LRU_Append(s, r, e)
<1>1. /\ e \in Node /\ r \in Node /\ q \in Node /\ s.prev[r] \in Node
      /\ r \notin Entry /\ q \notin Entry
  BY NodesApart DEF Ring
<1>3. /\ t.next = Put(Put(s.next, e, r), s.prev[r], e)
      /\ t.prev = Put(Put(s.prev, e, s.prev[r]), r, e)
      /\ Relinked(s, t)
  BY <1>1, AppendFields
<1>4. /\ s.next \in Links /\ s.prev \in Links
      /\ Linked(s.next, s.prev, r, R)
      /\ Linked(s.next, s.prev, q, S)
  BY DEF Shard, Ring, Linked, Links
<1>5. /\ R \cup {r} \subseteq Node /\ S \cup {r, q} \cup R \subseteq Node
      /\ R \cup {r, q} \cup S \subseteq Node
      /\ (R \cup {r}) \cap (S \cup {q}) = {}
      /\ e \notin R \cup {r} \cup S \cup {q} /\ e \notin R \cup {r}
      /\ r \notin R
  BY <1>1, NodesApart
<1>6. Linked(Put(Put(s.next, e, r), s.prev[r], e),
             Put(Put(s.prev, e, s.prev[r]), r, e), r, R \cup {e})
  BY <1>1, <1>4, <1>5, LinkKeepsLinked
<1>7. Linked(t.next, t.prev, q, S)
  BY <1>1, <1>3, <1>4, <1>5, LinkElsewhere
<1> QED BY <1>3, <1>6, <1>7 DEF Ring, Linked

\* The links forward, when e is unlinked from the list it is in and when it is
\* linked behind the head r of the entries R, the other list having q and S.
LEMMA RemoveLinks ==
  ASSUME NEW s \in Shard, ListsMatch(s), NEW e \in Unused(s) \cup Used(s)
  PROVE  \A m \in (Unused(s) \ {e}) \cup {Lru} :
           LRU_Remove(s, e).next[m] = IF s.next[m] = e THEN s.next[e] ELSE s.next[m]
<1>1. s.next[e] \in Node /\ s.prev[e] \in Node /\ e \in Node
  BY NodesApart DEF ListsMatch, Ring
<1>2. LRU_Remove(s, e).next = Put(s.next, s.prev[e], s.next[e])
  BY <1>1, RemoveFields
<1> SUFFICES ASSUME NEW m \in (Unused(s) \ {e}) \cup {Lru}
             PROVE  Put(s.next, s.prev[e], s.next[e])[m]
                      = IF s.next[m] = e THEN s.next[e] ELSE s.next[m]
  BY <1>2
<1>3. m \in Node /\ s.prev[s.next[m]] = m
  BY NodesApart DEF ListsMatch, Ring
<1>4. m = s.prev[e] <=> s.next[m] = e
  BY <1>3 DEF ListsMatch, Ring
<1> QED BY <1>3, <1>4 DEF Put, Shard

LEMMA AppendLinks ==
  ASSUME NEW s \in Shard, NEW R \in SUBSET Entry, NEW S \in SUBSET Entry,
         R \cap S = {}, NEW e \in Entry, e \notin R \cup S,
         NEW r \in {Lru, InUse}, NEW q \in {Lru, InUse}, r # q,
         Ring(s, r, R), Ring(s, q, S)
  PROVE  /\ LRU_Append(s, r, e).next[e] = r
         /\ \A m \in R \cup {r} :
              LRU_Append(s, r, e).next[m] = IF s.next[m] = r THEN e ELSE s.next[m]
         /\ \A m \in S \cup {q} : LRU_Append(s, r, e).next[m] = s.next[m]
<1>1. /\ e \in Node /\ r \in Node /\ q \in Node /\ s.prev[r] \in R \cup {r}
      /\ r \notin Entry /\ q \notin Entry /\ R \subseteq Node /\ S \subseteq Node
      /\ s.prev[r] \in Node
  BY NodesApart DEF Ring
<1>2. LRU_Append(s, r, e).next = Put(Put(s.next, e, r), s.prev[r], e)
  BY <1>1, AppendFields
<1>3. ASSUME NEW m \in Node
      PROVE  LRU_Append(s, r, e).next[m]
               = IF m = s.prev[r] THEN e ELSE IF m = e THEN r ELSE s.next[m]
  BY <1>2 DEF Put, Shard
<1>4. e # s.prev[r] /\ \A m \in S \cup {q} : m # s.prev[r] /\ m # e /\ m \in Node
  BY <1>1
<1>5. ASSUME NEW m \in R \cup {r} PROVE m # e /\ m \in Node /\ (m = s.prev[r] <=> s.next[m] = r)
  BY <1>1 DEF Ring
<1> QED BY <1>1, <1>3, <1>4, <1>5

\* What the methods below leave as it was.
Same(s, t) ==
  /\ t.table = s.table /\ t.inCache = s.inCache /\ t.usage = s.usage
  /\ \A e \in Entry : s.inCache[e] => t.key[e] = s.key[e] /\ t.charge[e] = s.charge[e]

\* What taking e out of the cache changes, as far as the table is concerned.
Erased(s, t, e) ==
  /\ t.table = s.table
  /\ t.inCache = [s.inCache EXCEPT ![e] = FALSE]
  /\ t.usage = s.usage - s.charge[e]
  /\ \A x \in Entry : t.inCache[x] => t.key[x] = s.key[x] /\ t.charge[x] = s.charge[x]

\* What the methods do to lru_: nothing, e leaves it, or e becomes the last.
Keeps(s, t) ==
  /\ Unused(t) = Unused(s)
  /\ \A m \in Unused(s) \cup {Lru} : t.next[m] = s.next[m]

Skips(s, t, e) ==
  /\ Unused(t) = Unused(s) \ {e}
  /\ \A m \in (Unused(s) \ {e}) \cup {Lru} :
       t.next[m] = IF s.next[m] = e THEN s.next[e] ELSE s.next[m]

Extends(s, t, e) ==
  /\ e \notin Unused(s) /\ Unused(t) = Unused(s) \cup {e}
  /\ t.next[e] = Lru
  /\ \A m \in Unused(s) \cup {Lru} :
       t.next[m] = IF s.next[m] = Lru THEN e ELSE s.next[m]

LEMMA SkipsThenKeeps ==
  ASSUME NEW s, NEW t, NEW u, NEW e, Skips(s, t, e), Keeps(t, u)
  PROVE  Skips(s, u, e)
BY DEF Keeps, Skips

LEMMA KeepsThenSkips ==
  ASSUME NEW s, ListsMatch(s), NEW t, Keeps(s, t), NEW e, NEW u, Skips(t, u, e)
  PROVE  Skips(s, u, e)
<1>1. \A m \in Unused(s) \cup {Lru} : s.next[m] \in Unused(s) \cup {Lru}
  BY DEF ListsMatch, Ring
<1> QED BY <1>1 DEF Keeps, Skips

\* An entry that is not in lru_ cannot leave it.
LEMMA KeepsSkips ==
  ASSUME NEW s, ListsMatch(s), NEW t, Keeps(s, t), NEW e, e \notin Unused(s), e # Lru
  PROVE  Skips(s, t, e)
BY DEF Keeps, Skips, ListsMatch, Ring

-----------------------------------------------------------------------------
\* usage_, as the methods leave it.
Counted(s) == {e \in Entry : s.inCache[e]}

UsageFits(s) == IsFiniteSet(Counted(s)) /\ s.usage = Total(s.charge, Counted(s))

LEMMA ChargeIsInt ==
  ASSUME NEW s \in Shard
  PROVE  s.usage \in Int /\ \A e \in Entry : s.charge[e] \in Int
<1>1. \A c \in Charge \cup {0} : c \in Int
  BY CacheAssumption
<1>2. s.usage \in Int /\ \A e \in Entry : s.charge[e] \in Charge \cup {0}
  BY DEF Shard
<1> QED BY <1>1, <1>2

LEMMA UsageStays ==
  ASSUME NEW s \in Shard, NEW t, UsageFits(s), t.inCache = s.inCache, t.usage = s.usage,
         \A e \in Entry : s.inCache[e] => t.charge[e] = s.charge[e]
  PROVE  UsageFits(t)
<1> DEFINE C == Counted(s)
<1>1. Counted(t) = C /\ IsFiniteSet(C) /\ s.usage = Total(s.charge, C)
  BY DEF Counted, UsageFits
<1>2. \A e \in C : s.charge[e] \in Int /\ t.charge[e] = s.charge[e]
  BY ChargeIsInt DEF Counted
<1> HIDE DEF C
<1>3. Total(t.charge, C) = Total(s.charge, C)
  BY <1>1, <1>2, TotalIsLocal
<1> QED BY <1>1, <1>3 DEF UsageFits

LEMMA UsageShrinks ==
  ASSUME NEW s \in Shard, NEW t, UsageFits(s), NEW e \in Entry, s.inCache[e],
         Erased(s, t, e)
  PROVE  UsageFits(t)
<1> DEFINE C == Counted(s)
           D == C \ {e}
<1>1. IsFiniteSet(C) /\ s.usage = Total(s.charge, C) /\ e \in C
  BY DEF Counted, UsageFits
<1>2. Counted(t) = D /\ \A x \in D : t.charge[x] = s.charge[x]
  BY DEF Counted, Erased, Shard
<1>3. (\A x \in C : s.charge[x] \in Int) /\ IsFiniteSet(D)
  BY <1>1, ChargeIsInt, FS_RemoveElement DEF Counted
<1> HIDE DEF C
<1>4. Total(s.charge, C) = s.charge[e] + Total(s.charge, D)
  BY <1>1, <1>3, TotalWithout
<1>5. Total(s.charge, D) \in Int /\ Total(t.charge, D) = Total(s.charge, D)
  BY <1>2, <1>3, TotalIsLocal, TotalIsInt
<1>6. t.usage = s.usage - s.charge[e] /\ s.charge[e] \in Int
  BY <1>1, <1>3 DEF Erased
<1> DEFINE a == s.charge[e]
           b == Total(s.charge, D)
<1>7. a \in Int /\ b \in Int /\ t.usage = (a + b) - a
  BY <1>1, <1>4, <1>5, <1>6
<1>8. t.usage = b
  <2> HIDE DEF a, b
  <2> QED BY <1>7
<1> QED BY <1>2, <1>3, <1>5, <1>8 DEF UsageFits

LEMMA UsageGrows ==
  ASSUME NEW s \in Shard, NEW t \in Shard, UsageFits(s), NEW e \in Entry, ~s.inCache[e],
         t.inCache = [s.inCache EXCEPT ![e] = TRUE],
         t.charge = s.charge, t.usage = s.usage + s.charge[e]
  PROVE  UsageFits(t)
<1> DEFINE C == Counted(s)
           D == C \cup {e}
<1>1. IsFiniteSet(C) /\ s.usage = Total(s.charge, C) /\ e \notin C
  BY DEF Counted, UsageFits
<1>2. Counted(t) = D
  BY DEF Counted, Shard
<1>3. (\A x \in D : s.charge[x] \in Int) /\ IsFiniteSet(D) /\ D \ {e} = C
  BY <1>1, ChargeIsInt, FS_AddElement DEF Counted
<1> HIDE DEF C
<1>4. Total(s.charge, D) = s.charge[e] + Total(s.charge, C)
  <2>1. e \in D
    OBVIOUS
  <2> HIDE DEF D
  <2> QED BY <2>1, <1>3, TotalWithout
<1>5. Total(s.charge, C) \in Int /\ s.charge[e] \in Int
  BY <1>1, <1>3, TotalIsInt
<1> DEFINE a == s.charge[e]
           b == Total(s.charge, C)
<1>6. a + b = b + a
  <2>1. a \in Int /\ b \in Int
    BY <1>5
  <2> HIDE DEF a, b
  <2> QED BY <2>1
<1> QED BY <1>1, <1>2, <1>3, <1>4, <1>6 DEF UsageFits

-----------------------------------------------------------------------------
\* Ref hands out one more reference to a live entry.
LEMMA RefIsSound ==
  ASSUME NEW s, NEW h \in [Entry -> Nat], Sound(s, h),
         NEW e \in Entry, s.refs[e] > 0
  PROVE  /\ Sound(Ref(s, e), [h EXCEPT ![e] = @ + 1])
         /\ Same(s, Ref(s, e)) /\ Skips(s, Ref(s, e), e)
<1> DEFINE t == Ref(s, e)
<1>1. s \in Shard /\ CountsMatch(s, h) /\ ListsMatch(s)
  BY DEF Sound
<1>2. CASE e \in Unused(s)
  <2> DEFINE out == LRU_Remove(s, e)
             in == LRU_Append(out, InUse, e)
  <2>1. /\ Relinked(s, out)
        /\ Ring(out, Lru, Unused(s) \ {e})
        /\ Ring(out, InUse, Used(s) \ {e})
    BY <1>1, <1>2, RemoveKeepsLists
  <2>r. \A m \in (Unused(s) \ {e}) \cup {Lru} :
          out.next[m] = IF s.next[m] = e THEN s.next[e] ELSE s.next[m]
    BY <1>1, <1>2, RemoveLinks
  <2>2. /\ Used(s) \ {e} = Used(s)
        /\ Unused(s) \ {e} \in SUBSET Entry /\ Used(s) \in SUBSET Entry
        /\ (Used(s)) \cap (Unused(s) \ {e}) = {}
        /\ e \notin Used(s) \cup (Unused(s) \ {e}) /\ out \in Shard
        /\ InUse \in {Lru, InUse} /\ Lru \in {Lru, InUse} /\ InUse # Lru
    BY <1>1, <1>2, <2>1, NodesApart DEF Relinked
  <2> HIDE DEF out
  <2>3. /\ Relinked(out, in)
        /\ Ring(in, InUse, Used(s) \cup {e})
        /\ Ring(in, Lru, Unused(s) \ {e})
        /\ \A m \in (Unused(s) \ {e}) \cup {Lru} : in.next[m] = out.next[m]
    <3>1. Ring(out, InUse, Used(s)) /\ Ring(out, Lru, Unused(s) \ {e})
      BY <2>1, <2>2
    <3>2. \A m \in (Unused(s) \ {e}) \cup {Lru} : in.next[m] = out.next[m]
      BY <3>1, <2>2, AppendLinks
    <3>3. /\ Relinked(out, in)
          /\ Ring(in, InUse, Used(s) \cup {e})
          /\ Ring(in, Lru, Unused(s) \ {e})
      BY <3>1, <2>2, AppendKeepsLists
    <3> QED BY <3>2, <3>3
  <2> HIDE DEF in
  <2>4. t = [in EXCEPT !.refs = [s.refs EXCEPT ![e] = @ + 1]]
    <3>1. t = [in EXCEPT !.refs[e] = @ + 1]
      BY <1>2 DEF Ref, Unused, in, out
    <3>2. in.refs = s.refs
      BY <2>1, <2>3 DEF Relinked
    <3> QED BY <3>1, <3>2
  <2>5. /\ t \in Shard /\ t.next = in.next /\ t.prev = in.prev
        /\ t.refs = [s.refs EXCEPT ![e] = @ + 1] /\ t.inCache = s.inCache
        /\ Same(s, t)
    <3>1. /\ in.inCache = s.inCache /\ in.table = s.table /\ in.key = s.key
          /\ in.charge = s.charge /\ in.usage = s.usage
      BY <2>1, <2>3 DEF Relinked
    <3> DEFINE refs == [s.refs EXCEPT ![e] = @ + 1]
    <3>2. in \in Shard /\ t = [in EXCEPT !.refs = refs] /\ refs \in [Entry -> Nat]
      BY <1>1, <2>3, <2>4 DEF Relinked, Shard
    <3> HIDE DEF t, in, refs
    <3>3. /\ t \in Shard /\ t.next = in.next /\ t.prev = in.prev /\ t.key = in.key
          /\ t.refs = refs /\ t.inCache = in.inCache
          /\ t.charge = in.charge /\ t.table = in.table /\ t.usage = in.usage
      BY <3>2 DEF Shard
    <3> QED BY <3>1, <3>3 DEF Same, refs
  <2>6. Unused(t) = Unused(s) \ {e} /\ Used(t) = Used(s) \cup {e}
    BY <1>1, <1>2, <2>5 DEF Unused, Used, Shard
  <2>7. ListsMatch(t)
    BY <2>3, <2>5, <2>6 DEF ListsMatch, Ring
  <2>8. CountsMatch(t, [h EXCEPT ![e] = @ + 1])
    BY <1>1, <2>5 DEF CountsMatch, Shard
  <2>9. Skips(s, t, e)
    <3> HIDE DEF t
    <3> QED BY <2>r, <2>3, <2>5, <2>6 DEF Skips
  <2> QED BY <2>5, <2>7, <2>8, <2>9 DEF Sound
<1>3. CASE e \notin Unused(s)
  <2>1. t = [s EXCEPT !.refs[e] = @ + 1]
    BY <1>1, <1>3 DEF Ref, Unused, Shard
  <2>2. /\ t \in Shard /\ t.next = s.next /\ t.prev = s.prev
        /\ t.refs = [s.refs EXCEPT ![e] = @ + 1] /\ t.inCache = s.inCache
        /\ Same(s, t)
    BY <1>1, <2>1 DEF Shard, Same
  <2>3. Unused(t) = Unused(s) /\ Used(t) = Used(s)
    BY <1>1, <1>3, <2>2 DEF Unused, Used, Shard
  <2>4. ListsMatch(t)
    BY <1>1, <2>2, <2>3 DEF ListsMatch, Ring
  <2>5. CountsMatch(t, [h EXCEPT ![e] = @ + 1])
    BY <1>1, <2>2 DEF CountsMatch, Shard
  <2>6. Skips(s, t, e)
    <3>1. Keeps(s, t)
      BY <2>2, <2>3 DEF Keeps
    <3>2. e # Lru
      BY <1>1, NodesApart
    <3> HIDE DEF t
    <3> QED BY <1>1, <1>3, <3>1, <3>2, KeepsSkips
  <2> QED BY <2>2, <2>4, <2>5, <2>6 DEF Sound
<1> QED BY <1>2, <1>3

\* Unref gives one reference back, and frees the entry when it was the last.
LEMMA UnrefIsSound ==
  ASSUME NEW s, NEW h \in [Entry -> Nat], Sound(s, h),
         NEW e \in Entry, h[e] > 0
  PROVE  /\ Sound(Unref(s, e), [h EXCEPT ![e] = @ - 1])
         /\ Same(s, Unref(s, e))
         /\ IF s.refs[e] = 2 /\ s.inCache[e] THEN Extends(s, Unref(s, e), e)
                                            ELSE Keeps(s, Unref(s, e))
<1> DEFINE t == Unref(s, e)
           less == [s EXCEPT !.refs[e] = @ - 1]
           g == [h EXCEPT ![e] = @ - 1]
<1>1. s \in Shard /\ CountsMatch(s, h) /\ ListsMatch(s)
  BY DEF Sound
<1>2. /\ s.refs[e] \in Nat /\ s.refs[e] > 0
      /\ s.refs[e] = 1 => ~s.inCache[e]
      /\ s.inCache[e] => e \in Used(s)
  BY <1>1 DEF CountsMatch, Shard, Used
<1>3. /\ less \in Shard /\ less.refs = [s.refs EXCEPT ![e] = @ - 1]
      /\ less.key = s.key /\ less.charge = s.charge /\ less.inCache = s.inCache
      /\ less.next = s.next /\ less.prev = s.prev
      /\ less.table = s.table /\ less.usage = s.usage
  BY <1>1, <1>2 DEF Shard
<1>4. CountsMatch(less, g)
  BY <1>1, <1>3 DEF CountsMatch, Shard
<1> HIDE DEF less
<1>5. t = IF less.refs[e] = 0
          THEN Freed(less, e)
          ELSE IF less.inCache[e] /\ less.refs[e] = 1
               THEN LRU_Append(LRU_Remove(less, e), Lru, e)
               ELSE less
  BY DEF Unref, less
<1> HIDE DEF t, g
<1>6. CASE s.refs[e] = 1
  <2>1. t = Freed(less, e) /\ ~s.inCache[e]
    BY <1>1, <1>2, <1>3, <1>5, <1>6 DEF Shard
  <2>2. /\ t \in Shard /\ t.refs = less.refs /\ t.inCache = less.inCache
        /\ t.next = [less.next EXCEPT ![e] = NoEntry]
        /\ t.prev = [less.prev EXCEPT ![e] = NoEntry]
        /\ Same(s, t)
    BY <1>3, <2>1, NodesApart DEF Freed, Shard, Same
  <2>3. Unused(t) = Unused(s) /\ Used(t) = Used(s) /\ e \notin Unused(s) \cup Used(s)
    BY <1>1, <1>3, <1>6, <2>1, <2>2 DEF Unused, Used, Shard
  <2>4. ListsMatch(t)
    <3>1. e # Lru /\ e # InUse
      BY <1>1, NodesApart
    <3>2. ListsMatch(s) /\ s.next \in Links /\ s.prev \in Links
      BY <1>1 DEF Shard, Links
    <3>3. ASSUME NEW n \in Node, n # e
          PROVE  t.next[n] = s.next[n] /\ t.prev[n] = s.prev[n]
      BY <1>3, <2>2, <3>2, <3>3 DEF Links
    <3>4. /\ \A n \in Unused(s) \cup Used(s) \cup {Lru, InUse} :
               n \in Node /\ n # e
          /\ NoCircle(s.next, Unused(s)) /\ NoCircle(s.next, Used(s))
      BY <1>1, <2>3, <3>1, NodesApart DEF ListsMatch, Ring
    <3>5. \A n \in Unused(s) \cup Used(s) \cup {Lru, InUse} :
            t.next[n] = s.next[n] /\ t.prev[n] = s.prev[n]
      BY <3>3, <3>4
    <3>6. NoCircle(t.next, Unused(s)) /\ NoCircle(t.next, Used(s))
      BY <3>4, <3>5, CircleElsewhere
    <3> QED BY <2>3, <3>2, <3>5, <3>6 DEF ListsMatch, Ring
  <2>5. CountsMatch(t, g)
    BY <1>4, <2>2 DEF CountsMatch
  <2>6. Keeps(s, t) /\ s.refs[e] # 2
    <3>1. e \notin Unused(s) \cup {Lru}
      BY <1>1, <2>3, NodesApart
    <3>2. \A m \in Unused(s) \cup {Lru} : t.next[m] = s.next[m]
      BY <1>1, <1>3, <2>2, <3>1, NodesApart DEF Shard
    <3> QED BY <1>6, <2>3, <3>2 DEF Keeps
  <2> QED BY <2>2, <2>4, <2>5, <2>6 DEF Sound, g, t
<1>7. CASE s.refs[e] = 2 /\ s.inCache[e]
  <2> DEFINE out == LRU_Remove(less, e)
  <2>1. t = LRU_Append(out, Lru, e)
    BY <1>1, <1>2, <1>3, <1>5, <1>7 DEF Shard
  <2>2. /\ Unused(less) = Unused(s) \cup {e} /\ Used(less) = Used(s) \ {e}
        /\ e \in Used(s)
    BY <1>1, <1>2, <1>3, <1>7 DEF Unused, Used, Shard
  <2>3. /\ Relinked(less, out)
        /\ Ring(out, Lru, Unused(s))
        /\ Ring(out, InUse, Used(s) \ {e})
        /\ \A m \in Unused(s) \cup {Lru} : out.next[m] = s.next[m]
    <3>1. /\ Relinked(s, LRU_Remove(s, e))
          /\ Ring(LRU_Remove(s, e), Lru, Unused(s) \ {e})
          /\ Ring(LRU_Remove(s, e), InUse, Used(s) \ {e})
          /\ \A m \in (Unused(s) \ {e}) \cup {Lru} :
               LRU_Remove(s, e).next[m] = IF s.next[m] = e THEN s.next[e] ELSE s.next[m]
      <4>1. e \in Unused(s) \cup Used(s)
        BY <2>2
      <4> QED BY <1>1, <4>1, RemoveKeepsLists, RemoveLinks
    <3>2. Unused(s) \ {e} = Unused(s) /\ e # Lru
      BY <1>1, <2>2, NodesApart
    <3>7. \A m \in Unused(s) \cup {Lru} : LRU_Remove(s, e).next[m] = s.next[m]
      BY <1>1, <2>2, <3>1, <3>2 DEF ListsMatch, Ring
    <3>3. s.next[e] \in Node /\ s.prev[e] \in Node /\ e \in Node
      BY <1>1, <2>2, NodesApart DEF ListsMatch, Ring
    <3>4. /\ LRU_Remove(s, e).next = Put(s.next, s.prev[e], s.next[e])
          /\ LRU_Remove(s, e).prev = Put(s.prev, s.next[e], s.prev[e])
      BY <1>1, <3>3, RemoveFields
    <3>6. /\ out.next = Put(less.next, less.prev[e], less.next[e])
          /\ out.prev = Put(less.prev, less.next[e], less.prev[e])
          /\ Relinked(less, out)
      BY <1>3, <3>3, RemoveFields
    <3>5. /\ Relinked(less, out)
          /\ out.next = LRU_Remove(s, e).next /\ out.prev = LRU_Remove(s, e).prev
      BY <1>3, <3>4, <3>6
    <3> HIDE DEF out
    <3> QED BY <3>1, <3>2, <3>5, <3>7 DEF Ring
  <2> HIDE DEF out
  <2>4. /\ Unused(s) \in SUBSET Entry /\ Used(s) \ {e} \in SUBSET Entry
        /\ Unused(s) \cap (Used(s) \ {e}) = {}
        /\ e \notin Unused(s) \cup (Used(s) \ {e}) /\ out \in Shard
        /\ InUse \in {Lru, InUse} /\ Lru \in {Lru, InUse} /\ Lru # InUse
    BY <1>1, <2>2, <2>3, NodesApart DEF Relinked
  <2>5. /\ Relinked(out, t)
        /\ Ring(t, Lru, Unused(s) \cup {e})
        /\ Ring(t, InUse, Used(s) \ {e})
    BY <2>1, <2>3, <2>4, AppendKeepsLists
  <2>l. /\ t.next[e] = Lru
        /\ \A m \in Unused(s) \cup {Lru} :
             t.next[m] = IF out.next[m] = Lru THEN e ELSE out.next[m]
    BY <2>1, <2>3, <2>4, AppendLinks
  <2>6. /\ t \in Shard /\ t.refs = less.refs /\ t.inCache = s.inCache /\ Same(s, t)
    BY <1>3, <2>3, <2>5 DEF Relinked, Same
  <2>7. Unused(t) = Unused(s) \cup {e} /\ Used(t) = Used(s) \ {e}
    BY <1>3, <2>2, <2>6 DEF Unused, Used
  <2>8. ListsMatch(t)
    BY <2>5, <2>7 DEF ListsMatch
  <2>9. CountsMatch(t, g)
    BY <1>3, <1>4, <2>6 DEF CountsMatch
  <2>10. Extends(s, t, e)
    BY <2>3, <2>4, <2>7, <2>l DEF Extends
  <2> QED BY <1>7, <2>6, <2>8, <2>9, <2>10 DEF Sound, g, t
<1>8. CASE s.refs[e] # 1 /\ ~(s.refs[e] = 2 /\ s.inCache[e])
  <2>1. t = less
    BY <1>1, <1>2, <1>3, <1>5, <1>8 DEF Shard
  <2>2. Unused(t) = Unused(s) /\ Used(t) = Used(s)
    BY <1>1, <1>2, <1>3, <1>8, <2>1 DEF Unused, Used, Shard
  <2>3. ListsMatch(t)
    BY <1>1, <1>3, <2>1, <2>2 DEF ListsMatch, Ring
  <2>4. Keeps(s, t)
    BY <1>3, <2>1, <2>2 DEF Keeps
  <2> QED BY <1>3, <1>4, <1>8, <2>1, <2>3, <2>4 DEF Sound, Same, g, t
<1> QED BY <1>6, <1>7, <1>8 DEF t, g

\* FinishErase takes a cached entry out of the cache, and nothing else.
LEMMA FinishEraseIsSound ==
  ASSUME NEW s, NEW h \in [Entry -> Nat], Sound(s, h),
         NEW e \in Entry, s.inCache[e]
  PROVE  /\ Sound(FinishErase(s, e), h) /\ Erased(s, FinishErase(s, e), e)
         /\ Skips(s, FinishErase(s, e), e)
<1> DEFINE removed == LRU_Remove(s, e)
           out == [removed EXCEPT !.inCache[e] = FALSE,
                                  !.usage = @ - s.charge[e]]
           g == [h EXCEPT ![e] = @ + 1]
<1>1. s \in Shard /\ CountsMatch(s, h) /\ ListsMatch(s)
  BY DEF Sound
<1>2. e \in Unused(s) \cup Used(s)
  BY <1>1 DEF Unused, Used, CountsMatch, Shard
<1>3. /\ Relinked(s, removed)
      /\ Ring(removed, Lru, Unused(s) \ {e})
      /\ Ring(removed, InUse, Used(s) \ {e})
  BY <1>1, <1>2, RemoveKeepsLists
<1>l. \A m \in (Unused(s) \ {e}) \cup {Lru} :
        removed.next[m] = IF s.next[m] = e THEN s.next[e] ELSE s.next[m]
  BY <1>1, <1>2, RemoveLinks
<1>4. e # NoEntry
  BY <1>1, NodesApart
<1>5. FinishErase(s, e) = Unref(out, e)
  BY <1>4 DEF FinishErase
<1> HIDE DEF removed
<1>6. s.usage \in Int /\ s.charge[e] \in Int /\ s.usage - s.charge[e] \in Int
  <2>1. s.usage \in Int /\ s.charge[e] \in Charge \cup {0}
    BY <1>1 DEF Shard
  <2>2. ASSUME NEW c \in Charge \cup {0}
        PROVE  c \in Int
    <3>1. CASE c \in Charge
      BY <3>1, CacheAssumption
    <3>2. CASE c = 0
      BY <3>2
    <3> QED BY <3>1, <3>2
  <2>3. s.charge[e] \in Int
    BY <2>1, <2>2, Zenon
  <2> QED BY <2>1, <2>3
<1>7. /\ out \in Shard /\ out.next = removed.next /\ out.prev = removed.prev
      /\ out.inCache = [s.inCache EXCEPT ![e] = FALSE] /\ out.refs = s.refs
      /\ out.table = s.table /\ out.key = s.key /\ out.charge = s.charge
      /\ out.usage = s.usage - s.charge[e]
  BY <1>3, <1>6 DEF Relinked, Shard
<1> HIDE DEF out
<1>8. Unused(out) = Unused(s) \ {e} /\ Used(out) = Used(s) \ {e}
  BY <1>1, <1>7 DEF Unused, Used, Shard
<1>9. ListsMatch(out)
  BY <1>3, <1>7, <1>8 DEF ListsMatch, Ring
<1>10. CountsMatch(out, g)
  BY <1>1, <1>7 DEF CountsMatch, Shard
<1>11. Sound(out, g) /\ g \in [Entry -> Nat] /\ g[e] > 0
  BY <1>7, <1>9, <1>10 DEF Sound
<1>12. [g EXCEPT ![e] = @ - 1] = h
  <2> DEFINE back == [g EXCEPT ![e] = @ - 1]
  <2>1. back = [x \in Entry |-> back[x]] /\ h = [x \in Entry |-> h[x]]
    OBVIOUS
  <2>2. \A x \in Entry : back[x] = h[x]
    OBVIOUS
  <2> HIDE DEF back
  <2> QED BY <2>1, <2>2 DEF back
<1> HIDE DEF g
<1>13. Sound(Unref(out, e), h) /\ Same(out, Unref(out, e)) /\ Keeps(out, Unref(out, e))
  <2>1. ~out.inCache[e]
    BY <1>1, <1>7 DEF Shard
  <2> QED BY <1>11, <1>12, <2>1, UnrefIsSound
<1>14. Skips(s, Unref(out, e), e)
  <2>1. Skips(s, out, e)
    BY <1>7, <1>8, <1>l DEF Skips
  <2> QED BY <1>13, <2>1, SkipsThenKeeps
<1>15. Erased(s, Unref(out, e), e)
  BY <1>1, <1>7, <1>13 DEF Same, Erased
<1> QED BY <1>5, <1>13, <1>14, <1>15

\* Insert, Erase and the loops keep the table and the cached entries matched.
LEMMA EraseKeyIsSound ==
  ASSUME NEW s, NEW h \in [Entry -> Nat], Sound(s, h), TableMatches(s),
         NEW k \in Key
  PROVE  /\ Sound(EraseKey(s, k), h) /\ TableMatches(EraseKey(s, k))
         /\ UsageFits(s) => UsageFits(EraseKey(s, k))
         /\ Skips(s, EraseKey(s, k), s.table[k])
         /\ EraseKey(s, k).table = [s.table EXCEPT ![k] = NoEntry]
<1> DEFINE gone == [s EXCEPT !.table[k] = NoEntry]
           e == s.table[k]
<1>1. /\ s \in Shard /\ e \in Entry \cup {NoEntry}
      /\ CountsMatch(s, h) /\ ListsMatch(s)
  BY DEF Sound, Shard
<1>2. /\ gone \in Shard /\ gone.table = [s.table EXCEPT ![k] = NoEntry]
      /\ gone.key = s.key /\ gone.refs = s.refs /\ gone.inCache = s.inCache
      /\ gone.next = s.next /\ gone.prev = s.prev
      /\ gone.charge = s.charge /\ gone.usage = s.usage
  BY <1>1 DEF Shard
<1>3. EraseKey(s, k) = FinishErase(gone, e)
  BY DEF EraseKey
<1> HIDE DEF gone
<1>4. Sound(gone, h)
  <2>1. Unused(gone) = Unused(s) /\ Used(gone) = Used(s)
    BY <1>2 DEF Unused, Used
  <2>2. CountsMatch(gone, h)
    BY <1>1, <1>2 DEF CountsMatch
  <2>3. ListsMatch(gone)
    BY <1>1, <1>2, <2>1 DEF ListsMatch, Ring
  <2> QED BY <1>2, <2>2, <2>3 DEF Sound
<1>8. Keeps(s, gone)
  <2>1. Unused(gone) = Unused(s)
    BY <1>2 DEF Unused
  <2> QED BY <1>2, <2>1 DEF Keeps
<1>5. NoEntry \notin Entry /\ (UsageFits(s) => UsageFits(gone))
  BY <1>1, <1>2, NodesApart, UsageStays
<1>6. CASE e = NoEntry
  <2>1. EraseKey(s, k) = gone
    BY <1>3, <1>6 DEF FinishErase
  <2>2. gone.table = s.table
    BY <1>1, <1>2, <1>6 DEF Shard
  <2>3. Skips(s, gone, e)
    <3>1. e \notin Unused(s) /\ e # Lru
      BY <1>1, <1>6, NodesApart
    <3> HIDE DEF e
    <3> QED BY <1>1, <1>8, <3>1, KeepsSkips
  <2>4. TableMatches(gone)
    BY <1>2, <2>2 DEF TableMatches
  <2> QED BY <1>2, <1>4, <1>5, <2>1, <2>3, <2>4
<1>7. CASE e \in Entry
  <2> DEFINE t == EraseKey(s, k)
  <2>1. s.inCache[e] /\ s.key[e] = k
    BY <1>5, <1>7 DEF TableMatches
  <2>2. /\ Sound(t, h) /\ t.table = gone.table
        /\ t.inCache = [gone.inCache EXCEPT ![e] = FALSE]
        /\ \A x \in Entry : t.inCache[x] => t.key[x] = gone.key[x]
        /\ UsageFits(gone) => UsageFits(t)
        /\ Skips(s, t, e)
    <3>1. gone.inCache[e]
      BY <1>2, <2>1
    <3> HIDE DEF e
    <3>2. Sound(t, h) /\ Erased(gone, t, e) /\ Skips(gone, t, e)
      BY <1>3, <1>4, <1>7, <3>1, FinishEraseIsSound
    <3> HIDE DEF t
    <3>3. UsageFits(gone) => UsageFits(t)
      BY <1>2, <1>7, <3>1, <3>2, UsageShrinks
    <3>4. Skips(s, t, e)
      <4>1. ListsMatch(s) /\ Keeps(s, gone) /\ Skips(gone, t, e)
        BY <1>1, <1>8, <3>2
      <4> HIDE DEF t
      <4> QED BY <4>1, KeepsThenSkips
    <3> QED BY <3>2, <3>3, <3>4 DEF Erased
  <2> HIDE DEF t, e
  <2>3. TableMatches(t)
    <3>1. ASSUME NEW j \in Key, t.table[j] # NoEntry
          PROVE  t.inCache[t.table[j]] /\ t.key[t.table[j]] = j
      <4>1. j # k /\ t.table[j] = s.table[j] /\ s.table[j] \in Entry
        BY <1>1, <1>2, <2>2, <3>1 DEF Shard
      <4>2. s.inCache[s.table[j]] /\ s.key[s.table[j]] = j
        BY <3>1, <4>1 DEF TableMatches
      <4>3. s.table[j] # e
        BY <2>1, <4>1, <4>2
      <4> QED BY <1>1, <1>2, <2>2, <4>1, <4>2, <4>3 DEF Shard
    <3>2. ASSUME NEW x \in Entry, t.inCache[x]
          PROVE  t.key[x] \in Key /\ t.table[t.key[x]] = x
      <4>1. x # e /\ s.inCache[x] /\ t.key[x] = s.key[x]
        BY <1>1, <1>2, <1>7, <2>2, <3>2 DEF Shard
      <4>2. s.key[x] \in Key /\ s.table[s.key[x]] = x
        BY <4>1 DEF TableMatches
      <4>3. s.key[x] # k
        BY <4>1, <4>2 DEF e
      <4> QED BY <1>1, <1>2, <2>2, <4>1, <4>2, <4>3 DEF Shard
    <3> QED BY <3>1, <3>2 DEF TableMatches
  <2> QED BY <1>2, <1>5, <2>2, <2>3 DEF t, e
<1> QED BY <1>1, <1>6, <1>7

\* What a fresh entry changes, as far as the table and usage_ are concerned.
Fresh(s, t, e, k, c) ==
  /\ t.refs[e] = 1 /\ ~s.inCache[e]
  /\ t.key = [s.key EXCEPT ![e] = k]
  /\ t.charge = [s.charge EXCEPT ![e] = c]
  /\ t.table = s.table /\ t.inCache = s.inCache /\ t.usage = s.usage

LEMMA FreshKeepsTable ==
  ASSUME NEW s \in Shard, NEW t, NEW e \in Entry, NEW k \in Key, NEW c,
         Fresh(s, t, e, k, c), TableMatches(s)
  PROVE  TableMatches(t)
BY NodesApart DEF Fresh, TableMatches, Shard

\* A fresh entry, held by the client that inserts it.
LEMMA MallocedIsSound ==
  ASSUME NEW s, NEW h \in [Entry -> Nat], Sound(s, h),
         NEW e \in Entry, s.refs[e] = 0, NEW k \in Key, NEW c \in Charge
  PROVE  /\ Sound(Malloced(s, e, k, c), [h EXCEPT ![e] = 1])
         /\ Fresh(s, Malloced(s, e, k, c), e, k, c)
         /\ Keeps(s, Malloced(s, e, k, c))
<1> DEFINE t == Malloced(s, e, k, c)
<1>1. s \in Shard /\ CountsMatch(s, h) /\ ListsMatch(s)
  BY DEF Sound
<1>2. ~s.inCache[e] /\ h[e] = 0
  BY <1>1 DEF CountsMatch, Shard
<1>3. /\ t \in Shard /\ t.refs = [s.refs EXCEPT ![e] = 1]
      /\ t.key = [s.key EXCEPT ![e] = k] /\ t.table = s.table
      /\ t.inCache = s.inCache /\ t.next = s.next /\ t.prev = s.prev
      /\ t.charge = [s.charge EXCEPT ![e] = c] /\ t.usage = s.usage
  BY <1>1 DEF Malloced, Shard
<1> HIDE DEF t
<1>4. Unused(t) = Unused(s) /\ Used(t) = Used(s)
  BY <1>1, <1>2, <1>3 DEF Unused, Used, Shard
<1>5. ListsMatch(t) /\ CountsMatch(t, [h EXCEPT ![e] = 1])
  BY <1>1, <1>2, <1>3, <1>4 DEF ListsMatch, Ring, CountsMatch, Shard
<1>6. t.refs[e] = 1
  BY <1>1, <1>3 DEF Shard
<1>7. Keeps(s, t)
  BY <1>3, <1>4 DEF Keeps
<1> QED BY <1>2, <1>3, <1>5, <1>6, <1>7 DEF Sound, Fresh, t

\* Insert puts the fresh entry in the place of the one its key had.
LEMMA CachedIsSound ==
  ASSUME NEW m, NEW h \in [Entry -> Nat], Sound(m, h),
         NEW e \in Entry, m.refs[e] = 1, ~m.inCache[e],
         NEW k \in Key, m.key[e] = k, NEW c \in Charge, TableMatches(m)
  PROVE  /\ Sound(Cached(m, e, k, c), h) /\ TableMatches(Cached(m, e, k, c))
         /\ m.charge[e] = c /\ UsageFits(m) => UsageFits(Cached(m, e, k, c))
         /\ Skips(m, Cached(m, e, k, c), m.table[k])
         /\ Cached(m, e, k, c).table = [m.table EXCEPT ![k] = e]
<1> DEFINE in == LRU_Append(m, InUse, e)
           linked == [in EXCEPT !.refs[e] = @ + 1,
                                !.inCache[e] = TRUE,
                                !.usage = @ + c,
                                !.table[k] = e]
           old == m.table[k]
           t == Cached(m, e, k, c)
<1>1. m \in Shard /\ CountsMatch(m, h) /\ ListsMatch(m)
  BY DEF Sound
<1>2. e \notin Used(m) \cup Unused(m)
  BY <1>1 DEF Used, Unused
<1>3. /\ Relinked(m, in)
      /\ Ring(in, InUse, Used(m) \cup {e})
      /\ Ring(in, Lru, Unused(m))
      /\ \A x \in Unused(m) \cup {Lru} : in.next[x] = m.next[x]
  <2>1. /\ Unused(m) \in SUBSET Entry /\ Used(m) \in SUBSET Entry
        /\ Used(m) \cap Unused(m) = {}
        /\ InUse \in {Lru, InUse} /\ Lru \in {Lru, InUse} /\ InUse # Lru
    BY <1>1, NodesApart
  <2>2. Ring(m, InUse, Used(m)) /\ Ring(m, Lru, Unused(m))
    BY <1>1 DEF ListsMatch
  <2>3. \A x \in Unused(m) \cup {Lru} : in.next[x] = m.next[x]
    BY <1>1, <1>2, <2>1, <2>2, AppendLinks
  <2>4. /\ Relinked(m, in)
        /\ Ring(in, InUse, Used(m) \cup {e})
        /\ Ring(in, Lru, Unused(m))
    BY <1>1, <1>2, <2>1, <2>2, AppendKeepsLists
  <2> QED BY <2>3, <2>4
<1>4. t = FinishErase(linked, old)
  BY DEF Cached
<1> HIDE DEF in
<1>5. m.usage + c \in Int /\ m.refs[e] + 1 = 2
  <2>1. m.usage \in Int /\ c \in Int
    BY <1>1, CacheAssumption DEF Shard
  <2> QED BY <2>1
<1>6. /\ linked \in Shard /\ linked.next = in.next /\ linked.prev = in.prev
      /\ linked.refs = [m.refs EXCEPT ![e] = 2]
      /\ linked.inCache = [m.inCache EXCEPT ![e] = TRUE]
      /\ linked.table = [m.table EXCEPT ![k] = e] /\ linked.key = m.key
      /\ linked.charge = m.charge /\ linked.usage = m.usage + c
  <2>1. in \in Shard /\ in.refs[e] + 1 = 2 /\ in.usage + c \in Int
    BY <1>3, <1>5 DEF Relinked
  <2>2. linked = [in EXCEPT !.refs = [in.refs EXCEPT ![e] = 2],
                            !.inCache = [in.inCache EXCEPT ![e] = TRUE],
                            !.usage = in.usage + c,
                            !.table = [in.table EXCEPT ![k] = e]]
    BY <2>1 DEF Shard
  <2> HIDE DEF linked
  <2>3. /\ linked.next = in.next /\ linked.prev = in.prev
        /\ linked.refs = [in.refs EXCEPT ![e] = 2]
        /\ linked.inCache = [in.inCache EXCEPT ![e] = TRUE]
        /\ linked.table = [in.table EXCEPT ![k] = e] /\ linked.key = in.key
        /\ linked.charge = in.charge /\ linked.usage = in.usage + c
    BY <2>1, <2>2 DEF Shard
  <2>4. linked \in Shard
    BY <2>1, <2>2 DEF Shard
  <2> QED BY <1>3, <2>3, <2>4 DEF Relinked
<1> HIDE DEF linked, t
<1>7. Used(linked) = Used(m) \cup {e} /\ Unused(linked) = Unused(m)
  BY <1>1, <1>2, <1>6 DEF Used, Unused, Shard
<1>8. Sound(linked, h)
  BY <1>1, <1>3, <1>6, <1>7 DEF Sound, ListsMatch, Ring, CountsMatch, Shard
<1>12. Keeps(m, linked)
  BY <1>3, <1>6, <1>7 DEF Keeps
<1>9. /\ old \in Entry \cup {NoEntry} /\ NoEntry \notin Entry
      /\ m.charge[e] = c /\ UsageFits(m) => UsageFits(linked)
  <2>1. m.charge[e] = c /\ UsageFits(m) => UsageFits(linked)
    BY <1>1, <1>6, UsageGrows
  <2> QED BY <1>1, <2>1, NodesApart DEF Shard
<1>10. CASE old = NoEntry
  <2>1. t = linked
    BY <1>4, <1>10 DEF FinishErase
  <2>2. \A j \in Key : linked.table[j] # NoEntry =>
           linked.inCache[linked.table[j]] /\ linked.key[linked.table[j]] = j
    BY <1>1, <1>6, <1>9 DEF TableMatches, Shard
  <2>3. ASSUME NEW x \in Entry, linked.inCache[x]
        PROVE  linked.key[x] \in Key /\ linked.table[linked.key[x]] = x
    <3>1. CASE x = e
      BY <1>1, <1>6, <3>1 DEF Shard
    <3>2. CASE x # e
      <4>1. m.inCache[x] /\ m.key[x] \in Key /\ m.table[m.key[x]] = x
        BY <1>1, <1>6, <2>3, <3>2 DEF TableMatches, Shard
      <4>2. m.key[x] # k
        BY <1>9, <1>10, <4>1
      <4> QED BY <1>1, <1>6, <4>1, <4>2 DEF Shard
    <3> QED BY <3>1, <3>2
  <2>4. Skips(m, linked, old)
    <3>1. old \notin Unused(m) /\ old # Lru
      BY <1>1, <1>10, NodesApart
    <3> HIDE DEF old
    <3> QED BY <1>1, <1>12, <3>1, KeepsSkips
  <2>5. TableMatches(linked) /\ linked.table = [m.table EXCEPT ![k] = e]
    BY <1>6, <2>2, <2>3 DEF TableMatches
  <2> QED BY <1>8, <1>9, <2>1, <2>4, <2>5 DEF t, old
<1>11. CASE old \in Entry
  <2>1. m.inCache[old] /\ m.key[old] = k /\ old # e
    BY <1>9, <1>11 DEF TableMatches
  <2>2. linked.inCache[old]
    BY <1>1, <1>6, <1>11, <2>1 DEF Shard
  <2> HIDE DEF old
  <2>3. Sound(t, h) /\ Erased(linked, t, old) /\ Skips(linked, t, old)
    BY <1>4, <1>8, <1>11, <2>2, FinishEraseIsSound
  <2>8. Skips(m, t, old)
    <3>1. ListsMatch(m) /\ Keeps(m, linked) /\ Skips(linked, t, old)
      BY <1>1, <1>12, <2>3
    <3> QED BY <3>1, KeepsThenSkips
  <2>7. UsageFits(linked) => UsageFits(t)
    BY <1>6, <1>11, <2>2, <2>3, UsageShrinks
  <2>4. /\ t.table = [m.table EXCEPT ![k] = e]
        /\ \A x \in Entry : t.inCache[x] <=> x # old /\ (x = e \/ m.inCache[x])
        /\ \A x \in Entry : t.inCache[x] => t.key[x] = m.key[x]
    BY <1>1, <1>6, <2>3 DEF Erased, Shard
  <2>5. ASSUME NEW j \in Key, t.table[j] # NoEntry
        PROVE  t.inCache[t.table[j]] /\ t.key[t.table[j]] = j
    <3>1. CASE j = k
      BY <1>1, <2>1, <2>4, <3>1 DEF Shard
    <3>2. CASE j # k
      <4>1. t.table[j] = m.table[j] /\ m.table[j] \in Entry
        BY <1>1, <2>4, <2>5, <3>2 DEF Shard
      <4>2. m.inCache[m.table[j]] /\ m.key[m.table[j]] = j
        BY <2>5, <4>1 DEF TableMatches
      <4> QED BY <2>1, <2>4, <3>2, <4>1, <4>2
    <3> QED BY <3>1, <3>2
  <2>6. ASSUME NEW x \in Entry, t.inCache[x]
        PROVE  t.key[x] \in Key /\ t.table[t.key[x]] = x
    <3>1. CASE x = e
      BY <1>1, <2>4, <2>6, <3>1 DEF Shard
    <3>2. CASE x # e
      <4>1. x # old /\ t.key[x] = m.key[x] /\ m.key[x] \in Key /\ m.table[m.key[x]] = x
        BY <2>4, <2>6, <3>2 DEF TableMatches
      <4>2. m.key[x] # k
        BY <4>1 DEF old
      <4> QED BY <1>1, <2>4, <4>1, <4>2 DEF Shard
    <3> QED BY <3>1, <3>2
  <2>9. TableMatches(t)
    BY <2>5, <2>6 DEF TableMatches
  <2> QED BY <1>9, <2>3, <2>4, <2>7, <2>8, <2>9 DEF t, old
<1> QED BY <1>9, <1>10, <1>11

-----------------------------------------------------------------------------
(* The inductive invariant: while a loop of Insert or Prune runs there is   *)
(* an entry to evict; while ~LRUCache runs, its cursor is the first of the *)
(* remaining entries, which are linked forward only and to each other, and *)
(* no entry that is cached is in use.                                      *)

LoopInv ==
  /\ mode \in {"evict", "prune"} => Evictable(shard)
  /\ mode = "destroyed" => \A e \in Entry : ~shard.inCache[e]
  /\ mode = "destroy" =>
       /\ Used(shard) = {} /\ NoCircle(shard.next, Unused(shard))
       /\ cursor \in Unused(shard)
       /\ \A n \in Unused(shard) :
            shard.next[n] \in (Unused(shard) \cup {Lru}) \ {cursor}
       /\ \A n, o \in Unused(shard) :
            shard.next[n] = shard.next[o] => n = o

IInv ==
  /\ TypeOK
  /\ RefsAccountForHolders
  /\ ListsHoldTheCache
  /\ TableMatchesCache
  /\ LoopInv

\* The actions of an open cache re-establish the invariant this way.
LEMMA OpenStep ==
  ASSUME TypeOK', Sound(shard, held)', TableMatches(shard)',
         mode' \in {"new", "open", "evict", "prune", "assert failed", "segfault"},
         mode' \in {"evict", "prune"} => Evictable(shard)'
  PROVE  IInv'
BY DEF IInv, Sound, RefsAccountForHolders, ListsHoldTheCache, TableMatchesCache,
       LoopInv, Ending

LEMMA InitEstablishesIInv == Init => IInv
<1> SUFFICES ASSUME Init PROVE IInv
  OBVIOUS
<1>1. TypeOK
  BY CacheAssumption DEF Init, TypeOK, Shard, Node, Lru, InUse
<1>2. Unused(shard) = {} /\ Used(shard) = {}
  BY DEF Init, Unused, Used
<1>3. ListsMatch(shard)
  <2>1. NoCircle(shard.next, {})
    BY DEF NoCircle
  <2> QED BY <1>2, <2>1, CacheAssumption DEF Init, ListsMatch, Ring, Node, Lru, InUse
<1>4. RefsAccountForHolders /\ TableMatchesCache /\ LoopInv
  BY DEF Init, RefsAccountForHolders, CountsMatch, TableMatchesCache,
         TableMatches, LoopInv
<1> QED BY <1>1, <1>3, <1>4 DEF IInv, ListsHoldTheCache

\* A head that is linked to itself is alone.
LEMMA EmptyRing ==
  ASSUME NEW s, NEW h, NEW S, h \notin S, Ring(s, h, S), s.next[h] = h
  PROVE  S = {}
<1>1. \A n \in S : s.next[n] \in S
  BY DEF Ring
<1> QED BY <1>1 DEF Ring, NoCircle

\* An entry that is cached is idle or in use.
LEMMA CachedIsListed ==
  ASSUME NEW s, s \in Shard, NEW h \in [Entry -> Nat], CountsMatch(s, h),
         Unused(s) = {}, Used(s) = {}
  PROVE  \A e \in Entry : ~s.inCache[e]
BY DEF Shard, CountsMatch, Unused, Used

\* The first of the idle entries is one that the table finds.
LEMMA FirstIdle ==
  ASSUME IInv, ~Ending, Evictable(shard)
  PROVE  /\ shard.next[Lru] \in Unused(shard)
         /\ shard.key[shard.next[Lru]] \in Key
<1>1. shard \in Shard /\ ListsMatch(shard) /\ TableMatches(shard)
  BY DEF IInv, TypeOK, ListsHoldTheCache, TableMatchesCache
<1> QED BY <1>1, NodesApart DEF ListsMatch, Ring, TableMatches, Unused, Evictable

\* A round of ~LRUCache frees the entry its cursor is at.
LEMMA DestroyOneEffect ==
  ASSUME IInv, DestroyOne
  PROVE  /\ mode = "destroy" /\ held' = held /\ config' = config
         /\ cursor' = shard.next[cursor]
         /\ mode' = IF cursor' = Lru THEN "destroyed" ELSE "destroy"
         /\ cursor \in Entry /\ shard.inCache[cursor] /\ shard.refs[cursor] = 1
         /\ shard.next[cursor] \in (Unused(shard) \cup {Lru}) \ {cursor}
         /\ shard' \in Shard /\ shard'.table = shard.table
         /\ shard'.refs = [shard.refs EXCEPT ![cursor] = 0]
         /\ shard'.inCache = [shard.inCache EXCEPT ![cursor] = FALSE]
         /\ shard'.next = [shard.next EXCEPT ![cursor] = NoEntry]
         /\ Unused(shard') = Unused(shard) \ {cursor}
<1> DEFINE out == [shard EXCEPT !.inCache[cursor] = FALSE]
<1>t. shard \in Shard
  BY DEF IInv, TypeOK
<1>1. /\ mode = "destroy" /\ shard' = Unref(out, cursor) /\ held' = held
      /\ config' = config /\ cursor' = shard.next[cursor]
      /\ mode' = IF cursor' = Lru THEN "destroyed" ELSE "destroy"
  BY DEF DestroyOne
<1>2. /\ cursor \in Entry /\ shard.inCache[cursor] /\ shard.refs[cursor] = 1
      /\ shard.next[cursor] \in (Unused(shard) \cup {Lru}) \ {cursor}
  BY <1>1 DEF IInv, LoopInv, Unused
<1>3. shard' = [shard EXCEPT !.inCache = [shard.inCache EXCEPT ![cursor] = FALSE],
                             !.refs = [shard.refs EXCEPT ![cursor] = 0],
                             !.key = [shard.key EXCEPT ![cursor] = NoEntry],
                             !.charge = [shard.charge EXCEPT ![cursor] = 0],
                             !.next = [shard.next EXCEPT ![cursor] = NoEntry],
                             !.prev = [shard.prev EXCEPT ![cursor] = NoEntry]]
  <2>1. /\ out \in Shard /\ out.refs = shard.refs /\ out.key = shard.key
        /\ out.charge = shard.charge /\ out.next = shard.next
        /\ out.prev = shard.prev /\ out.refs[cursor] = 1
        /\ out.inCache = [shard.inCache EXCEPT ![cursor] = FALSE]
    BY <1>t, <1>2 DEF Shard
  <2>2. Unref(out, cursor) =
          Freed([out EXCEPT !.refs = [shard.refs EXCEPT ![cursor] = 0]], cursor)
    <3> HIDE DEF out
    <3> QED BY <1>2, <2>1 DEF Unref, Shard
  <2> QED BY <1>t, <1>1, <1>2, <2>2 DEF Freed, Shard
<1>4. /\ shard' \in Shard /\ shard'.table = shard.table
      /\ shard'.refs = [shard.refs EXCEPT ![cursor] = 0]
      /\ shard'.inCache = [shard.inCache EXCEPT ![cursor] = FALSE]
      /\ shard'.next = [shard.next EXCEPT ![cursor] = NoEntry]
  BY <1>t, <1>2, <1>3 DEF Shard
<1>5. Unused(shard') = Unused(shard) \ {cursor}
  BY <1>t, <1>2, <1>4 DEF Unused, Shard
<1> QED BY <1>1, <1>2, <1>4, <1>5

\* Every step of the cache keeps the invariant: one case per action.
THEOREM StepKeepsIInv == IInv /\ [Next]_vars => IInv'
<1> SUFFICES ASSUME IInv, [Next]_vars PROVE IInv'
  OBVIOUS
<1> USE DEF IInv
<1>1. /\ shard \in Shard /\ held \in [Entry -> Nat]
      /\ config \in [capacity : Capacities \cup {0}, buckets : Buckets]
      /\ cursor \in Node
  BY DEF TypeOK
<1>2. ~Ending => Sound(shard, held) /\ TableMatches(shard)
  BY <1>1 DEF RefsAccountForHolders, ListsHoldTheCache, TableMatchesCache, Sound
<1>3. ASSUME NEW c \in Capacities, SetCapacity(c) PROVE IInv'
  <2>1. ~Ending
    BY <1>3 DEF SetCapacity, Ending
  <2>2. TypeOK'
    BY <1>1, <1>3 DEF SetCapacity, TypeOK
  <2> QED BY <1>2, <1>3, <2>1, <2>2, OpenStep DEF SetCapacity
<1>4. ASSUME Segfault, mode = "open" PROVE IInv'
  <2>1. TypeOK'
    BY <1>1, <1>4 DEF Segfault, TypeOK
  <2> QED BY <1>2, <1>4, <2>1, OpenStep DEF Segfault, Ending
<1>5. ASSUME NEW k \in Key, NEW c \in Charge, Insert(k, c) PROVE IInv'
  <2>1. mode = "open" /\ Sound(shard, held) /\ TableMatches(shard)
    BY <1>2, <1>5 DEF Insert, Ending
  <2>2. CASE NullBucket \/ NullResize(k)
    BY <1>4, <2>1, <2>2 DEF NullBucket, NullResize
  <2>3. ASSUME NEW e \in Entry \ Live(shard),
               InsertUncached(k, c, e) \/ InsertCached(k, c, e)
        PROVE  IInv'
    <3> DEFINE m == Malloced(shard, e, k, c)
               g == [held EXCEPT ![e] = 1]
    <3>1. shard.refs[e] = 0
      BY <1>1, <2>3 DEF Live, Shard
    <3>2. /\ Sound(m, g) /\ m.refs[e] = 1 /\ ~shard.inCache[e]
          /\ m.key = [shard.key EXCEPT ![e] = k] /\ m.charge[e] = c
          /\ m.inCache = shard.inCache /\ Fresh(shard, m, e, k, c)
      <4>1. Sound(m, g) /\ Fresh(shard, m, e, k, c)
        BY <1>1, <2>1, <3>1, MallocedIsSound
      <4> QED BY <1>1, <4>1 DEF Fresh, Shard
    <3>3. TableMatches(m)
      BY <1>1, <2>1, <3>2, FreshKeepsTable
    <3>4. g \in [Entry -> Nat] /\ held' = g
      BY <1>1, <2>3 DEF InsertUncached, InsertCached
    <3> HIDE DEF m, g
    <3>5. CASE InsertUncached(k, c, e)
      <4>1. shard' = m /\ mode' = mode /\ config' = config /\ cursor' = cursor
        BY <3>5 DEF InsertUncached, m
      <4>2. TypeOK'
        BY <1>1, <2>1, <3>2, <3>4, <4>1 DEF TypeOK, Sound
      <4>3. Sound(shard, held)' /\ TableMatches(shard)'
        BY <3>2, <3>3, <3>4, <4>1
      <4> QED BY <2>1, <4>1, <4>2, <4>3, OpenStep
    <3>6. CASE InsertCached(k, c, e)
      <4>1. /\ shard' = Cached(m, e, k, c) /\ config' = config /\ cursor' = cursor
            /\ mode' = IF OverFull(shard') THEN "evict" ELSE "open"
        BY <3>6 DEF InsertCached, m
      <4>2. m.key[e] = k /\ ~m.inCache[e]
        BY <1>1, <3>2 DEF Shard
      <4>3. Sound(Cached(m, e, k, c), g) /\ TableMatches(Cached(m, e, k, c))
        BY <2>3, <3>2, <3>3, <3>4, <4>2, CachedIsSound
      <4>4. Sound(shard, held)' /\ TableMatches(shard)'
        BY <3>4, <4>1, <4>3
      <4>5. mode' \in {"evict", "open"} /\ (mode' = "evict" => Evictable(shard)')
        BY <4>1 DEF OverFull
      <4>6. TypeOK'
        BY <1>1, <3>4, <4>1, <4>4, <4>5 DEF TypeOK, Sound
      <4> QED BY <4>4, <4>5, <4>6, OpenStep
    <3> QED BY <2>3, <3>5, <3>6
  <2> QED BY <1>5, <2>2, <2>3 DEF Insert
<1>6. ASSUME EraseKey(shard, shard.key[shard.next[Lru]]) = shard',
             held' = held, config' = config, cursor' = cursor, ~Ending,
             Evictable(shard), mode' \in {"evict", "prune", "open"},
             mode' # "open" => Evictable(shard')
      PROVE  IInv'
  <2>1. shard.key[shard.next[Lru]] \in Key
    BY <1>6, FirstIdle
  <2>2. Sound(shard, held)' /\ TableMatches(shard)'
    BY <1>1, <1>2, <1>6, <2>1, EraseKeyIsSound
  <2>3. TypeOK'
    BY <1>1, <1>6, <2>2 DEF TypeOK, Sound
  <2> QED BY <1>6, <2>2, <2>3, OpenStep
<1>7. ASSUME Evict PROVE IInv'
  BY <1>6, <1>7 DEF Evict, Ending, LoopInv, OverFull
<1>8. ASSUME PruneOne PROVE IInv'
  BY <1>6, <1>8 DEF PruneOne, Ending, LoopInv
<1>9. ASSUME NEW k \in Key, Lookup(k) PROVE IInv'
  <2>1. mode = "open" /\ Sound(shard, held) /\ TableMatches(shard)
    BY <1>2, <1>9 DEF Lookup, Ending
  <2>2. CASE NullBucket
    BY <1>4, <2>1, <2>2 DEF NullBucket
  <2>3. CASE ~NullBucket
    <3> DEFINE e == shard.table[k]
    <3>1. /\ e \in Entry /\ shard' = Ref(shard, e)
          /\ held' = [held EXCEPT ![e] = @ + 1]
          /\ config' = config /\ mode' = mode /\ cursor' = cursor
      BY <1>1, <1>9, <2>3 DEF Lookup, Shard
    <3>2. shard.refs[e] > 0
      BY <1>1, <1>9, <2>1, <2>3, <3>1
      DEF TableMatches, Sound, CountsMatch, Shard, Lookup
    <3> HIDE DEF e
    <3>3. Sound(shard', held') /\ Same(shard, shard')
      BY <1>1, <2>1, <3>1, <3>2, RefIsSound
    <3>4. TableMatches(shard')
      BY <1>1, <2>1, <3>3 DEF TableMatches, Same, Shard
    <3>5. held' \in [Entry -> Nat]
      BY <1>1, <3>1
    <3>6. TypeOK'
      BY <1>1, <2>1, <3>1, <3>3, <3>5 DEF TypeOK, Sound
    <3> QED BY <2>1, <3>1, <3>3, <3>4, <3>6, OpenStep
  <2> QED BY <2>2, <2>3
<1>10. ASSUME NEW e \in Entry, Release(e) PROVE IInv'
  <2>1. mode = "open" /\ Sound(shard, held) /\ TableMatches(shard)
    BY <1>2, <1>10 DEF Release, Ending
  <2>2. /\ held[e] > 0 /\ shard' = Unref(shard, e)
        /\ held' = [held EXCEPT ![e] = @ - 1]
        /\ config' = config /\ mode' = mode /\ cursor' = cursor
    BY <1>10 DEF Release
  <2>3. Sound(shard', held') /\ Same(shard, shard')
    BY <1>1, <2>1, <2>2, UnrefIsSound
  <2>4. TableMatches(shard')
    BY <1>1, <2>1, <2>3 DEF TableMatches, Same, Shard
  <2>5. held' \in [Entry -> Nat]
    BY <1>1, <2>2
  <2>6. TypeOK'
    BY <1>1, <2>1, <2>2, <2>3, <2>5 DEF TypeOK, Sound
  <2> QED BY <2>1, <2>2, <2>3, <2>4, <2>6, OpenStep
<1>11. ASSUME NEW k \in Key, Erase(k) PROVE IInv'
  <2>1. mode = "open" /\ Sound(shard, held) /\ TableMatches(shard)
    BY <1>2, <1>11 DEF Erase, Ending
  <2>2. CASE NullBucket
    BY <1>4, <2>1, <2>2 DEF NullBucket
  <2>3. CASE ~NullBucket
    <3>1. /\ shard' = EraseKey(shard, k) /\ held' = held
          /\ config' = config /\ mode' = mode /\ cursor' = cursor
      BY <1>11, <2>3 DEF Erase
    <3>2. Sound(shard, held)' /\ TableMatches(shard)'
      BY <1>1, <2>1, <3>1, EraseKeyIsSound
    <3>3. TypeOK'
      BY <1>1, <2>1, <3>1, <3>2 DEF TypeOK, Sound
    <3> QED BY <2>1, <3>1, <3>2, <3>3, OpenStep
  <2> QED BY <2>2, <2>3
<1>12. ASSUME Prune PROVE IInv'
  <2>1. TypeOK'
    BY <1>1, <1>12 DEF Prune, TypeOK
  <2> QED BY <1>2, <1>12, <2>1, OpenStep DEF Prune, Ending
<1>13. ASSUME Destroy PROVE IInv'
  <2>1. /\ mode = "open" /\ shard' = shard /\ held' = held /\ config' = config
        /\ cursor' = shard.next[Lru]
    BY <1>13 DEF Destroy
  <2>2. Sound(shard, held) /\ TableMatches(shard) /\ ListsMatch(shard)
    BY <1>2, <2>1 DEF Ending, Sound
  <2>3. /\ mode' \in {"assert failed", "destroyed", "destroy"}
        /\ mode' = "destroy" => Evictable(shard)
    BY <1>13 DEF Destroy
  <2>4. cursor' \in Unused(shard) \cup {Lru}
    BY <2>1, <2>2 DEF ListsMatch, Ring
  <2>5. TypeOK'
    BY <1>1, <2>1, <2>3, <2>4, NodesApart DEF TypeOK
  <2>6. ASSUME mode' = "destroy" PROVE LoopInv'
    <3>1. cursor' \in Unused(shard)
      BY <2>1, <2>3, <2>4, <2>6 DEF Evictable
    <3>2. \A n \in Unused(shard) :
            shard.next[n] \in (Unused(shard) \cup {Lru}) \ {cursor'}
      BY <1>1, <2>1, <2>2, NodesApart DEF ListsMatch, Ring
    <3>3. \A n, o \in Unused(shard) : shard.next[n] = shard.next[o] => n = o
      BY <2>2 DEF ListsMatch, Ring
    <3>4. Used(shard) = {} /\ NoCircle(shard.next, Unused(shard))
      <4>1. shard.next[InUse] = InUse
        BY <1>13, <2>6 DEF Destroy
      <4>2. /\ Ring(shard, InUse, Used(shard)) /\ InUse \notin Used(shard)
            /\ NoCircle(shard.next, Unused(shard))
        BY <1>1, <2>2, NodesApart DEF ListsMatch, Ring
      <4> QED BY <4>1, <4>2, EmptyRing
    <3> QED BY <2>1, <2>6, <3>1, <3>2, <3>3, <3>4 DEF LoopInv
  <2>7. ASSUME mode' = "destroyed" PROVE LoopInv'
    <3>1. shard.next[InUse] = InUse /\ shard.next[Lru] = Lru
      BY <1>13, <2>7 DEF Destroy, Evictable
    <3>2. Unused(shard) = {} /\ Used(shard) = {}
      BY <1>1, <2>2, <3>1, EmptyRing, NodesApart DEF ListsMatch
    <3>3. \A e \in Entry : ~shard.inCache[e]
      BY <1>1, <2>2, <3>2, CachedIsListed DEF Sound
    <3> QED BY <2>1, <2>7, <3>3 DEF LoopInv
  <2> QED BY <2>1, <2>2, <2>3, <2>5, <2>6, <2>7
      DEF LoopInv, RefsAccountForHolders, ListsHoldTheCache, TableMatchesCache, Sound
<1>14. ASSUME DestroyOne PROVE IInv'
  <2>1. /\ mode = "destroy" /\ held' = held /\ config' = config
        /\ cursor' = shard.next[cursor]
        /\ mode' = IF cursor' = Lru THEN "destroyed" ELSE "destroy"
    BY <1>14, DestroyOneEffect
  <2>2. /\ cursor \in Entry /\ shard.inCache[cursor] /\ shard.refs[cursor] = 1
        /\ shard.next[cursor] \in (Unused(shard) \cup {Lru}) \ {cursor}
    BY <1>14, DestroyOneEffect
  <2>4. /\ shard' \in Shard
        /\ shard'.refs = [shard.refs EXCEPT ![cursor] = 0]
        /\ shard'.inCache = [shard.inCache EXCEPT ![cursor] = FALSE]
        /\ shard'.next = [shard.next EXCEPT ![cursor] = NoEntry]
    BY <1>14, DestroyOneEffect
  <2>5. Unused(shard') = Unused(shard) \ {cursor}
    BY <1>14, DestroyOneEffect
  <2>6. Used(shard') = {}
    <3>1. Used(shard) = {}
      BY <2>1 DEF LoopInv
    <3> QED BY <1>1, <2>2, <2>4, <3>1 DEF Used, Shard
  <2>7. TypeOK'
    BY <1>1, <2>1, <2>2, <2>4, NodesApart DEF TypeOK
  <2>8. CountsMatch(shard', held')
    BY <1>1, <2>1, <2>2, <2>4 DEF RefsAccountForHolders, CountsMatch, Shard
  <2>9. ASSUME mode' = "destroy" PROVE LoopInv'
    <3>1. cursor' \in Unused(shard')
      BY <2>1, <2>2, <2>5, <2>9
    <3>2. ASSUME NEW n \in Unused(shard')
          PROVE  /\ n \in Unused(shard) /\ n # cursor
                 /\ shard'.next[n] = shard.next[n]
      BY <1>1, <2>4, <2>5, NodesApart DEF Shard
    <3>3. \A n \in Unused(shard') :
            shard'.next[n] \in (Unused(shard') \cup {Lru}) \ {cursor'}
      BY <2>1, <2>2, <2>5, <3>2 DEF LoopInv
    <3>4. ASSUME NEW n \in Unused(shard'), NEW o \in Unused(shard'),
                 shard'.next[n] = shard'.next[o]
          PROVE  n = o
      <4>1. n \in Unused(shard) /\ o \in Unused(shard) /\ shard.next[n] = shard.next[o]
        BY <3>2, <3>4
      <4> QED BY <2>1, <4>1 DEF LoopInv
    <3>5. NoCircle(shard'.next, Unused(shard'))
      <4>1. NoCircle(shard.next, Unused(shard'))
        BY <2>1, <2>5 DEF LoopInv, NoCircle
      <4>2. \A n \in Unused(shard') : shard.next[n] = shard'.next[n]
        BY <3>2
      <4> QED BY <4>1, <4>2, CircleElsewhere
    <3> QED BY <2>9, <2>6, <3>1, <3>3, <3>4, <3>5 DEF LoopInv
  <2>10. mode' \in {"destroy", "destroyed"}
    BY <2>1
  <2>11. ASSUME mode' = "destroyed" PROVE LoopInv'
    <3>1. shard.next[cursor] = Lru
      BY <2>1, <2>11
    <3>2. \A n \in Unused(shard') : shard.next[n] \in Unused(shard')
      BY <2>1, <2>5, <3>1 DEF LoopInv
    <3>3. Unused(shard') = {}
      BY <2>1, <2>5, <3>2 DEF LoopInv, NoCircle
    <3>4. \A e \in Entry : ~shard'.inCache[e]
      BY <1>1, <2>1, <2>4, <2>8, <2>6, <3>3, CachedIsListed
    <3> QED BY <2>11, <3>4 DEF LoopInv
  <2> QED BY <2>7, <2>8, <2>9, <2>10, <2>11
      DEF LoopInv, RefsAccountForHolders, ListsHoldTheCache, TableMatchesCache, Ending
<1>15. CASE UNCHANGED vars
  BY <1>15 DEF vars, TypeOK, RefsAccountForHolders, ListsHoldTheCache, TableMatchesCache,
               LoopInv, Ending, Evictable
<1> QED
  BY <1>3, <1>5, <1>7, <1>8, <1>9, <1>10, <1>11, <1>12, <1>13, <1>14, <1>15 DEF Next

LEMMA IInvAlways == Spec => []IInv
BY InitEstablishesIInv, StepKeepsIInv, PTL DEF Spec

\* LRUCache keeps every variable in its domain, for any number of keys, entries
\* and handles and any charges and capacities.
THEOREM TypeCorrect == Spec => []TypeOK
<1>1. IInv => TypeOK
  BY DEF IInv
<1> QED BY <1>1, IInvAlways, PTL

\* The reference count of an entry is always the number of handles clients
\* hold plus the cache's own: Unref frees an entry exactly when nobody needs it.
THEOREM CountsCorrect == Spec => []RefsAccountForHolders
<1>1. IInv => RefsAccountForHolders
  BY DEF IInv
<1> QED BY <1>1, IInvAlways, PTL

\* Whatever the interleaving of calls and of the rounds of their loops, lru_
\* and in_use_ link the idle and the used entries as their comments say.
THEOREM ListsCorrect == Spec => []ListsHoldTheCache
<1>1. IInv => ListsHoldTheCache
  BY DEF IInv
<1> QED BY <1>1, IInvAlways, PTL

\* The hash table and the cached entries always match, so that Lookup never
\* returns an entry that was freed and loses none that is cached.
THEOREM TableCorrect == Spec => []TableMatchesCache
<1>1. IInv => TableMatchesCache
  BY DEF IInv
<1> QED BY <1>1, IInvAlways, PTL

\* ~LRUCache leaves nothing allocated but what clients still hold: its loop
\* misses no entry of lru_, and its assertion lets it begin only when in_use_
\* is empty.
THEOREM DestructorCorrect == Spec => []DestructorFreesTheCache
<1>1. ASSUME IInv PROVE DestructorFreesTheCache
  <2> SUFFICES ASSUME mode = "destroyed"
               PROVE  Live(shard) = {e \in Entry : held[e] > 0}
    BY DEF DestructorFreesTheCache
  <2>1. \A e \in Entry : ~shard.inCache[e]
    BY <1>1 DEF IInv, LoopInv
  <2>2. held \in [Entry -> Nat] /\ \A e \in Entry : shard.refs[e] = held[e] + 0
    BY <1>1, <2>1 DEF IInv, TypeOK, RefsAccountForHolders, CountsMatch
  <2> QED BY <2>2 DEF Live
<1> QED BY <1>1, IInvAlways, PTL

-----------------------------------------------------------------------------
(* usage_ is no part of what the other invariants rest on: it is carried    *)
(* through the steps on its own.                                           *)

UsageInv == ~Ending => UsageFits(shard)

LEMMA InitEstablishesUsage == Init => UsageInv
<1> SUFFICES ASSUME Init PROVE UsageInv
  OBVIOUS
<1>1. Counted(shard) = {} /\ shard.usage = 0
  BY DEF Init, Counted
<1>2. Total(shard.charge, {}) = 0 /\ IsFiniteSet({})
  BY TotalOfNone, FS_EmptySet
<1> QED BY <1>1, <1>2 DEF UsageInv, UsageFits

LEMMA StepKeepsUsage == IInv /\ UsageInv /\ [Next]_vars => UsageInv'
<1> SUFFICES ASSUME IInv, UsageInv, [Next]_vars PROVE UsageInv'
  OBVIOUS
<1>1. shard \in Shard /\ held \in [Entry -> Nat]
  BY DEF IInv, TypeOK
<1>2. ~Ending => /\ Sound(shard, held) /\ TableMatches(shard) /\ UsageFits(shard)
                 /\ mode \in {"new", "open", "evict", "prune", "assert failed", "segfault"}
  BY <1>1 DEF IInv, TypeOK, RefsAccountForHolders, ListsHoldTheCache, TableMatchesCache,
              Sound, UsageInv, Ending
<1>3. ASSUME shard' = shard, mode' = mode \/ ~Ending PROVE UsageInv'
  BY <1>1, <1>3, UsageStays DEF UsageInv, Ending
<1>4. ASSUME NEW c \in Capacities, SetCapacity(c) PROVE UsageInv'
  BY <1>3, <1>4 DEF SetCapacity, Ending
<1>5. ASSUME Segfault, ~Ending PROVE UsageInv'
  BY <1>3, <1>5 DEF Segfault
<1>6. ASSUME NEW k \in Key, NEW c \in Charge, Insert(k, c) PROVE UsageInv'
  <2>1. ~Ending
    BY <1>6 DEF Insert, Ending
  <2>2. CASE NullBucket \/ NullResize(k)
    BY <1>5, <2>1, <2>2 DEF NullBucket, NullResize
  <2>3. ASSUME NEW e \in Entry \ Live(shard),
               InsertUncached(k, c, e) \/ InsertCached(k, c, e)
        PROVE  UsageInv'
    <3> DEFINE m == Malloced(shard, e, k, c)
               g == [held EXCEPT ![e] = 1]
    <3>1. shard.refs[e] = 0
      BY <1>1, <2>3 DEF Live, Shard
    <3>2. Sound(m, g) /\ Fresh(shard, m, e, k, c)
      BY <1>1, <1>2, <2>1, <3>1, MallocedIsSound
    <3>3. g \in [Entry -> Nat]
      BY <1>1
    <3> HIDE DEF m, g
    <3>4. /\ m \in Shard /\ m.charge[e] = c /\ m.key[e] = k /\ m.refs[e] = 1
          /\ ~m.inCache[e] /\ m.key = [shard.key EXCEPT ![e] = k]
          /\ m.table = shard.table /\ m.inCache = shard.inCache
          /\ m.usage = shard.usage /\ m.charge = [shard.charge EXCEPT ![e] = c]
      BY <1>1, <3>2 DEF Sound, Fresh, Shard
    <3>5. UsageFits(m)
      <4>1. \A x \in Entry : shard.inCache[x] => m.charge[x] = shard.charge[x]
        BY <1>1, <3>4 DEF Shard
      <4> QED BY <1>1, <1>2, <2>1, <3>4, <4>1, UsageStays
    <3>6. CASE InsertUncached(k, c, e)
      BY <3>5, <3>6 DEF InsertUncached, UsageInv, m
    <3>7. CASE InsertCached(k, c, e)
      <4>1. TableMatches(m)
        BY <1>1, <1>2, <2>1, <3>2, FreshKeepsTable
      <4>2. UsageFits(Cached(m, e, k, c))
        BY <2>3, <3>2, <3>3, <3>4, <3>5, <4>1, CachedIsSound
      <4> QED BY <3>7, <4>2 DEF InsertCached, UsageInv, m
    <3> QED BY <2>3, <3>6, <3>7
  <2> QED BY <1>6, <2>2, <2>3 DEF Insert
<1>7. ASSUME NEW k \in Key, ~Ending, shard' = EraseKey(shard, k) PROVE UsageInv'
  BY <1>1, <1>2, <1>7, EraseKeyIsSound DEF UsageInv
<1>8. ASSUME Evict \/ PruneOne PROVE UsageInv'
  <2>1. ~Ending /\ Evictable(shard)
    BY <1>8 DEF Evict, PruneOne, Ending, IInv, LoopInv
  <2>2. shard.key[shard.next[Lru]] \in Key
    BY <2>1, FirstIdle
  <2> QED BY <1>7, <1>8, <2>1, <2>2 DEF Evict, PruneOne
<1>9. ASSUME NEW t, shard' = t, Same(shard, t), ~Ending PROVE UsageInv'
  BY <1>1, <1>2, <1>9, UsageStays DEF Same, UsageInv
<1>10. ASSUME NEW k \in Key, Lookup(k) PROVE UsageInv'
  <2>1. ~Ending
    BY <1>10 DEF Lookup, Ending
  <2>2. CASE NullBucket
    BY <1>5, <2>1, <2>2 DEF NullBucket
  <2>3. CASE ~NullBucket
    <3> DEFINE e == shard.table[k]
    <3>1. e \in Entry /\ shard' = Ref(shard, e) /\ shard.refs[e] > 0
      BY <1>1, <1>2, <1>10, <2>1, <2>3
      DEF Lookup, TableMatches, Sound, CountsMatch, Shard
    <3> HIDE DEF e
    <3> QED BY <1>1, <1>2, <1>9, <2>1, <3>1, RefIsSound
  <2> QED BY <2>2, <2>3
<1>11. ASSUME NEW e \in Entry, Release(e) PROVE UsageInv'
  <2>1. ~Ending /\ held[e] > 0 /\ shard' = Unref(shard, e)
    BY <1>11 DEF Release, Ending
  <2> QED BY <1>1, <1>2, <1>9, <2>1, UnrefIsSound
<1>12. ASSUME NEW k \in Key, Erase(k) PROVE UsageInv'
  <2>1. ~Ending
    BY <1>12 DEF Erase, Ending
  <2> QED BY <1>5, <1>7, <1>12, <2>1 DEF Erase, NullBucket
<1>13. CASE Prune
  BY <1>3, <1>13 DEF Prune, Ending
<1>14. CASE Destroy
  BY <1>3, <1>14 DEF Destroy, Ending
<1>15. CASE DestroyOne
  BY <1>15 DEF DestroyOne, UsageInv, Ending
<1>16. CASE UNCHANGED vars
  BY <1>3, <1>16 DEF vars
<1> QED
  BY <1>4, <1>6, <1>8, <1>10, <1>11, <1>12, <1>13, <1>14, <1>15, <1>16 DEF Next

\* usage_ never drifts from the charges of the cached entries, whatever is
\* inserted, replaced, erased, evicted or released in whatever order: Insert
\* evicts exactly when they are above the capacity.
THEOREM UsageCorrect == Spec => []UsageIsTotalCharge
<1>1. UsageInv => UsageIsTotalCharge
  BY DEF UsageInv, UsageIsTotalCharge, UsageFits, Total, Counted
<1> QED BY <1>1, InitEstablishesUsage, StepKeepsUsage, IInvAlways, PTL DEF Spec

-----------------------------------------------------------------------------
(* The refinement of PinnedCache.  In every mode the links lead through the *)
(* idle entries in some order, from lru_ or, in ~LRUCache, from its cursor; *)
(* that order is the abstract queue, and what each method does to the links *)
(* is what the abstract action does to the queue.                          *)

OrderInv ==
  /\ \E q : Path(shard.next, IF Ending THEN cursor ELSE shard.next[Lru],
                 Unused(shard), q)
  /\ \A e \in Entry : shard.inCache[e] => \E k \in Key : shard.table[k] = e

LEMMA KeepsPath ==
  ASSUME NEW s, NEW t, NEW q, Path(s.next, s.next[Lru], Unused(s), q), Keeps(s, t)
  PROVE  Path(t.next, t.next[Lru], Unused(t), q)
BY PathElsewhere DEF Keeps

LEMMA SkipsPath ==
  ASSUME NEW s, NEW t, NEW e, e # Lru, NEW q,
         Path(s.next, s.next[Lru], Unused(s), q), Skips(s, t, e)
  PROVE  Path(t.next, t.next[Lru], Unused(t), Abstract!RemoveFirst(q, e))
<1>1. /\ Unused(t) = Unused(s) \ {e}
      /\ \A m \in (Unused(s) \ {e}) \cup {Lru} :
           t.next[m] = IF s.next[m] = e THEN s.next[e] ELSE s.next[m]
  BY DEF Skips
<1> DEFINE f == s.next
           g == t.next
           S == Unused(s)
<1>2. /\ Path(f, f[Lru], S, q)
      /\ \A m \in (S \ {e}) \cup {Lru} : g[m] = IF f[m] = e THEN f[e] ELSE f[m]
  BY <1>1
<1> HIDE DEF f, g, S
<1>3. Path(g, g[Lru], S \ {e}, Abstract!RemoveFirst(q, e))
  BY <1>2, PathWithout
<1> QED BY <1>1, <1>3 DEF g, S

LEMMA ExtendsPath ==
  ASSUME NEW s, NEW t, NEW e, e # Lru, NEW q,
         Path(s.next, s.next[Lru], Unused(s), q), Extends(s, t, e)
  PROVE  Path(t.next, t.next[Lru], Unused(t), Append(q, e))
<1>1. /\ e \notin Unused(s) /\ Unused(t) = Unused(s) \cup {e} /\ t.next[e] = Lru
      /\ \A m \in Unused(s) \cup {Lru} :
           t.next[m] = IF s.next[m] = Lru THEN e ELSE s.next[m]
  BY DEF Extends
<1> QED BY <1>1, PathWith

\* An entry is allocated exactly while someone needs it.
LEMMA LiveIsNeeded ==
  ASSUME NEW s \in Shard, NEW h \in [Entry -> Nat], CountsMatch(s, h),
         \A e \in Entry : s.inCache[e] => \E k \in Key : s.table[k] = e
  PROVE  Live(s) = Abstract!Needed(Findable(s), h)
<1>1. NoEntry \notin Entry
  BY NodesApart
<1>2. ASSUME NEW e \in Entry
      PROVE  s.refs[e] > 0 <=> h[e] > 0 \/ \E k \in Key : Findable(s)[k] = e
  <2>1. s.refs[e] > 0 <=> h[e] > 0 \/ s.inCache[e]
    BY DEF CountsMatch, Shard
  <2>2. s.inCache[e] <=> \E k \in Key : Findable(s)[k] = e
    BY <1>1 DEF Findable, Shard
  <2> QED BY <2>1, <2>2
<1> QED BY <1>2 DEF Live, Abstract!Needed

LEMMA FindableIsTable ==
  ASSUME NEW s \in Shard, NEW h \in [Entry -> Nat], CountsMatch(s, h), TableMatches(s)
  PROVE  /\ Findable(s) = s.table /\ Live(s) = Abstract!Needed(s.table, h)
         /\ \A e \in Entry : s.inCache[e] => \E k \in Key : s.table[k] = e
<1>1. \A e \in Entry : s.inCache[e] => \E k \in Key : s.table[k] = e
  BY DEF TableMatches
<1>2. Findable(s) = s.table
  BY DEF Findable, TableMatches, Shard
<1> QED BY <1>1, <1>2, LiveIsNeeded

\* Where a step of an open cache starts, and where it ends.
LEMMA OpenNow ==
  ASSUME IInv, OrderInv, ~Ending
  PROVE  /\ Path(shard.next, shard.next[Lru], Unused(shard), IdleQueue)
         /\ Findable(shard) = shard.table
         /\ Live(shard) = Abstract!Needed(shard.table, held)
<1>1. PICK q : Path(shard.next, shard.next[Lru], Unused(shard), q)
  BY DEF OrderInv
<1>2. IdleQueue = q
  BY <1>1, PathIsFollow DEF IdleQueue
<1>3. /\ shard \in Shard /\ held \in [Entry -> Nat]
      /\ CountsMatch(shard, held) /\ TableMatches(shard)
  BY DEF IInv, TypeOK, RefsAccountForHolders, TableMatchesCache
<1> QED BY <1>1, <1>2, <1>3, FindableIsTable

LEMMA OpenThen ==
  ASSUME IInv', ~Ending', NEW q,
         Path(shard'.next, shard'.next[Lru], Unused(shard'), q)
  PROVE  /\ OrderInv' /\ IdleQueue' = q
         /\ Findable(shard)' = shard'.table
         /\ Live(shard)' = Abstract!Needed(shard'.table, held')
<1>1. IdleQueue' = q
  BY PathIsFollow DEF IdleQueue
<1>2. /\ shard' \in Shard /\ held' \in [Entry -> Nat]
      /\ CountsMatch(shard', held') /\ TableMatches(shard')
  BY DEF IInv, TypeOK, RefsAccountForHolders, TableMatchesCache
<1>3. /\ Findable(shard') = shard'.table
      /\ Live(shard') = Abstract!Needed(shard'.table, held')
      /\ \A e \in Entry : shard'.inCache[e] => \E k \in Key : shard'.table[k] = e
  BY <1>2, FindableIsTable
<1>4. OrderInv'
  BY <1>3 DEF OrderInv
<1> QED BY <1>1, <1>3, <1>4

\* Steps that change neither the shard nor the handles do not show.
LEMMA StutterStep ==
  ASSUME OrderInv, shard' = shard, held' = held,
         (IF Ending THEN cursor ELSE shard.next[Lru])' =
           IF Ending THEN cursor ELSE shard.next[Lru]
  PROVE  OrderInv' /\ [Abstract!Next]_(Abstract!vars)
<1>1. OrderInv'
  BY DEF OrderInv
<1>2. UNCHANGED Abstract!vars
  BY DEF Abstract!vars, IdleQueue
<1> QED BY <1>1, <1>2

LEMMA InsertStep ==
  ASSUME IInv, OrderInv, IInv', NEW k \in Key, NEW c \in Charge,
         NEW e \in Entry \ Live(shard), mode = "open",
         InsertUncached(k, c, e) \/ InsertCached(k, c, e)
  PROVE  OrderInv' /\ [Abstract!Next]_(Abstract!vars)
<1> DEFINE m == Malloced(shard, e, k, c)
           g == [held EXCEPT ![e] = 1]
           q == IdleQueue
<1>1. /\ ~Ending /\ shard \in Shard /\ held \in [Entry -> Nat]
      /\ Sound(shard, held) /\ TableMatches(shard)
  BY DEF IInv, Ending, TypeOK, RefsAccountForHolders, ListsHoldTheCache,
         TableMatchesCache, Sound
<1>2. /\ Path(shard.next, shard.next[Lru], Unused(shard), q)
      /\ Findable(shard) = shard.table
  BY <1>1, OpenNow
<1>3. shard.refs[e] = 0 /\ e \in Entry /\ e \notin Live(shard)
  BY <1>1 DEF Live, Shard
<1>4. Sound(m, g) /\ Fresh(shard, m, e, k, c) /\ Keeps(shard, m)
  BY <1>1, <1>3, MallocedIsSound
<1>5. /\ TableMatches(m) /\ g \in [Entry -> Nat] /\ held' = g
      /\ m.refs[e] = 1 /\ m.key[e] = k /\ ~m.inCache[e] /\ m.table = shard.table
  <2>1. TableMatches(m)
    BY <1>1, <1>3, <1>4, FreshKeepsTable
  <2>2. held' = g /\ g \in [Entry -> Nat]
    BY <1>1 DEF InsertUncached, InsertCached
  <2> HIDE DEF m, g
  <2> QED BY <1>1, <1>3, <1>4, <2>1, <2>2 DEF Fresh, Shard
<1>6. CASE InsertUncached(k, c, e)
  <2>1. shard' = m /\ ~Ending'
    BY <1>1, <1>6 DEF InsertUncached, Ending
  <2> HIDE DEF m, q
  <2>2. Path(shard'.next, shard'.next[Lru], Unused(shard'), q)
    BY <1>2, <1>4, <2>1, KeepsPath
  <2>3. /\ OrderInv' /\ IdleQueue' = q /\ Findable(shard)' = shard.table
        /\ Live(shard)' = Abstract!Needed(shard.table, g)
    BY <1>5, <2>1, <2>2, OpenThen
  <2>4. Abstract!Bypass(e)
    BY <1>2, <1>3, <1>5, <2>3 DEF Abstract!Bypass, Abstract!Update, q
  <2> QED BY <1>3, <2>3, <2>4 DEF Abstract!Next
<1>7. CASE InsertCached(k, c, e)
  <2>1. shard' = Cached(m, e, k, c) /\ ~Ending'
    BY <1>1, <1>7 DEF InsertCached, Ending
  <2> HIDE DEF m, q, g
  <2>2. /\ Skips(m, Cached(m, e, k, c), m.table[k])
        /\ Cached(m, e, k, c).table = [m.table EXCEPT ![k] = e]
    BY <1>3, <1>4, <1>5, CachedIsSound
  <2>3. Path(m.next, m.next[Lru], Unused(m), q)
    BY <1>2, <1>4, KeepsPath
  <2>4. shard.table[k] # Lru
    BY <1>1, NodesApart DEF Shard, Node
  <2>5. /\ Path(shard'.next, shard'.next[Lru], Unused(shard'),
                Abstract!RemoveFirst(q, shard.table[k]))
        /\ shard'.table = [shard.table EXCEPT ![k] = e]
    BY <1>5, <2>1, <2>2, <2>3, <2>4, SkipsPath
  <2>6. /\ OrderInv' /\ IdleQueue' = Abstract!RemoveFirst(q, shard.table[k])
        /\ Findable(shard)' = [shard.table EXCEPT ![k] = e]
        /\ Live(shard)' = Abstract!Needed([shard.table EXCEPT ![k] = e], g)
    BY <1>5, <2>1, <2>5, OpenThen
  <2>7. Abstract!Insert(k, e)
    BY <1>2, <1>3, <1>5, <2>6 DEF Abstract!Insert, Abstract!Update, q, g
  <2> QED BY <1>3, <2>6, <2>7 DEF Abstract!Next
<1> QED BY <1>6, <1>7

LEMMA LookupStep ==
  ASSUME IInv, OrderInv, IInv', NEW k \in Key, Lookup(k), ~NullBucket
  PROVE  OrderInv' /\ [Abstract!Next]_(Abstract!vars)
<1> DEFINE e == shard.table[k]
           q == IdleQueue
<1>1. /\ ~Ending /\ shard \in Shard /\ held \in [Entry -> Nat]
      /\ Sound(shard, held) /\ TableMatches(shard)
  BY DEF IInv, Lookup, Ending, TypeOK, RefsAccountForHolders, ListsHoldTheCache,
         TableMatchesCache, Sound
<1>2. /\ Path(shard.next, shard.next[Lru], Unused(shard), q)
      /\ Findable(shard) = shard.table
  BY <1>1, OpenNow
<1>3. /\ e # NoEntry /\ e \in Entry /\ shard' = Ref(shard, e) /\ ~Ending'
      /\ held' = [held EXCEPT ![e] = @ + 1]
  BY <1>1 DEF Lookup, Shard, Ending
<1>4. shard.refs[e] > 0 /\ e # Lru
  <2>1. shard.inCache[e]
    BY <1>1, <1>3 DEF TableMatches
  <2> QED BY <1>1, <1>3, <2>1, NodesApart DEF Sound, CountsMatch
<1> HIDE DEF e, q
<1>5. Same(shard, shard') /\ Skips(shard, shard', e)
  BY <1>1, <1>3, <1>4, RefIsSound
<1>6. Path(shard'.next, shard'.next[Lru], Unused(shard'), Abstract!RemoveFirst(q, e))
  BY <1>2, <1>4, <1>5, SkipsPath
<1>7. shard'.table = shard.table
  BY <1>5 DEF Same
<1>8. /\ OrderInv' /\ IdleQueue' = Abstract!RemoveFirst(q, e)
      /\ Findable(shard)' = shard.table
      /\ Live(shard)' = Abstract!Needed(shard.table, held')
  BY <1>3, <1>6, <1>7, OpenThen
<1>9. Abstract!Lookup(k)
  BY <1>2, <1>3, <1>8 DEF Abstract!Lookup, Abstract!Update, q, e
<1> QED BY <1>8, <1>9 DEF Abstract!Next

LEMMA ReleaseStep ==
  ASSUME IInv, OrderInv, IInv', NEW e \in Entry, Release(e)
  PROVE  OrderInv' /\ [Abstract!Next]_(Abstract!vars)
<1> DEFINE q == IdleQueue
           r == IF shard.refs[e] = 2 /\ shard.inCache[e] THEN Append(q, e) ELSE q
<1>1. /\ ~Ending /\ shard \in Shard /\ held \in [Entry -> Nat]
      /\ Sound(shard, held) /\ TableMatches(shard)
  BY DEF IInv, Release, Ending, TypeOK, RefsAccountForHolders, ListsHoldTheCache,
         TableMatchesCache, Sound
<1>2. /\ Path(shard.next, shard.next[Lru], Unused(shard), q)
      /\ Findable(shard) = shard.table
  BY <1>1, OpenNow
<1>3. /\ held[e] > 0 /\ shard' = Unref(shard, e) /\ ~Ending'
      /\ held' = [held EXCEPT ![e] = @ - 1] /\ e # Lru
  BY <1>1, NodesApart DEF Release, Ending
<1>4. /\ Same(shard, shard')
      /\ IF shard.refs[e] = 2 /\ shard.inCache[e] THEN Extends(shard, shard', e)
                                                 ELSE Keeps(shard, shard')
  BY <1>1, <1>3, UnrefIsSound
<1> HIDE DEF q
<1>5. Path(shard'.next, shard'.next[Lru], Unused(shard'), r)
  BY <1>2, <1>3, <1>4, ExtendsPath, KeepsPath
<1>6. shard'.table = shard.table
  BY <1>4 DEF Same
<1>7. r = IF held[e] = 1 /\ \E k \in Key : shard.table[k] = e THEN Append(q, e) ELSE q
  <2>1. shard.inCache[e] <=> \E k \in Key : shard.table[k] = e
    <3>1. e # NoEntry
      BY <1>1, NodesApart
    <3> QED BY <1>1, <3>1 DEF TableMatches
  <2>2. shard.inCache[e] => (shard.refs[e] = 2 <=> held[e] = 1)
    BY <1>1 DEF Sound, CountsMatch
  <2> QED BY <2>1, <2>2
<1> HIDE DEF r
<1>8. /\ OrderInv' /\ IdleQueue' = r /\ Findable(shard)' = shard.table
      /\ Live(shard)' = Abstract!Needed(shard.table, held')
  BY <1>3, <1>5, <1>6, OpenThen
<1>9. Abstract!Release(e)
  BY <1>2, <1>3, <1>7, <1>8 DEF Abstract!Release, Abstract!Update, q
<1> QED BY <1>8, <1>9 DEF Abstract!Next

LEMMA EraseStep ==
  ASSUME IInv, OrderInv, IInv', NEW k \in Key, Erase(k), ~NullBucket
  PROVE  OrderInv' /\ [Abstract!Next]_(Abstract!vars)
<1> DEFINE e == shard.table[k]
           q == IdleQueue
<1>1. /\ ~Ending /\ shard \in Shard /\ held \in [Entry -> Nat]
      /\ Sound(shard, held) /\ TableMatches(shard)
  BY DEF IInv, Erase, Ending, TypeOK, RefsAccountForHolders, ListsHoldTheCache,
         TableMatchesCache, Sound
<1>2. /\ Path(shard.next, shard.next[Lru], Unused(shard), q)
      /\ Findable(shard) = shard.table
      /\ Live(shard) = Abstract!Needed(shard.table, held)
  BY <1>1, OpenNow
<1>3. shard' = EraseKey(shard, k) /\ held' = held /\ ~Ending'
  BY <1>1 DEF Erase, Ending
<1>4. Skips(shard, shard', e) /\ shard'.table = [shard.table EXCEPT ![k] = NoEntry]
  BY <1>1, <1>3, EraseKeyIsSound
<1>5. e # Lru /\ shard.table \in [Key -> Entry \cup {NoEntry}]
  BY <1>1, NodesApart DEF Shard
<1> HIDE DEF q
<1>6. Path(shard'.next, shard'.next[Lru], Unused(shard'), Abstract!RemoveFirst(q, e))
  <2> HIDE DEF e
  <2> QED BY <1>2, <1>4, <1>5, SkipsPath
<1>7. /\ OrderInv' /\ IdleQueue' = Abstract!RemoveFirst(q, e)
      /\ Findable(shard)' = [shard.table EXCEPT ![k] = NoEntry]
      /\ Live(shard)' = Abstract!Needed([shard.table EXCEPT ![k] = NoEntry], held)
  BY <1>3, <1>4, <1>6, OpenThen
<1>8. CASE e = NoEntry
  <2>1. Abstract!RemoveFirst(q, e) = q
    <3>1. PICK n \in Nat : Visits(shard.next, shard.next[Lru], Unused(shard), q, n)
      BY <1>2 DEF Path
    <3>2. q \in [1..n -> Unused(shard)] /\ e \notin Unused(shard)
      BY <1>1, <1>8, <3>1, NodesApart DEF Visits
    <3> HIDE DEF e
    <3> QED BY <3>2, RemoveFirstOfNone
  <2>2. [shard.table EXCEPT ![k] = NoEntry] = shard.table
    BY <1>5, <1>8
  <2>3. UNCHANGED Abstract!vars
    BY <1>2, <1>3, <1>7, <2>1, <2>2 DEF Abstract!vars, q
  <2> QED BY <1>7, <2>3
<1>9. CASE e # NoEntry
  <2>1. Abstract!Erase(k)
    BY <1>2, <1>3, <1>7, <1>9 DEF Abstract!Erase, Abstract!Update, q
  <2> QED BY <1>7, <2>1 DEF Abstract!Next
<1> QED BY <1>8, <1>9

\* Insert evicts and Prune drops the entry behind lru_: the head of the queue.
LEMMA EvictStep ==
  ASSUME IInv, OrderInv, IInv', Evict \/ PruneOne
  PROVE  OrderInv' /\ [Abstract!Next]_(Abstract!vars)
<1> DEFINE e == shard.next[Lru]
           k == shard.key[e]
           S == Unused(shard)
           q == IdleQueue
<1>1. /\ ~Ending /\ shard \in Shard /\ held \in [Entry -> Nat]
      /\ Sound(shard, held) /\ TableMatches(shard) /\ Evictable(shard)
  BY DEF IInv, LoopInv, Evict, PruneOne, Ending, TypeOK, RefsAccountForHolders,
         ListsHoldTheCache, TableMatchesCache, Sound
<1>2. /\ Path(shard.next, e, S, q) /\ Findable(shard) = shard.table
  BY <1>1, OpenNow
<1>3. e \in S /\ e \in Entry /\ k \in Key /\ shard.table[k] = e
  BY <1>1, FirstIdle, NodesApart DEF TableMatches, Unused
<1>4. shard' = EraseKey(shard, k) /\ held' = held /\ ~Ending'
  BY <1>1 DEF Evict, PruneOne, Ending
<1> HIDE DEF k
<1>5. Skips(shard, shard', e) /\ shard'.table = [shard.table EXCEPT ![k] = NoEntry]
  BY <1>1, <1>3, <1>4, EraseKeyIsSound
<1>6. \A m \in S : shard.next[m] # e
  <2>1. Ring(shard, Lru, S) /\ Lru \notin S
    BY <1>1, NodesApart DEF Sound, ListsMatch
  <2> QED BY <2>1 DEF Ring
<1>7. /\ Unused(shard') = S \ {e} /\ shard'.next[Lru] = shard.next[e]
      /\ \A m \in S \ {e} : shard'.next[m] = shard.next[m]
  BY <1>5, <1>6 DEF Skips
<1> HIDE DEF e, S, q
<1>8. /\ q # <<>> /\ Head(q) = e
      /\ Path(shard'.next, shard'.next[Lru], Unused(shard'), Tail(q))
  <2> DEFINE f == shard.next
             g == shard'.next
  <2>1. Path(f, e, S, q) /\ e \in S /\ \A m \in S \ {e} : g[m] = f[m]
    BY <1>2, <1>3, <1>7
  <2> HIDE DEF f, g
  <2>2. q # <<>> /\ Head(q) = e /\ Path(g, f[e], S \ {e}, Tail(q))
    BY <2>1, PathTail
  <2> QED BY <1>7, <2>2 DEF f, g
<1>9. [shard.table EXCEPT ![k] = NoEntry] =
        [j \in Key |-> IF shard.table[j] = Head(q) THEN NoEntry ELSE shard.table[j]]
  <2>1. shard.table \in [Key -> Entry \cup {NoEntry}] /\ NoEntry \notin Entry
    BY <1>1, NodesApart DEF Shard
  <2>2. \A j \in Key : shard.table[j] = e => j = k
    BY <1>1, <1>3, <2>1 DEF TableMatches, k
  <2> QED BY <1>3, <1>8, <2>1, <2>2
<1>10. /\ OrderInv' /\ IdleQueue' = Tail(q) /\ Findable(shard)' = shard'.table
       /\ Live(shard)' = Abstract!Needed(shard'.table, held)
  BY <1>4, <1>8, OpenThen
<1>11. Abstract!Evict
  BY <1>2, <1>4, <1>5, <1>8, <1>9, <1>10 DEF Abstract!Evict, Abstract!Update, q
<1> QED BY <1>10, <1>11 DEF Abstract!Next

\* ~LRUCache is a row of evictions: its cursor is the head of what is left.
LEMMA DestroyOneStep ==
  ASSUME IInv, OrderInv, IInv', DestroyOne
  PROVE  OrderInv' /\ [Abstract!Next]_(Abstract!vars)
<1> DEFINE e == cursor
           S == Unused(shard)
           q == IdleQueue
<1>1. /\ Ending /\ Ending' /\ held' = held /\ cursor' = shard.next[e] /\ e \in Entry
      /\ shard.inCache[e] /\ e \in S /\ shard' \in Shard /\ shard \in Shard
      /\ shard'.table = shard.table /\ shard'.next = [shard.next EXCEPT ![e] = NoEntry]
      /\ shard'.inCache = [shard.inCache EXCEPT ![e] = FALSE]
      /\ Unused(shard') = S \ {e} /\ held \in [Entry -> Nat]
      /\ CountsMatch(shard', held')
  <2>1. e \in S
    BY DestroyOneEffect DEF Unused
  <2> QED BY <2>1, DestroyOneEffect
          DEF Ending, IInv, TypeOK, RefsAccountForHolders
<1>2. Path(shard.next, e, S, q)
  <2>1. PICK p : Path(shard.next, e, S, p)
    BY <1>1 DEF OrderInv
  <2> HIDE DEF S, e
  <2>2. Follow(shard.next, e, S) = p
    BY <2>1, PathIsFollow
  <2> QED BY <1>1, <2>1, <2>2 DEF IdleQueue, S, e
<1> HIDE DEF q
<1>3. \A m \in S \ {e} : shard'.next[m] = shard.next[m]
  BY <1>1, NodesApart DEF Shard
<1>4. /\ q # <<>> /\ Head(q) = e
      /\ Path(shard'.next, cursor', Unused(shard'), Tail(q))
  <2> DEFINE f == shard.next
             g == shard'.next
  <2>1. Path(f, e, S, q) /\ e \in S /\ \A m \in S \ {e} : g[m] = f[m]
    BY <1>1, <1>2, <1>3
  <2> HIDE DEF f, g, S, e
  <2>2. q # <<>> /\ Head(q) = e /\ Path(g, f[e], S \ {e}, Tail(q))
    BY <2>1, PathTail
  <2> QED BY <1>1, <2>2 DEF f, g, S, e
<1>5. \A x \in Entry : shard'.inCache[x] => \E k \in Key : shard'.table[k] = x
  BY <1>1 DEF OrderInv, Shard
<1>6. OrderInv'
  BY <1>1, <1>4, <1>5 DEF OrderInv
<1>7. IdleQueue' = Tail(q)
  <2>1. Follow(shard'.next, cursor', Unused(shard')) = Tail(q)
    BY <1>4, PathIsFollow
  <2> QED BY <1>1, <2>1 DEF IdleQueue
<1>8. Live(shard') = Abstract!Needed(Findable(shard'), held)
  BY <1>1, <1>5, LiveIsNeeded
<1>9. Findable(shard') =
        [k \in Key |-> IF Findable(shard)[k] = Head(q) THEN NoEntry
                                                      ELSE Findable(shard)[k]]
  <2>1. NoEntry \notin Entry
    BY <1>1, NodesApart
  <2>2. ASSUME NEW k \in Key
        PROVE  Findable(shard')[k] = IF Findable(shard)[k] = e THEN NoEntry
                                                               ELSE Findable(shard)[k]
    BY <1>1, <2>1 DEF Findable, Shard
  <2> QED BY <1>4, <2>2 DEF Findable
<1>10. Abstract!Evict
  BY <1>1, <1>4, <1>7, <1>8, <1>9 DEF Abstract!Evict, Abstract!Update, q
<1> QED BY <1>6, <1>10 DEF Abstract!Next

LEMMA InitRefines == Init => OrderInv /\ Abstract!Init
<1> SUFFICES ASSUME Init PROVE OrderInv /\ Abstract!Init
  OBVIOUS
<1>1. /\ Unused(shard) = {} /\ Live(shard) = {} /\ shard.next[Lru] = Lru
      /\ shard.table = [k \in Key |-> NoEntry] /\ held = [e \in Entry |-> 0]
      /\ ~Ending /\ \A e \in Entry : ~shard.inCache[e]
  BY NodesApart, CacheAssumption DEF Init, Unused, Live, Ending, Node
<1>2. Visits(shard.next, Lru, {}, <<>>, 0)
  BY DEF Visits, Along
<1>3. Path(shard.next, Lru, {}, <<>>)
  BY <1>2 DEF Path
<1>4. OrderInv
  BY <1>1, <1>3 DEF OrderInv
<1>5. Follow(shard.next, Lru, {}) = <<>>
  BY <1>3, PathIsFollow
<1>6. IdleQueue = <<>>
  BY <1>1, <1>5 DEF IdleQueue
<1>7. Findable(shard) = [k \in Key |-> NoEntry]
  BY <1>1 DEF Findable
<1> QED BY <1>1, <1>4, <1>6, <1>7 DEF Abstract!Init

\* Every step of the cache is a step of PinnedCache or none: one case per action.
LEMMA StepRefines ==
  IInv /\ OrderInv /\ [Next]_vars => OrderInv' /\ [Abstract!Next]_(Abstract!vars)
<1> SUFFICES ASSUME IInv, OrderInv, [Next]_vars
             PROVE  OrderInv' /\ [Abstract!Next]_(Abstract!vars)
  OBVIOUS
<1>1. IInv'
  BY StepKeepsIInv
<1>2. ASSUME NEW c \in Capacities, SetCapacity(c)
      PROVE  OrderInv' /\ [Abstract!Next]_(Abstract!vars)
  BY <1>2, StutterStep DEF SetCapacity, Ending
<1>3. ASSUME Segfault, mode = "open"
      PROVE  OrderInv' /\ [Abstract!Next]_(Abstract!vars)
  BY <1>3, StutterStep DEF Segfault, Ending
<1>4. ASSUME NEW k \in Key, NEW c \in Charge, Insert(k, c)
      PROVE  OrderInv' /\ [Abstract!Next]_(Abstract!vars)
  BY <1>1, <1>3, <1>4, InsertStep DEF Insert, NullBucket, NullResize
<1>5. ASSUME NEW k \in Key, Lookup(k)
      PROVE  OrderInv' /\ [Abstract!Next]_(Abstract!vars)
  <2>1. mode = "open"
    BY <1>5 DEF Lookup
  <2> QED BY <1>1, <1>3, <1>5, <2>1, LookupStep DEF NullBucket
<1>6. ASSUME NEW k \in Key, Erase(k)
      PROVE  OrderInv' /\ [Abstract!Next]_(Abstract!vars)
  <2>1. mode = "open"
    BY <1>6 DEF Erase
  <2> QED BY <1>1, <1>3, <1>6, <2>1, EraseStep DEF NullBucket
<1>7. ASSUME NEW e \in Entry, Release(e)
      PROVE  OrderInv' /\ [Abstract!Next]_(Abstract!vars)
  BY <1>1, <1>7, ReleaseStep
<1>8. ASSUME Evict \/ PruneOne
      PROVE  OrderInv' /\ [Abstract!Next]_(Abstract!vars)
  BY <1>1, <1>8, EvictStep
<1>9. ASSUME Prune
      PROVE  OrderInv' /\ [Abstract!Next]_(Abstract!vars)
  BY <1>9, StutterStep DEF Prune, Ending
<1>10. ASSUME Destroy
       PROVE  OrderInv' /\ [Abstract!Next]_(Abstract!vars)
  BY <1>10, StutterStep DEF Destroy, Ending
<1>11. ASSUME DestroyOne
       PROVE  OrderInv' /\ [Abstract!Next]_(Abstract!vars)
  BY <1>1, <1>11, DestroyOneStep
<1>12. CASE UNCHANGED vars
  BY <1>12, StutterStep DEF vars, Ending
<1> QED
  BY <1>2, <1>4, <1>5, <1>6, <1>7, <1>8, <1>9, <1>10, <1>11, <1>12 DEF Next

\* The cache behaves as PinnedCache says, for any number of keys, entries and
\* handles: an entry is allocated exactly while a client or a key needs it, and
\* evictions take the entry that has been idle longest, although the code knows
\* nothing of either but counts and links.
THEOREM RefinesPinnedCache == Spec => ImplementsPinnedCache
BY InitEstablishesIInv, StepKeepsIInv, InitRefines, StepRefines, PTL
DEF Spec, ImplementsPinnedCache, Abstract!Spec

=============================================================================
