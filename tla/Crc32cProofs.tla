---------------------------- MODULE Crc32cProofs ----------------------------
(***************************************************************************)
(* Proofs about Crc32c, for any data in any pieces at any address: Extend  *)
(* is the division of the data by the polynomial, byte after byte, and the *)
(* trailer gives its result back.                                          *)
(*                                                                         *)
(* Nothing is needed of the polynomial but that it is a word: division by  *)
(* it is linear, and moves a word on by a byte without change where its    *)
(* lowest byte is empty.                                                   *)
(***************************************************************************)
EXTENDS Crc32c, SequenceTheorems, WellFoundedInduction, TLAPS

-----------------------------------------------------------------------------
(* Recursive functions of a number.                                        *)

LEMMA LeastIsThere ==
  ASSUME NEW S \in SUBSET Nat, S # {}
  PROVE  \E x \in S : \A y \in S : x <= y
<1>1. PICK x \in S : \A y \in S : <<y, x>> \notin OpToRel(<, Nat)
  BY WFMin, NatLessThanWellFounded, Zenon
<1>2. \A y \in S : ~(y < x)
  BY <1>1 DEF OpToRel
<1>3. x \in Nat /\ \A y \in S : y \in Nat
  OBVIOUS
<1>4. \A y \in S : x <= y
  BY <1>2, <1>3
<1> QED BY <1>4

\* A set of numbers that holds a, and with a number the next, holds all up to b.
LEMMA Upward ==
  ASSUME NEW a \in Nat, NEW b \in Nat, NEW Q,
         a \in Q, \A n \in (a + 1)..b : n - 1 \in Q => n \in Q
  PROVE  \A n \in a..b : n \in Q
<1> DEFINE B == {n \in a..b : n \notin Q}
<1>1. SUFFICES ASSUME B # {} PROVE FALSE
  OBVIOUS
<1>2. PICK x \in B : \A y \in B : x <= y
  <2>1. B \in SUBSET Nat
    OBVIOUS
  <2> HIDE DEF B
  <2> QED BY <1>1, <2>1, LeastIsThere
<1>3. x \in (a + 1)..b /\ x - 1 \in a..b /\ ~(x <= x - 1) /\ x \notin Q
  BY <1>2
<1>4. x - 1 \in Q
  BY <1>2, <1>3
<1> QED BY <1>3, <1>4

\* f takes init from step to step; each step is a function on S.
Steps(f, a, b, S, init, step) ==
  /\ f \in [a..b -> S] /\ f[a] = init
  /\ \A n \in (a + 1)..b : f[n] = step[n][f[n - 1]]

LEMMA StepsExist ==
  ASSUME NEW a \in Nat, NEW b \in Nat, a <= b, NEW S, NEW init \in S,
         NEW step \in [(a + 1)..b -> [S -> S]]
  PROVE  \E f : Steps(f, a, b, S, init, step)
<1> DEFINE Upto(f, m) == /\ f \in [a..b -> S] /\ f[a] = init
                         /\ \A n \in (a + 1)..m : f[n] = step[n][f[n - 1]]
           Q == {m \in a..b : \E f : Upto(f, m)}
<1>1. a \in Q
  <2> DEFINE f == [n \in a..b |-> init]
  <2>1. Upto(f, a)
    OBVIOUS
  <2> QED BY <2>1
<1>2. ASSUME NEW m \in (a + 1)..b, m - 1 \in Q PROVE m \in Q
  <2>1. PICK f : Upto(f, m - 1)
    BY <1>2
  <2> DEFINE g == [f EXCEPT ![m] = step[m][f[m - 1]]]
  <2>2. f[m - 1] \in S /\ step[m] \in [S -> S]
    BY <1>2, <2>1
  <2>3. g \in [a..b -> S] /\ g[m] = step[m][f[m - 1]] /\ \A n \in a..b : n # m => g[n] = f[n]
    BY <1>2, <2>1, <2>2
  <2> HIDE DEF g
  <2>4. ASSUME NEW n \in (a + 1)..m PROVE g[n] = step[n][g[n - 1]]
    <3>1. n - 1 \in a..b /\ n - 1 # m
      BY <1>2
    <3>2. CASE n = m
      BY <2>3, <3>1, <3>2
    <3>3. CASE n # m
      BY <1>2, <2>1, <2>3, <3>1, <3>3
    <3> QED BY <3>2, <3>3
  <2>5. Upto(g, m)
    BY <1>2, <2>1, <2>3, <2>4
  <2> HIDE DEF Upto
  <2> QED BY <1>2, <2>5
<1>3. b \in Q
  <2>1. b \in a..b
    OBVIOUS
  <2> HIDE DEF Q
  <2> QED BY <1>1, <1>2, <2>1, Upward
<1> QED BY <1>3 DEF Steps

LEMMA FunctionOfValues ==
  ASSUME NEW S, NEW T, NEW f \in [S -> T]
  PROVE  f = [x \in S |-> f[x]]
OBVIOUS

\* What is equal to f where it begins and stays so from step to step is f.
LEMMA StepsAgree ==
  ASSUME NEW n \in Nat, NEW f, NEW g, g[0] = f[0],
         \A i \in 1..n : g[i - 1] = f[i - 1] => g[i] = f[i]
  PROVE  \A i \in 0..n : g[i] = f[i]
<1> DEFINE Q == {i \in Nat : g[i] = f[i]}
<1>1. 0 \in Nat /\ 0 \in Q /\ \A i \in (0 + 1)..n : i - 1 \in Q => i \in Q
  OBVIOUS
<1> HIDE DEF Q
<1>2. \A i \in 0..n : i \in Q
  BY <1>1, Upward
<1> QED BY <1>2 DEF Q

-----------------------------------------------------------------------------
(* Words.                                                                  *)

LEMMA XorIn ==
  ASSUME NEW v, NEW w, NEW x
  PROVE  x \in Xor(v, w) <=> ~(x \in v <=> x \in w)
BY DEF Xor

LEMMA XorType ==
  ASSUME NEW v \in Word, NEW w \in Word
  PROVE  Xor(v, w) \in Word
BY DEF Xor, Word

LEMMA XorGroup ==
  /\ \A v, w : Xor(v, w) = Xor(w, v)
  /\ \A u, v, w : Xor(u, Xor(v, w)) = Xor(Xor(u, v), w)
  /\ \A w : Xor(w, {}) = w /\ Xor({}, w) = w /\ Xor(w, w) = {}
  /\ \A v, w : Xor(Xor(v, w), w) = v
BY DEF Xor

LEMMA RightIn ==
  ASSUME NEW w \in Word, NEW n \in Nat, NEW i
  PROVE  i \in Right(w, n) <=> i \in Bit /\ i + n \in w
BY DEF Right, Word, Bit

LEMMA LeftIn ==
  ASSUME NEW w \in Word, NEW n \in Nat, NEW i
  PROVE  i \in Left(w, n) <=> i \in Bit /\ i - n \in w
BY DEF Left, Word, Bit

LEMMA ShiftType ==
  ASSUME NEW w \in Word, NEW n \in Nat
  PROVE  Right(w, n) \in Word /\ Left(w, n) \in Word
BY DEF Right, Left, Word, Bit

LEMMA ShiftXor ==
  ASSUME NEW v \in Word, NEW w \in Word, NEW n \in Nat
  PROVE  /\ Right(Xor(v, w), n) = Xor(Right(v, n), Right(w, n))
         /\ Left(Xor(v, w), n) = Xor(Left(v, n), Left(w, n))
<1>1. \A i : i \in Right(Xor(v, w), n) <=> i \in Xor(Right(v, n), Right(w, n))
  BY XorIn, XorType, RightIn
<1>2. \A i : i \in Left(Xor(v, w), n) <=> i \in Xor(Left(v, n), Left(w, n))
  BY XorIn, XorType, LeftIn
<1> QED BY <1>1, <1>2

LEMMA RightRight ==
  ASSUME NEW w \in Word, NEW m \in Nat, NEW n \in Nat
  PROVE  Right(Right(w, m), n) = Right(w, m + n)
<1>1. \A i : i \in Right(Right(w, m), n) <=> i \in Right(w, m + n)
  BY RightIn, ShiftType DEF Bit, Word
<1> QED BY <1>1

-----------------------------------------------------------------------------
(* Division.                                                               *)

Linear(T) ==
  /\ T \in [Word -> Word]
  /\ \A v, w \in Word : T[Xor(v, w)] = Xor(T[v], T[w])

\* A word whose lowest n bits are empty is only shifted.
Shifts(T, n) == \A w \in Word : (\A i \in w : i >= n) => T[w] = Right(w, n)

Twice(T) == [w \in Word |-> T[T[w]]]

LEMMA TwiceLinear ==
  ASSUME NEW T, Linear(T)
  PROVE  Linear(Twice(T))
<1>1. ASSUME NEW v \in Word, NEW w \in Word
      PROVE  Twice(T)[Xor(v, w)] = Xor(Twice(T)[v], Twice(T)[w])
  <2>1. T[v] \in Word /\ T[w] \in Word /\ Xor(v, w) \in Word
    BY XorType DEF Linear
  <2>2. T[T[Xor(v, w)]] = Xor(T[T[v]], T[T[w]])
    BY <2>1 DEF Linear
  <2> QED BY <2>1, <2>2 DEF Twice
<1>2. Twice(T) \in [Word -> Word]
  BY DEF Twice, Linear
<1> QED BY <1>1, <1>2 DEF Linear

LEMMA TwiceShifts ==
  ASSUME NEW T, NEW n \in Nat, Shifts(T, n)
  PROVE  Shifts(Twice(T), 2 * n)
<1>1. SUFFICES ASSUME NEW w \in Word, \A i \in w : i >= 2 * n
               PROVE  Twice(T)[w] = Right(w, 2 * n)
  BY DEF Shifts
<1>2. T[w] = Right(w, n)
  BY <1>1 DEF Shifts, Word, Bit
<1>3. Right(w, n) \in Word /\ \A i \in Right(w, n) : i >= n
  BY <1>1, RightIn, ShiftType DEF Word, Bit
<1>4. T[Right(w, n)] = Right(Right(w, n), n)
  BY <1>3 DEF Shifts
<1>5. Right(Right(w, n), n) = Right(w, n + n) /\ n + n = 2 * n
  BY RightRight
<1> QED BY <1>2, <1>4, <1>5 DEF Twice

By1 == [w \in Word |-> DividedByBit(w)]
By8 == Twice(Twice(Twice(By1)))

LEMMA BitLinear == Linear(By1) /\ Shifts(By1, 1)
<1>1. Polynomial \in Word
  BY DEF Polynomial, Bits, Word, Bit
<1>2. ASSUME NEW w \in Word PROVE DividedByBit(w) \in Word
  BY <1>1, XorType, ShiftType DEF DividedByBit, Word
<1>3. ASSUME NEW v \in Word, NEW w \in Word
      PROVE  DividedByBit(Xor(v, w)) = Xor(DividedByBit(v), DividedByBit(w))
  <2> DEFINE rest(u) == IF 0 \in u THEN Polynomial ELSE {}
  <2>1. rest(Xor(v, w)) = Xor(rest(v), rest(w))
    BY XorIn, XorGroup
  <2>2. Right(Xor(v, w), 1) = Xor(Right(v, 1), Right(w, 1))
    BY ShiftXor
  <2> DEFINE a == Right(v, 1)
             b == Right(w, 1)
             c == rest(v)
             d == rest(w)
  <2>3. Xor(Xor(a, b), Xor(c, d)) = Xor(Xor(a, c), Xor(b, d))
    <3> HIDE DEF a, b, c, d
    <3> QED BY DEF Xor
  <2> QED BY <2>1, <2>2, <2>3 DEF DividedByBit
<1>4. ASSUME NEW w \in Word, \A i \in w : i >= 1 PROVE DividedByBit(w) = Right(w, 1)
  BY <1>4, XorGroup DEF DividedByBit
<1>5. \A v, w \in Word : Xor(v, w) \in Word
  BY XorType
<1> QED BY <1>2, <1>3, <1>4, <1>5 DEF Linear, Shifts, By1

LEMMA By8Linear == Linear(By8) /\ Shifts(By8, 8)
<1>1. Linear(Twice(By1)) /\ Shifts(Twice(By1), 2)
  BY BitLinear, TwiceLinear, TwiceShifts
<1>2. Linear(Twice(Twice(By1))) /\ Shifts(Twice(Twice(By1)), 4)
  BY <1>1, TwiceLinear, TwiceShifts
<1> QED BY <1>2, TwiceLinear, TwiceShifts DEF By8

\* The recursion ends after eight bits.
LEMMA DividedValue ==
  ASSUME NEW w \in Word
  PROVE  Divided[w] = By8[w]
<1> DEFINE Left8(g) == g = [n \in 0..8 |-> IF n = 0 THEN w ELSE DividedByBit(g[n - 1])]
           left == CHOOSE g : Left8(g)
<1>1. Linear(By1)
  BY BitLinear
<1>2. PICK f : Steps(f, 0, 8, Word, w, [n \in 1..8 |-> By1])
  <2> DEFINE step == [n \in 1..8 |-> By1]
  <2>1. step \in [(0 + 1)..8 -> [Word -> Word]] /\ 0 \in Nat /\ 8 \in Nat /\ 0 <= 8
    BY <1>1 DEF Linear
  <2> HIDE DEF step
  <2>2. \E f : Steps(f, 0, 8, Word, w, step)
    BY <2>1, StepsExist
  <2> QED BY <2>2 DEF step
<1>3. /\ f \in [0..8 -> Word] /\ f[0] = w
      /\ \A n \in 1..8 : f[n] = By1[f[n - 1]] /\ f[n - 1] \in Word
  BY <1>2 DEF Steps
<1>4. Left8(f)
  <2>1. \A n \in 0..8 : f[n] = IF n = 0 THEN w ELSE DividedByBit(f[n - 1])
    BY <1>3 DEF By1
  <2>2. f = [n \in 0..8 |-> f[n]]
    BY <1>3
  <2> QED BY <2>1, <2>2
<1>5. Left8(left)
  <2> HIDE DEF Left8
  <2> QED BY <1>4
<1>6. left[0] = w /\ \A n \in 1..8 : left[n] = DividedByBit(left[n - 1])
  <2> HIDE DEF left
  <2> QED BY <1>5
<1>7. Divided[w] = left[8]
  BY DEF Divided
<1> HIDE DEF left
<1>8. left[8] = f[8]
  <2>1. \A n \in 1..8 : left[n - 1] = f[n - 1] => left[n] = f[n]
    BY <1>3, <1>6 DEF By1
  <2>2. \A n \in 0..8 : left[n] = f[n]
    BY <1>3, <1>6, <2>1, StepsAgree
  <2> QED BY <2>2
<1>9. f[8] = By8[w]
  <2>1. /\ f[2] = Twice(By1)[w] /\ f[4] = Twice(By1)[f[2]]
        /\ f[6] = Twice(By1)[f[4]] /\ f[8] = Twice(By1)[f[6]]
    BY <1>3 DEF Twice
  <2>2. f[4] = Twice(Twice(By1))[w] /\ f[8] = Twice(Twice(By1))[f[4]]
    <3>1. \A v \in Word : Twice(Twice(By1))[v] = Twice(By1)[Twice(By1)[v]]
      BY DEF Twice
    <3> QED BY <1>3, <2>1, <3>1
  <2> QED BY <1>3, <2>2 DEF By8, Twice
<1> QED BY <1>7, <1>8, <1>9

LEMMA DividedLinear == Linear(Divided) /\ Shifts(Divided, 8)
<1>1. Divided = By8
  <2>1. Divided = [w \in Word |-> Divided[w]]
    BY DEF Divided
  <2>2. By8 = [w \in Word |-> By8[w]]
    BY By8Linear DEF Linear
  <2> QED BY <2>1, <2>2, DividedValue
<1> QED BY <1>1, By8Linear

-----------------------------------------------------------------------------
(* Bytes.                                                                  *)

LEMMA OctetIsWord == Octet \subseteq Word
BY DEF Octet, Word, Bit

LEMMA OctetAtIn ==
  ASSUME NEW w \in Word, NEW n \in Nat
  PROVE  /\ OctetAt(w, n) \in Octet
         /\ \A i : i \in OctetAt(w, n) <=> i \in 0..7 /\ i + n \in w
<1>1. \A i \in 0..7 : i \in Bit
  BY DEF Bit
<1>2. \A i : i \in OctetAt(w, n) <=> i \in 0..7 /\ i + n \in w
  BY <1>1, RightIn DEF OctetAt
<1> QED BY <1>2 DEF Octet

\* The lowest byte is looked up in the table, the others are shifted.
LEMMA TableStep ==
  ASSUME NEW l \in Word
  PROVE  Divided[l] = Xor(kByteExtensionTable[OctetAt(l, 0)], Right(l, 8))
<1> DEFINE low  == OctetAt(l, 0)
           high == {i \in l : i >= 8}
<1>1. low \in Octet /\ low \in Word /\ high \in Word /\ \A i \in high : i >= 8
  BY OctetAtIn, OctetIsWord DEF Word
<1>2. l = Xor(low, high)
  <2>1. \A i : i \in low <=> i \in l /\ i < 8
    <3>1. \A i : i \in low <=> i \in 0..7 /\ i + 0 \in l
      BY OctetAtIn
    <3>2. l \subseteq 0..31
      BY DEF Word, Bit
    <3> HIDE DEF low
    <3>3. \A i \in 0..31 : i \in low <=> i \in l /\ i < 8
      BY <3>1
    <3>4. low \subseteq 0..31
      BY <3>1
    <3> QED BY <3>2, <3>3, <3>4
  <2>2. \A i : i \in high <=> i \in l /\ i >= 8
    OBVIOUS
  <2>3. \A i \in l : i < 8 <=> ~(i >= 8)
    BY DEF Word, Bit
  <2> HIDE DEF low, high
  <2> QED BY <2>1, <2>2, <2>3 DEF Xor
<1>3. Right(l, 8) = Right(high, 8)
  <2>1. \A i : i \in Right(l, 8) <=> i \in Right(high, 8)
    BY <1>1, RightIn DEF Word, Bit
  <2> QED BY <2>1
<1>4. kByteExtensionTable[low] = Divided[low]
  BY <1>1 DEF kByteExtensionTable
<1> HIDE DEF low, high
<1>5. Divided[Xor(low, high)] = Xor(Divided[low], Right(high, 8))
  BY <1>1, DividedLinear DEF Linear, Shifts
<1> QED BY <1>2, <1>3, <1>4, <1>5 DEF low

LEMMA Step1Value ==
  ASSUME NEW l \in Word, NEW byte \in Octet
  PROVE  STEP1(l, byte) = Divided[Xor(l, byte)]
<1>1. Xor(l, byte) \in Word /\ byte \in Word
  BY XorType, OctetIsWord
<1>2. OctetAt(Xor(l, byte), 0) = Xor(OctetAt(l, 0), byte)
  <2>1. \A i : i \in OctetAt(Xor(l, byte), 0) <=> i \in Xor(l, byte) /\ i \in 0..7
    BY <1>1, OctetAtIn
  <2>2. \A i : i \in OctetAt(l, 0) <=> i \in l /\ i \in 0..7
    BY OctetAtIn
  <2>3. \A i \in byte : i \in 0..7
    BY DEF Octet
  <2>4. \A i : i \in OctetAt(Xor(l, byte), 0) <=> i \in Xor(OctetAt(l, 0), byte)
    BY <2>1, <2>2, <2>3, XorIn
  <2> QED BY <2>4
<1>3. Right(Xor(l, byte), 8) = Right(l, 8)
  <2>1. \A i : i \in Right(Xor(l, byte), 8) <=> i \in Right(l, 8)
    BY <1>1, RightIn, XorIn DEF Word, Bit, Octet
  <2> QED BY <2>1
<1> QED BY <1>1, <1>2, <1>3, TableStep DEF STEP1

\* f is what is left of l and of the first bytes of p, up to n of them.
Run(f, l, p, n) ==
  /\ f \in [0..n -> Word] /\ f[0] = l
  /\ \A i \in 1..n : f[i] = Divided[Xor(f[i - 1], p[i])]

LEMMA RunExists ==
  ASSUME NEW n \in Nat, NEW l \in Word, NEW p, \A i \in 1..n : p[i] \in Octet
  PROVE  \E f : Run(f, l, p, n)
<1> DEFINE step == [i \in 1..n |-> [v \in Word |-> Divided[Xor(v, p[i])]]]
<1>1. \A i \in 1..n : \A v \in Word : Divided[Xor(v, p[i])] \in Word
  BY DividedLinear, OctetIsWord, XorType DEF Linear
<1>2. step \in [(0 + 1)..n -> [Word -> Word]] /\ 0 \in Nat /\ 0 <= n
  BY <1>1
<1>3. \A i \in 1..n : \A v \in Word : step[i][v] = Divided[Xor(v, p[i])]
  OBVIOUS
<1> HIDE DEF step
<1>4. PICK f : Steps(f, 0, n, Word, l, step)
  BY <1>2, StepsExist
<1>5. Run(f, l, p, n)
  <2>1. f \in [0..n -> Word] /\ f[0] = l /\ \A i \in 1..n : f[i] = step[i][f[i - 1]]
    BY <1>4 DEF Steps
  <2>2. \A i \in 1..n : f[i - 1] \in Word
    BY <2>1
  <2> QED BY <1>3, <2>1, <2>2 DEF Run
<1> QED BY <1>5

LEMMA RunsAgree ==
  ASSUME NEW n \in Nat, NEW l, NEW p, NEW q, \A i \in 1..n : p[i] = q[i],
         NEW f, Run(f, l, p, n), NEW g, Run(g, l, q, n)
  PROVE  \A i \in 0..n : g[i] = f[i]
<1>1. g[0] = f[0] /\ \A i \in 1..n : g[i - 1] = f[i - 1] => g[i] = f[i]
  BY DEF Run
<1> QED BY <1>1, StepsAgree

LEMMA BytesValue ==
  ASSUME NEW p \in Seq(Octet), NEW l \in Word, NEW f, Run(f, l, p, Len(p))
  PROVE  Bytes(l, p) = f[Len(p)]
<1> DEFINE n == Len(p)
           IsAfter(g) == g = [i \in 0..n |-> IF i = 0 THEN l ELSE STEP1(g[i - 1], p[i])]
           after == CHOOSE g : IsAfter(g)
<1>1. n \in Nat /\ \A i \in 1..n : p[i] \in Octet
  OBVIOUS
<1>2. Bytes(l, p) = after[n]
  BY DEF Bytes
<1>3. Run(f, l, p, n)
  OBVIOUS
<1> SUFFICES after[n] = f[n]
  BY <1>2
<1> HIDE DEF n
<1>4. \A i \in 1..n : f[i - 1] \in Word /\ f[i] = STEP1(f[i - 1], p[i])
  BY <1>1, <1>3, Step1Value DEF Run
<1>5. IsAfter(f)
  <2>1. \A i \in 0..n : f[i] = IF i = 0 THEN l ELSE STEP1(f[i - 1], p[i])
    BY <1>1, <1>3, <1>4 DEF Run
  <2>2. f = [i \in 0..n |-> f[i]]
    BY <1>3 DEF Run
  <2> QED BY <2>1, <2>2
<1>6. IsAfter(after)
  <2> HIDE DEF IsAfter
  <2> QED BY <1>5
<1>7. after[0] = l /\ \A i \in 1..n : after[i] = STEP1(after[i - 1], p[i])
  <2> HIDE DEF after
  <2> QED BY <1>1, <1>6
<1> HIDE DEF after
<1>8. after[0] = f[0] /\ \A i \in 1..n : after[i - 1] = f[i - 1] => after[i] = f[i]
  BY <1>3, <1>4, <1>7 DEF Run
<1>9. \A i \in 0..n : after[i] = f[i]
  BY <1>1, <1>8, StepsAgree
<1> QED BY <1>1, <1>9

\* The part of a run that goes over the bytes behind the first a, up to the b-th.
LEMMA PartOfRun ==
  ASSUME NEW p \in Seq(Octet), NEW l, NEW f, Run(f, l, p, Len(p)),
         NEW a \in 0..Len(p), NEW b \in a..Len(p)
  PROVE  /\ SubSeq(p, a + 1, b) \in Seq(Octet) /\ Len(SubSeq(p, a + 1, b)) = b - a
         /\ f[a] \in Word
         /\ Run([i \in 0..(b - a) |-> f[a + i]], f[a], SubSeq(p, a + 1, b), b - a)
<1> DEFINE q == SubSeq(p, a + 1, b)
           g == [i \in 0..(b - a) |-> f[a + i]]
<1>1. /\ q \in Seq(Octet) /\ Len(q) = b - a
      /\ \A i \in 1..(b - a) : q[i] = p[a + i]
  BY SubSeqProperties
<1>2. f[a] \in Word /\ b - a \in Nat
  BY DEF Run
<1> HIDE DEF q
<1>3. Run(g, f[a], q, b - a)
  <2>1. g \in [0..(b - a) -> Word] /\ g[0] = f[a]
    <3>1. \A i \in 0..(b - a) : a + i \in 0..Len(p)
      OBVIOUS
    <3>2. \A i \in 0..(b - a) : f[a + i] \in Word
      BY <3>1 DEF Run
    <3>3. 0 \in 0..(b - a) /\ a + 0 = a
      BY <1>2
    <3> QED BY <3>2, <3>3
  <2>2. ASSUME NEW i \in 1..(b - a) PROVE g[i] = Divided[Xor(g[i - 1], q[i])]
    <3>1. a + i \in 1..Len(p) /\ a + (i - 1) = (a + i) - 1 /\ i - 1 \in 0..(b - a) /\ i \in 0..(b - a)
      OBVIOUS
    <3>2. f[a + i] = Divided[Xor(f[(a + i) - 1], p[a + i])]
      BY <3>1 DEF Run
    <3>3. g[i] = f[a + i] /\ g[i - 1] = f[(a + i) - 1] /\ q[i] = p[a + i]
      BY <1>1, <3>1
    <3> QED BY <3>2, <3>3
  <2> HIDE DEF g
  <2> QED BY <2>1, <2>2 DEF Run
<1> HIDE DEF g
<1> QED BY <1>1, <1>2, <1>3 DEF q, g

LEMMA BytesOfPart ==
  ASSUME NEW p \in Seq(Octet), NEW l, NEW f, Run(f, l, p, Len(p)),
         NEW a \in 0..Len(p), NEW b \in a..Len(p)
  PROVE  Bytes(f[a], SubSeq(p, a + 1, b)) = f[b]
<1> DEFINE q == SubSeq(p, a + 1, b)
           g == [i \in 0..(b - a) |-> f[a + i]]
<1>1. q \in Seq(Octet) /\ Len(q) = b - a /\ f[a] \in Word /\ Run(g, f[a], q, b - a)
  BY PartOfRun
<1>2. g[b - a] = f[b]
  OBVIOUS
<1> HIDE DEF g, q
<1>3. Bytes(f[a], q) = g[b - a]
  BY <1>1, BytesValue
<1> QED BY <1>2, <1>3 DEF q

-----------------------------------------------------------------------------
(* Four bytes at once.                                                     *)

\* The division by the polynomial of a word and of a swath.
By32  == Twice(Twice(Divided))
By128 == Twice(Twice(By32))

LEMMA By32Linear ==
  /\ Linear(By32) /\ Linear(By128)
  /\ \A w \in Word : By32[w] = Divided[Divided[Divided[Divided[w]]]]
  /\ \A w \in Word : By128[w] = By32[By32[By32[By32[w]]]]
<1>1. ASSUME NEW T, Linear(T)
      PROVE  /\ Linear(Twice(Twice(T)))
             /\ \A w \in Word : Twice(Twice(T))[w] = T[T[T[T[w]]]]
  <2>1. Linear(Twice(T)) /\ Linear(Twice(Twice(T)))
    BY <1>1, TwiceLinear
  <2>2. \A w \in Word : T[w] \in Word
    BY <1>1 DEF Linear
  <2>3. \A w \in Word : Twice(Twice(T))[w] = Twice(T)[Twice(T)[w]]
    BY DEF Twice
  <2>4. \A w \in Word : Twice(T)[w] = T[T[w]]
    BY DEF Twice
  <2> QED BY <2>1, <2>2, <2>3, <2>4
<1>2. Linear(By32) /\ \A w \in Word : By32[w] = Divided[Divided[Divided[Divided[w]]]]
  BY <1>1, DividedLinear DEF By32
<1>3. Linear(By128) /\ \A w \in Word : By128[w] = By32[By32[By32[By32[w]]]]
  BY <1>1, <1>2 DEF By128
<1> QED BY <1>2, <1>3

LEMMA LinearXor ==
  ASSUME NEW T, Linear(T), NEW v \in Word, NEW w \in Word
  PROVE  T[v] \in Word /\ T[Xor(v, w)] = Xor(T[v], T[w])
BY DEF Linear

LEMMA OctetLeft ==
  ASSUME NEW b \in Octet, NEW n \in Nat
  PROVE  /\ Left(b, n) \in Word
         /\ \A i \in Left(b, n) : n <= i /\ i <= n + 7
         /\ Left(b, 0) = b
         /\ n \in {8, 16, 24} => Divided[Left(b, n)] = Left(b, n - 8)
<1>1. b \in Word /\ \A i \in b : i \in 0..7
  BY OctetIsWord DEF Octet
<1>2. Left(b, n) \in Word
  BY <1>1, ShiftType
<1>3. \A i : i \in Left(b, n) <=> i \in 0..31 /\ i - n \in b
  BY <1>1, LeftIn DEF Bit
<1>4. \A i \in Left(b, n) : n <= i /\ i <= n + 7
  BY <1>1, <1>3
<1>5. Left(b, 0) = b
  <2>1. \A i \in 0..31 : i \in Left(b, 0) <=> i \in b
    BY <1>1, LeftIn DEF Bit
  <2>2. Left(b, 0) \subseteq 0..31 /\ b \subseteq 0..31
    BY <1>1 DEF Left, Bit
  <2> QED BY <2>1, <2>2
<1>6. ASSUME n \in {8, 16, 24} PROVE Divided[Left(b, n)] = Left(b, n - 8)
  <2>1. Divided[Left(b, n)] = Right(Left(b, n), 8)
    BY <1>2, <1>4, <1>6, DividedLinear DEF Shifts, Word, Bit
  <2>2. \A i \in 0..31 : i \in Right(Left(b, n), 8) <=> i + 8 \in Left(b, n)
    BY <1>2, RightIn DEF Bit
  <2>3. \A i \in 0..31 : i + 8 \in Left(b, n) <=> i - (n - 8) \in b
    BY <1>1, <1>3, <1>6
  <2>4. \A i \in 0..31 : i \in Left(b, n - 8) <=> i - (n - 8) \in b
    BY <1>1, <1>6, LeftIn DEF Bit
  <2>5. Right(Left(b, n), 8) \subseteq 0..31 /\ Left(b, n - 8) \subseteq 0..31
    <3>1. n - 8 \in Nat
      BY <1>6
    <3>2. Right(Left(b, n), 8) \in Word /\ Left(b, n - 8) \in Word
      BY <1>1, <1>2, <3>1, ShiftType
    <3> QED BY <3>2 DEF Word, Bit
  <2> QED BY <2>1, <2>2, <2>3, <2>4, <2>5
<1> QED BY <1>2, <1>4, <1>5, <1>6

WordOf(b1, b2, b3, b4) == Xor(b1, Xor(Left(b2, 8), Xor(Left(b3, 16), Left(b4, 24))))

LEMMA ReadValue ==
  ASSUME NEW p, NEW i \in Nat, \A k \in 1..4 : p[4 * i + k] \in Octet
  PROVE  ReadUint32LE(p, i) =
           WordOf(p[4 * i + 1], p[4 * i + 2], p[4 * i + 3], p[4 * i + 4])
<1> DEFINE b1 == p[4 * i + 1]
           b2 == p[4 * i + 2]
           b3 == p[4 * i + 3]
           b4 == p[4 * i + 4]
<1>1. b1 \in Octet /\ b2 \in Octet /\ b3 \in Octet /\ b4 \in Octet
  OBVIOUS
<1>2. \A x : x \in ReadUint32LE(p, i) <=>
        x \in Left(b1, 0) \/ x \in Left(b2, 8) \/ x \in Left(b3, 16) \/ x \in Left(b4, 24)
  <2>1. \A x : x \in ReadUint32LE(p, i) <=>
          \E k \in 1..4 : x \in Left(p[4 * i + k], 8 * (k - 1))
    BY DEF ReadUint32LE
  <2>2. 1..4 = {1, 2, 3, 4} /\ 8 * (1 - 1) = 0 /\ 8 * (2 - 1) = 8 /\ 8 * (3 - 1) = 16 /\ 8 * (4 - 1) = 24
    OBVIOUS
  <2> QED BY <2>1, <2>2
<1> HIDE DEF b1, b2, b3, b4
<1>3. /\ Left(b1, 0) = b1 /\ Left(b1, 0) \in Word
      /\ \A x \in Left(b1, 0) : 0 <= x /\ x <= 7
      /\ \A x \in Left(b2, 8) : 8 <= x /\ x <= 15
      /\ \A x \in Left(b3, 16) : 16 <= x /\ x <= 23
      /\ \A x \in Left(b4, 24) : 24 <= x /\ x <= 31
      /\ Left(b2, 8) \in Word /\ Left(b3, 16) \in Word /\ Left(b4, 24) \in Word
  BY <1>1, OctetLeft
<1>4. ASSUME NEW x
      PROVE  /\ ~(x \in Left(b1, 0) /\ x \in Left(b2, 8))
             /\ ~(x \in Left(b1, 0) /\ x \in Left(b3, 16))
             /\ ~(x \in Left(b1, 0) /\ x \in Left(b4, 24))
             /\ ~(x \in Left(b2, 8) /\ x \in Left(b3, 16))
             /\ ~(x \in Left(b2, 8) /\ x \in Left(b4, 24))
             /\ ~(x \in Left(b3, 16) /\ x \in Left(b4, 24))
  BY <1>3 DEF Word, Bit
<1>5. \A x : x \in WordOf(b1, b2, b3, b4) <=>
        ~(x \in Left(b1, 0) <=> ~(x \in Left(b2, 8) <=> ~(x \in Left(b3, 16) <=> x \in Left(b4, 24))))
  BY <1>3, XorIn DEF WordOf
<1>6. \A x : x \in WordOf(b1, b2, b3, b4) <=> x \in ReadUint32LE(p, i)
  BY <1>2, <1>4, <1>5
<1> QED BY <1>6 DEF b1, b2, b3, b4

LEMMA WordOfType ==
  ASSUME NEW b1 \in Octet, NEW b2 \in Octet, NEW b3 \in Octet, NEW b4 \in Octet
  PROVE  WordOf(b1, b2, b3, b4) \in Word
BY OctetLeft, OctetIsWord, XorType DEF WordOf

\* A word takes the division as far on as its four bytes.
LEMMA WordStep ==
  ASSUME NEW l \in Word, NEW b1 \in Octet, NEW b2 \in Octet, NEW b3 \in Octet, NEW b4 \in Octet
  PROVE  By32[Xor(l, WordOf(b1, b2, b3, b4))] =
           Divided[Xor(Divided[Xor(Divided[Xor(Divided[Xor(l, b1)], b2)], b3)], b4)]
<1>1. b1 \in Word /\ b2 \in Word /\ b3 \in Word /\ b4 \in Word
  BY OctetIsWord
<1>2. \A b \in Octet :
        /\ Left(b, 8) \in Word /\ Left(b, 16) \in Word /\ Left(b, 24) \in Word
        /\ Divided[Left(b, 8)] = b
        /\ Divided[Left(b, 16)] = Left(b, 8)
        /\ Divided[Left(b, 24)] = Left(b, 16)
  BY OctetLeft
<1>3. ASSUME NEW a \in Word, NEW b \in Word, NEW r \in Word
      PROVE  /\ Divided[Xor(a, b)] \in Word /\ Divided[r] \in Word
             /\ Divided[Xor(a, Xor(b, r))] = Xor(Divided[Xor(a, b)], Divided[r])
  <2>1. Xor(a, Xor(b, r)) = Xor(Xor(a, b), r) /\ Xor(a, b) \in Word
    BY XorGroup, XorType
  <2> QED BY <2>1, DividedLinear, LinearXor
<1> DEFINE r3 == Left(b4, 8)
           r2 == Xor(Left(b3, 8), Left(b4, 16))
           r1 == Xor(Left(b2, 8), Xor(Left(b3, 16), Left(b4, 24)))
           f1 == Divided[Xor(l, b1)]
           f2 == Divided[Xor(f1, b2)]
           f3 == Divided[Xor(f2, b3)]
<1>4. r1 \in Word /\ r2 \in Word /\ r3 \in Word
  BY <1>2, XorType
<1>5. Divided[r3] = b4
  BY <1>2
<1>6. Divided[r2] = Xor(b3, r3)
  BY <1>2, DividedLinear, LinearXor
<1>7. Divided[r1] = Xor(b2, r2)
  <2>1. Xor(Left(b3, 16), Left(b4, 24)) \in Word
    BY <1>2, XorType
  <2>2. Divided[Xor(Left(b3, 16), Left(b4, 24))] = r2
    BY <1>2, DividedLinear, LinearXor
  <2> HIDE DEF r2
  <2> QED BY <1>2, <2>1, <2>2, DividedLinear, LinearXor
<1>8. WordOf(b1, b2, b3, b4) = Xor(b1, r1)
  BY DEF WordOf
<1> HIDE DEF r1, r2, r3
<1>9. f1 \in Word /\ f2 \in Word /\ f3 \in Word
  BY <1>1, <1>3, <1>4
<1>10. Divided[Xor(l, Xor(b1, r1))] = Xor(f1, Xor(b2, r2))
  BY <1>1, <1>3, <1>4, <1>7
<1> HIDE DEF f1
<1>11. Divided[Xor(f1, Xor(b2, r2))] = Xor(f2, Xor(b3, r3))
  BY <1>1, <1>3, <1>4, <1>6, <1>9
<1> HIDE DEF f2
<1>12. Divided[Xor(f2, Xor(b3, r3))] = Xor(f3, b4)
  BY <1>1, <1>3, <1>4, <1>5, <1>9
<1>13. Xor(l, Xor(b1, r1)) \in Word
  BY <1>1, <1>4, XorType
<1>14. By32[Xor(l, Xor(b1, r1))] = Divided[Xor(f3, b4)]
  <2> HIDE DEF f3
  <2> QED BY <1>10, <1>11, <1>12, <1>13, By32Linear
<1> QED BY <1>8, <1>14 DEF f1, f2, f3

-----------------------------------------------------------------------------
(* Strides.                                                                *)

\* A word is made of its bytes.
LEMMA OctetsOfWord ==
  ASSUME NEW w \in Word
  PROVE  WordOf(OctetAt(w, 0), OctetAt(w, 8), OctetAt(w, 16), OctetAt(w, 24)) = w
<1> DEFINE b1 == OctetAt(w, 0)
           b2 == OctetAt(w, 8)
           b3 == OctetAt(w, 16)
           b4 == OctetAt(w, 24)
<1>1. b1 \in Octet /\ b2 \in Octet /\ b3 \in Octet /\ b4 \in Octet
  BY OctetAtIn
<1>2. b1 \in Word /\ b2 \in Word /\ b3 \in Word /\ b4 \in Word
  BY <1>1, OctetIsWord
<1>3. WordOf(b1, b2, b3, b4) \in Word
  BY <1>1, WordOfType
<1>4. ASSUME NEW i \in Bit
      PROVE  /\ i \in b1 <=> i \in w /\ i <= 7
             /\ i \in Left(b2, 8) <=> i \in w /\ 8 <= i /\ i <= 15
             /\ i \in Left(b3, 16) <=> i \in w /\ 16 <= i /\ i <= 23
             /\ i \in Left(b4, 24) <=> i \in w /\ 24 <= i /\ i <= 31
  <2>1. ASSUME NEW n \in {0, 8, 16, 24}
        PROVE  i \in Left(OctetAt(w, n), n) <=> i \in w /\ n <= i /\ i <= n + 7
    <3>1. OctetAt(w, n) \in Word
      BY OctetAtIn, OctetIsWord
    <3>2. i \in Left(OctetAt(w, n), n) <=> i - n \in OctetAt(w, n)
      BY <3>1, LeftIn
    <3>3. i - n \in OctetAt(w, n) <=> i - n \in 0..7 /\ (i - n) + n \in w
      BY OctetAtIn
    <3>4. (i - n) + n = i /\ (i - n \in 0..7 <=> n <= i /\ i <= n + 7)
      BY DEF Bit
    <3> QED BY <3>2, <3>3, <3>4
  <2>2. Left(b1, 0) = b1
    BY <1>1, OctetLeft
  <2>3. i \in Left(b1, 0) <=> i \in w /\ 0 <= i /\ i <= 7
    BY <2>1
  <2>4. 0 <= i
    BY DEF Bit
  <2> QED BY <2>1, <2>2, <2>3, <2>4
<1>5. \A x : x \in WordOf(b1, b2, b3, b4) <=>
        ~(x \in b1 <=> ~(x \in Left(b2, 8) <=> ~(x \in Left(b3, 16) <=> x \in Left(b4, 24))))
  BY XorIn DEF WordOf
<1> HIDE DEF b1, b2, b3, b4
<1>6. \A i \in Bit : i \in WordOf(b1, b2, b3, b4) <=> i \in w
  <2> TAKE i \in Bit
  <2>1. i \in Int /\ 0 <= i /\ i <= 31
    BY DEF Bit
  <2> QED BY <1>4, <1>5, <2>1
<1>7. WordOf(b1, b2, b3, b4) = w
  BY <1>3, <1>6 DEF Word
<1> QED BY <1>7 DEF b1, b2, b3, b4

LEMMA StrideValue ==
  ASSUME NEW c \in Octet, NEW n \in {0, 8, 16, 24}
  PROVE  Stride(n)[c] = By128[Left(c, n)]
<1> DEFINE p == [i \in 1..16 |-> {}]
           l == Left(c, n)
<1>1. l \in Word
  BY OctetLeft
<1>2. p \in Seq(Octet) /\ Len(p) = 16 /\ \A i \in 1..16 : p[i] = {} /\ p[i] \in Octet
  BY DEF Octet
<1>3. Stride(n)[c] = Bytes(l, p)
  BY DEF Stride
<1> HIDE DEF p, l
<1>4. PICK f : Run(f, l, p, 16)
  BY <1>1, <1>2, RunExists
<1>5. Bytes(l, p) = f[16]
  <2>1. p \in Seq(Octet) /\ Len(p) = 16 /\ Run(f, l, p, Len(p))
    BY <1>2, <1>4
  <2> QED BY <1>1, <2>1, BytesValue
<1>6. f[0] = l /\ \A i \in 0..16 : f[i] \in Word
  BY <1>4 DEF Run
<1>7. \A i \in 1..16 : f[i] = Divided[f[i - 1]]
  <2> TAKE i \in 1..16
  <2>1. f[i] = Divided[Xor(f[i - 1], p[i])]
    BY <1>4 DEF Run
  <2>2. p[i] = {} /\ Xor(f[i - 1], {}) = f[i - 1]
    BY <1>2, XorGroup
  <2> QED BY <2>1, <2>2
<1>8. \A i \in {0, 4, 8, 12} : f[i + 4] = By32[f[i]]
  <2> TAKE i \in {0, 4, 8, 12}
  <2>1. /\ f[i + 1] = Divided[f[i]] /\ f[i + 2] = Divided[f[i + 1]]
        /\ f[i + 3] = Divided[f[i + 2]] /\ f[i + 4] = Divided[f[i + 3]]
    BY <1>7
  <2>2. By32[f[i]] = Divided[Divided[Divided[Divided[f[i]]]]]
    BY <1>6, By32Linear
  <2> QED BY <2>1, <2>2
<1>9. f[16] = By128[l]
  <2>1. f[4] = By32[l] /\ f[8] = By32[f[4]] /\ f[12] = By32[f[8]] /\ f[16] = By32[f[12]]
    BY <1>6, <1>8
  <2>2. By128[l] = By32[By32[By32[By32[l]]]]
    BY <1>1, By32Linear
  <2> QED BY <2>1, <2>2
<1> QED BY <1>3, <1>5, <1>9 DEF l

LEMMA Step4Value ==
  ASSUME NEW crc \in Word, NEW word \in Word
  PROVE  STEP4(crc, word) = Xor(word, By128[crc]) /\ STEP4(crc, word) \in Word
<1> DEFINE b1 == OctetAt(crc, 0)
           b2 == OctetAt(crc, 8)
           b3 == OctetAt(crc, 16)
           b4 == OctetAt(crc, 24)
           c2 == Left(b2, 8)
           c3 == Left(b3, 16)
           c4 == Left(b4, 24)
<1>1. b1 \in Octet /\ b2 \in Octet /\ b3 \in Octet /\ b4 \in Octet
  BY OctetAtIn
<1>2. crc = Xor(b1, Xor(c2, Xor(c3, c4)))
  BY OctetsOfWord DEF WordOf
<1>3. /\ kStrideExtensionTable3[b1] = By128[b1]
      /\ kStrideExtensionTable2[b2] = By128[c2]
      /\ kStrideExtensionTable1[b3] = By128[c3]
      /\ kStrideExtensionTable0[b4] = By128[c4]
  <2>1. Left(b1, 0) = b1
    BY <1>1, OctetLeft
  <2> HIDE DEF b1, b2, b3, b4
  <2> QED BY <1>1, <2>1, StrideValue DEF kStrideExtensionTable0, kStrideExtensionTable1,
              kStrideExtensionTable2, kStrideExtensionTable3
<1>4. STEP4(crc, word) = Xor(word, Xor(Xor(By128[b1], By128[c2]), Xor(By128[c3], By128[c4])))
  BY <1>3 DEF STEP4
<1>5. b1 \in Word /\ c2 \in Word /\ c3 \in Word /\ c4 \in Word
  BY <1>1, OctetIsWord, OctetLeft
<1> HIDE DEF b1, c2, c3, c4
<1>6. By128[Xor(b1, Xor(c2, Xor(c3, c4)))] =
        Xor(By128[b1], Xor(By128[c2], Xor(By128[c3], By128[c4])))
  <2>1. Xor(c3, c4) \in Word /\ Xor(c2, Xor(c3, c4)) \in Word
    BY <1>5, XorType
  <2> QED BY <1>5, <2>1, By32Linear, LinearXor
<1>7. STEP4(crc, word) = Xor(word, By128[crc])
  BY <1>2, <1>4, <1>6, XorGroup
<1>8. By128[crc] \in Word
  BY By32Linear, LinearXor
<1> QED BY <1>7, <1>8, XorType

LEMMA Step4WValue ==
  ASSUME NEW l \in Word, NEW w \in Word
  PROVE  STEP4W(l, w) = By32[Xor(w, l)]
<1> DEFINE next(v) == Xor(Right(v, 8), kByteExtensionTable[OctetAt(v, 0)])
           IsAfter(g) == g = [n \in 0..4 |-> IF n = 0 THEN Xor(w, l) ELSE next(g[n - 1])]
           after == CHOOSE g : IsAfter(g)
           x0 == Xor(w, l)
           x1 == Divided[x0]
           x2 == Divided[x1]
           x3 == Divided[x2]
           x4 == Divided[x3]
<1>1. STEP4W(l, w) = after[4]
  BY DEF STEP4W
<1>2. \A v \in Word : next(v) = Divided[v]
  BY TableStep, XorGroup
<1>3. x0 \in Word /\ x1 \in Word /\ x2 \in Word /\ x3 \in Word /\ x4 = By32[x0]
  <2>1. x0 \in Word
    BY XorType
  <2>2. \A v \in Word : Divided[v] \in Word
    BY DividedLinear DEF Linear
  <2> HIDE DEF x0
  <2> QED BY <2>1, <2>2, By32Linear
<1> HIDE DEF next
<1>4. IsAfter([n \in 0..4 |-> CASE n = 0 -> x0 [] n = 1 -> x1 [] n = 2 -> x2 [] n = 3 -> x3 [] n = 4 -> x4])
  <2> DEFINE f == [n \in 0..4 |-> CASE n = 0 -> x0 [] n = 1 -> x1 [] n = 2 -> x2 [] n = 3 -> x3 [] n = 4 -> x4]
  <2>1. f[0] = x0 /\ f[1] = x1 /\ f[2] = x2 /\ f[3] = x3 /\ f[4] = x4
    <3> HIDE DEF x0, x1, x2, x3, x4
    <3> QED OBVIOUS
  <2>2. f = [n \in 0..4 |-> f[n]]
    <3> HIDE DEF x0, x1, x2, x3, x4
    <3> QED OBVIOUS
  <2> HIDE DEF f
  <2>3. x1 = next(x0) /\ x2 = next(x1) /\ x3 = next(x2) /\ x4 = next(x3)
    <3> HIDE DEF x0
    <3> QED BY <1>2, <1>3
  <2>4. ASSUME NEW n \in 0..4
        PROVE  f[n] = IF n = 0 THEN Xor(w, l) ELSE next(f[n - 1])
    <3>1. x0 = Xor(w, l)
      OBVIOUS
    <3> HIDE DEF x0, x1, x2, x3, x4
    <3>2. n \in {0, 1, 2, 3, 4}
      OBVIOUS
    <3> QED BY <2>1, <2>3, <3>1, <3>2
  <2>5. IsAfter(f)
    <3> HIDE DEF x0, x1, x2, x3, x4
    <3> QED BY <2>2, <2>4
  <2> QED BY <2>5 DEF f
<1>5. IsAfter(after)
  <2> HIDE DEF IsAfter
  <2> QED BY <1>4
<1>6. after[0] = x0 /\ \A n \in 1..4 : after[n] = next(after[n - 1])
  <2> HIDE DEF after
  <2> QED BY <1>5
<1> HIDE DEF after, x0
<1>7. after[1] = x1 /\ after[2] = x2 /\ after[3] = x3 /\ after[4] = x4
  BY <1>2, <1>3, <1>6
<1> QED BY <1>1, <1>3, <1>7 DEF x0

\* Four strides, and what they are when they are put together.
IsStrides(c) == c[1] \in Word /\ c[2] \in Word /\ c[3] \in Word /\ c[4] \in Word

Together(c) == STEP4W(STEP4W(STEP4W(STEP4W({}, c[1]), c[2]), c[3]), c[4])

Joined(a, b, c, d) == By32[Xor(d, By32[Xor(c, By32[Xor(b, By32[a])])])]

LEMMA JoinedType ==
  ASSUME NEW a \in Word, NEW b \in Word, NEW c \in Word, NEW d \in Word
  PROVE  /\ By32[a] \in Word /\ By32[Xor(b, By32[a])] \in Word
         /\ By32[Xor(c, By32[Xor(b, By32[a])])] \in Word
         /\ Xor(d, By32[Xor(c, By32[Xor(b, By32[a])])]) \in Word
         /\ Joined(a, b, c, d) \in Word
BY By32Linear, LinearXor, XorType DEF Joined

LEMMA TogetherIsJoined ==
  ASSUME NEW c, IsStrides(c)
  PROVE  /\ Together(c) = Joined(c[1], c[2], c[3], c[4])
         /\ c[1] \in Word /\ c[2] \in Word /\ c[3] \in Word /\ c[4] \in Word
         /\ Together(c) \in Word
<1>1. c[1] \in Word /\ c[2] \in Word /\ c[3] \in Word /\ c[4] \in Word
  BY DEF IsStrides
<1>2. {} \in Word
  BY DEF Word
<1> DEFINE w1 == c[1]
           w2 == c[2]
           w3 == c[3]
           w4 == c[4]
<1> SUFFICES Together(c) = Joined(w1, w2, w3, w4)
  <2>1. Joined(w1, w2, w3, w4) \in Word
    BY <1>1, JoinedType
  <2> QED BY <1>1, <2>1
<1> HIDE DEF w1, w2, w3, w4
<1>3. w1 \in Word /\ w2 \in Word /\ w3 \in Word /\ w4 \in Word
  BY <1>1 DEF w1, w2, w3, w4
<1>4. STEP4W({}, w1) = By32[w1]
  BY <1>2, <1>3, Step4WValue, XorGroup
<1>5. STEP4W(By32[w1], w2) = By32[Xor(w2, By32[w1])]
  BY <1>3, JoinedType, Step4WValue
<1>6. STEP4W(By32[Xor(w2, By32[w1])], w3) = By32[Xor(w3, By32[Xor(w2, By32[w1])])]
  BY <1>3, JoinedType, Step4WValue
<1>7. STEP4W(By32[Xor(w3, By32[Xor(w2, By32[w1])])], w4) = Joined(w1, w2, w3, w4)
  BY <1>3, JoinedType, Step4WValue DEF Joined
<1> QED BY <1>4, <1>5, <1>6, <1>7 DEF Together, w1, w2, w3, w4

\* Linearity: the first stride, moved on by a swath, may go behind the others.
LEMMA StrideGoesBehind ==
  ASSUME NEW a \in Word, NEW b \in Word, NEW c \in Word, NEW d \in Word, NEW w \in Word
  PROVE  Joined(b, c, d, STEP4(a, w)) = By32[Xor(Joined(a, b, c, d), w)]
<1> DEFINE a1 == By32[a]
           a2 == By32[a1]
           a3 == By32[a2]
           a4 == By32[a3]
           b1 == By32[b]
           b2 == By32[b1]
           b3 == By32[b2]
           c1 == By32[c]
           c2 == By32[c1]
           d1 == By32[d]
<1>1. \A v \in Word : By32[v] \in Word
  BY By32Linear, LinearXor
<1>2. \A u, v \in Word : By32[Xor(u, v)] = Xor(By32[u], By32[v]) /\ Xor(u, v) \in Word
  BY By32Linear, LinearXor, XorType
<1>3. /\ a1 \in Word /\ a2 \in Word /\ a3 \in Word /\ a4 \in Word
      /\ b1 \in Word /\ b2 \in Word /\ b3 \in Word
      /\ c1 \in Word /\ c2 \in Word /\ d1 \in Word
  BY <1>1
<1>4. By128[a] = a4
  BY By32Linear
<1>5. Joined(a, b, c, d) = Xor(d1, Xor(c2, Xor(b3, a4)))
  <2>1. By32[Xor(b, a1)] = Xor(b1, a2)
    BY <1>2, <1>3
  <2>2. By32[Xor(c, Xor(b1, a2))] = Xor(c1, Xor(b2, a3))
    <3> HIDE DEF a1, b1
    <3> QED BY <1>2, <1>3
  <2>3. By32[Xor(d, Xor(c1, Xor(b2, a3)))] = Xor(d1, Xor(c2, Xor(b3, a4)))
    <3> HIDE DEF a1, a2, a3, b1, b2, c1
    <3>1. Xor(b2, a3) \in Word /\ Xor(c1, Xor(b2, a3)) \in Word
      BY <1>2, <1>3
    <3>2. By32[Xor(b2, a3)] = Xor(b3, a4)
      BY <1>2, <1>3
    <3> QED BY <1>2, <1>3, <3>1, <3>2
  <2> HIDE DEF a2, a3, a4, b1, b2, b3, c1, c2, d1
  <2> QED BY <2>1, <2>2, <2>3 DEF Joined
<1>6. Joined(b, c, d, STEP4(a, w)) = By32[Xor(STEP4(a, w), Xor(d1, Xor(c2, b3)))]
  <2>1. By32[Xor(c, b1)] = Xor(c1, b2)
    BY <1>2, <1>3
  <2>2. By32[Xor(d, Xor(c1, b2))] = Xor(d1, Xor(c2, b3))
    <3> HIDE DEF b1, b2, c1
    <3> QED BY <1>2, <1>3
  <2> HIDE DEF b2, b3, c1, c2, d1
  <2> QED BY <2>1, <2>2 DEF Joined
<1>7. STEP4(a, w) = Xor(w, a4)
  BY <1>4, Step4Value
<1> HIDE DEF a4, b3, c2, d1
<1>8. Xor(Xor(w, a4), Xor(d1, Xor(c2, b3))) = Xor(Xor(d1, Xor(c2, Xor(b3, a4))), w)
  BY DEF Xor
<1> QED BY <1>5, <1>6, <1>7, <1>8

LEMMA NextWordStep ==
  ASSUME NEW c, IsStrides(c), NEW w \in Word
  PROVE  /\ IsStrides(NextWord(c, w))
         /\ Together(NextWord(c, w)) = By32[Xor(Together(c), w)]
<1> DEFINE x == STEP4(c[1], w)
           d == NextWord(c, w)
<1>1. x \in Word
  BY TogetherIsJoined, Step4Value
<1>2. d[1] = c[2] /\ d[2] = c[3] /\ d[3] = c[4] /\ d[4] = x
  <2> HIDE DEF x
  <2> QED BY DEF NextWord, x
<1> HIDE DEF d
<1>3. IsStrides(d)
  BY <1>1, <1>2 DEF IsStrides
<1>4. Together(d) = Joined(c[2], c[3], c[4], x)
  BY <1>2, <1>3, TogetherIsJoined
<1>5. Together(d) = By32[Xor(Together(c), w)]
  BY <1>4, TogetherIsJoined, StrideGoesBehind
<1> QED BY <1>3, <1>5 DEF d


\* A swath is four words.
LEMMA NextSwathStep ==
  ASSUME NEW c, IsStrides(c), NEW p, NEW n \in Nat,
         \A k \in 0..3 : ReadUint32LE(p, 4 * n + k) \in Word
  PROVE  /\ IsStrides(NextSwath(c, p, n))
         /\ Together(NextSwath(c, p, n)) =
              By32[Xor(By32[Xor(By32[Xor(By32[Xor(Together(c),
                ReadUint32LE(p, 4 * n))], ReadUint32LE(p, 4 * n + 1))],
                ReadUint32LE(p, 4 * n + 2))], ReadUint32LE(p, 4 * n + 3))]
<1> DEFINE r0 == ReadUint32LE(p, 4 * n)
           r1 == ReadUint32LE(p, 4 * n + 1)
           r2 == ReadUint32LE(p, 4 * n + 2)
           r3 == ReadUint32LE(p, 4 * n + 3)
           d1 == NextWord(c, r0)
           d2 == NextWord(d1, r1)
           d3 == NextWord(d2, r2)
           d4 == NextWord(d3, r3)
<1>1. r0 \in Word /\ r1 \in Word /\ r2 \in Word /\ r3 \in Word
  <2>1. 4 * n + 0 = 4 * n
    OBVIOUS
  <2> QED BY <2>1
<1>2. NextSwath(c, p, n) = <<STEP4(c[1], r0), STEP4(c[2], r1), STEP4(c[3], r2), STEP4(c[4], r3)>>
  <2>1. 4 * n + 1 - 1 = 4 * n /\ 4 * n + 2 - 1 = 4 * n + 1 /\ 4 * n + 3 - 1 = 4 * n + 2
        /\ 4 * n + 4 - 1 = 4 * n + 3
    OBVIOUS
  <2> QED BY <2>1 DEF NextSwath
<1> HIDE DEF r0, r1, r2, r3
<1>3. NextSwath(c, p, n) = d4
  BY <1>2 DEF NextWord
<1>4. IsStrides(d1) /\ Together(d1) = By32[Xor(Together(c), r0)]
  BY <1>1, NextWordStep
<1> HIDE DEF d1
<1>5. IsStrides(d2) /\ Together(d2) = By32[Xor(Together(d1), r1)]
  BY <1>1, <1>4, NextWordStep
<1> HIDE DEF d2
<1>6. IsStrides(d3) /\ Together(d3) = By32[Xor(Together(d2), r2)]
  BY <1>1, <1>5, NextWordStep
<1> HIDE DEF d3
<1>7. IsStrides(d4) /\ Together(d4) = By32[Xor(Together(d3), r3)]
  BY <1>1, <1>6, NextWordStep
<1> HIDE DEF d4
<1> QED BY <1>3, <1>4, <1>5, <1>6, <1>7 DEF r0, r1, r2, r3

\* What a run has reached after i words.
LEMMA RunByWord ==
  ASSUME NEW n \in Nat, NEW p, \A i \in 1..n : p[i] \in Octet,
         NEW l, NEW f, Run(f, l, p, n), NEW i \in Nat, 4 * i + 4 <= n
  PROVE  /\ ReadUint32LE(p, i) \in Word /\ f[4 * i] \in Word
         /\ f[4 * i + 4] = By32[Xor(f[4 * i], ReadUint32LE(p, i))]
<1> DEFINE b1 == p[4 * i + 1]
           b2 == p[4 * i + 2]
           b3 == p[4 * i + 3]
           b4 == p[4 * i + 4]
<1>1. \A k \in 1..4 : 4 * i + k \in 1..n
  OBVIOUS
<1>2. \A k \in 1..4 : p[4 * i + k] \in Octet
  BY <1>1
<1>3. b1 \in Octet /\ b2 \in Octet /\ b3 \in Octet /\ b4 \in Octet
  BY <1>2
<1>4. ReadUint32LE(p, i) = WordOf(b1, b2, b3, b4)
  BY <1>2, ReadValue
<1>5. 4 * i \in 0..n
  OBVIOUS
<1>6. f[4 * i] \in Word
  BY <1>5 DEF Run
<1>7. \A k \in 1..4 : f[4 * i + k] = Divided[Xor(f[(4 * i + k) - 1], p[4 * i + k])]
  BY <1>1 DEF Run
<1>8. /\ f[4 * i + 1] = Divided[Xor(f[4 * i], b1)]
      /\ f[4 * i + 2] = Divided[Xor(f[4 * i + 1], b2)]
      /\ f[4 * i + 3] = Divided[Xor(f[4 * i + 2], b3)]
      /\ f[4 * i + 4] = Divided[Xor(f[4 * i + 3], b4)]
  <2>1. (4 * i + 1) - 1 = 4 * i /\ (4 * i + 2) - 1 = 4 * i + 1
        /\ (4 * i + 3) - 1 = 4 * i + 2 /\ (4 * i + 4) - 1 = 4 * i + 3
    OBVIOUS
  <2> QED BY <1>7, <2>1
<1> HIDE DEF b1, b2, b3, b4
<1>9. WordOf(b1, b2, b3, b4) \in Word
  BY <1>3, WordOfType
<1>10. f[4 * i + 4] = By32[Xor(f[4 * i], WordOf(b1, b2, b3, b4))]
  BY <1>3, <1>6, <1>8, WordStep
<1> QED BY <1>4, <1>6, <1>9, <1>10

FirstSwath(l, p) ==
  <<Xor(ReadUint32LE(p, 0), l), ReadUint32LE(p, 1), ReadUint32LE(p, 2), ReadUint32LE(p, 3)>>

LEMMA FirstSwathValue ==
  ASSUME NEW n \in Nat, 16 <= n, NEW p, \A i \in 1..n : p[i] \in Octet,
         NEW l \in Word, NEW f, Run(f, l, p, n)
  PROVE  IsStrides(FirstSwath(l, p)) /\ Together(FirstSwath(l, p)) = f[16]
<1> DEFINE r0 == ReadUint32LE(p, 0)
           r1 == ReadUint32LE(p, 1)
           r2 == ReadUint32LE(p, 2)
           r3 == ReadUint32LE(p, 3)
           c == FirstSwath(l, p)
<1>1. ASSUME NEW i \in 0..3
      PROVE  /\ ReadUint32LE(p, i) \in Word /\ f[4 * i] \in Word
             /\ f[4 * i + 4] = By32[Xor(f[4 * i], ReadUint32LE(p, i))]
  <2>1. i \in Nat /\ 4 * i + 4 <= n
    OBVIOUS
  <2> QED BY <2>1, RunByWord
<1>2. /\ r0 \in Word /\ r1 \in Word /\ r2 \in Word /\ r3 \in Word
      /\ f[4] = By32[Xor(f[0], r0)] /\ f[8] = By32[Xor(f[4], r1)]
      /\ f[12] = By32[Xor(f[8], r2)] /\ f[16] = By32[Xor(f[12], r3)]
  <2>1. 4 * 0 = 0 /\ 4 * 0 + 4 = 4 /\ 4 * 1 = 4 /\ 4 * 1 + 4 = 8 /\ 4 * 2 = 8 /\ 4 * 2 + 4 = 12
        /\ 4 * 3 = 12 /\ 4 * 3 + 4 = 16
    OBVIOUS
  <2>2. 0 \in 0..3 /\ 1 \in 0..3 /\ 2 \in 0..3 /\ 3 \in 0..3
    OBVIOUS
  <2> QED BY <1>1, <2>1, <2>2
<1>3. f[0] = l
  BY DEF Run
<1> HIDE DEF r0, r1, r2, r3
<1>4. c[1] = Xor(r0, l) /\ c[2] = r1 /\ c[3] = r2 /\ c[4] = r3
  BY DEF FirstSwath, r0, r1, r2, r3
<1> HIDE DEF c
<1>5. IsStrides(c)
  BY <1>2, <1>4, XorType DEF IsStrides
<1>6. Together(c) = Joined(Xor(r0, l), r1, r2, r3)
  BY <1>4, <1>5, TogetherIsJoined
<1>7. Joined(Xor(r0, l), r1, r2, r3) = f[16]
  BY <1>2, <1>3, XorGroup DEF Joined
<1> QED BY <1>5, <1>6, <1>7 DEF c


FourWords == Word \X Word \X Word \X Word

LEMMA FourWordsAreStrides ==
  /\ \A c \in FourWords : IsStrides(c)
  /\ \A c, p, n : IsStrides(NextSwath(c, p, n)) => NextSwath(c, p, n) \in FourWords
  /\ \A c, w : IsStrides(NextWord(c, w)) => NextWord(c, w) \in FourWords
  /\ \A l, p : IsStrides(FirstSwath(l, p)) => FirstSwath(l, p) \in FourWords
BY DEF FourWords, IsStrides, NextSwath, NextWord, FirstSwath

\* The two recursions of Strides.
AreSwaths(g, l, p, full) ==
  g = [n \in 1..full |-> IF n = 1 THEN FirstSwath(l, p) ELSE NextSwath(g[n - 1], p, n - 1)]

AreWords(g, first, p, a, b) ==
  g = [n \in a..b |-> IF n = a THEN first ELSE NextWord(g[n - 1], ReadUint32LE(p, n - 1))]

LEMMA SwathsExist ==
  ASSUME NEW n \in Nat, NEW p, \A i \in 1..n : p[i] \in Octet,
         NEW l \in Word, NEW f, Run(f, l, p, n),
         NEW full \in Nat \ {0}, 16 * full <= n
  PROVE  \E g : AreSwaths(g, l, p, full)
<1> DEFINE step == [i \in 2..full |-> [c \in FourWords |-> NextSwath(c, p, i - 1)]]
           first == FirstSwath(l, p)
<1>1. first \in FourWords
  <2>1. 16 <= n
    OBVIOUS
  <2> QED BY <2>1, FirstSwathValue, FourWordsAreStrides
<1>2. ASSUME NEW i \in 2..full, NEW c \in FourWords
      PROVE  NextSwath(c, p, i - 1) \in FourWords
  <2>1. i - 1 \in Nat
    OBVIOUS
  <2>2. ASSUME NEW k \in 0..3 PROVE ReadUint32LE(p, 4 * (i - 1) + k) \in Word
    <3>1. 4 * (i - 1) + k \in Nat /\ 4 * (4 * (i - 1) + k) + 4 <= n
      OBVIOUS
    <3> QED BY <3>1, RunByWord
  <2> QED BY <2>1, <2>2, NextSwathStep, FourWordsAreStrides
<1>3. step \in [(1 + 1)..full -> [FourWords -> FourWords]] /\ 1 \in Nat /\ full \in Nat /\ 1 <= full
  BY <1>2
<1>4. \A i \in 2..full : \A c \in FourWords : step[i][c] = NextSwath(c, p, i - 1)
  OBVIOUS
<1> HIDE DEF step, first
<1>5. PICK g : Steps(g, 1, full, FourWords, first, step)
  BY <1>1, <1>3, StepsExist
<1>6. /\ g \in [1..full -> FourWords] /\ g[1] = first
      /\ \A i \in 2..full : g[i] = step[i][g[i - 1]]
  BY <1>5 DEF Steps
<1>7. \A i \in 1..full : g[i] = IF i = 1 THEN first ELSE NextSwath(g[i - 1], p, i - 1)
  <2> TAKE i \in 1..full
  <2>1. CASE i = 1
    BY <1>6, <2>1
  <2>2. CASE i # 1
    <3>1. i \in 2..full /\ i - 1 \in 1..full
      BY <2>2
    <3> QED BY <1>4, <1>6, <2>2, <3>1
  <2> QED BY <2>1, <2>2
<1>8. g = [i \in 1..full |-> g[i]]
  <2>1. g \in [1..full -> FourWords]
    BY <1>6
  <2> QED BY ONLY <2>1, FunctionOfValues, Zenon
<1>9. g = [i \in 1..full |-> IF i = 1 THEN first ELSE NextSwath(g[i - 1], p, i - 1)]
  BY ONLY <1>7, <1>8
<1>10. AreSwaths(g, l, p, full)
  BY <1>9 DEF AreSwaths, first
<1> QED BY <1>10

LEMMA WordsExist ==
  ASSUME NEW n \in Nat, NEW p, \A i \in 1..n : p[i] \in Octet,
         NEW l, NEW f, Run(f, l, p, n), NEW first \in FourWords,
         NEW a \in Nat, NEW b \in Nat, a <= b, 4 * b <= n
  PROVE  \E g : AreWords(g, first, p, a, b)
<1> DEFINE step == [i \in (a + 1)..b |-> [c \in FourWords |-> NextWord(c, ReadUint32LE(p, i - 1))]]
<1>1. ASSUME NEW i \in (a + 1)..b, NEW c \in FourWords
      PROVE  NextWord(c, ReadUint32LE(p, i - 1)) \in FourWords
  <2>1. i - 1 \in Nat /\ 4 * (i - 1) + 4 <= n
    OBVIOUS
  <2>2. ReadUint32LE(p, i - 1) \in Word
    BY <2>1, RunByWord
  <2> QED BY <2>2, NextWordStep, FourWordsAreStrides
<1>2. step \in [(a + 1)..b -> [FourWords -> FourWords]]
  BY <1>1
<1>3. \A i \in (a + 1)..b : \A c \in FourWords : step[i][c] = NextWord(c, ReadUint32LE(p, i - 1))
  OBVIOUS
<1> HIDE DEF step
<1>4. PICK g : Steps(g, a, b, FourWords, first, step)
  BY <1>2, StepsExist
<1>5. /\ g \in [a..b -> FourWords] /\ g[a] = first
      /\ \A i \in (a + 1)..b : g[i] = step[i][g[i - 1]]
  BY <1>4 DEF Steps
<1>6. \A i \in a..b : g[i] = IF i = a THEN first ELSE NextWord(g[i - 1], ReadUint32LE(p, i - 1))
  <2> TAKE i \in a..b
  <2>1. CASE i = a
    BY <1>5, <2>1
  <2>2. CASE i # a
    <3>1. i \in (a + 1)..b /\ i - 1 \in a..b
      BY <2>2
    <3> QED BY <1>3, <1>5, <2>2, <3>1
  <2> QED BY <2>1, <2>2
<1>7. g = [i \in a..b |-> g[i]]
  BY <1>5, FunctionOfValues
<1>8. g = [i \in a..b |-> IF i = a THEN first ELSE NextWord(g[i - 1], ReadUint32LE(p, i - 1))]
  BY ONLY <1>6, <1>7
<1>9. AreWords(g, first, p, a, b)
  BY <1>8 DEF AreWords
<1> QED BY <1>9

\* After n swaths, and after n words, the strides put together are what the run
\* has reached.
LEMMA SwathsKeepUp ==
  ASSUME NEW n \in Nat, NEW p, \A i \in 1..n : p[i] \in Octet,
         NEW l \in Word, NEW f, Run(f, l, p, n),
         NEW full \in Nat \ {0}, 16 * full <= n, NEW g, AreSwaths(g, l, p, full)
  PROVE  IsStrides(g[full]) /\ Together(g[full]) = f[16 * full] /\ g[full] \in FourWords
<1> DEFINE Q == {i \in 1..full : IsStrides(g[i]) /\ Together(g[i]) = f[16 * i] /\ g[i] \in FourWords}
<1>1. \A i \in 1..full : g[i] = IF i = 1 THEN FirstSwath(l, p) ELSE NextSwath(g[i - 1], p, i - 1)
  BY DEF AreSwaths
<1>2. 1 \in Q
  <2>1. 16 <= n /\ 1 \in 1..full /\ 16 * 1 = 16
    OBVIOUS
  <2>2. g[1] = FirstSwath(l, p)
    BY <1>1, <2>1
  <2>3. IsStrides(FirstSwath(l, p)) /\ Together(FirstSwath(l, p)) = f[16]
    BY <2>1, FirstSwathValue
  <2> QED BY <2>1, <2>2, <2>3, FourWordsAreStrides
<1>3. ASSUME NEW i \in (1 + 1)..full, i - 1 \in Q PROVE i \in Q
  <2> DEFINE m == i - 1
             c == g[i - 1]
  <2>1. m \in Nat /\ i \in 1..full /\ i # 1 /\ 16 * m + 16 = 16 * i /\ 16 * i <= n
    OBVIOUS
  <2>2. IsStrides(c) /\ Together(c) = f[16 * m]
    BY <1>3
  <2>3. g[i] = NextSwath(c, p, m)
    BY <1>1, <2>1
  <2> HIDE DEF Q, m, c
  <2>4. ASSUME NEW k \in 0..3
        PROVE  /\ ReadUint32LE(p, 4 * m + k) \in Word
               /\ f[16 * m + 4 * k + 4] = By32[Xor(f[16 * m + 4 * k], ReadUint32LE(p, 4 * m + k))]
    <3>1. 4 * m + k \in Nat /\ 4 * (4 * m + k) + 4 <= n
          /\ 4 * (4 * m + k) = 16 * m + 4 * k
      BY <2>1
    <3>2. /\ ReadUint32LE(p, 4 * m + k) \in Word
          /\ f[4 * (4 * m + k) + 4] = By32[Xor(f[4 * (4 * m + k)], ReadUint32LE(p, 4 * m + k))]
      BY <3>1, RunByWord
    <3> QED BY <3>1, <3>2
  <2>5. /\ f[16 * m + 4] = By32[Xor(f[16 * m], ReadUint32LE(p, 4 * m))]
        /\ f[16 * m + 8] = By32[Xor(f[16 * m + 4], ReadUint32LE(p, 4 * m + 1))]
        /\ f[16 * m + 12] = By32[Xor(f[16 * m + 8], ReadUint32LE(p, 4 * m + 2))]
        /\ f[16 * m + 16] = By32[Xor(f[16 * m + 12], ReadUint32LE(p, 4 * m + 3))]
    <3>1. /\ 16 * m + 4 * 0 = 16 * m /\ 16 * m + 4 * 0 + 4 = 16 * m + 4
          /\ 16 * m + 4 * 1 = 16 * m + 4 /\ 16 * m + 4 * 1 + 4 = 16 * m + 8
          /\ 16 * m + 4 * 2 = 16 * m + 8 /\ 16 * m + 4 * 2 + 4 = 16 * m + 12
          /\ 16 * m + 4 * 3 = 16 * m + 12 /\ 16 * m + 4 * 3 + 4 = 16 * m + 16
          /\ 4 * m + 0 = 4 * m
      BY <2>1
    <3>2. 0 \in 0..3 /\ 1 \in 0..3 /\ 2 \in 0..3 /\ 3 \in 0..3
      OBVIOUS
    <3> QED BY <2>4, <3>1, <3>2
  <2>6. /\ IsStrides(NextSwath(c, p, m))
        /\ Together(NextSwath(c, p, m)) =
             By32[Xor(By32[Xor(By32[Xor(By32[Xor(Together(c),
               ReadUint32LE(p, 4 * m))], ReadUint32LE(p, 4 * m + 1))],
               ReadUint32LE(p, 4 * m + 2))], ReadUint32LE(p, 4 * m + 3))]
    BY <2>1, <2>2, <2>4, NextSwathStep
  <2>7. Together(NextSwath(c, p, m)) = f[16 * i]
    BY <2>1, <2>2, <2>5, <2>6
  <2>8. NextSwath(c, p, m) \in FourWords
    BY <2>6, FourWordsAreStrides
  <2> QED BY <2>1, <2>3, <2>6, <2>7, <2>8 DEF Q
<1>4. full \in Q
  <2>1. full \in 1..full /\ 1 \in Nat /\ full \in Nat
    OBVIOUS
  <2> HIDE DEF Q
  <2>2. \A i \in 1..full : i \in Q
    BY ONLY <1>2, <1>3, <2>1, Upward
  <2> QED BY <2>1, <2>2
<1> QED BY <1>4

LEMMA WordsKeepUp ==
  ASSUME NEW n \in Nat, NEW p, \A i \in 1..n : p[i] \in Octet,
         NEW l, NEW f, Run(f, l, p, n),
         NEW a \in Nat, NEW b \in Nat, a <= b, 4 * b <= n,
         NEW first, IsStrides(first), Together(first) = f[4 * a],
         NEW g, AreWords(g, first, p, a, b)
  PROVE  IsStrides(g[b]) /\ Together(g[b]) = f[4 * b]
<1> DEFINE Q == {i \in a..b : IsStrides(g[i]) /\ Together(g[i]) = f[4 * i]}
<1>1. \A i \in a..b : g[i] = IF i = a THEN first ELSE NextWord(g[i - 1], ReadUint32LE(p, i - 1))
  BY DEF AreWords
<1>2. a \in Q
  <2>1. a \in a..b
    OBVIOUS
  <2> QED BY <1>1, <2>1
<1>3. ASSUME NEW i \in (a + 1)..b, i - 1 \in Q PROVE i \in Q
  <2> DEFINE m == i - 1
             c == g[i - 1]
  <2>1. m \in Nat /\ i \in a..b /\ i # a /\ 4 * m + 4 = 4 * i /\ 4 * m + 4 <= n
    OBVIOUS
  <2>2. IsStrides(c) /\ Together(c) = f[4 * m]
    BY <1>3
  <2>3. g[i] = NextWord(c, ReadUint32LE(p, m))
    BY <1>1, <2>1
  <2> HIDE DEF Q, m, c
  <2>4. ReadUint32LE(p, m) \in Word /\ f[4 * m + 4] = By32[Xor(f[4 * m], ReadUint32LE(p, m))]
    BY <2>1, RunByWord
  <2>5. /\ IsStrides(NextWord(c, ReadUint32LE(p, m)))
        /\ Together(NextWord(c, ReadUint32LE(p, m))) = f[4 * i]
    BY <2>1, <2>2, <2>4, NextWordStep
  <2> QED BY <2>1, <2>3, <2>5 DEF Q
<1>4. b \in Q
  <2>1. b \in a..b /\ a \in Nat /\ b \in Nat
    OBVIOUS
  <2> HIDE DEF Q
  <2>2. \A i \in a..b : i \in Q
    BY ONLY <1>2, <1>3, <2>1, Upward
  <2> QED BY <2>1, <2>2
<1> QED BY <1>4


LEMMA StridesValue ==
  ASSUME NEW p \in Seq(Octet), Len(p) >= 16, NEW l \in Word, NEW f, Run(f, l, p, Len(p))
  PROVE  Strides(l, p) = f[4 * (Len(p) \div 4)]
<1> DEFINE n     == Len(p)
           full  == n \div 16
           words == n \div 4
           start == 4 * full
           swath == CHOOSE g : AreSwaths(g, l, p, full)
           first == swath[full]
           word  == CHOOSE g : AreWords(g, first, p, start, words)
<1>1. Strides(l, p) = Together(word[words])
  BY DEF Strides, Together, AreSwaths, AreWords, FirstSwath
<1>2. /\ n \in Nat /\ n >= 16 /\ l \in Word
      /\ Run(f, l, p, n) /\ \A i \in 1..n : p[i] \in Octet
  OBVIOUS
<1>3. SUFFICES Together(word[words]) = f[4 * words]
  BY <1>1
<1> HIDE DEF n
<1>4. /\ full \in Nat \ {0} /\ 16 * full <= n /\ 4 * start = 16 * full
      /\ start \in Nat /\ words \in Nat /\ start <= words /\ 4 * words <= n
  BY <1>2
<1> HIDE DEF full, words, start
<1>5. AreSwaths(swath, l, p, full)
  <2>1. \E g : AreSwaths(g, l, p, full)
    BY ONLY <1>2, <1>4, SwathsExist
  <2> QED BY <2>1
<1> HIDE DEF swath
<1>6. IsStrides(first) /\ Together(first) = f[4 * start] /\ first \in FourWords
  <2>1. /\ IsStrides(first) /\ Together(first) = f[16 * full] /\ first \in FourWords
    BY ONLY <1>2, <1>4, <1>5, SwathsKeepUp DEF first
  <2> QED BY <1>4, <2>1
<1> HIDE DEF first
<1>7. AreWords(word, first, p, start, words)
  <2>1. \E g : AreWords(g, first, p, start, words)
    BY ONLY <1>2, <1>4, <1>6, WordsExist
  <2> QED BY <2>1
<1> HIDE DEF word
<1>8. n \in Nat /\ start \in Nat /\ words \in Nat
  BY <1>2, <1>4
<1>9. start <= words /\ 4 * words <= n
  BY <1>4
<1>10. Run(f, l, p, n) /\ \A i \in 1..n : p[i] \in Octet
  BY <1>2
<1>11. IsStrides(first) /\ Together(first) = f[4 * start]
  BY <1>6
<1> QED BY ONLY <1>7, <1>8, <1>9, <1>10, <1>11, WordsKeepUp

-----------------------------------------------------------------------------
(* Extend.                                                                 *)

LEMMA CrcValue ==
  ASSUME NEW data \in Seq(Octet), NEW f, Run(f, kCRC32Xor, data, Len(data))
  PROVE  Crc(data) = Xor(f[Len(data)], kCRC32Xor)
<1> DEFINE n == Len(data)
           IsLeft(g) ==
             g = [i \in 0..n |-> IF i = 0 THEN kCRC32Xor ELSE Divided[Xor(g[i - 1], data[i])]]
           left == CHOOSE g : IsLeft(g)
<1>1. n \in Nat /\ Run(f, kCRC32Xor, data, n)
  OBVIOUS
<1>2. Crc(data) = Xor(left[n], kCRC32Xor)
  BY DEF Crc
<1> SUFFICES left[n] = f[n]
  BY <1>2
<1> HIDE DEF n
<1>3. IsLeft(f)
  <2>1. \A i \in 0..n : f[i] = IF i = 0 THEN kCRC32Xor ELSE Divided[Xor(f[i - 1], data[i])]
    BY <1>1 DEF Run
  <2>2. f = [i \in 0..n |-> f[i]]
    BY <1>1 DEF Run
  <2> QED BY <2>1, <2>2
<1>4. IsLeft(left)
  <2> HIDE DEF IsLeft
  <2> QED BY <1>3
<1>5. left[0] = kCRC32Xor /\ \A i \in 1..n : left[i] = Divided[Xor(left[i - 1], data[i])]
  <2> HIDE DEF left
  <2> QED BY <1>1, <1>4
<1> HIDE DEF left
<1>6. left[0] = f[0] /\ \A i \in 1..n : left[i - 1] = f[i - 1] => left[i] = f[i]
  BY <1>1, <1>5 DEF Run
<1>7. \A i \in 0..n : left[i] = f[i]
  BY <1>1, <1>6, StepsAgree
<1> QED BY <1>1, <1>7

LEMMA ExtendValue ==
  ASSUME NEW crc \in Word, NEW data \in Seq(Octet), NEW at \in 0..3,
         NEW f, Run(f, Xor(crc, kCRC32Xor), data, Len(data))
  PROVE  Extend(crc, data, at) = Xor(f[Len(data)], kCRC32Xor)
<1> DEFINE n     == Len(data)
           x     == (4 - at) % 4
           lead  == IF x <= n THEN x ELSE 0
           l     == Bytes(Xor(crc, kCRC32Xor), SubSeq(data, 1, lead))
           p     == SubSeq(data, lead + 1, n)
           done  == IF Len(p) >= 16 THEN 4 * (Len(p) \div 4) ELSE 0
           m     == IF Len(p) >= 16 THEN Strides(l, p) ELSE l
           rest  == Bytes(m, SubSeq(p, done + 1, Len(p)))
           g     == [i \in 0..(n - lead) |-> f[lead + i]]
<1>1. Extend(crc, data, at) = Xor(rest, kCRC32Xor)
  BY DEF Extend
<1> SUFFICES rest = f[n]
  BY <1>1
<1>2. n \in Nat /\ lead \in 0..n /\ Run(f, Xor(crc, kCRC32Xor), data, n)
  OBVIOUS
<1>3. f[0] = Xor(crc, kCRC32Xor)
  BY DEF Run
<1> HIDE DEF x, lead
<1>4. l = f[lead]
  <2>1. 0 \in 0..n /\ lead \in 0..n /\ 0 + 1 = 1
    BY <1>2
  <2>2. Bytes(f[0], SubSeq(data, 0 + 1, lead)) = f[lead]
    BY <1>2, <2>1, BytesOfPart
  <2> QED BY <1>3, <2>1, <2>2
<1>5. p \in Seq(Octet) /\ Len(p) = n - lead /\ f[lead] \in Word /\ Run(g, f[lead], p, n - lead)
  <2>1. n \in lead..n
    BY <1>2
  <2> QED BY <1>2, <2>1, PartOfRun
<1>6. g[0] = f[lead] /\ g[n - lead] = f[n] /\ n - lead \in Nat
  BY <1>2
<1> HIDE DEF n, l, p, g
<1>7. done \in 0..Len(p) /\ Len(p) \in done..Len(p)
  <2> DEFINE k == n - lead
  <2>1. k \in Nat /\ Len(p) = k
    BY <1>5, <1>6
  <2> HIDE DEF k
  <2>2. 4 * (k \div 4) \in 0..k
    BY <2>1
  <2> QED BY ONLY <2>1, <2>2 DEF done
<1>8. m = g[done]
  <2>1. CASE Len(p) >= 16
    <3>1. Strides(f[lead], p) = g[4 * (Len(p) \div 4)]
      BY <1>5, <2>1, StridesValue
    <3> QED BY <1>4, <2>1, <3>1
  <2>2. CASE ~(Len(p) >= 16)
    BY <1>4, <1>6, <2>2
  <2> QED BY <2>1, <2>2
<1> HIDE DEF done, m
<1>9. rest = g[Len(p)]
  <2>1. Run(g, f[lead], p, Len(p))
    BY <1>5
  <2>2. Bytes(g[done], SubSeq(p, done + 1, Len(p))) = g[Len(p)]
    BY <1>5, <1>7, <2>1, BytesOfPart
  <2> QED BY <1>8, <2>2
<1> QED BY <1>5, <1>6, <1>9 DEF n

\* What Extend of db/crc32c.cpp makes of the checksum of some bytes is that of
\* these and the bytes it is given, at whatever address they lie.
THEOREM ExtendCorrect ==
  ASSUME NEW s \in Seq(Octet), NEW t \in Seq(Octet), NEW at \in 0..3
  PROVE  Extend(Crc(s), t, at) = Crc(s \o t) /\ Crc(s) \in Word
<1> DEFINE st == s \o t
           a  == Len(s)
           b  == Len(st)
<1>1. /\ st \in Seq(Octet) /\ b = a + Len(t) /\ a \in Nat /\ Len(t) \in Nat
      /\ \A i \in 1..a : st[i] = s[i]
      /\ \A i \in 1..Len(t) : st[a + i] = t[i]
  BY ConcatProperties
<1>2. kCRC32Xor \in Word
  BY DEF kCRC32Xor, Word
<1>3. PICK f : Run(f, kCRC32Xor, st, b)
  <2>1. b \in Nat /\ \A i \in 1..b : st[i] \in Octet
    BY <1>1
  <2> HIDE DEF st, b
  <2> QED BY <1>2, <2>1, RunExists
<1>4. Crc(st) = Xor(f[b], kCRC32Xor)
  <2>1. st \in Seq(Octet) /\ Run(f, kCRC32Xor, st, Len(st))
    BY <1>1, <1>3
  <2> HIDE DEF st
  <2> QED BY <2>1, CrcValue
<1> HIDE DEF st
<1>5. Crc(s) = Xor(f[a], kCRC32Xor) /\ f[a] \in Word
  <2> DEFINE h == [i \in 0..a |-> f[i]]
  <2>1. Run(h, kCRC32Xor, s, a)
    <3>1. h \in [0..a -> Word] /\ h[0] = kCRC32Xor
      BY <1>1, <1>3 DEF Run
    <3>2. \A i \in 1..a : h[i] = Divided[Xor(h[i - 1], s[i])]
      <4> TAKE i \in 1..a
      <4>1. i \in 1..b /\ i - 1 \in 0..a /\ i \in 0..a
        BY <1>1
      <4>2. f[i] = Divided[Xor(f[i - 1], st[i])]
        BY <1>3, <4>1 DEF Run
      <4> QED BY <1>1, <4>1, <4>2
    <3> HIDE DEF h
    <3> QED BY <3>1, <3>2 DEF Run
  <2>2. h[a] = f[a] /\ f[a] \in Word
    BY <1>1, <1>3 DEF Run
  <2> HIDE DEF h
  <2>3. Crc(s) = Xor(h[a], kCRC32Xor)
    BY <2>1, CrcValue
  <2> QED BY <2>2, <2>3
<1>6. Crc(s) \in Word
  BY <1>2, <1>5, XorType
<1>7. Xor(Crc(s), kCRC32Xor) = f[a]
  BY <1>5, XorGroup
<1> DEFINE g == [i \in 0..Len(t) |-> f[a + i]]
<1>8. Run(g, f[a], t, Len(t))
  <2> DEFINE c == Len(t)
  <2>1. c \in Nat /\ b = a + c /\ \A i \in 1..c : st[a + i] = t[i]
    BY <1>1
  <2> HIDE DEF c
  <2>2. \A i \in 0..c : a + i \in 0..b
    BY <1>1, <2>1
  <2>3. g \in [0..c -> Word] /\ g[0] = f[a]
    <3>1. \A i \in 0..c : f[a + i] \in Word
      BY <1>3, <2>2 DEF Run
    <3>2. 0 \in 0..c /\ a + 0 = a
      BY <1>1, <2>1
    <3> QED BY <3>1, <3>2 DEF c
  <2>4. \A i \in 1..c : g[i] = Divided[Xor(g[i - 1], t[i])]
    <3> TAKE i \in 1..c
    <3>1. a + i \in 1..b /\ a + (i - 1) = (a + i) - 1 /\ i - 1 \in 0..c /\ i \in 0..c
      BY <1>1, <2>1
    <3>2. f[a + i] = Divided[Xor(f[(a + i) - 1], st[a + i])]
      BY <1>3, <3>1 DEF Run
    <3>3. g[i] = f[a + i] /\ g[i - 1] = f[(a + i) - 1]
      BY <3>1 DEF c
    <3> QED BY <2>1, <3>2, <3>3
  <2> HIDE DEF g
  <2> QED BY <2>3, <2>4 DEF Run, c
<1>9. g[Len(t)] = f[b]
  BY <1>1
<1> HIDE DEF g, b
<1>10. Extend(Crc(s), t, at) = Xor(g[Len(t)], kCRC32Xor)
  BY <1>6, <1>7, <1>8, ExtendValue
<1> QED BY <1>4, <1>6, <1>9, <1>10 DEF st

-----------------------------------------------------------------------------
(* Mask and Unmask.                                                        *)

\* A carry goes from bit to bit.
LEMMA CarryStep ==
  ASSUME NEW v, NEW w
  PROVE  /\ 0 \notin Carry(v, w)
         /\ \A i \in 0..30 :
              i + 1 \in Carry(v, w) <=>
                (i \in v /\ i \in w) \/ (i \in Carry(v, w) /\ (i \in v \/ i \in w))
<1>1. 0 \notin Carry(v, w)
  BY DEF Carry
<1>2. ASSUME NEW i \in 0..30
      PROVE  i + 1 \in Carry(v, w) <=>
               (i \in v /\ i \in w) \/ (i \in Carry(v, w) /\ (i \in v \/ i \in w))
  <2>1. i + 1 \in Carry(v, w) <=>
          \E j \in 0..i : j \in v \cap w /\ \A k \in (j + 1)..i : k \in v \cup w
    <3>1. i + 1 \in 0..31 /\ (i + 1) - 1 = i
      OBVIOUS
    <3> QED BY <3>1 DEF Carry, Bit
  <2>2. i \in Carry(v, w) <=>
          \E j \in 0..(i - 1) : j \in v \cap w /\ \A k \in (j + 1)..(i - 1) : k \in v \cup w
    BY DEF Carry, Bit
  <2>3. ASSUME NEW j \in 0..i, j \in v \cap w, \A k \in (j + 1)..i : k \in v \cup w
        PROVE  (i \in v /\ i \in w) \/ (i \in Carry(v, w) /\ (i \in v \/ i \in w))
    <3>1. CASE j = i
      BY <2>3, <3>1
    <3>2. CASE j # i
      <4>1. j \in 0..(i - 1) /\ i \in (j + 1)..i /\ \A k \in (j + 1)..(i - 1) : k \in (j + 1)..i
        BY <3>2
      <4> QED BY <2>2, <2>3, <4>1
    <3> QED BY <3>1, <3>2
  <2>4. ASSUME i \in v, i \in w PROVE i + 1 \in Carry(v, w)
    BY <2>1, <2>4
  <2>5. ASSUME i \in Carry(v, w), i \in v \/ i \in w PROVE i + 1 \in Carry(v, w)
    <3>1. PICK j \in 0..(i - 1) : j \in v \cap w /\ \A k \in (j + 1)..(i - 1) : k \in v \cup w
      BY <2>2, <2>5
    <3>2. \A k \in (j + 1)..i : k \in v \cup w
      <4>1. \A k \in (j + 1)..i : k = i \/ k \in (j + 1)..(i - 1)
        OBVIOUS
      <4> QED BY <2>5, <3>1, <4>1
    <3>3. j \in 0..i
      OBVIOUS
    <3> QED BY <2>1, <3>1, <3>2, <3>3
  <2> QED BY <2>1, <2>3, <2>4, <2>5
<1> QED BY <1>1, <1>2

LEMMA SumType ==
  ASSUME NEW v \in Word, NEW w \in Word
  PROVE  Sum(v, w) \in Word /\ Difference(v, w) \in Word
<1>1. \A u : Carry(u, w) \in Word
  BY DEF Carry, Word
<1>2. Carry(v, w) \in Word /\ Carry(Bit \ v, w) \in Word
  BY <1>1
<1> QED BY <1>2, XorType DEF Sum, Difference

\* What the sum carries into a bit, the difference borrows from it.
LEMMA DifferenceOfSum ==
  ASSUME NEW r \in Word, NEW d \in Word
  PROVE  Difference(Sum(r, d), d) = r
<1> DEFINE s == Sum(r, d)
           c == Carry(r, d)
           b == Carry(Bit \ s, d)
<1>1. \A i : i \in s <=> ~(~(i \in r <=> i \in d) <=> i \in c)
  BY XorIn DEF Sum
<1>2. c \subseteq 0..31 /\ b \subseteq 0..31
  BY DEF Carry, Bit
<1>3. 0 \notin c /\ 0 \notin b
  BY CarryStep
<1>4. \A i \in 0..30 :
        i + 1 \in c <=> (i \in r /\ i \in d) \/ (i \in c /\ (i \in r \/ i \in d))
  BY CarryStep
<1>5. \A i \in 0..30 :
        i + 1 \in b <=> (i \notin s /\ i \in d) \/ (i \in b /\ (i \notin s \/ i \in d))
  <2>1. \A i \in 0..30 : i \in Bit \ s <=> i \notin s
    BY DEF Bit
  <2>2. \A i \in 0..30 :
          i + 1 \in b <=> (i \in Bit \ s /\ i \in d) \/ (i \in b /\ (i \in Bit \ s \/ i \in d))
    BY CarryStep
  <2> HIDE DEF s, b
  <2> QED BY <2>1, <2>2
<1> HIDE DEF s, c, b
<1> DEFINE Q == {i \in 0..31 : i \in b <=> i \in c}
<1>6. 0 \in Q /\ \A i \in (0 + 1)..31 : i - 1 \in Q => i \in Q
  <2>1. ASSUME NEW i \in 1..31, i - 1 \in Q PROVE i \in Q
    <3>1. i - 1 \in 0..30 /\ (i - 1) + 1 = i
      OBVIOUS
    <3> DEFINE j == i - 1
    <3>2. (j + 1 \in b <=> (j \notin s /\ j \in d) \/ (j \in b /\ (j \notin s \/ j \in d)))
          /\ (j + 1 \in c <=> (j \in r /\ j \in d) \/ (j \in c /\ (j \in r \/ j \in d)))
      BY <1>4, <1>5, <3>1
    <3>3. j \in b <=> j \in c
      BY <2>1
    <3>4. j \in s <=> ~(~(j \in r <=> j \in d) <=> j \in c)
      BY <1>1
    <3>5. i = j + 1
      OBVIOUS
    <3> HIDE DEF j
    <3>6. j + 1 \in b <=> j + 1 \in c
      BY <3>2, <3>3, <3>4, Zenon
    <3> QED BY <3>5, <3>6
  <2> QED BY <1>3, <2>1
<1>7. \A i \in 0..31 : i \in Q
  <2> HIDE DEF Q
  <2>1. 0 \in Nat /\ 31 \in Nat
    OBVIOUS
  <2> QED BY ONLY <1>6, <2>1, Upward
<1>8. b = c
  BY <1>2, <1>7
<1>9. \A i : i \in Difference(s, d) <=> ~(~(i \in s <=> i \in d) <=> i \in c)
  BY <1>8, XorIn DEF Difference, b
<1>10. \A i : i \in Difference(s, d) <=> i \in r
  BY <1>1, <1>9
<1> QED BY <1>10 DEF s

\* Unmask of db/crc32c.h undoes Mask: the rotation moves every bit, and what the
\* addition carries the subtraction borrows.
THEOREM UnmaskCorrect ==
  ASSUME NEW w \in Word
  PROVE  Unmask(Mask(w)) = w /\ Mask(w) \in Word
<1> DEFINE rot == Right(w, 15) \cup Left(w, 17)
<1>1. kMaskDelta \in Word
  BY DEF kMaskDelta, Bits, Word, Bit
<1>2. \A i : i \in rot <=> i \in 0..31 /\ (i + 15 \in w \/ i - 17 \in w)
  BY RightIn, LeftIn DEF Bit
<1>3. rot \in Word
  BY ShiftType DEF Word
<1> HIDE DEF rot
<1>4. Mask(w) = Sum(rot, kMaskDelta)
  BY DEF Mask, rot
<1>5. Difference(Mask(w), kMaskDelta) = rot
  BY <1>1, <1>3, <1>4, DifferenceOfSum
<1>6. Unmask(Mask(w)) = Right(rot, 17) \cup Left(rot, 15)
  BY <1>5 DEF Unmask
<1>7. ASSUME NEW i \in 0..31
      PROVE  i \in Right(rot, 17) \cup Left(rot, 15) <=> i \in w
  <2>1. i \in Right(rot, 17) <=> i + 17 \in rot
    BY <1>3, RightIn DEF Bit
  <2>2. i \in Left(rot, 15) <=> i - 15 \in rot
    BY <1>3, LeftIn DEF Bit
  <2>3. i + 17 \in rot <=> i <= 14 /\ (i + 32 \in w \/ i \in w)
    <3>1. i + 17 \in 0..31 <=> i <= 14
      OBVIOUS
    <3>2. (i + 17) + 15 = i + 32 /\ (i + 17) - 17 = i
      OBVIOUS
    <3> QED BY <1>2, <3>1, <3>2
  <2>4. i - 15 \in rot <=> i >= 15 /\ (i \in w \/ i - 32 \in w)
    <3>1. i - 15 \in 0..31 <=> i >= 15
      OBVIOUS
    <3>2. (i - 15) + 15 = i /\ (i - 15) - 17 = i - 32
      OBVIOUS
    <3> QED BY <1>2, <3>1, <3>2
  <2>5. i + 32 \notin w /\ i - 32 \notin w
    BY DEF Word, Bit
  <2> QED BY <2>1, <2>2, <2>3, <2>4, <2>5
<1>8. Right(rot, 17) \in Word /\ Left(rot, 15) \in Word
  BY <1>3, ShiftType
<1>9. Unmask(Mask(w)) = w
  BY <1>6, <1>7, <1>8 DEF Word, Bit
<1>10. Mask(w) \in Word
  BY <1>1, <1>3, <1>4, SumType
<1> QED BY <1>9, <1>10

LEMMA ReadOfEncode ==
  ASSUME NEW w \in Word
  PROVE  ReadUint32LE(EncodeFixed32(w), 0) = w
<1> DEFINE p == EncodeFixed32(w)
<1>1. p[1] = OctetAt(w, 0) /\ p[2] = OctetAt(w, 8) /\ p[3] = OctetAt(w, 16) /\ p[4] = OctetAt(w, 24)
  BY DEF EncodeFixed32
<1> HIDE DEF p
<1>2. \A k \in 1..4 : p[4 * 0 + k] \in Octet
  <2>1. p[1] \in Octet /\ p[2] \in Octet /\ p[3] \in Octet /\ p[4] \in Octet
    BY <1>1, OctetAtIn
  <2> QED BY <2>1
<1>3. /\ 0 \in Nat /\ p[4 * 0 + 1] = p[1] /\ p[4 * 0 + 2] = p[2]
      /\ p[4 * 0 + 3] = p[3] /\ p[4 * 0 + 4] = p[4]
  OBVIOUS
<1>4. ReadUint32LE(p, 0) = WordOf(p[1], p[2], p[3], p[4])
  BY <1>2, <1>3, ReadValue
<1> QED BY <1>1, <1>4, OctetsOfWord DEF p

-----------------------------------------------------------------------------
\* The inductive invariant.
TextIsData == text \in Seq(Octet)

TrailerIsMasked == trailer # <<>> => trailer = EncodeFixed32(Mask(checksum))

IInv == TextIsData /\ ChecksumIsTheCrc /\ TrailerIsMasked

LEMMA InitEstablishesIInv == Init => IInv
<1> SUFFICES ASSUME Init PROVE IInv
  OBVIOUS
<1>1. <<>> \in Seq(Octet) /\ Len(<<>>) = 0
  BY EmptySeq
<1>2. kCRC32Xor \in Word
  BY DEF kCRC32Xor, Word
<1>3. Crc(<<>>) = {}
  <2>1. PICK f : Run(f, kCRC32Xor, <<>>, 0)
    <3>1. 0 \in Nat /\ \A i \in 1..0 : <<>>[i] \in Octet
      OBVIOUS
    <3> QED BY <1>2, <3>1, RunExists
  <2>2. Crc(<<>>) = Xor(f[0], kCRC32Xor)
    BY <1>1, <2>1, CrcValue
  <2> QED BY <2>1, <2>2, XorGroup DEF Run
<1> QED BY <1>1, <1>3 DEF Init, IInv, TextIsData, ChecksumIsTheCrc, TrailerIsMasked

LEMMA FeedKeepsIInv ==
  ASSUME IInv, NEW piece \in Pieces, NEW at \in 0..3, Feed(piece, at)
  PROVE  IInv'
<1>1. text \in Seq(Octet) /\ piece \in Seq(Octet) /\ checksum = Crc(text)
  BY CrcAssumption DEF IInv, TextIsData, ChecksumIsTheCrc
<1>2. text' = text \o piece /\ checksum' = Extend(checksum, piece, at) /\ trailer' = trailer /\ trailer = <<>>
  BY DEF Feed
<1>3. text' \in Seq(Octet)
  BY <1>1, <1>2, ConcatProperties
<1>4. checksum' = Crc(text')
  BY <1>1, <1>2, ExtendCorrect
<1> QED BY <1>2, <1>3, <1>4 DEF IInv, TextIsData, ChecksumIsTheCrc, TrailerIsMasked

LEMMA StoreKeepsIInv ==
  ASSUME IInv, NEW type \in Types, NEW at \in 0..3, Store(type, at)
  PROVE  IInv'
<1>1. text \in Seq(Octet) /\ type \in Octet /\ checksum = Crc(text)
  BY CrcAssumption DEF IInv, TextIsData, ChecksumIsTheCrc
<1>2. /\ text' = Append(text, type) /\ checksum' = Extend(checksum, <<type>>, at)
      /\ trailer' = EncodeFixed32(Mask(checksum'))
  BY DEF Store
<1>3. <<type>> \in Seq(Octet) /\ text' = text \o <<type>>
  BY <1>1, <1>2, AppendIsConcat
<1>4. text' \in Seq(Octet)
  BY <1>1, <1>2, AppendProperties
<1>5. checksum' = Crc(text')
  BY <1>1, <1>2, <1>3, ExtendCorrect
<1> QED BY <1>2, <1>4, <1>5 DEF IInv, TextIsData, ChecksumIsTheCrc, TrailerIsMasked

LEMMA StepKeepsIInv == IInv /\ [Next]_vars => IInv'
<1> SUFFICES ASSUME IInv, [Next]_vars PROVE IInv'
  OBVIOUS
<1>1. ASSUME NEW at \in 0..3, NEW piece \in Pieces, Feed(piece, at) PROVE IInv'
  BY <1>1, FeedKeepsIInv
<1>2. ASSUME NEW at \in 0..3, NEW type \in Types, Store(type, at) PROVE IInv'
  BY <1>2, StoreKeepsIInv
<1>3. CASE UNCHANGED vars
  BY <1>3 DEF vars, IInv, TextIsData, ChecksumIsTheCrc, TrailerIsMasked
<1> QED BY <1>1, <1>2, <1>3 DEF Next

LEMMA IInvMeansTrailer == IInv => TrailerHoldsTheCrc
<1> SUFFICES ASSUME IInv, trailer # <<>> PROVE Unmask(ReadUint32LE(trailer, 0)) = Crc(text)
  BY DEF TrailerHoldsTheCrc
<1>1. text \in Seq(Octet) /\ checksum = Crc(text) /\ trailer = EncodeFixed32(Mask(checksum))
  BY DEF IInv, TextIsData, ChecksumIsTheCrc, TrailerIsMasked
<1>2. checksum \in Word
  <2>1. <<>> \in Seq(Octet) /\ 0 \in 0..3
    BY EmptySeq
  <2> QED BY <1>1, <2>1, ExtendCorrect
<1>3. Mask(checksum) \in Word /\ Unmask(Mask(checksum)) = checksum
  BY <1>2, UnmaskCorrect
<1> QED BY <1>1, <1>3, ReadOfEncode

\* Whatever the data, the pieces it comes in and the addresses they lie at: what
\* Value and Extend of db/crc32c.cpp return is the checksum by its definition.
THEOREM ChecksumCorrect == Spec => []ChecksumIsTheCrc
<1>1. IInv => ChecksumIsTheCrc
  BY DEF IInv
<1> QED BY InitEstablishesIInv, StepKeepsIInv, <1>1, PTL DEF Spec

\* What WriteBlock of db/SSTable.h puts in the trailer of a block gives, by
\* DecodeFixed32 and Unmask, the checksum of all that was checksummed.
THEOREM TrailerCorrect == Spec => []TrailerHoldsTheCrc
BY InitEstablishesIInv, StepKeepsIInv, IInvMeansTrailer, PTL DEF Spec

=============================================================================
