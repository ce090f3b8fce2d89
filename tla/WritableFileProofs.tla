------------------------- MODULE WritableFileProofs -------------------------
(***************************************************************************)
(* Proofs about WritableFile, for every size of the buffer, of an int, of  *)
(* the data and of the writes, and any number of failures: without a       *)
(* failing write() no byte that Append sees is lost, and it sees all of    *)
(* data that an int has room for; with failures each takes the file back   *)
(* by at most one byte.                                                    *)
(*                                                                         *)
(* The bytes ever handed over form a stream: as many bytes of rubbish as   *)
(* has_buffer_size started at, then byte 1, 2, ...  What a call still has  *)
(* to write or to keep, or else what the buffer holds, is the end of it.   *)
(***************************************************************************)
EXTENDS WritableFile, SequenceTheorems, TLAPS

\* The byte at place i of the stream.
Nth(i) == IF i <= fresh THEN Unset ELSE i - fresh

\* How many bytes are at the end of it that no finished write was given, how
\* many are before them, and how many of these a write under way is done with.
Kept   == IF mode = "write" THEN Len(writing.data) + Len(writing.rest) ELSE has_buffer_size
Before == fresh + taken - Kept
Sent   == IF mode # "write" THEN 0
          ELSE IF writing.offset < Len(writing.data) THEN writing.offset ELSE Len(writing.data)

\* Until the first flush has_buffer_size may be anything it started at.
Ranges ==
  /\ has_buffer_size = fresh \/ has_buffer_size \in 0..BufferSize
  /\ Len(writing.data) < SizeMod /\ Len(writing.rest) < SizeMod

Rubbish == fresh \in 0..BufferSize

\* A call that does not flush has nothing in the buffer to come back to.
HeldInOrder ==
  Rubbish /\ mode # "undefined" =>
    /\ Before >= 0
    /\ mode = "write" =>
         /\ \A i \in 1..Len(writing.data) : writing.data[i] = Nth(Before + i)
         /\ \A i \in 1..Len(writing.rest) :
              writing.rest[i] = Nth(Before + Len(writing.data) + i)
         /\ ~writing.flush => Len(writing.rest) = 0 /\ has_buffer_size = 0
    /\ mode # "write" => \A i \in 1..has_buffer_size : buffer[i] = Nth(Before + i)

FileInOrder ==
  Rubbish /\ mode # "undefined" /\ faults = 0 =>
    /\ mode = "write" => writing.offset <= Len(writing.data)
    /\ Len(file) = Before + Sent
    /\ \A i \in 1..Len(file) : file[i] = Nth(i)

\* A failed write is begun again one byte earlier, or given up.
FileIsBehind ==
  fresh = 0 /\ mode # "undefined" =>
    \A i \in 1..Len(file) : file[i] <= Before + Sent + faults

\* Sizes that an int holds are seen whole, and nothing else damages memory.
SmallIsSafe ==
  whole => taken = handed /\ (Rubbish => mode # "undefined")

IInv ==
  /\ TypeOK /\ Ranges /\ SmallIsSafe
  /\ HeldInOrder /\ FileInOrder /\ FileIsBehind /\ OrderKept

-----------------------------------------------------------------------------
(* The sizes, and sequences.                                               *)

LEMMA SizeIsInt ==
  ASSUME NEW n \in Nat
  PROVE  size(n) \in Int /\ size(n) <= MaxInt /\ (n <= MaxInt => size(n) = n)
<1> DEFINE m == 2 * (MaxInt + 1)
<1>1. MaxInt \in Nat
  BY FileAssumption
<1>2. size(n) = IF n % m <= MaxInt THEN n % m ELSE (n % m) - m
  BY DEF size
<1>3. m \in Nat /\ m > 0 /\ MaxInt < m
  BY <1>1
<1> HIDE DEF m
<1>4. n % m \in 0..(m - 1) /\ (n < m => n % m = n)
  BY <1>3
<1>5. size(n) \in Int /\ size(n) <= MaxInt
  <2>1. m = 2 * (MaxInt + 1)
    BY DEF m
  <2> QED BY <1>1, <1>2, <1>3, <1>4, <2>1
<1> QED BY <1>1, <1>2, <1>3, <1>4, <1>5

LEMMA BytesStayBytes ==
  ASSUME NEW a \in Nat, NEW b \in Nat, a <= b, NEW s \in Seq(0..a)
  PROVE  s \in Seq(0..b)
BY SeqMonotonic

LEMMA UnwrittenIsTheEnd ==
  ASSUME NEW S, writing.data \in Seq(S), writing.offset \in Nat
  PROVE  /\ Unwritten \in Seq(S)
         /\ Len(Unwritten) = IF writing.offset < Len(writing.data)
                             THEN Len(writing.data) - writing.offset ELSE 0
         /\ \A i \in 1..Len(Unwritten) : Unwritten[i] = writing.data[writing.offset + i]
<1> DEFINE m == writing.offset + 1
           n == Len(writing.data)
<1>1. m \in Int /\ n \in Int /\ \A i \in m..n : writing.data[i] \in S
  <2>1. n \in Nat /\ \A i \in 1..n : writing.data[i] \in S
    BY LenProperties, ElementOfSeq
  <2> QED BY <2>1
<1>2. /\ SubSeq(writing.data, m, n) \in Seq(S)
      /\ Len(SubSeq(writing.data, m, n)) = IF m <= n THEN n - m + 1 ELSE 0
      /\ \A i \in 1..(n - m + 1) : SubSeq(writing.data, m, n)[i] = writing.data[m + i - 1]
  <2> HIDE DEF m, n
  <2> QED BY <1>1, SubSeqProperties
<1>3. Unwritten = SubSeq(writing.data, m, n)
  BY DEF Unwritten
<1>4. n \in Nat /\ m = writing.offset + 1
  BY LenProperties
<1>5. Len(Unwritten) = IF writing.offset < n THEN n - writing.offset ELSE 0
  <2>1. Len(Unwritten) = IF m <= n THEN n - m + 1 ELSE 0
    BY <1>2, <1>3
  <2> HIDE DEF m, n
  <2> QED BY <1>4, <2>1
<1>6. ASSUME NEW i \in 1..Len(Unwritten)
      PROVE  Unwritten[i] = writing.data[writing.offset + i]
  <2>1. i \in 1..(n - m + 1) /\ m + i - 1 = writing.offset + i
    <3> HIDE DEF n
    <3> QED BY <1>4, <1>5
  <2> QED BY <1>2, <1>3, <2>1
<1> QED BY <1>2, <1>3, <1>5, <1>6

LEMMA BufferedIsTheStart ==
  ASSUME NEW S, buffer \in [1..BufferSize -> S], has_buffer_size \in 1..BufferSize
  PROVE  /\ Buffered \in Seq(S) /\ Len(Buffered) = has_buffer_size
         /\ \A i \in 1..has_buffer_size : Buffered[i] = buffer[i]
<1> DEFINE n == has_buffer_size
<1>1. n \in Int /\ 1 \in Int /\ \A i \in 1..n : buffer[i] \in S
  BY FileAssumption
<1>2. /\ SubSeq(buffer, 1, n) \in Seq(S)
      /\ Len(SubSeq(buffer, 1, n)) = IF 1 <= n THEN n - 1 + 1 ELSE 0
      /\ \A i \in 1..(n - 1 + 1) : SubSeq(buffer, 1, n)[i] = buffer[1 + i - 1]
  BY <1>1, SubSeqProperties
<1> QED BY <1>2, FileAssumption DEF Buffered

LEMMA DataIsNext ==
  ASSUME NEW n \in Nat, taken \in Nat
  PROVE  /\ Data(n) \in Seq(0..(taken + n)) /\ Len(Data(n)) = n
         /\ \A i \in 1..n : Data(n)[i] = taken + i
<1>1. Data(n) \in [1..n -> 0..(taken + n)]
  BY DEF Data
<1>2. Data(n) \in Seq(0..(taken + n))
  BY <1>1, SeqDef
<1> QED BY <1>1, <1>2 DEF Data

LEMMA CopiedIsBuffer ==
  ASSUME NEW S, NEW room \in [1..BufferSize -> S], NEW data \in Seq(S), NEW at \in Nat
  PROVE  /\ Copied(room, at, data) \in [1..BufferSize -> S]
         /\ \A i \in 1..BufferSize : Copied(room, at, data)[i] =
              IF i \in (at + 1)..(at + Len(data)) THEN data[i - at] ELSE room[i]
<1>1. Len(data) \in Nat /\ \A i \in 1..Len(data) : data[i] \in S
  BY LenProperties, ElementOfSeq
<1>2. ASSUME NEW i \in 1..BufferSize
      PROVE  (IF i \in (at + 1)..(at + Len(data)) THEN data[i - at] ELSE room[i]) \in S
  <2>1. CASE i \in (at + 1)..(at + Len(data))
    <3>1. i - at \in 1..Len(data)
      BY <1>1, <2>1, FileAssumption
    <3> QED BY <1>1, <2>1, <3>1
  <2> QED BY <2>1
<1> QED BY <1>2 DEF Copied

-----------------------------------------------------------------------------

(* The steps.                                                              *)

Memory ==
  /\ buffer \in [1..BufferSize -> 0..taken]
  /\ has_buffer_size \in Int
  /\ fresh = 0 => has_buffer_size \in 0..BufferSize
  /\ writing \in [data : Seq(0..taken), offset : 0..(SizeMod - 1),
                  flush : BOOLEAN, rest : Seq(0..taken)]

HistoryGoesOn ==
  handed' \in Nat /\ whole' \in BOOLEAN /\ (whole' => whole /\ taken' = handed')

LEMMA NoAppendGoesOn ==
  ASSUME IInv, taken' = taken, UNCHANGED history
  PROVE  HistoryGoesOn
BY DEF IInv, TypeOK, SmallIsSafe, HistoryGoesOn, history

\* The end of an Append that has flushed: room and had are the buffer.
LEMMA KeepKeepsOrder ==
  ASSUME NEW data \in Seq(0..taken'), NEW room \in [1..BufferSize -> 0..taken'],
         NEW had \in Int, had = fresh \/ had \in 0..BufferSize, Rubbish => had = 0,
         fresh \in Fresh, fresh' = fresh, taken' \in Nat, Len(data) < SizeMod,
         Rubbish => /\ Len(data) <= fresh + taken'
                    /\ \A i \in 1..Len(data) : data[i] = Nth(fresh + taken' - Len(data) + i),
         Keep(data, room, had)
  PROVE  /\ Memory' /\ Ranges' /\ HeldInOrder'
         /\ mode' \in {"open", "write"} /\ writing'.offset = 0
         /\ Rubbish => Before' + Sent' = fresh + taken' - Len(data)
<1>1. Len(data) \in Nat /\ <<>> \in Seq(0..taken') /\ Len(<<>>) = 0 /\ fresh \in Int
      /\ SizeMod \in Nat /\ 0 < SizeMod /\ BufferSize \in Nat \ {0} /\ (Rubbish <=> Rubbish')
  BY LenProperties, EmptySeq, FileAssumption DEF Rubbish
<1>f. fresh = 0 => had \in 0..BufferSize
  BY <1>1
<1>2. CASE Len(data) > BufferSize
  <2>1. /\ writing' = [data |-> data, offset |-> 0, flush |-> FALSE, rest |-> <<>>]
        /\ mode' = "write" /\ buffer' = room /\ has_buffer_size' = had
    BY <1>2 DEF Keep, WriteToFile
  <2>2. Kept' = Len(data) /\ Sent' = 0 /\ Before' = fresh + taken' - Len(data)
    BY <1>1, <1>2, <2>1 DEF Kept, Before, Sent
  <2>3. Memory' /\ Ranges'
    BY <1>1, <1>f, <2>1 DEF Memory, Ranges
  <2>4. HeldInOrder'
    BY <1>1, <2>1, <2>2 DEF HeldInOrder, Nth
  <2> QED BY <1>1, <2>1, <2>2, <2>3, <2>4
<1>3. CASE ~(Len(data) > BufferSize)
  <2>1. /\ writing' = NotWriting /\ mode' = "open"
        /\ buffer' = Copied(room, 0, data) /\ has_buffer_size' = Len(data)
    BY <1>3 DEF Keep
  <2>2. Sent' = 0 /\ Before' = fresh + taken' - Len(data)
    BY <1>1, <2>1 DEF Kept, Before, Sent
  <2>3. /\ buffer' \in [1..BufferSize -> 0..taken']
        /\ \A i \in 1..Len(data) : buffer'[i] = data[i]
    <3> DEFINE S == 0..taken'
    <3>1. data \in Seq(S) /\ room \in [1..BufferSize -> S] /\ 0 \in Nat
      OBVIOUS
    <3> HIDE DEF S
    <3>2. Copied(room, 0, data) \in [1..BufferSize -> S]
      BY <3>1, CopiedIsBuffer
    <3>3. ASSUME NEW i \in 1..Len(data) PROVE Copied(room, 0, data)[i] = data[i]
      <4>1. i \in 1..BufferSize /\ i \in (0 + 1)..(0 + Len(data)) /\ i - 0 = i
        BY <1>1, <1>3
      <4> QED BY <3>1, <4>1, CopiedIsBuffer
    <3> QED BY <2>1, <3>2, <3>3 DEF S
  <2>4. Memory' /\ Ranges'
    BY <1>1, <1>3, <2>1, <2>3 DEF Memory, Ranges, NotWriting
  <2>5. HeldInOrder'
    <3>1. ASSUME Rubbish, NEW i \in 1..has_buffer_size'
          PROVE  buffer'[i] = Nth(Before + i)'
      BY <1>1, <2>1, <2>2, <2>3, <3>1 DEF Nth
    <3>2. Rubbish => Before' >= 0
      BY <1>1, <2>2
    <3> QED BY <1>1, <2>1, <3>1, <3>2 DEF HeldInOrder
  <2> QED BY <1>1, <2>1, <2>2, <2>4, <2>5 DEF NotWriting
<1> QED BY <1>2, <1>3

\* A step that leaves the file alone and moves no byte across its end.
LEMMA FileUntouched ==
  ASSUME IInv, mode # "undefined", fresh' = fresh, file' = file, faults' = faults,
         Rubbish => Before' + Sent' = Before + Sent,
         Rubbish => Sent' = 0 \/ Sent' = Sent,
         mode' = "write" => writing'.offset <= Len(writing'.data)
  PROVE  FileInOrder' /\ FileIsBehind' /\ OrderKept'
<1>1. (Rubbish <=> Rubbish') /\ (fresh = 0 => Rubbish)
  BY FileAssumption DEF Rubbish
<1>2. FileInOrder'
  BY <1>1 DEF IInv, FileInOrder, Nth
<1>3. FileIsBehind'
  BY <1>1 DEF IInv, FileIsBehind
<1>4. OrderKept'
  BY DEF IInv, OrderKept
<1> QED BY <1>2, <1>3, <1>4

LEMMA IInvTypes ==
  ASSUME IInv
  PROVE  /\ Memory
         /\ buffer \in [1..BufferSize -> 0..taken] /\ has_buffer_size \in Int
         /\ fresh \in Fresh /\ fresh \in Int /\ taken \in Nat /\ faults \in Nat
         /\ handed \in Nat /\ whole \in BOOLEAN
         /\ file \in Seq(0..taken) /\ Len(file) \in Nat /\ durable \in 0..Len(file)
         /\ mode \in {"open", "write", "closed", "undefined"}
         /\ writing.data \in Seq(0..taken) /\ writing.rest \in Seq(0..taken)
         /\ Len(writing.data) \in Nat /\ Len(writing.rest) \in Nat
         /\ writing.offset \in 0..(SizeMod - 1) /\ writing.flush \in BOOLEAN
         /\ BufferSize \in Nat \ {0} /\ SizeMod \in Nat /\ BufferSize < SizeMod
<1>1. TypeOK
  BY DEF IInv
<1>2. BufferSize \in Nat \ {0} /\ SizeMod \in Nat /\ BufferSize < SizeMod /\ fresh \in Int
  BY <1>1, FileAssumption DEF TypeOK
<1> QED BY <1>1, <1>2, LenProperties DEF TypeOK, Byte, Memory

\* A call begins to write what the buffer holds.
LEMMA BufferIsWritten ==
  ASSUME IInv, NEW rest \in Seq(0..taken'), Len(rest) < SizeMod,
         mode = "open", has_buffer_size > 0, has_buffer_size <= BufferSize,
         taken' = taken + Len(rest), HistoryGoesOn,
         \A i \in 1..Len(rest) : rest[i] = taken + i,
         WriteToFile(Buffered, TRUE, rest),
         fresh' = fresh, file' = file, faults' = faults, durable' = durable,
         buffer' = buffer, has_buffer_size' = has_buffer_size
  PROVE  IInv'
<1>t. /\ Len(rest) \in Nat /\ taken' \in Nat /\ taken <= taken'
      /\ SizeMod \in Nat \ {0} /\ BufferSize < SizeMod
  <2>1. taken \in Nat /\ SizeMod \in Nat /\ BufferSize \in Nat \ {0} /\ BufferSize < SizeMod
    BY IInvTypes, Zenon
  <2>2. Len(rest) \in Nat /\ taken' = taken + Len(rest)
    BY LenProperties
  <2> DEFINE n == Len(rest)
  <2> HIDE DEF n
  <2>3. n \in Nat /\ taken' = taken + n
    BY <2>2 DEF n
  <2>4. taken' \in Nat /\ taken <= taken' /\ SizeMod \in Nat \ {0}
    BY <2>1, <2>3
  <2> QED BY <2>1, <2>2, <2>4
<1>1. /\ Buffered \in Seq(0..taken) /\ Len(Buffered) = has_buffer_size
      /\ \A i \in 1..has_buffer_size : Buffered[i] = buffer[i]
  <2> DEFINE S == 0..taken
  <2>1. buffer \in [1..BufferSize -> S] /\ has_buffer_size \in 1..BufferSize
    BY IInvTypes
  <2> HIDE DEF S
  <2>2. /\ Buffered \in Seq(S) /\ Len(Buffered) = has_buffer_size
        /\ \A i \in 1..has_buffer_size : Buffered[i] = buffer[i]
    BY <2>1, BufferedIsTheStart
  <2> QED BY <2>2 DEF S
<1>2. /\ writing' = [data |-> Buffered, offset |-> 0, flush |-> TRUE, rest |-> rest]
      /\ mode' = "write"
  BY DEF WriteToFile
<1>3. /\ Kept' = has_buffer_size + Len(rest) /\ Kept = has_buffer_size
      /\ Before' = Before /\ Sent' = 0 /\ Sent = 0
  <2>1. /\ writing'.data = Buffered /\ writing'.rest = rest /\ writing'.offset = 0
        /\ has_buffer_size \in Int /\ taken \in Nat /\ fresh \in Int
    BY <1>2, IInvTypes
  <2>2. Kept' = has_buffer_size + Len(rest) /\ Kept = has_buffer_size /\ Sent = 0
    BY <1>1, <1>2, <2>1 DEF Kept, Sent
  <2>3. Sent' = 0
    BY <1>1, <1>2, <2>1 DEF Sent
  <2>4. Before' = Before
    BY <1>t, <2>1, <2>2 DEF Before
  <2> QED BY <2>2, <2>3, <2>4
<1>4. TypeOK' /\ Ranges' /\ SmallIsSafe'
  <2>1. buffer' \in [1..BufferSize -> 0..taken'] /\ file' \in Seq(0..taken')
        /\ Buffered \in Seq(0..taken')
    <3>1. taken \in Nat /\ file \in Seq(0..taken) /\ buffer \in [1..BufferSize -> 0..taken]
      BY IInvTypes
    <3>2. file \in Seq(0..taken') /\ Buffered \in Seq(0..taken')
      BY <1>t, <1>1, <3>1, BytesStayBytes
    <3> QED BY <1>t, <3>1, <3>2
  <2>2. /\ writing' \in [data : Seq(0..taken'), offset : 0..(SizeMod - 1),
                          flush : BOOLEAN, rest : Seq(0..taken')]
        /\ Len(writing'.data) < SizeMod /\ Len(writing'.rest) < SizeMod
    <3>1. 0 \in 0..(SizeMod - 1) /\ has_buffer_size < SizeMod
      BY <1>t, IInvTypes
    <3> QED BY <1>1, <1>2, <2>1, <3>1
  <2>3. /\ has_buffer_size' \in Int /\ fresh' \in Fresh /\ faults' \in Nat
        /\ has_buffer_size' \in 0..BufferSize /\ durable' \in 0..Len(file')
    BY IInvTypes, SMTT(30)
  <2>4. Ranges'
    BY <2>2, <2>3 DEF Ranges
  <2>5. SmallIsSafe'
    BY <1>2 DEF SmallIsSafe, HistoryGoesOn
  <2>6. handed' \in Nat /\ whole' \in BOOLEAN
    BY DEF HistoryGoesOn
  <2> QED BY <1>t, <1>2, <2>1, <2>2, <2>3, <2>4, <2>5, <2>6 DEF TypeOK, Byte
<1>5. HeldInOrder'
  <2>1. Rubbish <=> Rubbish'
    BY DEF Rubbish
  <2>2. ASSUME Rubbish, NEW i \in 1..Len(Buffered) PROVE Buffered[i] = Nth(Before + i)'
    BY <1>1, <1>3, <2>2 DEF IInv, HeldInOrder, Nth
  <2>3. ASSUME Rubbish, NEW i \in 1..Len(rest)
        PROVE  rest[i] = Nth(Before + has_buffer_size + i)'
    <3>1. Before + has_buffer_size = fresh + taken
      <4>1. fresh \in Int /\ taken \in Nat /\ has_buffer_size \in Int
        BY IInvTypes
      <4> QED BY <1>3, <4>1 DEF Before
    <3>2. rest[i] = taken + i /\ i \in Nat /\ i > 0 /\ taken \in Nat /\ fresh \in Int
      BY <1>t, IInvTypes
    <3>3. (Before + has_buffer_size)' = fresh + taken
      BY <1>3, <3>1
    <3> DEFINE b == Before + has_buffer_size
    <3>4. Nth(b + i)' = IF b' + i <= fresh' THEN Unset ELSE (b' + i) - fresh'
      BY Zenon DEF Nth
    <3>6. b' = fresh + taken
      BY <3>3
    <3> HIDE DEF b
    <3>5. Nth(b + i)' = taken + i
      BY <3>2, <3>4, <3>6
    <3> QED BY <3>2, <3>5 DEF b
  <2> QED BY <1>1, <1>2, <1>3, <2>1, <2>2, <2>3 DEF IInv, HeldInOrder
<1>6. FileInOrder' /\ FileIsBehind' /\ OrderKept'
  <2>1. writing'.offset <= Len(writing'.data)
    BY <1>1, <1>2
  <2>2. Before' + Sent' = Before + Sent /\ Sent' = 0
    BY <1>3
  <2> QED BY <2>1, <2>2, FileUntouched
<1> QED BY <1>4, <1>5, <1>6 DEF IInv

\* A step that changes at most durable, the history and an open file's mode.
LEMMA QuietStepKeepsIInv ==
  ASSUME IInv, HistoryGoesOn, taken' = taken,
         UNCHANGED <<buffer, has_buffer_size, fresh, file, writing, faults>>,
         durable' \in 0..Len(file), mode' = mode \/ (mode = "open" /\ mode' = "closed")
  PROVE  IInv'
<1>1. Before' = Before /\ Sent' = Sent /\ (Rubbish <=> Rubbish')
  BY DEF Before, Kept, Sent, Rubbish
<1>2. TypeOK' /\ Ranges' /\ SmallIsSafe'
  BY <1>1, IInvTypes DEF TypeOK, Byte, Memory, Ranges, IInv, SmallIsSafe, HistoryGoesOn
<1>3. HeldInOrder' /\ FileInOrder'
  BY <1>1 DEF IInv, HeldInOrder, FileInOrder, Nth
<1>4. FileIsBehind' /\ OrderKept'
  BY <1>1 DEF IInv, FileIsBehind, OrderKept
<1> QED BY <1>2, <1>3, <1>4 DEF IInv

\* Damage is done only where has_buffer_size starts outside the buffer, or by a
\* size that no int holds together with a full buffer.
LEMMA UndefinedKeepsIInv ==
  ASSUME IInv, Undefined, taken' \in Nat, taken <= taken', HistoryGoesOn,
         whole' => ~Rubbish,
         fresh' = fresh, file' = file, faults' = faults, durable' = durable
  PROVE  IInv'
<1>1. (Rubbish <=> Rubbish') /\ (fresh = 0 => fresh' = 0 /\ has_buffer_size \in 0..BufferSize)
  BY IInvTypes DEF Rubbish, Memory
<1>2. /\ buffer' \in [1..BufferSize -> 0..taken'] /\ file' \in Seq(0..taken')
      /\ writing.data \in Seq(0..taken') /\ writing.rest \in Seq(0..taken')
  BY IInvTypes, BytesStayBytes DEF Memory, Undefined
<1>3. /\ mode' = "undefined" /\ buffer' = buffer /\ has_buffer_size' = has_buffer_size
      /\ writing' = writing
  BY DEF Undefined
<1>4. TypeOK'
  BY <1>1, <1>2, <1>3, IInvTypes DEF TypeOK, Byte, Memory, IInv, HistoryGoesOn
<1>5. Ranges' /\ SmallIsSafe'
  BY <1>1, <1>3 DEF Ranges, IInv, SmallIsSafe, HistoryGoesOn
<1>6. OrderKept'
  BY DEF IInv, OrderKept
<1> QED BY <1>3, <1>4, <1>5, <1>6 DEF IInv, HeldInOrder, FileInOrder, FileIsBehind

LEMMA AppendSeenKeepsIInv ==
  ASSUME IInv, NEW n \in Nat, n <= MaxInt, mode = "open", AppendSeen(n),
         taken' = taken + n, HistoryGoesOn, whole' => Small(n),
         fresh' = fresh, file' = file, durable' = durable, faults' = faults
  PROVE  IInv'
<1>t. /\ taken' \in Nat /\ taken <= taken' /\ taken \in Nat
      /\ has_buffer_size \in Int /\ n < SizeMod /\ n <= MaxInt /\ SizeMod \in Nat
      /\ MaxInt \in Nat /\ BufferSize \in Nat \ {0}
  <2>1. taken \in Nat /\ has_buffer_size \in Int
    BY IInvTypes, Zenon
  <2>2. MaxInt < SizeMod /\ MaxInt \in Nat /\ SizeMod \in Nat /\ BufferSize \in Nat \ {0}
    BY FileAssumption
  <2> QED BY <2>1, <2>2
<1>d. /\ Data(n) \in Seq(0..taken') /\ Len(Data(n)) = n
      /\ \A i \in 1..n : Data(n)[i] = taken + i
  BY <1>t, DataIsNext
<1>m. /\ buffer \in [1..BufferSize -> 0..taken'] /\ file \in Seq(0..taken')
      /\ writing.data \in Seq(0..taken') /\ writing.rest \in Seq(0..taken')
  BY <1>t, IInvTypes, BytesStayBytes DEF Memory
<1>r. Rubbish => has_buffer_size \in 0..BufferSize
  BY <1>t DEF Rubbish, IInv, Ranges
<1>0. CASE ~(has_buffer_size + n <= MaxInt)
  <2>1. Undefined
    BY <1>0 DEF AppendSeen
  <2>2. whole' => ~Rubbish
    BY <1>0, <1>r, <1>t DEF Small
  <2> QED BY <1>t, <2>1, <2>2, UndefinedKeepsIInv
<1>1. CASE AppendToBuffer(n) /\ has_buffer_size < 0 /\ n # 0
  <2>1. ~Rubbish /\ Undefined
    BY <1>r, <1>t, <1>1 DEF AppendToBuffer
  <2> QED BY <1>t, <2>1, UndefinedKeepsIInv
<1>5. CASE AppendToBuffer(n) /\ has_buffer_size < 0 /\ n = 0
  <2>1. /\ buffer' = Copied(buffer, has_buffer_size, Data(n))
        /\ has_buffer_size' = has_buffer_size /\ ~Rubbish
        /\ writing' = writing /\ mode' = "open" /\ taken' = taken
    BY <1>r, <1>t, <1>5 DEF AppendToBuffer
  <2>2. buffer' = buffer
    <3>1. Len(Data(n)) = 0 /\ buffer \in [1..BufferSize -> 0..taken']
      BY <1>d, <1>m, <1>5
    <3>2. (has_buffer_size + 1)..(has_buffer_size + 0) = {}
      BY <1>t
    <3> QED BY <2>1, <3>1, <3>2 DEF Copied
  <2>3. UNCHANGED <<buffer, has_buffer_size, fresh, file, durable, taken, writing, mode, faults>>
    BY <1>t, <2>1, <2>2
  <2> QED BY <1>t, <2>3, QuietStepKeepsIInv, IInvTypes
<1>2. CASE AppendToBuffer(n) /\ has_buffer_size >= 0
  <2>1. /\ buffer' = Copied(buffer, has_buffer_size, Data(n))
        /\ has_buffer_size' = has_buffer_size + n
        /\ writing' = writing /\ mode' = "open"
    BY <1>t, <1>2 DEF AppendToBuffer
  <2>2. has_buffer_size + n < BufferSize /\ has_buffer_size \in Nat
    BY <1>2, <1>t DEF AppendToBuffer, Fits
  <2>3. /\ buffer' \in [1..BufferSize -> 0..taken']
        /\ \A i \in 1..BufferSize : buffer'[i] =
             IF i \in (has_buffer_size + 1)..(has_buffer_size + n)
             THEN Data(n)[i - has_buffer_size] ELSE buffer[i]
    <3> DEFINE S == 0..taken'
    <3>1. Data(n) \in Seq(S) /\ buffer \in [1..BufferSize -> S]
      BY <1>d, <1>m
    <3> HIDE DEF S
    <3>2. /\ Copied(buffer, has_buffer_size, Data(n)) \in [1..BufferSize -> S]
          /\ \A i \in 1..BufferSize : Copied(buffer, has_buffer_size, Data(n))[i] =
               IF i \in (has_buffer_size + 1)..(has_buffer_size + Len(Data(n)))
               THEN Data(n)[i - has_buffer_size] ELSE buffer[i]
      <4> DEFINE data == Data(n)
      <4> HIDE DEF data
      <4>1. data \in Seq(S)
        BY <3>1 DEF data
      <4>2. Copied(buffer, has_buffer_size, data) \in [1..BufferSize -> S]
        BY <2>2, <3>1, <4>1, CopiedIsBuffer
      <4>3. ASSUME NEW i \in 1..BufferSize
            PROVE  Copied(buffer, has_buffer_size, data)[i] =
                     IF i \in (has_buffer_size + 1)..(has_buffer_size + Len(data))
                     THEN data[i - has_buffer_size] ELSE buffer[i]
        BY <4>3 DEF Copied
      <4> QED BY <4>2, <4>3 DEF data
    <3> QED BY <1>d, <2>1, <3>2 DEF S
  <2>4. Before' = Before /\ Sent' = 0 /\ Sent = 0
    BY <1>t, <2>1, IInvTypes DEF Before, Kept, Sent
  <2>5. TypeOK' /\ Ranges' /\ SmallIsSafe'
    <3>1. writing' \in [data : Seq(0..taken'), offset : 0..(SizeMod - 1),
                        flush : BOOLEAN, rest : Seq(0..taken')]
      BY <1>m, <2>1, IInvTypes DEF Memory
    <3>2. has_buffer_size' \in 0..BufferSize
      BY <1>t, <2>1, <2>2, IInvTypes
    <3> QED BY <1>t, <1>m, <2>1, <2>3, <3>1, <3>2, IInvTypes DEF TypeOK, Byte, Ranges, IInv, SmallIsSafe, HistoryGoesOn
  <2>6. HeldInOrder'
    <3>1. ASSUME Rubbish, NEW i \in 1..has_buffer_size'
          PROVE  buffer'[i] = Nth(Before + i)'
      <4>1. i \in 1..BufferSize
        BY <1>t, <2>1, <2>2, IInvTypes
      <4>2. CASE i <= has_buffer_size
        <5>1. buffer[i] = Nth(Before + i)
          BY <1>t, <3>1, <4>2, <2>2 DEF IInv, HeldInOrder
        <5> QED BY <1>t, <2>2, <2>3, <2>4, <4>1, <4>2, <5>1 DEF Nth
      <4>3. CASE i > has_buffer_size
        <5>1. i \in (has_buffer_size + 1)..(has_buffer_size + n) /\ i - has_buffer_size \in 1..n
          BY <2>1, <2>2, <4>1, <4>3
        <5>2. buffer'[i] = taken + i - has_buffer_size
          BY <1>d, <1>t, <2>2, <2>3, <4>1, <5>1
        <5>3. Before + i = fresh + (taken + i - has_buffer_size)
          BY <1>t, <2>2, <4>1, IInvTypes DEF Before, Kept
        <5> QED BY <1>t, <2>2, <2>4, <5>1, <5>2, <5>3, IInvTypes DEF Nth
      <4> QED BY <2>2, <4>1, <4>2, <4>3
    <3>2. Rubbish => Before' >= 0
      BY <2>4 DEF IInv, HeldInOrder
    <3> QED BY <1>t, <2>1, <3>1, <3>2 DEF HeldInOrder, Rubbish
  <2>7. FileInOrder' /\ FileIsBehind' /\ OrderKept'
    BY <1>t, <2>1, <2>4, FileUntouched
  <2> QED BY <2>5, <2>6, <2>7 DEF IInv
<1>3. CASE AppendAfterFlush(n)
  <2>1. CASE has_buffer_size <= BufferSize
    <3>1. /\ has_buffer_size > 0 /\ WriteToFile(Buffered, TRUE, Data(n))
          /\ buffer' = buffer /\ has_buffer_size' = has_buffer_size
      BY <1>3, <2>1 DEF AppendAfterFlush
    <3> QED BY <1>d, <1>t, <2>1, <3>1, BufferIsWritten
  <2>2. CASE ~(has_buffer_size <= BufferSize)
    <3>1. ~Rubbish /\ Undefined
      BY <1>r, <1>t, <1>3, <2>2, IInvTypes DEF AppendAfterFlush
    <3> QED BY <1>t, <3>1, UndefinedKeepsIInv
  <2> QED BY <2>1, <2>2
<1>4. CASE AppendUnflushed(n)
  <2>1. has_buffer_size <= 0 /\ Keep(Data(n), buffer, has_buffer_size)
    BY <1>4 DEF AppendUnflushed
  <2>2. Rubbish => has_buffer_size = 0
    BY <1>r, <1>t, <2>1, IInvTypes
  <2>3. /\ Len(Data(n)) <= fresh + taken' \/ ~Rubbish
        /\ Rubbish => \A i \in 1..Len(Data(n)) :
             Data(n)[i] = Nth(fresh + taken' - Len(Data(n)) + i)
    <3>1. ASSUME Rubbish, NEW i \in 1..Len(Data(n))
          PROVE  Data(n)[i] = Nth(fresh + taken' - Len(Data(n)) + i)
      <4>1. fresh + taken' - Len(Data(n)) + i = fresh + (taken + i)
        BY <1>d, <1>t, IInvTypes
      <4>2. Data(n)[i] = taken + i /\ taken + i \in Nat /\ taken + i > 0 /\ fresh \in Int
        BY <1>d, <1>t, IInvTypes
      <4>3. Nth(fresh + (taken + i)) = taken + i
        BY <4>2 DEF Nth
      <4> QED BY <4>1, <4>2, <4>3
    <3>2. Rubbish => Len(Data(n)) <= fresh + taken'
      BY <1>d, <1>t DEF Rubbish
    <3> QED BY <3>1, <3>2
  <2>4. /\ Memory' /\ Ranges' /\ HeldInOrder'
        /\ mode' \in {"open", "write"} /\ writing'.offset = 0
        /\ Rubbish => Before' + Sent' = fresh + taken' - Len(Data(n))
    <3>1. has_buffer_size = fresh \/ has_buffer_size \in 0..BufferSize
      BY DEF IInv, Ranges
    <3> QED BY <1>d, <1>m, <1>t, <2>1, <2>2, <2>3, <3>1, IInvTypes, KeepKeepsOrder
  <2>5. Rubbish => Before' + Sent' = Before + Sent
    <3>1. Rubbish => Before = fresh + taken /\ Sent = 0
      BY <1>t, <2>2, IInvTypes DEF Before, Kept, Sent
    <3>2. fresh + taken' - Len(Data(n)) = fresh + taken
      BY <1>d, <1>t, IInvTypes
    <3> QED BY <2>4, <3>1, <3>2, IInvTypes
  <2>6. TypeOK' /\ SmallIsSafe'
    BY <1>t, <1>m, <2>4, IInvTypes DEF TypeOK, Byte, Memory, SmallIsSafe, HistoryGoesOn
  <2>7. FileInOrder' /\ FileIsBehind' /\ OrderKept'
    <3>1. Len(writing'.data) \in Nat
      BY <2>4, LenProperties DEF Memory
    <3>2. Sent' = 0
      BY <2>4, <3>1 DEF Sent
    <3>3. writing'.offset <= Len(writing'.data)
      BY <2>4, <3>1
    <3> QED BY <1>t, <2>5, <3>2, <3>3, FileUntouched
  <2> QED BY <2>4, <2>6, <2>7 DEF IInv
<1> QED BY <1>0, <1>1, <1>2, <1>3, <1>4, <1>5, <1>t DEF AppendSeen

LEMMA AppendKeepsIInv ==
  ASSUME IInv, NEW n \in Nat, AppendData(n)
  PROVE  IInv'
<1>1. /\ mode = "open" /\ fresh' = fresh /\ file' = file /\ durable' = durable
      /\ faults' = faults /\ handed' = handed + n /\ whole' = (whole /\ Small(n))
      /\ taken \in Nat /\ handed \in Nat /\ whole \in BOOLEAN
      /\ size(n) \in Int /\ size(n) <= MaxInt /\ (n <= MaxInt => size(n) = n)
  BY IInvTypes, SizeIsInt DEF AppendData
<1>2. Small(n) => n <= MaxInt
  BY FileAssumption DEF Small
<1>3. (whole => taken = handed) /\ handed' \in Nat /\ whole' \in BOOLEAN
  BY <1>1 DEF IInv, SmallIsSafe
<1>4. CASE size(n) >= 0
  <2>1. taken' = taken + size(n) /\ AppendSeen(size(n)) /\ size(n) \in Nat
    BY <1>1, <1>4 DEF AppendData
  <2>2. HistoryGoesOn
    BY <1>1, <1>2, <1>3, <2>1 DEF HistoryGoesOn
  <2>3. whole' => Small(size(n))
    BY <1>1, <1>2
  <2> QED BY <1>1, <2>1, <2>2, <2>3, AppendSeenKeepsIInv
<1>5. CASE ~(size(n) >= 0)
  <2>1. taken' = taken /\ Undefined
    BY <1>5 DEF AppendData
  <2>2. ~whole'
    <3>1. ~Small(n)
      BY <1>1, <1>2, <1>5
    <3> QED BY <1>1, <3>1, Zenon
  <2> QED BY <1>1, <1>3, <2>1, <2>2, UndefinedKeepsIInv DEF HistoryGoesOn
<1> QED BY <1>4, <1>5

LEMMA FlushKeepsIInv ==
  ASSUME IInv, FlushBUffer
  PROVE  IInv'
<1>h. HistoryGoesOn
  BY NoAppendGoesOn DEF FlushBUffer
<1>t. /\ mode = "open" /\ has_buffer_size > 0 /\ taken' = taken
      /\ fresh' = fresh /\ file' = file /\ durable' = durable /\ faults' = faults
  BY DEF FlushBUffer
<1>1. CASE has_buffer_size <= BufferSize
  <2>1. /\ WriteToFile(Buffered, TRUE, <<>>)
        /\ buffer' = buffer /\ has_buffer_size' = has_buffer_size
    BY <1>1 DEF FlushBUffer
  <2>2. /\ <<>> \in Seq(0..taken') /\ Len(<<>>) < SizeMod /\ taken' = taken + Len(<<>>)
        /\ \A i \in 1..Len(<<>>) : <<>>[i] = taken + i
    BY <1>t, IInvTypes, EmptySeq
  <2> QED BY <1>h, <1>t, <1>1, <2>1, <2>2, BufferIsWritten
<1>2. CASE ~(has_buffer_size <= BufferSize)
  <2>1. Undefined /\ ~Rubbish
    BY <1>2, IInvTypes DEF FlushBUffer, IInv, Ranges, Rubbish
  <2> QED BY <1>h, <1>t, <2>1, UndefinedKeepsIInv, IInvTypes
<1> QED BY <1>1, <1>2

LEMMA WriteKeepsIInv ==
  ASSUME IInv, NEW k \in 1..Len(Unwritten), Write(k)
  PROVE  IInv'
<1> DEFINE data == writing.data
           rest == writing.rest
           offset == writing.offset
           chunk == SubSeq(Unwritten, 1, k)
           S == 0..taken
<1>h. HistoryGoesOn
  BY NoAppendGoesOn DEF Write
<1>t. /\ mode = "write" /\ mode' = mode /\ taken' = taken /\ fresh' = fresh
      /\ buffer' = buffer /\ has_buffer_size' = has_buffer_size
      /\ durable' = durable /\ faults' = faults
      /\ file' = file \o chunk /\ writing' = [writing EXCEPT !.offset = offset + k]
  BY DEF Write
<1>s. /\ file \in Seq(S) /\ data \in Seq(S) /\ rest \in Seq(S) /\ offset \in Nat
      /\ Len(data) \in Nat /\ Len(file) \in Nat /\ Len(data) < SizeMod
      /\ taken \in Nat /\ faults \in Nat /\ fresh \in Int /\ SizeMod \in Nat
  BY IInvTypes DEF IInv, Ranges
<1>w. /\ writing' = [data |-> data, offset |-> offset + k, flush |-> writing.flush, rest |-> rest]
      /\ writing'.data = data /\ writing'.offset = offset + k /\ writing'.rest = rest
      /\ writing'.flush = writing.flush
  BY <1>t, IInvTypes DEF Memory
<1> HIDE DEF S
<1>u. /\ Unwritten \in Seq(S)
      /\ Len(Unwritten) = IF offset < Len(data) THEN Len(data) - offset ELSE 0
      /\ \A i \in 1..Len(Unwritten) : Unwritten[i] = data[offset + i]
  BY <1>s, UnwrittenIsTheEnd
<1>k. k \in Nat /\ k > 0 /\ offset + k <= Len(data) /\ offset < Len(data)
  BY <1>s, <1>u
<1>c. /\ chunk \in Seq(S) /\ Len(chunk) = k
      /\ \A i \in 1..k : chunk[i] = data[offset + i]
  <2>1. \A i \in 1..k : i \in 1..Len(Unwritten) /\ Unwritten[i] \in S
    BY <1>k, <1>u, ElementOfSeq
  <2>2. /\ SubSeq(Unwritten, 1, k) \in Seq(S)
        /\ Len(SubSeq(Unwritten, 1, k)) = IF 1 <= k THEN k - 1 + 1 ELSE 0
        /\ \A i \in 1..(k - 1 + 1) : SubSeq(Unwritten, 1, k)[i] = Unwritten[1 + i - 1]
    BY <1>k, <2>1, SubSeqProperties
  <2>3. ASSUME NEW i \in 1..k PROVE chunk[i] = data[offset + i]
    <3>1. i \in 1..(k - 1 + 1) /\ 1 + i - 1 = i
      BY <1>k
    <3> QED BY <1>u, <2>1, <2>2, <3>1
  <2> QED BY <1>k, <2>2, <2>3
<1> HIDE DEF chunk
<1>f. /\ file' \in Seq(S) /\ Len(file') = Len(file) + k
      /\ \A i \in 1..Len(file) : file'[i] = file[i]
      /\ \A i \in 1..k : file'[Len(file) + i] = data[offset + i]
  <2>1. /\ file \o chunk \in Seq(S) /\ Len(file \o chunk) = Len(file) + k
        /\ \A i \in 1..(Len(file) + k) : (file \o chunk)[i] =
             IF i <= Len(file) THEN file[i] ELSE chunk[i - Len(file)]
    BY <1>s, <1>c, ConcatProperties
  <2>2. ASSUME NEW i \in 1..Len(file) PROVE file'[i] = file[i]
    BY <1>t, <1>s, <1>k, <2>1
  <2>3. ASSUME NEW i \in 1..k PROVE file'[Len(file) + i] = data[offset + i]
    <3>1. Len(file) + i \in 1..(Len(file) + k) /\ Len(file) + i - Len(file) = i
          /\ ~(Len(file) + i <= Len(file))
      BY <1>s, <1>k
    <3> QED BY <1>t, <1>c, <2>1, <3>1
  <2> QED BY <1>t, <2>1, <2>2, <2>3
<1>i. ASSUME NEW i \in 1..Len(file')
      PROVE  i \in 1..Len(file) \/ \E m \in 1..k : i = Len(file) + m
  <2>1. CASE i <= Len(file)
    BY <1>s, <2>1
  <2>2. CASE i > Len(file)
    <3>1. i - Len(file) \in 1..k /\ i = Len(file) + (i - Len(file))
      BY <1>s, <1>k, <1>f, <2>2
    <3> QED BY <3>1
  <2> QED BY <1>s, <2>1, <2>2
<1>b. Before' = Before /\ Sent = offset /\ Sent' = offset + k /\ Before \in Int
  <2>1. Sent = offset
    BY <1>t, <1>k DEF Sent
  <2>2. Sent' = offset + k
    <3>1. Sent' = IF offset + k < Len(data) THEN offset + k ELSE Len(data)
      BY <1>t, <1>w DEF Sent
    <3> HIDE DEF offset, data
    <3> QED BY <1>k, <1>s, <3>1
  <2>3. Before' = Before /\ Before \in Int
    BY <1>t, <1>w, <1>s, IInvTypes, SMTT(30) DEF Before, Kept
  <2> QED BY <2>1, <2>2, <2>3
<1>r. (Rubbish <=> Rubbish') /\ (fresh = 0 => Rubbish)
  BY <1>t, FileAssumption DEF Rubbish
<1>n. ASSUME Rubbish, NEW m \in 1..k
      PROVE  data[offset + m] = Nth(Before + offset + m)
  <2>1. offset + m \in 1..Len(data) /\ Before + (offset + m) = Before + offset + m
    BY <1>s, <1>k, <1>b, SMTT(30)
  <2>2. data[offset + m] = Nth(Before + (offset + m))
    BY <1>n, <1>t, <2>1 DEF IInv, HeldInOrder
  <2> QED BY <2>1, <2>2
<1>p. ASSUME fresh = 0, NEW m \in 1..k
      PROVE  data[offset + m] = Before + offset + m /\ Before >= 0
  <2>1. Before >= 0
    BY <1>t, <1>p, <1>r DEF IInv, HeldInOrder
  <2>2. Before + offset + m > 0
    BY <1>s, <1>b, <2>1
  <2>3. data[offset + m] = Nth(Before + offset + m)
    BY <1>n, <1>p, <1>r
  <2> QED BY <1>b, <1>s, <1>p, <2>1, <2>2, <2>3 DEF Nth
<1>o. ASSUME fresh = 0, NEW i \in 1..Len(file)
      PROVE  file[i] <= Before + offset + faults /\ file[i] \in Nat
  <2>1. file[i] \in 0..taken
    BY <1>s, ElementOfSeq DEF S
  <2>2. file[i] <= Before + Sent + faults
    BY <1>t, <1>o DEF IInv, FileIsBehind
  <2> QED BY <1>b, <1>s, <2>1, <2>2
<1>1. TypeOK' /\ Ranges' /\ SmallIsSafe'
  <2>1. offset + k \in 0..(SizeMod - 1)
    BY <1>s, <1>k
  <2>2. durable \in 0..Len(file')
    BY <1>f, <1>k, <1>s, IInvTypes
  <2>3. SmallIsSafe' /\ handed' \in Nat /\ whole' \in BOOLEAN
    BY <1>h, <1>t DEF SmallIsSafe, HistoryGoesOn
  <2> QED BY <1>t, <1>w, <1>f, <2>1, <2>2, <2>3, IInvTypes DEF TypeOK, Byte, Memory, Ranges, IInv, S
<1>2. HeldInOrder'
  BY <1>t, <1>w, <1>b, <1>r DEF HeldInOrder, IInv, Nth
<1>3. FileInOrder'
  <2> SUFFICES ASSUME Rubbish, faults = 0
               PROVE  /\ offset + k <= Len(data) /\ Len(file') = Before + (offset + k)
                      /\ \A i \in 1..Len(file') : file'[i] = Nth(i)
    BY <1>t, <1>w, <1>b, <1>r DEF FileInOrder, Nth
  <2>1. Len(file) = Before + offset /\ \A i \in 1..Len(file) : file[i] = Nth(i)
    BY <1>t, <1>b DEF IInv, FileInOrder
  <2>2. ASSUME NEW i \in 1..Len(file') PROVE file'[i] = Nth(i)
    <3>1. ASSUME NEW m \in 1..k, i = Len(file) + m PROVE file'[i] = Nth(i)
      <4>1. i = Before + offset + m
        BY <2>1, <3>1
      <4> QED BY <1>f, <1>n, <3>1, <4>1
    <3> QED BY <1>i, <1>f, <2>1, <3>1
  <2> QED BY <1>b, <1>k, <1>s, <1>f, <2>1, <2>2
<1>4. FileIsBehind'
  <2> SUFFICES ASSUME fresh = 0, NEW i \in 1..Len(file')
               PROVE  file'[i] <= Before + (offset + k) + faults
    BY <1>t, <1>b DEF FileIsBehind
  <2>1. CASE i \in 1..Len(file)
    <3>1. file'[i] <= Before + offset + faults /\ file'[i] \in Nat
      BY <1>f, <1>o, <2>1
    <3> HIDE DEF offset
    <3> QED BY <1>b, <1>s, <1>k, <3>1
  <2>2. ASSUME NEW m \in 1..k, i = Len(file) + m
        PROVE  file'[i] <= Before + (offset + k) + faults
    <3>1. file'[i] = Before + offset + m
      BY <1>f, <1>p, <2>2
    <3> QED BY <1>b, <1>s, <1>k, <3>1, SMTT(30)
  <2> QED BY <1>i, <2>1, <2>2
<1>5. OrderKept'
  <2> SUFFICES ASSUME fresh = 0, NEW i \in 1..Len(file'), NEW j \in 1..Len(file'), i < j
               PROVE  file'[i] < file'[j] + faults
    BY <1>t DEF OrderKept
  <2>1. CASE j \in 1..Len(file)
    <3>1. i \in 1..Len(file)
      BY <1>s, <2>1
    <3> QED BY <1>f, <2>1, <3>1 DEF IInv, OrderKept
  <2>2. ASSUME NEW m \in 1..k, j = Len(file) + m
        PROVE  file'[i] < file'[j] + faults
    <3>1. file'[j] = Before + offset + m
      BY <1>f, <1>p, <2>2
    <3>2. CASE i \in 1..Len(file)
      <4>1. file'[i] <= Before + offset + faults /\ file'[i] \in Nat
        BY <1>f, <1>o, <3>2
      <4>2. m \in Nat /\ m > 0
        BY <1>k
      <4> HIDE DEF offset
      <4> QED BY <1>b, <1>s, <3>1, <4>1, <4>2
    <3>3. ASSUME NEW l \in 1..k, i = Len(file) + l
          PROVE  file'[i] < file'[j] + faults
      <4>1. file'[i] = Before + offset + l /\ l < m
        BY <1>f, <1>p, <1>s, <2>2, <3>3
      <4>2. m \in Nat /\ l \in Nat
        BY <1>k
      <4> HIDE DEF offset
      <4> QED BY <1>b, <1>s, <3>1, <4>1, <4>2
    <3> QED BY <1>i, <3>2, <3>3
  <2> QED BY <1>i, <2>1, <2>2
<1> QED BY <1>1, <1>2, <1>3, <1>4, <1>5 DEF IInv

LEMMA WriteFailsKeepsIInv ==
  ASSUME IInv, WriteFails
  PROVE  IInv'
<1> DEFINE data == writing.data
           offset == writing.offset
           back == (offset + SizeMod - 1) % SizeMod
<1>h. HistoryGoesOn
  BY NoAppendGoesOn DEF WriteFails
<1>t. /\ mode = "write" /\ mode' = mode /\ taken' = taken /\ fresh' = fresh
      /\ buffer' = buffer /\ has_buffer_size' = has_buffer_size
      /\ durable' = durable /\ file' = file /\ faults' = faults + 1
      /\ writing' = [writing EXCEPT !.offset = back] /\ Unwritten # <<>>
  BY DEF WriteFails
<1>s. /\ data \in Seq(0..taken) /\ offset \in Nat /\ Len(data) \in Nat /\ Len(data) < SizeMod
      /\ SizeMod \in Nat /\ faults \in Nat /\ taken \in Nat /\ fresh \in Int
  BY IInvTypes DEF IInv, Ranges
<1>k. offset < Len(data)
  <2>1. /\ Unwritten \in Seq(0..taken)
        /\ Len(Unwritten) = IF offset < Len(data) THEN Len(data) - offset ELSE 0
    BY <1>s, UnwrittenIsTheEnd
  <2>2. Len(Unwritten) # 0
    BY <1>t, <2>1, EmptySeq
  <2> QED BY <2>1, <2>2
<1>z. back = IF offset = 0 THEN SizeMod - 1 ELSE offset - 1
  <2>1. offset \in Nat /\ offset < SizeMod /\ SizeMod \in Nat /\ 0 < SizeMod
    BY <1>s, <1>k
  <2> HIDE DEF offset
  <2>2. CASE offset = 0
    BY <2>1, <2>2
  <2>3. CASE offset # 0
    <3>1. offset + SizeMod - 1 = SizeMod + (offset - 1) /\ offset - 1 \in Nat
          /\ offset - 1 < SizeMod
      BY <2>1, <2>3
    <3> QED BY <2>1, <2>3, <3>1
  <2> QED BY <2>2, <2>3
<1>w. /\ writing'.data = data /\ writing'.offset = back /\ writing'.rest = writing.rest
      /\ writing'.flush = writing.flush /\ back \in 0..(SizeMod - 1)
      /\ writing' = [data |-> data, offset |-> back, flush |-> writing.flush, rest |-> writing.rest]
  <2>1. back \in 0..(SizeMod - 1)
    <3> HIDE DEF back, offset
    <3> QED BY <1>s, <1>k, <1>z
  <2> QED BY <1>t, <2>1, IInvTypes DEF Memory
<1> HIDE DEF back
<1>b. /\ Before' = Before /\ Before \in Int /\ Sent = offset
      /\ Sent' \in Int /\ offset - 1 <= Sent'
  <2>1. Before' = Before
    BY <1>t, <1>w DEF Before, Kept
  <2>4. Before \in Int
    <3>1. Before = fresh + taken - (Len(data) + Len(writing.rest))
      BY <1>t DEF Before, Kept
    <3>2. Len(writing.rest) \in Nat
      BY IInvTypes, Zenon
    <3> QED BY <1>s, <3>1, <3>2
  <2>2. Sent = offset
    BY <1>t, <1>k DEF Sent
  <2>3. Sent' = IF back < Len(data) THEN back ELSE Len(data)
    BY <1>t, <1>w DEF Sent
  <2> HIDE DEF offset, data
  <2> QED BY <1>s, <1>k, <1>z, <2>1, <2>2, <2>3, <2>4
<1>r. (Rubbish <=> Rubbish') /\ (fresh = 0 => Rubbish)
  BY <1>t, FileAssumption DEF Rubbish
<1>o. ASSUME NEW i \in 1..Len(file) PROVE file[i] \in Nat
  BY IInvTypes, ElementOfSeq, SMTT(30)
<1>1. TypeOK' /\ Ranges' /\ SmallIsSafe'
  <2>1. /\ writing' \in [data : Seq(0..taken), offset : 0..(SizeMod - 1),
                        flush : BOOLEAN, rest : Seq(0..taken)]
        /\ Len(writing'.data) < SizeMod /\ Len(writing'.rest) < SizeMod
    BY <1>s, <1>w, IInvTypes DEF IInv, Ranges
  <2>2. faults' \in Nat
    BY <1>t, <1>s
  <2>3. SmallIsSafe' /\ handed' \in Nat /\ whole' \in BOOLEAN
    BY <1>h, <1>t DEF SmallIsSafe, HistoryGoesOn
  <2> QED BY <1>t, <2>1, <2>2, <2>3, IInvTypes DEF TypeOK, Byte, Ranges, IInv
<1>2. HeldInOrder'
  BY <1>t, <1>w, <1>b, <1>r DEF HeldInOrder, IInv, Nth
<1>3. FileInOrder'
  BY <1>t, <1>s DEF FileInOrder
<1>4. FileIsBehind'
  <2> SUFFICES ASSUME fresh = 0, NEW i \in 1..Len(file)
               PROVE  file[i] <= Before + Sent' + (faults + 1)
    BY <1>t, <1>b DEF FileIsBehind
  <2>1. file[i] <= Before + offset + faults
    BY <1>t, <1>b DEF IInv, FileIsBehind
  <2> HIDE DEF offset
  <2> QED BY <1>b, <1>s, <1>o, <2>1
<1>5. OrderKept'
  <2> SUFFICES ASSUME fresh = 0, NEW i \in 1..Len(file), NEW j \in 1..Len(file), i < j
               PROVE  file[i] < file[j] + (faults + 1)
    BY <1>t DEF OrderKept
  <2>1. file[i] < file[j] + faults
    BY DEF IInv, OrderKept
  <2> QED BY <1>s, <1>o, <2>1
<1> QED BY <1>1, <1>2, <1>3, <1>4, <1>5 DEF IInv

LEMMA ReturnKeepsIInv ==
  ASSUME IInv, Return
  PROVE  IInv'
<1>h. HistoryGoesOn
  BY NoAppendGoesOn DEF Return
<1>t. /\ mode = "write" /\ taken' = taken /\ fresh' = fresh
      /\ durable' = durable /\ file' = file /\ faults' = faults
      /\ writing.offset >= Len(writing.data)
  BY DEF Return
<1>s. /\ writing.rest \in Seq(0..taken) /\ writing.data \in Seq(0..taken)
      /\ Len(writing.data) \in Nat /\ Len(writing.rest) \in Nat
      /\ Len(writing.rest) < SizeMod /\ writing.offset \in Nat
      /\ taken \in Nat /\ fresh \in Int /\ fresh \in Fresh /\ has_buffer_size \in Int
  BY IInvTypes DEF IInv, Ranges
<1>b. /\ Before = fresh + taken - (Len(writing.data) + Len(writing.rest))
      /\ Sent = Len(writing.data) /\ Before + Sent = fresh + taken - Len(writing.rest)
  <2>1. Kept = Len(writing.data) + Len(writing.rest) /\ Sent = Len(writing.data)
    BY <1>t, <1>s DEF Kept, Sent
  <2>2. Before = fresh + taken - (Len(writing.data) + Len(writing.rest))
    BY <2>1 DEF Before
  <2> QED BY <1>s, <2>1, <2>2
<1>1. CASE writing.flush
  <2>1. Keep(writing.rest, Zeroed, 0)
    BY <1>1 DEF Return
  <2>2. /\ Zeroed \in [1..BufferSize -> 0..taken'] /\ 0 \in Int
        /\ 0 = fresh \/ 0 \in 0..BufferSize
    BY <1>s, <1>t, FileAssumption DEF Zeroed, Unset
  <2>3. Rubbish =>
          /\ Len(writing.rest) <= fresh + taken'
          /\ \A i \in 1..Len(writing.rest) :
               writing.rest[i] = Nth(fresh + taken' - Len(writing.rest) + i)
    <3> SUFFICES ASSUME Rubbish
                 PROVE  /\ Len(writing.rest) <= fresh + taken'
                        /\ \A i \in 1..Len(writing.rest) :
                             writing.rest[i] = Nth(fresh + taken' - Len(writing.rest) + i)
      OBVIOUS
    <3>1. /\ Before >= 0
          /\ \A i \in 1..Len(writing.rest) :
               writing.rest[i] = Nth(Before + Len(writing.data) + i)
      BY <1>t DEF IInv, HeldInOrder
    <3>2. Before + Len(writing.data) = fresh + taken' - Len(writing.rest)
      BY <1>t, <1>s, <1>b
    <3>3. Len(writing.rest) <= fresh + taken'
      <4> DEFINE d == Len(writing.data)
                 r == Len(writing.rest)
      <4>1. d \in Nat /\ r \in Nat /\ taken \in Nat /\ fresh \in Int
            /\ 0 <= fresh + taken - (d + r)
        BY <1>s, <1>b, <3>1
      <4> HIDE DEF d, r
      <4>2. r <= fresh + taken
        BY <4>1
      <4> QED BY <1>t, <4>2 DEF r
    <3> QED BY <3>1, <3>2, <3>3
  <2>4. /\ Memory' /\ Ranges' /\ HeldInOrder'
        /\ mode' \in {"open", "write"} /\ writing'.offset = 0
        /\ Rubbish => Before' + Sent' = fresh + taken' - Len(writing.rest)
    BY <1>t, <1>s, <2>1, <2>2, <2>3, KeepKeepsOrder
  <2>5. Rubbish => Before' + Sent' = Before + Sent
    BY <1>t, <1>s, <1>b, <2>4
  <2>6. TypeOK' /\ SmallIsSafe'
    BY <1>h, <1>t, <2>4, IInvTypes DEF TypeOK, Byte, Memory, SmallIsSafe, HistoryGoesOn
  <2>7. FileInOrder' /\ FileIsBehind' /\ OrderKept'
    <3>1. Len(writing'.data) \in Nat
      BY <2>4, LenProperties DEF Memory
    <3>2. Sent' = 0
      BY <2>4, <3>1 DEF Sent
    <3>3. writing'.offset <= Len(writing'.data)
      BY <2>4, <3>1
    <3> QED BY <1>t, <2>5, <3>2, <3>3, FileUntouched
  <2> QED BY <2>4, <2>6, <2>7 DEF IInv
<1>2. CASE ~writing.flush
  <2>1. /\ mode' = "open" /\ writing' = NotWriting
        /\ buffer' = buffer /\ has_buffer_size' = has_buffer_size
    BY <1>2 DEF Return
  <2>2. Sent' = 0 /\ Before' = fresh + taken - has_buffer_size
    BY <1>t, <2>1 DEF Sent, Before, Kept
  <2>3. Rubbish => Len(writing.rest) = 0 /\ has_buffer_size = 0 /\ Before >= 0
    BY <1>t, <1>2 DEF IInv, HeldInOrder
  <2>4. Rubbish => Before' + Sent' = Before + Sent
    <3> SUFFICES ASSUME Rubbish PROVE Before' + Sent' = Before + Sent
      OBVIOUS
    <3> DEFINE r == Len(writing.rest)
    <3>1. /\ Before + Sent = fresh + taken - r /\ r = 0 /\ has_buffer_size = 0
          /\ Before' = fresh + taken - has_buffer_size /\ Sent' = 0
          /\ taken \in Nat /\ fresh \in Int
      BY <1>s, <1>b, <2>2, <2>3
    <3> HIDE DEF r
    <3> QED BY <3>1
  <2>5. TypeOK' /\ Ranges' /\ SmallIsSafe'
    <3>1. <<>> \in Seq(0..taken) /\ Len(<<>>) = 0
      BY EmptySeq
    <3>2. SmallIsSafe' /\ handed' \in Nat /\ whole' \in BOOLEAN
      BY <1>h, <2>1 DEF SmallIsSafe, HistoryGoesOn
    <3> QED BY <1>t, <2>1, <3>1, <3>2, IInvTypes DEF TypeOK, Byte, Ranges, NotWriting, Memory, IInv
  <2>6. HeldInOrder'
    BY <1>s, <1>b, <2>1, <2>2, <2>3, <1>t DEF HeldInOrder, Rubbish
  <2>7. FileInOrder' /\ FileIsBehind' /\ OrderKept'
    BY <1>t, <2>1, <2>2, <2>4, FileUntouched
  <2> QED BY <2>5, <2>6, <2>7 DEF IInv
<1> QED BY <1>1, <1>2

LEMMA RestKeepsIInv ==
  ASSUME IInv, Fsync \/ Close \/ UNCHANGED vars
  PROVE  IInv'
<1>1. /\ UNCHANGED <<buffer, has_buffer_size, fresh, file, writing, faults>>
      /\ taken' = taken /\ UNCHANGED history /\ durable' \in 0..Len(file)
      /\ mode' = mode \/ (mode = "open" /\ mode' = "closed")
  BY IInvTypes DEF Fsync, Close, vars
<1> QED BY <1>1, NoAppendGoesOn, QuietStepKeepsIInv

\* A call that has reached write() only adds to the file, and one that flushes
\* with nothing more to keep leaves the buffer empty.
LEMMA WritesAddToFile ==
  ASSUME IInv, WriteStep
  PROVE  /\ taken' = taken /\ fresh' = fresh /\ Len(file) <= Len(file')
         /\ faults' = 0 => faults = 0
         /\ whole' = whole
         /\ writing.flush /\ Len(writing.rest) = 0 =>
              \/ mode' = "open" /\ has_buffer_size' = 0
              \/ mode' = "write" /\ writing'.flush /\ Len(writing'.rest) = 0
<1>t. /\ mode = "write" /\ Len(file) \in Nat /\ file \in Seq(0..taken) /\ faults \in Nat
      /\ writing \in [data : Seq(0..taken), offset : 0..(SizeMod - 1),
                      flush : BOOLEAN, rest : Seq(0..taken)]
      /\ BufferSize \in Nat /\ whole' = whole
  BY IInvTypes DEF Memory, WriteStep, Write, WriteFails, Return, history
<1>1. ASSUME NEW k \in 1..Len(Unwritten), Write(k)
      PROVE  Len(file) <= Len(file')
  <2> DEFINE S == 0..taken
             chunk == SubSeq(Unwritten, 1, k)
  <2>1. Unwritten \in Seq(S)
    BY IInvTypes, UnwrittenIsTheEnd
  <2> HIDE DEF S
  <2>2. k \in Int /\ \A i \in 1..k : Unwritten[i] \in S
    BY <2>1, LenProperties, ElementOfSeq
  <2>3. chunk \in Seq(S)
    BY <2>2, SubSeqProperties
  <2> HIDE DEF chunk
  <2>4. Len(file \o chunk) = Len(file) + Len(chunk) /\ Len(chunk) \in Nat
    BY <1>t, <2>3, ConcatProperties, LenProperties DEF S
  <2>5. file' = file \o chunk
    BY <1>1 DEF Write, chunk
  <2> QED BY <1>t, <2>4, <2>5
<1>2. CASE \E k \in 1..Len(Unwritten) : Write(k)
  BY <1>t, <1>1, <1>2 DEF Write
<1>3. CASE WriteFails
  BY <1>t, <1>3 DEF WriteFails
<1>4. CASE Return
  <2>1. /\ taken' = taken /\ fresh' = fresh /\ file' = file /\ faults' = faults
    BY <1>4 DEF Return
  <2>2. ASSUME writing.flush, Len(writing.rest) = 0
        PROVE  mode' = "open" /\ has_buffer_size' = 0
    <3>1. Keep(writing.rest, Zeroed, 0)
      BY <1>4, <2>2 DEF Return
    <3>2. ~(Len(writing.rest) > BufferSize)
      BY <1>t, <2>2
    <3> QED BY <2>2, <3>1, <3>2 DEF Keep
  <2> QED BY <1>t, <2>1, <2>2
<1> QED BY <1>2, <1>3, <1>4 DEF WriteStep

LEMMA InitGivesIInv == Init => IInv
<1> SUFFICES ASSUME Init PROVE IInv
  OBVIOUS
<1>1. /\ buffer \in [1..BufferSize -> 0..0] /\ has_buffer_size = fresh /\ fresh \in Int
      /\ fresh \in Fresh /\ \A i \in 1..BufferSize : buffer[i] = 0
      /\ file = <<>> /\ durable = 0 /\ taken = 0 /\ faults = 0 /\ mode = "open"
      /\ handed = 0 /\ whole = TRUE
      /\ writing = NotWriting /\ BufferSize \in Nat \ {0} /\ SizeMod \in Nat /\ 0 < SizeMod
  BY FileAssumption DEF Init, Zeroed, Unset
<1>2. <<>> \in Seq(0..0) /\ Len(<<>>) = 0
  BY EmptySeq
<1>3. TypeOK /\ Ranges /\ SmallIsSafe
  BY <1>1, <1>2 DEF TypeOK, Byte, Ranges, NotWriting, SmallIsSafe
<1>4. Before = 0 /\ Sent = 0
  BY <1>1 DEF Before, Kept, Sent
<1>5. HeldInOrder
  BY <1>1, <1>4 DEF HeldInOrder, Rubbish, Nth, Unset
<1>6. FileInOrder /\ FileIsBehind /\ OrderKept
  BY <1>1, <1>2, <1>4 DEF FileInOrder, FileIsBehind, OrderKept
<1> QED BY <1>3, <1>5, <1>6 DEF IInv

LEMMA StepKeepsIInv == IInv /\ [Next]_vars => IInv'
<1> SUFFICES ASSUME IInv, [Next]_vars PROVE IInv'
  OBVIOUS
<1>1. ASSUME NEW n \in Sizes, AppendData(n) PROVE IInv'
  <2>1. n \in Nat
    BY FileAssumption
  <2> QED BY <1>1, <2>1, AppendKeepsIInv
<1>2. CASE FlushBUffer
  BY <1>2, FlushKeepsIInv
<1>3. ASSUME NEW k \in 1..Len(Unwritten), Write(k) PROVE IInv'
  BY <1>3, WriteKeepsIInv
<1>4. CASE WriteFails
  BY <1>4, WriteFailsKeepsIInv
<1>5. CASE Return
  BY <1>5, ReturnKeepsIInv
<1>6. CASE Fsync \/ Close \/ UNCHANGED vars
  BY <1>6, RestKeepsIInv
<1> QED BY <1>1, <1>2, <1>3, <1>4, <1>5, <1>6 DEF Next, WriteStep

LEMMA IInvariant == Spec => []IInv
<1>1. Init => IInv
  BY InitGivesIInv
<1>2. IInv /\ [Next]_vars => IInv'
  BY StepKeepsIInv
<1> QED BY <1>1, <1>2, PTL DEF Spec

-----------------------------------------------------------------------------
(* The theorems.                                                           *)

\* The state is well formed; in particular, once has_buffer_size starts at 0,
\* it never leaves the buffer, whatever sizes are appended and writes fail.
THEOREM TypeCorrect == Spec => []TypeOK
<1>1. IInv => TypeOK
  BY DEF IInv
<1> QED BY <1>1, IInvariant, PTL

LEMMA InOrderIsNothingLost == IInv => NothingLost
<1> DEFINE total == fresh + taken
           stream == [i \in 1..total |-> IF i <= fresh THEN Unset ELSE i - fresh]
           S == 0..taken
<1> SUFFICES ASSUME IInv, Rubbish, faults = 0, mode # "undefined"
             PROVE  file \o Held = stream
  BY DEF NothingLost, Rubbish, IInv, SmallIsSafe
<1>t. /\ file \in Seq(S) /\ writing.data \in Seq(S) /\ writing.rest \in Seq(S)
      /\ Len(file) \in Nat /\ Len(writing.data) \in Nat /\ Len(writing.rest) \in Nat
      /\ writing.offset \in Nat /\ taken \in Nat /\ fresh \in Nat /\ total \in Nat
      /\ has_buffer_size \in 0..BufferSize /\ buffer \in [1..BufferSize -> S]
      /\ BufferSize \in Nat
  BY IInvTypes, SMTT(30) DEF IInv, Ranges, Rubbish
<1>f. /\ Len(file) = Before + Sent /\ \A i \in 1..Len(file) : file[i] = Nth(i)
      /\ mode = "write" => writing.offset <= Len(writing.data)
  BY DEF IInv, FileInOrder
<1>o. Before >= 0
  BY DEF IInv, HeldInOrder
<1>s. stream \in Seq(S) /\ Len(stream) = total /\ \A i \in 1..total : stream[i] = Nth(i)
  <2>1. stream \in [1..total -> S]
    BY <1>t DEF Unset
  <2>2. stream \in Seq(S)
    <3> HIDE DEF total, stream
    <3> QED BY <1>t, <2>1, SeqDef
  <2> QED BY <1>t, <2>1, <2>2 DEF Nth
<1> HIDE DEF S, stream
<1>h. /\ Held \in Seq(S) /\ Len(file) + Len(Held) = total
      /\ \A i \in 1..Len(Held) : Held[i] = Nth(Len(file) + i)
  <2>1. CASE mode = "write"
    <3> DEFINE data == writing.data
               rest == writing.rest
               offset == writing.offset
    <3>1. Held = Unwritten \o rest
      BY <2>1 DEF Held
    <3>2. /\ Unwritten \in Seq(S)
          /\ Len(Unwritten) = Len(data) - offset
          /\ \A i \in 1..Len(Unwritten) : Unwritten[i] = data[offset + i]
      <4>1. /\ Unwritten \in Seq(S)
            /\ Len(Unwritten) = IF offset < Len(data) THEN Len(data) - offset ELSE 0
            /\ \A i \in 1..Len(Unwritten) : Unwritten[i] = data[offset + i]
        BY <1>t, UnwrittenIsTheEnd
      <4> QED BY <1>t, <1>f, <2>1, <4>1
    <3>3. Before = total - (Len(data) + Len(rest)) /\ Len(file) = Before + offset
      <4>1. Sent = offset
        BY <1>t, <1>f, <2>1 DEF Sent
      <4>2. Kept = Len(data) + Len(rest)
        BY <2>1 DEF Kept
      <4> QED BY <1>t, <1>f, <4>1, <4>2 DEF Before
    <3>4. /\ \A i \in 1..Len(data) : data[i] = Nth(Before + i)
          /\ \A i \in 1..Len(rest) : rest[i] = Nth(Before + Len(data) + i)
      BY <2>1 DEF IInv, HeldInOrder
    <3>5. /\ Held \in Seq(S) /\ Len(Held) = Len(Unwritten) + Len(rest)
          /\ \A i \in 1..(Len(Unwritten) + Len(rest)) : Held[i] =
               IF i <= Len(Unwritten) THEN Unwritten[i] ELSE rest[i - Len(Unwritten)]
      BY <1>t, <3>1, <3>2, ConcatProperties
    <3>i. offset \in Nat /\ Len(data) \in Nat /\ Len(rest) \in Nat /\ offset <= Len(data)
          /\ Len(Unwritten) \in Nat /\ total \in Nat /\ Before \in Nat
      <4>1. offset <= Len(data) /\ Before \in Int
        BY <1>t, <1>f, <2>1, <3>3
      <4>2. Len(Unwritten) \in Nat
        BY <3>2, LenProperties
      <4> QED BY <1>t, <1>o, <4>1, <4>2
    <3> HIDE DEF data, rest, offset, total
    <3>6. ASSUME NEW i \in 1..Len(Held) PROVE Held[i] = Nth(Len(file) + i)
      <4>1. CASE i <= Len(Unwritten)
        <5>1. offset + i \in 1..Len(data) /\ Before + (offset + i) = Len(file) + i
              /\ i \in 1..Len(Unwritten) /\ i \in 1..(Len(Unwritten) + Len(rest))
          BY <3>i, <3>2, <3>3, <3>5, <4>1, SMTT(30)
        <5> QED BY <3>2, <3>4, <3>5, <4>1, <5>1
      <4>2. CASE ~(i <= Len(Unwritten))
        <5> DEFINE m == i - Len(Unwritten)
        <5>1. m \in 1..Len(rest) /\ Before + Len(data) + m = Len(file) + i
              /\ i \in 1..(Len(Unwritten) + Len(rest))
          BY <3>i, <3>2, <3>3, <3>5, <4>2
        <5>2. Held[i] = rest[m]
          BY <3>5, <4>2, <5>1
        <5> HIDE DEF m
        <5> QED BY <3>4, <5>1, <5>2
      <4> QED BY <4>1, <4>2
    <3>7. Len(file) + Len(Held) = total
      <4> DEFINE d == Len(data)
                 r == Len(rest)
                 u == Len(Unwritten)
                 h == Len(Held)
                 f == Len(file)
                 b == Before
      <4>1. /\ u = d - offset /\ h = u + r /\ f = b + offset /\ b = total - (d + r)
            /\ u \in Nat /\ d \in Nat /\ r \in Nat /\ b \in Nat
            /\ offset \in Nat /\ total \in Nat
        BY <3>i, <3>2, <3>3, <3>5
      <4>2. f + h = total
        <5> HIDE DEF d, r, u, h, f, b
        <5> QED BY <4>1
      <4> QED BY <4>2
    <3> QED BY <3>5, <3>6, <3>7
  <2>2. CASE mode # "write"
    <3>1. Held = Buffered /\ Sent = 0 /\ Before = total - has_buffer_size
      <4>1. Kept = has_buffer_size
        BY <2>2 DEF Kept
      <4> QED BY <1>t, <2>2, <4>1 DEF Held, Sent, Before
    <3>2. \A i \in 1..has_buffer_size : buffer[i] = Nth(Before + i)
      BY <2>2 DEF IInv, HeldInOrder
    <3>3. /\ Buffered \in Seq(S) /\ Len(Buffered) = has_buffer_size
          /\ \A i \in 1..has_buffer_size : Buffered[i] = buffer[i]
      <4>1. CASE has_buffer_size = 0
        <5>1. Buffered = <<>>
          <6>1. 1 \in Int /\ 0 \in Int /\ 0 < 1
            OBVIOUS
          <6>2. SubSeq(buffer, 1, 0) = <<>>
            BY <6>1, SubSeqEmpty
          <6> QED BY <4>1, <6>2 DEF Buffered
        <5> QED BY <4>1, <5>1, EmptySeq
      <4>2. CASE has_buffer_size # 0
        <5>1. has_buffer_size \in 1..BufferSize
          BY <1>t, <4>2
        <5> QED BY <1>t, <5>1, BufferedIsTheStart
      <4> QED BY <4>1, <4>2
    <3> QED BY <1>t, <1>f, <3>1, <3>2, <3>3
  <2> QED BY <2>1, <2>2
<1>c. /\ file \o Held \in Seq(S) /\ Len(file \o Held) = Len(file) + Len(Held)
      /\ \A i \in 1..(Len(file) + Len(Held)) : (file \o Held)[i] =
           IF i <= Len(file) THEN file[i] ELSE Held[i - Len(file)]
  BY <1>t, <1>h, ConcatProperties
<1>l. Len(Held) \in Nat
  BY <1>h, LenProperties
<1>e. ASSUME NEW i \in 1..total PROVE (file \o Held)[i] = stream[i]
  <2>1. stream[i] = Nth(i) /\ i \in 1..(Len(file) + Len(Held))
    BY <1>s, <1>h
  <2>2. CASE i <= Len(file)
    <3>1. i \in 1..Len(file)
      BY <1>t, <2>2
    <3> QED BY <1>c, <1>f, <2>1, <2>2, <3>1
  <2>3. CASE ~(i <= Len(file))
    <3> DEFINE m == i - Len(file)
    <3>1. m \in 1..Len(Held) /\ Len(file) + m = i
      BY <1>t, <1>l, <2>1, <2>3
    <3>2. (file \o Held)[i] = Held[m]
      BY <1>c, <2>1, <2>3
    <3> HIDE DEF m
    <3> QED BY <1>h, <2>1, <3>1, <3>2
  <2> QED BY <2>2, <2>3
<1> DEFINE all == file \o Held
<1>q. all \in Seq(S) /\ Len(all) = Len(stream) /\ \A i \in 1..Len(all) : all[i] = stream[i]
  BY <1>c, <1>h, <1>s, <1>e
<1> HIDE DEF all
<1>r. all = stream
  BY <1>q, <1>s, SeqEqual
<1> QED BY <1>r DEF all

\* What Append has seen is in the file, in the call under way or in the buffer,
\* all of it, once and in order, as long as no write() fails; and it has seen all
\* it was handed as long as an int holds each size together with a full buffer.
THEOREM BytesCorrect == Spec => []NothingLost
BY IInvariant, InOrderIsNothingLost, PTL

\* The bytes of the file keep the order of Append but for one step back for each
\* write() that failed.
THEOREM OrderCorrect == Spec => []OrderKept
<1>1. IInv => OrderKept
  BY DEF IInv
<1> QED BY <1>1, IInvariant, PTL

=============================================================================
