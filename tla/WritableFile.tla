---------------------------- MODULE WritableFile ----------------------------
(***************************************************************************)
(* The buffered file that tables are written through: class WritableFile   *)
(* of db/env.h, used by one thread.                                        *)
(*                                                                         *)
(* slice::size returns an int, so of a size that an int cannot hold Append *)
(* sees only what the conversion leaves.  The bytes it sees are numbered   *)
(* 1, 2, ... in the order in which they are handed over, so that the       *)
(* contents of the buffer and of the file show which bytes are where; the  *)
(* bytes beyond are never touched.  A call that reaches write() is made   *)
(* of steps, one for each write(): it may write any number of the bytes it *)
(* is given, or fail.                                                      *)
(*                                                                         *)
(* WriteToFile keeps the result of write() in a size_t.  Its test for an   *)
(* error is never true, and the -1 of a failing write() is added to offset *)
(* modulo the size of size_t.                                              *)
(***************************************************************************)
EXTENDS Integers, FiniteSets, Sequences, SequencesExt

CONSTANTS
  BufferSize,  \* MAX_BUFFER_SIZE
  MaxInt,      \* the largest int
  SizeMod,     \* one more than the largest size_t
  Sizes,       \* the sizes of the data handed to Append
  Fresh,       \* what has_buffer_size, which nothing initialises, may start at
  MaxBytes,    \* bound on the bytes handed to Append
  MaxFaults    \* bound on the write() calls that fail

\* An int holds the size together with all that the buffer may hold.
Small(n) == BufferSize + n <= MaxInt

ASSUME FileAssumption ==
  /\ BufferSize \in Nat \ {0} /\ MaxInt \in Nat /\ SizeMod \in Nat
  /\ BufferSize <= MaxInt /\ MaxInt < SizeMod
  /\ Sizes \subseteq Nat /\ Fresh \subseteq -(MaxInt + 1)..MaxInt
  /\ MaxBytes \in Nat /\ MaxFaults \in Nat

VARIABLES
  buffer,          \* the member buffer, bytes 1 to BufferSize
  has_buffer_size, \* how many bytes of it are in use
  fresh,           \* what has_buffer_size happened to start at
  file,            \* the bytes the kernel has taken, in order
  durable,         \* how many of them are known to be on the disk
  handed,          \* the number of bytes handed to Append
  taken,           \* the number of those that Append sees
  whole,           \* whether each size so far was Small
  writing,         \* the argument and the offset of the WriteToFile under way
  mode,            \* "open" between calls, "write" in one, or how it ended
  faults           \* the write() calls that have failed

history == <<handed, whole>>
vars == <<buffer, has_buffer_size, fresh, file, durable, taken, writing, mode, faults, history>>

\* What memory holds that no byte handed to Append has reached.
Unset  == 0
Zeroed == [i \in 1..BufferSize |-> Unset]

\* flush tells FlushBUffer's WriteToFile from Append's own; rest is what Append
\* has still to keep once its FlushBUffer is done.
NotWriting == [data |-> <<>>, offset |-> 0, flush |-> FALSE, rest |-> <<>>]

Init ==
  /\ buffer = Zeroed
  /\ fresh \in Fresh
  /\ has_buffer_size = fresh
  /\ file = <<>> /\ durable = 0
  /\ handed = 0 /\ taken = 0 /\ whole = TRUE
  /\ writing = NotWriting
  /\ mode = "open" /\ faults = 0

-----------------------------------------------------------------------------
\* Mistake: the size is kept in a type half as wide.
SizeNarrow(n) == n % ((MaxInt + 1) \div 2)

\* slice::size: the conversion of a size_t to int.
size(n) ==
  LET low == n % (2 * (MaxInt + 1))
  IN  IF low <= MaxInt THEN low ELSE low - 2 * (MaxInt + 1)

Data(n)  == [i \in 1..n |-> taken + i]
Buffered == SubSeq(buffer, 1, has_buffer_size)

\* memcpy of data to the start of room.
Copied(room, at, data) ==
  [i \in 1..BufferSize |->
     IF i \in (at + 1)..(at + Len(data)) THEN data[i - at] ELSE room[i]]

WriteToFile(data, flush, rest) ==
  /\ writing' = [data |-> data, offset |-> 0, flush |-> flush, rest |-> rest]
  /\ mode' = "write"

\* The object is damaged, or memory beyond it is read.
Undefined == mode' = "undefined" /\ UNCHANGED <<buffer, has_buffer_size, writing>>

\* Mistake: the bytes already in the buffer are forgotten.
FitsEmpty(n) == n < BufferSize

\* A sum of two ints.
Fits(n) == has_buffer_size + n < BufferSize

\* The end of Append, with FlushBUffer done: the buffer is room and had bytes
\* of it are in use.
Keep(data, room, had) ==
  IF Len(data) > BufferSize
  THEN /\ WriteToFile(data, FALSE, <<>>)
       /\ buffer' = room /\ has_buffer_size' = had
  ELSE /\ buffer' = Copied(room, 0, data) /\ has_buffer_size' = Len(data)
       /\ mode' = "open" /\ writing' = NotWriting

\* The memcpy starts before the buffer when has_buffer_size is negative.
AppendToBuffer(n) ==
  /\ Fits(n)
  /\ IF has_buffer_size >= 0 \/ n = 0
     THEN /\ buffer' = Copied(buffer, has_buffer_size, Data(n))
          /\ has_buffer_size' = has_buffer_size + n
          /\ UNCHANGED <<writing, mode>>
     ELSE Undefined

\* Mistake: data that the buffer cannot hold is written at once.
AppendDirectly(n) ==
  /\ ~Fits(n) /\ has_buffer_size > 0
  /\ IF has_buffer_size <= BufferSize
     THEN /\ IF n > BufferSize
             THEN WriteToFile(Data(n), FALSE, <<>>)
             ELSE WriteToFile(Buffered, TRUE, Data(n))
          /\ UNCHANGED <<buffer, has_buffer_size>>
     ELSE Undefined

AppendAfterFlush(n) ==
  /\ ~Fits(n) /\ has_buffer_size > 0
  /\ IF has_buffer_size <= BufferSize
     THEN /\ WriteToFile(Buffered, TRUE, Data(n))
          /\ UNCHANGED <<buffer, has_buffer_size>>
     ELSE Undefined

\* FlushBUffer finds nothing to write, and its IOError is ignored.
AppendUnflushed(n) ==
  /\ ~Fits(n) /\ has_buffer_size <= 0
  /\ Keep(Data(n), buffer, has_buffer_size)

\* What Append does with the n bytes it sees; the sum in its test may overflow.
AppendSeen(n) ==
  IF has_buffer_size + n <= MaxInt
  THEN AppendToBuffer(n) \/ AppendAfterFlush(n) \/ AppendUnflushed(n)
  ELSE Undefined

\* A negative size ends as a huge one in memcpy, or flushes more than the buffer.
AppendData(n) ==
  /\ mode = "open"
  /\ handed' = handed + n /\ whole' = (whole /\ Small(n))
  /\ IF size(n) >= 0
     THEN taken' = taken + size(n) /\ AppendSeen(size(n))
     ELSE taken' = taken /\ Undefined
  /\ UNCHANGED <<fresh, file, durable, faults>>

\* With nothing in the buffer the call returns IOError and changes nothing.
FlushBUffer ==
  /\ mode = "open"
  /\ has_buffer_size > 0
  /\ IF has_buffer_size <= BufferSize
     THEN /\ WriteToFile(Buffered, TRUE, <<>>)
          /\ UNCHANGED <<buffer, has_buffer_size>>
     ELSE Undefined
  /\ UNCHANGED <<fresh, file, durable, taken, faults, history>>

-----------------------------------------------------------------------------
(* WriteToFile.                                                            *)

Unwritten == SubSeq(writing.data, writing.offset + 1, Len(writing.data))

\* Mistake: what write() did not take is not written again.
WriteOnce(k) ==
  /\ mode = "write"
  /\ k \in 1..Len(Unwritten)
  /\ file' = file \o SubSeq(Unwritten, 1, k)
  /\ writing' = [writing EXCEPT !.offset = Len(writing.data)]
  /\ UNCHANGED <<buffer, has_buffer_size, fresh, durable, taken, mode, faults, history>>

\* write() takes k bytes.
Write(k) ==
  /\ mode = "write"
  /\ k \in 1..Len(Unwritten)
  /\ file' = file \o SubSeq(Unwritten, 1, k)
  /\ writing' = [writing EXCEPT !.offset = @ + k]
  /\ UNCHANGED <<buffer, has_buffer_size, fresh, durable, taken, mode, faults, history>>

\* write() fails: offset goes back by one, from 0 to the largest size_t.
WriteFails ==
  /\ mode = "write" /\ Unwritten # <<>>
  /\ faults < MaxFaults
  /\ faults' = faults + 1
  /\ writing' = [writing EXCEPT !.offset = (@ + SizeMod - 1) % SizeMod]
  /\ UNCHANGED <<buffer, has_buffer_size, fresh, file, durable, taken, mode, history>>

\* Mistake: the loop goes on with nothing left to write.
ReturnLate ==
  /\ mode = "write"
  /\ writing.offset > Len(writing.data)
  /\ IF writing.flush
     THEN Keep(writing.rest, Zeroed, 0)
     ELSE mode' = "open" /\ writing' = NotWriting /\ UNCHANGED <<buffer, has_buffer_size>>
  /\ UNCHANGED <<fresh, file, durable, taken, faults, history>>

\* The loop ends, always with OK: FlushBUffer drops the buffer, written or not.
Return ==
  /\ mode = "write"
  /\ writing.offset >= Len(writing.data)
  /\ IF writing.flush
     THEN Keep(writing.rest, Zeroed, 0)
     ELSE mode' = "open" /\ writing' = NotWriting /\ UNCHANGED <<buffer, has_buffer_size>>
  /\ UNCHANGED <<fresh, file, durable, taken, faults, history>>

-----------------------------------------------------------------------------
\* Fsync syncs what the kernel has, not the buffer.  When it fails, or when
\* syncManifest does, nothing changes.
Fsync ==
  /\ mode = "open"
  /\ durable' = Len(file)
  /\ UNCHANGED <<buffer, has_buffer_size, fresh, file, taken, writing, mode, faults, history>>

\* ~WritableFile closes the descriptor, whatever is in the buffer.
Close ==
  /\ mode = "open"
  /\ mode' = "closed"
  /\ UNCHANGED <<buffer, has_buffer_size, fresh, file, durable, taken, writing, faults, history>>

WriteStep == (\E k \in 1..Len(Unwritten) : Write(k)) \/ WriteFails \/ Return

Next ==
  \/ \E n \in Sizes : taken + size(n) <= MaxBytes /\ AppendData(n)
  \/ FlushBUffer \/ WriteStep \/ Fsync \/ Close

Spec == Init /\ [][Next]_vars

\* write() returns, and a call that has begun runs on.
FairSpec == Spec /\ WF_vars(WriteStep)

-----------------------------------------------------------------------------
Byte == 0..taken

TypeOK ==
  /\ buffer \in [1..BufferSize -> Byte]
  /\ has_buffer_size \in Int /\ fresh \in Fresh
  /\ fresh = 0 => has_buffer_size \in 0..BufferSize
  /\ file \in Seq(Byte)
  /\ durable \in 0..Len(file)
  /\ handed \in Nat /\ taken \in Nat /\ whole \in BOOLEAN /\ faults \in Nat
  /\ writing \in [data : Seq(Byte), offset : 0..(SizeMod - 1),
                  flush : BOOLEAN, rest : Seq(Byte)]
  /\ mode \in {"open", "write", "closed", "undefined"}

\* What a call under way still has to put into the file or the buffer, and what
\* the buffer keeps, in the order in which it was handed over.
Held ==
  IF mode = "write" THEN Unwritten \o writing.rest ELSE Buffered

\* As long as no write() fails nothing is lost, repeated or reordered: the file,
\* the call under way and the buffer hold together exactly the bytes that Append
\* has seen, in order, after as many bytes of rubbish as has_buffer_size happened
\* to start at, and these are all it was handed as long as an int holds each size
\* together with a full buffer.  In particular a closed file is a prefix of them.
NothingLost ==
  fresh \in 0..BufferSize /\ faults = 0 =>
    /\ whole => mode # "undefined" /\ taken = handed
    /\ mode # "undefined" => file \o Held =
         [i \in 1..(fresh + taken) |-> IF i <= fresh THEN Unset ELSE i - fresh]

\* Each failing write() takes the file back by at most one byte, also when the
\* failures follow each other; otherwise bytes reach it in the order in which
\* they were handed to Append, whatever was lost between them.
OrderKept ==
  fresh = 0 => \A i, j \in 1..Len(file) : i < j => file[i] < file[j] + faults

\* A call that reached write() comes back, if write() stops failing one day: the
\* loop of WriteToFile gains a byte and loses it again as long as each write() of
\* one byte is followed by one that fails.
WriteReturns ==
  <>[][~WriteFails]_vars => (mode = "write" ~> mode # "write")

=============================================================================
