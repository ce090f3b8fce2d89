-------------------------------- MODULE Block --------------------------------
(***************************************************************************)
(* The encoding of a block of a table: class BlockBuilder of db/block.h,   *)
(* and how class Block reads its end.                                      *)
(*                                                                         *)
(* An entry holds how much of its key it shares with the key before it,    *)
(* the rest of the key, and the value.  Every GroupSize entries one shares *)
(* nothing: restarts_ has the places of these in the buffer.               *)
(*                                                                         *)
(* Integers are encoded in four bytes, the lowest first, and then appended *)
(* as a C string: what reaches the buffer ends before the first zero byte. *)
(*                                                                         *)
(* The constructor BlockBuilder() is declared and never defined; the       *)
(* builder is taken to start as Reset leaves it.                           *)
(***************************************************************************)
EXTENDS Integers, Sequences, SequencesExt

CONSTANTS
  Base,       \* the number of values of a byte: 256
  GroupSize,  \* groupSize: 20
  Keys,       \* the keys added, as sequences of bytes
  Values,     \* the values added, as sequences of bytes
  MaxEntries  \* bound on the entries of a block

Byte == 0..(Base - 1)

\* An integer of Base^3 or more may have no zero byte, and append would read
\* behind buf: sizes and offsets stay below it.
ASSUME BlockAssumption ==
  /\ Base \in Nat \ {0, 1} /\ GroupSize \in Nat \ {0} /\ MaxEntries \in Nat
  /\ Keys \cup Values \subseteq Seq(Byte)
  /\ \A s \in Keys \cup Values : MaxEntries * (2 * Len(s) + 12) < Base * Base * Base

VARIABLES
  buffer,    \* the bytes of the block so far
  restarts_, \* where in it the groups start
  counter,   \* the entries of the current group
  last_key,  \* the key added last
  finished,  \* Finish was called
  entries    \* the entries added: key, value, and where each starts and ends

vars == <<buffer, restarts_, counter, last_key, finished, entries>>

Init ==
  /\ buffer = <<>> /\ restarts_ = <<>> /\ counter = 0 /\ last_key = <<>>
  /\ finished = FALSE /\ entries = <<>>

-----------------------------------------------------------------------------
(* Integers as bytes.                                                      *)

EncodeFixed32(v) ==
  <<v % Base, (v \div Base) % Base, (v \div (Base * Base)) % Base,
    (v \div (Base * Base * Base)) % Base>>

DecodeFixed32(bytes) ==
  bytes[1] + Base * (bytes[2] + Base * (bytes[3] + Base * bytes[4]))

\* buffer.append(buf): up to the first zero byte.
CString(bytes) ==
  SubSeq(bytes, 1, SelectInSeq(bytes \o <<0>>, LAMBDA b : b = 0) - 1)

Encoded(v) == CString(EncodeFixed32(v))

-----------------------------------------------------------------------------
\* Mistake: one byte more than is common to the two keys.
SharedTooFar(key) ==
  IF counter = 0
  THEN 0
  ELSE CHOOSE n \in 0..Len(key) :
         /\ n <= Len(last_key) + 1
         /\ \A i \in 1..(n - 1) : key[i] = last_key[i]
         /\ n = Len(key) \/ n = Len(last_key) + 1 \/ (n > 0 /\ key[n] # last_key[n])

\* What the key has in common with the one before it; nothing in a new group.
Shared(key) ==
  IF counter = 0 THEN 0 ELSE Len(LongestCommonPrefix({key, last_key}))

Header(key, value) ==
  Encoded(Shared(key)) \o Encoded(Len(key) - Shared(key)) \o Encoded(Len(value))

Rest(key) == SubSeq(key, Shared(key) + 1, Len(key))

\* Mistake: the group gets one entry too many.
CountedLate == IF counter >= GroupSize THEN 0 ELSE counter + 1

Counted == IF counter + 1 >= GroupSize THEN 0 ELSE counter + 1

Add(key, value) ==
  /\ ~finished
  /\ buffer' = buffer \o Header(key, value) \o Rest(key) \o value
  /\ restarts_' = IF counter = 0 THEN Append(restarts_, Len(buffer)) ELSE restarts_
  /\ counter' = Counted
  /\ last_key' = key
  /\ entries' = Append(entries, [key |-> key, value |-> value, shared |-> Shared(key),
                                 at |-> Len(buffer), limit |-> Len(buffer')])
  /\ UNCHANGED finished

\* The restarts and how many they are go behind the entries.  TableBuilder calls
\* it only on a block with entries.
Finish ==
  /\ ~finished /\ entries # <<>>
  /\ buffer' = buffer \o FlattenSeq([i \in DOMAIN restarts_ |-> Encoded(restarts_[i])])
                      \o Encoded(Len(restarts_))
  /\ finished' = TRUE
  /\ UNCHANGED <<restarts_, counter, last_key, entries>>

\* Mistake: the new block goes on with the group of the old one.
ResetKeepsCounter ==
  /\ finished
  /\ buffer' = <<>> /\ restarts_' = <<>> /\ last_key' = <<>>
  /\ finished' = FALSE /\ entries' = <<>>
  /\ UNCHANGED counter

\* TableBuilder calls Reset on the block it has finished.
Reset ==
  /\ finished
  /\ buffer' = <<>> /\ restarts_' = <<>> /\ counter' = 0 /\ last_key' = <<>>
  /\ finished' = FALSE /\ entries' = <<>>

Next ==
  \/ \E key \in Keys, value \in Values : Len(entries) < MaxEntries /\ Add(key, value)
  \/ Finish \/ Reset

Spec == Init /\ [][Next]_vars

-----------------------------------------------------------------------------
(* Block, on the contents that Finish returned.                            *)

\* The word that starts n words before the end.
WordFromEnd(n) ==
  DecodeFixed32(SubSeq(buffer, Len(buffer) - 4 * n + 1, Len(buffer) - 4 * n + 4))

restartNum == WordFromEnd(1)

-----------------------------------------------------------------------------
TypeOK ==
  /\ buffer \in Seq(Byte)
  /\ restarts_ \in Seq(Nat)
  /\ counter \in 0..(GroupSize - 1)
  /\ last_key \in Keys \cup {<<>>}
  /\ finished \in BOOLEAN
  /\ entries \in Seq([key : Keys, value : Values, shared : Nat, at : Nat, limit : Nat])

\* There is a restart for every group of entries, it is the place of the first
\* one, and that entry has its whole key: a reader can begin there, also in a
\* block built after a Reset.
RestartsStartGroups ==
  LET first(g) == entries[(g - 1) * GroupSize + 1]
  IN  /\ Len(restarts_) = (Len(entries) + GroupSize - 1) \div GroupSize
      /\ \A g \in 1..Len(restarts_) :
           restarts_[g] = first(g).at /\ first(g).shared = 0

\* The bytes of an entry end with the rest of its key and its value, and that
\* rest completes what it shares with the key before it.  Nothing of a key is
\* lost by sharing.
KeysCanBeRebuilt ==
  \A i \in 1..Len(entries) :
    LET e      == entries[i]
        before == IF i = 1 THEN <<>> ELSE entries[i - 1].key
        rest   == Len(e.key) - e.shared
        from   == e.limit - Len(e.value) - rest
    IN  /\ e.shared <= Len(before) /\ e.at <= from
        /\ SubSeq(before, 1, e.shared) \o SubSeq(buffer, from + 1, from + rest) = e.key
        /\ SubSeq(buffer, from + rest + 1, e.limit) = e.value

\* The comments at Finish and at its call in TableBuilder say that it puts the
\* restart array and the number of restarts at the end of the block, which is
\* where restartNum and blockIter read them.
RestartArrayIsAtTheEnd ==
  finished =>
    LET n == Len(restarts_)
    IN  /\ Len(buffer) >= 4 * (n + 1)
        /\ restartNum = n
        /\ \A i \in 1..n : WordFromEnd(n + 2 - i) = restarts_[i]

=============================================================================
