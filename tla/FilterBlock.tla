---------------------------- MODULE FilterBlock ----------------------------
(***************************************************************************)
(* The filter block of a table: FilterBlockBuilder and FilterBlockReader   *)
(* of db/filter_block.cpp, with the Bloom filters of db/bloom.h.           *)
(*                                                                         *)
(* The builder makes one filter per 2KB window of block offsets.  Its      *)
(* result_ is kept as the byte ranges its filters occupy (a filter is the  *)
(* set of its bits and the probe count in its last byte), followed in      *)
(* Finish by the array of their offsets.  The flattened keys_ and start_   *)
(* are the sequence of keys that they encode.                              *)
(***************************************************************************)
EXTENDS Integers, Sequences

CONSTANTS
  Key,          \* the keys added to the table, and those it is asked for
  Hash,         \* Hash[k][j]: the value of h in round j for key k, 32 bits
  BitsPerKey,   \* the argument of the BloomFilterPolicy
  BlockOffset,  \* the offsets at which a block may start
  MaxKeys       \* bound on the keys waiting for one filter

ASSUME FilterAssumption ==
  /\ BitsPerKey \in Nat
  /\ Hash \in [Key -> [0..29 -> Nat]]
  /\ BlockOffset \subseteq Nat
  /\ MaxKeys \in Nat

\* The block ends with the logarithm of this number, and the reader divides by
\* the power of two that it finds there.
kFilterBase == 2048

VARIABLES
  pending,  \* the keys waiting for their filter: keys_ and start_
  filters,  \* the filters in result_, each with the bytes [start, limit) it has
  size,     \* result_.size(), without the offset array that Finish appends
  offsets,  \* filter_offsets_
  phase,    \* "start": StartBlock is generating filters; "block"; "finished"
  target,   \* filter_index of the last StartBlock
  opened,   \* the offset of the last StartBlock
  added     \* the pairs of a block offset and a key the caller has added

vars == <<pending, filters, size, offsets, phase, target, opened, added>>

-----------------------------------------------------------------------------
(* BloomFilterPolicy.                                                      *)

\* k_: bits_per_key * 0.69 rounded down, but at least 1 and at most 30.
Probes ==
  LET k == (BitsPerKey * 69) \div 100
  IN  IF k < 1 THEN 1 ELSE IF k > 30 THEN 30 ELSE k

\* At least 64 bits, rounded up to whole bytes.
FilterBytes(n) ==
  LET bits == IF n * BitsPerKey < 64 THEN 64 ELSE n * BitsPerKey
  IN  (bits + 7) \div 8

CreateFilter(keys) ==
  LET bits == 8 * FilterBytes(Len(keys))
  IN  [bits |-> bits,
       k    |-> Probes,
       set  |-> {Hash[keys[i]][j] % bits : i \in 1..Len(keys), j \in 0..(Probes - 1)}]

\* Every probe of the key hits a set bit.  The reader takes the probe count
\* from the filter; a count above 30 is reserved and matches.
PolicyKeyMayMatch(key, filter) ==
  filter.k <= 30 =>
    \A j \in 0..(filter.k - 1) : Hash[key][j] % filter.bits \in filter.set

-----------------------------------------------------------------------------
(* FilterBlockBuilder.                                                     *)

\* The constructor of TableBuilder calls StartBlock(0) at once.
Init ==
  /\ pending = <<>> /\ filters = {} /\ size = 0 /\ offsets = <<>>
  /\ phase = "block" /\ target = 0 /\ opened = 0 /\ added = {}

\* Mistakes: the offset is that of the byte before the filter; the keys are not
\* cleared; a window without keys gets no offset.
GenerateFilterAtLastByte ==
  LET limit == size + FilterBytes(Len(pending)) + 1
  IN  /\ offsets' = Append(offsets, size - 1)
      /\ IF pending = <<>>
         THEN UNCHANGED <<pending, filters, size>>
         ELSE /\ filters' = filters \cup {[start |-> size, limit |-> limit,
                                           filter |-> CreateFilter(pending)]}
              /\ size' = limit
              /\ pending' = <<>>

GenerateFilterKeepsKeys ==
  LET limit == size + FilterBytes(Len(pending)) + 1
  IN  /\ offsets' = Append(offsets, size)
      /\ IF pending = <<>>
         THEN UNCHANGED <<filters, size>>
         ELSE /\ filters' = filters \cup {[start |-> size, limit |-> limit,
                                           filter |-> CreateFilter(pending)]}
              /\ size' = limit
      /\ pending' = pending

GenerateFilterSkipsEmpty ==
  LET limit == size + FilterBytes(Len(pending)) + 1
  IN  IF pending = <<>>
      THEN UNCHANGED <<pending, filters, size, offsets>>
      ELSE /\ offsets' = Append(offsets, size)
           /\ filters' = filters \cup {[start |-> size, limit |-> limit,
                                        filter |-> CreateFilter(pending)]}
           /\ size' = limit
           /\ pending' = <<>>

\* With no keys the filter is empty: it ends where it starts.
GenerateFilter ==
  LET limit == size + FilterBytes(Len(pending)) + 1
  IN  /\ offsets' = Append(offsets, size)
      /\ IF pending = <<>>
         THEN UNCHANGED <<pending, filters, size>>
         ELSE /\ filters' = filters \cup {[start |-> size, limit |-> limit,
                                           filter |-> CreateFilter(pending)]}
              /\ size' = limit
              /\ pending' = <<>>

\* Blocks are written one behind the other, so their offsets do not decrease.
StartBlock(offset) ==
  /\ phase = "block"
  /\ offset >= opened
  /\ target' = offset \div kFilterBase
  /\ opened' = offset
  /\ phase' = IF target' > Len(offsets) THEN "start" ELSE "block"
  /\ UNCHANGED <<pending, filters, size, offsets, added>>

\* Mistake: one filter too many.
GeneratePastTarget ==
  /\ phase = "start"
  /\ GenerateFilter
  /\ phase' = IF target >= Len(offsets') THEN "start" ELSE "block"
  /\ UNCHANGED <<target, opened, added>>

\* The loop of StartBlock, until there is a filter for every earlier window.
Generate ==
  /\ phase = "start"
  /\ GenerateFilter
  /\ phase' = IF target > Len(offsets') THEN "start" ELSE "block"
  /\ UNCHANGED <<target, opened, added>>

AddKey(key) ==
  /\ phase = "block"
  /\ Len(pending) < MaxKeys
  /\ pending' = Append(pending, key)
  /\ added' = added \cup {<<opened, key>>}
  /\ UNCHANGED <<filters, size, offsets, phase, target, opened>>

\* Mistake: the keys of the last blocks get no filter, but an offset.
FinishDropsKeys ==
  /\ phase = "block"
  /\ offsets' = Append(offsets, size)
  /\ phase' = "finished"
  /\ UNCHANGED <<pending, filters, size, target, opened, added>>

\* The offset array starts where the filters end.
Finish ==
  /\ phase = "block"
  /\ IF pending = <<>>
     THEN UNCHANGED <<pending, filters, size, offsets>>
     ELSE GenerateFilter
  /\ phase' = "finished"
  /\ UNCHANGED <<target, opened, added>>

Next ==
  \/ \E offset \in BlockOffset : StartBlock(offset)
  \/ Generate
  \/ \E key \in Key : AddKey(key)
  \/ Finish

Spec == Init /\ [][Next]_vars

-----------------------------------------------------------------------------
(* FilterBlockReader, on the contents that Finish returned.                *)

\* The word i of the offset array; the one behind the last is its own offset.
Word(i) == IF i < Len(offsets) THEN offsets[i + 1] ELSE size

KeyMayMatch(offset, key) ==
  LET index == offset \div kFilterBase
  IN  index < Len(offsets) =>
        LET start == Word(index)
            limit == Word(index + 1)
        IN  IF start <= limit /\ limit <= size
            THEN /\ limit - start >= 2
                 /\ \E f \in filters :
                      /\ f.start = start /\ f.limit = limit
                      /\ PolicyKeyMayMatch(key, f.filter)
            ELSE start # limit

-----------------------------------------------------------------------------
Bloom == [bits : Nat, k : Nat, set : SUBSET Nat]

TypeOK ==
  /\ pending \in Seq(Key)
  /\ filters \subseteq [start : Nat, limit : Nat, filter : Bloom]
  /\ size \in Nat
  /\ offsets \in Seq(Nat)
  /\ phase \in {"start", "block", "finished"}
  /\ target \in Nat /\ opened \in Nat
  /\ added \subseteq Nat \X Key

Window(offset) == offset \div kFilterBase

\* A read through the filter never misses a key: whatever block a key was added
\* to, and however many empty windows and shared windows lie around it, asking
\* for the key at that block's offset answers "may match".
NoFalseNegatives ==
  phase = "finished" => \A p \in added : KeyMayMatch(p[1], p[2])

\* The assertion of StartBlock holds for every offset the caller may pass next.
StartBlockAssertion ==
  phase = "block" =>
    \A offset \in BlockOffset : offset >= opened => Window(offset) >= Len(offsets)

\* A filter rules out what it can: when a key matches at an offset that has a
\* filter, every bit it probes was set by a key added in the same window.  No
\* window's keys leak into the filter of another.
MatchesComeFromTheWindow ==
  phase = "finished" =>
    \A offset \in BlockOffset, key \in Key :
      Window(offset) < Len(offsets) /\ KeyMayMatch(offset, key) =>
        \E f \in filters :
          /\ f.start = Word(Window(offset))
          /\ \A j \in 0..(Probes - 1) : \E p \in added, i \in 0..(Probes - 1) :
               /\ Window(p[1]) = Window(offset)
               /\ Hash[p[2]][i] % f.filter.bits = Hash[key][j] % f.filter.bits

\* The loop of StartBlock ends: there are only so many windows to fill.
StartBlockReturns == phase = "start" ~> phase = "block"

FairSpec == Spec /\ WF_vars(Generate)

=============================================================================
