------------------------- MODULE TableBuilderProofs -------------------------
(***************************************************************************)
(* Proofs about TableBuilder, for every size of an entry, a block and the  *)
(* buffer of the file: the index leads to every block, and the filter      *)
(* knows every key of it.  What the file does is taken from                *)
(* WritableFileProofs.                                                     *)
(***************************************************************************)
EXTENDS TableBuilder, SequenceTheorems, TLAPS

FileProofs == INSTANCE WritableFileProofs WITH Sizes <- EntrySizes, MaxBytes <- 0

\* How many bytes were handed to the file since the place rep.offset stands for.
Ahead ==
  CASE pc \in {"trailer", "index trailer"} -> rep.contents
    [] pc = "written" -> rep.contents + TrailerSize
    [] OTHER -> 0

OffsetIsTaken == pc \notin {"finished", "undefined"} => taken = rep.offset + Ahead

\* Sizes stay small enough for the file.
BlockIsSmall ==
  /\ pc = "idle" => rep.block = 0 \/ rep.block < BlockLimit
  /\ pc = "block" => \E n \in EntrySizes \cup {0} : rep.block <= BlockLimit + n

IndexIsSmall ==
  /\ rep.num_entries <= MaxEntries
  /\ pc \in {"idle", "block", "trailer", "written", "flushed", "index"} =>
       Len(index) <= rep.num_entries

\* The block that is written has entries of its own, so the one before it has
\* its index entry.
EmptyOrIndexed ==
  /\ PendingMeansEmpty
  /\ pc = "block" => ~rep.pending
  /\ pc = "flushed" => rep.block = 0 /\ rep.pending

\* A block has been handed to the file and has no index entry yet.
Unindexed ==
  \/ pc \in {"trailer", "written"}
  \/ pc \in {"idle", "block", "flushed", "index"} /\ rep.pending

EntryOf(block) ==
  [key |-> block.last, handle |-> [offset |-> block.start, size |-> block.size]]

IndexInOrder ==
  ~born.pending =>
    /\ Len(index) <= Len(blocks)
    /\ \A i \in 1..Len(index) : index[i] = EntryOf(blocks[i])
    /\ pc # "undefined" => Len(blocks) = Len(index) + (IF Unindexed THEN 1 ELSE 0)
    /\ pc = "trailer" =>
         EntryOf(blocks[Len(blocks)]) =
           [key |-> rep.last_key, handle |-> [offset |-> rep.offset, size |-> rep.contents]]
    /\ Unindexed /\ pc # "trailer" =>
         EntryOf(blocks[Len(blocks)]) = IndexEntry(rep.last_key)

\* The keys behind the last block are in the filter where the next will lie.
KeysInFilter ==
  /\ Len(filterOf) = rep.num_entries /\ rep.last_key = rep.num_entries
  /\ \A i \in 1..Len(blocks) : blocks[i].first >= 1 /\ blocks[i].last <= rep.num_entries
  /\ pc \in {"idle", "block"} =>
       /\ filterAt = rep.offset
       /\ \A key \in FirstKey..rep.num_entries : filterOf[key] = filterAt
  /\ pc \in {"trailer", "written", "flushed"} =>
       blocks # <<>> /\ blocks[Len(blocks)].last = rep.num_entries

\* Every block is in the file but one that is still being written.
BlocksInFile ==
  /\ \A i \in 1..Len(blocks) : blocks[i].start + blocks[i].size <= taken
  /\ fresh = 0 /\ faults = 0 =>
       /\ \A i \in 1..Len(blocks) :
            i < Len(blocks) \/ pc \notin {"trailer", "written", "flushed", "undefined"} =>
              blocks[i].start + blocks[i].size <= Len(file)
       /\ pc = "flushed" =>
            \/ mode = "open" /\ has_buffer_size = 0
            \/ mode = "write" /\ writing.flush /\ Len(writing.rest) = 0

\* Nothing the builder hands to the file is too large for an int.
FileSound == FileProofs!IInv /\ whole

IInv ==
  /\ FileSound /\ TypeOK
  /\ OffsetIsTaken /\ BlockIsSmall /\ IndexIsSmall /\ EmptyOrIndexed
  /\ IndexInOrder /\ KeysInFilter /\ FilterKnowsTheBlock /\ BlocksInFile

-----------------------------------------------------------------------------
(* What the file does.                                                     *)

LEMMA SizesFit ==
  /\ FileProofs!FileAssumption
  /\ \A n \in DataSizes \cup {IndexSize, TrailerSize, FooterSize} : FileProofs!Small(n)
<1>1. \A n \in DataSizes \cup {IndexSize, TrailerSize, FooterSize} : FileProofs!Small(n)
  BY BuilderAssumption DEF FileProofs!Small, File!Small
<1>2. FileProofs!FileAssumption
  BY BuilderAssumption DEF FileProofs!FileAssumption
<1> QED BY <1>1, <1>2

LEMMA AppendToFile ==
  ASSUME FileSound, NEW n \in Nat, FileProofs!Small(n), File!AppendData(n)
  PROVE  /\ FileSound' /\ mode = "open" /\ taken' = taken + n
         /\ file' = file /\ fresh' = fresh /\ faults' = faults
<1>1. FileProofs!AppendData(n)
  BY DEF File!AppendData, FileProofs!AppendData, File!AppendSeen, FileProofs!AppendSeen,
         File!size, FileProofs!size, File!Small, FileProofs!Small,
         File!AppendToBuffer, FileProofs!AppendToBuffer,
         File!AppendAfterFlush, FileProofs!AppendAfterFlush, File!AppendUnflushed,
         FileProofs!AppendUnflushed, File!Fits, FileProofs!Fits, File!Copied,
         FileProofs!Copied, File!Data, FileProofs!Data, File!Undefined,
         FileProofs!Undefined, File!WriteToFile, FileProofs!WriteToFile, File!Buffered,
         FileProofs!Buffered, File!Keep, FileProofs!Keep, File!NotWriting,
         FileProofs!NotWriting
<1>2. FileProofs!IInv'
  BY <1>1, SizesFit, FileProofs!AppendKeepsIInv DEF FileSound
<1>4. FileProofs!size(n) = n
  <2>1. FileProofs!size(n) \in Int /\ (n <= MaxInt => FileProofs!size(n) = n)
    BY SizesFit, FileProofs!SizeIsInt
  <2>2. n <= MaxInt
    BY BuilderAssumption DEF FileProofs!Small
  <2> QED BY <2>1, <2>2
<1>3. /\ mode = "open" /\ taken' = taken + n
      /\ file' = file /\ fresh' = fresh /\ faults' = faults
  BY <1>1, <1>4 DEF FileProofs!AppendData
<1>5. whole'
  BY <1>1, Zenon DEF FileProofs!AppendData, FileSound
<1> QED BY <1>2, <1>3, <1>5 DEF FileSound

LEMMA FlushOfFile ==
  ASSUME FileSound, mode = "open",
         File!FlushBUffer \/ (has_buffer_size <= 0 /\ UNCHANGED fileVars)
  PROVE  /\ FileSound' /\ taken' = taken /\ file' = file
         /\ fresh' = fresh /\ faults' = faults
         /\ fresh = 0 => \/ mode' = "open" /\ has_buffer_size' = 0
                         \/ mode' = "write" /\ writing'.flush /\ Len(writing'.rest) = 0
<1>r. fresh = 0 => has_buffer_size \in 0..BufferSize
  BY BuilderAssumption DEF FileSound, FileProofs!IInv, FileProofs!TypeOK
<1>1. CASE File!FlushBUffer
  <2>1. FileProofs!FlushBUffer
    BY <1>1 DEF File!FlushBUffer, FileProofs!FlushBUffer, File!WriteToFile,
                FileProofs!WriteToFile, File!Buffered, FileProofs!Buffered,
                File!Undefined, FileProofs!Undefined, File!history, FileProofs!history
  <2>2. FileProofs!IInv'
    BY <2>1, SizesFit, FileProofs!FlushKeepsIInv DEF FileSound
  <2>3. /\ taken' = taken /\ file' = file /\ fresh' = fresh /\ faults' = faults
        /\ whole' = whole
    BY <1>1 DEF File!FlushBUffer, File!history
  <2>4. ASSUME fresh = 0
        PROVE  mode' = "write" /\ writing'.flush /\ Len(writing'.rest) = 0
    <3>1. has_buffer_size <= BufferSize
      BY <1>r, <2>4, BuilderAssumption
    <3>2. /\ writing' = [data |-> File!Buffered, offset |-> 0, flush |-> TRUE, rest |-> <<>>]
          /\ mode' = "write"
      BY <1>1, <3>1 DEF File!FlushBUffer, File!WriteToFile
    <3> QED BY <3>2, EmptySeq
  <2> QED BY <2>2, <2>3, <2>4 DEF FileSound
<1>2. CASE has_buffer_size <= 0 /\ UNCHANGED fileVars
  <2>1. UNCHANGED FileProofs!vars
    BY <1>2 DEF fileVars, FileProofs!vars, FileProofs!history
  <2>2. FileProofs!IInv'
    BY <2>1, SizesFit, FileProofs!RestKeepsIInv DEF FileSound
  <2> QED BY <1>2, <1>r, <2>2, BuilderAssumption DEF FileSound, fileVars
<1> QED BY <1>1, <1>2

\* A step of the file alone: it goes on with a call, is closed, or stutters.
LEMMA FileGoesOn ==
  ASSUME FileSound, File!WriteStep \/ File!Close \/ UNCHANGED fileVars
  PROVE  /\ FileSound' /\ taken' = taken /\ fresh' = fresh
         /\ Len(file) <= Len(file') /\ (faults' = 0 => faults = 0)
         /\ mode = "write" /\ writing.flush /\ Len(writing.rest) = 0 =>
              \/ mode' = "open" /\ has_buffer_size' = 0
              \/ mode' = "write" /\ writing'.flush /\ Len(writing'.rest) = 0
         /\ mode = "open" => UNCHANGED has_buffer_size
         /\ mode' = mode \/ mode' = "closed" \/ mode = "write"
<1>l. Len(file) \in Nat
  BY SizesFit, FileProofs!IInvTypes DEF FileSound
<1>1. CASE File!WriteStep
  <2>1. FileProofs!WriteStep
    BY <1>1 DEF File!WriteStep, FileProofs!WriteStep, File!Write, FileProofs!Write,
                File!WriteFails, FileProofs!WriteFails, File!Return, FileProofs!Return,
                File!Keep, FileProofs!Keep, File!Copied, FileProofs!Copied,
                File!WriteToFile, FileProofs!WriteToFile, File!NotWriting,
                FileProofs!NotWriting, File!Zeroed, FileProofs!Zeroed, File!Unset,
                FileProofs!Unset, File!Unwritten, FileProofs!Unwritten, File!history,
                FileProofs!history
  <2>2. [FileProofs!Next]_(FileProofs!vars)
    BY <2>1 DEF FileProofs!Next
  <2>3. FileProofs!IInv'
    BY <2>2, SizesFit, FileProofs!StepKeepsIInv DEF FileSound
  <2>4. mode = "write"
    BY <1>1 DEF File!WriteStep, File!Write, File!WriteFails, File!Return
  <2> QED BY <2>1, <2>3, <2>4, SizesFit, FileProofs!WritesAddToFile DEF FileSound
<1>2. CASE File!Close
  <2>1. FileProofs!Close
    BY <1>2 DEF File!Close, FileProofs!Close, File!history, FileProofs!history
  <2>2. FileProofs!IInv'
    BY <2>1, SizesFit, FileProofs!RestKeepsIInv DEF FileSound
  <2> QED BY <1>2, <1>l, <2>2 DEF FileSound, File!Close, File!history
<1>3. CASE UNCHANGED fileVars
  <2>1. UNCHANGED FileProofs!vars
    BY <1>3 DEF fileVars, FileProofs!vars, FileProofs!history
  <2>2. FileProofs!IInv'
    BY <2>1, SizesFit, FileProofs!RestKeepsIInv DEF FileSound
  <2> QED BY <1>3, <1>l, <2>2 DEF FileSound, fileVars
<1> QED BY <1>1, <1>2, <1>3

LEMMA FileTyped ==
  ASSUME FileSound'
  PROVE  File!TypeOK'
BY DEF FileSound, FileProofs!IInv, FileProofs!TypeOK, File!TypeOK, FileProofs!Byte, File!Byte

LEMMA IInvTypes ==
  ASSUME IInv
  PROVE  /\ taken \in Nat /\ Len(file) \in Nat /\ file \in Seq(0..taken) /\ fresh \in Int
         /\ mode \in {"open", "write", "closed", "undefined"}
         /\ rep \in [offset : Nat, pending : BOOLEAN, handle : Handle, block : Nat,
                     contents : Nat, last_key : Nat, num_entries : Nat]
         /\ rep.offset \in Nat /\ rep.pending \in BOOLEAN /\ rep.handle \in Handle
         /\ rep.block \in Nat /\ rep.contents \in Nat /\ rep.last_key \in Nat
         /\ rep.num_entries \in Nat /\ rep.last_key = rep.num_entries
         /\ index \in Seq([key : Nat, handle : Handle]) /\ Len(index) \in Nat
         /\ filterOf \in Seq(Nat) /\ Len(filterOf) = rep.num_entries /\ filterAt \in Nat
         /\ blocks \in Seq([first : Nat, last : Nat, start : Nat, offset : Nat, size : Nat])
         /\ Len(blocks) \in Nat
         /\ \A i \in 1..Len(blocks) :
              /\ blocks[i].first \in Nat /\ blocks[i].last \in Nat /\ blocks[i].start \in Nat
              /\ blocks[i].size \in Nat /\ blocks[i].offset \in Nat
         /\ FirstKey \in Nat /\ FirstKey >= 1
<1>1. TypeOK /\ KeysInFilter
  BY DEF IInv
<1>2. /\ taken \in Nat /\ Len(file) \in Nat /\ file \in Seq(0..taken) /\ fresh \in Int
      /\ mode \in {"open", "write", "closed", "undefined"}
  BY SizesFit, FileProofs!IInvTypes DEF IInv, FileSound
<1>3. /\ Len(index) \in Nat /\ Len(blocks) \in Nat
      /\ \A i \in 1..Len(blocks) :
           blocks[i] \in [first : Nat, last : Nat, start : Nat, offset : Nat, size : Nat]
  BY <1>1, LenProperties, ElementOfSeq DEF TypeOK
<1>4. FirstKey \in Nat /\ FirstKey >= 1
  <2>1. CASE blocks = <<>>
    BY <2>1 DEF FirstKey
  <2>2. CASE blocks # <<>>
    <3>1. Len(blocks) \in 1..Len(blocks)
      <4> DEFINE S == [first : Nat, last : Nat, start : Nat, offset : Nat, size : Nat]
      <4>1. blocks \in Seq(S)
        BY <1>1 DEF TypeOK
      <4> HIDE DEF S
      <4> QED BY <2>2, <4>1, EmptySeq
    <3>2. blocks[Len(blocks)].last \in Nat
      BY <1>3, <3>1
    <3> QED BY <2>2, <3>2 DEF FirstKey, Last
  <2> QED BY <2>1, <2>2
<1> QED BY <1>1, <1>2, <1>3, <1>4 DEF TypeOK, KeysInFilter

\* The numbers among these.
LEMMA IInvNumbers ==
  ASSUME IInv
  PROVE  /\ taken \in Nat
         /\ rep.offset \in Nat /\ rep.block \in Nat /\ rep.contents \in Nat
         /\ rep.last_key \in Nat /\ rep.num_entries \in Nat
         /\ FirstKey \in Nat /\ FirstKey >= 1
         /\ BlockLimit \in Nat /\ TailSize \in Nat /\ TrailerSize \in Nat
         /\ IndexEntrySize \in Nat /\ FooterSize \in Nat /\ MaxEntries \in Nat
BY IInvTypes, BuilderAssumption

-----------------------------------------------------------------------------
(* The steps.                                                              *)

\* The file goes on, and the builder does nothing.
LEMMA FileStepKeepsIInv ==
  ASSUME IInv, UNCHANGED builderVars, File!WriteStep \/ File!Close \/ UNCHANGED fileVars,
         File!Close => pc = "finished"
  PROVE  IInv'
<1>u. /\ pc' = pc /\ finishing' = finishing /\ born' = born /\ rep' = rep /\ index' = index
      /\ footer' = footer /\ filterAt' = filterAt /\ filterOf' = filterOf /\ blocks' = blocks
  BY DEF builderVars
<1>f. /\ FileSound' /\ taken' = taken /\ fresh' = fresh
      /\ Len(file) <= Len(file') /\ (faults' = 0 => faults = 0)
      /\ mode = "write" /\ writing.flush /\ Len(writing.rest) = 0 =>
           \/ mode' = "open" /\ has_buffer_size' = 0
           \/ mode' = "write" /\ writing'.flush /\ Len(writing'.rest) = 0
      /\ mode = "open" => UNCHANGED has_buffer_size
      /\ mode' = mode \/ mode' = "closed" \/ mode = "write"
  BY FileGoesOn DEF IInv
<1>g. File!TypeOK'
  BY <1>f, FileTyped
<1>m. pc = "flushed" /\ mode = "open" => mode' = "open"
  BY DEF File!WriteStep, File!Write, File!WriteFails, File!Return, fileVars
<1>l. Len(file') \in Nat
  BY <1>g, LenProperties DEF File!TypeOK
<1>1. TypeOK'
  BY <1>u, <1>g DEF IInv, TypeOK
<1>2. OffsetIsTaken'
  BY <1>u, <1>f DEF IInv, OffsetIsTaken, Ahead
<1>3. BlockIsSmall' /\ IndexIsSmall' /\ EmptyOrIndexed'
  BY <1>u DEF IInv, BlockIsSmall, IndexIsSmall, EmptyOrIndexed, PendingMeansEmpty
<1>4. IndexInOrder'
  BY <1>u DEF IInv, IndexInOrder, EntryOf, IndexEntry, Unindexed
<1>5. KeysInFilter' /\ FilterKnowsTheBlock'
  BY <1>u DEF IInv, KeysInFilter, FilterKnowsTheBlock, FirstKey, Last
<1>6. BlocksInFile'
  <2>1. \A i \in 1..Len(blocks) : blocks[i].start + blocks[i].size <= taken
    BY DEF IInv, BlocksInFile
  <2>2. ASSUME fresh = 0, faults = 0, NEW i \in 1..Len(blocks),
               i < Len(blocks) \/ pc \notin {"trailer", "written", "flushed", "undefined"}
        PROVE  blocks[i].start + blocks[i].size <= Len(file')
    <3>1. blocks[i].start + blocks[i].size <= Len(file)
      BY <2>2 DEF IInv, BlocksInFile
    <3>2. blocks[i].start \in Nat /\ blocks[i].size \in Nat /\ Len(file) \in Nat
      BY IInvTypes
    <3> QED BY <1>f, <1>l, <3>1, <3>2
  <2>3. ASSUME fresh = 0, faults = 0, pc = "flushed"
        PROVE  \/ mode' = "open" /\ has_buffer_size' = 0
               \/ mode' = "write" /\ writing'.flush /\ Len(writing'.rest) = 0
    BY <1>f, <1>m, <2>3 DEF IInv, BlocksInFile
  <2> QED BY <1>u, <1>f, <2>1, <2>2, <2>3 DEF BlocksInFile
<1> QED BY <1>f, <1>1, <1>2, <1>3, <1>4, <1>5, <1>6 DEF IInv

\* Nothing but pc changes, to what the builder does next.
LEMMA PcKeepsIInv ==
  ASSUME IInv, UNCHANGED <<fileVars, born, rep, index, footer, filterAt, filterOf, blocks>>,
         finishing' \in BOOLEAN,
         \/ pc' = "undefined"
         \/ pc = "idle" /\ rep.block > 0 /\ pc' = "block"
         \/ pc = "idle" /\ ~(rep.block > 0) /\ pc' = "index"
         \/ pc = "index" /\ ~rep.pending /\ pc' = "footer"
  PROVE  IInv'
<1>u. /\ born' = born /\ rep' = rep /\ index' = index /\ footer' = footer
      /\ filterAt' = filterAt /\ filterOf' = filterOf /\ blocks' = blocks
      /\ taken' = taken /\ fresh' = fresh /\ file' = file /\ faults' = faults
  BY DEF fileVars
<1>f. FileSound' /\ File!TypeOK'
  <2>1. FileSound'
    BY FileGoesOn DEF IInv, fileVars
  <2> QED BY <2>1, FileTyped
<1>1. TypeOK'
  BY <1>u, <1>f DEF IInv, TypeOK
<1>2. OffsetIsTaken'
  BY <1>u DEF IInv, OffsetIsTaken, Ahead
<1>3. BlockIsSmall'
  <2>1. pc = "idle" => rep.block <= BlockLimit + 0
    BY IInvNumbers DEF IInv, BlockIsSmall
  <2> QED BY <1>u, <2>1 DEF IInv, BlockIsSmall
<1>4. IndexIsSmall' /\ EmptyOrIndexed'
  BY <1>u, IInvTypes DEF IInv, IndexIsSmall, EmptyOrIndexed, PendingMeansEmpty
<1>5. IndexInOrder'
  BY <1>u, IInvTypes
     DEF IInv, IndexInOrder, EntryOf, IndexEntry, Unindexed, EmptyOrIndexed, PendingMeansEmpty
<1>6. KeysInFilter' /\ FilterKnowsTheBlock'
  BY <1>u DEF IInv, KeysInFilter, FilterKnowsTheBlock, FirstKey, Last
<1>7. BlocksInFile'
  BY <1>u DEF IInv, BlocksInFile
<1> QED BY <1>f, <1>1, <1>2, <1>3, <1>4, <1>5, <1>6, <1>7 DEF IInv

LEMMA AddKeepsIInv ==
  ASSUME IInv, NEW n \in EntrySizes, rep.num_entries < MaxEntries, AddEntry(n)
  PROVE  IInv'
<1> DEFINE key == rep.num_entries + 1
<1>u. /\ born' = born /\ finishing' = finishing /\ footer' = footer /\ filterAt' = filterAt
      /\ blocks' = blocks /\ taken' = taken /\ fresh' = fresh /\ file' = file
      /\ faults' = faults /\ pc = "idle" /\ UNCHANGED fileVars
  BY DEF AddEntry, fileVars
<1>t. n \in Nat /\ key \in Nat /\ BlockLimit \in Nat /\ MaxEntries \in Nat
  <2>1. n \in Nat
    BY BuilderAssumption
  <2> QED BY <2>1, IInvNumbers
<1>r. /\ rep'.offset = rep.offset /\ rep'.pending = FALSE /\ rep'.handle = rep.handle
      /\ rep'.contents = rep.contents /\ rep'.last_key = key /\ rep'.num_entries = key
      /\ rep'.block = rep.block + n
      /\ rep' \in [offset : Nat, pending : BOOLEAN, handle : Handle, block : Nat,
                   contents : Nat, last_key : Nat, num_entries : Nat]
  <2>1. rep \in [offset : Nat, pending : BOOLEAN, handle : Handle, block : Nat,
                 contents : Nat, last_key : Nat, num_entries : Nat]
    BY IInvTypes
  <2>2. rep' = [rep EXCEPT !.pending = FALSE, !.last_key = key, !.num_entries = key,
                           !.block = @ + n]
    BY DEF AddEntry
  <2>3. rep.block + n \in Nat
    BY <1>t, IInvNumbers
  <2> HIDE DEF key
  <2> QED BY <1>t, <2>1, <2>2, <2>3
<1>p. pc' = IF rep.block + n >= BlockLimit THEN "block" ELSE "idle"
  BY <1>r DEF AddEntry
<1>x. /\ index' \in Seq([key : Nat, handle : Handle])
      /\ ~rep.pending => index' = index
      /\ rep.pending => /\ Len(index') = Len(index) + 1
                        /\ \A i \in 1..Len(index) : index'[i] = index[i]
                        /\ index'[Len(index) + 1] = IndexEntry(rep.last_key)
  <2> DEFINE S == [key : Nat, handle : Handle]
             e == IndexEntry(rep.last_key)
  <2>1. index \in Seq(S) /\ e \in S
    BY IInvTypes DEF IndexEntry
  <2>2. index' = IF rep.pending THEN Append(index, e) ELSE index
    BY DEF AddEntry
  <2> HIDE DEF S, e
  <2>3. /\ Append(index, e) \in Seq(S) /\ Len(Append(index, e)) = Len(index) + 1
        /\ \A i \in 1..Len(index) : Append(index, e)[i] = index[i]
        /\ Append(index, e)[Len(index) + 1] = e
    BY <2>1, AppendProperties
  <2> QED BY <2>1, <2>2, <2>3 DEF S, e
<1>o. /\ filterOf' \in Seq(Nat) /\ Len(filterOf') = key
      /\ \A k \in 1..rep.num_entries : filterOf'[k] = filterOf[k]
      /\ filterOf'[key] = filterAt
  <2>1. filterOf \in Seq(Nat) /\ filterAt \in Nat /\ Len(filterOf) = rep.num_entries
    BY IInvTypes
  <2>2. filterOf' = Append(filterOf, filterAt)
    BY DEF AddEntry
  <2> QED BY <2>1, <2>2, AppendProperties
<1>f. FileSound' /\ File!TypeOK'
  <2>1. FileSound'
    BY <1>u, FileGoesOn DEF IInv
  <2> QED BY <2>1, FileTyped
<1> HIDE DEF key
<1>1. TypeOK'
  BY <1>u, <1>f, <1>p, <1>r, <1>x, <1>o DEF IInv, TypeOK
<1>2. OffsetIsTaken'
  BY <1>u, <1>p, <1>r DEF IInv, OffsetIsTaken, Ahead
<1>3. BlockIsSmall'
  <2>1. rep.block = 0 \/ rep.block < BlockLimit
    BY <1>u DEF IInv, BlockIsSmall
  <2>2. rep.block + n <= BlockLimit + n
    BY <1>t, <2>1, IInvNumbers
  <2>3. rep.block + n >= BlockLimit \/ rep.block + n < BlockLimit
    BY <1>t, IInvNumbers
  <2> QED BY <1>p, <1>r, <2>2, <2>3 DEF BlockIsSmall
<1>4. IndexIsSmall'
  <2>1. Len(index) <= rep.num_entries /\ Len(index) \in Nat
    BY <1>u, IInvTypes DEF IInv, IndexIsSmall
  <2>2. Len(index') <= key /\ key <= MaxEntries
    <3>1. Len(index') <= rep.num_entries + 1
      <4> DEFINE m == Len(index)
                 l == Len(index')
      <4>1. m <= rep.num_entries /\ m \in Nat /\ (l = m \/ l = m + 1)
        BY <1>x, <2>1
      <4> HIDE DEF m, l
      <4>2. l <= rep.num_entries + 1
        BY <4>1, IInvNumbers
      <4> QED BY <4>2 DEF l
    <3> QED BY <3>1, IInvNumbers DEF key
  <2> QED BY <1>r, <2>2 DEF IndexIsSmall
<1>5. EmptyOrIndexed'
  BY <1>p, <1>r DEF EmptyOrIndexed, PendingMeansEmpty
<1>6. IndexInOrder'
  <2> SUFFICES ASSUME ~born.pending PROVE IndexInOrder'
    BY <1>u DEF IndexInOrder
  <2>1. /\ Len(index) <= Len(blocks)
        /\ \A i \in 1..Len(index) : index[i] = EntryOf(blocks[i])
        /\ Len(blocks) = Len(index) + (IF rep.pending THEN 1 ELSE 0)
        /\ rep.pending => EntryOf(blocks[Len(blocks)]) = IndexEntry(rep.last_key)
    BY <1>u DEF IInv, IndexInOrder, Unindexed
  <2>2. Len(index') = Len(blocks) /\ Len(index) \in Nat
    BY <1>x, <2>1, IInvTypes
  <2>3. ASSUME NEW i \in 1..Len(index') PROVE index'[i] = EntryOf(blocks[i])
    <3>1. CASE ~rep.pending
      BY <1>x, <2>1, <3>1
    <3>2. CASE rep.pending
      <4>1. i \in 1..Len(index) \/ i = Len(index) + 1
        BY <1>x, <2>2, <3>2
      <4> QED BY <1>x, <2>1, <3>2, <4>1
    <3> QED BY <3>1, <3>2
  <2>4. ~Unindexed' /\ pc' # "trailer"
    BY <1>p, <1>r DEF Unindexed
  <2>5. \A i \in 1..Len(index') : index'[i] = EntryOf(blocks[i])'
    BY <1>u, <2>3 DEF EntryOf
  <2>6. Len(index') <= Len(blocks') /\ Len(blocks') = Len(index') + 0
    BY <1>u, <2>2, IInvTypes
  <2> QED BY <2>4, <2>5, <2>6 DEF IndexInOrder
<1>7. KeysInFilter'
  <2>1. /\ \A i \in 1..Len(blocks) : blocks[i].first >= 1 /\ blocks[i].last <= rep.num_entries
        /\ filterAt = rep.offset
        /\ \A k \in FirstKey..rep.num_entries : filterOf[k] = filterAt
    BY <1>u DEF IInv, KeysInFilter
  <2>2. FirstKey' = FirstKey
    BY <1>u DEF FirstKey, Last
  <2>3. ASSUME NEW k \in FirstKey..key PROVE filterOf'[k] = filterAt
    <3>1. k \in FirstKey..rep.num_entries \/ k = key
      BY IInvNumbers DEF key
    <3>2. CASE k \in FirstKey..rep.num_entries
      <4>1. k \in 1..rep.num_entries
        BY <3>2, IInvTypes
      <4> QED BY <1>o, <2>1, <3>2, <4>1
    <3> QED BY <1>o, <3>1, <3>2
  <2>4. ASSUME NEW i \in 1..Len(blocks)
        PROVE  blocks[i].first >= 1 /\ blocks[i].last <= key
    <3>1. blocks[i].last <= rep.num_entries /\ blocks[i].last \in Nat
      BY <2>1, IInvTypes
    <3>2. blocks[i].last <= key
      BY <3>1, IInvNumbers, SMTT(30) DEF key
    <3> QED BY <2>1, <3>2
  <2> QED BY <1>u, <1>p, <1>r, <1>o, <2>1, <2>2, <2>3, <2>4 DEF KeysInFilter
<1>8. FilterKnowsTheBlock'
  <2> SUFFICES ASSUME NEW i \in 1..Len(blocks), NEW k \in blocks[i].first..blocks[i].last
               PROVE  filterOf'[k] = blocks[i].offset
    BY <1>u DEF FilterKnowsTheBlock
  <2>1. k \in 1..rep.num_entries
    <3>1. blocks[i].first >= 1 /\ blocks[i].last <= rep.num_entries
      BY DEF IInv, KeysInFilter
    <3>2. blocks[i].first \in Nat /\ blocks[i].last \in Nat
      BY IInvTypes
    <3> DEFINE a == blocks[i].first
               b == blocks[i].last
    <3>3. a \in Nat /\ b \in Nat /\ a >= 1 /\ b <= rep.num_entries /\ k \in a..b
      BY <3>1, <3>2
    <3> HIDE DEF a, b
    <3> QED BY <3>3, IInvNumbers, SMTT(30)
  <2> QED BY <1>o, <2>1 DEF IInv, FilterKnowsTheBlock
<1>9. BlocksInFile'
  BY <1>u, <1>p DEF IInv, BlocksInFile
<1> QED BY <1>f, <1>1, <1>2, <1>3, <1>4, <1>5, <1>6, <1>7, <1>8, <1>9 DEF IInv

LEMMA SmallerFits ==
  ASSUME NEW a \in Nat, NEW b \in DataSizes \cup {IndexSize, TrailerSize, FooterSize},
         b \in Nat, a <= b
  PROVE  FileProofs!Small(a)
<1>1. FileProofs!Small(b)
  BY SizesFit
<1> QED BY <1>1, BuilderAssumption DEF FileProofs!Small

LEMMA WriteContentsKeepsIInv ==
  ASSUME IInv, WriteContents
  PROVE  IInv'
<1> DEFINE size == rep.block + TailSize
           block == [first |-> FirstKey, last |-> rep.last_key, start |-> taken,
                     offset |-> rep.offset, size |-> size]
           S == [first : Nat, last : Nat, start : Nat, offset : Nat, size : Nat]
           l == Len(blocks)
<1>u. /\ pc = "block" /\ pc' = "trailer" /\ finishing' = finishing /\ born' = born
      /\ index' = index /\ footer' = footer /\ filterAt' = filterAt /\ filterOf' = filterOf
      /\ File!AppendData(size) /\ rep' = [rep EXCEPT !.contents = size]
      /\ blocks' = Append(blocks, block)
  BY DEF WriteContents
<1>t. size \in Nat /\ block \in S /\ blocks \in Seq(S) /\ l \in Nat
  <2>1. size \in Nat
    BY IInvNumbers
  <2> HIDE DEF size
  <2>2. block \in S
    BY <2>1, IInvNumbers
  <2> QED BY <2>1, <2>2, IInvTypes
<1>r. /\ rep'.offset = rep.offset /\ rep'.pending = rep.pending /\ rep'.handle = rep.handle
      /\ rep'.contents = size /\ rep'.last_key = rep.last_key
      /\ rep'.num_entries = rep.num_entries /\ rep'.block = rep.block
      /\ rep' \in [offset : Nat, pending : BOOLEAN, handle : Handle, block : Nat,
                   contents : Nat, last_key : Nat, num_entries : Nat]
  <2>1. rep \in [offset : Nat, pending : BOOLEAN, handle : Handle, block : Nat,
                 contents : Nat, last_key : Nat, num_entries : Nat]
    BY IInvTypes
  <2> HIDE DEF size
  <2> QED BY <1>u, <1>t, <2>1
<1>b. /\ block.first = FirstKey /\ block.last = rep.last_key /\ block.start = taken
      /\ block.offset = rep.offset /\ block.size = size
  OBVIOUS
<1>s. FileProofs!Small(size)
  <2>1. PICK n \in EntrySizes \cup {0} : rep.block <= BlockLimit + n
    BY <1>u DEF IInv, BlockIsSmall
  <2> DEFINE most == BlockLimit + n + TailSize
  <2>2. n \in Nat
    BY BuilderAssumption
  <2>3. most \in Nat /\ size <= most
    BY <2>1, <2>2, IInvNumbers
  <2>4. most \in DataSizes
    BY DEF DataSizes
  <2> HIDE DEF most, size
  <2> QED BY <1>t, <2>3, <2>4, SmallerFits
<1> HIDE DEF S, block, size
<1>f. /\ FileSound' /\ File!TypeOK' /\ taken' = taken + size
      /\ file' = file /\ fresh' = fresh /\ faults' = faults
  <2>1. /\ FileSound' /\ taken' = taken + size
        /\ file' = file /\ fresh' = fresh /\ faults' = faults
    BY <1>u, <1>t, <1>s, AppendToFile DEF IInv
  <2> QED BY <2>1, FileTyped
<1>l. /\ blocks' \in Seq(S) /\ Len(blocks') = l + 1 /\ blocks' # <<>>
      /\ \A i \in 1..l : blocks'[i] = blocks[i]
      /\ blocks'[l + 1] = block
  BY <1>u, <1>t, AppendProperties
<1>i. ASSUME NEW i \in 1..Len(blocks') PROVE i \in 1..l \/ i = l + 1
  <2> HIDE DEF l
  <2> QED BY <1>t, <1>l
<1>1. TypeOK'
  BY <1>u, <1>f, <1>r, <1>l DEF IInv, TypeOK, S
<1>o. taken = rep.offset
  BY <1>u, IInvNumbers DEF IInv, OffsetIsTaken, Ahead
<1>2. OffsetIsTaken'
  BY <1>u, <1>f, <1>r, <1>o DEF OffsetIsTaken, Ahead
<1>3. BlockIsSmall' /\ IndexIsSmall' /\ EmptyOrIndexed'
  BY <1>u, <1>r DEF IInv, BlockIsSmall, IndexIsSmall, EmptyOrIndexed, PendingMeansEmpty
<1>4. IndexInOrder'
  <2> SUFFICES ASSUME ~born.pending PROVE IndexInOrder'
    BY <1>u DEF IndexInOrder
  <2>1. /\ \A i \in 1..Len(index) : index[i] = EntryOf(blocks[i])
        /\ Len(index) = l
    <3>1. ~Unindexed
      BY <1>u DEF IInv, EmptyOrIndexed, Unindexed
    <3> QED BY <1>u, <3>1, IInvTypes DEF IInv, IndexInOrder
  <2>2. \A i \in 1..Len(index) : index[i] = EntryOf(blocks'[i])
    BY <1>l, <2>1
  <2>3. EntryOf(block) =
          [key |-> rep'.last_key, handle |-> [offset |-> rep'.offset, size |-> rep'.contents]]
    BY <1>r, <1>b, <1>o DEF EntryOf
  <2>4. Unindexed' /\ pc' = "trailer"
    BY <1>u DEF Unindexed
  <2>5. blocks'[Len(blocks')] = block /\ Len(index) <= Len(blocks')
        /\ Len(blocks') = Len(index) + 1
    BY <1>t, <1>l, <2>1
  <2> QED BY <1>u, <2>2, <2>3, <2>4, <2>5 DEF IndexInOrder, EntryOf
<1>k. /\ rep.last_key = rep.num_entries /\ Len(filterOf) = rep.num_entries
      /\ \A i \in 1..l : blocks[i].first >= 1 /\ blocks[i].last <= rep.num_entries
      /\ filterAt = rep.offset
      /\ \A key \in FirstKey..rep.num_entries : filterOf[key] = filterAt
  BY <1>u DEF IInv, KeysInFilter
<1>5. KeysInFilter'
  <2>1. \A i \in 1..Len(blocks') : blocks'[i].first >= 1 /\ blocks'[i].last <= rep.num_entries
    <3> SUFFICES ASSUME NEW i \in 1..Len(blocks')
                 PROVE  blocks'[i].first >= 1 /\ blocks'[i].last <= rep.num_entries
      OBVIOUS
    <3>1. CASE i \in 1..l
      BY <1>k, <1>l, <3>1
    <3>2. CASE i = l + 1
      <4>1. blocks'[i].first = FirstKey /\ blocks'[i].last = rep.num_entries
        BY <1>b, <1>k, <1>l, <3>2
      <4> QED BY <4>1, IInvNumbers
    <3> QED BY <1>i, <3>1, <3>2
  <2>2. blocks'[Len(blocks')].last = rep.num_entries
    BY <1>b, <1>k, <1>l
  <2> QED BY <1>u, <1>r, <1>k, <1>l, <2>1, <2>2 DEF KeysInFilter
<1>6. FilterKnowsTheBlock'
  <2> SUFFICES ASSUME NEW i \in 1..Len(blocks'), NEW key \in blocks'[i].first..blocks'[i].last
               PROVE  filterOf[key] = blocks'[i].offset
    BY <1>u DEF FilterKnowsTheBlock
  <2>1. CASE i \in 1..l
    BY <1>l, <2>1 DEF IInv, FilterKnowsTheBlock
  <2>2. CASE i = l + 1
    BY <1>b, <1>k, <1>l, <2>2
  <2> QED BY <1>i, <2>1, <2>2
<1>7. BlocksInFile'
  <2>1. ASSUME NEW i \in 1..Len(blocks') PROVE blocks'[i].start + blocks'[i].size <= taken'
    <3>1. CASE i \in 1..l
      <4> DEFINE a == blocks[i].start
                 b == blocks[i].size
      <4>1. a + b <= taken /\ a \in Nat /\ b \in Nat /\ blocks'[i] = blocks[i]
        BY <1>l, <3>1, IInvTypes DEF IInv, BlocksInFile
      <4> HIDE DEF a, b
      <4>2. a + b <= taken + size
        BY <1>t, <4>1, IInvNumbers
      <4> QED BY <1>f, <4>1, <4>2 DEF a, b
    <3>2. CASE i = l + 1
      <4>1. taken + size <= taken + size
        BY <1>t, IInvNumbers
      <4> QED BY <1>b, <1>f, <1>l, <3>2, <4>1
    <3> QED BY <1>i, <3>1, <3>2
  <2>2. ASSUME fresh = 0, faults = 0, NEW i \in 1..Len(blocks'), i < Len(blocks')
        PROVE  blocks'[i].start + blocks'[i].size <= Len(file)
    <3>1. i \in 1..l
      BY <1>t, <1>l, <2>2
    <3>2. blocks[i].start + blocks[i].size <= Len(file)
      BY <1>u, <2>2, <3>1 DEF IInv, BlocksInFile
    <3> QED BY <1>l, <3>1, <3>2
  <2> QED BY <1>u, <1>f, <2>1, <2>2 DEF BlocksInFile
<1> QED BY <1>f, <1>1, <1>2, <1>3, <1>4, <1>5, <1>6, <1>7 DEF IInv

\* What was handed to the file before stays where it was.
LEMMA BlocksStayInFile ==
  ASSUME IInv, blocks' = blocks, taken' \in Nat, taken <= taken', file' = file
  PROVE  /\ \A i \in 1..Len(blocks') : blocks'[i].start + blocks'[i].size <= taken'
         /\ fresh = 0 /\ faults = 0 =>
              \A i \in 1..Len(blocks') :
                i < Len(blocks') \/ pc \notin {"trailer", "written", "flushed", "undefined"} =>
                  blocks'[i].start + blocks'[i].size <= Len(file')
<1>1. ASSUME NEW i \in 1..Len(blocks) PROVE blocks[i].start + blocks[i].size <= taken'
  <2> DEFINE a == blocks[i].start
             b == blocks[i].size
  <2>1. a + b <= taken /\ a \in Nat /\ b \in Nat
    BY IInvTypes DEF IInv, BlocksInFile
  <2> HIDE DEF a, b
  <2>2. a + b <= taken'
    BY <2>1, IInvNumbers
  <2> QED BY <2>2 DEF a, b
<1>2. fresh = 0 /\ faults = 0 =>
        \A i \in 1..Len(blocks) :
          i < Len(blocks) \/ pc \notin {"trailer", "written", "flushed", "undefined"} =>
            blocks[i].start + blocks[i].size <= Len(file)
  BY DEF IInv, BlocksInFile
<1> QED BY <1>1, <1>2

LEMMA WriteTrailerKeepsIInv ==
  ASSUME IInv, WriteTrailer
  PROVE  IInv'
<1>1. CASE ~PointersSet
  <2>1. Wild
    BY <1>1 DEF WriteTrailer
  <2> QED BY <2>1, PcKeepsIInv DEF Wild, IInv, TypeOK
<1>2. CASE PointersSet
  <2> DEFINE handle == [offset |-> rep.offset, size |-> rep.contents]
  <2>u. /\ pc = "trailer" /\ pc' = "written" /\ finishing' = finishing /\ born' = born
        /\ index' = index /\ footer' = footer /\ filterAt' = filterAt
        /\ filterOf' = filterOf /\ blocks' = blocks
        /\ File!AppendData(TrailerSize) /\ rep' = [rep EXCEPT !.handle = handle]
    BY <1>2 DEF WriteTrailer
  <2>t. TrailerSize \in Nat /\ handle \in Handle
    BY IInvNumbers DEF Handle
  <2>r. /\ rep'.offset = rep.offset /\ rep'.pending = rep.pending /\ rep'.handle = handle
        /\ rep'.contents = rep.contents /\ rep'.last_key = rep.last_key
        /\ rep'.num_entries = rep.num_entries /\ rep'.block = rep.block
        /\ rep' \in [offset : Nat, pending : BOOLEAN, handle : Handle, block : Nat,
                     contents : Nat, last_key : Nat, num_entries : Nat]
    <3>1. rep \in [offset : Nat, pending : BOOLEAN, handle : Handle, block : Nat,
                   contents : Nat, last_key : Nat, num_entries : Nat]
      BY IInvTypes
    <3> HIDE DEF handle
    <3> QED BY <2>u, <2>t, <3>1
  <2>f. /\ FileSound' /\ File!TypeOK' /\ taken' = taken + TrailerSize
        /\ file' = file /\ fresh' = fresh /\ faults' = faults
    <3>1. FileProofs!Small(TrailerSize)
      BY SizesFit
    <3>2. /\ FileSound' /\ taken' = taken + TrailerSize
          /\ file' = file /\ fresh' = fresh /\ faults' = faults
      BY <2>u, <2>t, <3>1, AppendToFile DEF IInv
    <3> QED BY <3>2, FileTyped
  <2>1. TypeOK'
    BY <2>u, <2>f, <2>r DEF IInv, TypeOK
  <2>2. OffsetIsTaken'
    <3>1. taken = rep.offset + rep.contents
      BY <2>u DEF IInv, OffsetIsTaken, Ahead
    <3>2. taken + TrailerSize = rep.offset + (rep.contents + TrailerSize)
      BY <3>1, IInvNumbers
    <3> QED BY <2>u, <2>f, <2>r, <3>2 DEF OffsetIsTaken, Ahead
  <2>3. BlockIsSmall' /\ IndexIsSmall' /\ EmptyOrIndexed'
    BY <2>u, <2>r DEF IInv, BlockIsSmall, IndexIsSmall, EmptyOrIndexed, PendingMeansEmpty
  <2>4. IndexInOrder'
    BY <2>u, <2>r DEF IInv, IndexInOrder, Unindexed, EntryOf, IndexEntry
  <2>5. KeysInFilter' /\ FilterKnowsTheBlock'
    BY <2>u, <2>r DEF IInv, KeysInFilter, FilterKnowsTheBlock
  <2>6. BlocksInFile'
    <3>1. taken' \in Nat /\ taken <= taken'
      BY <2>f, IInvNumbers
    <3> QED BY <2>u, <2>f, <3>1, BlocksStayInFile DEF BlocksInFile
  <2> QED BY <2>f, <2>1, <2>2, <2>3, <2>4, <2>5, <2>6 DEF IInv
<1> QED BY <1>1, <1>2

LEMMA FlushFileKeepsIInv ==
  ASSUME IInv, FlushFile
  PROVE  IInv'
<1> DEFINE next == rep.offset + rep.contents + TrailerSize
<1>u. /\ pc = "written" /\ mode = "open" /\ pc' = "flushed" /\ finishing' = finishing
      /\ born' = born /\ index' = index /\ footer' = footer /\ filterAt' = filterAt
      /\ filterOf' = filterOf /\ blocks' = blocks
      /\ File!FlushBUffer \/ (has_buffer_size <= 0 /\ UNCHANGED fileVars)
      /\ rep' = [rep EXCEPT !.offset = next, !.block = 0, !.contents = 0, !.pending = TRUE]
  BY DEF FlushFile, NextOffset
<1>t. next \in Nat
  BY IInvNumbers
<1>r. /\ rep'.offset = next /\ rep'.pending = TRUE /\ rep'.handle = rep.handle
      /\ rep'.contents = 0 /\ rep'.last_key = rep.last_key
      /\ rep'.num_entries = rep.num_entries /\ rep'.block = 0
      /\ rep' \in [offset : Nat, pending : BOOLEAN, handle : Handle, block : Nat,
                   contents : Nat, last_key : Nat, num_entries : Nat]
  <2>1. rep \in [offset : Nat, pending : BOOLEAN, handle : Handle, block : Nat,
                 contents : Nat, last_key : Nat, num_entries : Nat]
    BY IInvTypes
  <2> HIDE DEF next
  <2> QED BY <1>u, <1>t, <2>1
<1>f. /\ FileSound' /\ File!TypeOK' /\ taken' = taken
      /\ file' = file /\ fresh' = fresh /\ faults' = faults
      /\ fresh = 0 => \/ mode' = "open" /\ has_buffer_size' = 0
                      \/ mode' = "write" /\ writing'.flush /\ Len(writing'.rest) = 0
  <2>1. /\ FileSound' /\ taken' = taken
        /\ file' = file /\ fresh' = fresh /\ faults' = faults
        /\ fresh = 0 => \/ mode' = "open" /\ has_buffer_size' = 0
                        \/ mode' = "write" /\ writing'.flush /\ Len(writing'.rest) = 0
    BY <1>u, FlushOfFile DEF IInv
  <2> QED BY <2>1, FileTyped
<1>1. TypeOK'
  BY <1>u, <1>f, <1>r DEF IInv, TypeOK
<1>2. OffsetIsTaken'
  <2>1. taken = rep.offset + (rep.contents + TrailerSize)
    BY <1>u DEF IInv, OffsetIsTaken, Ahead
  <2>2. taken = next + 0
    BY <2>1, IInvNumbers
  <2> QED BY <1>u, <1>f, <1>r, <2>2 DEF OffsetIsTaken, Ahead
<1>3. BlockIsSmall' /\ IndexIsSmall' /\ EmptyOrIndexed'
  BY <1>u, <1>r DEF IInv, BlockIsSmall, IndexIsSmall, EmptyOrIndexed, PendingMeansEmpty
<1>4. IndexInOrder'
  BY <1>u, <1>r DEF IInv, IndexInOrder, Unindexed, EntryOf, IndexEntry
<1>5. KeysInFilter' /\ FilterKnowsTheBlock'
  BY <1>u, <1>r DEF IInv, KeysInFilter, FilterKnowsTheBlock
<1>6. BlocksInFile'
  <2>1. taken' \in Nat /\ taken <= taken'
    BY <1>f, IInvNumbers
  <2> QED BY <1>u, <1>f, <2>1, BlocksStayInFile DEF BlocksInFile
<1> QED BY <1>f, <1>1, <1>2, <1>3, <1>4, <1>5, <1>6 DEF IInv

\* A file that was flushed has all that was handed to it.
LEMMA FlushedFileIsComplete ==
  ASSUME IInv, pc = "flushed", mode = "open", fresh = 0, faults = 0
  PROVE  Len(file) = taken
<1>1. has_buffer_size = 0
  BY DEF IInv, BlocksInFile
<1>2. Len(file) = FileProofs!Before + FileProofs!Sent
  BY BuilderAssumption
     DEF IInv, FileSound, FileProofs!IInv, FileProofs!FileInOrder, FileProofs!Rubbish
<1>3. FileProofs!Sent = 0 /\ FileProofs!Before = 0 + taken - 0
  BY <1>1 DEF FileProofs!Sent, FileProofs!Before, FileProofs!Kept
<1> QED BY <1>2, <1>3, IInvNumbers

LEMMA StartFilterKeepsIInv ==
  ASSUME IInv, StartFilter
  PROVE  IInv'
<1>u. /\ pc = "flushed" /\ mode = "open" /\ finishing' = finishing
      /\ pc' = (IF finishing THEN "index" ELSE "idle")
      /\ born' = born /\ index' = index /\ footer' = footer /\ filterAt' = rep.offset
      /\ filterOf' = filterOf /\ blocks' = blocks /\ rep' = rep
      /\ taken' = taken /\ file' = file /\ fresh' = fresh /\ faults' = faults
      /\ UNCHANGED fileVars
  BY DEF StartFilter, fileVars
<1>f. FileSound' /\ File!TypeOK'
  <2>1. FileSound'
    BY <1>u, FileGoesOn DEF IInv
  <2> QED BY <2>1, FileTyped
<1>p. pc' \in {"index", "idle"}
  BY <1>u
<1>1. TypeOK'
  BY <1>u, <1>f, <1>p, IInvTypes DEF IInv, TypeOK
<1>2. OffsetIsTaken'
  BY <1>u, <1>p DEF IInv, OffsetIsTaken, Ahead
<1>3. BlockIsSmall' /\ IndexIsSmall' /\ EmptyOrIndexed'
  BY <1>u, <1>p
     DEF IInv, BlockIsSmall, IndexIsSmall, EmptyOrIndexed, PendingMeansEmpty
<1>4. IndexInOrder'
  BY <1>u, <1>p DEF IInv, IndexInOrder, Unindexed, EntryOf, IndexEntry, EmptyOrIndexed
<1>5. KeysInFilter' /\ FilterKnowsTheBlock'
  <2>1. FirstKey = rep.num_entries + 1 /\ FirstKey' = FirstKey
    BY <1>u DEF IInv, KeysInFilter, FirstKey, Last
  <2>2. ~(\E key \in FirstKey..rep.num_entries : TRUE)
    BY <2>1, IInvNumbers
  <2>3. KeysInFilter'
    BY <1>u, <1>p, <2>1, <2>2 DEF IInv, KeysInFilter
  <2> QED BY <1>u, <2>3 DEF IInv, FilterKnowsTheBlock
<1>6. BlocksInFile'
  <2>1. \A i \in 1..Len(blocks) : blocks[i].start + blocks[i].size <= taken
    BY DEF IInv, BlocksInFile
  <2>2. fresh = 0 /\ faults = 0 => Len(file) = taken
    BY <1>u, FlushedFileIsComplete
  <2> QED BY <1>u, <1>p, <2>1, <2>2 DEF BlocksInFile
<1> QED BY <1>f, <1>1, <1>2, <1>3, <1>4, <1>5, <1>6 DEF IInv

LEMMA TimesMonotonic ==
  ASSUME NEW a \in Nat, NEW b \in Nat, NEW c \in Nat, a <= b
  PROVE  a * c \in Nat /\ b * c \in Nat /\ a * c <= b * c
<1>1. (b - a) * c >= 0 /\ b - a \in Nat
  OBVIOUS
<1>2. b * c = a * c + (b - a) * c
  OBVIOUS
<1> QED BY <1>1, <1>2

LEMMA WriteIndexKeepsIInv ==
  ASSUME IInv, WriteIndex
  PROVE  IInv'
<1>1. CASE ~PointersSet
  <2>1. Wild
    BY <1>1 DEF WriteIndex
  <2> QED BY <2>1, PcKeepsIInv DEF Wild, IInv, TypeOK
<1>2. CASE PointersSet
  <2> DEFINE S == [key : Nat, handle : Handle]
             e == IndexEntry(rep.last_key)
             l == Len(index)
             size == Len(index') * IndexEntrySize + TailSize
  <2>u. /\ pc = "index" /\ rep.pending /\ pc' = "index trailer" /\ finishing' = finishing
        /\ born' = born /\ index' = Append(index, e) /\ footer' = footer
        /\ filterAt' = filterAt /\ filterOf' = filterOf /\ blocks' = blocks
        /\ File!AppendData(size) /\ rep' = [rep EXCEPT !.contents = size]
    BY <1>2 DEF WriteIndex
  <2>x. /\ index' \in Seq(S) /\ Len(index') = l + 1 /\ index'[l + 1] = e
        /\ \A i \in 1..l : index'[i] = index[i]
    <3>1. index \in Seq(S) /\ e \in S
      BY IInvTypes DEF IndexEntry
    <3>2. index' = Append(index, e)
      BY <2>u
    <3> HIDE DEF S, e
    <3> QED BY <3>1, <3>2, AppendProperties
  <2>s. size \in Nat /\ FileProofs!Small(size)
    <3> DEFINE a == Len(index')
               b == MaxEntries + 1
    <3>1. l <= rep.num_entries /\ rep.num_entries <= MaxEntries /\ l \in Nat /\ a = l + 1
      BY <2>u, <2>x, IInvTypes DEF IInv, IndexIsSmall
    <3> HIDE DEF l, a
    <3>2. a \in Nat /\ b \in Nat /\ a <= b /\ IndexEntrySize \in Nat
      BY <3>1, IInvNumbers
    <3> HIDE DEF b
    <3>3. /\ a * IndexEntrySize \in Nat /\ b * IndexEntrySize \in Nat
          /\ a * IndexEntrySize <= b * IndexEntrySize
      BY <3>2, TimesMonotonic
    <3>4. /\ a * IndexEntrySize + TailSize \in Nat
          /\ a * IndexEntrySize + TailSize <= b * IndexEntrySize + TailSize
          /\ b * IndexEntrySize + TailSize \in Nat
      BY <3>3, IInvNumbers
    <3>5. size \in Nat /\ size <= IndexSize /\ IndexSize \in Nat
      BY <3>4 DEF a, b, IndexSize
    <3> HIDE DEF size
    <3> QED BY <3>5, SmallerFits
  <2> HIDE DEF size
  <2>r. /\ rep'.offset = rep.offset /\ rep'.pending = rep.pending /\ rep'.handle = rep.handle
        /\ rep'.contents = size /\ rep'.last_key = rep.last_key
        /\ rep'.num_entries = rep.num_entries /\ rep'.block = rep.block
        /\ rep' \in [offset : Nat, pending : BOOLEAN, handle : Handle, block : Nat,
                     contents : Nat, last_key : Nat, num_entries : Nat]
    <3>1. rep \in [offset : Nat, pending : BOOLEAN, handle : Handle, block : Nat,
                   contents : Nat, last_key : Nat, num_entries : Nat]
      BY IInvTypes
    <3> QED BY <2>u, <2>s, <3>1
  <2>f. /\ FileSound' /\ File!TypeOK' /\ taken' = taken + size
        /\ file' = file /\ fresh' = fresh /\ faults' = faults
    <3>1. /\ FileSound' /\ taken' = taken + size
          /\ file' = file /\ fresh' = fresh /\ faults' = faults
      BY <2>u, <2>s, AppendToFile DEF IInv
    <3> QED BY <3>1, FileTyped
  <2>1. TypeOK'
    BY <2>u, <2>f, <2>r, <2>x DEF IInv, TypeOK
  <2>2. OffsetIsTaken'
    <3>1. taken = rep.offset + 0
      <4> HIDE DEF l, S, e
      <4> QED BY <2>u DEF IInv, OffsetIsTaken, Ahead
    <3>2. taken = rep.offset
      <4> HIDE DEF l, S, e
      <4> QED BY <3>1, IInvNumbers
    <3> QED BY <2>u, <2>f, <2>r, <3>2 DEF OffsetIsTaken, Ahead
  <2>3. BlockIsSmall' /\ IndexIsSmall' /\ EmptyOrIndexed'
    BY <2>u, <2>r DEF IInv, BlockIsSmall, IndexIsSmall, EmptyOrIndexed, PendingMeansEmpty
  <2>4. IndexInOrder'
    <3> SUFFICES ASSUME ~born.pending PROVE IndexInOrder'
      BY <2>u DEF IndexInOrder
    <3>1. /\ \A i \in 1..l : index[i] = EntryOf(blocks[i])
          /\ Len(blocks) = l + 1 /\ EntryOf(blocks[Len(blocks)]) = e
      BY <2>u DEF IInv, IndexInOrder, Unindexed
    <3>2. ASSUME NEW i \in 1..Len(index') PROVE index'[i] = EntryOf(blocks[i])
      <4>1. l \in Nat
        BY IInvTypes
      <4>2. i \in 1..l \/ i = l + 1
        <5> HIDE DEF l
        <5> QED BY <2>x, <4>1
      <4> QED BY <2>x, <3>1, <4>2
    <3>3. ~Unindexed' /\ pc' # "trailer"
      BY <2>u DEF Unindexed
    <3>4. Len(index') <= Len(blocks) /\ Len(blocks) = Len(index') + 0
      BY <2>x, <3>1, IInvTypes
    <3> QED BY <2>u, <3>2, <3>3, <3>4 DEF IndexInOrder, EntryOf
  <2>5. KeysInFilter' /\ FilterKnowsTheBlock'
    BY <2>u, <2>r DEF IInv, KeysInFilter, FilterKnowsTheBlock
  <2>6. BlocksInFile'
    <3>1. taken' \in Nat /\ taken <= taken'
      BY <2>f, <2>s, IInvNumbers
    <3> QED BY <2>u, <2>f, <3>1, BlocksStayInFile DEF BlocksInFile
  <2> QED BY <2>f, <2>1, <2>2, <2>3, <2>4, <2>5, <2>6 DEF IInv
<1> QED BY <1>1, <1>2

LEMMA WriteIndexTrailerKeepsIInv ==
  ASSUME IInv, WriteIndexTrailer
  PROVE  IInv'
<1> DEFINE next == rep.offset + rep.contents + TrailerSize
<1>u. /\ pc = "index trailer" /\ pc' = "footer" /\ finishing' = finishing /\ born' = born
      /\ index' = index /\ footer' = [offset |-> rep.offset, size |-> rep.contents]
      /\ filterAt' = filterAt /\ filterOf' = filterOf /\ blocks' = blocks
      /\ File!AppendData(TrailerSize)
      /\ rep' = [rep EXCEPT !.offset = next, !.block = 0, !.contents = 0]
  BY DEF WriteIndexTrailer
<1>t. next \in Nat /\ TrailerSize \in Nat /\ footer' \in Handle
  <2>1. next \in Nat /\ TrailerSize \in Nat
    BY IInvNumbers
  <2>2. rep.offset \in Nat /\ rep.contents \in Nat
    BY IInvNumbers
  <2> HIDE DEF next
  <2> QED BY <1>u, <2>1, <2>2 DEF Handle
<1>r. /\ rep'.offset = next /\ rep'.pending = rep.pending /\ rep'.handle = rep.handle
      /\ rep'.contents = 0 /\ rep'.last_key = rep.last_key
      /\ rep'.num_entries = rep.num_entries /\ rep'.block = 0
      /\ rep' \in [offset : Nat, pending : BOOLEAN, handle : Handle, block : Nat,
                   contents : Nat, last_key : Nat, num_entries : Nat]
  <2>1. rep \in [offset : Nat, pending : BOOLEAN, handle : Handle, block : Nat,
                 contents : Nat, last_key : Nat, num_entries : Nat]
    BY IInvTypes
  <2> HIDE DEF next
  <2> QED BY <1>u, <1>t, <2>1
<1>f. /\ FileSound' /\ File!TypeOK' /\ taken' = taken + TrailerSize
      /\ file' = file /\ fresh' = fresh /\ faults' = faults
  <2>1. FileProofs!Small(TrailerSize)
    BY SizesFit
  <2>2. /\ FileSound' /\ taken' = taken + TrailerSize
        /\ file' = file /\ fresh' = fresh /\ faults' = faults
    BY <1>u, <1>t, <2>1, AppendToFile DEF IInv
  <2> QED BY <2>2, FileTyped
<1>1. TypeOK'
  BY <1>u, <1>t, <1>f, <1>r DEF IInv, TypeOK
<1>2. OffsetIsTaken'
  <2>1. taken = rep.offset + rep.contents
    BY <1>u DEF IInv, OffsetIsTaken, Ahead
  <2>2. taken + TrailerSize = next + 0
    BY <2>1, IInvNumbers
  <2> QED BY <1>u, <1>f, <1>r, <2>2 DEF OffsetIsTaken, Ahead
<1>3. BlockIsSmall' /\ IndexIsSmall' /\ EmptyOrIndexed'
  BY <1>u, <1>r DEF IInv, BlockIsSmall, IndexIsSmall, EmptyOrIndexed, PendingMeansEmpty
<1>4. IndexInOrder'
  BY <1>u, <1>r DEF IInv, IndexInOrder, Unindexed, EntryOf, IndexEntry
<1>5. KeysInFilter' /\ FilterKnowsTheBlock'
  BY <1>u, <1>r DEF IInv, KeysInFilter, FilterKnowsTheBlock
<1>6. BlocksInFile'
  <2>1. taken' \in Nat /\ taken <= taken'
    BY <1>f, IInvNumbers
  <2> QED BY <1>u, <1>f, <2>1, BlocksStayInFile DEF BlocksInFile
<1> QED BY <1>f, <1>1, <1>2, <1>3, <1>4, <1>5, <1>6 DEF IInv

LEMMA WriteFooterKeepsIInv ==
  ASSUME IInv, WriteFooter
  PROVE  IInv'
<1>u. /\ pc = "footer" /\ pc' = "finished" /\ finishing' = finishing /\ born' = born
      /\ rep' = rep /\ index' = index /\ footer' = footer /\ filterAt' = filterAt
      /\ filterOf' = filterOf /\ blocks' = blocks /\ File!AppendData(FooterSize)
  BY DEF WriteFooter
<1>f. /\ FileSound' /\ File!TypeOK' /\ taken' = taken + FooterSize
      /\ file' = file /\ fresh' = fresh /\ faults' = faults
  <2>1. FileProofs!Small(FooterSize) /\ FooterSize \in Nat
    BY SizesFit, IInvNumbers
  <2>2. /\ FileSound' /\ taken' = taken + FooterSize
        /\ file' = file /\ fresh' = fresh /\ faults' = faults
    BY <1>u, <2>1, AppendToFile DEF IInv
  <2> QED BY <2>2, FileTyped
<1>1. TypeOK'
  BY <1>u, <1>f DEF IInv, TypeOK
<1>2. OffsetIsTaken'
  BY <1>u DEF OffsetIsTaken
<1>3. BlockIsSmall' /\ IndexIsSmall' /\ EmptyOrIndexed'
  BY <1>u DEF IInv, BlockIsSmall, IndexIsSmall, EmptyOrIndexed, PendingMeansEmpty
<1>4. IndexInOrder'
  BY <1>u DEF IInv, IndexInOrder, Unindexed, EntryOf, IndexEntry
<1>5. KeysInFilter' /\ FilterKnowsTheBlock'
  BY <1>u DEF IInv, KeysInFilter, FilterKnowsTheBlock
<1>6. BlocksInFile'
  <2>1. taken' \in Nat /\ taken <= taken'
    BY <1>f, IInvNumbers
  <2> QED BY <1>u, <1>f, <2>1, BlocksStayInFile DEF BlocksInFile
<1> QED BY <1>f, <1>1, <1>2, <1>3, <1>4, <1>5, <1>6 DEF IInv

LEMMA InitGivesIInv == Init => IInv
<1> SUFFICES ASSUME Init PROVE IInv
  OBVIOUS
<1>1. FileProofs!Init
  BY DEF Init, File!Init, FileProofs!Init, File!Zeroed, FileProofs!Zeroed, File!Unset,
         FileProofs!Unset, File!NotWriting, FileProofs!NotWriting
<1>2. FileProofs!IInv
  BY <1>1, SizesFit, FileProofs!InitGivesIInv
<1>w. FileSound
  BY <1>2 DEF FileSound, Init, File!Init
<1>3. File!TypeOK
  BY <1>2 DEF FileProofs!IInv, FileProofs!TypeOK, File!TypeOK, FileProofs!Byte, File!Byte
<1>4. /\ taken = 0 /\ pc = "idle" /\ finishing = FALSE /\ index = <<>> /\ footer = NoHandle
      /\ born \in [pointers : Pointers, pending : FreshPending]
      /\ filterAt = 0 /\ filterOf = <<>> /\ blocks = <<>>
      /\ rep = [offset |-> 0, pending |-> born.pending, handle |-> NoHandle,
                block |-> 0, contents |-> 0, last_key |-> 0, num_entries |-> 0]
  BY DEF Init, File!Init
<1>5. /\ \A S : <<>> \in Seq(S)
      /\ Len(<<>>) = 0 /\ NoHandle \in Handle /\ born.pending \in BOOLEAN /\ MaxEntries \in Nat
  BY <1>4, EmptySeq, BuilderAssumption DEF Handle
<1>6. TypeOK
  BY <1>3, <1>4, <1>5 DEF TypeOK
<1>7. OffsetIsTaken /\ BlockIsSmall /\ IndexIsSmall /\ EmptyOrIndexed
  BY <1>4, <1>5
     DEF OffsetIsTaken, Ahead, BlockIsSmall, IndexIsSmall, EmptyOrIndexed, PendingMeansEmpty
<1>8. IndexInOrder
  BY <1>4, <1>5 DEF IndexInOrder, Unindexed
<1>9. KeysInFilter /\ FilterKnowsTheBlock /\ BlocksInFile
  BY <1>4, <1>5 DEF KeysInFilter, FilterKnowsTheBlock, BlocksInFile, FirstKey
<1> QED BY <1>w, <1>6, <1>7, <1>8, <1>9 DEF IInv

LEMMA StepKeepsIInv == IInv /\ [Next]_vars => IInv'
<1> SUFFICES ASSUME IInv, [Next]_vars PROVE IInv'
  OBVIOUS
<1>f. finishing \in BOOLEAN
  BY DEF IInv, TypeOK
<1>1. ASSUME NEW n \in EntrySizes, rep.num_entries < MaxEntries, Add(n) PROVE IInv'
  <2>1. CASE AddEntry(n)
    BY <1>1, <2>1, AddKeepsIInv
  <2>2. CASE Wild
    BY <1>f, <2>2, PcKeepsIInv DEF Wild
  <2> QED BY <1>1, <2>1, <2>2 DEF Add
<1>2. CASE Flush
  BY <1>2, <1>f, PcKeepsIInv DEF Flush
<1>3. CASE Finish
  BY <1>3, PcKeepsIInv DEF Finish
<1>4. CASE WriteContents
  BY <1>4, WriteContentsKeepsIInv
<1>5. CASE WriteTrailer
  BY <1>5, WriteTrailerKeepsIInv
<1>6. CASE FlushFile
  BY <1>6, FlushFileKeepsIInv
<1>7. CASE StartFilter
  BY <1>7, StartFilterKeepsIInv
<1>8. CASE NoIndex
  BY <1>8, <1>f, PcKeepsIInv DEF NoIndex, Wild
<1>9. CASE WriteIndex
  BY <1>9, WriteIndexKeepsIInv
<1>10. CASE WriteIndexTrailer
  BY <1>10, WriteIndexTrailerKeepsIInv
<1>11. CASE WriteFooter
  BY <1>11, WriteFooterKeepsIInv
<1>12. CASE FileStep
  <2>1. UNCHANGED builderVars /\ File!WriteStep
    BY <1>12 DEF FileStep
  <2>2. ~File!Close
    BY <2>1 DEF File!WriteStep, File!Write, File!WriteFails, File!Return, File!Close
  <2> QED BY <2>1, <2>2, FileStepKeepsIInv
<1>13. CASE CloseFile
  BY <1>13, FileStepKeepsIInv DEF CloseFile
<1>14. CASE UNCHANGED vars
  <2>1. UNCHANGED builderVars /\ UNCHANGED fileVars
    BY <1>14 DEF vars
  <2>2. ~File!Close
    BY <2>1 DEF fileVars, File!Close
  <2> QED BY <2>1, <2>2, FileStepKeepsIInv
<1> QED BY <1>1, <1>2, <1>3, <1>4, <1>5, <1>6, <1>7, <1>8, <1>9, <1>10, <1>11, <1>12, <1>13, <1>14
        DEF Next, BuilderStep

LEMMA IInvariant == Spec => []IInv
<1>1. Init => IInv
  BY InitGivesIInv
<1>2. IInv /\ [Next]_vars => IInv'
  BY StepKeepsIInv
<1> QED BY <1>1, <1>2, PTL DEF Spec

-----------------------------------------------------------------------------
(* The theorems.                                                           *)

\* The members of Rep, the index, the filter and the file stay well formed.
THEOREM TypeCorrect == Spec => []TypeOK
<1>1. IInv => TypeOK
  BY DEF IInv
<1> QED BY <1>1, IInvariant, PTL

\* Between calls pending_index_entry is true only when data_block is empty.
THEOREM PendingCorrect == Spec => []PendingMeansEmpty
<1>1. IInv => PendingMeansEmpty
  BY DEF IInv, EmptyOrIndexed
<1> QED BY <1>1, IInvariant, PTL

\* Every block but one pending has its entry in the index block, under its last
\* key and at its place, and a finished table has them all.
THEOREM IndexCorrect == Spec => []IndexDescribesBlocks
<1>1. IInv => IndexDescribesBlocks
  <2> SUFFICES ASSUME IInv, ~born.pending PROVE IndexDescribesBlocks
    BY DEF IndexDescribesBlocks
  <2>1. \A i \in 1..Len(index) : index[i] = EntryOf(blocks[i])
    BY DEF IInv, IndexInOrder
  <2>2. pc = "finished" => Len(index) = Len(blocks)
    BY IInvTypes DEF IInv, IndexInOrder, Unindexed
  <2> QED BY <2>1, <2>2 DEF IndexDescribesBlocks, EntryOf
<1> QED BY <1>1, IInvariant, PTL

\* Every key of a block is in the filter under the offset of that block.
THEOREM FilterCorrect == Spec => []FilterKnowsTheBlock
<1>1. IInv => FilterKnowsTheBlock
  BY DEF IInv
<1> QED BY <1>1, IInvariant, PTL

\* The bytes the index leads to are in the file, and are those of the block.
THEOREM LookupCorrect == Spec => []IndexFindsBlocks
<1>1. ASSUME IInv, ~born.pending, fresh = 0, faults = 0, pc \in {"idle", "finished"},
             NEW i \in 1..Len(index)
      PROVE  Stored(index[i].handle) = [j \in 1..blocks[i].size |-> blocks[i].start + j]
  <2> DEFINE start == blocks[i].start
             size == blocks[i].size
             stored == SubSeq(file, start + 1, start + size)
             wanted == [j \in 1..size |-> start + j]
             S == 0..taken
  <2>1. /\ index[i] = EntryOf(blocks[i]) /\ i \in 1..Len(blocks)
    <3> DEFINE l == Len(index)
               b == Len(blocks)
    <3>1. /\ l <= b /\ index[i] = EntryOf(blocks[i])
      BY <1>1 DEF IInv, IndexInOrder
    <3>2. l \in Nat /\ b \in Nat /\ i \in 1..l
      BY <1>1, IInvTypes
    <3> HIDE DEF l, b
    <3>3. i \in 1..b
      BY <3>1, <3>2
    <3> QED BY <3>1, <3>3 DEF b
  <2>2. Stored(index[i].handle) = stored
    <3>1. index[i].handle.offset = start /\ index[i].handle.size = size
      BY <2>1 DEF EntryOf
    <3> HIDE DEF start, size
    <3> QED BY <3>1 DEF Stored
  <2>3. start \in Nat /\ size \in Nat /\ start + size <= Len(file) /\ Len(file) \in Nat
        /\ file \in Seq(S) /\ taken \in Nat
    BY <1>1, <2>1, IInvTypes DEF IInv, BlocksInFile
  <2>4. \A j \in 1..Len(file) : file[j] = j /\ file[j] \in S
    <3>1. \A j \in 1..Len(file) : file[j] = FileProofs!Nth(j)
      BY <1>1, BuilderAssumption
         DEF IInv, FileSound, FileProofs!IInv, FileProofs!FileInOrder, FileProofs!Rubbish,
             FileProofs!SmallIsSafe
    <3>2. \A j \in 1..Len(file) : FileProofs!Nth(j) = j
      BY <1>1, <2>3 DEF FileProofs!Nth
    <3> QED BY <2>3, <3>1, <3>2, ElementOfSeq
  <2> HIDE DEF S, start, size
  <2>5. /\ stored \in Seq(S) /\ Len(stored) = size
        /\ \A j \in 1..size : stored[j] = start + j
    <3> DEFINE m == start + 1
               n == start + size
    <3>1. m \in Int /\ n \in Int /\ \A j \in m..n : file[j] \in S
      BY <2>3, <2>4
    <3>2. /\ SubSeq(file, m, n) \in Seq(S)
          /\ Len(SubSeq(file, m, n)) = IF m <= n THEN n - m + 1 ELSE 0
          /\ \A j \in 1..(n - m + 1) : SubSeq(file, m, n)[j] = file[m + j - 1]
      <4> HIDE DEF m, n
      <4> QED BY <3>1, SubSeqProperties
    <3>3. Len(stored) = size
      <4>1. (IF m <= n THEN n - m + 1 ELSE 0) = size
        BY <2>3
      <4> QED BY <3>2, <4>1
    <3>4. ASSUME NEW j \in 1..size PROVE stored[j] = start + j
      <4>1. j \in 1..(n - m + 1) /\ m + j - 1 = start + j /\ start + j \in 1..Len(file)
        BY <2>3
      <4> QED BY <2>4, <3>2, <4>1
    <3> QED BY <3>2, <3>3, <3>4
  <2>6. wanted \in Seq(S) /\ Len(wanted) = size /\ \A j \in 1..size : wanted[j] = start + j
    <3>1. ASSUME NEW j \in 1..size PROVE start + j \in S
      <4>1. start + j \in 1..Len(file) /\ file[start + j] = start + j
        BY <2>3, <2>4
      <4> QED BY <2>4, <4>1
    <3>2. wanted \in [1..size -> S]
      BY <3>1
    <3> HIDE DEF wanted
    <3>3. wanted \in Seq(S)
      BY <2>3, <3>2, SeqDef
    <3> QED BY <2>3, <3>2, <3>3 DEF wanted
  <2> HIDE DEF stored, wanted
  <2>7. stored = wanted
    BY <2>5, <2>6, SeqEqual
  <2> QED BY <2>2, <2>7 DEF wanted, size, start
<1>2. IInv => IndexFindsBlocks
  BY <1>1 DEF IndexFindsBlocks
<1> QED BY <1>2, IInvariant, PTL

=============================================================================
