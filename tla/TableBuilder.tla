---------------------------- MODULE TableBuilder ----------------------------
(***************************************************************************)
(* The writer of a table file: class TableBuilder of db/SSTable.h, on top  *)
(* of the WritableFile it is given.                                        *)
(*                                                                         *)
(* The builder gathers entries in a data block; a full block goes to the   *)
(* file, followed by a trailer, and gets an entry in the index block when  *)
(* the next key is added.  Finish writes the index block and the footer.   *)
(* A call is made of one step for each call it makes on the file.          *)
(*                                                                         *)
(* Keys are numbered in the order in which they are added; of an entry     *)
(* only the size of its encoding is kept, and of the filter block the      *)
(* offset under which each key is put into it (module FilterBlock).        *)
(*                                                                         *)
(* As built, no call gets past its first use of pending_handle,            *)
(* indexHandle, handleCoding or indexCoding: nothing ever makes these      *)
(* pointers point anywhere.  Pointers says which program a run considers:  *)
(* the code as built, "unset", or the one that allocates what the pointers *)
(* are meant to point at, "set".                                           *)
(***************************************************************************)
EXTENDS Integers, Sequences, SequencesExt

CONSTANTS
  BufferSize, MaxInt, SizeMod, Fresh, MaxFaults,  \* see module WritableFile
  EntrySizes,     \* the sizes of an encoded entry
  BlockLimit,     \* the size at which Add flushes the block: 1000
  TailSize,       \* what BlockBuilder::Finish appends to a block
  TrailerSize,    \* kBlockTrailerSize
  IndexEntrySize, \* the size of an entry of the index block
  FooterSize,     \* the size of the encoded handle of the index block
  Pointers,       \* what the pointers of Rep and of Finish are: "unset", "set"
  FreshPending,   \* what pending_index_entry, never initialised, may start at
  MaxEntries      \* bound on the entries added

VARIABLES
  buffer, has_buffer_size, fresh, file, durable, handed, taken, whole, writing,
  mode, faults,
  pc,        \* "idle" between calls, or what the call does next
  finishing, \* the call is Finish
  born,      \* [pointers, pending]: what the uninitialised members hold
  rep,       \* the members of Rep
  index,     \* the entries of index_block
  footer,    \* the handle the footer holds
  filterAt,  \* the offset the filter block was last told
  filterOf,  \* for each key, the offset under which the filter has it
  blocks     \* the data blocks handed to the file: their keys, bytes and offset

fileVars == <<buffer, has_buffer_size, fresh, file, durable, handed, taken, whole,
              writing, mode, faults>>
builderVars == <<pc, finishing, born, rep, index, footer, filterAt, filterOf, blocks>>
vars == <<fileVars, builderVars>>

\* How much can be handed to the file is bounded by MaxEntries here.
File == INSTANCE WritableFile WITH Sizes <- EntrySizes, MaxBytes <- 0

\* What a call hands to the file at once, at most.  An int is taken to hold it
\* together with a full buffer, so the file sees all of it (module WritableFile).
DataSizes == {BlockLimit + n + TailSize : n \in EntrySizes \cup {0}}
IndexSize == (MaxEntries + 1) * IndexEntrySize + TailSize

ASSUME BuilderAssumption ==
  /\ EntrySizes \subseteq Nat \ {0} /\ MaxEntries \in Nat
  /\ {BlockLimit, TailSize, TrailerSize, IndexEntrySize, FooterSize} \subseteq Nat
  /\ Pointers \subseteq {"unset", "set"} /\ FreshPending \subseteq BOOLEAN
  /\ BufferSize \in Nat \ {0} /\ MaxInt \in Nat /\ SizeMod \in Nat
  /\ BufferSize <= MaxInt /\ MaxInt < SizeMod
  /\ Fresh \subseteq -(MaxInt + 1)..MaxInt /\ MaxFaults \in Nat
  /\ \A n \in DataSizes \cup {IndexSize, TrailerSize, FooterSize} : File!Small(n)

NoHandle == [offset |-> -1, size |-> -1]

Init ==
  /\ File!Init
  /\ pc = "idle" /\ finishing = FALSE
  /\ born \in [pointers : Pointers, pending : FreshPending]
  /\ rep = [offset |-> 0, pending |-> born.pending, handle |-> NoHandle,
            block |-> 0, contents |-> 0, last_key |-> 0, num_entries |-> 0]
  /\ index = <<>> /\ footer = NoHandle
  /\ filterAt = 0 /\ filterOf = <<>>
  /\ blocks = <<>>

-----------------------------------------------------------------------------
\* A pointer nothing has set is used: what happens is undefined.
Wild ==
  /\ pc' = "undefined"
  /\ UNCHANGED <<fileVars, finishing, born, rep, index, footer, filterAt, filterOf, blocks>>

PointersSet == born.pointers = "set"

IndexEntry(key) == [key |-> key, handle |-> rep.handle]

\* Mistake: the block is indexed under the key that follows it.
AddIndexesNewKey(n) ==
  /\ pc = "idle"
  /\ rep.pending => PointersSet
  /\ LET key == rep.num_entries + 1
     IN  /\ index' = IF rep.pending THEN Append(index, IndexEntry(key)) ELSE index
         /\ filterOf' = Append(filterOf, filterAt)
         /\ rep' = [rep EXCEPT !.pending = FALSE, !.last_key = key,
                               !.num_entries = key, !.block = @ + n]
         /\ pc' = IF rep'.block >= BlockLimit THEN "block" ELSE "idle"
  /\ UNCHANGED <<fileVars, finishing, born, footer, filterAt, blocks>>

\* An entry of size n.  The pending block is indexed under the key before it,
\* and a block that has reached its limit is flushed.  CurrentSizeEstimate counts
\* the restart array too: where that alone reaches the limit, Add flushes earlier,
\* which is an AddEntry here with a Flush after it.
AddEntry(n) ==
  /\ pc = "idle"
  /\ rep.pending => PointersSet
  /\ LET key == rep.num_entries + 1
     IN  /\ index' = IF rep.pending
                     THEN Append(index, IndexEntry(rep.last_key)) ELSE index
         /\ filterOf' = Append(filterOf, filterAt)
         /\ rep' = [rep EXCEPT !.pending = FALSE, !.last_key = key,
                               !.num_entries = key, !.block = @ + n]
         /\ pc' = IF rep'.block >= BlockLimit THEN "block" ELSE "idle"
  /\ UNCHANGED <<fileVars, finishing, born, footer, filterAt, blocks>>

Add(n) ==
  \/ AddEntry(n)
  \/ pc = "idle" /\ rep.pending /\ ~PointersSet /\ Wild

\* An empty block is not flushed.
Flush ==
  /\ pc = "idle" /\ rep.block > 0
  /\ pc' = "block"
  /\ UNCHANGED <<fileVars, finishing, born, rep, index, footer, filterAt, filterOf, blocks>>

Finish ==
  /\ pc = "idle"
  /\ finishing' = TRUE
  /\ pc' = IF rep.block > 0 THEN "block" ELSE "index"
  /\ UNCHANGED <<fileVars, born, rep, index, footer, filterAt, filterOf, blocks>>

-----------------------------------------------------------------------------
(* WriteBlock for the data block, in Flush.                                *)

\* The keys of the block are those added since the block before it.
FirstKey == IF blocks = <<>> THEN 1 ELSE Last(blocks).last + 1

\* BlockBuilder::Finish, and the contents to the file.  Append always returns OK
\* (module WritableFile), so WriteBlock never returns early ...
WriteContents ==
  /\ pc = "block"
  /\ LET size == rep.block + TailSize
     IN  /\ File!AppendData(size)
         /\ rep' = [rep EXCEPT !.contents = size]
         /\ blocks' = Append(blocks, [first |-> FirstKey, last |-> rep.last_key,
                                      start |-> taken, offset |-> rep.offset,
                                      size |-> size])
  /\ pc' = "trailer"
  /\ UNCHANGED <<finishing, born, index, footer, filterAt, filterOf>>

\* ... then the handle is set and the trailer written ...
WriteTrailer ==
  /\ pc = "trailer" /\ mode = "open"
  /\ IF PointersSet
     THEN /\ File!AppendData(TrailerSize)
          /\ rep' = [rep EXCEPT !.handle = [offset |-> rep.offset,
                                            size   |-> rep.contents]]
          /\ pc' = "written"
          /\ UNCHANGED <<finishing, born, index, footer, filterAt, filterOf, blocks>>
     ELSE Wild

\* Mistakes: the trailer is not counted; the block is not emptied.
NextOffsetWithoutTrailer ==
  rep' = [rep EXCEPT !.offset = @ + rep.contents, !.block = 0, !.contents = 0,
                     !.pending = TRUE]

NextOffsetBlockKept ==
  rep' = [rep EXCEPT !.offset = @ + rep.contents + TrailerSize, !.contents = 0,
                     !.pending = TRUE]

\* ... the offset moved on and the block emptied; back in Flush, the block is
\* marked as not indexed yet.
NextOffset ==
  rep' = [rep EXCEPT !.offset = @ + rep.contents + TrailerSize, !.block = 0,
                     !.contents = 0, !.pending = TRUE]

\* Flush's FlushBUffer writes the buffer, or finds it empty.
FlushFile ==
  /\ pc = "written" /\ mode = "open"
  /\ NextOffset
  /\ File!FlushBUffer \/ (has_buffer_size <= 0 /\ UNCHANGED fileVars)
  /\ pc' = "flushed"
  /\ UNCHANGED <<finishing, born, index, footer, filterAt, filterOf, blocks>>

\* Mistake: the filter is told where the last block starts.
StartFilterLate ==
  /\ pc = "flushed" /\ mode = "open"
  /\ filterAt' = rep.handle.offset
  /\ pc' = IF finishing THEN "index" ELSE "idle"
  /\ UNCHANGED <<fileVars, finishing, born, rep, index, footer, filterOf, blocks>>

\* The filter is told where the next block starts.
StartFilter ==
  /\ pc = "flushed" /\ mode = "open"
  /\ filterAt' = rep.offset
  /\ pc' = IF finishing THEN "index" ELSE "idle"
  /\ UNCHANGED <<fileVars, finishing, born, rep, index, footer, filterOf, blocks>>

-----------------------------------------------------------------------------
(* Finish, after its Flush.                                                *)

\* Without a pending block no index block is written, and indexHandle is read
\* as it is.
NoIndex ==
  /\ pc = "index" /\ ~rep.pending
  /\ IF PointersSet
     THEN /\ pc' = "footer"
          /\ UNCHANGED <<fileVars, finishing, born, rep, index, footer, filterAt, filterOf, blocks>>
     ELSE Wild

WriteIndex ==
  /\ pc = "index" /\ rep.pending
  /\ IF PointersSet
     THEN /\ index' = Append(index, IndexEntry(rep.last_key))
          /\ LET size == Len(index') * IndexEntrySize + TailSize
             IN  File!AppendData(size) /\ rep' = [rep EXCEPT !.contents = size]
          /\ pc' = "index trailer"
          /\ UNCHANGED <<finishing, born, footer, filterAt, filterOf, blocks>>
     ELSE Wild

WriteIndexTrailer ==
  /\ pc = "index trailer" /\ mode = "open"
  /\ File!AppendData(TrailerSize)
  /\ footer' = [offset |-> rep.offset, size |-> rep.contents]
  /\ rep' = [rep EXCEPT !.offset = @ + rep.contents + TrailerSize, !.block = 0,
                        !.contents = 0]
  /\ pc' = "footer"
  /\ UNCHANGED <<finishing, born, index, filterAt, filterOf, blocks>>

WriteFooter ==
  /\ pc = "footer" /\ mode = "open"
  /\ File!AppendData(FooterSize)
  /\ pc' = "finished"
  /\ UNCHANGED <<finishing, born, rep, index, footer, filterAt, filterOf, blocks>>

\* The caller closes the file of a finished table.
CloseFile ==
  /\ pc = "finished"
  /\ File!Close
  /\ UNCHANGED builderVars

\* The file goes on with a call that has reached write().
FileStep == File!WriteStep /\ UNCHANGED builderVars

BuilderStep ==
  \/ WriteContents \/ WriteTrailer \/ FlushFile \/ StartFilter
  \/ NoIndex \/ WriteIndex \/ WriteIndexTrailer \/ WriteFooter

Next ==
  \/ \E n \in EntrySizes : rep.num_entries < MaxEntries /\ Add(n)
  \/ Flush \/ Finish \/ BuilderStep \/ FileStep \/ CloseFile

Spec == Init /\ [][Next]_vars

-----------------------------------------------------------------------------
Handle == [offset : Nat, size : Nat] \cup {NoHandle}

TypeOK ==
  /\ File!TypeOK
  /\ pc \in {"idle", "block", "trailer", "written", "flushed", "index",
             "index trailer", "footer", "finished", "undefined"}
  /\ finishing \in BOOLEAN
  /\ born \in [pointers : Pointers, pending : FreshPending]
  /\ rep \in [offset : Nat, pending : BOOLEAN, handle : Handle, block : Nat,
              contents : Nat, last_key : Nat, num_entries : Nat]
  /\ index \in Seq([key : Nat, handle : Handle])
  /\ footer \in Handle
  /\ filterAt \in Nat /\ filterOf \in Seq(Nat)
  /\ blocks \in Seq([first : Nat, last : Nat, start : Nat, offset : Nat, size : Nat])

\* The comment on pending_index_entry: it is true only when data_block is
\* empty.  This holds between calls, and when the flag starts at TRUE too.
PendingMeansEmpty == pc = "idle" /\ rep.pending => rep.block = 0

\* The index has an entry for every data block but one that is still pending:
\* the last key of the block, and where the block lies among the bytes handed
\* to the file.  A finished table has all of them.
IndexDescribesBlocks ==
  ~born.pending =>
    /\ \A i \in 1..Len(index) :
         index[i] = [key    |-> blocks[i].last,
                     handle |-> [offset |-> blocks[i].start, size |-> blocks[i].size]]
    /\ pc = "finished" => Len(index) = Len(blocks)

\* When no write() fails, the bytes the index leads a reader to are those of the
\* blocks, and they are in the file: Flush leaves none of a block in the buffer.
Stored(handle) ==
  SubSeq(file, handle.offset + 1, handle.offset + handle.size)

IndexFindsBlocks ==
  ~born.pending /\ fresh = 0 /\ faults = 0 /\ pc \in {"idle", "finished"} =>
    \A i \in 1..Len(index) :
      Stored(index[i].handle) = [j \in 1..blocks[i].size |-> blocks[i].start + j]

\* Every key of a data block is in the filter under the offset of its block,
\* where KeyMayMatch looks for it.
FilterKnowsTheBlock ==
  \A i \in 1..Len(blocks) : \A key \in blocks[i].first..blocks[i].last :
    filterOf[key] = blocks[i].offset

\* The comment on Finish says that it writes the index block into the file and
\* then the footer: with no failing write(), all of it is in the file when the
\* caller closes the file of a table that has blocks.
FinishedTableIsInTheFile ==
  mode = "closed" /\ blocks # <<>> /\ fresh = 0 /\ faults = 0 => Len(file) = taken

=============================================================================
