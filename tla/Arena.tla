-------------------------------- MODULE Arena --------------------------------
(***************************************************************************)
(* The memory allocator of the MemTable: class Arena of db/arena.h.        *)
(*                                                                         *)
(* Small requests are cut one after another from a block of maxSize bytes; *)
(* a request that does not fit gets a new block, one of its own if it is   *)
(* larger than a quarter of maxSize.  Memory is a line of addresses, and   *)
(* new[] may return any aligned one with enough free memory behind it.     *)
(*                                                                         *)
(* The constructor Arena() is declared and never defined.  The members are *)
(* taken to start as an empty arena, which is what every method assumes.   *)
(***************************************************************************)
EXTENDS Integers

CONSTANTS
  MaxSize,     \* maxSize: 4096
  Align,       \* sizeof(void*), and the alignment of what new[] returns
  PointerSize, \* sizeof(char*), counted for each block
  Needs,       \* the sizes that are asked for
  Addresses    \* where new[] may put a block

ASSUME ArenaAssumption ==
  /\ MaxSize \in Nat /\ Align \in Nat \ {0} /\ PointerSize \in Nat
  /\ Needs \subseteq Nat
  /\ Addresses \subseteq Nat /\ \A a \in Addresses : a % Align = 0

VARIABLES
  block_,            \* the blocks, each with its first address and its size
  alloc_ptr,         \* the first free address of the current block
  alloc_ptr_remain,  \* how many bytes are free from there on
  using_block,       \* what MemoryUsage returns
  given              \* what callers hold: where it is, the size asked for, and
                     \* whether AllocateAligned returned it

arenaVars == <<block_, alloc_ptr, alloc_ptr_remain, using_block, given>>

ArenaInit ==
  /\ block_ = {} /\ alloc_ptr = 0 /\ alloc_ptr_remain = 0
  /\ using_block = 0 /\ given = {}

Apart(a, b) == a.at + a.size <= b.at \/ b.at + b.size <= a.at

-----------------------------------------------------------------------------
Give(at, size, aligned) ==
  given' = given \cup {[at |-> at, size |-> size, aligned |-> aligned]}

alloc_new_block(at, size) ==
  /\ \A b \in block_ : Apart([at |-> at, size |-> size], b)
  /\ block_' = block_ \cup {[at |-> at, size |-> size]}
  /\ using_block' = using_block + size + PointerSize

\* Mistake: all of the new block counts as free.
FallbackAllFree(at, need) ==
  IF need > MaxSize \div 4
  THEN alloc_new_block(at, need) /\ UNCHANGED <<alloc_ptr, alloc_ptr_remain>>
  ELSE /\ alloc_new_block(at, MaxSize)
       /\ alloc_ptr' = at + need
       /\ alloc_ptr_remain' = MaxSize

\* The current block is left as it is, or given up with what is free in it.
alloc_fallback_block(at, need) ==
  IF need > MaxSize \div 4
  THEN alloc_new_block(at, need) /\ UNCHANGED <<alloc_ptr, alloc_ptr_remain>>
  ELSE /\ alloc_new_block(at, MaxSize)
       /\ alloc_ptr' = at + need
       /\ alloc_ptr_remain' = MaxSize - need

\* Mistake: one byte more than there is may be cut.
CutTooMuch(need) ==
  /\ need <= alloc_ptr_remain + 1
  /\ alloc_ptr' = alloc_ptr + need
  /\ alloc_ptr_remain' = alloc_ptr_remain - need
  /\ UNCHANGED <<block_, using_block>>

\* The fast path: need bytes of the current block.
Cut(need) ==
  /\ need < alloc_ptr_remain
  /\ alloc_ptr' = alloc_ptr + need
  /\ alloc_ptr_remain' = alloc_ptr_remain - need
  /\ UNCHANGED <<block_, using_block>>

Allocate(size) ==
  \/ Cut(size) /\ Give(alloc_ptr, size, FALSE)
  \/ \E at \in Addresses :
       /\ size >= alloc_ptr_remain
       /\ alloc_fallback_block(at, size)
       /\ Give(at, size, FALSE)

\* Mistake: a request grows by as much as alloc_ptr is past the boundary.
PaddingBack == alloc_ptr % Align

\* What AllocateAligned adds to a request to move alloc_ptr to a word boundary.
Padding ==
  LET mod == alloc_ptr % Align
  IN  IF mod = 0 THEN 0 ELSE Align - mod

\* The padding is counted, but the address returned is alloc_ptr itself.
AllocateAligned(size) ==
  LET need == size + Padding
  IN  \/ Cut(need) /\ Give(alloc_ptr, size, TRUE)
      \/ \E at \in Addresses :
           /\ need >= alloc_ptr_remain
           /\ alloc_fallback_block(at, need)
           /\ Give(at, size, TRUE)

ArenaNext == \E size \in Needs : Allocate(size) \/ AllocateAligned(size)

ArenaSpec == ArenaInit /\ [][ArenaNext]_arenaVars

-----------------------------------------------------------------------------
Block == [at : Nat, size : Nat]
Piece == [at : Nat, size : Nat, aligned : BOOLEAN]

ArenaTypeOK ==
  /\ block_ \subseteq Block
  /\ alloc_ptr \in Nat /\ alloc_ptr_remain \in Nat
  /\ using_block \in Nat
  /\ given \subseteq Piece

Inside(p, b) == b.at <= p.at /\ p.at + p.size <= b.at + b.size

\* Whatever mix of sizes is asked for, aligned or not, every piece of memory
\* lies inside one block and no two of them overlap.
PiecesAreDisjoint ==
  /\ \A p \in given : \E b \in block_ : Inside(p, b)
  /\ \A p, q \in given : p # q => Apart(p, q)

\* AllocateAligned returns an address that need not be aligned, but what it
\* counts is enough: the piece, moved up to the next word boundary, would still
\* be inside its block and apart from all others.
RoundedUp(p) == [at |-> p.at + ((-p.at) % Align), size |-> p.size]

AlignedPieceHasRoom ==
  \A p \in given : p.aligned =>
    /\ \E b \in block_ : Inside(RoundedUp(p), b)
    /\ \A q \in given : q # p => Apart(RoundedUp(p), q)

=============================================================================
