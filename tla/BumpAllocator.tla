--------------------------- MODULE BumpAllocator ---------------------------
(***************************************************************************)
(* The heap of a program that installed default_allocator!.  The first     *)
(* word of the region is the cursor, zero in a fresh heap; the runtime's   *)
(* scratch follows, then what has been handed out, upward.  A block is     *)
(* what its owner holds: a dropped one is forgotten here, and the          *)
(* allocator reads no block at all.                                        *)
(*                                                                         *)
(* A mark may be released when nothing allocated since is in use.  Growing *)
(* counts as allocating, also where the block stays in place, as it then   *)
(* lies past the mark: `since` keeps the marks a block is younger than.    *)
(***************************************************************************)
EXTENDS Integers, FiniteSets

CONSTANTS
  START, WORD, HEAP_RUNTIME_RESERVED,
  LEN,         \* the heap the program declared
  ADDRESSES,   \* 2^64
  Sizes, Aligns,
  MaxBlocks,   \* blocks in use at once
  MaxMarks     \* marks taken at different places

AllocatorAssumption ==
  /\ START \in Nat \ {0} /\ WORD \in Nat /\ HEAP_RUNTIME_RESERVED \in Nat
  /\ LEN \in Nat /\ ADDRESSES \in Nat
  /\ START + LEN < ADDRESSES /\ WORD + HEAP_RUNTIME_RESERVED <= LEN
  /\ Sizes \subseteq 1 .. ADDRESSES - 1 /\ Aligns \subseteq Nat \ {0}
  /\ MaxBlocks \in Nat /\ MaxMarks \in Nat

VARIABLES
  word,     \* the cursor word
  blocks,   \* the blocks in use
  marks     \* the marks taken, by position

heapvars == <<word, blocks, marks>>

Block == [at : Nat, size : Sizes, align : Aligns, since : SUBSET Nat]

Floor == START + WORD + HEAP_RUNTIME_RESERVED
End == START + LEN
Cursor == IF word = 0 THEN Floor ELSE word

\* An address is refused where the sum leaves the address space.
Fits(address) == address < ADDRESSES /\ address <= End

\* The first aligned address from the cursor on.
AlignedUp(align) == ((Cursor + align - 1) \div align) * align

-----------------------------------------------------------------------------
(* Operations.  A refused one returns null and changes nothing. *)

Place(size, align) ==
  /\ Cursor + align - 1 < ADDRESSES
  /\ Fits(AlignedUp(align) + size)
  /\ word' = AlignedUp(align) + size

New(size, align) == [at |-> AlignedUp(align), size |-> size, align |-> align, since |-> marks]

Alloc(size, align) ==
  /\ Cardinality(blocks) < MaxBlocks
  /\ Place(size, align)
  /\ blocks' = blocks \cup {New(size, align)}
  /\ UNCHANGED marks

Dealloc(b) ==
  /\ blocks' = blocks \ {b}
  /\ UNCHANGED <<word, marks>>

MutantEndsBelow(b) == b.at + b.size <= Cursor

\* The most recent block ends at the cursor.
Last(b) == b.at + b.size = Cursor

Resized(b, size) ==
  [b EXCEPT !.size = size, !.since = IF size > b.size THEN marks ELSE @]

\* The last block resizes where it is, an older one shrinks where it is, and
\* otherwise the bytes move to a new block.
Realloc(b, size) ==
  /\ \/ /\ Last(b)
        /\ Fits(b.at + size)
        /\ word' = b.at + size
        /\ blocks' = (blocks \ {b}) \cup {Resized(b, size)}
     \/ /\ ~Last(b)
        /\ size <= b.size
        /\ blocks' = (blocks \ {b}) \cup {Resized(b, size)}
        /\ UNCHANGED word
     \/ /\ ~Last(b)
        /\ size > b.size
        /\ Place(size, b.align)
        /\ blocks' = (blocks \ {b}) \cup {New(size, b.align)}
  /\ UNCHANGED marks

\* A mark taken where an older one was: nothing in use lies past it.
Mark ==
  /\ Cursor \in marks \/ Cardinality(marks) < MaxMarks
  /\ marks' = marks \cup {Cursor}
  /\ blocks' = {[b EXCEPT !.since = @ \ {Cursor}] : b \in blocks}
  /\ UNCHANGED word

\* A mark from above the cursor is ignored.
ReleaseTo(mark) ==
  /\ \A b \in blocks : mark \notin b.since
  /\ mark >= Floor /\ mark <= Cursor
  /\ word' = mark
  /\ UNCHANGED <<blocks, marks>>

HeapInit == word = 0 /\ blocks = {} /\ marks = {}

HeapNext ==
  \/ \E size \in Sizes, align \in Aligns : Alloc(size, align)
  \/ \E b \in blocks : Dealloc(b)
  \/ \E b \in blocks, size \in Sizes : Realloc(b, size)
  \/ Mark
  \/ \E mark \in marks : ReleaseTo(mark)

HeapSpec == HeapInit /\ [][HeapNext]_heapvars

HeapTypeOK == word \in Nat /\ blocks \subseteq Block /\ marks \subseteq Nat

-----------------------------------------------------------------------------

\* No byte belongs to two owners: blocks in use lie apart, aligned as asked,
\* between the runtime's scratch and the cursor, whatever was grown in place,
\* shrunk, moved, dropped and released in between (the SAFETY comment of
\* BumpAllocator's GlobalAlloc).
BlocksApart ==
  /\ Cursor <= End
  /\ \A b \in blocks :
       b.at >= START + WORD + HEAP_RUNTIME_RESERVED /\ b.at + b.size <= Cursor /\ b.at % b.align = 0
  /\ \A b, c \in blocks : b # c => b.at + b.size <= c.at \/ c.at + c.size <= b.at
=============================================================================
