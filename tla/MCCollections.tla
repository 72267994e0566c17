---------------------------- MODULE MCCollections ----------------------------
(***************************************************************************)
(* Small instances of the collections of hopper-core, of the tails of      *)
(* hopper-runtime, of the search in the list of slot hashes, and of the    *)
(* heap: the bytes are one of them (`kind`), and stay with it from then    *)
(* on.  The variables of SlotMap, SlotHashes and BumpAllocator keep their  *)
(* names, those of the others get the name of their collection.            *)
(***************************************************************************)
EXTENDS SlotMap, SlotHashes, BumpAllocator

CONSTANTS zero, a, b, Capacities

VARIABLES
  kind,
  slab_capacity, slab_count, slab_free_head, slab_allocated, slab_slots, slab_reply,
  journal_write_head, journal_total_written, journal_circular, journal_slots, journal_reply,
  sorted_len, sorted_elements, sorted_reply,
  ring_head, ring_count, ring_slots, ring_reply,
  map_len, map_entries, map_reply,
  seq_len, seq_count, seq_bytes, seq_reset, seq_reply,
  tail_len, tail_cells, tail_stored

\* Values whose first word reads as a valid link, as a link past the end of a
\* smaller slab and as the sentinel.
SL == INSTANCE Slab WITH
  NO_FREE <- 7, Word <- {0, 2, 7}, Rest <- {0, 5},
  capacity <- slab_capacity, count <- slab_count, free_head <- slab_free_head,
  allocated <- slab_allocated, slots <- slab_slots, reply <- slab_reply

\* Both modes, three times round and no overflow of the total.
JO == INSTANCE Journal WITH
  Entry <- {Zero, a, b}, Blank <- Zero, Capacity <- 3, TOTALS <- 16, MaxTotal <- 10,
  write_head <- journal_write_head, total_written <- journal_total_written,
  circular <- journal_circular, slots <- journal_slots, reply <- journal_reply

\* Two elements of every rank.
SV == INSTANCE SortedVec WITH
  Rank <- {0, 1, 2}, Tag <- {Zero, a}, Capacity <- 3,
  len <- sorted_len, elements <- sorted_elements, reply <- sorted_reply

RB == INSTANCE RingBuffer WITH
  Entry <- {Zero, a, b}, Blank <- Zero, Capacity <- 3,
  head <- ring_head, count <- ring_count, slots <- ring_slots, reply <- ring_reply

\* More keys than entries, the zero key among them.
PM == INSTANCE PackedMap WITH
  Key <- 0 .. 3, ZeroKey <- 0, Value <- {Zero, a}, ZeroValue <- Zero, Capacity <- 3,
  len <- map_len, entries <- map_entries, reply <- map_reply

\* Elements of two bytes, in an account with room for one to three of them, exact
\* or with a byte to spare.
GS == INSTANCE GrowableSeq WITH
  Byte <- {0, 1}, Zero <- 0, STRIDE <- 2, MaxLen <- 6, Lengths <- {3, 4, 6},
  len <- seq_len, count <- seq_count, bytes <- seq_bytes,
  reset <- seq_reset, reply <- seq_reply

\* Elements whose payload reads as a tag, and an account that holds the largest
\* record, and every smaller one.
DT == INSTANCE DynamicTail WITH
  Payload <- {1}, StringCap <- 1, VecCap <- 2, NoteLen <- 1, MaxRoom <- 8, Lost <- Zero,
  len <- tail_len, cells <- tail_cells, stored <- tail_stored

\* Slots spread so unevenly that guessing from their values goes astray.
Doubling(n) == {2 ^ i : i \in 0 .. n - 1}

\* Every way to skip slots; and the most entries a sysvar holds, and one more.
Lists == (SUBSET (0 .. 5)) \cup {Doubling(21), Doubling(22)}

NewestFirst(S, room) ==
  [i \in 0 .. room - 1 |->
     IF i < Cardinality(S) THEN CHOOSE s \in S : Cardinality({t \in S : t > s}) = i ELSE 0]

\* A list without and with room behind it, and one that is shorter than it says.
Images(S) ==
  LET n == Cardinality(S)
      image(claimed, room) ==
        [header |-> TRUE, count |-> claimed, room |-> room, slots |-> NewestFirst(S, room)]
  IN  {image(n, n), image(n, n + 2), image(n + 2, n)}

\* Too short for the count.
Headless == [header |-> FALSE, count |-> 0, room |-> 0, slots |-> NewestFirst({}, 0)]

SomeSysvars == {Headless} \cup UNION {Images(S) : S \in Lists}
SomeTargets == (0 .. 6) \cup {2 ^ i + 1 : i \in {8, 12, 17, 20}} \cup {2 ^ i : i \in {9, 15, 20}}

ASSUME CollectionsAssumption ==
  /\ SL!SlabAssumption /\ JO!JournalAssumption /\ SV!SortedVecAssumption
  /\ RB!RingBufferAssumption /\ PM!PackedMapAssumption
  /\ GS!GrowableSeqAssumption /\ DT!DynamicTailAssumption
  /\ SlotHashesAssumption /\ AllocatorAssumption

Kinds == {"slot_map", "slab", "journal", "sorted_vec", "ring_buffer", "packed_map",
          "growable_seq", "dynamic_tail", "slot_hashes", "heap"}

slab == <<slab_capacity, slab_count, slab_free_head, slab_allocated, slab_slots, slab_reply>>
journal == <<journal_write_head, journal_total_written, journal_circular, journal_slots, journal_reply>>
sorted == <<sorted_len, sorted_elements, sorted_reply>>
ring == <<ring_head, ring_count, ring_slots, ring_reply>>
map == <<map_len, map_entries, map_reply>>
sequence == <<seq_len, seq_count, seq_bytes, seq_reset, seq_reply>>
tail == <<tail_len, tail_cells, tail_stored>>
allvars == <<kind, vars, slab, journal, sorted, ring, map, sequence, tail, searchvars, heapvars>>

\* Any capacity for an account that holds a slab, any length for one with a tail
\* and any list of slot hashes; the others take one.
CInit ==
  /\ kind \in Kinds
  /\ Init /\ JO!Init /\ SV!Init /\ RB!Init /\ PM!Init /\ HeapInit
  /\ SL!Init /\ (kind # "slab" => slab_capacity = 0)
  /\ GS!Init /\ (kind # "growable_seq" => seq_len = 3)
  /\ DT!Init /\ (kind # "dynamic_tail" => tail_cells = <<>>)
  /\ SearchInit
  /\ kind # "slot_hashes" => sysvar.count = 0 /\ sysvar.room = 0 /\ target = 0

CNext ==
  \/ kind = "slot_map" /\ Next
       /\ UNCHANGED <<kind, slab, journal, sorted, ring, map, sequence, tail, searchvars, heapvars>>
  \/ kind = "slab" /\ SL!Next
       /\ UNCHANGED <<kind, vars, journal, sorted, ring, map, sequence, tail, searchvars, heapvars>>
  \/ kind = "journal" /\ JO!Next
       /\ UNCHANGED <<kind, vars, slab, sorted, ring, map, sequence, tail, searchvars, heapvars>>
  \/ kind = "sorted_vec" /\ SV!Next
       /\ UNCHANGED <<kind, vars, slab, journal, ring, map, sequence, tail, searchvars, heapvars>>
  \/ kind = "ring_buffer" /\ RB!Next
       /\ UNCHANGED <<kind, vars, slab, journal, sorted, map, sequence, tail, searchvars, heapvars>>
  \/ kind = "packed_map" /\ PM!Next
       /\ UNCHANGED <<kind, vars, slab, journal, sorted, ring, sequence, tail, searchvars, heapvars>>
  \/ kind = "growable_seq" /\ GS!Next
       /\ UNCHANGED <<kind, vars, slab, journal, sorted, ring, map, tail, searchvars, heapvars>>
  \/ kind = "dynamic_tail" /\ DT!Next
       /\ UNCHANGED <<kind, vars, slab, journal, sorted, ring, map, sequence, searchvars, heapvars>>
  \/ kind = "slot_hashes" /\ SearchNext
       /\ UNCHANGED <<kind, vars, slab, journal, sorted, ring, map, sequence, tail, heapvars>>
  \/ kind = "heap" /\ HeapNext
       /\ UNCHANGED <<kind, vars, slab, journal, sorted, ring, map, sequence, tail, searchvars>>

CSpec == CInit /\ [][CNext]_allvars

-----------------------------------------------------------------------------
(* The properties of the single collections, where they are documented *)

\* Every variable of every collection has its type.
WellTyped ==
  /\ TypeOK /\ SL!TypeOK /\ JO!TypeOK /\ SV!TypeOK /\ RB!TypeOK /\ PM!TypeOK
  /\ GS!TypeOK /\ DT!TypeOK /\ HeapTypeOK

\* What each collection relies on when it is opened again: the parts of its
\* bytes agree.  A slab's bitmap, free list and count; a slot map's count and
\* flags; the order of a sorted vec; the keys of a packed map (slab.rs,
\* slot_map.rs, sorted_vec.rs, packed_map.rs).  And no removed byte survives in
\* the account: the tail of a freed slab slot, a removed slot of a slot map, what
\* lies behind the last entry of a packed map or the last element of a sequence
\* (Slab::free, SlotMap::remove, PackedMap::remove, TailSeqMut::swap_remove).
WellFormed ==
  /\ WellTyped
  /\ SL!RecordsAgree /\ AlwaysParses /\ SV!Ascending /\ PM!KeysUnique
  /\ SL!FreedAreBlank /\ RemovedAreBlank /\ PM!RestIsBlank /\ GS!RestIsBlank

\* Each collection returns what the container it stands for would: a slab the
\* store SlabStore, journal and ring the window JournalWindow, a sorted vec the
\* bag RankedBag, a packed map the map BoundedMap, a growable sequence the list
\* SizedList (slot maps: ImplementsHandles).  And a read of a dynamic tail is what
\* the calls it accepted made of it, field by field and at every length of the
\* account (replace_tail_field, write_tail).
ImplementContainers ==
  /\ SL!ImplementsStore
  /\ JO!ImplementsWindow /\ RB!ImplementsWindow
  /\ SV!ImplementsBag
  /\ PM!ImplementsMap
  /\ GS!ImplementsList
  /\ []DT!ReadsBack
=============================================================================
