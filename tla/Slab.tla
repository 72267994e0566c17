-------------------------------- MODULE Slab --------------------------------
(***************************************************************************)
(* The slab allocator of hopper-core (collections/slab.rs): a header, an   *)
(* occupancy bitmap and equal slots inside account bytes.  A free slot     *)
(* holds the index of the next free one in the four bytes where a value    *)
(* begins, so a cell is its first word and the rest, whatever it holds.    *)
(*                                                                         *)
(* The account outlives the Slab value: each call is made on a slab just   *)
(* parsed from the bytes the previous calls left.                          *)
(***************************************************************************)
EXTENDS Naturals, FiniteSets

CONSTANTS
  Capacities,   \* the capacities init is called with
  NO_FREE,      \* u32::MAX, "no free slot"
  Word, Rest    \* first word and remaining bytes of a value; 0 is all zero

\* What the code and these definitions ask of the constants.
SlabAssumption ==
  /\ Capacities \subseteq Nat /\ NO_FREE \in Nat
  /\ \A cap \in Capacities : cap < NO_FREE
  /\ Word \subseteq Nat /\ 0 \in Rest

VARIABLES
  capacity, count, free_head,   \* the header
  allocated,                    \* the slots whose bitmap bit is set
  slots,                        \* index -> the bytes of the slot
  reply                         \* what the last call returned

vars == <<capacity, count, free_head, allocated, slots, reply>>

Payload == [first : Word, rest : Rest]

Promise == INSTANCE SlabStore WITH
  Value <- Payload, store <- [i \in allocated |-> slots[i]]

Done(call, x) == Promise!Done(call, x)
Refused(call) == Promise!Refused(call)
Index == Promise!Index

-----------------------------------------------------------------------------
\* The link init leaves in slot i: the next slot, the last one ends the list.
InitialLink(i, cap) == IF i + 1 < cap THEN i + 1 ELSE NO_FREE

\* Slab::init on a zeroed buffer.
Init ==
  /\ capacity \in Capacities
  /\ count = 0 /\ free_head = 0
  /\ allocated = {}
  /\ slots = [i \in 0 .. capacity - 1 |-> [first |-> InitialLink(i, capacity), rest |-> 0]]
  /\ reply = Done("init", 0)

\* from_bytes_mut accepts the header.
Parses == count <= capacity

Allocated(i) == i < capacity /\ i \in allocated

\* Why alloc refuses; the last two guard against bytes no slab has written.
AllocError ==
  IF free_head = NO_FREE           THEN "AccountDataTooSmall"
  ELSE IF free_head >= capacity    THEN "InvalidAccountData"
  ELSE IF Allocated(free_head)     THEN "InvalidAccountData"
  ELSE "None"

MutantLinkAfterWrite(i, v) == v.first

\* The next-free pointer alloc takes from the slot before the value covers it.
NextFree(i, v) == slots[i].first

Alloc(v) ==
  /\ Parses
  /\ IF AllocError = "None"
       THEN /\ slots' = [slots EXCEPT ![free_head] = v]
            /\ allocated' = allocated \cup {free_head}
            /\ free_head' = NextFree(free_head, v)
            /\ count' = count + 1
            /\ reply' = Done("alloc", free_head)
       ELSE /\ reply' = Refused("alloc")
            /\ UNCHANGED <<count, free_head, allocated, slots>>
  /\ UNCHANGED capacity

Freeable(i) == Allocated(i)

\* A freed slot: the old head of the list, then zeroes.
FreedCell(i) == [first |-> free_head, rest |-> 0]

Free(i) ==
  /\ Parses
  /\ IF Freeable(i)
       THEN /\ slots' = [slots EXCEPT ![i] = FreedCell(i)]
            /\ allocated' = allocated \ {i}
            /\ free_head' = i
            /\ count' = IF count = 0 THEN 0 ELSE count - 1
            /\ reply' = Done("free", i)
       ELSE /\ reply' = Refused("free")
            /\ UNCHANGED <<count, free_head, allocated, slots>>
  /\ UNCHANGED capacity

Writable(i) == Allocated(i)

\* set, and a write through get_mut.
Set(i, v) ==
  /\ Parses
  /\ IF Writable(i)
       THEN slots' = [slots EXCEPT ![i] = v] /\ reply' = Done("set", i)
       ELSE reply' = Refused("set") /\ UNCHANGED slots
  /\ UNCHANGED <<capacity, count, free_head, allocated>>

\* get and get_ref.
Get(i) ==
  /\ Parses
  /\ reply' = IF Allocated(i) THEN Done("get", slots[i]) ELSE Refused("get")
  /\ UNCHANGED <<capacity, count, free_head, allocated, slots>>

Next ==
  \/ \E v \in Payload : Alloc(v)
  \/ \E i \in Promise!Asked : Free(i) \/ Get(i)
  \/ \E i \in Promise!Asked, v \in Payload : Set(i, v)

Spec == Init /\ [][Next]_vars

-----------------------------------------------------------------------------
(* Properties *)

\* Every variable has its type.
TypeOK ==
  /\ capacity \in Capacities /\ count \in Nat
  /\ free_head \in Index \cup {0, NO_FREE}
  /\ allocated \subseteq Index
  /\ slots \in [Index -> [first : Nat, rest : Rest]]

\* The slot reached after n links from the head.
Follow[n \in Nat] ==
  IF n = 0 THEN free_head
  ELSE IF Follow[n - 1] \in Index THEN slots[Follow[n - 1]].first ELSE NO_FREE

\* Bitmap, free list and count agree: the list threads exactly the slots whose
\* bit is clear, each once, and ends, so that no value byte is ever followed as a
\* link and no slot is lost; the count is the number of bits set, so from_bytes_mut
\* accepts what any sequence of calls leaves.  (A slab of capacity 0 has no list:
\* init leaves its head at 0.)
RecordsAgree ==
  LET free == Cardinality(Index \ allocated)
  IN  /\ count = Cardinality(allocated)
      /\ capacity > 0 => /\ {Follow[n] : n \in 0 .. free - 1} = Index \ allocated
                         /\ Follow[free] = NO_FREE

\* Nothing of a freed value but its first word survives in the account.
FreedAreBlank == \A i \in Index \ allocated : slots[i].rest = 0

\* The slab implements the pool of slots: alloc never hands out a slot in use
\* and refuses only when all are, values stay what was last put there.
ImplementsStore == Promise!ASpec
=============================================================================
