----------------------------- MODULE RingBuffer -----------------------------
(***************************************************************************)
(* The ring buffer of hopper-core (collections/ring_buffer.rs): a header   *)
(* of the next write position and a saturating count, then the elements.   *)
(* The journal tells "wrapped" from a total; the ring finds its oldest     *)
(* element from head and count alone.                                      *)
(*                                                                         *)
(* The buffer is born zeroed and outlives the RingBuffer value: each call  *)
(* is made on a ring just parsed from the bytes the previous calls left.   *)
(***************************************************************************)
EXTENDS Naturals

CONSTANTS
  Entry, Blank,   \* elements, and the all-zero one
  Capacity        \* elements the buffer has room for

\* What the code and these definitions ask of the constants.
RingBufferAssumption == Capacity \in Nat /\ Blank \in Entry

VARIABLES
  head, count,   \* the header
  slots,         \* position -> element bytes
  reply          \* what the last call returned

vars == <<head, count, slots, reply>>

Position == 0 .. Capacity - 1

-----------------------------------------------------------------------------
\* from_bytes accepts the header; a head at the capacity would be folded to 0.
Parses == head <= Capacity /\ count <= Capacity /\ (Capacity = 0 => head = 0)

Cursor == IF Capacity > 0 THEN head % Capacity ELSE 0

MutantOldestAtHead == Cursor

\* The oldest element lies count positions behind the head, round the ring.
Oldest == IF Cursor >= count THEN Cursor - count ELSE Capacity - (count - Cursor)

Physical(i) == (Oldest + i) % Capacity

Promise == INSTANCE JournalWindow WITH
  circular <- TRUE,
  window   <- [n \in 1 .. count |-> slots[Physical(n - 1)]]

Done(call, x) == Promise!Done(call, x)
Refused(call) == Promise!Refused(call)

-----------------------------------------------------------------------------
Init ==
  /\ head = 0 /\ count = 0
  /\ slots = [p \in Position |-> Blank]
  /\ reply = Done("zeroed", 0)

HeadAfter == (Cursor + 1) % Capacity

CountAfter == IF count + 1 <= Capacity THEN count + 1 ELSE Capacity

Push(e) ==
  /\ Parses
  /\ IF Capacity = 0
       THEN reply' = Refused("append") /\ UNCHANGED <<head, count, slots>>
       ELSE /\ slots' = [slots EXCEPT ![Cursor] = e]
            /\ head' = HeadAfter
            /\ count' = CountAfter
            /\ reply' = Done("append", 0)

\* get; oldest and latest are gets of index 0 and of index count - 1.
Get(i) ==
  /\ Parses
  /\ reply' = IF i < count THEN Done("read", slots[Physical(i)]) ELSE Refused("read")
  /\ head' = Cursor
  /\ UNCHANGED <<count, slots>>

Next ==
  \/ \E e \in Entry : Push(e)
  \/ \E i \in 0 .. Capacity : Get(i)

Spec == Init /\ [][Next]_vars

-----------------------------------------------------------------------------
(* Properties *)

\* Every variable has its type; the stored head needs no folding.
TypeOK ==
  /\ head \in IF Capacity > 0 THEN Position ELSE {0}
  /\ count \in 0 .. Capacity
  /\ slots \in [Position -> Entry]

\* The ring implements the window: however often it has gone round, get and the
\* shorthands see the last elements pushed, oldest first, and no push is lost.
ImplementsWindow == Promise!ASpec
=============================================================================
