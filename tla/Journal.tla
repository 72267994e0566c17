------------------------------ MODULE Journal ------------------------------
(***************************************************************************)
(* The journal of hopper-core (collections/journal.rs): fixed-size entries *)
(* after a header of a write head, a wrapping u32 total and a mode flag.   *)
(* Journal and JournalReader read alike.                                   *)
(***************************************************************************)
EXTENDS Naturals, Sequences

CONSTANTS
  Entry, Blank,   \* entries, and the all-zero one
  Capacity,       \* entries the buffer has room for
  TOTALS,         \* 2^32
  MaxTotal        \* bound: entries appended before the total may not grow

\* What the code and these definitions ask of the constants.
JournalAssumption ==
  /\ Capacity \in Nat /\ TOTALS \in Nat /\ Capacity < TOTALS
  /\ MaxTotal \in Nat /\ Blank \in Entry

VARIABLES
  write_head, total_written, circular,   \* the header
  slots,                                 \* position -> entry bytes
  reply                                  \* what the last call returned

vars == <<write_head, total_written, circular, slots, reply>>

Position == 0 .. Capacity - 1

-----------------------------------------------------------------------------
has_wrapped == total_written > Capacity

entry_count == IF total_written < Capacity THEN total_written ELSE Capacity

\* Where the entry with logical index i is: a wrapped journal starts at the head.
Physical(i) == IF has_wrapped THEN (write_head + i) % Capacity ELSE i

Promise == INSTANCE JournalWindow WITH
  window <- [n \in 1 .. entry_count |-> slots[Physical(n - 1)]]

Done(call, x) == Promise!Done(call, x)
Refused(call) == Promise!Refused(call)

-----------------------------------------------------------------------------
\* A zeroed account is an empty strict journal.
Init ==
  /\ write_head = 0 /\ total_written = 0 /\ circular = FALSE
  /\ slots = [p \in Position |-> Blank]
  /\ reply = Done("zeroed", 0)

\* init: the header is rewritten, the entries stay.
Reset(mode) ==
  /\ write_head' = 0 /\ total_written' = 0 /\ circular' = mode
  /\ reply' = Done("init", 0)
  /\ UNCHANGED slots

AppendRefused == Capacity = 0 \/ (write_head >= Capacity /\ ~circular)

\* A head past the end is brought back into range (circular mode only).
Head0 == IF write_head >= Capacity THEN write_head % Capacity ELSE write_head

HeadAfter == IF circular THEN (Head0 + 1) % Capacity ELSE Head0 + 1

TotalAfter == (total_written + 1) % TOTALS

AppendEntry(e) ==
  /\ IF AppendRefused
       THEN reply' = Refused("append") /\ UNCHANGED <<write_head, total_written, slots>>
       ELSE /\ total_written < MaxTotal
            /\ slots' = [slots EXCEPT ![Head0] = e]
            /\ write_head' = HeadAfter
            /\ total_written' = TotalAfter
            /\ reply' = Done("append", 0)
  /\ UNCHANGED circular

\* read; latest is a read of index entry_count - 1.
ReadEntry(i) ==
  /\ reply' = IF i < entry_count THEN Done("read", slots[Physical(i)]) ELSE Refused("read")
  /\ UNCHANGED <<write_head, total_written, circular, slots>>

Next ==
  \/ \E mode \in BOOLEAN : Reset(mode)
  \/ \E e \in Entry : AppendEntry(e)
  \/ \E i \in 0 .. Capacity : ReadEntry(i)

Spec == Init /\ [][Next]_vars

-----------------------------------------------------------------------------
(* Properties *)

\* Every variable has its type; the head stays inside the entry area, one past
\* it only in a full strict journal.
TypeOK ==
  /\ total_written \in 0 .. TOTALS - 1 /\ circular \in BOOLEAN
  /\ slots \in [Position -> Entry]
  /\ write_head \in 0 .. Capacity
  /\ write_head = Capacity => Capacity = 0 \/ (~circular /\ total_written = Capacity)

\* The journal implements the window: after any appends and wraps the visible
\* entries are the last ones appended, oldest first, and a strict journal keeps
\* what it has when it refuses.
ImplementsWindow == Promise!ASpec
=============================================================================
