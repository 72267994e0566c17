------------------------------ MODULE SlotMap ------------------------------
(***************************************************************************)
(* The slot map of hopper-core (collections/slot_map.rs): slots with an    *)
(* occupied flag and a u32 generation that a removal increments, wrapping. *)
(* A handle is an index and the generation at insertion.                   *)
(*                                                                         *)
(* The buffer is born zeroed and outlives the SlotMap value: each call is  *)
(* made on a map just parsed from the bytes the previous calls left.       *)
(***************************************************************************)
EXTENDS Naturals, FiniteSetsExt

CONSTANTS
  Capacity,     \* slots the buffer has room for
  GENERATIONS,  \* 2^32
  Value, Zero,  \* elements, and the all-zero one
  MaxRetired    \* bound: handles used up

ASSUME SlotMapAssumption ==
  /\ Capacity \in Nat /\ GENERATIONS \in Nat \ {0} /\ MaxRetired \in Nat
  /\ Zero \in Value

VARIABLES
  count,        \* the header
  occupied,     \* the slots whose flag is set
  generation,   \* index -> generation
  element,      \* index -> element bytes
  retired,      \* the handles whose values were removed (history)
  reply         \* what the last call returned

vars == <<count, occupied, generation, element, retired, reply>>

Index == 0 .. Capacity - 1

SlotKey(i, g) == [index |-> i, generation |-> g]

\* The keys a program may present: handles can be stored, copied and decoded.
Key == [index : 0 .. Capacity, generation : 0 .. GENERATIONS - 1]

\* The handles of the values in the map.
Handles == {SlotKey(i, generation[i]) : i \in occupied}

Promise == INSTANCE HandleMap WITH
  held   <- [k \in Handles |-> element[k.index]],
  issued <- Handles \cup retired

Done(call, x) == Promise!Done(call, x)
Refused(call) == Promise!Refused(call)

-----------------------------------------------------------------------------
Init ==
  /\ count = 0
  /\ occupied = {}
  /\ generation = [i \in Index |-> 0]
  /\ element = [i \in Index |-> Zero]
  /\ retired = {}
  /\ reply = Done("init", 0)

\* from_bytes accepts the header.
Parses == count <= Capacity /\ count = Cardinality(occupied)

CountAfterInsert == IF count + 1 <= Capacity THEN count + 1 ELSE Capacity

\* The first free slot takes the value under its current generation.
Insert(v) ==
  LET free == Index \ occupied
      i    == Min(free)
      key  == SlotKey(i, generation[i])
  IN  /\ Parses
      /\ IF free = {}
           THEN /\ reply' = Refused("insert")
                /\ UNCHANGED <<count, occupied, element>>
           ELSE /\ occupied' = occupied \cup {i}
                /\ element' = [element EXCEPT ![i] = v]
                /\ count' = CountAfterInsert
                /\ reply' = Done("insert", key)
      /\ UNCHANGED <<generation, retired>>

MutantIgnoresGeneration(key) == key.index < Capacity /\ key.index \in occupied

\* The key names an occupied slot of its own generation.
Valid(key) ==
  /\ key.index < Capacity /\ key.index \in occupied
  /\ generation[key.index] = key.generation

MutantKeepsGeneration(i) == generation[i]

NextGeneration(i) == (generation[i] + 1) % GENERATIONS

ElementAfterRemove(i) == Zero

Remove(key) ==
  LET i == key.index
  IN  /\ Parses
      /\ IF Valid(key)
           THEN /\ Cardinality(retired) < MaxRetired
                /\ occupied' = occupied \ {i}
                /\ generation' = [generation EXCEPT ![i] = NextGeneration(i)]
                /\ element' = [element EXCEPT ![i] = ElementAfterRemove(i)]
                /\ count' = IF count = 0 THEN 0 ELSE count - 1
                /\ retired' = retired \cup {key}
                /\ reply' = Done("remove", element[i])
           ELSE /\ reply' = Refused("remove")
                /\ UNCHANGED <<count, occupied, generation, element, retired>>

Get(key) ==
  /\ Parses
  /\ reply' = IF Valid(key) THEN Done("get", element[key.index]) ELSE Refused("get")
  /\ UNCHANGED <<count, occupied, generation, element, retired>>

Next ==
  \/ \E v \in Value : Insert(v)
  \/ \E k \in Key : Remove(k) \/ Get(k)

Spec == Init /\ [][Next]_vars

-----------------------------------------------------------------------------
(* Properties *)

\* Every variable has its type.
TypeOK ==
  /\ count \in 0 .. Capacity /\ occupied \subseteq Index
  /\ generation \in [Index -> 0 .. GENERATIONS - 1]
  /\ element \in [Index -> Value]
  /\ retired \subseteq Key

\* The bytes any sequence of calls leaves are accepted by from_bytes again: the
\* stored count is the number of occupied flags.
AlwaysParses == Parses

\* A removed value leaves no byte behind in the account.
RemovedAreBlank == \A i \in Index \ occupied : element[i] = Zero

\* "Generation counters prevent ABA bugs": a handle whose value was removed never
\* reads, or removes, the value that took its slot.
RemovedStaysDead == \A key \in retired : ~Valid(key)

\* The map implements the handles it promises: an insert returns a handle no
\* insert has returned, refuses only when every slot is taken, and a handle
\* gives back the value it was returned for.
ImplementsHandles == Promise!ASpec
=============================================================================
