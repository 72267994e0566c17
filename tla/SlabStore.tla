----------------------------- MODULE SlabStore -----------------------------
(***************************************************************************)
(* What a slab promises, without free list, bitmap or wire bytes: a pool   *)
(* of numbered slots.  alloc fills some empty slot and fails only when     *)
(* none is left; a slot keeps its value until it is set or freed; reads,   *)
(* writes and frees of an empty slot are refused.  Slab implements this.   *)
(***************************************************************************)
EXTENDS Naturals

CONSTANTS Capacities, Value

VARIABLES
  capacity,   \* number of slots
  store,      \* slot index -> value, for the slots in use
  reply       \* what the last call returned

avars == <<capacity, store, reply>>

Done(call, x) == <<call, "Ok", x>>
Refused(call) == <<call, "Err">>

Index == 0 .. capacity - 1
Asked == 0 .. capacity   \* the indices a program may present

AInit == capacity \in Capacities /\ store = <<>> /\ reply = Done("init", 0)

With(i, v) == [j \in DOMAIN store \cup {i} |-> IF j = i THEN v ELSE store[j]]

AAlloc(v) ==
  \/ /\ DOMAIN store = Index
     /\ reply' = Refused("alloc") /\ UNCHANGED store
  \/ \E i \in Index \ DOMAIN store :
       store' = With(i, v) /\ reply' = Done("alloc", i)

AFree(i) ==
  IF i \in DOMAIN store
    THEN /\ store' = [j \in DOMAIN store \ {i} |-> store[j]]
         /\ reply' = Done("free", i)
    ELSE reply' = Refused("free") /\ UNCHANGED store

ASet(i, v) ==
  IF i \in DOMAIN store
    THEN store' = With(i, v) /\ reply' = Done("set", i)
    ELSE reply' = Refused("set") /\ UNCHANGED store

AGet(i) ==
  /\ reply' = IF i \in DOMAIN store THEN Done("get", store[i]) ELSE Refused("get")
  /\ UNCHANGED store

ANext ==
  /\ UNCHANGED capacity
  /\ \/ \E v \in Value : AAlloc(v)
     \/ \E i \in Asked : AFree(i) \/ AGet(i)
     \/ \E i \in Asked, v \in Value : ASet(i, v)

ASpec == AInit /\ [][ANext]_avars
=============================================================================
