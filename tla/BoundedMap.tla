----------------------------- MODULE BoundedMap -----------------------------
(***************************************************************************)
(* What a packed map promises, without entries and their order: a finite   *)
(* function of at most Capacity keys.  An insert of a known key updates it *)
(* even when the map is full.  PackedMap implements this.                  *)
(***************************************************************************)
EXTENDS Naturals, FiniteSets

CONSTANTS Capacity, Key, Value

VARIABLES
  map,     \* key -> value
  reply    \* what the last call returned

avars == <<map, reply>>

Done(call, x) == <<call, "Ok", x>>
Refused(call) == <<call, "Err">>

AInit == map \in [{} -> Value] /\ reply = Done("zeroed", 0)

With(k, v) == [j \in DOMAIN map \cup {k} |-> IF j = k THEN v ELSE map[j]]

AInsert(k, v) ==
  IF k \in DOMAIN map \/ Cardinality(DOMAIN map) < Capacity
    THEN map' = With(k, v) /\ reply' = Done("insert", k \in DOMAIN map)
    ELSE reply' = Refused("insert") /\ UNCHANGED map

ARemove(k) ==
  IF k \in DOMAIN map
    THEN /\ map' = [j \in DOMAIN map \ {k} |-> map[j]]
         /\ reply' = Done("remove", map[k])
    ELSE reply' = Refused("remove") /\ UNCHANGED map

ASet(k, v) ==
  IF k \in DOMAIN map
    THEN map' = With(k, v) /\ reply' = Done("set", k)
    ELSE reply' = Refused("set") /\ UNCHANGED map

AGet(k) ==
  /\ reply' = IF k \in DOMAIN map THEN Done("get", map[k]) ELSE Refused("get")
  /\ UNCHANGED map

AClear == map' \in [{} -> Value] /\ reply' = Done("clear", 0)

ANext ==
  \/ \E k \in Key, v \in Value : AInsert(k, v) \/ ASet(k, v)
  \/ \E k \in Key : ARemove(k) \/ AGet(k)
  \/ AClear

ASpec == AInit /\ [][ANext]_avars
=============================================================================
