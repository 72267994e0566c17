----------------------------- MODULE HandleMap -----------------------------
(***************************************************************************)
(* What a slot map promises: insert returns a handle no earlier insert has *)
(* returned, the handle reads the value until it is removed, and nothing   *)
(* afterwards.  SlotMap implements this while its generations last.        *)
(***************************************************************************)
EXTENDS Naturals, FiniteSets

CONSTANTS Capacity, Key, Value

VARIABLES
  held,     \* handle -> value, for the handles not yet removed
  issued,   \* every handle ever returned
  reply     \* what the last call returned

avars == <<held, issued, reply>>

Done(call, x) == <<call, "Ok", x>>
Refused(call) == <<call, "Err">>

AInit == held \in [{} -> Value] /\ issued = {} /\ reply = Done("init", 0)

AInsert(v) ==
  IF Cardinality(DOMAIN held) = Capacity
    THEN reply' = Refused("insert") /\ UNCHANGED <<held, issued>>
    ELSE \E k \in Key \ issued :
           /\ held' = [h \in DOMAIN held \cup {k} |-> IF h = k THEN v ELSE held[h]]
           /\ issued' = issued \cup {k}
           /\ reply' = Done("insert", k)

ARemove(k) ==
  /\ IF k \in DOMAIN held
       THEN /\ held' = [h \in DOMAIN held \ {k} |-> held[h]]
            /\ reply' = Done("remove", held[k])
       ELSE reply' = Refused("remove") /\ UNCHANGED held
  /\ UNCHANGED issued

AGet(k) ==
  /\ reply' = IF k \in DOMAIN held THEN Done("get", held[k]) ELSE Refused("get")
  /\ UNCHANGED <<held, issued>>

ANext ==
  \/ \E v \in Value : AInsert(v)
  \/ \E k \in Key : ARemove(k) \/ AGet(k)

ASpec == AInit /\ [][ANext]_avars
=============================================================================
