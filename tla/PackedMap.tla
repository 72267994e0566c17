----------------------------- MODULE PackedMap ------------------------------
(***************************************************************************)
(* The packed map of hopper-core (collections/packed_map.rs): a count and  *)
(* that many key-value entries, found by a scan and removed by moving the  *)
(* last entry into the gap.  A key of zero bytes is a key like any other,  *)
(* and what lies behind the last entry reads as one.                       *)
(*                                                                         *)
(* The buffer is born zeroed and outlives the PackedMap value: each call   *)
(* is made on a map just parsed from the bytes the previous calls left.    *)
(***************************************************************************)
EXTENDS Naturals, FiniteSets

CONSTANTS
  Key, ZeroKey,       \* keys, and the all-zero one
  Value, ZeroValue,   \* values, and the all-zero one
  Capacity            \* entries the buffer has room for

\* What the code and these definitions ask of the constants.
PackedMapAssumption ==
  /\ Capacity \in Nat
  /\ ZeroKey \in Key /\ ZeroValue \in Value

VARIABLES
  len,       \* the header
  entries,   \* index -> entry bytes
  reply      \* what the last call returned

vars == <<len, entries, reply>>

Index == 0 .. Capacity - 1
Entry == [key : Key, value : Value]
Vacant == [key |-> ZeroKey, value |-> ZeroValue]

-----------------------------------------------------------------------------
\* from_bytes accepts the header.
Parses == len <= Capacity

\* Where a key is.
Matches(k) == {i \in 0 .. len - 1 : entries[i].key = k}

Found(k) == Matches(k) # {}

\* The scan stops at the first match.
Find(k) == CHOOSE i \in Matches(k) : \A j \in Matches(k) : i <= j

Promise == INSTANCE BoundedMap WITH
  map <- [k \in {entries[i].key : i \in 0 .. len - 1} |-> entries[Find(k)].value]

Done(call, x) == Promise!Done(call, x)
Refused(call) == Promise!Refused(call)

-----------------------------------------------------------------------------
Init == len = 0 /\ entries = [i \in Index |-> Vacant] /\ reply = Done("zeroed", 0)

\* Where an insert writes: over the key, or behind the last entry.
Target(k) == IF Found(k) THEN Find(k) ELSE len

Fits(k) == Target(k) < Capacity

Insert(k, v) ==
  /\ Parses
  /\ IF Fits(k)
       THEN /\ entries' = [entries EXCEPT ![Target(k)] = [key |-> k, value |-> v]]
            /\ len' = IF Target(k) = len THEN len + 1 ELSE len
            /\ reply' = Done("insert", Found(k))
       ELSE reply' = Refused("insert") /\ UNCHANGED <<len, entries>>

\* The last entry moves to the gap and its place is zeroed.
EntriesWithout(i) == [entries EXCEPT ![i] = entries[len - 1], ![len - 1] = Vacant]

Remove(k) ==
  /\ Parses
  /\ IF Found(k)
       THEN /\ entries' = EntriesWithout(Find(k))
            /\ len' = len - 1
            /\ reply' = Done("remove", entries[Find(k)].value)
       ELSE reply' = Refused("remove") /\ UNCHANGED <<len, entries>>

\* A write of the value bytes at get_value_offset.
SetValue(k, v) ==
  /\ Parses
  /\ IF Found(k)
       THEN entries' = [entries EXCEPT ![Find(k)].value = v] /\ reply' = Done("set", k)
       ELSE reply' = Refused("set") /\ UNCHANGED entries
  /\ UNCHANGED len

\* get, contains, and a read through get_value_offset.
Get(k) ==
  /\ Parses
  /\ reply' = IF Found(k) THEN Done("get", entries[Find(k)].value) ELSE Refused("get")
  /\ UNCHANGED <<len, entries>>

Clear ==
  /\ Parses
  /\ entries' = [i \in Index |-> IF i < len THEN Vacant ELSE entries[i]]
  /\ len' = 0
  /\ reply' = Done("clear", 0)

Next ==
  \/ \E k \in Key, v \in Value : Insert(k, v) \/ SetValue(k, v)
  \/ \E k \in Key : Remove(k) \/ Get(k)
  \/ Clear

Spec == Init /\ [][Next]_vars

-----------------------------------------------------------------------------
(* Properties *)

\* Every variable has its type.
TypeOK == len \in 0 .. Capacity /\ entries \in [Index -> Entry]

\* Keys are unique, so no remove uncovers an older value of the same key.
KeysUnique == \A i, j \in 0 .. len - 1 : entries[i].key = entries[j].key => i = j

\* No byte of a removed entry stays behind the last one.
RestIsBlank == \A i \in Index : i >= len => entries[i] = Vacant

\* The packed map implements the bounded map: swap-removes and updates of a full
\* map never lose, duplicate or mix up an entry, the zero key's included.
ImplementsMap == Promise!ASpec
=============================================================================
