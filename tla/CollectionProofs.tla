---------------------------- MODULE CollectionProofs --------------------------
(***************************************************************************)
(* Proofs about the slot map, for every capacity, number of generations    *)
(* and set of elements; the search in the SlotHashes sysvar, for every     *)
(* list, every width of a window and every slot asked for: its answers and *)
(* its pace; the heap, for every region and every size and alignment asked *)
(* for; packed map, slab, ring buffer, journal, sorted vec and growable    *)
(* sequence, for every capacity and set of elements; and the dynamic tail, *)
(* for every capacity and byte values of its fields.                       *)
(***************************************************************************)
EXTENDS SlotMap, SlotHashes, BumpAllocator, WellFoundedInduction, TLAPS,
        FiniteSetTheorems, SequenceTheorems

-----------------------------------------------------------------------------
(* The slot map *)

CountExact == count = Cardinality(occupied)

IInv == TypeOK /\ CountExact /\ RemovedAreBlank

\* A removal uses up the generation it was called with, so while generations
\* last a retired handle is behind its slot, and no slot is further on than
\* there are retired handles.
RetiredBehind ==
  \A key \in retired : key.index \in Index /\ key.generation < generation[key.index]

Paced ==
  /\ IsFiniteSet(retired)
  /\ Cardinality(retired) <= MaxRetired
  /\ \A i \in Index : generation[i] <= Cardinality(retired)

GInv == RetiredBehind /\ Paced

-----------------------------------------------------------------------------
\* The slots are finitely many, so the count can be compared with the capacity.
LEMMA SlotsFinite ==
  ASSUME NEW S, S \subseteq Index
  PROVE  /\ IsFiniteSet(Index) /\ Cardinality(Index) = Capacity
         /\ IsFiniteSet(S) /\ Cardinality(S) \in 0 .. Capacity
         /\ Cardinality(S) = Capacity <=> S = Index
<1>1. IsFiniteSet(Index) /\ Cardinality(Index) = Capacity
  <2>1. 0 \in Int /\ Capacity - 1 \in Int
    BY SlotMapAssumption
  <2>2. IsFiniteSet(0 .. Capacity - 1)
        /\ Cardinality(0 .. Capacity - 1) = IF 0 > Capacity - 1 THEN 0 ELSE Capacity - 1 - 0 + 1
    BY <2>1, FS_Interval
  <2>3. QED
    BY <2>2, SlotMapAssumption DEF Index
<1>2. /\ IsFiniteSet(S) /\ Cardinality(S) <= Cardinality(Index)
      /\ Cardinality(Index) = Cardinality(S) => Index = S
  BY <1>1, FS_Subset
<1>3. Cardinality(S) \in Nat
  BY <1>2, FS_CardinalityType
<1>4. QED
  BY <1>1, <1>2, <1>3, SlotMapAssumption

\* A non-empty set of naturals has a least element.
LEMMA LeastElement ==
  ASSUME NEW T, T \subseteq Nat, T # {}
  PROVE  \E x \in T : \A y \in T : x <= y
<1>1. PICK x \in T : \A y \in T : <<y, x>> \notin OpToRel(<, Nat)
  BY NatLessThanWellFounded, WFMin
<1>2. ASSUME NEW y \in T PROVE x <= y
  <2>1. <<y, x>> \notin OpToRel(<, Nat) /\ x \in Nat /\ y \in Nat
    BY <1>1
  <2>2. QED
    BY <2>1 DEF OpToRel
<1>3. QED
  BY <1>2

\* The slot insert fills: the first one whose flag is clear.
LEMMA FirstFree ==
  ASSUME Index \ occupied # {}
  PROVE  Min(Index \ occupied) \in Index \ occupied
<1>1. Index \ occupied \subseteq Nat
  BY SlotMapAssumption DEF Index
<1>2. \E x \in Index \ occupied : \A y \in Index \ occupied : x <= y
  BY <1>1, LeastElement
<1>3. QED
  BY <1>2 DEF Min

\* What an insertion that succeeds changes.
LEMMA InsertEffect ==
  ASSUME TypeOK, NEW v \in Value, Insert(v), Index \ occupied # {}
  PROVE  \E i \in Index \ occupied :
           /\ occupied' = occupied \cup {i}
           /\ element' = [element EXCEPT ![i] = v]
           /\ count' = CountAfterInsert
           /\ reply' = Done("insert", SlotKey(i, generation[i]))
           /\ UNCHANGED <<generation, retired>>
  BY FirstFree DEF Insert

\* A generation stays a u32 when it is bumped.
LEMMA NextGenerationType ==
  ASSUME TypeOK, NEW i \in Index
  PROVE  /\ NextGeneration(i) \in 0 .. GENERATIONS - 1
         /\ generation[i] + 1 < GENERATIONS => NextGeneration(i) = generation[i] + 1
<1>1. generation[i] \in 0 .. GENERATIONS - 1
  BY DEF TypeOK
<1>2. GENERATIONS \in Nat \ {0}
  BY SlotMapAssumption
<1>3. \A n \in Nat, m \in Nat \ {0} : n % m \in 0 .. m - 1 /\ (n < m => n % m = n)
  OBVIOUS
<1>4. generation[i] + 1 \in Nat
  BY <1>1
<1>5. QED
  BY <1>2, <1>3, <1>4 DEF NextGeneration

-----------------------------------------------------------------------------
LEMMA InitEstablishes == Init => IInv
<1>1. SUFFICES ASSUME Init PROVE IInv
  OBVIOUS
<1>2. TypeOK
  BY <1>1, SlotMapAssumption DEF Init, TypeOK
<1>3. CountExact
  BY <1>1, FS_EmptySet DEF Init, CountExact
<1>4. RemovedAreBlank
  BY <1>1 DEF Init, RemovedAreBlank
<1>5. QED
  BY <1>2, <1>3, <1>4 DEF IInv

LEMMA InsertPreserves ==
  ASSUME IInv, NEW v \in Value, Insert(v)
  PROVE  IInv'
<1>1. CASE Index \ occupied = {}
  <2>1. UNCHANGED <<count, occupied, generation, element, retired>>
    BY <1>1 DEF Insert
  <2>2. QED
    BY <2>1 DEF IInv, TypeOK, CountExact, RemovedAreBlank
<1>2. CASE Index \ occupied # {}
  <2>1. PICK i \in Index \ occupied :
           /\ occupied' = occupied \cup {i}
           /\ element' = [element EXCEPT ![i] = v]
           /\ count' = CountAfterInsert
           /\ UNCHANGED <<generation, retired>>
    BY <1>2, InsertEffect DEF IInv
  <2>2. occupied \subseteq Index /\ count = Cardinality(occupied)
    BY DEF IInv, TypeOK, CountExact
  <2>3. IsFiniteSet(occupied)
    BY <2>2, SlotsFinite
  <2>4. Cardinality(occupied') = Cardinality(occupied) + 1
    BY <2>1, <2>3, FS_AddElement
  <2>5. occupied' \subseteq Index
    BY <2>1, <2>2
  <2>6. Cardinality(occupied') \in 0 .. Capacity
    BY <2>5, SlotsFinite
  <2>7. count' = Cardinality(occupied')
    BY <2>1, <2>2, <2>4, <2>6 DEF CountAfterInsert
  <2>8. TypeOK'
    BY <2>1, <2>5, <2>6, <2>7 DEF IInv, TypeOK
  <2>9. RemovedAreBlank'
    BY <2>1 DEF IInv, TypeOK, RemovedAreBlank
  <2>10. QED
    BY <2>7, <2>8, <2>9 DEF IInv, CountExact
<1>3. QED
  BY <1>1, <1>2

LEMMA RemovePreserves ==
  ASSUME IInv, NEW key \in Key, Remove(key)
  PROVE  IInv'
<1>1. CASE ~Valid(key)
  <2>1. UNCHANGED <<count, occupied, generation, element, retired>>
    BY <1>1 DEF Remove
  <2>2. QED
    BY <2>1 DEF IInv, TypeOK, CountExact, RemovedAreBlank
<1>2. CASE Valid(key)
  <2>1. PICK i \in occupied : i = key.index
    BY <1>2 DEF Valid
  <2>2. /\ occupied' = occupied \ {i}
        /\ generation' = [generation EXCEPT ![i] = NextGeneration(i)]
        /\ element' = [element EXCEPT ![i] = Zero]
        /\ count' = IF count = 0 THEN 0 ELSE count - 1
        /\ retired' = retired \cup {key}
    BY <1>2, <2>1 DEF Remove, ElementAfterRemove
  <2>3. occupied \subseteq Index /\ count = Cardinality(occupied) /\ i \in Index
    BY <2>1 DEF IInv, TypeOK, CountExact
  <2>4. IsFiniteSet(occupied) /\ Cardinality(occupied) \in 0 .. Capacity
    BY <2>3, SlotsFinite
  <2>5. Cardinality(occupied') = Cardinality(occupied) - 1
    BY <2>1, <2>2, <2>4, FS_RemoveElement
  <2>6. occupied' \subseteq Index
    BY <2>2, <2>3
  <2>7. Cardinality(occupied') \in 0 .. Capacity
    BY <2>6, SlotsFinite
  <2>8. count' = Cardinality(occupied')
    BY <2>2, <2>3, <2>4, <2>5, <2>7, SlotMapAssumption
  <2>9. NextGeneration(i) \in 0 .. GENERATIONS - 1
    BY <2>3, NextGenerationType DEF IInv
  <2>10. TypeOK'
    BY <2>2, <2>3, <2>6, <2>7, <2>8, <2>9, SlotMapAssumption DEF IInv, TypeOK
  <2>11. RemovedAreBlank'
    BY <2>2, <2>3 DEF IInv, TypeOK, RemovedAreBlank
  <2>12. QED
    BY <2>8, <2>10, <2>11 DEF IInv, CountExact
<1>3. QED
  BY <1>1, <1>2

LEMMA StepPreserves == IInv /\ [Next]_vars => IInv'
<1>1. SUFFICES ASSUME IInv, [Next]_vars PROVE IInv'
  OBVIOUS
<1>2. ASSUME NEW v \in Value, Insert(v) PROVE IInv'
  BY <1>1, <1>2, InsertPreserves
<1>3. ASSUME NEW key \in Key, Remove(key) PROVE IInv'
  BY <1>1, <1>3, RemovePreserves
<1>4. ASSUME NEW key \in Key, Get(key) PROVE IInv'
  BY <1>1, <1>4 DEF Get, IInv, TypeOK, CountExact, RemovedAreBlank
<1>5. CASE UNCHANGED vars
  BY <1>1, <1>5 DEF vars, IInv, TypeOK, CountExact, RemovedAreBlank
<1>6. QED
  BY <1>1, <1>2, <1>3, <1>4, <1>5 DEF Next

\* Every variable keeps its type, whatever the capacity.
THEOREM TypeCorrect == Spec => []TypeOK
<1>1. IInv => TypeOK
  BY DEF IInv
<1>2. QED
  BY <1>1, InitEstablishes, StepPreserves, PTL DEF Spec

\* from_bytes accepts whatever bytes a sequence of inserts and removes leaves.
THEOREM MapAlwaysParses == Spec => []AlwaysParses
<1>1. IInv => AlwaysParses
  BY SlotMapAssumption DEF IInv, TypeOK, CountExact, AlwaysParses, Parses
<1>2. QED
  BY <1>1, InitEstablishes, StepPreserves, PTL DEF Spec

\* No byte of a removed element stays in the account.
THEOREM RemovedAlwaysBlank == Spec => []RemovedAreBlank
<1>1. IInv => RemovedAreBlank
  BY DEF IInv
<1>2. QED
  BY <1>1, InitEstablishes, StepPreserves, PTL DEF Spec

-----------------------------------------------------------------------------
LEMMA InitPaced == Init => GInv
<1>1. SUFFICES ASSUME Init PROVE GInv
  OBVIOUS
<1>2. retired = {} /\ \A i \in Index : generation[i] = 0
  BY <1>1 DEF Init
<1>3. IsFiniteSet(retired) /\ Cardinality(retired) = 0
  BY <1>2, FS_EmptySet
<1>4. QED
  BY <1>2, <1>3, SlotMapAssumption DEF GInv, RetiredBehind, Paced

\* The heart of the matter: the generation a removal uses up was never used up
\* before, so each one costs a retired handle, and while fewer are spent than
\* there are generations the bump does not wrap.
LEMMA RemovePaced ==
  ASSUME MaxRetired < GENERATIONS, IInv, GInv, NEW key \in Key, Remove(key)
  PROVE  GInv'
<1>1. CASE ~Valid(key)
  <2>1. UNCHANGED <<generation, retired>>
    BY <1>1 DEF Remove
  <2>2. QED
    BY <2>1 DEF GInv, RetiredBehind, Paced
<1>2. CASE Valid(key)
  <2>1. PICK i \in Index : i = key.index /\ generation[i] = key.generation
    BY <1>2 DEF Valid, IInv, TypeOK
  <2>2. /\ generation' = [generation EXCEPT ![i] = NextGeneration(i)]
        /\ retired' = retired \cup {key}
        /\ Cardinality(retired) < MaxRetired
    BY <1>2, <2>1 DEF Remove
  <2>3. generation \in [Index -> Nat]
    BY SlotMapAssumption DEF IInv, TypeOK
  <2>4. key \notin retired
    BY <2>1, <2>3 DEF GInv, RetiredBehind
  <2>5. IsFiniteSet(retired) /\ Cardinality(retired) \in Nat
    BY FS_CardinalityType DEF GInv, Paced
  <2>6. IsFiniteSet(retired') /\ Cardinality(retired') = Cardinality(retired) + 1
    BY <2>2, <2>4, <2>5, FS_AddElement
  <2>7. generation[i] <= Cardinality(retired)
    BY DEF GInv, Paced
  <2>8. generation[i] + 1 < GENERATIONS
    BY <2>2, <2>3, <2>5, <2>7, SlotMapAssumption
  <2>9. NextGeneration(i) = generation[i] + 1
    BY <2>8, NextGenerationType DEF IInv
  <2>10. Paced'
    <3>1. \A j \in Index : generation'[j] <= Cardinality(retired')
      BY <2>2, <2>3, <2>5, <2>6, <2>9 DEF GInv, Paced
    <3>2. Cardinality(retired') <= MaxRetired
      BY <2>2, <2>5, <2>6, SlotMapAssumption
    <3>3. QED
      BY <2>6, <3>1, <3>2 DEF Paced
  <2>11. RetiredBehind'
    <3>1. SUFFICES ASSUME NEW k \in retired'
                   PROVE  k.index \in Index /\ k.generation < generation'[k.index]
      BY DEF RetiredBehind
    <3>2. CASE k = key
      BY <3>2, <2>1, <2>2, <2>3, <2>9
    <3>3. CASE k \in retired
      <4>1. k.index \in Index /\ k.generation < generation[k.index] /\ k.generation \in Nat
        BY <3>3, SlotMapAssumption DEF GInv, RetiredBehind, IInv, TypeOK, Key
      <4>2. \/ generation'[k.index] = generation[k.index]
            \/ k.index = i /\ generation'[k.index] = generation[k.index] + 1
        BY <4>1, <2>2, <2>3, <2>9
      <4>3. generation[k.index] \in Nat
        BY <4>1, <2>3
      <4>4. QED
        BY <4>1, <4>2, <4>3
    <3>4. QED
      BY <2>2, <3>1, <3>2, <3>3
  <2>12. QED
    BY <2>10, <2>11 DEF GInv
<1>3. QED
  BY <1>1, <1>2

LEMMA StepPaced ==
  ASSUME MaxRetired < GENERATIONS
  PROVE  IInv /\ GInv /\ [Next]_vars => GInv'
<1>1. SUFFICES ASSUME IInv, GInv, [Next]_vars PROVE GInv'
  OBVIOUS
<1>2. CASE UNCHANGED <<generation, retired>>
  BY <1>1, <1>2 DEF GInv, RetiredBehind, Paced
<1>3. ASSUME NEW v \in Value, Insert(v) PROVE GInv'
  BY <1>3, <1>2 DEF Insert
<1>4. ASSUME NEW key \in Key, Remove(key) PROVE GInv'
  BY <1>1, <1>4, RemovePaced
<1>5. ASSUME NEW key \in Key, Get(key) PROVE GInv'
  BY <1>5, <1>2 DEF Get
<1>6. CASE UNCHANGED vars
  BY <1>6, <1>2 DEF vars
<1>7. QED
  BY <1>1, <1>3, <1>4, <1>5, <1>6 DEF Next

LEMMA BehindIsDead == IInv /\ GInv => RemovedStaysDead
<1>1. SUFFICES ASSUME IInv, GInv, NEW key \in retired PROVE ~Valid(key)
  BY DEF RemovedStaysDead
<1>2. /\ key.index \in Index /\ key.generation < generation[key.index]
      /\ key.generation \in Nat /\ generation[key.index] \in Nat
  BY <1>1, SlotMapAssumption DEF GInv, RetiredBehind, IInv, TypeOK, Key
<1>3. QED
  BY <1>2 DEF Valid

\* While fewer handles are used up than a u32 counts, a handle whose value was
\* removed is dead for good: the ABA protection the generations are there for.
THEOREM RemovedHandlesStayDead ==
  ASSUME MaxRetired < GENERATIONS
  PROVE  Spec => []RemovedStaysDead
<1>1. Init => IInv /\ GInv
  BY InitEstablishes, InitPaced
<1>2. IInv /\ GInv /\ [Next]_vars => (IInv /\ GInv)'
  BY StepPreserves, StepPaced
<1>3. QED
  BY <1>1, <1>2, BehindIsDead, PTL DEF Spec

-----------------------------------------------------------------------------
(* The refinement *)

\* The handle of a slot, as a function, and the values by handle.
HandleOf == [i \in occupied |-> SlotKey(i, generation[i])]

Held == [k \in Handles |-> element[k.index]]

LEMMA HandlesCounted ==
  ASSUME IInv
  PROVE  Promise!Cardinality(Handles) = Cardinality(occupied)
<1>1. HandleOf \in Bijection(occupied, Handles)
  <2>1. HandleOf \in [occupied -> Handles]
    BY DEF HandleOf, Handles
  <2>2. \A i, j \in occupied : HandleOf[i] = HandleOf[j] => i = j
    BY DEF HandleOf, SlotKey
  <2>3. \A k \in Handles : \E i \in occupied : HandleOf[i] = k
    BY DEF HandleOf, Handles
  <2>4. QED
    BY <2>1, <2>2, <2>3 DEF Bijection, Injection, Surjection, IsInjective
<1>2. IsFiniteSet(occupied)
  BY SlotsFinite DEF IInv, TypeOK
<1>3. QED
  <2>1. Cardinality(Handles) = Cardinality(occupied)
    BY <1>1, <1>2, FS_Bijection DEF ExistsBijection
  <2>2. Promise!Cardinality(Handles) = Cardinality(Handles)
    BY DEF Cardinality, Promise!Cardinality
  <2>3. QED
    BY <2>1, <2>2

\* get and remove accept exactly the handles of the values in the map.
LEMMA ValidAreHandles ==
  ASSUME IInv, NEW key \in Key
  PROVE  /\ Valid(key) <=> key \in Handles
         /\ Handles \subseteq Key
<1>1. occupied \subseteq Index /\ generation \in [Index -> 0 .. GENERATIONS - 1]
  BY DEF IInv, TypeOK
<1>2. \A i \in Index : i < Capacity /\ i \in 0 .. Capacity
  BY SlotMapAssumption DEF Index
<1>3. ASSUME Valid(key) PROVE key \in Handles
  <2>1. key = SlotKey(key.index, generation[key.index])
    BY <1>3 DEF Valid, Key, SlotKey
  <2>2. QED
    BY <1>3, <2>1 DEF Valid, Handles
<1>4. ASSUME key \in Handles PROVE Valid(key)
  BY <1>1, <1>2, <1>4 DEF Handles, SlotKey, Valid
<1>5. Handles \subseteq Key
  BY <1>1, <1>2 DEF Handles, SlotKey, Key
<1>6. QED
  BY <1>3, <1>4, <1>5

LEMMA InsertRefines ==
  ASSUME IInv, GInv, NEW v \in Value, Insert(v)
  PROVE  Promise!AInsert(v)
<1>1. DOMAIN Held = Handles
  BY DEF Held
<1>2. Promise!Cardinality(Handles) = Capacity <=> occupied = Index
  BY HandlesCounted, SlotsFinite DEF IInv, TypeOK
<1>3. occupied \subseteq Index
  BY DEF IInv, TypeOK
<1>4. CASE Index \ occupied = {}
  <2>1. /\ reply' = Refused("insert")
        /\ UNCHANGED <<count, occupied, generation, element, retired>>
    BY <1>4 DEF Insert
  <2>2. Handles' = Handles /\ Held' = Held
    BY <2>1 DEF Handles, Held
  <2>3. QED
    BY <1>1, <1>2, <1>3, <1>4, <2>1, <2>2 DEF Promise!AInsert, Held, Refused
<1>5. CASE Index \ occupied # {}
  <2>1. PICK i \in Index \ occupied :
           /\ occupied' = occupied \cup {i}
           /\ element' = [element EXCEPT ![i] = v]
           /\ reply' = Done("insert", SlotKey(i, generation[i]))
           /\ UNCHANGED <<generation, retired>>
    BY <1>5, InsertEffect DEF IInv
  <2>2. PICK k : k = SlotKey(i, generation[i])
    OBVIOUS
  <2>3. k.index = i /\ k.generation = generation[i]
    BY <2>2 DEF SlotKey
  <2>4. Handles' = Handles \cup {k}
    BY <2>1, <2>2 DEF Handles
  <2>5. k \notin Handles
    BY <2>1, <2>2 DEF Handles, SlotKey
  <2>6. k \notin retired
    <3>1. generation[i] \in Nat
      BY <2>1, SlotMapAssumption DEF IInv, TypeOK
    <3>2. QED
      BY <2>3, <3>1 DEF GInv, RetiredBehind
  <2>7. k \in Key
    BY <2>1, <2>2, SlotMapAssumption DEF IInv, TypeOK, Key, SlotKey, Index
  <2>8. Held' = [h \in Handles \cup {k} |-> IF h = k THEN v ELSE Held[h]]
    <3>1. \A h \in Handles : h.index \in occupied
      BY DEF Handles, SlotKey
    <3>2. element'[i] = v /\ \A h \in Handles : element'[h.index] = element[h.index]
      BY <2>1, <3>1, <1>3 DEF IInv, TypeOK
    <3>3. QED
      BY <2>3, <2>4, <2>5, <3>2 DEF Held
  <2>9. Promise!Cardinality(DOMAIN Held) # Capacity
    BY <1>1, <1>2, <1>5, <2>1
  <2>10. reply' = Promise!Done("insert", k)
    BY <2>1, <2>2 DEF Done
  <2>11. QED
    BY <1>1, <2>1, <2>4, <2>5, <2>6, <2>7, <2>8, <2>9, <2>10 DEF Promise!AInsert, Held
<1>6. QED
  BY <1>4, <1>5

LEMMA RemoveRefines ==
  ASSUME IInv, NEW key \in Key, Remove(key)
  PROVE  Promise!ARemove(key)
<1>1. DOMAIN Held = Handles
  BY DEF Held
<1>2. Valid(key) <=> key \in Handles
  BY ValidAreHandles
<1>3. CASE ~Valid(key)
  <2>1. /\ reply' = Refused("remove")
        /\ UNCHANGED <<count, occupied, generation, element, retired>>
    BY <1>3 DEF Remove
  <2>2. Handles' = Handles /\ Held' = Held
    BY <2>1 DEF Handles, Held
  <2>3. QED
    BY <1>1, <1>2, <1>3, <2>1, <2>2 DEF Promise!ARemove, Held, Refused
<1>4. CASE Valid(key)
  <2>1. PICK i \in occupied : i = key.index
    BY <1>4 DEF Valid
  <2>2. /\ occupied' = occupied \ {i}
        /\ generation' = [generation EXCEPT ![i] = NextGeneration(i)]
        /\ element' = [element EXCEPT ![i] = Zero]
        /\ retired' = retired \cup {key}
        /\ reply' = Done("remove", element[i])
    BY <1>4, <2>1 DEF Remove, ElementAfterRemove
  <2>3. \A j \in occupied' : j \in occupied /\ j # i
                            /\ generation'[j] = generation[j] /\ element'[j] = element[j]
    BY <2>2 DEF IInv, TypeOK
  <2>4. Handles' = Handles \ {key}
    <3>1. key = SlotKey(i, generation[i])
      BY <1>4, <2>1 DEF Valid, Key, SlotKey
    <3>2. \A j \in occupied : SlotKey(j, generation[j]) = key => j = i
      BY <3>1 DEF SlotKey
    <3>3. Handles' \subseteq Handles \ {key}
      BY <2>3, <3>2 DEF Handles
    <3>4. Handles \ {key} \subseteq Handles'
      BY <2>2, <2>3, <3>1 DEF Handles
    <3>5. QED
      BY <3>3, <3>4
  <2>5. Held' = [h \in Handles \ {key} |-> Held[h]]
    <3>1. \A h \in Handles' : h.index \in occupied'
      BY DEF Handles, SlotKey
    <3>2. \A h \in Handles' : element'[h.index] = element[h.index]
      BY <2>3, <3>1
    <3>3. QED
      BY <2>4, <3>2 DEF Held
  <2>6. key \in Handles /\ Held[key] = element[i]
    BY <1>2, <1>4, <2>1 DEF Held
  <2>7. (Handles \cup retired)' = Handles \cup retired
    BY <2>2, <2>4, <2>6
  <2>8. reply' = Promise!Done("remove", Held[key])
    BY <2>2, <2>6 DEF Done
  <2>9. QED
    BY <1>1, <2>5, <2>6, <2>7, <2>8 DEF Promise!ARemove, Held
<1>5. QED
  BY <1>3, <1>4

LEMMA GetRefines ==
  ASSUME IInv, NEW key \in Key, Get(key)
  PROVE  Promise!AGet(key)
<1>1. Valid(key) <=> key \in Handles
  BY ValidAreHandles
<1>2. Handles' = Handles /\ Held' = Held /\ retired' = retired
  BY DEF Get, Handles, Held
<1>3. DOMAIN Held = Handles /\ (key \in Handles => Held[key] = element[key.index])
  BY DEF Held
<1>4. reply' = IF key \in Handles THEN Promise!Done("get", element[key.index])
                                  ELSE Promise!Refused("get")
  BY <1>1 DEF Get, Done, Refused
<1>5. QED
  BY <1>2, <1>3, <1>4 DEF Promise!AGet, Held

LEMMA StepRefines == IInv /\ GInv /\ [Next]_vars => [Promise!ANext]_(Promise!avars)
<1>1. SUFFICES ASSUME IInv, GInv, [Next]_vars
               PROVE  Promise!ANext \/ UNCHANGED Promise!avars
  OBVIOUS
<1>2. ASSUME NEW v \in Value, Insert(v) PROVE Promise!ANext
  BY <1>1, <1>2, InsertRefines DEF Promise!ANext
<1>3. ASSUME NEW key \in Key, Remove(key) PROVE Promise!ANext
  BY <1>1, <1>3, RemoveRefines DEF Promise!ANext
<1>4. ASSUME NEW key \in Key, Get(key) PROVE Promise!ANext
  BY <1>1, <1>4, GetRefines DEF Promise!ANext
<1>5. CASE UNCHANGED vars
  BY <1>5 DEF vars, Promise!avars, Handles
<1>6. QED
  BY <1>1, <1>2, <1>3, <1>4, <1>5 DEF Next

LEMMA InitRefines == Init => Promise!AInit
<1>1. SUFFICES ASSUME Init PROVE Promise!AInit
  OBVIOUS
<1>2. Handles = {}
  BY <1>1 DEF Init, Handles
<1>3. [k \in Handles |-> element[k.index]] \in [{} -> Value]
  BY <1>2
<1>4. QED
  BY <1>1, <1>2, <1>3 DEF Init, Promise!AInit, Done

\* For every capacity, and while a u32 outlasts the handles used up, the map
\* behaves as a store of fresh handles.
THEOREM MapImplementsHandles ==
  ASSUME MaxRetired < GENERATIONS
  PROVE  Spec => ImplementsHandles
<1>1. Init => IInv /\ GInv
  BY InitEstablishes, InitPaced
<1>2. IInv /\ GInv /\ [Next]_vars => (IInv /\ GInv)'
  BY StepPreserves, StepPaced
<1>3. QED
  BY <1>1, <1>2, InitRefines, StepRefines, PTL DEF Spec, ImplementsHandles, Promise!ASpec

-----------------------------------------------------------------------------
(* The search in the SlotHashes sysvar *)

\* Every entry before lo is newer than the target, hi is the bound of the newest
\* slot until an older entry was read, and then lies just before that entry.  The
\* range is within the list.
Narrowed ==
  /\ lo \in 1 .. sysvar.count /\ lo <= sysvar.room /\ hi \in 0 .. sysvar.count - 1
  /\ \A i \in 0 .. lo - 1 : Slot(i) > target
  /\ newer = [at |-> lo - 1, slot |-> Slot(lo - 1)]
  /\ \/ older = None /\ hi = Lesser(Slot(0) - target, sysvar.count - 1)
     \/ /\ hi + 1 < Present(sysvar) /\ Slot(hi + 1) < target
        /\ older = [at |-> hi + 1, slot |-> Slot(hi + 1)]

SearchTyped ==
  /\ sysvar \in Sysvars /\ target \in Targets
  /\ pc \in {"head", "count", "short", "probe", "done"} /\ bisect \in BOOLEAN

SearchInv ==
  /\ SearchTyped
  /\ pc = "count" => sysvar.room < WINDOW
  /\ pc = "short" => sysvar.count \in 1 .. WINDOW - 1
  /\ pc = "probe" => Narrowed
  /\ AnswersExactly

-----------------------------------------------------------------------------
\* What the assumption says of the sysvar at hand.
LEMMA SysvarFacts ==
  ASSUME SlotHashesAssumption, SearchTyped
  PROVE  /\ WINDOW \in Nat \ {0} /\ MAX_ENTRIES \in Nat /\ target \in Nat
         /\ sysvar.count \in Nat /\ sysvar.room \in Nat /\ Present(sysvar) \in Nat
         /\ Present(sysvar) <= sysvar.count /\ Present(sysvar) <= sysvar.room
         /\ \A i \in 0 .. sysvar.room - 1 : Slot(i) \in Nat
         /\ \A i, j \in 0 .. Present(sysvar) - 1 : i < j => Slot(i) - Slot(j) >= j - i
         /\ sysvar.room > 0 => sysvar.header
<1>1. /\ WINDOW \in Nat \ {0} /\ MAX_ENTRIES \in Nat /\ target \in Nat
      /\ sysvar.room > 0 => sysvar.header
      /\ sysvar.count \in Nat /\ sysvar.room \in Nat
      /\ sysvar.slots \in [0 .. sysvar.room - 1 -> Nat] /\ Descending(sysvar)
  BY Zenon DEF SearchTyped, SlotHashesAssumption
<1>2. QED
  BY <1>1 DEF Descending, Present, Lesser, Slot

\* A window inside the list that is decided is decided rightly; one that is not is
\* newer than the target throughout or older throughout.
LEMMA ScanExact ==
  ASSUME SlotHashesAssumption, SearchTyped, NEW start \in Nat, NEW width \in Nat \ {0},
         NEW before \in BOOLEAN,
         start + width <= Present(sysvar),
         before => start = 0 \/ Slot(start - 1) > target,
         start = 0 => Slot(0) >= target
  PROVE  LET seen == Scan(start, width, before)
         IN  /\ seen # None => seen.status \in {"Found", "Skipped"} /\ Right(seen)
             /\ seen = None =>
                  \/ \A i \in start .. start + width - 1 : Slot(i) > target
                  \/ Slot(start) < target /\ start > 0
<1> DEFINE S == Stops(start, width)
           seen == Scan(start, width, before)
<1>0. /\ \A i \in start .. start + width - 1 : i \in 0 .. Present(sysvar) - 1
         /\ Slot(i) \in Nat
      /\ target \in Nat
  BY SysvarFacts
<1>1. CASE S = {}
  <2>1. seen = None
    BY <1>1 DEF Scan
  <2>2. \A i \in start .. start + width - 1 : Slot(i) > target
    BY <1>0, <1>1 DEF Stops
  <2>3. QED
    BY <2>1, <2>2
<1>2. CASE S # {}
  <2> DEFINE i == Stop(start, width)
  <2>1. i \in S /\ \A j \in S : i <= j
    <3>1. S \subseteq Nat
      BY DEF Stops
    <3>2. \E x \in S : \A y \in S : x <= y
      <4> HIDE DEF S
      <4>1. QED
        BY <1>2, <3>1, LeastElement
    <3>3. QED
      BY <3>2 DEF Stop
  <2> HIDE DEF i
  <2>2. i \in start .. start + width - 1 /\ Slot(i) <= target
    BY <2>1 DEF Stops
  <2>3. \A j \in start .. i - 1 : Slot(j) > target
    BY <1>0, <2>1, <2>2 DEF Stops
  <2>4. seen = IF Slot(i) = target THEN Found(i)
               ELSE IF i > start \/ before THEN Status("Skipped") ELSE None
    BY <1>2 DEF Scan, i
  <2>5. CASE Slot(i) = target
    BY <1>0, <2>2, <2>4, <2>5 DEF Right, Found, None
  <2>6. CASE Slot(i) # target /\ (i > start \/ before)
    <3>1. Slot(i) < target /\ i \in 0 .. Present(sysvar) - 1
      BY <1>0, <2>2, <2>6
    <3>2. i > 0 /\ Slot(i - 1) > target
      <4>1. CASE i > start
        BY <2>2, <2>3, <4>1
      <4>2. CASE i = start
        BY <1>0, <2>2, <2>6, <3>1, <4>2
      <4>3. QED
        BY <2>2, <4>1, <4>2
    <3>3. ~Holds(target)
      BY <3>1, <3>2, SysvarFacts DEF Holds
    <3>4. HoldsNewer /\ HoldsOlder
      BY <3>1, <3>2, SysvarFacts DEF HoldsNewer, HoldsOlder
    <3>5. seen = Status("Skipped")
      BY <2>4, <2>6
    <3>6. QED
      BY <3>3, <3>4, <3>5 DEF Right, Status, None
  <2>7. CASE Slot(i) # target /\ i = start /\ ~before
    BY <1>0, <2>2, <2>4, <2>7
  <2>8. QED
    BY <2>2, <2>5, <2>6, <2>7
<1>3. QED
  BY <1>1, <1>2

\* A decided search answers rightly whatever was read before.
LEMMA RangeExhausted ==
  ASSUME SlotHashesAssumption, SearchTyped, Narrowed, lo > hi
  PROVE  Right(Status(IF older # None THEN "Skipped" ELSE "TooOld"))
<1> USE SysvarFacts
<1>1. HoldsNewer
  <2>1. 0 \in 0 .. lo - 1 /\ lo - 1 \in 0 .. Present(sysvar) - 1
    BY DEF Narrowed, Present, Lesser
  <2>2. QED
    BY <2>1 DEF Narrowed, HoldsNewer
<1>2. CASE older # None
  <2>1. hi + 1 \in 0 .. Present(sysvar) - 1 /\ Slot(hi + 1) < target
    BY <1>2 DEF Narrowed
  <2>2. \A i \in 0 .. Present(sysvar) - 1 : i < lo => Slot(i) > target
    BY DEF Narrowed
  <2>3. \A i \in 0 .. Present(sysvar) - 1 : i > hi + 1 => Slot(i) < Slot(hi + 1)
    BY <2>1
  <2>4. ~Holds(target) /\ HoldsOlder
    BY <2>1, <2>2, <2>3 DEF Holds, HoldsOlder, Narrowed
  <2>5. QED
    BY <1>1, <1>2, <2>4 DEF Right, Status
<1>3. CASE older = None
  <2>1. hi = Lesser(Slot(0) - target, sysvar.count - 1)
    BY <1>3 DEF Narrowed, None
  <2>2. lo - 1 \in 0 .. Present(sysvar) - 1 /\ Slot(lo - 1) > target
        /\ Slot(lo - 1) \in Nat /\ Slot(0) \in Nat
    BY DEF Narrowed, Present, Lesser
  <2>3. Slot(0) - Slot(lo - 1) >= lo - 1
    <3>1. CASE lo - 1 = 0
      BY <2>2, <3>1
    <3>2. CASE lo - 1 > 0
      BY <2>2, <3>2
    <3>3. QED
      BY <2>2, <3>1, <3>2
  <2>4. lo = sysvar.count
    BY <2>1, <2>2, <2>3 DEF Narrowed, Lesser
  <2>5. \A i \in 0 .. Present(sysvar) - 1 : Slot(i) > target
    BY <2>4 DEF Narrowed
  <2>6. ~Holds(target) /\ ~HoldsOlder
    BY <2>5 DEF Holds, HoldsOlder
  <2>7. QED
    BY <1>1, <1>3, <2>6 DEF Right, Status
<1>4. QED
  BY <1>2, <1>3

-----------------------------------------------------------------------------
(* The steps *)

\* The newest window, when it has been read.
LEMMA NewestPreserves ==
  ASSUME SlotHashesAssumption, SearchInv, pc \in {"head", "short"}, Newest,
         UNCHANGED input, sysvar.header,
         Readable(Lesser(sysvar.count, WINDOW))
  PROVE  SearchInv'
<1> DEFINE have == Lesser(sysvar.count, WINDOW)
           seen == Scan(0, have, TRUE)
<1>1. SearchTyped /\ sysvar' = sysvar /\ target' = target
  BY DEF SearchInv, input
<1> USE SysvarFacts
<1>2. have \in Nat /\ have <= sysvar.count /\ have <= sysvar.room /\ have <= Present(sysvar)
  BY <1>1 DEF Lesser, Readable, Present
<1>3. ASSUME NEW answer, Finish(answer), Right(answer) PROVE SearchInv'
  <2>1. pc' = "done" /\ verdict' = answer /\ bisect' = bisect
    BY <1>3 DEF Finish, range
  <2>2. Right(answer)'
    BY <1>1, <1>3 DEF Right, Holds, HoldsNewer, HoldsOlder, Slot, Present
  <2>3. QED
    BY <1>1, <2>1, <2>2 DEF SearchInv, SearchTyped, AnswersExactly
<1>4. CASE sysvar.count = 0 \/ target > Slot(0)
  <2>1. \A i \in 0 .. Present(sysvar) - 1 : Slot(i) < target
    BY <1>1, <1>2, <1>4
  <2>2. ~Holds(target) /\ ~HoldsNewer
    BY <1>1, <2>1 DEF Holds, HoldsNewer
  <2>3. Right(Status("Ahead"))
    BY <2>2 DEF Right, Status
  <2>4. Finish(Status("Ahead"))
    BY <1>4 DEF Newest
  <2>5. QED
    BY <1>3, <2>3, <2>4
<1>5. CASE ~(sysvar.count = 0 \/ target > Slot(0))
  <2>1. have \in Nat \ {0} /\ 0 + have <= Present(sysvar) /\ Slot(0) \in Nat
        /\ Slot(0) >= target
    BY <1>1, <1>2, <1>5 DEF Lesser
  <2>2. /\ seen # None => seen.status \in {"Found", "Skipped"} /\ Right(seen)
        /\ seen = None => \/ \A i \in 0 .. 0 + have - 1 : Slot(i) > target
                          \/ Slot(0) < target /\ 0 > 0
    <3> HIDE DEF have
    <3>1. QED
      BY <1>1, <2>1, ScanExact
  <2>3. CASE seen # None
    BY <1>3, <1>5, <2>2, <2>3 DEF Newest
  <2>4. CASE seen = None /\ have = sysvar.count
    <3>1. \A i \in 0 .. Present(sysvar) - 1 : Slot(i) > target
      BY <1>1, <2>1, <2>2, <2>4
    <3>2. ~Holds(target) /\ HoldsNewer /\ ~HoldsOlder
      BY <1>1, <2>1, <3>1 DEF Holds, HoldsNewer, HoldsOlder
    <3>3. Right(Status("TooOld"))
      BY <3>2 DEF Right, Status
    <3>4. QED
      BY <1>3, <1>5, <2>4, <3>3 DEF Newest
  <2>5. CASE seen = None /\ have # sysvar.count
    <3>1. \A i \in 0 .. have - 1 : Slot(i) > target
      BY <2>1, <2>2, <2>5
    <3>2. Start(have)
      BY <1>5, <2>5 DEF Newest
    <3>3. have - 1 \in 0 .. Present(sysvar) - 1 /\ Slot(have - 1) > target
          /\ Slot(have - 1) \in Nat
      BY <1>1, <1>2, <2>1, <3>1
    <3>4. Slot(0) - Slot(have - 1) >= have - 1
      BY <1>1, <2>1, <3>3
    <3> HIDE DEF have
    <3>5. hi' \in have .. sysvar.count - 1 /\ lo' = have /\ bisect' = FALSE /\ pc' = "probe"
      BY <1>1, <1>2, <2>1, <2>5, <3>2, <3>3, <3>4 DEF Start, Lesser
    <3>6. Narrowed'
      BY <1>1, <1>2, <2>1, <3>1, <3>2, <3>5 DEF Start, Narrowed, Slot, Present
    <3>7. QED
      BY <1>1, <3>5, <3>6 DEF SearchInv, SearchTyped, AnswersExactly
  <2>6. QED
    BY <2>3, <2>4, <2>5
<1>6. QED
  BY <1>4, <1>5

\* Wherever the guess falls, the window lies within the range.
LEMMA ProbeInRange ==
  ASSUME SlotHashesAssumption, SearchTyped, Narrowed, lo <= hi
  PROVE  /\ Width \in Nat \ {0} /\ ProbeStart \in lo .. hi
         /\ ProbeStart + Width <= hi + 1
<1>1. /\ lo \in Nat /\ hi \in Nat /\ Width \in Nat \ {0} /\ Width <= Span
      /\ Span = hi + 1 - lo
      /\ HighestStart \in lo .. hi /\ HighestStart + Width = hi + 1
  <2>1. lo \in Nat /\ hi \in Nat /\ WINDOW \in Nat \ {0}
    BY SysvarFacts DEF Narrowed
  <2>2. Width \in Nat \ {0} /\ Width <= Span /\ Span = hi + 1 - lo
    BY <2>1 DEF Width, Span, Lesser
  <2>3. QED
    BY <2>1, <2>2 DEF HighestStart
<1>2. CASE older = None
  BY <1>1, <1>2 DEF ProbeStart
<1>3. CASE older # None /\ bisect
  <2>1. (Span - Width) \div 2 \in 0 .. Span - Width
    BY <1>1
  <2>2. QED
    BY <1>1, <1>3, <2>1 DEF ProbeStart
<1>4. CASE older # None /\ ~bisect
  <2>1. Guess \in Int
    <3>1. /\ newer.at \in Int /\ newer.slot - target \in Int /\ older.at - newer.at \in Int
          /\ newer.slot - older.slot \in Nat \ {0}
      <4>1. newer.at = lo - 1 /\ newer.slot = Slot(lo - 1) /\ older.at = hi + 1
            /\ older.slot = Slot(hi + 1)
        BY <1>4 DEF Narrowed
      <4>2. /\ lo - 1 \in 0 .. Present(sysvar) - 1 /\ hi + 1 \in 0 .. Present(sysvar) - 1
            /\ Slot(lo - 1) > target /\ Slot(hi + 1) < target
        BY <1>1, <1>4, SysvarFacts DEF Narrowed
      <4>3. Slot(lo - 1) \in Nat /\ Slot(hi + 1) \in Nat
        BY <4>2, SysvarFacts
      <4>4. QED
        BY <1>1, <4>1, <4>2, <4>3, SysvarFacts
    <3>2. (newer.slot - target) * (older.at - newer.at) \in Int
      BY <3>1
    <3>3. ((newer.slot - target) * (older.at - newer.at)) \div (newer.slot - older.slot) \in Int
      BY <3>1, <3>2
    <3>4. QED
      BY <3>1, <3>3 DEF Guess
  <2>2. Guess - Width \div 2 \in Int
    BY <1>1, <2>1
  <2>3. Centred \in lo .. HighestStart
    BY <1>1, <2>2 DEF Centred, Lesser
  <2>4. QED
    BY <1>1, <1>4, <2>3 DEF ProbeStart
<1>5. QED
  BY <1>2, <1>3, <1>4 DEF SearchTyped

\* A probe that decides nothing narrows the range around the target.
LEMMA ProbePreserves ==
  ASSUME SlotHashesAssumption, SearchInv, Probe
  PROVE  SearchInv'
<1> DEFINE start == ProbeStart
           seen == Scan(start, Width, start = lo)
<1>1. SearchTyped /\ sysvar' = sysvar /\ target' = target /\ Narrowed /\ lo <= hi
      /\ pc = "probe"
  BY DEF Probe, SearchInv, input
<1>2. Width \in Nat \ {0} /\ start \in lo .. hi /\ start + Width <= hi + 1
  BY <1>1, ProbeInRange
<1>3. lo \in Nat \ {0} /\ hi \in Nat /\ hi + 1 <= sysvar.count
  BY <1>1, SysvarFacts DEF Narrowed
<1>4. ASSUME NEW answer, Finish(answer), Right(answer) PROVE SearchInv'
  <2>1. pc' = "done" /\ verdict' = answer /\ bisect' = bisect
    BY <1>4 DEF Finish, range
  <2>2. Right(answer)'
    BY <1>1, <1>4 DEF Right, Holds, HoldsNewer, HoldsOlder, Slot, Present
  <2>3. QED
    BY <1>1, <2>1, <2>2 DEF SearchInv, SearchTyped, AnswersExactly
<1>5. CASE ~Readable(start + Width)
  <2>1. sysvar.count > Lesser(MAX_ENTRIES, sysvar.room)
    BY <1>1, <1>2, <1>3, <1>5, SysvarFacts DEF Readable, Lesser
  <2>2. Right(Unsupported)
    BY <2>1 DEF Right, Unsupported, Status
  <2>3. QED
    BY <1>4, <1>5, <2>2 DEF Probe
<1>6. CASE Readable(start + Width)
  <2>1. start + Width <= Present(sysvar)
    BY <1>1, <1>2, <1>3, <1>6, SysvarFacts DEF Readable, Present, Lesser
  <2>2. /\ start \in Nat /\ start > 0
        /\ (start = lo) => Slot(start - 1) > target
    BY <1>1, <1>2, <1>3 DEF Narrowed
  <2>3. /\ seen # None => seen.status \in {"Found", "Skipped"} /\ Right(seen)
        /\ seen = None => \/ \A i \in start .. start + Width - 1 : Slot(i) > target
                          \/ Slot(start) < target /\ start > 0
    <3> DEFINE before == start = lo
    <3>1. before \in BOOLEAN /\ (before => start = 0 \/ Slot(start - 1) > target)
      BY <2>2
    <3> HIDE DEF start, before
    <3>2. LET s == Scan(start, Width, before)
          IN  /\ s # None => s.status \in {"Found", "Skipped"} /\ Right(s)
              /\ s = None => \/ \A i \in start .. start + Width - 1 : Slot(i) > target
                             \/ Slot(start) < target /\ start > 0
      BY <1>1, <1>2, <2>1, <2>2, <3>1, ScanExact
    <3>3. QED
      BY <3>2 DEF start, before
  <2>4. CASE seen # None
    BY <1>4, <1>6, <2>3, <2>4 DEF Probe
  <2>5. CASE seen = None
    <3>1. Narrow(start)
      BY <1>6, <2>5 DEF Probe
    <3> HIDE DEF start
    <3>2. Slot(start) \in Nat /\ target \in Nat
      BY <1>1, <1>2, <2>1, <2>2, SysvarFacts
    <3>3. CASE Slot(start) < target
      <4>1. /\ older' = [at |-> start, slot |-> Slot(start)] /\ hi' = start - 1
            /\ lo' = lo /\ newer' = newer
        BY <3>1, <3>3 DEF Narrow
      <4>2. Narrowed'
        <5>1. hi' + 1 = start /\ start < Present(sysvar) /\ hi' \in 0 .. sysvar.count - 1
          BY <1>1, <1>2, <1>3, <2>1, <2>2, <4>1, SysvarFacts
        <5>2. QED
          BY <1>1, <3>3, <4>1, <5>1 DEF Narrowed, Slot, Present
      <4>3. QED
        BY <1>1, <3>1, <4>2 DEF Narrow, HalvesNext, SearchInv, SearchTyped,
           AnswersExactly
    <3>4. CASE ~(Slot(start) < target)
      <4> DEFINE end == start + Width - 1
      <4>1. /\ newer' = [at |-> end, slot |-> Slot(end)] /\ lo' = end + 1
            /\ hi' = hi /\ older' = older
        BY <3>1, <3>4 DEF Narrow
      <4>2. \A i \in start .. end : Slot(i) > target
        BY <2>3, <2>5, <3>2, <3>4
      <4>3. end \in start .. hi /\ end + 1 <= Present(sysvar)
            /\ end \in 0 .. Present(sysvar) - 1 /\ Slot(end) \in Nat
        BY <1>1, <1>2, <1>3, <2>1, <2>2, SysvarFacts
      <4>4. \A i \in 0 .. end : Slot(i) > target
        <5>1. \A i \in 0 .. start - 1 : i \in 0 .. Present(sysvar) - 1
                                        /\ Slot(i) \in Nat /\ Slot(i) > Slot(end)
          BY <1>1, <1>2, <2>1, <2>2, <4>3, SysvarFacts
        <5>2. Slot(end) > target
          BY <1>2, <4>2, <4>3
        <5>3. QED
          BY <2>2, <3>2, <4>2, <4>3, <5>1, <5>2
      <4> HIDE DEF end
      <4>5. Narrowed'
        BY <1>1, <1>2, <1>3, <2>1, <2>2, <4>1, <4>3, <4>4, SysvarFacts DEF Narrowed,
           Slot, Present
      <4>6. QED
        BY <1>1, <3>1, <4>5 DEF Narrow, HalvesNext, SearchInv, SearchTyped,
           AnswersExactly
    <3>5. QED
      BY <3>3, <3>4
  <2>6. QED
    BY <2>4, <2>5
<1>7. QED
  BY <1>5, <1>6

LEMMA SearchStepPreserves ==
  ASSUME SlotHashesAssumption, SearchInv, [SearchNext]_searchvars
  PROVE  SearchInv'
<1>1. SearchTyped
  BY DEF SearchInv
<1>2. ASSUME NEW answer, Finish(answer), Right(answer), UNCHANGED input PROVE SearchInv'
  <2>1. pc' = "done" /\ verdict' = answer /\ bisect' = bisect /\ sysvar' = sysvar
        /\ target' = target
    BY <1>2 DEF Finish, range, input
  <2>2. Right(answer)'
    BY <1>2, <2>1 DEF Right, Holds, HoldsNewer, HoldsOlder, Slot, Present
  <2>3. QED
    BY <1>1, <2>1, <2>2 DEF SearchInv, SearchTyped, AnswersExactly
<1>3. CASE ReadHead
  <2>1. CASE ~Readable(WINDOW)
    BY <1>1, <1>3, <2>1, SysvarFacts DEF ReadHead, Readable, SearchInv, SearchTyped,
       AnswersExactly, range, input
  <2>2. CASE Readable(WINDOW) /\ sysvar.count > MAX_ENTRIES
    <3>1. Right(Unsupported)
      BY <1>1, <2>2, SysvarFacts DEF Right, Unsupported, Status, Lesser
    <3>2. QED
      BY <1>2, <1>3, <2>2, <3>1 DEF ReadHead
  <2>3. CASE Readable(WINDOW) /\ ~(sysvar.count > MAX_ENTRIES)
    <3>1. Newest /\ pc = "head" /\ UNCHANGED input
      BY <1>3, <2>3 DEF ReadHead
    <3>2. Readable(Lesser(sysvar.count, WINDOW)) /\ sysvar.header
      BY <1>1, <2>3, SysvarFacts DEF Readable, Lesser
    <3>3. QED
      BY <3>1, <3>2, NewestPreserves
  <2>4. QED
    BY <2>1, <2>2, <2>3
<1>4. CASE ReadCount
  <2>1. CASE ~sysvar.header \/ sysvar.count > MAX_ENTRIES \/ sysvar.count >= WINDOW
    <3>1. ~sysvar.header \/ sysvar.count > Lesser(MAX_ENTRIES, sysvar.room)
      BY <1>1, <1>4, <2>1, SysvarFacts DEF ReadCount, SearchInv, Readable, Lesser
    <3>2. Right(Unsupported)
      BY <3>1 DEF Right, Unsupported, Status
    <3>3. QED
      BY <1>2, <1>4, <2>1, <3>2 DEF ReadCount
  <2>2. CASE /\ ~(~sysvar.header \/ sysvar.count > MAX_ENTRIES \/ sysvar.count >= WINDOW)
             /\ sysvar.count = 0
    <3>1. Present(sysvar) = 0
      BY <1>1, <2>2, SysvarFacts DEF Present, Lesser
    <3>2. sysvar.header
      BY <2>2
    <3>3. Right(Status("Ahead"))
      BY <3>1, <3>2 DEF Right, Status, Holds, HoldsNewer
    <3>4. QED
      BY <1>2, <1>4, <2>2, <3>3 DEF ReadCount
  <2>3. CASE /\ ~(~sysvar.header \/ sysvar.count > MAX_ENTRIES \/ sysvar.count >= WINDOW)
             /\ sysvar.count # 0
    <3>1. sysvar.count \in 1 .. WINDOW - 1
      BY <1>1, <2>3, SysvarFacts
    <3>2. QED
      BY <1>1, <1>4, <2>3, <3>1 DEF ReadCount, SearchInv, SearchTyped,
         AnswersExactly, range, input
  <2>4. QED
    BY <2>1, <2>2, <2>3
<1>5. CASE ReadShort
  <2>1. CASE Readable(sysvar.count)
    <3>1. Newest /\ pc = "short" /\ UNCHANGED input
          /\ sysvar.count \in 1 .. WINDOW - 1
      BY <1>5, <2>1 DEF ReadShort, SearchInv
    <3>2. Readable(Lesser(sysvar.count, WINDOW))
      BY <1>1, <2>1, <3>1, SysvarFacts DEF Lesser
    <3>3. sysvar.header
      BY <1>1, <2>1, <3>1, SysvarFacts DEF Readable
    <3>4. QED
      BY <3>1, <3>2, <3>3, NewestPreserves
  <2>2. CASE ~Readable(sysvar.count)
    <3>1. Right(Unsupported)
      BY <1>1, <2>2, SysvarFacts DEF Right, Unsupported, Status, Lesser,
         Readable
    <3>2. QED
      BY <1>2, <1>5, <2>2, <3>1 DEF ReadShort
  <2>3. QED
    BY <2>1, <2>2
<1>6. CASE Probe
  BY <1>6, ProbePreserves
<1>7. CASE Exhausted
  <2>1. Right(Status(IF older # None THEN "Skipped" ELSE "TooOld"))
    BY <1>1, <1>7, RangeExhausted DEF Exhausted, SearchInv
  <2>2. QED
    BY <1>2, <1>7, <2>1 DEF Exhausted, input
<1>8. CASE ReaderFails
  <2>1. Right(Failed)
    BY DEF Right, Failed, Status
  <2>2. QED
    BY <1>2, <1>8, <2>1 DEF ReaderFails
<1>9. CASE Ask
  BY <1>1, <1>9 DEF Ask, SearchInv, SearchTyped, AnswersExactly
<1>10. CASE UNCHANGED searchvars
  BY <1>10 DEF searchvars, input, range, SearchInv, SearchTyped, AnswersExactly,
     Narrowed, Right, Holds, HoldsNewer, HoldsOlder, Slot, Present
<1>11. QED
  BY <1>3, <1>4, <1>5, <1>6, <1>7, <1>8, <1>9, <1>10 DEF SearchNext

\* For every list, window and target: a search that ends has the answer the whole
\* list gives, and one that refuses has no header or one that lies (slot_hash_lookup_with).
THEOREM SearchExact ==
  ASSUME SlotHashesAssumption
  PROVE  SearchSpec => []AnswersExactly
<1>1. SearchInit => SearchInv
  BY DEF SearchInit, SearchInv, SearchTyped, AnswersExactly
<1>2. SearchInv /\ [SearchNext]_searchvars => SearchInv'
  BY SearchStepPreserves
<1>3. SearchInv => AnswersExactly
  BY DEF SearchInv
<1>4. QED
  BY <1>1, <1>2, <1>3, PTL DEF SearchSpec

-----------------------------------------------------------------------------
(* How fast the search narrows its range *)

\* The powers of two up to the m-th.
Doubles(m, f) ==
  f \in [0 .. m -> Nat] /\ f[0] = 1 /\ \A k \in 1 .. m : f[k] = 2 * f[k - 1]

LEMMA DoublesExist ==
  ASSUME NEW m \in Nat
  PROVE  \E f : Doubles(m, f)
<1> DEFINE Bad == {n \in Nat : ~\E f : Doubles(n, f)}
<1>1. SUFFICES ASSUME Bad # {} PROVE FALSE
  OBVIOUS
<1>2. PICK n \in Bad : \A y \in Bad : n <= y
  <2>1. Bad \subseteq Nat
    OBVIOUS
  <2> HIDE DEF Bad
  <2>2. QED
    BY <1>1, <2>1, LeastElement
<1>3. n \in Nat /\ ~\E f : Doubles(n, f)
  OBVIOUS
<1>4. CASE n = 0
  <2>1. PICK f : f = [k \in 0 .. 0 |-> 1]
    OBVIOUS
  <2>2. f \in [0 .. 0 -> Nat] /\ f[0] = 1
    BY <2>1
  <2>3. Doubles(0, f)
    BY <2>2 DEF Doubles
  <2>4. QED
    BY <1>3, <1>4, <2>3
<1>5. CASE n # 0
  <2>1. n - 1 \in Nat /\ ~(n <= n - 1)
    BY <1>3, <1>5
  <2>2. n - 1 \notin Bad
    <3> HIDE DEF Bad
    <3>1. QED
      BY <1>2, <2>1
  <2>3. PICK f : Doubles(n - 1, f)
    BY <2>1, <2>2
  <2>4. /\ f \in [0 .. n - 1 -> Nat] /\ f[0] = 1
        /\ \A k \in 1 .. n - 1 : f[k] = 2 * f[k - 1]
    BY <2>3 DEF Doubles
  <2>5. PICK last \in Nat : last = 2 * f[n - 1]
    BY <2>1, <2>4
  <2>6. PICK g : g = [k \in 0 .. n |-> IF k = n THEN last ELSE f[k]]
    OBVIOUS
  <2>7. g[n] = last /\ \A k \in 0 .. n - 1 : g[k] = f[k] /\ f[k] \in Nat
    BY <1>3, <2>4, <2>6
  <2>8. g \in [0 .. n -> Nat]
    BY <1>3, <2>5, <2>6, <2>7
  <2>9. g[0] = 1
    BY <1>3, <1>5, <2>4, <2>7
  <2>10. ASSUME NEW k \in 1 .. n PROVE g[k] = 2 * g[k - 1]
    <3>1. k - 1 \in 0 .. n - 1
      BY <1>3
    <3>2. CASE k = n
      BY <2>5, <2>7, <3>1, <3>2
    <3>3. CASE k # n
      <4>1. k \in 1 .. n - 1 /\ k \in 0 .. n - 1
        BY <1>3, <3>3
      <4>2. f[k] = 2 * f[k - 1] /\ g[k] = f[k] /\ g[k - 1] = f[k - 1]
        BY <2>4, <2>7, <3>1, <4>1
      <4>3. QED
        BY <4>2
    <3>4. QED
      BY <3>2, <3>3
  <2>11. Doubles(n, g)
    BY <2>8, <2>9, <2>10 DEF Doubles
  <2>12. QED
    BY <1>3, <2>11
<1>6. QED
  BY <1>4, <1>5

LEMMA DoublesAgree ==
  ASSUME NEW m \in Nat, NEW n \in Nat, m <= n, NEW f, NEW g, Doubles(m, f), Doubles(n, g)
  PROVE  \A k \in 0 .. m : f[k] = g[k]
<1> DEFINE Bad == {k \in 0 .. m : f[k] # g[k]}
<1>1. SUFFICES ASSUME Bad # {} PROVE FALSE
  OBVIOUS
<1>2. PICK k \in Bad : \A y \in Bad : k <= y
  <2>1. Bad \subseteq Nat
    OBVIOUS
  <2> HIDE DEF Bad
  <2>2. QED
    BY <1>1, <2>1, LeastElement
<1>3. k \in 0 .. m /\ f[k] # g[k]
  OBVIOUS
<1>4. k # 0
  BY <1>3 DEF Doubles
<1>5. k - 1 \in 0 .. m /\ ~(k <= k - 1) /\ k \in 1 .. m /\ k \in 1 .. n
  BY <1>3, <1>4
<1>6. k - 1 \notin Bad
  <2> HIDE DEF Bad
  <2>1. QED
    BY <1>2, <1>5
<1>7. f[k - 1] = g[k - 1]
  BY <1>5, <1>6
<1>8. f[k] = 2 * f[k - 1] /\ g[k] = 2 * g[k - 1]
  BY <1>5 DEF Doubles
<1>9. QED
  BY <1>3, <1>7, <1>8

\* The recursive definition has a solution, and Doubled is one.
LEMMA DoubledIs ==
  /\ \A n \in Nat : Doubled[n] \in Nat \ {0}
  /\ Doubled[0] = 1 /\ \A n \in Nat : Doubled[n + 1] = 2 * Doubled[n]
<1> DEFINE Table(m) == CHOOSE f : Doubles(m, f)
<1>1. \A m \in Nat : Doubles(m, Table(m))
  BY DoublesExist
<1> HIDE DEF Table
<1>2. PICK all : all = [n \in Nat |-> Table(n)[n]]
  OBVIOUS
<1>3. all[0] = 1 /\ \A n \in Nat : all[n] \in Nat
  BY <1>1, <1>2 DEF Doubles
<1>4. ASSUME NEW n \in Nat PROVE all[n + 1] = 2 * all[n]
  <2>1. Doubles(n, Table(n)) /\ Doubles(n + 1, Table(n + 1)) /\ n + 1 \in Nat /\ n <= n + 1
    BY <1>1
  <2>2. Table(n)[n] = Table(n + 1)[n]
    <3>1. n \in 0 .. n
      OBVIOUS
    <3>2. QED
      BY <2>1, <3>1, DoublesAgree
  <2>3. Table(n + 1)[n + 1] = 2 * Table(n + 1)[n]
    <3>1. n + 1 \in 1 .. n + 1 /\ (n + 1) - 1 = n
      OBVIOUS
    <3>2. QED
      BY <2>1, <3>1 DEF Doubles
  <2>4. QED
    BY <1>2, <2>1, <2>2, <2>3
<1> DEFINE Equation(f) == f = [n \in Nat |-> IF n = 0 THEN 1 ELSE 2 * f[n - 1]]
<1>5. Equation(all)
  <2>1. \A n \in Nat : all[n] = IF n = 0 THEN 1 ELSE 2 * all[n - 1]
    <3>1. ASSUME NEW n \in Nat, n # 0 PROVE all[n] = 2 * all[n - 1]
      <4>1. n - 1 \in Nat /\ (n - 1) + 1 = n
        BY <3>1
      <4>2. QED
        BY <1>4, <4>1
    <3>2. QED
      BY <1>3, <3>1
  <2>2. all = [n \in Nat |-> all[n]]
    BY <1>2
  <2>3. QED
    BY <2>1, <2>2
<1>6. Doubled = CHOOSE f : Equation(f)
  BY DEF Doubled
<1>7. Equation(Doubled)
  BY <1>5, <1>6
<1>8. PICK doubled : doubled = Doubled
  OBVIOUS
<1>9. PICK h : h = [n \in Nat |-> IF n = 0 THEN 1 ELSE 2 * doubled[n - 1]]
  OBVIOUS
<1>10. h[0] = 1 /\ \A n \in Nat : h[n + 1] = 2 * doubled[n]
  <2>1. h[0] = 1
    BY <1>9
  <2>2. ASSUME NEW n \in Nat PROVE h[n + 1] = 2 * doubled[n]
    <3>1. n + 1 \in Nat /\ n + 1 # 0 /\ (n + 1) - 1 = n
      OBVIOUS
    <3>2. QED
      BY <1>9, <3>1
  <2>3. QED
    BY <2>1, <2>2
<1>11. doubled = h
  BY <1>7, <1>8, <1>9
<1>12. doubled[0] = 1 /\ \A n \in Nat : doubled[n + 1] = 2 * doubled[n]
  BY <1>10, <1>11
<1> DEFINE Bad == {n \in Nat : doubled[n] \notin Nat \ {0}}
<1>13. Bad = {}
  <2>1. SUFFICES ASSUME Bad # {} PROVE FALSE
    OBVIOUS
  <2>2. PICK n \in Bad : \A y \in Bad : n <= y
    <3>1. Bad \subseteq Nat
      OBVIOUS
    <3> HIDE DEF Bad
    <3>2. QED
      BY <2>1, <3>1, LeastElement
  <2>3. n \in Nat /\ doubled[n] \notin Nat \ {0}
    OBVIOUS
  <2>4. n # 0
    BY <1>12, <2>3
  <2>5. n - 1 \in Nat /\ ~(n <= n - 1) /\ (n - 1) + 1 = n
    BY <2>3, <2>4
  <2>6. n - 1 \notin Bad
    <3> HIDE DEF Bad
    <3>1. QED
      BY <2>2, <2>5
  <2>7. doubled[n - 1] \in Nat \ {0}
    BY <2>5, <2>6
  <2>8. doubled[n] = 2 * doubled[n - 1]
    BY <1>12, <2>5
  <2>9. QED
    BY <2>3, <2>7, <2>8
<1>14. QED
  BY <1>8, <1>12, <1>13

\* Two reads after the newest window's the range is halved: of two reads the
\* second one bisects.
HalvesPaced ==
  /\ pc = "head" => reads = 0
  /\ pc = "probe" =>
       \/ reads = 1 /\ older = None /\ ~bisect
       \/ \E k \in Nat :
            /\ reads = 2 * k + (IF bisect THEN 3 ELSE 2)
            /\ older # None \/ lo > hi
            /\ Span * Doubled[k] <= sysvar.count

LEMMA ScaledDown ==
  ASSUME NEW a \in Int, NEW b \in Int, NEW d \in Nat
  PROVE  /\ a <= b => a * d <= b * d
         /\ 2 * a <= b => a * (2 * d) <= b * d
<1>1. ASSUME NEW c \in Int, c <= b PROVE c * d <= b * d
  <2>1. b - c \in Nat /\ (b - c) * d \in Nat
    BY <1>1
  <2>2. (b - c) * d = b * d - c * d /\ b * d \in Int /\ c * d \in Int
    OBVIOUS
  <2>3. QED
    BY <2>1, <2>2
<1>2. 2 * a \in Int /\ a * (2 * d) = (2 * a) * d
  OBVIOUS
<1>3. QED
  BY <1>1, <1>2

\* What a probe that decides nothing leaves of the range.
LEMMA ProbeNarrows ==
  ASSUME SlotHashesAssumption, SearchInv, Probe, pc' = "probe"
  PROVE  /\ Span \in Nat /\ Span' \in Int /\ Span' <= Span
         /\ older # None /\ bisect => 2 * Span' <= Span
         /\ older' # None \/ lo' > hi'
         /\ reads' = reads + 1 /\ sysvar' = sysvar
         /\ bisect' = (older # None /\ ~bisect)
<1>1. SearchTyped /\ Narrowed /\ lo <= hi /\ sysvar' = sysvar /\ reads' = reads + 1
  BY DEF Probe, SearchInv, input
<1>2. PICK start : start = ProbeStart
  OBVIOUS
<1>3. Narrow(start)
  BY <1>2 DEF Probe, Finish
<1>4. PICK w \in Nat \ {0}, l \in Nat, h \in Nat : w = Width /\ l = lo /\ h = hi
  BY <1>1, ProbeInRange, SysvarFacts DEF Narrowed
<1>5. start \in l .. h /\ start + w <= h + 1 /\ l <= h
  BY <1>1, <1>2, <1>4, ProbeInRange
<1>6. Span = h - l + 1 /\ HighestStart = h + 1 - w
  BY <1>4 DEF Span, HighestStart
<1>7. \/ lo' = l /\ hi' = start - 1 /\ older' = [at |-> start, slot |-> Slot(start)]
      \/ lo' = start + w - 1 + 1 /\ hi' = h /\ older' = older
  BY <1>3, <1>4 DEF Narrow
<1>8. Span' = hi' - lo' + 1
  BY DEF Span
<1>9. Span' \in Int /\ Span' <= Span /\ Span \in Nat
  BY <1>5, <1>6, <1>7, <1>8
<1>10. ASSUME older # None, bisect PROVE 2 * Span' <= Span
  <2>1. start = l + ((h - l + 1) - w) \div 2
    BY <1>2, <1>4, <1>6, <1>10 DEF ProbeStart
  <2>2. PICK q \in Int : q = ((h - l + 1) - w) \div 2
    BY <1>4
  <2>3. 2 * q <= (h - l + 1) - w /\ (h - l + 1) - w <= 2 * q + 1
    BY <2>2
  <2>4. CASE lo' = l /\ hi' = start - 1
    BY <1>6, <1>8, <2>1, <2>2, <2>3, <2>4
  <2>5. CASE lo' = start + w - 1 + 1 /\ hi' = h
    BY <1>6, <1>8, <2>1, <2>2, <2>3, <2>5
  <2>6. QED
    BY <1>7, <2>4, <2>5
<1>11. older' # None \/ lo' > hi'
  <2>1. CASE older' = [at |-> start, slot |-> Slot(start)]
    BY <2>1 DEF None
  <2>2. CASE lo' = start + w - 1 + 1 /\ hi' = h /\ older' = older /\ older = None
    <3>1. start = h + 1 - w
      BY <1>2, <1>6, <2>2 DEF ProbeStart
    <3>2. QED
      BY <2>2, <3>1
  <2>3. QED
    BY <1>7, <2>1, <2>2
<1>12. bisect' = (older # None /\ ~bisect)
  BY <1>3 DEF Narrow, HalvesNext
<1>13. QED
  BY <1>1, <1>9, <1>10, <1>11, <1>12

LEMMA ProbePaces ==
  ASSUME SlotHashesAssumption, SearchInv, SearchInv', HalvesPaced, Probe
  PROVE  HalvesPaced'
<1>1. pc = "probe" /\ pc' # "head" /\ bisect \in BOOLEAN /\ bisect' \in BOOLEAN
  BY DEF Probe, Finish, Narrow, SearchInv, SearchTyped
<1>2. SUFFICES ASSUME pc' = "probe"
               PROVE  \E k \in Nat :
                        /\ reads' = 2 * k + (IF bisect' THEN 3 ELSE 2)
                        /\ older' # None \/ lo' > hi'
                        /\ Span' * Doubled[k] <= sysvar'.count
  BY <1>1 DEF HalvesPaced
<1>3. PICK old \in Int, new \in Int : old = Span /\ new = Span'
  BY <1>2, ProbeNarrows
<1>4. /\ new <= old /\ (older # None /\ bisect => 2 * new <= old)
      /\ older' # None \/ lo' > hi'
      /\ reads' = reads + 1 /\ sysvar' = sysvar /\ bisect' = (older # None /\ ~bisect)
  BY <1>2, <1>3, ProbeNarrows
<1>5. lo <= hi
  BY DEF Probe
<1>6. /\ sysvar.count \in Nat /\ new <= sysvar.count /\ lo \in Int /\ hi \in Int
  <2>1. Narrowed /\ Narrowed' /\ SearchTyped
    BY <1>1, <1>2 DEF SearchInv
  <2>2. lo' \in Nat \ {0} /\ hi' \in 0 .. sysvar.count - 1 /\ sysvar.count \in Nat
    BY <1>4, <2>1, SysvarFacts DEF Narrowed
  <2>3. new = hi' - lo' + 1
    BY <1>3 DEF Span
  <2>4. lo \in Int /\ hi \in Int
    BY <2>1, SysvarFacts DEF Narrowed
  <2>5. QED
    BY <2>2, <2>3, <2>4
<1>7. CASE reads = 1 /\ older = None /\ ~bisect
  <2>1. reads' = 2 * 0 + 2 /\ ~bisect'
    BY <1>1, <1>4, <1>7
  <2>2. new * Doubled[0] <= sysvar.count
    BY <1>6, DoubledIs
  <2>3. QED
    BY <1>3, <1>4, <2>1, <2>2
<1>8. CASE \E k \in Nat :
             /\ reads = 2 * k + (IF bisect THEN 3 ELSE 2)
             /\ older # None \/ lo > hi
             /\ Span * Doubled[k] <= sysvar.count
  <2>1. PICK k \in Nat : /\ reads = 2 * k + (IF bisect THEN 3 ELSE 2)
                         /\ older # None \/ lo > hi
                         /\ old * Doubled[k] <= sysvar.count
    BY <1>3, <1>8
  <2>2. older # None
    BY <1>5, <1>6, <2>1
  <2>3. PICK d \in Nat : d = Doubled[k] /\ Doubled[k + 1] = 2 * d
    BY DoubledIs
  <2>4. old * d <= sysvar.count /\ old * d \in Int
    BY <2>1, <2>3
  <2>5. CASE bisect
    <3>1. reads' = 2 * (k + 1) + 2 /\ ~bisect' /\ k + 1 \in Nat
      <4>1. reads = 2 * k + 3
        BY <2>1, <2>5
      <4>2. reads' = 2 * (k + 1) + 2 /\ k + 1 \in Nat
        BY <1>4, <4>1
      <4>3. ~bisect'
        BY <1>4, <2>5, Zenon
      <4>4. QED
        BY <4>2, <4>3
    <3>2. new * (2 * d) <= old * d
      BY <1>4, <2>2, <2>5, ScaledDown
    <3>3. new * Doubled[k + 1] <= sysvar.count
      <4>1. new * (2 * d) \in Int
        OBVIOUS
      <4>2. new * (2 * d) <= sysvar.count
        BY <1>6, <2>4, <3>2, <4>1
      <4>3. QED
        BY <2>3, <4>2
    <3>4. QED
      BY <1>3, <1>4, <3>1, <3>3
  <2>6. CASE ~bisect
    <3>1. reads' = 2 * k + 3 /\ bisect'
      <4>1. reads = 2 * k + 2
        BY <2>1, <2>6
      <4>2. reads' = 2 * k + 3
        BY <1>4, <4>1
      <4>3. bisect'
        BY <1>4, <2>2, <2>6, Zenon
      <4>4. QED
        BY <4>2, <4>3
    <3>2. new * d <= old * d /\ new * d \in Int
      BY <1>4, ScaledDown
    <3>3. new * Doubled[k] <= sysvar.count
      <4>1. new * d <= sysvar.count
        BY <1>6, <2>4, <3>2
      <4>2. QED
        BY <2>3, <4>1
    <3>4. QED
      BY <1>3, <1>4, <3>1, <3>3
  <2>7. QED
    BY <1>1, <2>5, <2>6
<1>9. QED
  BY <1>1, <1>7, <1>8 DEF HalvesPaced

LEMMA PacePreserved ==
  ASSUME SlotHashesAssumption, SearchInv, SearchInv', HalvesPaced, [SearchNext]_searchvars
  PROVE  HalvesPaced'
<1>1. CASE ReadHead
  <2>1. reads = 0 /\ reads' = reads + 1
    BY <1>1 DEF ReadHead, HalvesPaced
  <2>2. pc' = "probe" => older' = None /\ ~bisect'
    <3>1. PICK have :
            \/ pc' = "count" \/ pc' = "done" \/ Start(have)
      <4>1. CASE ~Readable(WINDOW) \/ sysvar.count > MAX_ENTRIES
        BY <1>1, <4>1 DEF ReadHead, Finish
      <4>2. CASE Newest
        BY <4>2 DEF Newest, Finish
      <4>3. QED
        BY <1>1, <4>1, <4>2 DEF ReadHead
    <3>2. QED
      BY <3>1 DEF Start
  <2>3. pc' # "head"
    <3>1. CASE ~Readable(WINDOW) \/ sysvar.count > MAX_ENTRIES
      BY <1>1, <3>1 DEF ReadHead, Finish
    <3>2. CASE Newest
      BY <3>2 DEF Newest, Finish, Start
    <3>3. QED
      BY <1>1, <3>1, <3>2 DEF ReadHead
  <2>4. QED
    BY <2>1, <2>2, <2>3 DEF HalvesPaced
<1>2. CASE ReadCount
  BY <1>2 DEF ReadCount, Finish, HalvesPaced
<1>3. CASE ReadShort
  <2>1. sysvar.count \in 1 .. WINDOW - 1 /\ SearchTyped
    BY <1>3 DEF ReadShort, SearchInv
  <2>2. Lesser(sysvar.count, WINDOW) = sysvar.count
    BY <2>1, SysvarFacts DEF Lesser
  <2>3. pc' = "done"
    BY <1>3, <2>2 DEF ReadShort, Newest, Finish
  <2>4. QED
    BY <2>3 DEF HalvesPaced
<1>4. CASE Probe
  BY <1>4, ProbePaces
<1>5. CASE Exhausted \/ ReaderFails
  BY <1>5 DEF Exhausted, ReaderFails, Finish, HalvesPaced
<1>6. CASE Ask
  BY <1>6 DEF Ask, HalvesPaced
<1>7. CASE UNCHANGED searchvars
  BY <1>7 DEF searchvars, range, input, HalvesPaced, Span
<1>8. QED
  BY <1>1, <1>2, <1>3, <1>4, <1>5, <1>6, <1>7 DEF SearchNext

LEMMA PaceHalves ==
  ASSUME SlotHashesAssumption, SearchInv, HalvesPaced
  PROVE  ProbesHalve
<1>1. SUFFICES ASSUME pc = "probe", reads > 1
               PROVE  Span * Doubled[(reads - 2) \div 2] <= sysvar.count
  BY DEF ProbesHalve
<1>2. PICK k \in Nat : /\ reads = 2 * k + (IF bisect THEN 3 ELSE 2)
                       /\ Span * Doubled[k] <= sysvar.count
  BY <1>1 DEF HalvesPaced
<1>3. (reads - 2) \div 2 = k
  BY <1>2
<1>4. QED
  BY <1>2, <1>3

\* However unevenly the slots are spread, every other probe halves the range, so a
\* search ends within about two reads per bit of the count (slot_hash_lookup_with).
THEOREM SearchHalves ==
  ASSUME SlotHashesAssumption
  PROVE  SearchSpec => []ProbesHalve
<1>1. SearchInit => SearchInv /\ HalvesPaced
  BY DEF SearchInit, SearchInv, SearchTyped, AnswersExactly, HalvesPaced
<1>2. (SearchInv /\ HalvesPaced) /\ [SearchNext]_searchvars => (SearchInv /\ HalvesPaced)'
  BY SearchStepPreserves, PacePreserved
<1>3. SearchInv /\ HalvesPaced => ProbesHalve
  BY PaceHalves
<1>4. QED
  BY <1>1, <1>2, <1>3, PTL DEF SearchSpec

-----------------------------------------------------------------------------
(* The heap *)

\* A mark that may still be released has every block in use below it.
MarksAbove ==
  \A mark \in marks, b \in blocks : mark \notin b.since => b.at + b.size <= mark

CursorPastScratch == word = 0 \/ Floor <= word

HeapInv == HeapTypeOK /\ BlocksApart /\ CursorPastScratch /\ MarksAbove

\* The first multiple of the alignment from the cursor on.
LEMMA AlignedUpFacts ==
  ASSUME AllocatorAssumption, word \in Nat, NEW align \in Aligns
  PROVE  /\ AlignedUp(align) \in Nat /\ Cursor <= AlignedUp(align)
         /\ AlignedUp(align) % align = 0
<1>1. align \in Nat \ {0} /\ Cursor \in Nat
  BY DEF AllocatorAssumption, Cursor, Floor
<1>2. PICK c \in Nat, q \in Nat :
        c = Cursor /\ q = (c + align - 1) \div align /\ AlignedUp(align) = q * align
  <2>1. Cursor + align - 1 \in Nat
    BY <1>1
  <2>2. (Cursor + align - 1) \div align \in Nat
    BY <1>1, <2>1
  <2>3. QED
    BY <1>1, <2>2 DEF AlignedUp
<1>3. c <= q * align
  BY <1>1, <1>2
<1>4. q * align \in Nat /\ (q * align) % align = 0
  BY <1>1
<1>5. QED
  BY <1>2, <1>3, <1>4

\* What a region is, and what a block in use is known to be.
LEMMA HeapFacts ==
  ASSUME AllocatorAssumption, HeapInv
  PROVE  /\ Floor \in Nat \ {0} /\ End \in Nat /\ Cursor \in Nat
         /\ Floor <= Cursor /\ Cursor <= End
         /\ Floor = START + WORD + HEAP_RUNTIME_RESERVED
         /\ \A b \in blocks : /\ b.at \in Nat /\ b.size \in Nat \ {0} /\ b.align \in Nat \ {0}
                              /\ b.size \in Sizes /\ b.align \in Aligns
                              /\ b.since \subseteq Nat
                              /\ Floor <= b.at /\ b.at + b.size <= Cursor
                              /\ b.at % b.align = 0
<1>1. /\ START \in Nat \ {0} /\ WORD \in Nat /\ HEAP_RUNTIME_RESERVED \in Nat
      /\ LEN \in Nat /\ WORD + HEAP_RUNTIME_RESERVED <= LEN
      /\ Aligns \subseteq Nat \ {0}
  BY DEF AllocatorAssumption
<1>2. \A n \in Sizes : n \in Nat \ {0}
  BY DEF AllocatorAssumption
<1>3. \A b \in blocks : /\ b.at \in Nat /\ b.size \in Sizes /\ b.align \in Aligns
                        /\ b.since \subseteq Nat
  BY DEF HeapInv, HeapTypeOK, Block
<1>4. Floor = START + WORD + HEAP_RUNTIME_RESERVED /\ End = START + LEN
  BY DEF Floor, End
<1>5. Cursor \in Nat /\ Floor <= Cursor /\ Cursor <= End
  BY <1>1, <1>4 DEF Cursor, HeapInv, HeapTypeOK, BlocksApart, CursorPastScratch
<1>6. \A b \in blocks : Floor <= b.at /\ b.at + b.size <= Cursor /\ b.at % b.align = 0
  BY <1>4 DEF HeapInv, BlocksApart
<1>7. Floor \in Nat \ {0} /\ End \in Nat
  BY <1>1, <1>4
<1>8. \A b \in blocks : b.size \in Nat \ {0} /\ b.align \in Nat \ {0}
  BY <1>1, <1>2, <1>3
<1>9. QED
  BY <1>3, <1>4, <1>5, <1>6, <1>7, <1>8

\* A new block starts where no block in use ends later, and ends at the cursor.
LEMMA PlaceFacts ==
  ASSUME AllocatorAssumption, HeapInv, NEW size \in Sizes, NEW align \in Aligns,
         Place(size, align)
  PROVE  /\ AlignedUp(align) \in Nat /\ AlignedUp(align) % align = 0
         /\ Cursor <= AlignedUp(align) /\ Floor <= AlignedUp(align)
         /\ word' \in Nat /\ Cursor' = AlignedUp(align) + size
         /\ Cursor' <= End /\ Cursor <= Cursor'
         /\ New(size, align) \in Block
<1>1. size \in Nat \ {0} /\ word \in Nat /\ marks \subseteq Nat
  BY DEF AllocatorAssumption, HeapInv, HeapTypeOK
<1>2. /\ AlignedUp(align) \in Nat /\ AlignedUp(align) % align = 0
      /\ Cursor <= AlignedUp(align)
  BY <1>1, AlignedUpFacts
<1>3. Floor \in Nat \ {0} /\ Floor <= Cursor /\ Cursor \in Nat
  BY HeapFacts
<1>4. word' = AlignedUp(align) + size /\ word' <= End
  BY DEF Place, Fits
<1>5. word' \in Nat \ {0} /\ Cursor' = word'
  BY <1>1, <1>2, <1>3, <1>4 DEF Cursor
<1>6. New(size, align) \in Block
  BY <1>1, <1>2 DEF New, Block
<1>7. QED
  BY <1>1, <1>2, <1>3, <1>4, <1>5, <1>6, HeapFacts

LEMMA InitHeap == AllocatorAssumption /\ HeapInit => HeapInv
<1> SUFFICES ASSUME AllocatorAssumption, HeapInit PROVE HeapInv
  OBVIOUS
<1>1. word = 0 /\ blocks = {} /\ marks = {}
  BY DEF HeapInit
<1>2. Cursor <= End
  BY <1>1 DEF AllocatorAssumption, Cursor, Floor, End
<1>3. QED
  BY <1>1, <1>2
     DEF HeapInv, HeapTypeOK, BlocksApart, CursorPastScratch, MarksAbove

\* A block placed past every block in use, which every mark taken so far is older
\* than, keeps the invariant, whichever block it replaces.
LEMMA PlacePreserves ==
  ASSUME AllocatorAssumption, HeapInv, NEW size \in Sizes, NEW align \in Aligns,
         Place(size, align), NEW kept \in SUBSET blocks,
         blocks' = kept \cup {New(size, align)}, UNCHANGED marks
  PROVE  HeapInv'
<1> DEFINE n == New(size, align)
<1>1. /\ n.at \in Nat /\ n.size = size /\ n.since = marks /\ n \in Block
      /\ n.at % n.align = 0 /\ Cursor <= n.at /\ Floor <= n.at
      /\ Cursor' = n.at + n.size /\ Cursor' <= End /\ Cursor <= Cursor'
      /\ word' \in Nat /\ size \in Nat \ {0}
  BY PlaceFacts DEF New, AllocatorAssumption
<1>2. Floor' = Floor /\ End' = End
  BY DEF Floor, End
<1>3. HeapTypeOK'
  BY <1>1 DEF HeapInv, HeapTypeOK
<1>4. BlocksApart'
  <2>1. \A b \in blocks' : b \in kept \/ b = n
    OBVIOUS
  <2> HIDE DEF n
  <2>2. \A b \in blocks' : /\ Floor <= b.at /\ b.at + b.size <= Cursor'
                           /\ b.at % b.align = 0
    BY <1>1, <2>1, HeapFacts
  <2>3. \A b \in kept : b.at + b.size <= n.at
    BY <1>1, HeapFacts
  <2>4. \A b, c \in blocks' : b # c => b.at + b.size <= c.at \/ c.at + c.size <= b.at
    BY <2>1, <2>3 DEF HeapInv, BlocksApart
  <2>5. QED
    BY <1>1, <1>2, <2>2, <2>4, HeapFacts DEF BlocksApart
<1>5. CursorPastScratch'
  BY <1>1, <1>2, HeapFacts DEF CursorPastScratch, Cursor
<1>6. MarksAbove'
  BY <1>1 DEF MarksAbove, HeapInv
<1>7. QED
  BY <1>3, <1>4, <1>5, <1>6 DEF HeapInv

\* A block that takes the place of an older form of itself, no further than the
\* cursor, and no further than the older form unless every mark is older.
LEMMA ResizePreserves ==
  ASSUME AllocatorAssumption, HeapInv, NEW b \in blocks, NEW size \in Sizes,
         blocks' = (blocks \ {b}) \cup {Resized(b, size)}, UNCHANGED marks,
         \/ Last(b) /\ Fits(b.at + size) /\ word' = b.at + size
         \/ size <= b.size /\ UNCHANGED word
  PROVE  HeapInv'
<1> DEFINE n == Resized(b, size)
<1>1. /\ n.at = b.at /\ n.size = size /\ n.align = b.align /\ n \in Block
      /\ n.since = IF size > b.size THEN marks ELSE b.since
  BY DEF Resized, HeapInv, HeapTypeOK, Block
<1>2. \A c \in blocks' : c = n \/ (c \in blocks /\ c # b)
  OBVIOUS
<1> HIDE DEF n
<1>3. size \in Nat \ {0} /\ Floor' = Floor /\ End' = End
  BY DEF AllocatorAssumption, Floor, End
<1>4. \A c \in blocks : c # b => c.at + c.size <= b.at \/ b.at + b.size <= c.at
  BY DEF HeapInv, BlocksApart
<1>5. /\ word' \in Nat /\ Cursor' <= End /\ Floor <= Cursor'
      /\ Cursor' \in Nat /\ n.at + n.size <= Cursor' /\ CursorPastScratch'
      /\ \A c \in blocks : c # b => /\ c.at + c.size <= Cursor'
                                    /\ c.at + c.size <= n.at \/ n.at + n.size <= c.at
  <2>1. CASE Last(b) /\ Fits(b.at + size) /\ word' = b.at + size
    <3>1. word' \in Nat \ {0} /\ Cursor' = word' /\ Floor <= word' /\ word' <= End
      BY <1>3, <2>1, HeapFacts DEF Cursor, Fits
    <3>2. \A c \in blocks : c # b => c.at + c.size <= b.at
      BY <1>4, <2>1, HeapFacts DEF Last
    <3>3. \A c \in blocks : c # b => c.at + c.size <= n.at /\ c.at + c.size <= Cursor'
      BY <1>1, <1>3, <2>1, <3>1, <3>2, HeapFacts
    <3>4. n.at + n.size = Cursor' /\ CursorPastScratch'
      BY <1>1, <1>3, <2>1, <3>1 DEF CursorPastScratch
    <3>5. QED
      BY <3>1, <3>3, <3>4, HeapFacts
  <2>2. CASE size <= b.size /\ UNCHANGED word
    <3>1. Cursor' = Cursor /\ CursorPastScratch' /\ word' \in Nat
      BY <1>3, <2>2 DEF Cursor, CursorPastScratch, HeapInv, HeapTypeOK
    <3>2. QED
      BY <1>1, <1>3, <1>4, <2>2, <3>1, HeapFacts
  <2>3. QED
    BY <2>1, <2>2
<1>6. HeapTypeOK'
  BY <1>1, <1>5, <1>2 DEF HeapInv, HeapTypeOK
<1>7. BlocksApart'
  <2>1. \A c \in blocks' : Floor <= c.at /\ c.at + c.size <= Cursor' /\ c.at % c.align = 0
    BY <1>1, <1>5, <1>2, HeapFacts
  <2>2. \A c, d \in blocks' : c # d => c.at + c.size <= d.at \/ d.at + d.size <= c.at
    BY <1>5, <1>2 DEF HeapInv, BlocksApart
  <2>3. QED
    BY <1>3, <1>5, <2>1, <2>2, HeapFacts DEF BlocksApart
<1>8. MarksAbove'
  <2>1. \A mark \in marks : mark \notin n.since => n.at + n.size <= mark
    <3>1. TAKE mark \in marks
    <3>2. HAVE mark \notin n.since
    <3>3. ~(size > b.size) /\ mark \notin b.since
      BY <1>1, <3>2
    <3>4. b.at + b.size <= mark /\ mark \in Nat
      BY <3>3 DEF HeapInv, MarksAbove, HeapTypeOK
    <3>5. QED
      BY <1>1, <1>3, <3>3, <3>4, HeapFacts
  <2>2. QED
    BY <1>2, <2>1 DEF HeapInv, MarksAbove
<1>9. QED
  BY <1>5, <1>6, <1>7, <1>8 DEF HeapInv

LEMMA MarkPreserves ==
  ASSUME AllocatorAssumption, HeapInv, Mark
  PROVE  HeapInv'
<1>1. marks' = marks \cup {Cursor} /\ word' = word
  BY DEF Mark
<1>2. \A c \in blocks' : \E b \in blocks :
        /\ c.at = b.at /\ c.size = b.size /\ c.align = b.align
        /\ c.since = b.since \ {Cursor} /\ c = [b EXCEPT !.since = @ \ {Cursor}]
        /\ c \in Block
  BY DEF Mark, HeapInv, HeapTypeOK, Block
<1>3. Floor' = Floor /\ End' = End /\ Cursor' = Cursor
  BY <1>1 DEF Floor, End, Cursor
<1>4. HeapTypeOK' /\ CursorPastScratch'
  BY <1>1, <1>2, <1>3, HeapFacts DEF HeapInv, HeapTypeOK, CursorPastScratch
<1>5. BlocksApart'
  <2>1. \A c \in blocks' : /\ Floor <= c.at /\ c.at + c.size <= Cursor
                           /\ c.at % c.align = 0
    BY <1>2, HeapFacts
  <2>2. ASSUME NEW c \in blocks', NEW d \in blocks', c # d
        PROVE  c.at + c.size <= d.at \/ d.at + d.size <= c.at
    <3>1. PICK b \in blocks : /\ c.at = b.at /\ c.size = b.size
                              /\ c = [b EXCEPT !.since = @ \ {Cursor}]
      BY <1>2
    <3>2. PICK e \in blocks : /\ d.at = e.at /\ d.size = e.size
                              /\ d = [e EXCEPT !.since = @ \ {Cursor}]
      BY <1>2
    <3>3. b # e
      BY <2>2, <3>1, <3>2
    <3>4. QED
      BY <3>1, <3>2, <3>3 DEF HeapInv, BlocksApart
  <2>3. QED
    BY <1>3, <2>1, <2>2, HeapFacts DEF BlocksApart
<1>6. MarksAbove'
  <2>1. ASSUME NEW mark \in marks', NEW c \in blocks', mark \notin c.since
        PROVE  c.at + c.size <= mark
    <3>1. PICK b \in blocks : /\ c.at = b.at /\ c.size = b.size
                              /\ c.since = b.since \ {Cursor}
      BY <1>2
    <3>2. CASE mark = Cursor
      BY <3>1, <3>2, HeapFacts
    <3>3. CASE mark # Cursor
      <4>1. mark \in marks /\ mark \notin b.since
        BY <1>1, <2>1, <3>1, <3>3
      <4>2. QED
        BY <3>1, <4>1 DEF HeapInv, MarksAbove
    <3>4. QED
      BY <3>2, <3>3
  <2>2. QED
    BY <2>1 DEF MarksAbove
<1>7. QED
  BY <1>4, <1>5, <1>6 DEF HeapInv

LEMMA ReleasePreserves ==
  ASSUME AllocatorAssumption, HeapInv, NEW mark \in marks, ReleaseTo(mark)
  PROVE  HeapInv'
<1>1. /\ blocks' = blocks /\ marks' = marks /\ word' = mark /\ mark \in Nat
      /\ Floor <= mark /\ mark <= Cursor
      /\ \A b \in blocks : b.at + b.size <= mark
  BY DEF ReleaseTo, HeapInv, MarksAbove, HeapTypeOK
<1>2. /\ Cursor' = mark /\ Floor' = Floor /\ End' = End
  BY <1>1, HeapFacts DEF Cursor, Floor, End
<1>3. BlocksApart'
  BY <1>1, <1>2, HeapFacts DEF HeapInv, BlocksApart
<1>4. QED
  BY <1>1, <1>2, <1>3 DEF HeapInv, HeapTypeOK, CursorPastScratch, MarksAbove

LEMMA HeapStepPreserves ==
  ASSUME AllocatorAssumption, HeapInv, [HeapNext]_heapvars
  PROVE  HeapInv'
<1>1. CASE \E size \in Sizes, align \in Aligns : Alloc(size, align)
  BY <1>1, PlacePreserves DEF Alloc
<1>2. CASE \E b \in blocks : Dealloc(b)
  <2>1. PICK b \in blocks : Dealloc(b)
    BY <1>2
  <2>2. blocks' \subseteq blocks /\ word' = word /\ marks' = marks
    BY <2>1 DEF Dealloc
  <2>3. QED
    BY <2>2 DEF HeapInv, HeapTypeOK, BlocksApart, CursorPastScratch, MarksAbove,
                Cursor, Floor, End
<1>3. CASE \E b \in blocks, size \in Sizes : Realloc(b, size)
  <2>1. PICK b \in blocks, size \in Sizes : Realloc(b, size)
    BY <1>3
  <2>2. CASE /\ ~Last(b) /\ size > b.size /\ Place(size, b.align)
             /\ blocks' = (blocks \ {b}) \cup {New(size, b.align)} /\ UNCHANGED marks
    <3>1. b.align \in Aligns
      BY HeapFacts, <2>1
    <3>2. blocks \ {b} \in SUBSET blocks /\ Place(size, b.align) /\ UNCHANGED marks
      BY <2>2
    <3>3. blocks' = (blocks \ {b}) \cup {New(size, b.align)}
      BY <2>2
    <3>4. QED
      BY <2>1, <3>1, <3>2, <3>3, PlacePreserves
  <2>3. CASE /\ blocks' = (blocks \ {b}) \cup {Resized(b, size)} /\ UNCHANGED marks
             /\ \/ Last(b) /\ Fits(b.at + size) /\ word' = b.at + size
                \/ size <= b.size /\ UNCHANGED word
    BY <2>3, ResizePreserves
  <2>4. QED
    BY <2>1, <2>2, <2>3 DEF Realloc
<1>4. CASE Mark
  BY <1>4, MarkPreserves
<1>5. CASE \E mark \in marks : ReleaseTo(mark)
  BY <1>5, ReleasePreserves
<1>6. CASE UNCHANGED heapvars
  BY <1>6 DEF heapvars, HeapInv, HeapTypeOK, BlocksApart, CursorPastScratch, MarksAbove,
              Cursor, Floor, End
<1>7. QED
  BY <1>1, <1>2, <1>3, <1>4, <1>5, <1>6 DEF HeapNext

\* For every region, size and alignment: whatever is grown, shrunk, moved, dropped
\* and released, no byte of the heap has two owners (GlobalAlloc of BumpAllocator).
THEOREM HeapBlocksApart ==
  ASSUME AllocatorAssumption
  PROVE  HeapSpec => [](HeapTypeOK /\ BlocksApart)
<1>1. HeapInit => HeapInv
  BY InitHeap
<1>2. HeapInv /\ [HeapNext]_heapvars => HeapInv'
  BY HeapStepPreserves
<1>3. HeapInv => HeapTypeOK /\ BlocksApart
  BY DEF HeapInv
<1>4. QED
  BY <1>1, <1>2, <1>3, PTL DEF HeapSpec

-----------------------------------------------------------------------------
(* The packed map *)

CONSTANTS MapKey, ZeroKey, ZeroValue
VARIABLES map_len, map_entries, map_reply

PM == INSTANCE PackedMap WITH
  Key <- MapKey, len <- map_len, entries <- map_entries, reply <- map_reply

MapInv == PM!TypeOK /\ PM!KeysUnique /\ PM!RestIsBlank

\* The places below n whose entry has a key, the first of them, the keys there are
\* and the function they stand for.
Having(n, es, k) == {i \in 0 .. n - 1 : es[i].key = k}
First(n, es, k) == CHOOSE i \in Having(n, es, k) : \A j \in Having(n, es, k) : i <= j
Keys(n, es) == {es[i].key : i \in 0 .. n - 1}
MapOf(n, es) == [k \in Keys(n, es) |-> es[First(n, es, k)].value]

Describes(f, n, es) ==
  /\ f = [k \in Keys(n, es) |-> f[k]]
  /\ \A i \in 0 .. n - 1 : f[es[i].key] = es[i].value

Updated(f, k, v) == [j \in DOMAIN f \cup {k} |-> IF j = k THEN v ELSE f[j]]
Reduced(f, k) == [j \in DOMAIN f \ {k} |-> f[j]]

Unique(n, es) == \A i, j \in 0 .. n - 1 : es[i].key = es[j].key => i = j

\* Where keys are unique the scan finds the entry, whichever way it goes.
LEMMA ScanFinds ==
  ASSUME NEW n \in Nat, NEW es, Unique(n, es), NEW k, NEW i \in 0 .. n - 1, es[i].key = k
  PROVE  /\ Having(n, es, k) = {i}
         /\ First(n, es, k) = i
<1>1. Having(n, es, k) = {i}
  BY DEF Having, Unique
<1>2. \A m \in Having(n, es, k) :
        m = i /\ \A j \in Having(n, es, k) : m <= j
  BY <1>1
<1>3. QED
  BY <1>1, <1>2 DEF First

\* The function is the only one with its keys and its values.
LEMMA MapIs ==
  ASSUME NEW n \in Nat, NEW es, Unique(n, es)
  PROVE  /\ DOMAIN MapOf(n, es) = Keys(n, es)
         /\ \A i \in 0 .. n - 1 : MapOf(n, es)[es[i].key] = es[i].value
         /\ \A f : Describes(f, n, es) => f = MapOf(n, es)
<1> DEFINE m == MapOf(n, es)
<1>1. DOMAIN m = Keys(n, es) /\ m = [k \in Keys(n, es) |-> m[k]]
  BY DEF MapOf
<1>2. ASSUME NEW i \in 0 .. n - 1 PROVE m[es[i].key] = es[i].value
  <2>0. First(n, es, es[i].key) = i
    BY ScanFinds
  <2>1. es[i].key \in Keys(n, es)
    BY DEF Keys
  <2>2. m[es[i].key] = es[First(n, es, es[i].key)].value
    BY <2>1 DEF MapOf
  <2>3. QED
    BY <2>0, <2>2
<1>3. ASSUME NEW f, Describes(f, n, es) PROVE f = m
  <2>1. /\ f = [k \in Keys(n, es) |-> f[k]]
        /\ \A i \in 0 .. n - 1 : f[es[i].key] = es[i].value
    BY <1>3 DEF Describes
  <2>2. \A k \in Keys(n, es) : f[k] = m[k]
    BY <1>2, <2>1 DEF Keys
  <2> HIDE DEF m
  <2>3. QED
    BY <1>1, <2>1, <2>2
<1>4. QED
  BY <1>1, <1>2, <1>3

\* There are as many keys as entries.
LEMMA KeysCounted ==
  ASSUME NEW n \in Nat, NEW es, Unique(n, es)
  PROVE  Cardinality(Keys(n, es)) = n
<1>1. PICK f : f = [i \in 0 .. n - 1 |-> es[i].key]
  OBVIOUS
<1>2. f \in Bijection(0 .. n - 1, Keys(n, es))
  <2>1. f \in [0 .. n - 1 -> Keys(n, es)]
    BY <1>1 DEF Keys
  <2>2. \A i, j \in 0 .. n - 1 : f[i] = f[j] => i = j
    BY <1>1 DEF Unique
  <2>3. \A k \in Keys(n, es) : \E i \in 0 .. n - 1 : f[i] = k
    BY <1>1 DEF Keys
  <2>4. QED
    BY <2>1, <2>2, <2>3 DEF Bijection, Injection, Surjection, IsInjective
<1>3. IsFiniteSet(0 .. n - 1) /\ Cardinality(0 .. n - 1) = n
  BY FS_Interval
<1>4. ExistsBijection(0 .. n - 1, Keys(n, es))
  BY <1>2 DEF ExistsBijection
<1>5. QED
  BY <1>3, <1>4, FS_Bijection

\* What the scan and the function of the present entries have to do with each other.
LEMMA MapFacts ==
  ASSUME PM!PackedMapAssumption, MapInv
  PROVE  /\ map_len \in Nat /\ map_len <= Capacity /\ Capacity \in Nat
         /\ map_entries \in [0 .. Capacity - 1 -> PM!Entry]
         /\ Unique(map_len, map_entries)
         /\ \A k : PM!Found(k) <=> k \in Keys(map_len, map_entries)
         /\ \A k : PM!Found(k) =>
              /\ PM!Find(k) \in 0 .. map_len - 1 /\ map_entries[PM!Find(k)].key = k
              /\ MapOf(map_len, map_entries)[k] = map_entries[PM!Find(k)].value
<1>1. /\ map_len \in Nat /\ map_len <= Capacity /\ Capacity \in Nat
      /\ map_entries \in [0 .. Capacity - 1 -> PM!Entry]
      /\ Unique(map_len, map_entries)
  BY DEF PM!PackedMapAssumption, MapInv, PM!TypeOK, PM!KeysUnique, PM!Index, Unique
<1>2. ASSUME NEW k PROVE PM!Matches(k) = Having(map_len, map_entries, k)
  BY DEF PM!Matches, Having
<1>3. ASSUME NEW k PROVE PM!Found(k) <=> k \in Keys(map_len, map_entries)
  BY <1>2 DEF PM!Found, Having, Keys
<1>4. ASSUME NEW k, PM!Found(k)
      PROVE  /\ PM!Find(k) \in 0 .. map_len - 1 /\ map_entries[PM!Find(k)].key = k
             /\ MapOf(map_len, map_entries)[k] = map_entries[PM!Find(k)].value
  <2>1. PICK i \in 0 .. map_len - 1 : map_entries[i].key = k
    BY <1>3, <1>4 DEF Keys
  <2>2. First(map_len, map_entries, k) = i
    BY <1>1, <2>1, ScanFinds
  <2>3. PM!Find(k) = i
    BY <2>2 DEF PM!Find, PM!Matches, First, Having
  <2>4. MapOf(map_len, map_entries)[k] = map_entries[i].value
    BY <1>1, <2>1, MapIs
  <2>5. QED
    BY <2>1, <2>3, <2>4
<1>5. QED
  BY <1>1, <1>3, <1>4

\* An entry written over its key, or behind the last one, makes m entries of n.
Puts(n, es, at, e, m, put) ==
  /\ at \in 0 .. n /\ \A i \in 0 .. n - 1 : es[i].key = e.key => i = at
  /\ at # n => es[at].key = e.key
  /\ m = IF at = n THEN n + 1 ELSE n
  /\ \A i \in 0 .. m - 1 : put[i] = IF i = at THEN e ELSE es[i]

LEMMA PutEntry ==
  ASSUME NEW n \in Nat, NEW es, Unique(n, es), NEW at, NEW e, NEW m, NEW put,
         Puts(n, es, at, e, m, put)
  PROVE  /\ Unique(m, put) /\ Keys(m, put) = Keys(n, es) \cup {e.key}
         /\ MapOf(m, put) = Updated(MapOf(n, es), e.key, e.value)
<1> DEFINE k == e.key
           v == e.value
<1>0. /\ at \in 0 .. n /\ m \in Nat /\ m = (IF at = n THEN n + 1 ELSE n)
      /\ \A i \in 0 .. n - 1 : es[i].key = k => i = at
      /\ at # n => es[at].key = k
      /\ \A i \in 0 .. m - 1 : put[i] = IF i = at THEN e ELSE es[i]
  BY DEF Puts
<1>1. at \in 0 .. m - 1 /\ put[at] = e
  BY <1>0
<1>2. \A i \in 0 .. m - 1 : i # at => i \in 0 .. n - 1 /\ put[i] = es[i] /\ es[i].key # k
  BY <1>0
<1>3. Unique(m, put)
  BY <1>1, <1>2 DEF Unique
<1>4. Keys(m, put) = Keys(n, es) \cup {k}
  <2>1. ASSUME NEW j \in Keys(n, es) PROVE j \in Keys(m, put)
    <3>1. PICK i \in 0 .. n - 1 : j = es[i].key
      BY DEF Keys
    <3>2. i \in 0 .. m - 1 /\ j = put[i].key
      BY <1>0, <1>1, <3>1
    <3>3. QED
      BY <3>2 DEF Keys
  <2>2. k \in Keys(m, put)
    BY <1>1 DEF Keys
  <2>3. ASSUME NEW j \in Keys(m, put) PROVE j \in Keys(n, es) \cup {k}
    BY <1>1, <1>2 DEF Keys
  <2>4. QED
    BY <2>1, <2>2, <2>3
<1>5. PICK f : /\ f = Updated(MapOf(n, es), k, v)
               /\ f = [j \in Keys(n, es) \cup {k} |-> IF j = k THEN v ELSE MapOf(n, es)[j]]
  BY MapIs DEF Updated
<1>6. \A i \in 0 .. m - 1 : f[put[i].key] = put[i].value
  <2>1. \A i \in 0 .. n - 1 : es[i].key \in Keys(n, es)
    BY DEF Keys
  <2>2. \A i \in 0 .. n - 1 : MapOf(n, es)[es[i].key] = es[i].value
    BY MapIs
  <2>3. QED
    BY <1>1, <1>2, <1>5, <2>1, <2>2
<1>7. f = [j \in Keys(m, put) |-> f[j]]
  BY <1>4, <1>5
<1>8. f = MapOf(m, put)
  <2>1. Describes(f, m, put)
    BY <1>6, <1>7 DEF Describes
  <2>2. QED
    BY <1>0, <1>3, <2>1, MapIs
<1>9. QED
  BY <1>3, <1>4, <1>5, <1>8

\* The last entry in the gap leaves the others' keys.
Drops(n, es, at, k, put) ==
  /\ at \in 0 .. n - 1 /\ es[at].key = k
  /\ \A i \in 0 .. n - 2 : put[i] = IF i = at THEN es[n - 1] ELSE es[i]

LEMMA DropEntry ==
  ASSUME NEW n \in Nat \ {0}, NEW es, Unique(n, es), NEW at, NEW k, NEW put,
         Drops(n, es, at, k, put)
  PROVE  /\ Unique(n - 1, put) /\ Keys(n - 1, put) = Keys(n, es) \ {k}
         /\ MapOf(n - 1, put) = Reduced(MapOf(n, es), k)
<1>0. /\ at \in 0 .. n - 1 /\ es[at].key = k
      /\ \A i \in 0 .. n - 2 : put[i] = IF i = at THEN es[n - 1] ELSE es[i]
  BY DEF Drops
<1> DEFINE from(i) == IF i = at THEN n - 1 ELSE i
<1>1. n - 1 \in Nat /\ (n - 1) - 1 = n - 2
  OBVIOUS
<1>2. \A i \in 0 .. n - 2 : /\ from(i) \in 0 .. n - 1 /\ from(i) # at
                            /\ put[i] = es[from(i)]
  BY <1>0
<1>3. \A i, j \in 0 .. n - 2 : from(i) = from(j) => i = j
  BY <1>0
<1>4. \A l \in 0 .. n - 1 : l # at => \E i \in 0 .. n - 2 : from(i) = l
  <2>1. SUFFICES ASSUME NEW l \in 0 .. n - 1, l # at PROVE \E i \in 0 .. n - 2 : from(i) = l
    OBVIOUS
  <2>2. CASE l = n - 1
    <3>1. at \in 0 .. n - 2 /\ from(at) = l
      BY <1>0, <2>1, <2>2
    <3>2. QED
      BY <3>1
  <2>3. CASE l # n - 1
    <3>1. l \in 0 .. n - 2 /\ from(l) = l
      BY <2>1, <2>3
    <3>2. QED
      BY <3>1
  <2>4. QED
    BY <2>2, <2>3
<1> HIDE DEF from
<1>5. Unique(n - 1, put)
  BY <1>1, <1>2, <1>3 DEF Unique
<1>6. Keys(n - 1, put) = Keys(n, es) \ {k}
  <2>1. ASSUME NEW j \in Keys(n, es), j # k PROVE j \in Keys(n - 1, put)
    <3>1. PICK l \in 0 .. n - 1 : j = es[l].key
      BY DEF Keys
    <3>2. PICK i \in 0 .. n - 2 : from(i) = l
      BY <1>0, <1>4, <2>1, <3>1
    <3>3. i \in 0 .. (n - 1) - 1 /\ j = put[i].key
      BY <1>1, <1>2, <3>1, <3>2
    <3>4. QED
      BY <3>3 DEF Keys
  <2>2. ASSUME NEW j \in Keys(n - 1, put) PROVE j \in Keys(n, es) /\ j # k
    <3>1. PICK i \in 0 .. n - 2 : j = put[i].key
      BY <1>1 DEF Keys
    <3>2. from(i) \in 0 .. n - 1 /\ from(i) # at /\ j = es[from(i)].key
      BY <1>2, <3>1
    <3>3. QED
      BY <1>0, <3>2 DEF Keys, Unique
  <2>3. QED
    BY <2>1, <2>2
<1>7. PICK f : /\ f = Reduced(MapOf(n, es), k)
               /\ f = [j \in Keys(n, es) \ {k} |-> MapOf(n, es)[j]]
  BY MapIs DEF Reduced
<1>8. \A i \in 0 .. (n - 1) - 1 : f[put[i].key] = put[i].value
  <2>1. SUFFICES ASSUME NEW i \in 0 .. n - 2 PROVE f[put[i].key] = put[i].value
    BY <1>1
  <2>2. from(i) \in 0 .. n - 1 /\ put[i] = es[from(i)]
    BY <1>2
  <2>3. MapOf(n, es)[es[from(i)].key] = es[from(i)].value
    BY <2>2, MapIs
  <2>4. put[i].key \in Keys(n - 1, put)
    BY <1>1 DEF Keys
  <2>5. QED
    BY <1>6, <1>7, <2>2, <2>3, <2>4
<1>9. f = [j \in Keys(n - 1, put) |-> f[j]]
  BY <1>6, <1>7
<1>10. f = MapOf(n - 1, put)
  <2>1. Describes(f, n - 1, put)
    BY <1>8, <1>9 DEF Describes
  <2>2. QED
    BY <1>1, <1>5, <2>1, MapIs
<1>11. QED
  BY <1>5, <1>6, <1>7, <1>10

LEMMA MapStarts ==
  ASSUME PM!PackedMapAssumption, PM!Init
  PROVE  MapInv /\ PM!Promise!AInit
<1>1. MapInv
  <2>1. \A i \in PM!Index : map_entries[i] = PM!Vacant
    BY DEF PM!Init
  <2>2. PM!TypeOK
    BY DEF PM!Init, PM!TypeOK, PM!PackedMapAssumption, PM!Vacant, PM!Entry
  <2>3. PM!KeysUnique /\ PM!RestIsBlank
    BY <2>1 DEF PM!Init, PM!KeysUnique, PM!RestIsBlank
  <2>4. QED
    BY <2>2, <2>3 DEF MapInv
<1>2. PM!Promise!AInit
  BY DEF PM!Init, PM!Promise!AInit, PM!Done
<1>3. QED
  BY <1>1, <1>2

\* The map the entries stand for, as the promise names it.
Mapping ==
  [k \in {map_entries[i].key : i \in 0 .. map_len - 1} |-> map_entries[PM!Find(k)].value]

LEMMA MappingIs == Mapping = MapOf(map_len, map_entries)
BY DEF Mapping, MapOf, Keys, First, Having, PM!Find, PM!Matches

LEMMA SameCardinality ==
  ASSUME NEW S PROVE PM!Promise!Cardinality(S) = Cardinality(S)
<1>1. \A T : PM!Promise!IsFiniteSet(T) = IsFiniteSet(T)
  BY DEF PM!Promise!IsFiniteSet, IsFiniteSet
<1>2. QED
  BY <1>1 DEF PM!Promise!Cardinality, Cardinality

\* What the promise looks at, in terms of the entries.
LEMMA PromiseReads ==
  ASSUME PM!PackedMapAssumption, MapInv
  PROVE  /\ PM!Promise!Cardinality(DOMAIN Mapping) = map_len
         /\ \A k : k \in DOMAIN Mapping <=> PM!Found(k)
         /\ \A k : PM!Found(k) => Mapping[k] = map_entries[PM!Find(k)].value
         /\ Mapping = MapOf(map_len, map_entries)
         /\ DOMAIN Mapping = Keys(map_len, map_entries)
<1>1. map_len \in Nat /\ Unique(map_len, map_entries)
  BY MapFacts
<1>2. DOMAIN Mapping = Keys(map_len, map_entries)
  BY <1>1, MappingIs, MapIs
<1>3. PM!Promise!Cardinality(DOMAIN Mapping) = map_len
  BY <1>1, <1>2, KeysCounted, SameCardinality
<1>4. QED
  BY <1>2, <1>3, MapFacts, MappingIs

LEMMA InsertMaps ==
  ASSUME PM!PackedMapAssumption, MapInv, NEW k \in MapKey, NEW v \in Value, PM!Insert(k, v)
  PROVE  MapInv' /\ PM!Promise!AInsert(k, v)
<1> DEFINE n == map_len
           es == map_entries
<1>1. /\ n \in Nat /\ n <= Capacity /\ Capacity \in Nat
      /\ es \in [0 .. Capacity - 1 -> PM!Entry] /\ Unique(n, es)
      /\ PM!Found(k) <=> k \in Keys(n, es)
      /\ PM!Found(k) => PM!Find(k) \in 0 .. n - 1 /\ es[PM!Find(k)].key = k
  BY MapFacts
<1>2. /\ PM!Promise!Cardinality(DOMAIN Mapping) = n
      /\ k \in DOMAIN Mapping <=> PM!Found(k)
      /\ Mapping = MapOf(n, es) /\ DOMAIN Mapping = Keys(n, es)
  BY PromiseReads
<1>5. CASE PM!Fits(k)
  <2> DEFINE e == [key |-> k, value |-> v]
             at == PM!Target(k)
             put == [es EXCEPT ![at] = e]
             m == IF at = n THEN n + 1 ELSE n
  <2>1. at \in 0 .. n /\ at < Capacity /\ (at # n => es[at].key = k)
        /\ (at = n <=> ~PM!Found(k))
    BY <1>1, <1>5 DEF PM!Target, PM!Fits
  <2>2. \A i \in 0 .. n - 1 : es[i].key = k => i = at
    BY <1>1, <2>1 DEF Unique, Keys
  <2>3. map_entries' = put /\ map_len' = m /\ map_reply' = PM!Done("insert", PM!Found(k))
    BY <1>5 DEF PM!Insert
  <2>4. m \in 0 .. Capacity /\ at \in 0 .. Capacity - 1
    BY <1>1, <2>1
  <2>5. \A i \in 0 .. Capacity - 1 : put[i] = IF i = at THEN e ELSE es[i]
    BY <1>1, <2>4
  <2>6. e \in PM!Entry /\ put \in [0 .. Capacity - 1 -> PM!Entry]
    BY <1>1, <2>4 DEF PM!Entry
  <2>7. e.key = k /\ e.value = v
    OBVIOUS
  <2>8. \A i \in 0 .. m - 1 : put[i] = IF i = at THEN e ELSE es[i]
    BY <2>4, <2>5
  <2> HIDE DEF e, at, put, m
  <2>9. m \in Nat /\ m = IF at = n THEN n + 1 ELSE n
    BY <2>4 DEF m
  <2>a. Puts(n, es, at, e, m, put)
    BY <2>1, <2>2, <2>7, <2>8, <2>9 DEF Puts
  <2>10. Unique(m, put) /\ MapOf(m, put) = Updated(MapOf(n, es), k, v)
    BY <1>1, <2>7, <2>a, PutEntry
  <2>11. \A i \in PM!Index : i >= m => put[i] = PM!Vacant
    <3>1. SUFFICES ASSUME NEW i \in 0 .. Capacity - 1, i >= m PROVE put[i] = PM!Vacant
      BY DEF PM!Index
    <3>2. i >= n /\ i # at
      BY <1>1, <2>1, <2>9, <3>1
    <3>3. es[i] = PM!Vacant
      BY <3>2 DEF MapInv, PM!RestIsBlank, PM!Index
    <3>4. QED
      BY <2>5, <3>2, <3>3
  <2>12. MapInv'
    BY <2>3, <2>4, <2>6, <2>10, <2>11
       DEF MapInv, PM!TypeOK, PM!KeysUnique, PM!RestIsBlank, PM!Index, PM!Entry, PM!Vacant, Unique
  <2>13. Mapping' = MapOf(m, put)
    BY <2>3, MappingIs DEF Mapping, MapOf, Keys, First, Having, PM!Find, PM!Matches
  <2>14. Mapping' = Updated(Mapping, k, v)
    BY <1>2, <2>10, <2>13
  <2>15. k \in DOMAIN Mapping \/ PM!Promise!Cardinality(DOMAIN Mapping) < Capacity
    BY <1>1, <1>2, <2>1
  <2>16. map_reply' = PM!Promise!Done("insert", k \in DOMAIN Mapping)
    <3>1. (k \in DOMAIN Mapping) = PM!Found(k)
      BY <1>2 DEF PM!Found
    <3>2. QED
      BY <2>3, <3>1 DEF PM!Done, PM!Promise!Done
  <2>17. PM!Promise!AInsert(k, v)
    BY <2>14, <2>15, <2>16 DEF PM!Promise!AInsert, PM!Promise!With, Mapping, Updated
  <2>18. QED
    BY <2>12, <2>17
<1>6. CASE ~PM!Fits(k)
  <2>1. ~PM!Found(k) /\ n = Capacity
    BY <1>1, <1>6 DEF PM!Fits, PM!Target
  <2>2. map_reply' = PM!Refused("insert") /\ UNCHANGED <<map_len, map_entries>>
    BY <1>6 DEF PM!Insert
  <2>3. MapInv'
    BY <2>2 DEF MapInv, PM!TypeOK, PM!KeysUnique, PM!RestIsBlank, PM!Index, PM!Entry, PM!Vacant
  <2>4. /\ ~(k \in DOMAIN Mapping \/ PM!Promise!Cardinality(DOMAIN Mapping) < Capacity)
        /\ Mapping' = Mapping /\ map_reply' = PM!Promise!Refused("insert")
    BY <1>1, <1>2, <2>1, <2>2
       DEF Mapping, PM!Find, PM!Matches, PM!Refused, PM!Promise!Refused
  <2>5. PM!Promise!AInsert(k, v)
    BY <2>4 DEF PM!Promise!AInsert, Mapping
  <2>6. QED
    BY <2>3, <2>5
<1>7. QED
  BY <1>5, <1>6

LEMMA RemoveMaps ==
  ASSUME PM!PackedMapAssumption, MapInv, NEW k \in MapKey, PM!Remove(k)
  PROVE  MapInv' /\ PM!Promise!ARemove(k)
<1> DEFINE n == map_len
           es == map_entries
<1>1. /\ n \in Nat /\ n <= Capacity /\ Capacity \in Nat
      /\ es \in [0 .. Capacity - 1 -> PM!Entry] /\ Unique(n, es)
      /\ PM!Found(k) => PM!Find(k) \in 0 .. n - 1 /\ es[PM!Find(k)].key = k
  BY MapFacts
<1>2. /\ k \in DOMAIN Mapping <=> PM!Found(k)
      /\ PM!Found(k) => Mapping[k] = es[PM!Find(k)].value
      /\ Mapping = MapOf(n, es)
  BY PromiseReads
<1>3. CASE PM!Found(k)
  <2> DEFINE at == PM!Find(k)
             put == PM!EntriesWithout(at)
  <2>1. /\ map_entries' = put /\ map_len' = n - 1
        /\ map_reply' = PM!Done("remove", es[at].value)
    BY <1>3 DEF PM!Remove
  <2>2. at \in 0 .. n - 1 /\ es[at].key = k /\ n \in Nat \ {0}
    BY <1>1, <1>3
  <2>3. \A i \in 0 .. Capacity - 1 :
          put[i] = IF i = n - 1 THEN PM!Vacant ELSE IF i = at THEN es[n - 1] ELSE es[i]
    <3>1. at \in 0 .. Capacity - 1 /\ n - 1 \in 0 .. Capacity - 1
      BY <1>1, <2>2
    <3>2. QED
      BY <1>1, <3>1 DEF PM!EntriesWithout
  <2>4. put \in [0 .. Capacity - 1 -> PM!Entry]
    <3>1. PM!Vacant \in PM!Entry /\ n - 1 \in 0 .. Capacity - 1
      BY <1>1, <2>2 DEF PM!PackedMapAssumption, PM!Vacant, PM!Entry
    <3>2. QED
      BY <1>1, <3>1 DEF PM!EntriesWithout
  <2> HIDE DEF at, put
  <2>5. \A i \in 0 .. n - 2 : put[i] = IF i = at THEN es[n - 1] ELSE es[i]
    BY <1>1, <2>2, <2>3
  <2>6. Unique(n - 1, put) /\ MapOf(n - 1, put) = Reduced(MapOf(n, es), k)
    <3>1. Drops(n, es, at, k, put)
      BY <2>2, <2>5 DEF Drops
    <3>2. QED
      BY <1>1, <2>2, <3>1, DropEntry
  <2>7. \A i \in PM!Index : i >= n - 1 => put[i] = PM!Vacant
    <3>1. SUFFICES ASSUME NEW i \in 0 .. Capacity - 1, i >= n - 1 PROVE put[i] = PM!Vacant
      BY DEF PM!Index
    <3>2. CASE i = n - 1
      BY <2>3, <3>2
    <3>3. CASE i # n - 1
      <4>1. i >= n /\ i # at
        BY <1>1, <2>2, <3>1, <3>3
      <4>2. es[i] = PM!Vacant
        BY <4>1 DEF MapInv, PM!RestIsBlank, PM!Index
      <4>3. QED
        BY <2>3, <3>3, <4>1, <4>2
    <3>4. QED
      BY <3>2, <3>3
  <2>8. n - 1 \in 0 .. Capacity
    BY <1>1, <2>2
  <2>9. MapInv'
    BY <2>1, <2>4, <2>6, <2>7, <2>8
       DEF MapInv, PM!TypeOK, PM!KeysUnique, PM!RestIsBlank, PM!Index, PM!Entry, PM!Vacant, Unique
  <2>10. Mapping' = MapOf(n - 1, put)
    BY <2>1 DEF Mapping, MapOf, Keys, First, Having, PM!Find, PM!Matches
  <2>11. Mapping' = Reduced(Mapping, k)
    BY <1>2, <2>6, <2>10
  <2>12. k \in DOMAIN Mapping /\ map_reply' = PM!Promise!Done("remove", Mapping[k])
    BY <1>2, <1>3, <2>1 DEF PM!Done, PM!Promise!Done, at
  <2>13. PM!Promise!ARemove(k)
    BY <2>11, <2>12 DEF PM!Promise!ARemove, Mapping, Reduced
  <2>14. QED
    BY <2>9, <2>13
<1>4. CASE ~PM!Found(k)
  <2>1. map_reply' = PM!Refused("remove") /\ UNCHANGED <<map_len, map_entries>>
    BY <1>4 DEF PM!Remove
  <2>2. MapInv'
    BY <2>1 DEF MapInv, PM!TypeOK, PM!KeysUnique, PM!RestIsBlank, PM!Index, PM!Entry, PM!Vacant
  <2>3. k \notin DOMAIN Mapping /\ Mapping' = Mapping /\ map_reply' = PM!Promise!Refused("remove")
    BY <1>2, <1>4, <2>1 DEF Mapping, PM!Find, PM!Matches, PM!Refused, PM!Promise!Refused
  <2>4. PM!Promise!ARemove(k)
    BY <2>3 DEF PM!Promise!ARemove, Mapping
  <2>5. QED
    BY <2>2, <2>4
<1>5. QED
  BY <1>3, <1>4

LEMMA SetMaps ==
  ASSUME PM!PackedMapAssumption, MapInv, NEW k \in MapKey, NEW v \in Value, PM!SetValue(k, v)
  PROVE  MapInv' /\ PM!Promise!ASet(k, v)
<1> DEFINE n == map_len
           es == map_entries
<1>1. /\ n \in Nat /\ n <= Capacity /\ Capacity \in Nat
      /\ es \in [0 .. Capacity - 1 -> PM!Entry] /\ Unique(n, es)
      /\ PM!Found(k) => PM!Find(k) \in 0 .. n - 1 /\ es[PM!Find(k)].key = k
  BY MapFacts
<1>2. (k \in DOMAIN Mapping <=> PM!Found(k)) /\ Mapping = MapOf(n, es)
  BY PromiseReads
<1>3. CASE PM!Found(k)
  <2> DEFINE at == PM!Find(k)
             e == [es[at] EXCEPT !.value = v]
             put == [es EXCEPT ![at] = e]
  <2>1. map_entries' = put /\ map_len' = n /\ map_reply' = PM!Done("set", k)
    BY <1>3 DEF PM!SetValue
  <2>2. at \in 0 .. n - 1 /\ es[at].key = k /\ at \in 0 .. Capacity - 1
    BY <1>1, <1>3
  <2>3. e = [key |-> k, value |-> v] /\ e \in PM!Entry
    <3>1. es[at] \in PM!Entry
      BY <1>1, <2>2
    <3>2. QED
      BY <2>2, <3>1 DEF PM!Entry
  <2>4. \A i \in 0 .. Capacity - 1 : put[i] = IF i = at THEN e ELSE es[i]
    BY <1>1, <2>2
  <2>5. put \in [0 .. Capacity - 1 -> PM!Entry]
    BY <1>1, <2>2, <2>3
  <2>6. e.key = k /\ e.value = v
    BY <2>3
  <2> HIDE DEF at, e, put
  <2>7. Puts(n, es, at, e, n, put)
    BY <1>1, <2>2, <2>4, <2>6 DEF Puts, Unique
  <2>8. Unique(n, put) /\ MapOf(n, put) = Updated(MapOf(n, es), k, v)
    BY <1>1, <2>6, <2>7, PutEntry
  <2>9. \A i \in PM!Index : i >= n => put[i] = PM!Vacant
    BY <1>1, <2>2, <2>4 DEF MapInv, PM!RestIsBlank, PM!Index
  <2>10. MapInv'
    BY <1>1, <2>1, <2>5, <2>8, <2>9
       DEF MapInv, PM!TypeOK, PM!KeysUnique, PM!RestIsBlank, PM!Index, PM!Entry, PM!Vacant, Unique
  <2>11. Mapping' = MapOf(n, put)
    BY <2>1 DEF Mapping, MapOf, Keys, First, Having, PM!Find, PM!Matches
  <2>12. Mapping' = Updated(Mapping, k, v)
    BY <1>2, <2>8, <2>11
  <2>13. k \in DOMAIN Mapping /\ map_reply' = PM!Promise!Done("set", k)
    BY <1>2, <1>3, <2>1 DEF PM!Done, PM!Promise!Done
  <2>14. PM!Promise!ASet(k, v)
    BY <2>12, <2>13 DEF PM!Promise!ASet, PM!Promise!With, Mapping, Updated
  <2>15. QED
    BY <2>10, <2>14
<1>4. CASE ~PM!Found(k)
  <2>1. map_reply' = PM!Refused("set") /\ UNCHANGED <<map_len, map_entries>>
    BY <1>4 DEF PM!SetValue
  <2>2. MapInv'
    BY <2>1 DEF MapInv, PM!TypeOK, PM!KeysUnique, PM!RestIsBlank, PM!Index, PM!Entry, PM!Vacant
  <2>3. k \notin DOMAIN Mapping /\ Mapping' = Mapping /\ map_reply' = PM!Promise!Refused("set")
    BY <1>2, <1>4, <2>1 DEF Mapping, PM!Find, PM!Matches, PM!Refused, PM!Promise!Refused
  <2>4. PM!Promise!ASet(k, v)
    BY <2>3 DEF PM!Promise!ASet, Mapping
  <2>5. QED
    BY <2>2, <2>4
<1>5. QED
  BY <1>3, <1>4

LEMMA GetMaps ==
  ASSUME PM!PackedMapAssumption, MapInv, NEW k \in MapKey, PM!Get(k)
  PROVE  MapInv' /\ PM!Promise!AGet(k)
<1>1. /\ map_reply' = IF PM!Found(k) THEN PM!Done("get", map_entries[PM!Find(k)].value)
                                     ELSE PM!Refused("get")
      /\ UNCHANGED <<map_len, map_entries>>
  BY DEF PM!Get
<1>2. MapInv'
  BY <1>1 DEF MapInv, PM!TypeOK, PM!KeysUnique, PM!RestIsBlank, PM!Index, PM!Entry, PM!Vacant
<1>3. /\ k \in DOMAIN Mapping <=> PM!Found(k)
      /\ PM!Found(k) => Mapping[k] = map_entries[PM!Find(k)].value
  BY PromiseReads
<1>4. /\ map_reply' = IF k \in DOMAIN Mapping THEN PM!Promise!Done("get", Mapping[k])
                                              ELSE PM!Promise!Refused("get")
      /\ Mapping' = Mapping
  BY <1>1, <1>3
     DEF Mapping, PM!Find, PM!Matches, PM!Done, PM!Refused, PM!Promise!Done, PM!Promise!Refused
<1>5. PM!Promise!AGet(k)
  BY <1>4 DEF PM!Promise!AGet, Mapping
<1>6. QED
  BY <1>2, <1>5

LEMMA ClearMaps ==
  ASSUME PM!PackedMapAssumption, MapInv, PM!Clear
  PROVE  MapInv' /\ PM!Promise!AClear
<1>1. /\ map_entries' = [i \in 0 .. Capacity - 1 |-> IF i < map_len THEN PM!Vacant
                                                     ELSE map_entries[i]]
      /\ map_len' = 0 /\ map_reply' = PM!Done("clear", 0)
  BY DEF PM!Clear, PM!Index
<1>2. /\ map_len \in Nat /\ Capacity \in Nat /\ PM!Vacant \in PM!Entry
      /\ map_entries \in [0 .. Capacity - 1 -> PM!Entry]
  BY MapFacts DEF PM!PackedMapAssumption, PM!Vacant, PM!Entry
<1>3. \A i \in 0 .. Capacity - 1 : map_entries'[i] = PM!Vacant
  <2>1. \A i \in 0 .. Capacity - 1 : i >= map_len => map_entries[i] = PM!Vacant
    BY DEF MapInv, PM!RestIsBlank, PM!Index
  <2>2. QED
    BY <1>1, <1>2, <2>1
<1>4. MapInv'
  BY <1>1, <1>2, <1>3
     DEF MapInv, PM!TypeOK, PM!KeysUnique, PM!RestIsBlank, PM!Index, PM!Entry, PM!Vacant
<1>5. Mapping' \in [{} -> Value]
  <2>1. 0 .. map_len' - 1 = {}
    BY <1>1
  <2>2. {map_entries'[i].key : i \in 0 .. map_len' - 1} = {}
    BY <2>1
  <2>3. QED
    BY <2>2 DEF Mapping
<1>6. PM!Promise!AClear
  BY <1>1, <1>5 DEF PM!Promise!AClear, Mapping, PM!Done, PM!Promise!Done
<1>7. QED
  BY <1>4, <1>6

LEMMA MapStep ==
  ASSUME PM!PackedMapAssumption
  PROVE  MapInv /\ [PM!Next]_(PM!vars) => MapInv' /\ [PM!Promise!ANext]_(PM!Promise!avars)
<1>1. SUFFICES ASSUME MapInv, [PM!Next]_(PM!vars)
               PROVE  MapInv' /\ [PM!Promise!ANext]_(PM!Promise!avars)
  OBVIOUS
<1>2. CASE \E k \in MapKey, v \in Value : PM!Insert(k, v) \/ PM!SetValue(k, v)
  BY <1>1, <1>2, InsertMaps, SetMaps DEF PM!Promise!ANext
<1>3. CASE \E k \in MapKey : PM!Remove(k) \/ PM!Get(k)
  BY <1>1, <1>3, RemoveMaps, GetMaps DEF PM!Promise!ANext
<1>4. CASE PM!Clear
  BY <1>1, <1>4, ClearMaps DEF PM!Promise!ANext
<1>5. CASE UNCHANGED PM!vars
  <2>1. UNCHANGED <<map_len, map_entries, map_reply>>
    BY <1>5 DEF PM!vars
  <2>2. MapInv'
    BY <1>1, <2>1 DEF MapInv, PM!TypeOK, PM!KeysUnique, PM!RestIsBlank, PM!Index,
                      PM!Entry, PM!Vacant
  <2>3. UNCHANGED PM!Promise!avars
    BY <2>1 DEF PM!Promise!avars, PM!Find, PM!Matches
  <2>4. QED
    BY <2>2, <2>3
<1>6. QED
  BY <1>1, <1>2, <1>3, <1>4, <1>5 DEF PM!Next

\* Keys are unique in every packed map, and no byte of a removed entry stays behind
\* the last one (PackedMap::insert, PackedMap::remove).
THEOREM MapsKeepUniqueKeys ==
  ASSUME PM!PackedMapAssumption
  PROVE  PM!Spec => [](PM!TypeOK /\ PM!KeysUnique /\ PM!RestIsBlank)
<1>1. PM!Init => MapInv
  BY MapStarts
<1>2. MapInv /\ [PM!Next]_(PM!vars) => MapInv'
  BY MapStep
<1>3. MapInv => PM!TypeOK /\ PM!KeysUnique /\ PM!RestIsBlank
  BY DEF MapInv
<1>4. QED
  BY <1>1, <1>2, <1>3, PTL DEF PM!Spec

\* The packed map is a map of at most Capacity keys: swap-removes and updates of a
\* full map lose, duplicate or mix up no entry, the zero key's included
\* (collections/packed_map.rs).
THEOREM EntriesImplementMap ==
  ASSUME PM!PackedMapAssumption
  PROVE  PM!Spec => PM!ImplementsMap
<1>1. PM!Init => MapInv /\ PM!Promise!AInit
  BY MapStarts
<1>2. MapInv /\ [PM!Next]_(PM!vars) => MapInv' /\ [PM!Promise!ANext]_(PM!Promise!avars)
  BY MapStep
<1>3. QED
  BY <1>1, <1>2, PTL DEF PM!Spec, PM!ImplementsMap, PM!Promise!ASpec

-----------------------------------------------------------------------------
(* The slab *)

CONSTANTS Capacities, NO_FREE, Word, Rest
VARIABLES slab_capacity, slab_count, slab_head, slab_allocated, slab_slots, slab_reply

SB == INSTANCE Slab WITH
  capacity <- slab_capacity, count <- slab_count, free_head <- slab_head,
  allocated <- slab_allocated, slots <- slab_slots, reply <- slab_reply

\* The slots f[0], f[1], ... are those of a set, each once; from the head on each
\* holds the next one's index.
Threads(f, n, head, cells, free) ==
  /\ f \in [0 .. n - 1 -> free]
  /\ \A i, j \in 0 .. n - 1 : f[i] = f[j] => i = j
  /\ \A s \in free : \E i \in 0 .. n - 1 : f[i] = s
  /\ head = IF n = 0 THEN NO_FREE ELSE f[0]
  /\ \A i \in 0 .. n - 1 : cells[f[i]].first = IF i = n - 1 THEN NO_FREE ELSE f[i + 1]

Threaded(head, cells, free) == \E n \in Nat : \E f : Threads(f, n, head, cells, free)

SlabFree == SB!Index \ slab_allocated

SlabInv ==
  /\ SB!TypeOK /\ SB!FreedAreBlank
  /\ slab_count = Cardinality(slab_allocated)
  /\ slab_capacity = 0 => slab_head = 0
  /\ slab_capacity > 0 => Threaded(slab_head, slab_slots, SlabFree)

\* The head is free unless nothing is.
LEMMA ThreadEnds ==
  ASSUME NEW head, NEW cells, NEW free, NO_FREE \notin free, Threaded(head, cells, free)
  PROVE  IF free = {} THEN head = NO_FREE ELSE head \in free
<1>1. PICK n \in Nat : \E f : Threads(f, n, head, cells, free)
  BY DEF Threaded
<1>2. PICK f : Threads(f, n, head, cells, free)
  BY <1>1
<1>3. CASE n = 0
  <2>1. 0 .. n - 1 = {}
    BY <1>3
  <2>2. QED
    BY <1>2, <1>3, <2>1 DEF Threads
<1>4. CASE n # 0
  <2>1. 0 \in 0 .. n - 1
    BY <1>4
  <2>2. QED
    BY <1>2, <1>4, <2>1 DEF Threads
<1>5. QED
  BY <1>3, <1>4

\* What the list does not thread may be written.
LEMMA ThreadKept ==
  ASSUME NEW head, NEW cells, NEW others, NEW free, Threaded(head, cells, free),
         \A s \in free : others[s].first = cells[s].first
  PROVE  Threaded(head, others, free)
<1>1. PICK n \in Nat : \E f : Threads(f, n, head, cells, free)
  BY DEF Threaded
<1>2. PICK f : Threads(f, n, head, cells, free)
  BY <1>1
<1>3. Threads(f, n, head, others, free)
  BY <1>2 DEF Threads
<1>4. QED
  BY <1>3 DEF Threaded

\* Without its head the list starts at the link the head held.
LEMMA ThreadTaken ==
  ASSUME NEW head, NEW cells, NEW others, NEW free, Threaded(head, cells, free),
         head \in free, NO_FREE \notin free,
         \A s \in free \ {head} : others[s].first = cells[s].first
  PROVE  Threaded(cells[head].first, others, free \ {head})
<1>1. PICK n \in Nat : \E f : Threads(f, n, head, cells, free)
  BY DEF Threaded
<1>2. PICK f : Threads(f, n, head, cells, free)
  BY <1>1
<1>3. n # 0 /\ head = f[0] /\ n - 1 \in Nat /\ 0 \in 0 .. n - 1
  BY <1>2 DEF Threads
<1>4. PICK g : g = [i \in 0 .. (n - 1) - 1 |-> f[i + 1]]
  OBVIOUS
<1>5. \A i \in 0 .. (n - 1) - 1 : i + 1 \in 0 .. n - 1 /\ i + 1 # 0 /\ g[i] = f[i + 1]
  BY <1>3, <1>4
<1>6. g \in [0 .. (n - 1) - 1 -> free \ {head}]
  BY <1>2, <1>3, <1>4, <1>5 DEF Threads
<1>7. \A i, j \in 0 .. (n - 1) - 1 : g[i] = g[j] => i = j
  BY <1>2, <1>5 DEF Threads
<1>8. ASSUME NEW s \in free \ {head} PROVE \E i \in 0 .. (n - 1) - 1 : g[i] = s
  <2>1. PICK j \in 0 .. n - 1 : f[j] = s
    BY <1>2 DEF Threads
  <2>2. j # 0
    BY <1>3, <2>1
  <2>3. j - 1 \in 0 .. (n - 1) - 1 /\ (j - 1) + 1 = j
    BY <1>3, <2>2
  <2>4. QED
    BY <1>5, <2>1, <2>3
<1>9. cells[head].first = IF n - 1 = 0 THEN NO_FREE ELSE g[0]
  <2>1. cells[f[0]].first = IF 0 = n - 1 THEN NO_FREE ELSE f[0 + 1]
    BY <1>2, <1>3 DEF Threads
  <2>2. n - 1 # 0 => 0 \in 0 .. (n - 1) - 1
    BY <1>3
  <2>3. n - 1 # 0 => g[0] = f[0 + 1]
    BY <1>5, <2>2
  <2>4. QED
    BY <1>3, <2>1, <2>3
<1>10. ASSUME NEW i \in 0 .. (n - 1) - 1
       PROVE  others[g[i]].first = IF i = (n - 1) - 1 THEN NO_FREE ELSE g[i + 1]
  <2>1. others[g[i]].first = cells[f[i + 1]].first
    BY <1>5, <1>6
  <2>2. cells[f[i + 1]].first = IF i + 1 = n - 1 THEN NO_FREE ELSE f[(i + 1) + 1]
    BY <1>2, <1>5 DEF Threads
  <2>3. CASE i + 1 = n - 1
    BY <2>1, <2>2, <2>3
  <2>4. CASE i + 1 # n - 1
    <3>1. i + 1 \in 0 .. (n - 1) - 1 /\ i # (n - 1) - 1
      BY <2>4
    <3>2. g[i + 1] = f[(i + 1) + 1]
      BY <1>5, <3>1
    <3>3. QED
      BY <2>1, <2>2, <2>4, <3>1, <3>2
  <2>5. QED
    BY <2>3, <2>4
<1>11. Threads(g, n - 1, cells[head].first, others, free \ {head})
  BY <1>6, <1>7, <1>8, <1>9, <1>10 DEF Threads
<1>12. QED
  BY <1>3, <1>11 DEF Threaded

\* A slot that holds the old head is the head of the longer list.
LEMMA ThreadGiven ==
  ASSUME NEW head, NEW cells, NEW others, NEW free, Threaded(head, cells, free),
         NEW s, s \notin free, others[s].first = head,
         \A t \in free : others[t].first = cells[t].first
  PROVE  Threaded(s, others, free \cup {s})
<1>1. PICK n \in Nat : \E f : Threads(f, n, head, cells, free)
  BY DEF Threaded
<1>2. PICK f : Threads(f, n, head, cells, free)
  BY <1>1
<1>3. PICK g : g = [i \in 0 .. (n + 1) - 1 |-> IF i = 0 THEN s ELSE f[i - 1]]
  OBVIOUS
<1>4. /\ 0 \in 0 .. (n + 1) - 1 /\ g[0] = s /\ n + 1 \in Nat /\ n + 1 # 0
      /\ \A i \in 0 .. (n + 1) - 1 : i # 0 => i - 1 \in 0 .. n - 1 /\ g[i] = f[i - 1]
  BY <1>3
<1>5. \A i \in 0 .. n - 1 : f[i] \in free
  BY <1>2 DEF Threads
<1>6. g \in [0 .. (n + 1) - 1 -> free \cup {s}]
  BY <1>3, <1>4, <1>5
<1>7. ASSUME NEW i \in 0 .. (n + 1) - 1, NEW j \in 0 .. (n + 1) - 1, g[i] = g[j] PROVE i = j
  <2>1. CASE i = 0 \/ j = 0
    BY <1>4, <1>5, <1>7, <2>1
  <2>2. CASE i # 0 /\ j # 0
    <3>1. f[i - 1] = f[j - 1] /\ i - 1 \in 0 .. n - 1 /\ j - 1 \in 0 .. n - 1
      BY <1>4, <1>7, <2>2
    <3>2. i - 1 = j - 1
      BY <1>2, <3>1 DEF Threads
    <3>3. QED
      BY <3>2
  <2>3. QED
    BY <2>1, <2>2
<1>8. ASSUME NEW t \in free \cup {s} PROVE \E i \in 0 .. (n + 1) - 1 : g[i] = t
  <2>1. CASE t = s
    BY <1>4, <2>1
  <2>2. CASE t \in free
    <3>1. PICK i \in 0 .. n - 1 : f[i] = t
      BY <1>2, <2>2 DEF Threads
    <3>2. i + 1 \in 0 .. (n + 1) - 1 /\ i + 1 # 0 /\ (i + 1) - 1 = i
      OBVIOUS
    <3>3. QED
      BY <1>4, <3>1, <3>2
  <2>3. QED
    BY <2>1, <2>2
<1>9. ASSUME NEW i \in 0 .. (n + 1) - 1
      PROVE  others[g[i]].first = IF i = (n + 1) - 1 THEN NO_FREE ELSE g[i + 1]
  <2>1. CASE i = 0
    <3>1. others[g[i]].first = IF n = 0 THEN NO_FREE ELSE f[0]
      BY <1>2, <1>4, <2>1 DEF Threads
    <3>2. n # 0 => 1 \in 0 .. (n + 1) - 1 /\ i + 1 = 1 /\ 1 - 1 = 0
      BY <2>1
    <3>3. n # 0 => g[i + 1] = f[0]
      BY <1>4, <3>2
    <3>4. QED
      BY <2>1, <3>1, <3>3
  <2>2. CASE i # 0
    <3>1. i - 1 \in 0 .. n - 1 /\ g[i] = f[i - 1] /\ (i - 1) + 1 = i
      BY <1>4, <2>2
    <3>2. others[g[i]].first = IF i - 1 = n - 1 THEN NO_FREE ELSE f[i]
      BY <1>2, <1>5, <3>1 DEF Threads
    <3>3. i # (n + 1) - 1 => g[i + 1] = f[i]
      <4>1. i # (n + 1) - 1 => i + 1 \in 0 .. (n + 1) - 1 /\ i + 1 # 0 /\ (i + 1) - 1 = i
        OBVIOUS
      <4>2. QED
        BY <1>4, <4>1
    <3>4. QED
      BY <3>2, <3>3
  <2>3. QED
    BY <2>1, <2>2
<1>10. Threads(g, n + 1, s, others, free \cup {s})
  BY <1>4, <1>6, <1>7, <1>8, <1>9 DEF Threads
<1>11. QED
  BY <1>4, <1>10 DEF Threaded

\* The store, as the promise names it.
Store == [i \in slab_allocated |-> slab_slots[i]]

LEMMA SlabFacts ==
  ASSUME SB!SlabAssumption, SlabInv
  PROVE  /\ slab_capacity \in Nat /\ SB!Index = 0 .. slab_capacity - 1
         /\ IsFiniteSet(SB!Index) /\ Cardinality(SB!Index) = slab_capacity
         /\ slab_allocated \subseteq SB!Index /\ IsFiniteSet(slab_allocated)
         /\ slab_count \in Nat /\ slab_count <= slab_capacity
         /\ slab_slots \in [SB!Index -> [first : Nat, rest : Rest]]
         /\ NO_FREE \in Nat /\ NO_FREE \notin SB!Index
<1>1. slab_capacity \in Nat /\ slab_capacity < NO_FREE /\ NO_FREE \in Nat
  BY DEF SB!SlabAssumption, SlabInv, SB!TypeOK
<1>2. SB!Index = 0 .. slab_capacity - 1
  BY DEF SB!Index, SB!Promise!Index
<1>3. IsFiniteSet(SB!Index) /\ Cardinality(SB!Index) = slab_capacity
  BY <1>1, <1>2, FS_Interval
<1>4. slab_allocated \subseteq SB!Index
  BY DEF SlabInv, SB!TypeOK
<1>5. /\ IsFiniteSet(slab_allocated)
      /\ Cardinality(slab_allocated) <= Cardinality(SB!Index)
  BY <1>3, <1>4, FS_Subset
<1>6. slab_count \in Nat /\ slab_count <= slab_capacity
  BY <1>3, <1>5, FS_CardinalityType DEF SlabInv
<1>7. NO_FREE \notin SB!Index
  BY <1>1, <1>2
<1>8. QED
  BY <1>1, <1>2, <1>3, <1>4, <1>5, <1>6, <1>7 DEF SlabInv, SB!TypeOK

LEMMA SlabStarts ==
  ASSUME SB!SlabAssumption, SB!Init
  PROVE  SlabInv /\ SB!Promise!AInit
<1>1. /\ slab_capacity \in Nat /\ slab_capacity < NO_FREE /\ NO_FREE \in Nat /\ 0 \in Rest
      /\ slab_count = 0 /\ slab_head = 0 /\ slab_allocated = {}
      /\ slab_capacity \in Capacities
      /\ SB!Index = 0 .. slab_capacity - 1 /\ SlabFree = SB!Index
  BY DEF SB!SlabAssumption, SB!Init, SB!Index, SB!Promise!Index, SlabFree
<1>2. /\ slab_slots \in [SB!Index -> [first : Nat, rest : Rest]]
      /\ \A i \in SB!Index : /\ slab_slots[i].rest = 0
                             /\ slab_slots[i].first =
                                  IF i + 1 < slab_capacity THEN i + 1 ELSE NO_FREE
  BY <1>1 DEF SB!Init, SB!InitialLink
<1>3. slab_capacity > 0 => Threaded(slab_head, slab_slots, SlabFree)
  <2>1. SUFFICES ASSUME slab_capacity > 0 PROVE Threaded(slab_head, slab_slots, SlabFree)
    OBVIOUS
  <2>2. PICK f : f = [i \in 0 .. slab_capacity - 1 |-> i]
    OBVIOUS
  <2>3. Threads(f, slab_capacity, slab_head, slab_slots, SlabFree)
    BY <1>1, <1>2, <2>1, <2>2 DEF Threads
  <2>4. QED
    BY <1>1, <2>3 DEF Threaded
<1>4. SB!TypeOK /\ SB!FreedAreBlank
  BY <1>1, <1>2 DEF SB!TypeOK, SB!FreedAreBlank
<1>5. slab_count = Cardinality(slab_allocated)
  BY <1>1, FS_EmptySet
<1>6. SlabInv
  BY <1>1, <1>3, <1>4, <1>5 DEF SlabInv
<1>7. Store = <<>>
  BY <1>1 DEF Store
<1>8. SB!Promise!AInit
  BY <1>1, <1>7 DEF SB!Init, SB!Promise!AInit, SB!Done, Store
<1>9. QED
  BY <1>6, <1>8

LEMMA AllocKeeps ==
  ASSUME SB!SlabAssumption, SlabInv, NEW v \in SB!Payload, SB!Alloc(v)
  PROVE  SlabInv' /\ SB!Promise!AAlloc(v) /\ UNCHANGED slab_capacity
<1>1. /\ slab_capacity \in Nat /\ SB!Index = 0 .. slab_capacity - 1
      /\ slab_allocated \subseteq SB!Index /\ IsFiniteSet(slab_allocated)
      /\ slab_count \in Nat /\ NO_FREE \in Nat /\ NO_FREE \notin SB!Index
      /\ slab_slots \in [SB!Index -> [first : Nat, rest : Rest]]
  BY SlabFacts
<1>2. slab_capacity' = slab_capacity /\ SB!Index' = SB!Index
  BY DEF SB!Alloc, SB!Index, SB!Promise!Index
<1>3. CASE SB!AllocError = "None"
  <2> DEFINE h == slab_head
  <2>1. h \in SlabFree /\ h \in SB!Index /\ slab_capacity > 0
    <3>1. h # NO_FREE /\ ~(h >= slab_capacity) /\ ~SB!Allocated(h)
      BY <1>3 DEF SB!AllocError
    <3>2. h \in Nat
      BY <1>1 DEF SlabInv, SB!TypeOK
    <3>3. QED
      BY <1>1, <3>1, <3>2 DEF SB!Allocated, SlabFree
  <2>2. /\ slab_slots' = [slab_slots EXCEPT ![h] = v]
        /\ slab_allocated' = slab_allocated \cup {h}
        /\ slab_head' = slab_slots[h].first /\ slab_count' = slab_count + 1
        /\ slab_reply' = SB!Done("alloc", h)
    BY <1>3 DEF SB!Alloc, SB!NextFree
  <2>3. SlabFree' = SlabFree \ {h}
    BY <1>2, <2>2 DEF SlabFree
  <2>4. v \in [first : Nat, rest : Rest]
    BY DEF SB!Payload, SB!SlabAssumption
  <2>5. /\ slab_slots' \in [SB!Index -> [first : Nat, rest : Rest]]
        /\ \A i \in SB!Index : slab_slots'[i] = IF i = h THEN v ELSE slab_slots[i]
    BY <1>1, <2>1, <2>2, <2>4
  <2> HIDE DEF h
  <2>6. Threaded(slab_head', slab_slots', SlabFree')
    <3>1. Threaded(h, slab_slots, SlabFree) /\ NO_FREE \notin SlabFree
      BY <1>1, <2>1 DEF SlabInv, h, SlabFree
    <3>2. \A s \in SlabFree \ {h} : slab_slots'[s].first = slab_slots[s].first
      BY <2>5 DEF SlabFree
    <3>3. Threaded(slab_slots[h].first, slab_slots', SlabFree \ {h})
      BY <2>1, <3>1, <3>2, ThreadTaken
    <3>4. QED
      BY <2>2, <2>3, <3>3
  <2>7. slab_count' = Cardinality(slab_allocated')
    BY <1>1, <2>1, <2>2, FS_AddElement DEF SlabInv, SlabFree
  <2>8. slab_head' \in SB!Index \cup {0, NO_FREE}
    <3>1. NO_FREE \notin SlabFree'
      BY <1>1, <2>3 DEF SlabFree
    <3>2. IF SlabFree' = {} THEN slab_head' = NO_FREE ELSE slab_head' \in SlabFree'
      BY <2>6, <3>1, ThreadEnds
    <3>3. SlabFree' \subseteq SB!Index
      BY <2>3 DEF SlabFree
    <3>4. QED
      BY <3>2, <3>3
  <2>9. SB!TypeOK'
    <3>1. slab_capacity' \in Capacities /\ slab_count' \in Nat
      BY <1>1, <1>2, <2>2 DEF SlabInv, SB!TypeOK
    <3>2. slab_allocated' \subseteq SB!Index'
      BY <1>1, <1>2, <2>1, <2>2
    <3>3. QED
      BY <1>2, <2>5, <2>8, <3>1, <3>2 DEF SB!TypeOK
  <2>10. SB!FreedAreBlank'
    BY <1>2, <2>2, <2>5 DEF SlabInv, SB!FreedAreBlank
  <2>11. SlabInv'
    BY <1>2, <2>1, <2>6, <2>7, <2>9, <2>10 DEF SlabInv
  <2>12. Store' = SB!Promise!With(h, v)
    <3>1. Store' = [j \in slab_allocated \cup {h} |-> IF j = h THEN v ELSE slab_slots[j]]
      BY <1>1, <2>1, <2>2, <2>5 DEF Store
    <3>2. QED
      BY <3>1 DEF Store, SB!Promise!With
  <2>13. h \in SB!Promise!Index \ DOMAIN Store /\ slab_reply' = SB!Promise!Done("alloc", h)
    BY <2>1, <2>2 DEF Store, SlabFree, SB!Index, SB!Done
  <2>14. SB!Promise!AAlloc(v)
    BY <2>12, <2>13 DEF SB!Promise!AAlloc, Store
  <2>15. QED
    BY <1>2, <2>11, <2>14
<1>4. CASE SB!AllocError # "None"
  <2>1. /\ UNCHANGED <<slab_count, slab_head, slab_allocated, slab_slots>>
        /\ slab_reply' = SB!Refused("alloc")
    BY <1>4 DEF SB!Alloc
  <2>2. SlabFree = {}
    <3>1. CASE slab_capacity = 0
      BY <1>1, <3>1 DEF SlabFree
    <3>2. CASE slab_capacity # 0
      <4>1. IF SlabFree = {} THEN slab_head = NO_FREE ELSE slab_head \in SlabFree
        <5>1. Threaded(slab_head, slab_slots, SlabFree)
          BY <1>1, <3>2 DEF SlabInv
        <5>2. NO_FREE \notin SlabFree
          BY <1>1 DEF SlabFree
        <5>3. QED
          BY <5>1, <5>2, ThreadEnds
      <4>2. slab_head \in SlabFree => SB!AllocError = "None"
        BY <1>1 DEF SB!AllocError, SB!Allocated, SlabFree
      <4>3. QED
        BY <1>4, <4>1, <4>2
    <3>3. QED
      BY <3>1, <3>2
  <2>3. SlabInv'
    BY <1>2, <2>1 DEF SlabInv, SB!TypeOK, SB!FreedAreBlank, SlabFree, SB!Index, SB!Promise!Index
  <2>4. DOMAIN Store = SB!Promise!Index /\ Store' = Store
    BY <1>1, <2>1, <2>2 DEF Store, SlabFree, SB!Index
  <2>5. SB!Promise!AAlloc(v)
    BY <2>1, <2>4 DEF SB!Promise!AAlloc, Store, SB!Refused
  <2>6. QED
    BY <1>2, <2>3, <2>5
<1>5. QED
  BY <1>3, <1>4

LEMMA FreeKeeps ==
  ASSUME SB!SlabAssumption, SlabInv, NEW i \in SB!Promise!Asked, SB!Free(i)
  PROVE  SlabInv' /\ SB!Promise!AFree(i) /\ UNCHANGED slab_capacity
<1>1. /\ slab_capacity \in Nat /\ SB!Index = 0 .. slab_capacity - 1
      /\ slab_allocated \subseteq SB!Index /\ IsFiniteSet(slab_allocated)
      /\ slab_count \in Nat /\ NO_FREE \in Nat /\ NO_FREE \notin SB!Index
      /\ slab_slots \in [SB!Index -> [first : Nat, rest : Rest]]
  BY SlabFacts
<1>2. slab_capacity' = slab_capacity /\ SB!Index' = SB!Index
  BY DEF SB!Free, SB!Index, SB!Promise!Index
<1>3. SB!Freeable(i) <=> i \in slab_allocated
  <2>1. i \in slab_allocated => i \in 0 .. slab_capacity - 1
    BY <1>1
  <2>2. QED
    BY <1>1, <2>1 DEF SB!Freeable, SB!Allocated
<1>4. CASE i \in slab_allocated
  <2> DEFINE cell == SB!FreedCell(i)
  <2>1. /\ slab_slots' = [slab_slots EXCEPT ![i] = cell]
        /\ slab_allocated' = slab_allocated \ {i} /\ slab_head' = i
        /\ slab_count' = IF slab_count = 0 THEN 0 ELSE slab_count - 1
        /\ slab_reply' = SB!Done("free", i)
    BY <1>3, <1>4 DEF SB!Free
  <2>2. cell.first = slab_head /\ cell.rest = 0 /\ cell \in [first : Nat, rest : Rest]
    BY <1>1 DEF SB!FreedCell, SlabInv, SB!TypeOK, SB!SlabAssumption
  <2> HIDE DEF cell
  <2>3. /\ i \in SB!Index /\ i \notin SlabFree /\ slab_capacity > 0
        /\ SlabFree' = SlabFree \cup {i}
    BY <1>1, <1>2, <1>4, <2>1 DEF SlabFree
  <2>4. /\ slab_slots' \in [SB!Index -> [first : Nat, rest : Rest]]
        /\ \A j \in SB!Index : slab_slots'[j] = IF j = i THEN cell ELSE slab_slots[j]
    BY <1>1, <2>1, <2>2, <2>3
  <2>5. Threaded(slab_head', slab_slots', SlabFree')
    <3>1. Threaded(slab_head, slab_slots, SlabFree)
      BY <2>3 DEF SlabInv
    <3>2. \A t \in SlabFree : slab_slots'[t].first = slab_slots[t].first
      BY <2>3, <2>4 DEF SlabFree
    <3>3. slab_slots'[i].first = slab_head
      BY <2>2, <2>3, <2>4
    <3>4. Threaded(i, slab_slots', SlabFree \cup {i})
      BY <2>3, <3>1, <3>2, <3>3, ThreadGiven
    <3>5. QED
      BY <2>1, <2>3, <3>4
  <2>6. slab_count' = Cardinality(slab_allocated') /\ slab_count' \in Nat
    <3>1. Cardinality(slab_allocated') = Cardinality(slab_allocated) - 1
      BY <1>1, <1>4, <2>1, FS_RemoveElement
    <3>2. Cardinality(slab_allocated') \in Nat
      BY <1>1, <2>1, FS_RemoveElement, FS_CardinalityType
    <3>3. QED
      BY <1>1, <2>1, <3>1, <3>2 DEF SlabInv
  <2>7. SB!TypeOK'
    BY <1>1, <1>2, <2>1, <2>3, <2>4, <2>6 DEF SlabInv, SB!TypeOK
  <2>8. SB!FreedAreBlank'
    BY <1>2, <2>1, <2>2, <2>4 DEF SlabInv, SB!FreedAreBlank
  <2>9. SlabInv'
    BY <1>2, <2>3, <2>5, <2>6, <2>7, <2>8 DEF SlabInv
  <2>10. Store' = [j \in DOMAIN Store \ {i} |-> Store[j]]
    BY <1>1, <1>4, <2>1, <2>4 DEF Store
  <2>11. i \in DOMAIN Store /\ slab_reply' = SB!Promise!Done("free", i)
    BY <1>4, <2>1 DEF Store, SB!Done
  <2>12. SB!Promise!AFree(i)
    BY <2>10, <2>11 DEF SB!Promise!AFree, Store
  <2>13. QED
    BY <1>2, <2>9, <2>12
<1>5. CASE i \notin slab_allocated
  <2>1. /\ UNCHANGED <<slab_count, slab_head, slab_allocated, slab_slots>>
        /\ slab_reply' = SB!Refused("free")
    BY <1>3, <1>5 DEF SB!Free
  <2>2. SlabInv'
    BY <1>2, <2>1 DEF SlabInv, SB!TypeOK, SB!FreedAreBlank, SlabFree, SB!Index, SB!Promise!Index
  <2>3. i \notin DOMAIN Store /\ Store' = Store
    BY <1>5, <2>1 DEF Store
  <2>4. SB!Promise!AFree(i)
    BY <2>1, <2>3 DEF SB!Promise!AFree, Store, SB!Refused
  <2>5. QED
    BY <1>2, <2>2, <2>4
<1>6. QED
  BY <1>4, <1>5

LEMMA SlabSetKeeps ==
  ASSUME SB!SlabAssumption, SlabInv,
         NEW i \in SB!Promise!Asked, NEW v \in SB!Payload, SB!Set(i, v)
  PROVE  SlabInv' /\ SB!Promise!ASet(i, v) /\ UNCHANGED slab_capacity
<1>1. /\ slab_capacity \in Nat /\ SB!Index = 0 .. slab_capacity - 1
      /\ slab_allocated \subseteq SB!Index
      /\ slab_slots \in [SB!Index -> [first : Nat, rest : Rest]]
  BY SlabFacts
<1>2. /\ UNCHANGED <<slab_capacity, slab_count, slab_head, slab_allocated>>
      /\ SB!Index' = SB!Index /\ SlabFree' = SlabFree
  BY DEF SB!Set, SB!Index, SB!Promise!Index, SlabFree
<1>3. SB!Writable(i) <=> i \in slab_allocated
  <2>1. i \in slab_allocated => i \in 0 .. slab_capacity - 1
    BY <1>1
  <2>2. QED
    BY <1>1, <2>1 DEF SB!Writable, SB!Allocated
<1>4. CASE i \in slab_allocated
  <2>1. slab_slots' = [slab_slots EXCEPT ![i] = v] /\ slab_reply' = SB!Done("set", i)
    BY <1>3, <1>4 DEF SB!Set
  <2>2. v \in [first : Nat, rest : Rest]
    BY DEF SB!Payload, SB!SlabAssumption
  <2>3. /\ slab_slots' \in [SB!Index -> [first : Nat, rest : Rest]]
        /\ \A j \in SB!Index : slab_slots'[j] = IF j = i THEN v ELSE slab_slots[j]
    BY <1>1, <1>4, <2>1, <2>2
  <2>4. slab_capacity > 0 => Threaded(slab_head', slab_slots', SlabFree')
    <3>1. \A s \in SlabFree : slab_slots'[s].first = slab_slots[s].first
      BY <1>4, <2>3 DEF SlabFree
    <3>2. slab_capacity > 0 => Threaded(slab_head, slab_slots, SlabFree)
      BY DEF SlabInv
    <3>3. QED
      BY <1>2, <3>1, <3>2, ThreadKept
  <2>5. SB!TypeOK'
    BY <1>2, <2>3 DEF SlabInv, SB!TypeOK
  <2>6. SB!FreedAreBlank'
    BY <1>2, <1>4, <2>3 DEF SlabInv, SB!FreedAreBlank
  <2>7. SlabInv'
    BY <1>2, <2>4, <2>5, <2>6 DEF SlabInv
  <2>8. Store' = SB!Promise!With(i, v)
    <3>1. Store' = [j \in slab_allocated \cup {i} |-> IF j = i THEN v ELSE slab_slots[j]]
      BY <1>1, <1>2, <1>4, <2>3 DEF Store
    <3>2. QED
      BY <1>4, <3>1 DEF Store, SB!Promise!With
  <2>9. i \in DOMAIN Store /\ slab_reply' = SB!Promise!Done("set", i)
    BY <1>4, <2>1 DEF Store, SB!Done
  <2>10. SB!Promise!ASet(i, v)
    BY <2>8, <2>9 DEF SB!Promise!ASet, Store
  <2>11. QED
    BY <1>2, <2>7, <2>10
<1>5. CASE i \notin slab_allocated
  <2>1. slab_slots' = slab_slots /\ slab_reply' = SB!Refused("set")
    BY <1>3, <1>5 DEF SB!Set
  <2>2. SlabInv'
    BY <1>2, <2>1 DEF SlabInv, SB!TypeOK, SB!FreedAreBlank
  <2>3. i \notin DOMAIN Store /\ Store' = Store
    BY <1>2, <1>5, <2>1 DEF Store
  <2>4. SB!Promise!ASet(i, v)
    BY <2>1, <2>3 DEF SB!Promise!ASet, Store, SB!Refused
  <2>5. QED
    BY <1>2, <2>2, <2>4
<1>6. QED
  BY <1>4, <1>5

LEMMA SlabGetKeeps ==
  ASSUME SB!SlabAssumption, SlabInv, NEW i \in SB!Promise!Asked, SB!Get(i)
  PROVE  SlabInv' /\ SB!Promise!AGet(i) /\ UNCHANGED slab_capacity
<1>1. UNCHANGED <<slab_capacity, slab_count, slab_head, slab_allocated, slab_slots>>
  BY DEF SB!Get
<1>2. SlabInv'
  BY <1>1 DEF SlabInv, SB!TypeOK, SB!FreedAreBlank, SlabFree, SB!Index, SB!Promise!Index
<1>3. SB!Allocated(i) <=> i \in slab_allocated
  BY SlabFacts DEF SB!Allocated
<1>4. /\ slab_reply' = IF i \in DOMAIN Store THEN SB!Promise!Done("get", Store[i])
                                             ELSE SB!Promise!Refused("get")
      /\ Store' = Store
  BY <1>1, <1>3 DEF SB!Get, Store, SB!Done, SB!Refused
<1>5. SB!Promise!AGet(i)
  BY <1>4 DEF SB!Promise!AGet, Store
<1>6. QED
  BY <1>1, <1>2, <1>5

LEMMA SlabStep ==
  ASSUME SB!SlabAssumption
  PROVE  SlabInv /\ [SB!Next]_(SB!vars) => SlabInv' /\ [SB!Promise!ANext]_(SB!Promise!avars)
<1>1. SUFFICES ASSUME SlabInv, [SB!Next]_(SB!vars)
               PROVE  SlabInv' /\ [SB!Promise!ANext]_(SB!Promise!avars)
  OBVIOUS
<1>2. CASE \E v \in SB!Payload : SB!Alloc(v)
  BY <1>1, <1>2, AllocKeeps DEF SB!Promise!ANext
<1>3. CASE \E i \in SB!Promise!Asked : SB!Free(i) \/ SB!Get(i)
  BY <1>1, <1>3, FreeKeeps, SlabGetKeeps DEF SB!Promise!ANext
<1>4. CASE \E i \in SB!Promise!Asked, v \in SB!Payload : SB!Set(i, v)
  BY <1>1, <1>4, SlabSetKeeps DEF SB!Promise!ANext
<1>5. CASE UNCHANGED SB!vars
  <2>1. UNCHANGED <<slab_capacity, slab_count, slab_head, slab_allocated, slab_slots, slab_reply>>
    BY <1>5 DEF SB!vars
  <2>2. SlabInv'
    BY <1>1, <2>1 DEF SlabInv, SB!TypeOK, SB!FreedAreBlank, SlabFree, SB!Index, SB!Promise!Index
  <2>3. UNCHANGED SB!Promise!avars
    BY <2>1 DEF SB!Promise!avars
  <2>4. QED
    BY <2>2, <2>3
<1>6. QED
  BY <1>1, <1>2, <1>3, <1>4, <1>5 DEF SB!Next

LEMMA SlabCardinality ==
  ASSUME NEW S PROVE SB!Cardinality(S) = Cardinality(S)
<1>1. \A T : SB!IsFiniteSet(T) = IsFiniteSet(T)
  BY DEF SB!IsFiniteSet, IsFiniteSet
<1>2. QED
  BY <1>1 DEF SB!Cardinality, Cardinality

\* Links followed from the head lead through the list and off its end.
LEMMA FollowWalks ==
  ASSUME NEW n \in Nat, NEW f, Threads(f, n, slab_head, slab_slots, SlabFree),
         NO_FREE \notin SB!Index
  PROVE  \A k \in Nat : SB!Follow[k] = IF k < n THEN f[k] ELSE NO_FREE
<1> DEFINE Link(s) == IF s \in SB!Index THEN slab_slots[s].first ELSE NO_FREE
           Equation(h) == h = [k \in Nat |-> IF k = 0 THEN slab_head ELSE Link(h[k - 1])]
<1>1. PICK walk : walk = [k \in Nat |-> IF k < n THEN f[k] ELSE NO_FREE]
  OBVIOUS
<1>2. ASSUME NEW k \in Nat PROVE walk[k] = IF k = 0 THEN slab_head ELSE Link(walk[k - 1])
  <2>1. CASE k = 0
    BY <1>1, <2>1 DEF Threads
  <2>2. CASE k # 0 /\ k - 1 < n
    <3>1. k - 1 \in 0 .. n - 1 /\ k - 1 \in Nat /\ (k - 1) + 1 = k
      BY <2>2
    <3>2. walk[k - 1] = f[k - 1] /\ f[k - 1] \in SB!Index
      BY <1>1, <2>2, <3>1 DEF Threads, SlabFree
    <3>3. slab_slots[f[k - 1]].first = IF k - 1 = n - 1 THEN NO_FREE ELSE f[k]
      BY <3>1 DEF Threads
    <3>4. k - 1 = n - 1 <=> ~(k < n)
      BY <2>2, <3>1
    <3>5. QED
      BY <1>1, <2>2, <3>2, <3>3, <3>4
  <2>3. CASE k # 0 /\ ~(k - 1 < n)
    <3>1. k - 1 \in Nat /\ ~(k < n)
      BY <2>3
    <3>2. walk[k - 1] = NO_FREE /\ walk[k] = NO_FREE
      BY <1>1, <2>3, <3>1
    <3>3. QED
      BY <2>3, <3>2
  <2>4. QED
    BY <2>1, <2>2, <2>3
<1>3. Equation(walk)
  <2>1. walk = [k \in Nat |-> walk[k]]
    BY <1>1
  <2> HIDE DEF Link
  <2>2. QED
    BY <1>2, <2>1
<1>4. SB!Follow = CHOOSE h : Equation(h)
  BY DEF SB!Follow
<1>5. Equation(SB!Follow)
  BY <1>3, <1>4
<1>6. PICK follow : follow = SB!Follow
  OBVIOUS
<1> HIDE DEF Link
<1>7. \A k \in Nat : follow[k] = IF k = 0 THEN slab_head ELSE Link(follow[k - 1])
  BY <1>5, <1>6
<1> DEFINE Bad == {k \in Nat : follow[k] # walk[k]}
<1>8. Bad = {}
  <2>1. SUFFICES ASSUME Bad # {} PROVE FALSE
    OBVIOUS
  <2>2. PICK k \in Bad : \A y \in Bad : k <= y
    <3>1. Bad \subseteq Nat
      OBVIOUS
    <3> HIDE DEF Bad
    <3>2. QED
      BY <2>1, <3>1, LeastElement
  <2>3. k \in Nat /\ follow[k] # walk[k]
    OBVIOUS
  <2>4. k # 0
    BY <1>2, <1>7, <2>3
  <2>5. k - 1 \in Nat /\ ~(k <= k - 1)
    BY <2>3, <2>4
  <2>6. k - 1 \notin Bad
    <3> HIDE DEF Bad
    <3>1. QED
      BY <2>2, <2>5
  <2>7. follow[k - 1] = walk[k - 1]
    BY <2>5, <2>6
  <2>8. QED
    BY <1>2, <1>7, <2>3, <2>4, <2>7
<1>9. QED
  BY <1>1, <1>6, <1>8

LEMMA ListIsExact ==
  ASSUME SB!SlabAssumption, SlabInv
  PROVE  SB!RecordsAgree
<1>1. /\ slab_capacity \in Nat /\ NO_FREE \notin SB!Index
      /\ slab_count = Cardinality(slab_allocated)
  BY SlabFacts DEF SlabInv
<1>2. ASSUME slab_capacity > 0
      PROVE  /\ {SB!Follow[k] : k \in 0 .. Cardinality(SlabFree) - 1} = SlabFree
             /\ SB!Follow[Cardinality(SlabFree)] = NO_FREE
  <2>1. PICK n \in Nat : \E f : Threads(f, n, slab_head, slab_slots, SlabFree)
    BY <1>2 DEF SlabInv, Threaded
  <2>2. PICK f : Threads(f, n, slab_head, slab_slots, SlabFree)
    BY <2>1
  <2>3. n = Cardinality(SlabFree)
    <3>1. f \in Bijection(0 .. n - 1, SlabFree)
      BY <2>2 DEF Threads, Bijection, Injection, Surjection, IsInjective
    <3>2. ExistsBijection(0 .. n - 1, SlabFree)
      BY <3>1 DEF ExistsBijection
    <3>3. IsFiniteSet(0 .. n - 1) /\ Cardinality(0 .. n - 1) = n
      BY FS_Interval
    <3>4. QED
      BY <3>2, <3>3, FS_Bijection
  <2>4. \A k \in Nat : SB!Follow[k] = IF k < n THEN f[k] ELSE NO_FREE
    BY <1>1, <2>2, FollowWalks
  <2>5. SB!Follow[n] = NO_FREE /\ \A k \in 0 .. n - 1 : SB!Follow[k] = f[k]
    BY <2>4
  <2>6. {SB!Follow[k] : k \in 0 .. n - 1} = SlabFree
    BY <2>2, <2>5 DEF Threads
  <2>7. QED
    BY <2>3, <2>5, <2>6
<1>3. QED
  BY <1>1, <1>2, SlabCardinality DEF SB!RecordsAgree, SlabFree

\* Bitmap, free list and count of every slab agree: the links from the head thread
\* exactly the slots that are free, each once, whatever bytes a caller stored; and
\* of a freed value only the word the link covers is left (Slab::alloc, Slab::free).
THEOREM SlabRecordsAgree ==
  ASSUME SB!SlabAssumption
  PROVE  SB!Spec => [](SB!TypeOK /\ SB!RecordsAgree /\ SB!FreedAreBlank /\ SB!Parses)
<1>1. SB!Init => SlabInv
  BY SlabStarts
<1>2. SlabInv /\ [SB!Next]_(SB!vars) => SlabInv'
  BY SlabStep
<1>3. SlabInv => SB!TypeOK /\ SB!RecordsAgree /\ SB!FreedAreBlank /\ SB!Parses
  <2>1. SlabInv => SB!RecordsAgree
    BY ListIsExact
  <2>2. SlabInv => SB!Parses
    BY SlabFacts DEF SB!Parses
  <2>3. QED
    BY <2>1, <2>2 DEF SlabInv
<1>4. QED
  BY <1>1, <1>2, <1>3, PTL DEF SB!Spec

\* The slab is a pool of slots: alloc hands out no slot that is in use and refuses
\* only when all are, and a value stays until it is set or freed (collections/slab.rs).
THEOREM SlabImplementsStore ==
  ASSUME SB!SlabAssumption
  PROVE  SB!Spec => SB!ImplementsStore
<1>1. SB!Init => SlabInv /\ SB!Promise!AInit
  BY SlabStarts
<1>2. SlabInv /\ [SB!Next]_(SB!vars) => SlabInv' /\ [SB!Promise!ANext]_(SB!Promise!avars)
  BY SlabStep
<1>3. QED
  BY <1>1, <1>2, PTL DEF SB!Spec, SB!ImplementsStore, SB!Promise!ASpec

-----------------------------------------------------------------------------
(* The ring buffer and the journal *)

LEMMA ModOnce ==
  ASSUME NEW n \in Nat, NEW m \in Nat \ {0}, n < 2 * m
  PROVE  /\ n % m = IF n < m THEN n ELSE n - m
         /\ n % m \in 0 .. m - 1
<1>1. CASE n < m
  BY <1>1
<1>2. CASE n >= m
  BY <1>2
<1>3. QED
  BY <1>1, <1>2

\* A position that has gone past the end of a ring of m, at most once, and the next.
Wrap(n, m) == IF n < m THEN n ELSE n - m
Turned(h, m) == IF h + 1 < m THEN h + 1 ELSE 0

LEMMA RingMod ==
  ASSUME NEW m \in Nat \ {0}, NEW h \in 0 .. m - 1
  PROVE  /\ h % m = h /\ (h + 1) % m = Turned(h, m) /\ Turned(h, m) \in 0 .. m - 1
         /\ \A i \in 0 .. m - 1 : (h + i) % m = Wrap(h + i, m) /\ Wrap(h + i, m) \in 0 .. m - 1
<1>2. h % m = h
  <2>1. h \in Nat /\ h < m /\ h < 2 * m
    OBVIOUS
  <2>2. QED
    BY <2>1, ModOnce
<1>3. (h + 1) % m = Turned(h, m)
  <2>1. CASE h + 1 < m
    <3>1. h + 1 \in Nat /\ h + 1 < 2 * m
      BY <2>1
    <3>2. QED
      BY <2>1, <3>1, ModOnce DEF Turned
  <2>2. CASE h + 1 = m
    <3>1. m % m = 0
      <4>1. m \in Nat /\ m < 2 * m /\ ~(m < m) /\ m - m = 0
        OBVIOUS
      <4>2. QED
        BY <4>1, ModOnce
    <3>2. QED
      BY <2>2, <3>1 DEF Turned
  <2>3. QED
    BY <2>1, <2>2
<1>4. ASSUME NEW i \in 0 .. m - 1
      PROVE  (h + i) % m = Wrap(h + i, m) /\ Wrap(h + i, m) \in 0 .. m - 1
  <2>1. h + i \in Nat /\ h + i < 2 * m
    OBVIOUS
  <2>2. (h + i) % m = Wrap(h + i, m)
    BY <2>1, ModOnce DEF Wrap
  <2>3. QED
    BY <2>2 DEF Wrap
<1>5. Turned(h, m) \in 0 .. m - 1
  BY DEF Turned
<1>6. QED
  BY <1>2, <1>3, <1>4, <1>5

\* Once the cursor of a full ring has moved on, each element is one place nearer,
\* and the last place is the one the cursor left.
LEMMA RingTurns ==
  ASSUME NEW m \in Nat \ {0}, NEW h \in 0 .. m - 1
  PROVE  /\ \A i \in 0 .. m - 2 : /\ Wrap(Turned(h, m) + i, m) = Wrap(h + (i + 1), m)
                                  /\ Wrap(h + (i + 1), m) \in 0 .. m - 1 \ {h}
         /\ Wrap(Turned(h, m) + (m - 1), m) = h
<1>1. CASE h + 1 < m
  BY <1>1 DEF Turned, Wrap
<1>2. CASE h + 1 = m
  BY <1>2 DEF Turned, Wrap
<1>3. QED
  BY <1>1, <1>2

LEMMA WindowIsSeq ==
  ASSUME NEW S, NEW n \in Nat, NEW w \in [1 .. n -> S]
  PROVE  w \in Seq(S) /\ Len(w) = n
OBVIOUS

Grows(S, n, w, e, v) ==
  /\ w \in [1 .. n -> S] /\ v \in [1 .. n + 1 -> S]
  /\ \A i \in 1 .. n : v[i] = w[i]
  /\ e \in S /\ v[n + 1] = e

LEMMA WindowGrows ==
  ASSUME NEW S, NEW n \in Nat, NEW w, NEW e, NEW v, Grows(S, n, w, e, v)
  PROVE  v = Append(w, e)
<1>1. /\ w \in Seq(S) /\ Len(w) = n /\ v \in Seq(S) /\ Len(v) = n + 1 /\ e \in S
  BY WindowIsSeq DEF Grows
<1>2. /\ Append(w, e) \in Seq(S) /\ Len(Append(w, e)) = n + 1
      /\ \A i \in 1 .. n : Append(w, e)[i] = w[i]
      /\ Append(w, e)[n + 1] = e
  BY <1>1, AppendProperties
<1>3. \A i \in 1 .. n + 1 : Append(w, e)[i] = v[i]
  BY <1>2 DEF Grows
<1>4. QED
  BY <1>1, <1>2, <1>3, SeqEqual

Slides(S, n, w, e, v) ==
  /\ w \in [1 .. n -> S] /\ v \in [1 .. n -> S]
  /\ \A i \in 1 .. n - 1 : v[i] = w[i + 1]
  /\ e \in S /\ v[n] = e

LEMMA WindowSlides ==
  ASSUME NEW S, NEW n \in Nat \ {0}, NEW w, NEW e, NEW v, Slides(S, n, w, e, v)
  PROVE  v = Append(Tail(w), e)
<1>1. /\ w \in Seq(S) /\ Len(w) = n /\ v \in Seq(S) /\ Len(v) = n /\ e \in S
  BY WindowIsSeq DEF Slides
<1>2. /\ Tail(w) \in Seq(S) /\ Len(Tail(w)) = n - 1
      /\ \A i \in 1 .. n - 1 : Tail(w)[i] = w[i + 1]
  BY <1>1
<1>3. /\ Append(Tail(w), e) \in Seq(S) /\ Len(Append(Tail(w), e)) = n
      /\ \A i \in 1 .. n - 1 : Append(Tail(w), e)[i] = Tail(w)[i]
      /\ Append(Tail(w), e)[n] = e
  BY <1>1, <1>2, AppendProperties
<1>4. \A i \in 1 .. n : Append(Tail(w), e)[i] = v[i]
  BY <1>2, <1>3 DEF Slides
<1>5. QED
  BY <1>1, <1>3, <1>4, SeqEqual

VARIABLES ring_head, ring_count, ring_slots, ring_reply

RG == INSTANCE RingBuffer WITH
  Entry <- Value, Blank <- Zero,
  head <- ring_head, count <- ring_count, slots <- ring_slots, reply <- ring_reply

\* The elements, as the promise names them.
RingWindow == [n \in 1 .. ring_count |-> ring_slots[RG!Physical(n - 1)]]

LEMMA RingFacts ==
  ASSUME RG!RingBufferAssumption, RG!TypeOK
  PROVE  /\ Capacity \in Nat /\ ring_count \in Nat /\ ring_count <= Capacity
         /\ Capacity = 0 => ring_head = 0 /\ RG!Cursor = 0
         /\ Capacity # 0 => /\ ring_head \in 0 .. Capacity - 1 /\ RG!Cursor = ring_head
                            /\ RG!Oldest = IF ring_head >= ring_count THEN ring_head - ring_count
                                           ELSE Capacity - (ring_count - ring_head)
                            /\ RG!Oldest \in 0 .. Capacity - 1
         /\ \A i \in 0 .. Capacity - 1 : /\ RG!Physical(i) = Wrap(RG!Oldest + i, Capacity)
                                         /\ RG!Physical(i) \in 0 .. Capacity - 1
         /\ RingWindow \in [1 .. ring_count -> Value]
         /\ Len(RingWindow) = ring_count
<1>1. /\ Capacity \in Nat /\ ring_count \in Nat /\ ring_count <= Capacity
      /\ ring_slots \in [0 .. Capacity - 1 -> Value]
  BY DEF RG!RingBufferAssumption, RG!TypeOK, RG!Position
<1>2. Capacity = 0 => ring_head = 0 /\ RG!Cursor = 0
  BY <1>1 DEF RG!TypeOK, RG!Cursor
<1>3. Capacity # 0 => ring_head \in 0 .. Capacity - 1 /\ RG!Cursor = ring_head
  <2>1. SUFFICES ASSUME Capacity # 0
                 PROVE  ring_head \in 0 .. Capacity - 1 /\ RG!Cursor = ring_head
    OBVIOUS
  <2>2. ring_head \in 0 .. Capacity - 1 /\ Capacity > 0 /\ Capacity \in Nat \ {0}
    BY <1>1, <2>1 DEF RG!TypeOK, RG!Position
  <2>3. ring_head % Capacity = ring_head
    BY <1>1, <2>2, RingMod
  <2>4. QED
    BY <2>2, <2>3 DEF RG!Cursor
<1>4. Capacity # 0 => /\ RG!Oldest = IF ring_head >= ring_count THEN ring_head - ring_count
                                     ELSE Capacity - (ring_count - ring_head)
                      /\ RG!Oldest \in 0 .. Capacity - 1
  BY <1>1, <1>3 DEF RG!Oldest
<1>5. ASSUME NEW i \in 0 .. Capacity - 1
      PROVE  RG!Physical(i) = Wrap(RG!Oldest + i, Capacity) /\ RG!Physical(i) \in 0 .. Capacity - 1
  <2>1. Capacity \in Nat \ {0} /\ RG!Oldest \in 0 .. Capacity - 1
    BY <1>1, <1>4
  <2>2. QED
    BY <2>1, RingMod DEF RG!Physical
<1>6. RingWindow \in [1 .. ring_count -> Value]
  <2>1. \A n \in 1 .. ring_count : n - 1 \in 0 .. Capacity - 1
    BY <1>1
  <2>2. QED
    BY <1>1, <1>5, <2>1 DEF RingWindow
<1>7. QED
  BY <1>1, <1>2, <1>3, <1>4, <1>5, <1>6, WindowIsSeq

LEMMA RingStarts ==
  ASSUME RG!RingBufferAssumption, RG!Init
  PROVE  RG!TypeOK /\ RG!Promise!AInit
<1>1. RG!TypeOK
  BY DEF RG!RingBufferAssumption, RG!Init, RG!TypeOK, RG!Position
<1>2. RingWindow = <<>>
  BY DEF RG!Init, RingWindow
<1>3. RG!Promise!AInit
  BY <1>2 DEF RG!Init, RG!Promise!AInit, RG!Done, RingWindow
<1>4. QED
  BY <1>1, <1>3

\* Where the elements of a ring with room lie before and after a push.
Behind(h, n, m) == IF h >= n THEN h - n ELSE m - (n - h)

Room(h, n, m) == m \in Nat \ {0} /\ h \in 0 .. m - 1 /\ n \in 0 .. m - 1

LEMMA RingFills ==
  ASSUME NEW h, NEW n, NEW m, Room(h, n, m)
  PROVE  /\ Behind(Turned(h, m), n + 1, m) = Behind(h, n, m)
         /\ Wrap(Behind(h, n, m) + n, m) = h
         /\ \A i \in 0 .. n - 1 : Wrap(Behind(h, n, m) + i, m) # h
<1>1. m \in Nat \ {0} /\ h \in 0 .. m - 1 /\ n \in 0 .. m - 1
  BY DEF Room
<1>2. CASE h >= n
  BY <1>1, <1>2 DEF Turned, Wrap, Behind
<1>3. CASE h < n
  BY <1>1, <1>3 DEF Turned, Wrap, Behind
<1>4. QED
  BY <1>1, <1>2, <1>3

LEMMA PushKeeps ==
  ASSUME RG!RingBufferAssumption, RG!TypeOK, NEW e \in Value, RG!Push(e)
  PROVE  RG!TypeOK' /\ RG!Promise!AAppend(e)
<1>1. /\ Capacity \in Nat /\ ring_count \in Nat /\ ring_count <= Capacity
      /\ ring_slots \in [0 .. Capacity - 1 -> Value]
      /\ RingWindow \in [1 .. ring_count -> Value] /\ Len(RingWindow) = ring_count
  BY RingFacts DEF RG!TypeOK, RG!Position
<1>2. CASE Capacity = 0
  <2>1. UNCHANGED <<ring_head, ring_count, ring_slots>> /\ ring_reply' = RG!Refused("append")
    BY <1>2 DEF RG!Push
  <2>2. RG!TypeOK'
    BY <2>1 DEF RG!TypeOK, RG!Position
  <2>3. RingWindow' = RingWindow
    BY <2>1 DEF RingWindow, RG!Physical, RG!Oldest, RG!Cursor
  <2>4. RG!Promise!AAppend(e)
    BY <1>1, <1>2, <2>1, <2>3 DEF RG!Promise!AAppend, RingWindow, RG!Refused
  <2>5. QED
    BY <2>2, <2>4
<1>3. CASE Capacity # 0
  <2> DEFINE m == Capacity
             h == ring_head
             n == ring_count
             g == Turned(h, m)
  <2>1. /\ h \in 0 .. m - 1 /\ RG!Cursor = h /\ m \in Nat \ {0} /\ n \in 0 .. m
        /\ RG!Oldest = IF h >= n THEN h - n ELSE m - (n - h)
    BY <1>1, <1>3, RingFacts
  <2>2. /\ ring_slots' = [ring_slots EXCEPT ![h] = e] /\ ring_head' = g
        /\ ring_count' = (IF n + 1 <= m THEN n + 1 ELSE m)
        /\ ring_reply' = RG!Done("append", 0)
    BY <1>3, <2>1, RingMod DEF RG!Push, RG!HeadAfter, RG!CountAfter
  <2>3. g \in 0 .. m - 1
    BY <2>1, RingMod
  <2>4. /\ ring_slots' \in [0 .. m - 1 -> Value]
        /\ \A i \in 0 .. m - 1 : ring_slots'[i] = IF i = h THEN e ELSE ring_slots[i]
    BY <1>1, <2>1, <2>2
  <2>5. ring_count' \in 0 .. m
    BY <2>1, <2>2
  <2>6. RG!TypeOK'
    BY <1>3, <2>1, <2>2, <2>3, <2>4, <2>5 DEF RG!TypeOK, RG!Position
  <2>7. /\ RG!Cursor' = g
        /\ RG!Oldest' = IF g >= ring_count' THEN g - ring_count' ELSE m - (ring_count' - g)
    <3>1. g % m = g
      <4> HIDE DEF g
      <4>1. QED
        BY <2>1, <2>3, RingMod
    <3>2. RG!Cursor' = g
      BY <2>1, <2>2, <3>1 DEF RG!Cursor
    <3>3. QED
      BY <3>2 DEF RG!Oldest
  <2> HIDE DEF g
  <2>8. CASE n < m
    <3>1. ring_count' = n + 1 /\ n \in 0 .. m - 1
      BY <2>1, <2>2, <2>8
    <3>2. /\ RG!Oldest' = RG!Oldest /\ RG!Physical(n) = h
          /\ \A i \in 0 .. n - 1 : RG!Physical(i) \in 0 .. m - 1 /\ RG!Physical(i) # h
      <4>1. RG!Oldest = Behind(h, n, m) /\ RG!Oldest' = Behind(g, n + 1, m)
        BY <2>1, <2>7, <3>1 DEF Behind
      <4>2. Room(h, n, m)
        BY <2>1, <3>1 DEF Room
      <4>3. /\ Behind(g, n + 1, m) = Behind(h, n, m) /\ Wrap(Behind(h, n, m) + n, m) = h
            /\ \A i \in 0 .. n - 1 : Wrap(Behind(h, n, m) + i, m) # h
        BY <4>2, RingFills DEF g
      <4>4. n \in 0 .. m - 1 /\ \A i \in 0 .. n - 1 : i \in 0 .. m - 1
        BY <2>1, <3>1
      <4>5. \A i \in 0 .. m - 1 : /\ RG!Physical(i) = Wrap(Behind(h, n, m) + i, m)
                                  /\ RG!Physical(i) \in 0 .. m - 1
        BY <4>1, RingFacts
      <4>6. QED
        BY <4>1, <4>2, <4>3, <4>4, <4>5
    <3>3. \A i : RG!Physical(i)' = RG!Physical(i)
      BY <3>2 DEF RG!Physical
    <3>4. ASSUME NEW i \in 1 .. n PROVE RingWindow'[i] = RingWindow[i]
      <4>1. i - 1 \in 0 .. n - 1 /\ i \in 1 .. n + 1
        BY <2>1
      <4>2. RG!Physical(i - 1) \in 0 .. m - 1 /\ RG!Physical(i - 1) # h
        BY <3>2, <4>1
      <4>3. RingWindow'[i] = ring_slots'[RG!Physical(i - 1)]
        BY <3>1, <3>3, <4>1 DEF RingWindow
      <4>4. QED
        BY <2>4, <4>2, <4>3 DEF RingWindow
    <3>5. RingWindow'[n + 1] = e
      <4>1. n + 1 \in 1 .. n + 1 /\ (n + 1) - 1 = n
        BY <2>1
      <4>2. RingWindow'[n + 1] = ring_slots'[h]
        BY <3>1, <3>2, <3>3, <4>1 DEF RingWindow
      <4>3. QED
        BY <2>1, <2>4, <4>2
    <3>6. RingWindow' \in [1 .. n + 1 -> Value]
      <4>1. \A i \in 1 .. n + 1 : RingWindow'[i] \in Value
        BY <1>1, <2>1, <3>4, <3>5
      <4>2. RingWindow' = [i \in 1 .. n + 1 |-> RingWindow'[i]]
        BY <3>1 DEF RingWindow
      <4>3. QED
        BY <4>1, <4>2
    <3>7. Grows(Value, n, RingWindow, e, RingWindow')
      BY <1>1, <3>4, <3>5, <3>6 DEF Grows
    <3>8. RingWindow' = Append(RingWindow, e)
      BY <1>1, <3>7, WindowGrows
    <3>9. RG!Promise!AAppend(e)
      BY <1>1, <2>2, <2>8, <3>8 DEF RG!Promise!AAppend, RingWindow, RG!Done
    <3>10. QED
      BY <2>6, <3>9
  <2>9. CASE n = m
    <3>1. ring_count' = m /\ RG!Oldest = h /\ RG!Oldest' = g
      BY <2>1, <2>2, <2>3, <2>7, <2>9
    <3>2. /\ \A i \in 0 .. m - 2 : /\ Wrap(g + i, m) = Wrap(h + (i + 1), m)
                                   /\ Wrap(h + (i + 1), m) \in 0 .. m - 1 \ {h}
          /\ Wrap(g + (m - 1), m) = h
      BY <2>1, RingTurns DEF g
    <3>a. \A i \in 0 .. m - 1 : /\ RG!Physical(i) = Wrap(h + i, m)
                                /\ RG!Physical(i)' = Wrap(g + i, m)
      <4>1. \A i \in 0 .. m - 1 : (g + i) % m = Wrap(g + i, m)
        BY <2>1, <2>3, RingMod
      <4>2. QED
        BY <3>1, <4>1, RingFacts DEF RG!Physical
    <3>3. ASSUME NEW i \in 1 .. m - 1 PROVE RingWindow'[i] = RingWindow[i + 1]
      <4>1. /\ i - 1 \in 0 .. m - 2 /\ i - 1 \in 0 .. m - 1 /\ (i - 1) + 1 \in 0 .. m - 1
            /\ i \in 1 .. m /\ i + 1 \in 1 .. m /\ (i + 1) - 1 = (i - 1) + 1
        BY <2>1
      <4>2. RingWindow'[i] = ring_slots'[Wrap(g + (i - 1), m)]
        BY <3>1, <3>a, <4>1 DEF RingWindow
      <4>3. RingWindow[i + 1] = ring_slots[Wrap(h + ((i - 1) + 1), m)]
        BY <2>9, <3>a, <4>1 DEF RingWindow
      <4>4. QED
        BY <2>4, <3>2, <4>1, <4>2, <4>3
    <3>4. RingWindow'[m] = e
      <4>1. m \in 1 .. m /\ m - 1 \in 0 .. m - 1
        BY <2>1
      <4>2. RingWindow'[m] = ring_slots'[Wrap(g + (m - 1), m)]
        BY <3>1, <3>a, <4>1 DEF RingWindow
      <4>3. QED
        BY <2>1, <2>4, <3>2, <4>2
    <3>5. RingWindow' \in [1 .. m -> Value]
      <4>1. \A i \in 1 .. m : RingWindow'[i] \in Value
        <5>1. ASSUME NEW i \in 1 .. m, i # m PROVE RingWindow'[i] \in Value
          <6>1. i \in 1 .. m - 1 /\ i + 1 \in 1 .. n
            BY <2>1, <2>9, <5>1
          <6>2. QED
            BY <1>1, <3>3, <6>1
        <5>2. QED
          BY <3>4, <5>1
      <4>2. RingWindow' = [i \in 1 .. m |-> RingWindow'[i]]
        BY <3>1 DEF RingWindow
      <4>3. QED
        BY <4>1, <4>2
    <3>6. Slides(Value, m, RingWindow, e, RingWindow')
      BY <1>1, <2>9, <3>3, <3>4, <3>5 DEF Slides
    <3>7. RingWindow' = Append(Tail(RingWindow), e)
      BY <2>1, <3>6, WindowSlides
    <3>8. RG!Promise!AAppend(e)
      <4>1. /\ Len(RingWindow) = Capacity /\ Capacity > 0
            /\ ring_reply' = RG!Promise!Done("append", 0)
        BY <1>1, <2>1, <2>2, <2>9 DEF RG!Done
      <4>2. QED
        BY <3>7, <4>1, Zenon DEF RG!Promise!AAppend, RingWindow
    <3>9. QED
      BY <2>6, <3>8
  <2>10. QED
    BY <2>1, <2>8, <2>9
<1>4. QED
  BY <1>2, <1>3

LEMMA RingGetKeeps ==
  ASSUME RG!RingBufferAssumption, RG!TypeOK, NEW i \in 0 .. Capacity, RG!Get(i)
  PROVE  RG!TypeOK' /\ RG!Promise!ARead(i)
<1>1. /\ Capacity \in Nat /\ ring_count \in Nat /\ Len(RingWindow) = ring_count
      /\ Capacity = 0 => ring_head = 0 /\ RG!Cursor = 0
      /\ Capacity # 0 => RG!Cursor = ring_head
  BY RingFacts
<1>2. UNCHANGED <<ring_head, ring_count, ring_slots>>
  BY <1>1 DEF RG!Get
<1>3. RG!TypeOK'
  BY <1>2 DEF RG!TypeOK, RG!Position
<1>4. RingWindow' = RingWindow
  BY <1>2 DEF RingWindow, RG!Physical, RG!Oldest, RG!Cursor
<1>5. i < ring_count => RingWindow[i + 1] = ring_slots[RG!Physical(i)]
  <2>1. i < ring_count => i + 1 \in 1 .. ring_count /\ (i + 1) - 1 = i
    BY <1>1
  <2>2. QED
    BY <2>1 DEF RingWindow
<1>6. ring_reply' = IF i < Len(RingWindow) THEN RG!Promise!Done("read", RingWindow[i + 1])
                                           ELSE RG!Promise!Refused("read")
  BY <1>1, <1>5 DEF RG!Get, RG!Done, RG!Refused
<1>7. RG!Promise!ARead(i)
  BY <1>4, <1>6 DEF RG!Promise!ARead, RingWindow
<1>8. QED
  BY <1>3, <1>7

LEMMA RingStep ==
  ASSUME RG!RingBufferAssumption
  PROVE  RG!TypeOK /\ [RG!Next]_(RG!vars) => RG!TypeOK' /\ [RG!Promise!ANext]_(RG!Promise!avars)
<1>1. SUFFICES ASSUME RG!TypeOK, [RG!Next]_(RG!vars)
               PROVE  RG!TypeOK' /\ [RG!Promise!ANext]_(RG!Promise!avars)
  OBVIOUS
<1>2. CASE \E e \in Value : RG!Push(e)
  BY <1>1, <1>2, PushKeeps DEF RG!Promise!ANext
<1>3. CASE \E i \in 0 .. Capacity : RG!Get(i)
  BY <1>1, <1>3, RingGetKeeps DEF RG!Promise!ANext
<1>4. CASE UNCHANGED RG!vars
  <2>1. UNCHANGED <<ring_head, ring_count, ring_slots, ring_reply>>
    BY <1>4 DEF RG!vars
  <2>2. RG!TypeOK'
    BY <1>1, <2>1 DEF RG!TypeOK, RG!Position
  <2>3. UNCHANGED RG!Promise!avars
    BY <2>1 DEF RG!Promise!avars, RG!Physical, RG!Oldest, RG!Cursor
  <2>4. QED
    BY <2>2, <2>3
<1>5. QED
  BY <1>1, <1>2, <1>3, <1>4 DEF RG!Next

\* However often a ring has gone round, it shows the last elements pushed, oldest
\* first, and no push is lost (collections/ring_buffer.rs).
THEOREM RingImplementsWindow ==
  ASSUME RG!RingBufferAssumption
  PROVE  RG!Spec => []RG!TypeOK /\ RG!ImplementsWindow
<1>1. RG!Init => RG!TypeOK /\ RG!Promise!AInit
  BY RingStarts
<1>2. RG!TypeOK /\ [RG!Next]_(RG!vars) => RG!TypeOK' /\ [RG!Promise!ANext]_(RG!Promise!avars)
  BY RingStep
<1>3. QED
  BY <1>1, <1>2, PTL DEF RG!Spec, RG!ImplementsWindow, RG!Promise!ASpec

CONSTANTS TOTALS, MaxTotal
VARIABLES journal_head, journal_total, journal_circular, journal_slots, journal_reply

JN == INSTANCE Journal WITH
  Entry <- Value, Blank <- Zero,
  write_head <- journal_head, total_written <- journal_total,
  circular <- journal_circular, slots <- journal_slots, reply <- journal_reply

\* The entries, as the promise names them.
JWindow == [n \in 1 .. JN!entry_count |-> journal_slots[JN!Physical(n - 1)]]

\* The head of a strict journal is its total.  That of a circular one is too, until
\* it has gone round.
JournalInv ==
  /\ JN!TypeOK
  /\ Capacity = 0 => journal_total = 0
  /\ Capacity > 0 /\ ~journal_circular => /\ journal_head = journal_total
                                          /\ journal_total <= Capacity
  /\ Capacity > 0 /\ journal_circular =>
       /\ journal_head < Capacity
       /\ journal_total < Capacity => journal_head = journal_total
       /\ journal_total = Capacity => journal_head = 0

\* The total does not come round.
TotalLasts == JN!JournalAssumption /\ MaxTotal < TOTALS

LEMMA JournalFacts ==
  ASSUME TotalLasts, JournalInv
  PROVE  /\ Capacity \in Nat /\ journal_total \in Nat /\ journal_head \in 0 .. Capacity
         /\ journal_slots \in [0 .. Capacity - 1 -> Value]
         /\ JN!entry_count = IF journal_total < Capacity THEN journal_total ELSE Capacity
         /\ JN!entry_count \in 0 .. Capacity
         /\ journal_total <= Capacity => \A i : JN!Physical(i) = i
         /\ Capacity > 0 /\ journal_circular /\ journal_total >= Capacity =>
              \A i \in 0 .. Capacity - 1 : JN!Physical(i) = Wrap(journal_head + i, Capacity)
         /\ JWindow \in [1 .. JN!entry_count -> Value]
         /\ Len(JWindow) = JN!entry_count
<1>1. /\ Capacity \in Nat /\ journal_total \in Nat /\ journal_head \in 0 .. Capacity
      /\ journal_slots \in [0 .. Capacity - 1 -> Value]
  BY DEF TotalLasts, JN!JournalAssumption, JournalInv, JN!TypeOK, JN!Position
<1>2. /\ JN!entry_count = IF journal_total < Capacity THEN journal_total ELSE Capacity
      /\ JN!entry_count \in 0 .. Capacity
  BY <1>1 DEF JN!entry_count
<1>3. journal_total <= Capacity => \A i : JN!Physical(i) = i
  BY <1>1 DEF JN!Physical, JN!has_wrapped
<1>4. ASSUME Capacity > 0, journal_circular, journal_total >= Capacity, NEW i \in 0 .. Capacity - 1
      PROVE  JN!Physical(i) = Wrap(journal_head + i, Capacity)
  <2>1. CASE journal_total = Capacity
    <3>1. journal_head = 0 /\ JN!Physical(i) = i
      BY <1>1, <1>3, <1>4, <2>1 DEF JournalInv
    <3>2. QED
      BY <1>1, <3>1 DEF Wrap
  <2>2. CASE journal_total > Capacity
    <3>1. Capacity \in Nat \ {0} /\ journal_head \in 0 .. Capacity - 1
      BY <1>1, <1>4 DEF JournalInv
    <3>2. JN!Physical(i) = (journal_head + i) % Capacity
      BY <2>2 DEF JN!Physical, JN!has_wrapped
    <3>3. QED
      BY <3>1, <3>2, RingMod
  <2>3. QED
    BY <1>1, <1>4, <2>1, <2>2
<1>5. ASSUME NEW i \in 0 .. JN!entry_count - 1 PROVE JN!Physical(i) \in 0 .. Capacity - 1
  <2>1. CASE journal_total <= Capacity
    BY <1>1, <1>2, <1>3, <2>1
  <2>2. CASE journal_total > Capacity
    <3>1. Capacity \in Nat \ {0} /\ i \in 0 .. Capacity - 1
      BY <1>1, <1>2, <2>2
    <3>2. journal_circular /\ journal_head \in 0 .. Capacity - 1
      BY <1>1, <2>2, <3>1 DEF JournalInv
    <3>3. Wrap(journal_head + i, Capacity) \in 0 .. Capacity - 1
      BY <3>1, <3>2, RingMod
    <3>4. Capacity > 0 /\ journal_total >= Capacity
      BY <1>1, <2>2, <3>1
    <3>5. JN!Physical(i) = Wrap(journal_head + i, Capacity)
      BY <1>4, <3>1, <3>2, <3>4
    <3>6. QED
      BY <3>3, <3>5
  <2>3. QED
    BY <1>1, <2>1, <2>2
<1>6. JWindow \in [1 .. JN!entry_count -> Value]
  <2>1. \A n \in 1 .. JN!entry_count : n - 1 \in 0 .. JN!entry_count - 1
    BY <1>2
  <2>2. QED
    BY <1>1, <1>5, <2>1 DEF JWindow
<1>7. JN!entry_count \in Nat
  BY <1>2
<1>8. QED
  BY <1>1, <1>2, <1>3, <1>4, <1>6, <1>7, WindowIsSeq

LEMMA JournalStarts ==
  ASSUME TotalLasts, JN!Init
  PROVE  JournalInv /\ JN!Promise!AInit
<1>1. JN!TypeOK
  <2>1. /\ journal_total \in 0 .. TOTALS - 1 /\ journal_head \in 0 .. Capacity
        /\ journal_head = Capacity => Capacity = 0
        /\ journal_slots \in [JN!Position -> Value]
    BY DEF TotalLasts, JN!JournalAssumption, JN!Init
  <2>2. journal_circular \in BOOLEAN
    BY DEF JN!Init
  <2>3. QED
    BY <2>1, <2>2 DEF JN!TypeOK
<1>2. JournalInv
  <2>1. /\ journal_total = 0 /\ journal_head = 0 /\ ~journal_circular
        /\ Capacity \in Nat
    BY DEF JN!Init, TotalLasts, JN!JournalAssumption
  <2>2. QED
    BY <1>1, <2>1 DEF JournalInv
<1>3. JWindow = <<>>
  <2>1. JN!entry_count = 0
    BY JournalFacts, <1>2 DEF JN!Init
  <2>2. QED
    BY <2>1 DEF JWindow
<1>4. JN!Promise!AInit
  BY <1>3 DEF JN!Init, JN!Promise!AInit, JN!Done, JWindow
<1>5. QED
  BY <1>2, <1>4

LEMMA ResetKeeps ==
  ASSUME TotalLasts, JournalInv, NEW mode \in BOOLEAN, JN!Reset(mode)
  PROVE  JournalInv' /\ JN!Promise!AReset(mode)
<1>1. /\ journal_head' = 0 /\ journal_total' = 0 /\ journal_circular' = mode
      /\ journal_slots' = journal_slots /\ journal_reply' = JN!Done("init", 0)
  BY DEF JN!Reset
<1>2. Capacity \in Nat /\ TOTALS \in Nat \ {0} /\ journal_slots \in [JN!Position -> Value]
  BY DEF TotalLasts, JN!JournalAssumption, JournalInv, JN!TypeOK
<1>3. JN!TypeOK'
  BY <1>1, <1>2 DEF JN!TypeOK, JN!Position
<1>4. JournalInv'
  BY <1>1, <1>2, <1>3 DEF JournalInv
<1>5. JWindow' = <<>>
  <2>1. JN!entry_count' = 0
    BY <1>1, <1>2 DEF JN!entry_count
  <2>2. QED
    BY <2>1 DEF JWindow
<1>6. JN!Promise!AReset(mode)
  BY <1>1, <1>5 DEF JN!Promise!AReset, JN!Done, JWindow
<1>7. QED
  BY <1>4, <1>6

LEMMA AppendKeeps ==
  ASSUME TotalLasts, JournalInv, NEW e \in Value, JN!AppendEntry(e)
  PROVE  JournalInv' /\ JN!Promise!AAppend(e)
<1> DEFINE m == Capacity
           h == journal_head
           n == journal_total
           w == JN!entry_count
<1>1. /\ m \in Nat /\ n \in Nat /\ h \in 0 .. m
      /\ w = (IF n < m THEN n ELSE m) /\ w \in 0 .. m
      /\ journal_slots \in [0 .. m - 1 -> Value]
      /\ JWindow \in [1 .. w -> Value] /\ Len(JWindow) = w
  BY JournalFacts
<1>2. journal_circular' = journal_circular /\ journal_circular \in BOOLEAN
  BY DEF JN!AppendEntry, JournalInv, JN!TypeOK
<1>3. CASE JN!AppendRefused
  <2>1. /\ UNCHANGED <<journal_head, journal_total, journal_slots>>
        /\ journal_reply' = JN!Refused("append")
    BY <1>3 DEF JN!AppendEntry
  <2>2. JournalInv'
    BY <1>2, <2>1 DEF JournalInv, JN!TypeOK, JN!Position
  <2>3. JWindow' = JWindow
    BY <2>1 DEF JWindow, JN!Physical, JN!has_wrapped, JN!entry_count
  <2>4. w = m /\ ~(journal_circular /\ m > 0)
    BY <1>1, <1>3 DEF JN!AppendRefused, JournalInv
  <2>5. JN!Promise!AAppend(e)
    BY <1>1, <1>2, <2>1, <2>3, <2>4 DEF JN!Promise!AAppend, JWindow, JN!Refused
  <2>6. QED
    BY <2>2, <2>5
<1>4. CASE ~JN!AppendRefused
  <2> DEFINE g == IF journal_circular THEN Turned(h, m) ELSE h + 1
  <2>1. m \in Nat \ {0} /\ h \in 0 .. m - 1
    BY <1>1, <1>4 DEF JN!AppendRefused, JournalInv
  <2>2. JN!Head0 = h /\ JN!HeadAfter = g /\ JN!TotalAfter = n + 1 /\ n + 1 < TOTALS
    <3>1. JN!Head0 = h
      BY <2>1 DEF JN!Head0
    <3>2. JN!HeadAfter = g
      BY <2>1, <3>1, RingMod DEF JN!HeadAfter
    <3>3. n + 1 < TOTALS /\ n + 1 \in Nat /\ TOTALS \in Nat \ {0} /\ n + 1 < 2 * TOTALS
      BY <1>1, <1>4 DEF JN!AppendEntry, TotalLasts, JN!JournalAssumption
    <3>4. (n + 1) % TOTALS = n + 1
      BY <3>3, ModOnce
    <3>5. QED
      BY <3>1, <3>2, <3>3, <3>4 DEF JN!TotalAfter
  <2>3. /\ journal_slots' = [journal_slots EXCEPT ![h] = e] /\ journal_head' = g
        /\ journal_total' = n + 1 /\ journal_reply' = JN!Done("append", 0)
    BY <1>4, <2>2 DEF JN!AppendEntry
  <2>4. /\ journal_slots' \in [0 .. m - 1 -> Value]
        /\ \A i \in 0 .. m - 1 : journal_slots'[i] = IF i = h THEN e ELSE journal_slots[i]
    BY <1>1, <2>1, <2>3
  <2>5. /\ journal_circular => /\ h < m /\ (n < m => h = n) /\ (n = m => h = 0)
        /\ ~journal_circular => h = n /\ n < m
    BY <1>1, <2>1 DEF JournalInv
  <2>6. /\ journal_circular => g \in 0 .. m - 1 /\ g = Turned(h, m)
        /\ ~journal_circular => g = n + 1
    BY <2>1, <2>5, RingMod
  <2>7. /\ journal_circular => g < m /\ (n + 1 < m => g = n + 1) /\ (n + 1 = m => g = 0)
        /\ ~journal_circular => g = n + 1 /\ n + 1 <= m
    <3>1. journal_circular /\ n + 1 < m => g = n + 1
      BY <1>1, <2>5, <2>6 DEF Turned
    <3>2. journal_circular /\ n + 1 = m => g = 0
      BY <1>1, <2>5, <2>6 DEF Turned
    <3>3. QED
      BY <1>1, <2>1, <2>5, <2>6, <3>1, <3>2
  <2> HIDE DEF g
  <2>8. JN!TypeOK'
    <3>1. n + 1 \in 0 .. TOTALS - 1
      BY <1>1, <2>2 DEF TotalLasts, JN!JournalAssumption
    <3>2. g \in 0 .. m /\ (g = m => ~journal_circular /\ n + 1 = m)
      BY <1>1, <2>1, <2>6, <2>7
    <3>3. QED
      BY <1>2, <2>3, <2>4, <3>1, <3>2 DEF JN!TypeOK, JN!Position
  <2>9. JournalInv'
    BY <1>2, <2>1, <2>3, <2>7, <2>8 DEF JournalInv
  <2>10. JN!entry_count' = IF n + 1 < m THEN n + 1 ELSE m
    BY <2>3 DEF JN!entry_count
  <2>11. JWindow' = [i \in 1 .. JN!entry_count' |-> JWindow'[i]]
    BY DEF JWindow
  <2>12. CASE n < m
    <3>1. JN!entry_count' = n + 1 /\ w = n /\ h = n
      BY <1>1, <2>1, <2>5, <2>10, <2>12
    <3>2. (\A i : JN!Physical(i) = i) /\ (\A i : JN!Physical(i)' = i)
      BY <1>1, <2>3, <2>12 DEF JN!Physical, JN!has_wrapped
    <3>3. ASSUME NEW i \in 1 .. n PROVE JWindow'[i] = JWindow[i]
      <4>1. i \in 1 .. n + 1 /\ i - 1 \in 0 .. m - 1 /\ i - 1 # h
        BY <1>1, <2>12, <3>1
      <4>2. JWindow'[i] = journal_slots'[i - 1]
        BY <3>1, <3>2, <4>1 DEF JWindow
      <4>3. QED
        BY <2>4, <3>1, <3>2, <4>1, <4>2 DEF JWindow
    <3>4. JWindow'[n + 1] = e
      <4>1. n + 1 \in 1 .. n + 1 /\ (n + 1) - 1 = n
        BY <1>1
      <4>2. JWindow'[n + 1] = journal_slots'[h]
        BY <3>1, <3>2, <4>1 DEF JWindow
      <4>3. QED
        BY <2>1, <2>4, <4>2
    <3>5. Grows(Value, n, JWindow, e, JWindow')
      <4>1. \A i \in 1 .. n + 1 : JWindow'[i] \in Value
        BY <1>1, <3>1, <3>3, <3>4
      <4>2. JWindow' \in [1 .. n + 1 -> Value]
        BY <2>11, <3>1, <4>1
      <4>3. QED
        BY <1>1, <3>1, <3>3, <3>4, <4>2 DEF Grows
    <3>6. JWindow' = Append(JWindow, e)
      BY <1>1, <3>5, WindowGrows
    <3>7. Len(JWindow) < Capacity /\ journal_reply' = JN!Promise!Done("append", 0)
      BY <1>1, <2>3, <2>12, <3>1 DEF JN!Done
    <3>8. JN!Promise!AAppend(e)
      BY <1>2, <3>6, <3>7, Zenon DEF JN!Promise!AAppend, JWindow
    <3>9. QED
      BY <2>9, <3>8
  <2>13. CASE ~(n < m)
    <3>1. JN!entry_count' = m /\ w = m /\ journal_circular /\ n >= m
      BY <1>1, <2>1, <2>5, <2>10, <2>13
    <3>2. g \in 0 .. m - 1 /\ g = Turned(h, m)
      BY <2>6, <3>1
    <3>3. /\ \A i \in 0 .. m - 2 : /\ Wrap(g + i, m) = Wrap(h + (i + 1), m)
                                   /\ Wrap(h + (i + 1), m) \in 0 .. m - 1 \ {h}
          /\ Wrap(g + (m - 1), m) = h
      <4>1. /\ \A i \in 0 .. m - 2 : /\ Wrap(Turned(h, m) + i, m) = Wrap(h + (i + 1), m)
                                     /\ Wrap(h + (i + 1), m) \in 0 .. m - 1 \ {h}
            /\ Wrap(Turned(h, m) + (m - 1), m) = h
        BY <2>1, RingTurns
      <4>2. QED
        BY <3>2, <4>1
    <3>4. \A i \in 0 .. m - 1 : /\ JN!Physical(i) = Wrap(h + i, m)
                                /\ JN!Physical(i)' = Wrap(g + i, m)
      <4>1. \A i \in 0 .. m - 1 : JN!Physical(i) = Wrap(h + i, m)
        BY <2>1, <3>1, JournalFacts
      <4>2. \A i \in 0 .. m - 1 : (g + i) % m = Wrap(g + i, m)
        BY <2>1, <3>2, RingMod
      <4>3. \A i : JN!Physical(i)' = (g + i) % m
        BY <1>1, <2>3, <3>1 DEF JN!Physical, JN!has_wrapped
      <4>4. QED
        BY <4>1, <4>2, <4>3
    <3>5. ASSUME NEW i \in 1 .. m - 1 PROVE JWindow'[i] = JWindow[i + 1]
      <4>1. /\ i - 1 \in 0 .. m - 2 /\ i - 1 \in 0 .. m - 1 /\ (i - 1) + 1 \in 0 .. m - 1
            /\ i \in 1 .. m /\ i + 1 \in 1 .. m /\ (i + 1) - 1 = (i - 1) + 1
        BY <2>1
      <4>2. JWindow'[i] = journal_slots'[Wrap(g + (i - 1), m)]
        BY <3>1, <3>4, <4>1 DEF JWindow
      <4>3. JWindow[i + 1] = journal_slots[Wrap(h + ((i - 1) + 1), m)]
        BY <3>1, <3>4, <4>1 DEF JWindow
      <4>4. QED
        BY <2>4, <3>3, <4>1, <4>2, <4>3
    <3>6. JWindow'[m] = e
      <4>1. m \in 1 .. m /\ m - 1 \in 0 .. m - 1
        BY <2>1
      <4>2. JWindow'[m] = journal_slots'[Wrap(g + (m - 1), m)]
        BY <3>1, <3>4, <4>1 DEF JWindow
      <4>3. QED
        BY <2>1, <2>4, <3>3, <4>2
    <3>7. Slides(Value, m, JWindow, e, JWindow')
      <4>1. \A i \in 1 .. m : JWindow'[i] \in Value
        <5>1. ASSUME NEW i \in 1 .. m, i # m PROVE JWindow'[i] \in Value
          <6>1. i \in 1 .. m - 1 /\ i + 1 \in 1 .. m
            BY <2>1, <5>1
          <6>2. QED
            BY <1>1, <3>1, <3>5, <6>1
        <5>2. QED
          BY <3>6, <5>1
      <4>2. JWindow' \in [1 .. m -> Value]
        BY <2>11, <3>1, <4>1
      <4>3. QED
        BY <1>1, <3>1, <3>5, <3>6, <4>2 DEF Slides
    <3>8. JWindow' = Append(Tail(JWindow), e)
      BY <2>1, <3>7, WindowSlides
    <3>9. /\ Len(JWindow) = Capacity /\ Capacity > 0 /\ journal_circular
          /\ journal_reply' = JN!Promise!Done("append", 0)
      BY <1>1, <2>1, <2>3, <3>1 DEF JN!Done
    <3>10. JN!Promise!AAppend(e)
      BY <1>2, <3>8, <3>9, Zenon DEF JN!Promise!AAppend, JWindow
    <3>11. QED
      BY <2>9, <3>10
  <2>14. QED
    BY <2>12, <2>13
<1>5. QED
  BY <1>3, <1>4

LEMMA ReadKeeps ==
  ASSUME TotalLasts, JournalInv, NEW i \in 0 .. Capacity, JN!ReadEntry(i)
  PROVE  JournalInv' /\ JN!Promise!ARead(i)
<1>1. UNCHANGED <<journal_head, journal_total, journal_circular, journal_slots>>
  BY DEF JN!ReadEntry
<1>2. JournalInv'
  BY <1>1 DEF JournalInv, JN!TypeOK, JN!Position
<1>3. JWindow' = JWindow
  BY <1>1 DEF JWindow, JN!Physical, JN!has_wrapped, JN!entry_count
<1>4. JN!entry_count \in 0 .. Capacity /\ Capacity \in Nat /\ Len(JWindow) = JN!entry_count
  BY JournalFacts
<1>5. i < JN!entry_count => JWindow[i + 1] = journal_slots[JN!Physical(i)]
  <2>1. i < JN!entry_count => i + 1 \in 1 .. JN!entry_count /\ (i + 1) - 1 = i
    BY <1>4
  <2>2. QED
    BY <2>1 DEF JWindow
<1>6. journal_reply' = IF i < Len(JWindow) THEN JN!Promise!Done("read", JWindow[i + 1])
                                                 ELSE JN!Promise!Refused("read")
  BY <1>4, <1>5 DEF JN!ReadEntry, JN!Done, JN!Refused
<1>7. JN!Promise!ARead(i)
  BY <1>1, <1>3, <1>6 DEF JN!Promise!ARead, JWindow
<1>8. QED
  BY <1>2, <1>7

LEMMA JournalStep ==
  ASSUME TotalLasts
  PROVE  JournalInv /\ [JN!Next]_(JN!vars) => JournalInv' /\ [JN!Promise!ANext]_(JN!Promise!avars)
<1>1. SUFFICES ASSUME JournalInv, [JN!Next]_(JN!vars)
               PROVE  JournalInv' /\ [JN!Promise!ANext]_(JN!Promise!avars)
  OBVIOUS
<1>2. CASE \E mode \in BOOLEAN : JN!Reset(mode)
  BY <1>1, <1>2, ResetKeeps DEF JN!Promise!ANext
<1>3. CASE \E e \in Value : JN!AppendEntry(e)
  BY <1>1, <1>3, AppendKeeps DEF JN!Promise!ANext
<1>4. CASE \E i \in 0 .. Capacity : JN!ReadEntry(i)
  BY <1>1, <1>4, ReadKeeps DEF JN!Promise!ANext
<1>5. CASE UNCHANGED JN!vars
  <2>1. UNCHANGED <<journal_head, journal_total, journal_circular, journal_slots, journal_reply>>
    BY <1>5 DEF JN!vars
  <2>2. JournalInv'
    BY <1>1, <2>1 DEF JournalInv, JN!TypeOK, JN!Position
  <2>3. UNCHANGED JN!Promise!avars
    BY <2>1 DEF JN!Promise!avars, JN!Physical, JN!has_wrapped, JN!entry_count
  <2>4. QED
    BY <2>2, <2>3
<1>6. QED
  BY <1>1, <1>2, <1>3, <1>4, <1>5 DEF JN!Next

\* While its total lasts a journal shows the last entries appended, oldest first,
\* after any number of wraps and resets; a strict one keeps what it has when it
\* refuses, and the head stays where the entries are (collections/journal.rs).
THEOREM JournalImplementsWindow ==
  ASSUME TotalLasts
  PROVE  JN!Spec => []JN!TypeOK /\ JN!ImplementsWindow
<1>1. JN!Init => JournalInv /\ JN!Promise!AInit
  BY JournalStarts
<1>2. JournalInv /\ [JN!Next]_(JN!vars) => JournalInv' /\ [JN!Promise!ANext]_(JN!Promise!avars)
  BY JournalStep
<1>3. JournalInv => JN!TypeOK
  BY DEF JournalInv
<1>4. QED
  BY <1>1, <1>2, <1>3, PTL DEF JN!Spec, JN!ImplementsWindow, JN!Promise!ASpec

-----------------------------------------------------------------------------
(* The sorted vec *)

CONSTANTS Rank, Tag, ZeroTag
VARIABLES sv_len, sv_elements, sv_reply

SV == INSTANCE SortedVec WITH
  Zero <- ZeroTag, len <- sv_len, elements <- sv_elements, reply <- sv_reply

At(f, p, q) == f[<<p, q>>]

\* One step of the search, and a function that takes these steps wherever at most
\* d places are left.
Step(f, p, q, r) ==
  LET mid == p + (q - p) \div 2
  IN  IF p >= q                          THEN [found |-> FALSE, at |-> p]
      ELSE IF SV!TooSmall(sv_elements[mid], r) THEN At(f, mid + 1, q)
      ELSE IF sv_elements[mid].rank = r    THEN [found |-> TRUE, at |-> mid]
      ELSE At(f, p, mid)

Probes(f, d, n, r) ==
  /\ f = [pair \in (0 .. n) \X (0 .. n) |-> f[pair]]
  /\ \A p, q \in 0 .. n : q - p <= d => At(f, p, q) = Step(f, p, q, r)

LEMMA MidIsBetween ==
  ASSUME NEW n \in Nat, NEW p \in 0 .. n, NEW q \in 0 .. n, p < q
  PROVE  LET mid == p + (q - p) \div 2
         IN  mid \in p .. q - 1 /\ mid \in 0 .. n /\ mid + 1 \in 0 .. n
<1> DEFINE half == (q - p) \div 2
<1>1. half \in Nat /\ 2 * half <= q - p
  OBVIOUS
<1> HIDE DEF half
<1>2. p + half \in p .. q - 1 /\ p + half \in 0 .. n /\ (p + half) + 1 \in 0 .. n
  BY <1>1
<1>3. QED
  BY <1>2 DEF half

LEMMA ProbesExist ==
  ASSUME NEW n \in Nat, NEW r
  PROVE  \A d \in Nat : \E f : Probes(f, d, n, r)
<1> DEFINE Bad == {d \in Nat : ~\E f : Probes(f, d, n, r)}
<1>1. SUFFICES ASSUME Bad # {} PROVE FALSE
  OBVIOUS
<1>2. PICK d \in Bad : \A y \in Bad : d <= y
  <2>1. Bad \subseteq Nat
    OBVIOUS
  <2> HIDE DEF Bad
  <2>2. QED
    BY <1>1, <2>1, LeastElement
<1>3. d \in Nat /\ ~\E f : Probes(f, d, n, r)
  OBVIOUS
<1>4. PICK f : /\ f = [pair \in (0 .. n) \X (0 .. n) |-> f[pair]]
               /\ \A p, q \in 0 .. n : q - p < d => At(f, p, q) = Step(f, p, q, r)
  <2>1. CASE d = 0
    <3>1. PICK f : f = [pair \in (0 .. n) \X (0 .. n) |-> [found |-> FALSE, at |-> pair[1]]]
      OBVIOUS
    <3>2. ASSUME NEW p \in 0 .. n, NEW q \in 0 .. n, q - p < d
          PROVE  At(f, p, q) = Step(f, p, q, r)
      <4>1. <<p, q>> \in (0 .. n) \X (0 .. n) /\ <<p, q>>[1] = p
        OBVIOUS
      <4>2. At(f, p, q) = [found |-> FALSE, at |-> p]
        BY <3>1, <4>1 DEF At
      <4>3. p >= q
        BY <2>1, <3>2
      <4>4. QED
        BY <4>2, <4>3 DEF Step
    <3>3. f = [pair \in (0 .. n) \X (0 .. n) |-> f[pair]]
      BY <3>1
    <3>4. QED
      BY <3>2, <3>3
  <2>2. CASE d # 0
    <3>1. d - 1 \in Nat /\ ~(d <= d - 1)
      BY <1>3, <2>2
    <3>2. d - 1 \notin Bad
      <4> HIDE DEF Bad
      <4>1. QED
        BY <1>2, <3>1
    <3>3. PICK f : Probes(f, d - 1, n, r)
      BY <3>1, <3>2
    <3>4. \A p, q \in 0 .. n : q - p < d => q - p <= d - 1
      BY <1>3
    <3>5. QED
      BY <3>3, <3>4 DEF Probes
  <2>3. QED
    BY <2>1, <2>2
<1>5. PICK g : g = [pair \in (0 .. n) \X (0 .. n) |->
                      IF pair[2] - pair[1] < d THEN f[pair]
                      ELSE Step(f, pair[1], pair[2], r)]
  OBVIOUS
<1>6. g = [pair \in (0 .. n) \X (0 .. n) |-> g[pair]]
  BY <1>5
<1>7. ASSUME NEW p \in 0 .. n, NEW q \in 0 .. n
      PROVE  /\ q - p < d => At(g, p, q) = At(f, p, q)
             /\ q - p <= d => At(g, p, q) = Step(f, p, q, r)
  <2>1. <<p, q>> \in (0 .. n) \X (0 .. n) /\ <<p, q>>[1] = p /\ <<p, q>>[2] = q
    OBVIOUS
  <2>2. g[<<p, q>>] = IF q - p < d THEN f[<<p, q>>] ELSE Step(f, p, q, r)
    BY <1>5, <2>1
  <2>3. At(g, p, q) = IF q - p < d THEN At(f, p, q) ELSE Step(f, p, q, r)
    BY <2>2 DEF At
  <2>4. q - p < d => At(f, p, q) = Step(f, p, q, r)
    BY <1>4
  <2>5. QED
    BY <2>3, <2>4
<1>8. ASSUME NEW p \in 0 .. n, NEW q \in 0 .. n, q - p <= d
      PROVE  Step(g, p, q, r) = Step(f, p, q, r)
  <2> DEFINE mid == p + (q - p) \div 2
  <2>1. CASE p >= q
    BY <2>1 DEF Step
  <2>2. CASE p < q
    <3>1. mid \in p .. q - 1 /\ mid \in 0 .. n /\ mid + 1 \in 0 .. n
      BY <2>2, MidIsBetween
    <3> HIDE DEF mid
    <3>2. q - (mid + 1) < d /\ mid - p < d
      BY <1>3, <1>8, <3>1
    <3>3. At(g, mid + 1, q) = At(f, mid + 1, q) /\ At(g, p, mid) = At(f, p, mid)
      BY <1>7, <3>1, <3>2
    <3>4. QED
      BY <3>3 DEF Step, mid
  <2>3. QED
    BY <2>1, <2>2
<1>9. Probes(g, d, n, r)
  BY <1>6, <1>7, <1>8 DEF Probes
<1>10. QED
  BY <1>3, <1>9

\* What the search between two places finds among ascending ranks.
Located(s, p, q, r) ==
  IF s.found
    THEN s.at \in p .. q - 1 /\ sv_elements[s.at].rank = r
    ELSE /\ s.at \in p .. q
         /\ \A i \in p .. s.at - 1 : sv_elements[i].rank < r
         /\ \A i \in s.at .. q - 1 : sv_elements[i].rank > r

Between(n, f, r) ==
  \A p, q \in 0 .. n :
    p <= q => At(f, p, q).found \in BOOLEAN /\ Located(At(f, p, q), p, q, r)

Ascends(n) ==
  /\ \A i \in 0 .. n - 1 : sv_elements[i].rank \in Nat
  /\ \A i, j \in 0 .. n - 1 : i <= j => sv_elements[i].rank <= sv_elements[j].rank

LEMMA ProbesLocate ==
  ASSUME NEW n \in Nat, NEW r \in Nat, NEW f, Probes(f, n, n, r), Ascends(n)
  PROVE  Between(n, f, r)
<1> DEFINE Good(p, q) == At(f, p, q).found \in BOOLEAN /\ Located(At(f, p, q), p, q, r)
           Bad == {d \in 0 .. n : \E p, q \in 0 .. n : q - p = d /\ ~Good(p, q)}
<1>1. SUFFICES ASSUME Bad # {} PROVE FALSE
  <2>1. Bad = {}
    BY <1>1
  <2>2. ASSUME NEW p \in 0 .. n, NEW q \in 0 .. n, p <= q PROVE Good(p, q)
    <3>1. q - p \in 0 .. n
      BY <2>2
    <3> HIDE DEF Good
    <3>2. QED
      BY <2>1, <3>1
  <2>3. QED
    BY <2>2 DEF Between
<1>2. PICK d \in Bad : \A y \in Bad : d <= y
  <2>1. Bad \subseteq Nat
    OBVIOUS
  <2> HIDE DEF Bad
  <2>2. QED
    BY <1>1, <2>1, LeastElement
<1> HIDE DEF Good
<1>3. PICK p \in 0 .. n, q \in 0 .. n : q - p = d /\ ~Good(p, q)
  OBVIOUS
<1>4. d \in 0 .. n /\ p <= q
  BY <1>3
<1>5. ASSUME NEW l \in 0 .. n, NEW h \in 0 .. n, l <= h, h - l < d PROVE Good(l, h)
  <2>1. h - l \in 0 .. n /\ ~(d <= h - l)
    BY <1>4, <1>5
  <2>2. h - l \notin Bad
    <3> HIDE DEF Bad
    <3>1. QED
      BY <1>2, <2>1
  <2>3. QED
    BY <2>1, <2>2
<1>6. At(f, p, q) = Step(f, p, q, r)
  BY <1>3, <1>4 DEF Probes
<1>7. CASE p = q
  <2>1. At(f, p, q) = [found |-> FALSE, at |-> p]
    BY <1>6, <1>7 DEF Step
  <2>2. Good(p, q)
    BY <1>7, <2>1 DEF Good, Located
  <2>3. QED
    BY <1>3, <2>2
<1>8. CASE p < q
  <2> DEFINE mid == p + (q - p) \div 2
  <2>1. mid \in p .. q - 1 /\ mid \in 0 .. n /\ mid + 1 \in 0 .. n
    BY <1>8, MidIsBetween
  <2>2. At(f, p, q) = IF SV!TooSmall(sv_elements[mid], r) THEN At(f, mid + 1, q)
                    ELSE IF sv_elements[mid].rank = r THEN [found |-> TRUE, at |-> mid]
                    ELSE At(f, p, mid)
    BY <1>6, <1>8 DEF Step
  <2> HIDE DEF mid
  <2>3. /\ sv_elements[mid].rank \in Nat
        /\ \A i \in p .. mid : sv_elements[i].rank <= sv_elements[mid].rank
        /\ \A i \in mid .. q - 1 : sv_elements[mid].rank <= sv_elements[i].rank
        /\ \A i \in p .. q - 1 : sv_elements[i].rank \in Nat
    BY <1>3, <2>1 DEF Ascends
  <2>4. CASE sv_elements[mid].rank < r
    <3>1. At(f, p, q) = At(f, mid + 1, q)
      BY <2>2, <2>4 DEF SV!TooSmall
    <3>2. Good(mid + 1, q)
      BY <1>3, <1>5, <2>1
    <3>3. \A i \in p .. mid : sv_elements[i].rank < r
      BY <2>1, <2>3, <2>4
    <3>4. Good(p, q)
      <4>1. PICK s : s = At(f, p, q) /\ s = At(f, mid + 1, q)
        BY <3>1
      <4>2. s.found \in BOOLEAN /\ Located(s, mid + 1, q, r)
        BY <3>2, <4>1 DEF Good
      <4>3. Located(s, p, q, r)
        <5>1. CASE s.found
          BY <2>1, <4>2, <5>1 DEF Located
        <5>2. CASE ~s.found
          <6>1. /\ s.at \in mid + 1 .. q
                /\ \A i \in mid + 1 .. s.at - 1 : sv_elements[i].rank < r
                /\ \A i \in s.at .. q - 1 : sv_elements[i].rank > r
            BY <4>2, <5>2 DEF Located
          <6>2. s.at \in p .. q
            BY <2>1, <6>1
          <6>3. \A i \in p .. s.at - 1 : sv_elements[i].rank < r
            BY <2>1, <3>3, <6>1
          <6>4. QED
            BY <5>2, <6>1, <6>2, <6>3 DEF Located
        <5>3. QED
          BY <5>1, <5>2
      <4>4. QED
        BY <4>1, <4>2, <4>3 DEF Good
    <3>5. QED
      BY <1>3, <3>4
  <2>5. CASE sv_elements[mid].rank = r
    <3>1. At(f, p, q) = [found |-> TRUE, at |-> mid]
      BY <2>2, <2>3, <2>5 DEF SV!TooSmall
    <3>2. Good(p, q)
      BY <2>1, <2>5, <3>1 DEF Good, Located
    <3>3. QED
      BY <1>3, <3>2
  <2>6. CASE sv_elements[mid].rank > r
    <3>1. At(f, p, q) = At(f, p, mid)
      BY <2>2, <2>3, <2>6 DEF SV!TooSmall
    <3>2. Good(p, mid)
      BY <1>3, <1>5, <2>1
    <3>3. \A i \in mid .. q - 1 : sv_elements[i].rank > r
      BY <2>1, <2>3, <2>6
    <3>4. Good(p, q)
      <4>1. PICK s : s = At(f, p, q) /\ s = At(f, p, mid)
        BY <3>1
      <4>2. s.found \in BOOLEAN /\ Located(s, p, mid, r)
        BY <3>2, <4>1 DEF Good
      <4>3. Located(s, p, q, r)
        <5>1. CASE s.found
          BY <2>1, <4>2, <5>1 DEF Located
        <5>2. CASE ~s.found
          <6>1. /\ s.at \in p .. mid
                /\ \A i \in p .. s.at - 1 : sv_elements[i].rank < r
                /\ \A i \in s.at .. mid - 1 : sv_elements[i].rank > r
            BY <4>2, <5>2 DEF Located
          <6>2. s.at \in p .. q
            BY <2>1, <6>1
          <6>3. \A i \in s.at .. q - 1 : sv_elements[i].rank > r
            BY <2>1, <3>3, <6>1
          <6>4. QED
            BY <5>2, <6>1, <6>2, <6>3 DEF Located
        <5>3. QED
          BY <5>1, <5>2
      <4>4. QED
        BY <4>1, <4>2, <4>3 DEF Good
    <3>5. QED
      BY <1>3, <3>4
  <2>7. QED
    BY <2>3, <2>4, <2>5, <2>6
<1>9. QED
  BY <1>4, <1>7, <1>8

\* Where each rank is found in the whole vec, or would go.
EachRankLocated ==
  \A r \in Rank : /\ SV!Search(r).found \in BOOLEAN
                  /\ Located(SV!Search(r), 0, sv_len, r)

SortedInv == SV!TypeOK /\ Ascends(sv_len)

LEMMA SearchLocates ==
  ASSUME SV!SortedVecAssumption, SortedInv
  PROVE  EachRankLocated
<1>1. SUFFICES ASSUME NEW r \in Rank
               PROVE  /\ SV!Search(r).found \in BOOLEAN
                      /\ Located(SV!Search(r), 0, sv_len, r)
  BY DEF EachRankLocated
<1>2. sv_len \in Nat /\ r \in Nat /\ Ascends(sv_len)
  BY DEF SortedInv, SV!TypeOK, SV!SortedVecAssumption
<1> DEFINE Body(h) ==
             [pair \in (0 .. sv_len) \X (0 .. sv_len) |->
                LET mid == pair[1] + (pair[2] - pair[1]) \div 2
                IN  IF pair[1] >= pair[2] THEN [found |-> FALSE, at |-> pair[1]]
                    ELSE IF SV!TooSmall(sv_elements[mid], r) THEN h[<<mid + 1, pair[2]>>]
                    ELSE IF sv_elements[mid].rank = r THEN [found |-> TRUE, at |-> mid]
                    ELSE h[<<pair[1], mid>>]]
           Probe0 == CHOOSE h : h = Body(h)
<1>3. SV!Search(r) = Probe0[<<0, sv_len>>]
  BY DEF SV!Search
<1>4. PICK f : Probes(f, sv_len, sv_len, r)
  BY <1>2, ProbesExist
<1>5. ASSUME NEW pair \in (0 .. sv_len) \X (0 .. sv_len)
      PROVE  f[pair] = Body(f)[pair]
  <2>1. PICK p \in 0 .. sv_len, q \in 0 .. sv_len : pair = <<p, q>>
    OBVIOUS
  <2>2. q - p <= sv_len
    BY <1>2
  <2>3. At(f, p, q) = Step(f, p, q, r)
    BY <1>4, <2>2 DEF Probes
  <2>4. Step(f, p, q, r) = Body(f)[pair]
    BY <2>1 DEF Step, At
  <2>5. QED
    BY <2>1, <2>3, <2>4 DEF At
<1>6. f = Body(f)
  <2>1. f = [pair \in (0 .. sv_len) \X (0 .. sv_len) |-> f[pair]]
    BY <1>4 DEF Probes
  <2>2. Body(f) = [pair \in (0 .. sv_len) \X (0 .. sv_len) |-> Body(f)[pair]]
    OBVIOUS
  <2>3. [pair \in (0 .. sv_len) \X (0 .. sv_len) |-> f[pair]]
          = [pair \in (0 .. sv_len) \X (0 .. sv_len) |-> Body(f)[pair]]
    <3> HIDE DEF Body
    <3>1. QED
      BY <1>5
  <2> HIDE DEF Body
  <2>4. QED
    BY <2>1, <2>2, <2>3
<1>7. Probe0 = Body(Probe0)
  <2> HIDE DEF Body
  <2>1. QED
    BY <1>6
<1>8. PICK probe : probe = Probe0
  OBVIOUS
<1> HIDE DEF Probe0
<1>9. probe = Body(probe)
  <2> HIDE DEF Body
  <2>1. QED
    BY <1>7, <1>8
<1>10. ASSUME NEW p \in 0 .. sv_len, NEW q \in 0 .. sv_len
       PROVE  At(probe, p, q) = Step(probe, p, q, r)
  <2>1. /\ <<p, q>> \in (0 .. sv_len) \X (0 .. sv_len)
        /\ <<p, q>>[1] = p /\ <<p, q>>[2] = q
    OBVIOUS
  <2>2. probe[<<p, q>>] = Body(probe)[<<p, q>>]
    <3> HIDE DEF Body
    <3>1. QED
      BY <1>9
  <2>3. Body(probe)[<<p, q>>] = Step(probe, p, q, r)
    BY <2>1 DEF Step, At
  <2>4. QED
    BY <2>2, <2>3 DEF At
<1>11. Probes(probe, sv_len, sv_len, r)
  <2>1. Body(probe) = [pair \in (0 .. sv_len) \X (0 .. sv_len) |-> Body(probe)[pair]]
    OBVIOUS
  <2>2. probe = [pair \in (0 .. sv_len) \X (0 .. sv_len) |-> probe[pair]]
    <3> HIDE DEF Body
    <3>1. QED
      BY <1>9, <2>1
  <2> HIDE DEF Body
  <2>3. QED
    BY <1>10, <2>2 DEF Probes
<1>12. Between(sv_len, probe, r)
  BY <1>2, <1>11, ProbesLocate
<1>13. At(probe, 0, sv_len).found \in BOOLEAN /\ Located(At(probe, 0, sv_len), 0, sv_len, r)
  <2>1. 0 \in 0 .. sv_len /\ sv_len \in 0 .. sv_len /\ 0 <= sv_len
    BY <1>2
  <2>2. QED
    BY <1>12, <2>1 DEF Between
<1>14. At(probe, 0, sv_len) = SV!Search(r)
  BY <1>3, <1>8 DEF At
<1>15. QED
  BY <1>13, <1>14

-----------------------------------------------------------------------------
\* An element of the rank sought may go where the search points.
Suits(at, r) ==
  /\ at \in 0 .. sv_len
  /\ \A i \in 0 .. at - 1 : sv_elements[i].rank <= r
  /\ \A i \in at .. sv_len - 1 : r <= sv_elements[i].rank

LEMMA SearchSuits ==
  ASSUME SV!SortedVecAssumption, SortedInv, NEW r \in Rank
  PROVE  /\ SV!Search(r).found \in BOOLEAN
         /\ Suits(SV!Search(r).at, r)
         /\ SV!Search(r).found => SV!Search(r).at \in 0 .. sv_len - 1
<1>1. PICK s : s = SV!Search(r)
  OBVIOUS
<1>2. s.found \in BOOLEAN /\ Located(s, 0, sv_len, r)
  BY <1>1, SearchLocates DEF EachRankLocated
<1>3. sv_len \in Nat /\ r \in Nat /\ Ascends(sv_len)
  BY DEF SortedInv, SV!TypeOK, SV!SortedVecAssumption
<1>4. CASE s.found
  <2>1. s.at \in 0 .. sv_len - 1 /\ sv_elements[s.at].rank = r
    BY <1>2, <1>4 DEF Located
  <2>2. PICK k \in 0 .. sv_len - 1 : k = s.at
    BY <2>1
  <2>3. Suits(k, r)
    BY <1>3, <2>1, <2>2 DEF Suits, Ascends
  <2>4. QED
    BY <1>1, <1>2, <2>1, <2>2, <2>3
<1>5. CASE ~s.found
  <2>1. /\ s.at \in 0 .. sv_len
        /\ \A i \in 0 .. s.at - 1 : sv_elements[i].rank < r
        /\ \A i \in s.at .. sv_len - 1 : sv_elements[i].rank > r
    BY <1>2, <1>5 DEF Located
  <2>2. PICK k \in 0 .. sv_len : k = s.at
    BY <2>1
  <2>3. Suits(k, r)
    <3>1. \A i \in 0 .. k - 1 : i \in 0 .. sv_len - 1 /\ sv_elements[i].rank < r
      BY <1>3, <2>1, <2>2
    <3>2. \A i \in k .. sv_len - 1 : i \in 0 .. sv_len - 1 /\ sv_elements[i].rank > r
      BY <1>3, <2>1, <2>2
    <3>3. \A i \in 0 .. sv_len - 1 : sv_elements[i].rank \in Nat
      BY <1>3 DEF Ascends
    <3>4. \A i \in 0 .. k - 1 : sv_elements[i].rank <= r
      BY <1>3, <3>1, <3>3
    <3>5. \A i \in k .. sv_len - 1 : r <= sv_elements[i].rank
      BY <1>3, <3>2, <3>3
    <3>6. QED
      BY <3>4, <3>5 DEF Suits
  <2>4. QED
    BY <1>1, <1>2, <1>5, <2>2, <2>3
<1>6. QED
  BY <1>2, <1>4, <1>5

LEMMA PutKeepsOrder ==
  ASSUME SV!SortedVecAssumption, SortedInv, NEW at, NEW e \in SV!Element, NEW call,
         Suits(at, e.rank), ~SV!Full, SV!Put(at, e, call)
  PROVE  SortedInv'
<1>1. /\ sv_len \in Nat /\ Capacity \in Nat /\ sv_len < Capacity
      /\ sv_elements \in [SV!Index -> SV!Element] /\ Ascends(sv_len)
  BY DEF SortedInv, SV!TypeOK, SV!Full, SV!SortedVecAssumption
<1>2. /\ at \in 0 .. sv_len
      /\ \A i \in 0 .. at - 1 : sv_elements[i].rank <= e.rank
      /\ \A i \in at .. sv_len - 1 : e.rank <= sv_elements[i].rank
  BY DEF Suits
<1>3. /\ sv_len' = sv_len + 1
      /\ sv_elements' = [i \in 0 .. Capacity - 1 |->
                           IF i < at \/ i > sv_len THEN sv_elements[i]
                           ELSE IF i = at THEN e ELSE sv_elements[i - 1]]
  BY DEF SV!Put, SV!ShiftedRight, SV!Index
<1>4. ASSUME NEW i \in 0 .. Capacity - 1 PROVE sv_elements'[i] \in SV!Element
  <2>1. i > at /\ i <= sv_len => i - 1 \in SV!Index
    BY <1>1, <1>2 DEF SV!Index
  <2>2. i \in SV!Index
    BY DEF SV!Index
  <2>3. sv_elements'[i] = IF i < at \/ i > sv_len THEN sv_elements[i]
                          ELSE IF i = at THEN e ELSE sv_elements[i - 1]
    BY <1>3
  <2>4. CASE i < at \/ i > sv_len
    BY <1>1, <2>2, <2>3, <2>4
  <2>5. CASE i = at /\ ~(i < at \/ i > sv_len)
    BY <2>3, <2>5
  <2>6. CASE i # at /\ ~(i < at \/ i > sv_len)
    <3>1. i > at /\ i <= sv_len
      BY <1>1, <1>2, <2>6
    <3>2. QED
      BY <1>1, <2>1, <2>3, <2>6, <3>1
  <2>7. QED
    BY <2>4, <2>5, <2>6
<1>5. SV!TypeOK'
  <2>1. sv_elements' \in [0 .. Capacity - 1 -> SV!Element]
    <3>1. sv_elements' = [i \in 0 .. Capacity - 1 |-> sv_elements'[i]]
      BY <1>3
    <3>2. QED
      BY <1>4, <3>1
  <2>2. sv_len' \in 0 .. Capacity
    BY <1>1, <1>3
  <2>3. QED
    BY <2>1, <2>2 DEF SV!TypeOK, SV!Index, SV!Element
<1>6. /\ \A i \in 0 .. sv_len - 1 : sv_elements[i].rank \in Nat
      /\ \A i, j \in 0 .. sv_len - 1 :
           i <= j => sv_elements[i].rank <= sv_elements[j].rank
  BY <1>1 DEF Ascends
<1>7. e.rank \in Nat
  BY DEF SV!Element, SV!SortedVecAssumption
<1>8. \A i \in 0 .. sv_len :
        /\ i < at => sv_elements'[i].rank = sv_elements[i].rank /\ i \in 0 .. sv_len - 1
        /\ i = at => sv_elements'[i].rank = e.rank
        /\ i > at => sv_elements'[i].rank = sv_elements[i - 1].rank /\ i - 1 \in at .. sv_len - 1
  BY <1>1, <1>2, <1>3
<1>9. \A i \in 0 .. sv_len : sv_elements'[i].rank \in Nat
  BY <1>2, <1>6, <1>7, <1>8
<1>10. ASSUME NEW i \in 0 .. sv_len, NEW j \in 0 .. sv_len, i <= j
       PROVE  sv_elements'[i].rank <= sv_elements'[j].rank
  <2>1. CASE j < at
    BY <1>2, <1>6, <1>8, <1>10, <2>1
  <2>2. CASE j = at
    BY <1>2, <1>6, <1>7, <1>8, <1>10, <2>2
  <2>3. CASE j > at /\ i < at
    BY <1>2, <1>6, <1>7, <1>8, <1>10, <2>3
  <2>4. CASE j > at /\ i = at
    BY <1>2, <1>6, <1>7, <1>8, <1>10, <2>4
  <2>5. CASE j > at /\ i > at
    BY <1>2, <1>6, <1>7, <1>8, <1>10, <2>5
  <2>6. QED
    BY <1>2, <2>1, <2>2, <2>3, <2>4, <2>5
<1>11. Ascends(sv_len)'
  <2>1. sv_len' - 1 = sv_len
    BY <1>1, <1>3
  <2>2. QED
    BY <1>9, <1>10, <2>1 DEF Ascends
<1>12. QED
  BY <1>5, <1>11 DEF SortedInv

LEMMA TakeKeepsOrder ==
  ASSUME SV!SortedVecAssumption, SortedInv, NEW at \in 0 .. sv_len - 1, SV!Take(at)
  PROVE  SortedInv'
<1>1. /\ sv_len \in Nat /\ Capacity \in Nat /\ sv_len <= Capacity
      /\ sv_elements \in [SV!Index -> SV!Element] /\ Ascends(sv_len)
      /\ at \in Nat /\ at < sv_len
  BY DEF SortedInv, SV!TypeOK, SV!SortedVecAssumption
<1>2. /\ sv_len' = sv_len - 1
      /\ sv_elements' = [i \in 0 .. Capacity - 1 |->
                           IF i < at \/ i >= sv_len THEN sv_elements[i]
                           ELSE IF i = sv_len - 1 THEN SV!Blank ELSE sv_elements[i + 1]]
  BY DEF SV!Take, SV!ShiftedLeft, SV!Index
<1>3. SV!Blank \in SV!Element
  BY DEF SV!Blank, SV!Element, SV!SortedVecAssumption
<1>4. ASSUME NEW i \in 0 .. Capacity - 1 PROVE sv_elements'[i] \in SV!Element
  <2>1. i < sv_len - 1 => i + 1 \in SV!Index
    BY <1>1 DEF SV!Index
  <2>2. i \in SV!Index
    BY DEF SV!Index
  <2>3. sv_elements'[i] = IF i < at \/ i >= sv_len THEN sv_elements[i]
                          ELSE IF i = sv_len - 1 THEN SV!Blank ELSE sv_elements[i + 1]
    BY <1>2
  <2>4. CASE i < at \/ i >= sv_len
    BY <1>1, <2>2, <2>3, <2>4
  <2>5. CASE i = sv_len - 1 /\ ~(i < at \/ i >= sv_len)
    BY <1>3, <2>3, <2>5
  <2>6. CASE i # sv_len - 1 /\ ~(i < at \/ i >= sv_len)
    <3>1. i < sv_len - 1
      BY <1>1, <2>6
    <3>2. QED
      BY <1>1, <2>1, <2>3, <2>6, <3>1
  <2>7. QED
    BY <2>4, <2>5, <2>6
<1>5. SV!TypeOK'
  <2>1. sv_elements' \in [0 .. Capacity - 1 -> SV!Element]
    <3>1. sv_elements' = [i \in 0 .. Capacity - 1 |-> sv_elements'[i]]
      BY <1>2
    <3>2. QED
      BY <1>4, <3>1
  <2>2. sv_len' \in 0 .. Capacity
    BY <1>1, <1>2
  <2>3. QED
    BY <2>1, <2>2 DEF SV!TypeOK, SV!Index, SV!Element
<1>6. /\ \A i \in 0 .. sv_len - 1 : sv_elements[i].rank \in Nat
      /\ \A i, j \in 0 .. sv_len - 1 :
           i <= j => sv_elements[i].rank <= sv_elements[j].rank
  BY <1>1 DEF Ascends
<1>7. \A i \in 0 .. sv_len - 2 :
        /\ i < at => sv_elements'[i].rank = sv_elements[i].rank
        /\ i >= at => sv_elements'[i].rank = sv_elements[i + 1].rank
        /\ i \in 0 .. sv_len - 1 /\ i + 1 \in 0 .. sv_len - 1
  BY <1>1, <1>2
<1>8. \A i \in 0 .. sv_len - 2 : sv_elements'[i].rank \in Nat
  BY <1>1, <1>6, <1>7
<1>9. ASSUME NEW i \in 0 .. sv_len - 2, NEW j \in 0 .. sv_len - 2, i <= j
      PROVE  sv_elements'[i].rank <= sv_elements'[j].rank
  <2>1. CASE j < at
    BY <1>1, <1>6, <1>7, <1>9, <2>1
  <2>2. CASE j >= at /\ i < at
    BY <1>1, <1>6, <1>7, <1>9, <2>2
  <2>3. CASE i >= at
    BY <1>1, <1>6, <1>7, <1>9, <2>3
  <2>4. QED
    BY <1>1, <2>1, <2>2, <2>3
<1>10. Ascends(sv_len)'
  <2>1. sv_len' - 1 = sv_len - 2
    BY <1>1, <1>2
  <2>2. QED
    BY <1>8, <1>9, <2>1 DEF Ascends
<1>11. QED
  BY <1>5, <1>10 DEF SortedInv

LEMMA SortedHeld ==
  ASSUME SortedInv, UNCHANGED <<sv_len, sv_elements>>
  PROVE  SortedInv'
  BY DEF SortedInv, SV!TypeOK, SV!Index, SV!Element, Ascends

LEMMA NextSorted ==
  ASSUME SV!SortedVecAssumption, SortedInv, [SV!Next]_SV!vars
  PROVE  SortedInv'
<1>1. ASSUME NEW e \in SV!Element, SV!Insert(e) PROVE SortedInv'
  <2>1. CASE SV!Full
    BY <1>1, <2>1, SortedHeld DEF SV!Insert
  <2>2. CASE ~SV!Full
    <3>1. SV!Put(SV!Search(e.rank).at, e, "insert")
      BY <1>1, <2>2 DEF SV!Insert
    <3>2. e.rank \in Rank
      BY DEF SV!Element
    <3>3. Suits(SV!Search(e.rank).at, e.rank)
      BY <3>2, SearchSuits
    <3>4. QED
      BY <2>2, <3>1, <3>3, PutKeepsOrder
  <2>3. QED
    BY <2>1, <2>2
<1>2. ASSUME NEW e \in SV!Element, SV!InsertUnique(e) PROVE SortedInv'
  <2>1. CASE SV!Search(e.rank).found \/ SV!Full
    BY <1>2, <2>1, SortedHeld DEF SV!InsertUnique
  <2>2. CASE ~(SV!Search(e.rank).found \/ SV!Full)
    <3>1. SV!Put(SV!Search(e.rank).at, e, "insert_unique") /\ ~SV!Full
      BY <1>2, <2>2 DEF SV!InsertUnique
    <3>2. e.rank \in Rank
      BY DEF SV!Element
    <3>3. Suits(SV!Search(e.rank).at, e.rank)
      BY <3>2, SearchSuits
    <3>4. QED
      BY <3>1, <3>3, PutKeepsOrder
  <2>3. QED
    BY <2>1, <2>2
<1>3. ASSUME NEW e \in SV!Element, SV!RemoveValue(e) PROVE SortedInv'
  <2>1. CASE SV!Search(e.rank).found
    <3>1. SV!Take(SV!Search(e.rank).at)
      BY <1>3, <2>1 DEF SV!RemoveValue
    <3>2. e.rank \in Rank
      BY DEF SV!Element
    <3>3. SV!Search(e.rank).at \in 0 .. sv_len - 1
      BY <2>1, <3>2, SearchSuits
    <3>4. QED
      BY <3>1, <3>3, TakeKeepsOrder
  <2>2. CASE ~SV!Search(e.rank).found
    BY <1>3, <2>2, SortedHeld DEF SV!RemoveValue
  <2>3. QED
    BY <2>1, <2>2
<1>4. ASSUME NEW i \in 0 .. Capacity, SV!Remove(i) PROVE SortedInv'
  <2>1. CASE i < sv_len
    <3>1. SV!Take(i)
      BY <1>4, <2>1 DEF SV!Remove
    <3>2. i \in 0 .. sv_len - 1
      BY <2>1 DEF SortedInv, SV!TypeOK
    <3>3. QED
      BY <3>1, <3>2, TakeKeepsOrder
  <2>2. CASE ~(i < sv_len)
    BY <1>4, <2>2, SortedHeld DEF SV!Remove
  <2>3. QED
    BY <2>1, <2>2
<1>5. ASSUME NEW e, SV!BinarySearch(e) PROVE SortedInv'
  BY <1>5, SortedHeld DEF SV!BinarySearch
<1>6. ASSUME NEW i, SV!Get(i) PROVE SortedInv'
  BY <1>6, SortedHeld DEF SV!Get
<1>7. CASE UNCHANGED SV!vars
  BY <1>7, SortedHeld DEF SV!vars
<1>8. QED
  BY <1>1, <1>2, <1>3, <1>4, <1>5, <1>6, <1>7 DEF SV!Next

\* A sorted vec stays in order whatever duplicates came and went, and so its binary
\* search never misses: it finds a rank exactly when an element has it, and else the
\* place between the lower and the higher ones (SortedVec::insert, SortedVec::remove,
\* SortedVec::search).
THEOREM SearchesNeverMiss ==
  ASSUME SV!SortedVecAssumption
  PROVE  SV!Spec => [](SV!TypeOK /\ SV!Ascending /\ EachRankLocated)
<1>1. SV!Init => SortedInv
  <2>1. Capacity \in Nat /\ SV!Blank \in SV!Element
    BY DEF SV!Blank, SV!Element, SV!SortedVecAssumption
  <2>2. QED
    BY <2>1 DEF SV!Init, SortedInv, SV!TypeOK, Ascends
<1>2. SortedInv /\ [SV!Next]_SV!vars => SortedInv'
  BY NextSorted
<1>3. SortedInv => SV!TypeOK /\ SV!Ascending /\ EachRankLocated
  <2>1. SUFFICES ASSUME SortedInv PROVE SV!Ascending
    BY SearchLocates DEF SortedInv
  <2>2. ASSUME NEW i \in 1 .. sv_len - 1
        PROVE  sv_elements[i - 1].rank <= sv_elements[i].rank
    <3>1. i - 1 \in 0 .. sv_len - 1 /\ i \in 0 .. sv_len - 1 /\ i - 1 <= i
      BY <2>1 DEF SortedInv, SV!TypeOK
    <3>2. QED
      BY <2>1, <3>1 DEF SortedInv, Ascends
  <2>3. QED
    BY <2>2 DEF SV!Ascending
<1>4. QED
  BY <1>1, <1>2, <1>3, PTL DEF SV!Spec

-----------------------------------------------------------------------------
(* The sorted vec as a bag *)

\* The first n places of an array as a bag, and the copies in a bag.
BagOf(F, n) == [e \in {F[i] : i \in 0 .. n - 1} |-> Cardinality({i \in 0 .. n - 1 : F[i] = e})]
CopiesIn(B) == UNION {{<<e, k>> : k \in 1 .. B[e]} : e \in DOMAIN B}

\* Sets of places are finite.
LEMMA PlacesFinite ==
  ASSUME NEW n \in Nat, NEW S, S \subseteq 0 .. n - 1
  PROVE  IsFiniteSet(S) /\ Cardinality(S) \in Nat
<1>1. IsFiniteSet(0 .. n - 1)
  <2>1. 0 \in Int /\ n - 1 \in Int
    OBVIOUS
  <2>2. QED
    BY <2>1, FS_Interval
<1>2. IsFiniteSet(S)
  BY <1>1, FS_Subset
<1>3. QED
  BY <1>2, FS_CardinalityType

\* How many places below m hold e grows by one at each that does.
Until(F, e, m) == Cardinality({j \in 0 .. m - 1 : F[j] = e})

LEMMA UntilGrows ==
  ASSUME NEW F, NEW e, NEW m \in Nat
  PROVE  /\ Until(F, e, m) \in Nat /\ Until(F, e, 0) = 0
         /\ Until(F, e, m + 1) = IF F[m] = e THEN Until(F, e, m) + 1 ELSE Until(F, e, m)
<1> DEFINE S == {j \in 0 .. m - 1 : F[j] = e}
<1>1. IsFiniteSet(S) /\ Cardinality(S) \in Nat
  <2>1. S \subseteq 0 .. m - 1
    OBVIOUS
  <2>2. QED
    BY <2>1, PlacesFinite
<1>2. m \notin S
  OBVIOUS
<1>3. \A j : j \in 0 .. m + 1 - 1 <=> j \in 0 .. m - 1 \/ j = m
  OBVIOUS
<1>4. {j \in 0 .. m + 1 - 1 : F[j] = e} = IF F[m] = e THEN S \cup {m} ELSE S
  <2>1. CASE F[m] = e
    BY <1>3, <2>1
  <2>2. CASE F[m] # e
    BY <1>3, <2>2
  <2>3. QED
    BY <2>1, <2>2
<1>5. Cardinality(S \cup {m}) = Cardinality(S) + 1
  BY <1>1, <1>2, FS_AddElement
<1>6. {j \in 0 .. 0 - 1 : F[j] = e} = {}
  OBVIOUS
<1>7. Until(F, e, 0) = 0
  BY <1>6, FS_EmptySet DEF Until
<1>8. Until(F, e, m) = Cardinality(S)
  BY DEF Until
<1>9. Until(F, e, m + 1) = Cardinality({j \in 0 .. m + 1 - 1 : F[j] = e})
  BY DEF Until
<1> HIDE DEF S
<1>10. QED
  BY <1>1, <1>4, <1>5, <1>7, <1>8, <1>9

\* So it never falls, and takes every value in between at a place that holds e.
LEMMA UntilRises ==
  ASSUME NEW F, NEW e, NEW m \in Nat, NEW n \in Nat, m <= n
  PROVE  Until(F, e, m) <= Until(F, e, n)
<1> DEFINE A == {j \in 0 .. m - 1 : F[j] = e}
           B == {j \in 0 .. n - 1 : F[j] = e}
<1>1. A \subseteq B /\ B \subseteq 0 .. n - 1
  OBVIOUS
<1>2. IsFiniteSet(B)
  BY <1>1, PlacesFinite
<1>3. Cardinality(A) <= Cardinality(B)
  BY <1>1, <1>2, FS_Subset
<1>4. QED
  BY <1>3 DEF Until

LEMMA UntilReaches ==
  ASSUME NEW F, NEW e, NEW n \in Nat, NEW k \in 1 .. Until(F, e, n)
  PROVE  \E i \in 0 .. n - 1 : F[i] = e /\ Until(F, e, i + 1) = k
<1> DEFINE Enough == {m \in 0 .. n : k <= Until(F, e, m)}
<1>1. \A m \in Nat : Until(F, e, m) \in Nat
  BY UntilGrows
<1>2. n \in Enough /\ Enough \subseteq Nat /\ Enough # {} /\ k \in Nat /\ k > 0
  BY <1>1
<1>3. PICK m \in Enough : \A y \in Enough : m <= y
  <2> HIDE DEF Enough
  <2>1. QED
    BY <1>2, LeastElement
<1>4. m \in Nat /\ m <= n /\ k <= Until(F, e, m) /\ m # 0
  BY <1>2, <1>3, UntilGrows
<1>5. PICK i \in 0 .. n - 1 : m = i + 1
  <2>1. m - 1 \in 0 .. n - 1 /\ m = (m - 1) + 1
    BY <1>4
  <2>2. QED
    BY <2>1
<1>6. i \notin Enough /\ i \in 0 .. n /\ i \in Nat
  BY <1>3, <1>5
<1>7. Until(F, e, i) < k
  BY <1>1, <1>2, <1>6
<1>8. Until(F, e, i + 1) = IF F[i] = e THEN Until(F, e, i) + 1 ELSE Until(F, e, i)
  BY <1>6, UntilGrows
<1>9. QED
  BY <1>1, <1>2, <1>4, <1>5, <1>6, <1>7, <1>8

\* A bag has as many copies of any kind of element as the array has places.
Alike(F, n, Z) ==
  Cardinality({c \in CopiesIn(BagOf(F, n)) : c[1] \in Z})
    = Cardinality({i \in 0 .. n - 1 : F[i] \in Z})

LEMMA CopiesCounted ==
  ASSUME NEW F, NEW n \in Nat, NEW Z
  PROVE  Alike(F, n, Z)
<1> DEFINE S == {i \in 0 .. n - 1 : F[i] \in Z}
           T == {c \in CopiesIn(BagOf(F, n)) : c[1] \in Z}
           f == [i \in S |-> <<F[i], Until(F, F[i], i + 1)>>]
<1>1. \A c : c \in T <=> \E e, k : /\ c = <<e, k>> /\ e \in Z
                                   /\ e \in {F[i] : i \in 0 .. n - 1} /\ k \in 1 .. Until(F, e, n)
  <2>1. DOMAIN BagOf(F, n) = {F[i] : i \in 0 .. n - 1}
        /\ \A e \in {F[i] : i \in 0 .. n - 1} : BagOf(F, n)[e] = Until(F, e, n)
    BY DEF BagOf, Until
  <2>2. \A c : c \in CopiesIn(BagOf(F, n)) <=>
                 \E e \in {F[i] : i \in 0 .. n - 1} : \E k \in 1 .. Until(F, e, n) : c = <<e, k>>
    BY <2>1 DEF CopiesIn
  <2>3. \A e, k : <<e, k>>[1] = e
    OBVIOUS
  <2>4. QED
    BY <2>2, <2>3
<1>2. f \in [S -> T]
  <2>1. ASSUME NEW i \in S PROVE <<F[i], Until(F, F[i], i + 1)>> \in T
    <3>1. i \in Nat /\ i + 1 \in Nat /\ i + 1 <= n
      OBVIOUS
    <3>2. Until(F, F[i], i + 1) = Until(F, F[i], i) + 1 /\ Until(F, F[i], i) \in Nat
      BY <3>1, UntilGrows
    <3>3. Until(F, F[i], i + 1) <= Until(F, F[i], n) /\ Until(F, F[i], n) \in Nat
      BY <3>1, UntilRises, UntilGrows
    <3>4. Until(F, F[i], i + 1) \in 1 .. Until(F, F[i], n)
      BY <3>2, <3>3
    <3> HIDE DEF T
    <3>5. QED
      BY <1>1, <3>4
  <2> HIDE DEF T
  <2>2. QED
    BY <2>1
<1>3. ASSUME NEW i \in S, NEW j \in S, f[i] = f[j] PROVE i = j
  <2>1. ASSUME NEW x \in S, NEW y \in S, F[x] = F[y], x < y
        PROVE  Until(F, F[x], x + 1) # Until(F, F[y], y + 1)
    <3>1. x \in Nat /\ y \in Nat /\ x + 1 \in Nat /\ x + 1 <= y
      BY <2>1
    <3>2. Until(F, F[x], x + 1) <= Until(F, F[x], y)
      BY <3>1, UntilRises
    <3>3. Until(F, F[y], y + 1) = Until(F, F[y], y) + 1 /\ Until(F, F[y], y) \in Nat
      BY <3>1, UntilGrows
    <3>4. Until(F, F[x], x + 1) \in Nat
      BY <3>1, UntilGrows
    <3>5. QED
      BY <2>1, <3>2, <3>3, <3>4
  <2>2. F[i] = F[j] /\ Until(F, F[i], i + 1) = Until(F, F[j], j + 1)
    BY <1>3
  <2>3. i \in Nat /\ j \in Nat
    OBVIOUS
  <2> HIDE DEF S
  <2>4. QED
    BY <2>1, <2>2, <2>3
<1>4. ASSUME NEW c \in T PROVE \E i \in S : f[i] = c
  <2>1. PICK e, k : c = <<e, k>> /\ e \in Z /\ k \in 1 .. Until(F, e, n)
    <3> HIDE DEF T
    <3>1. QED
      BY <1>1
  <2>2. PICK i \in 0 .. n - 1 : F[i] = e /\ Until(F, e, i + 1) = k
    BY <2>1, UntilReaches
  <2>3. i \in S
    BY <2>1, <2>2
  <2>4. f[i] = c
    BY <2>1, <2>2, <2>3
  <2>5. QED
    BY <2>3, <2>4
<1>5. f \in Bijection(S, T)
  <2> HIDE DEF f, S, T
  <2>1. QED
    BY <1>2, <1>3, <1>4 DEF Bijection, Injection, Surjection, IsInjective
<1>6. IsFiniteSet(S)
  <2>1. S \subseteq 0 .. n - 1
    OBVIOUS
  <2>2. QED
    BY <2>1, PlacesFinite
<1> HIDE DEF f, S, T
<1>7. Cardinality(T) = Cardinality(S)
  BY <1>5, <1>6, FS_Bijection DEF ExistsBijection
<1>8. QED
  BY <1>7 DEF S, T, Alike

\* F is G without its place at.
Gap(F, G, n, at) == \A i \in 0 .. n - 1 : F[i] = IF i < at THEN G[i] ELSE G[i + 1]

\* A place more is one more of the element there, and as many of the others.
LEMMA OneMore ==
  ASSUME NEW F, NEW G, NEW n \in Nat, NEW at \in 0 .. n, Gap(F, G, n, at), NEW x
  PROVE  /\ Until(F, x, n) \in Nat
         /\ Until(G, x, n + 1) = IF G[at] = x THEN Until(F, x, n) + 1 ELSE Until(F, x, n)
<1> DEFINE S == {i \in 0 .. n - 1 : F[i] = x}
           T == {j \in 0 .. n + 1 - 1 : G[j] = x}
           f == [i \in S |-> IF i < at THEN i ELSE i + 1]
<1>1. \A i \in 0 .. n - 1 : F[i] = IF i < at THEN G[i] ELSE G[i + 1]
  BY DEF Gap
<1>2. f \in [S -> T \ {at}]
  <2>1. ASSUME NEW i \in S PROVE (IF i < at THEN i ELSE i + 1) \in T \ {at}
    <3>1. F[i] = IF i < at THEN G[i] ELSE G[i + 1]
      BY <1>1
    <3>2. CASE i < at
      BY <3>1, <3>2
    <3>3. CASE ~(i < at)
      <4>1. i + 1 \in 0 .. n + 1 - 1 /\ i + 1 # at
        BY <3>3
      <4>2. G[i + 1] = x
        BY <3>1, <3>3
      <4>3. QED
        BY <3>3, <4>1, <4>2
    <3>4. QED
      BY <3>2, <3>3
  <2> HIDE DEF S, T
  <2>2. QED
    BY <2>1
<1>3. ASSUME NEW i \in S, NEW j \in S, f[i] = f[j] PROVE i = j
  BY <1>3
<1>4. ASSUME NEW j \in T \ {at} PROVE \E i \in S : f[i] = j
  <2>1. CASE j < at
    <3>1. j \in 0 .. n - 1 /\ F[j] = G[j] /\ G[j] = x
      BY <1>1, <2>1
    <3>2. j \in S
      BY <3>1
    <3>3. QED
      BY <2>1, <3>2
  <2>2. CASE ~(j < at)
    <3>1. j - 1 \in 0 .. n - 1 /\ ~(j - 1 < at) /\ (j - 1) + 1 = j /\ G[j] = x
      BY <2>2
    <3>2. PICK i \in 0 .. n - 1 : ~(i < at) /\ i + 1 = j
      BY <3>1
    <3>3. F[i] = G[i + 1]
      BY <1>1, <3>2
    <3>4. i \in S
      BY <3>1, <3>2, <3>3
    <3>5. QED
      BY <3>2, <3>4
  <2>3. QED
    BY <2>1, <2>2
<1>5. f \in Bijection(S, T \ {at})
  <2> HIDE DEF f, S, T
  <2>1. QED
    BY <1>2, <1>3, <1>4 DEF Bijection, Injection, Surjection, IsInjective
<1>6. IsFiniteSet(S) /\ IsFiniteSet(T) /\ Cardinality(S) \in Nat
  <2>1. S \subseteq 0 .. n - 1 /\ T \subseteq 0 .. (n + 1) - 1 /\ n + 1 \in Nat
    OBVIOUS
  <2> HIDE DEF S, T
  <2>2. QED
    BY <2>1, PlacesFinite
<1>7. Cardinality(T \ {at}) = Cardinality(S)
  <2> HIDE DEF f, S, T
  <2>1. QED
    BY <1>5, <1>6, FS_Bijection DEF ExistsBijection
<1>8. at \in T <=> G[at] = x
  OBVIOUS
<1>9. Until(F, x, n) = Cardinality(S) /\ Until(G, x, n + 1) = Cardinality(T)
  BY DEF Until
<1> HIDE DEF f, S, T
<1>10. CASE at \in T
  <2>1. (T \ {at}) \cup {at} = T /\ at \notin T \ {at} /\ IsFiniteSet(T \ {at})
    BY <1>6, <1>10, FS_Subset
  <2>2. Cardinality(T) = Cardinality(T \ {at}) + 1
    BY <2>1, FS_AddElement
  <2>3. QED
    BY <1>6, <1>7, <1>8, <1>9, <1>10, <2>2
<1>11. CASE at \notin T
  <2>1. T \ {at} = T
    BY <1>11
  <2>2. QED
    BY <1>6, <1>7, <1>8, <1>9, <1>11, <2>1
<1>12. QED
  BY <1>10, <1>11

\* What a place more does to the elements of the bag.
LEMMA MoreElements ==
  ASSUME NEW F, NEW G, NEW n \in Nat, NEW at \in 0 .. n, Gap(F, G, n, at)
  PROVE  /\ DOMAIN BagOf(G, n + 1) = DOMAIN BagOf(F, n) \cup {G[at]}
         /\ \A x \in DOMAIN BagOf(F, n) : BagOf(F, n)[x] = Until(F, x, n)
         /\ \A x \in DOMAIN BagOf(G, n + 1) : BagOf(G, n + 1)[x] = Until(G, x, n + 1)
         /\ \A x : x \in DOMAIN BagOf(F, n) <=> Until(F, x, n) > 0
<1> DEFINE DF == {F[i] : i \in 0 .. n - 1}
           DG == {G[j] : j \in 0 .. n + 1 - 1}
<1>1. DOMAIN BagOf(F, n) = DF /\ DOMAIN BagOf(G, n + 1) = DG
  BY DEF BagOf
<1>2. \A i \in 0 .. n - 1 : F[i] = IF i < at THEN G[i] ELSE G[i + 1]
  BY DEF Gap
<1>3. \A x : x \in DF => x \in DG
  <2>1. ASSUME NEW i \in 0 .. n - 1 PROVE F[i] \in DG
    <3>1. i \in 0 .. n + 1 - 1 /\ i + 1 \in 0 .. n + 1 - 1
      OBVIOUS
    <3>2. G[i] \in DG /\ G[i + 1] \in DG
      BY <3>1
    <3> HIDE DEF DG
    <3>3. QED
      BY <1>2, <3>2
  <2>2. QED
    BY <2>1
<1>4. ASSUME NEW j \in 0 .. n + 1 - 1 PROVE G[j] \in DF \cup {G[at]}
  <2>1. CASE j = at
    BY <2>1
  <2>2. CASE j < at
    <3>1. j \in 0 .. n - 1 /\ F[j] = G[j]
      BY <1>2, <2>2
    <3>2. QED
      BY <3>1
  <2>3. CASE j > at
    <3>1. j - 1 \in 0 .. n - 1 /\ ~(j - 1 < at) /\ (j - 1) + 1 = j
      BY <2>3
    <3>2. PICK i \in 0 .. n - 1 : ~(i < at) /\ i + 1 = j
      BY <3>1
    <3>3. F[i] = G[j]
      BY <1>2, <3>2
    <3>4. QED
      BY <3>2, <3>3
  <2>4. QED
    BY <2>1, <2>2, <2>3
<1>5. G[at] \in DG
  OBVIOUS
<1>6. DG = DF \cup {G[at]}
  BY <1>3, <1>4, <1>5
<1>7. ASSUME NEW x PROVE x \in DF <=> Until(F, x, n) > 0
  <2> DEFINE S == {i \in 0 .. n - 1 : F[i] = x}
  <2>1. S \subseteq 0 .. n - 1 /\ (x \in DF <=> S # {})
    OBVIOUS
  <2>2. IsFiniteSet(S) /\ Cardinality(S) \in Nat
    BY <2>1, PlacesFinite
  <2>3. Cardinality(S) = 0 <=> S = {}
    <3> HIDE DEF S
    <3>1. QED
      BY <2>2, FS_EmptySet
  <2>4. Until(F, x, n) = Cardinality(S)
    BY DEF Until
  <2> HIDE DEF S, DF
  <2>5. Until(F, x, n) \in Nat /\ (Until(F, x, n) = 0 <=> S = {})
    BY <2>2, <2>3, <2>4
  <2>6. Until(F, x, n) > 0 <=> ~(S = {})
    BY <2>5
  <2>7. QED
    BY <2>1, <2>6
<1>8. (\A x \in DF : BagOf(F, n)[x] = Until(F, x, n))
      /\ \A x \in DG : BagOf(G, n + 1)[x] = Until(G, x, n + 1)
  BY DEF BagOf, Until
<1> HIDE DEF DF, DG
<1>9. QED
  BY <1>1, <1>6, <1>7, <1>8

\* Putting an element at a place adds it to the bag.
LEMMA BagMore ==
  ASSUME NEW F, NEW G, NEW n \in Nat, NEW at \in 0 .. n, Gap(F, G, n, at)
  PROVE  BagOf(G, n + 1) = SV!Promise!Multiset!BagAdd(BagOf(F, n), G[at])
<1> DEFINE A == BagOf(F, n)
           B == BagOf(G, n + 1)
           e == G[at]
<1>1. /\ DOMAIN B = DOMAIN A \cup {e}
      /\ \A x \in DOMAIN A : A[x] = Until(F, x, n)
      /\ \A x \in DOMAIN B : B[x] = Until(G, x, n + 1)
      /\ \A x : x \in DOMAIN A <=> Until(F, x, n) > 0
  BY MoreElements
<1>2. \A x : /\ Until(F, x, n) \in Nat
             /\ Until(G, x, n + 1) = IF e = x THEN Until(F, x, n) + 1 ELSE Until(F, x, n)
  BY OneMore
<1>3. B = [x \in DOMAIN B |-> B[x]]
  BY DEF BagOf
<1> HIDE DEF A, B, e
<1>4. CASE e \in DOMAIN A
  <2>1. \A x \in DOMAIN A : B[x] = IF x = e THEN A[x] + 1 ELSE A[x]
    BY <1>1, <1>2, <1>4
  <2>2. DOMAIN B = DOMAIN A
    BY <1>1, <1>4
  <2>3. B = [x \in DOMAIN A |-> IF x = e THEN A[x] + 1 ELSE A[x]]
    BY <1>3, <2>1, <2>2
  <2>4. B = SV!Promise!Multiset!BagAdd(A, e)
    BY <1>4, <2>3 DEF SV!Promise!Multiset!BagAdd
  <2>5. QED
    BY <2>4 DEF A, B, e
<1>5. CASE e \notin DOMAIN A
  <2>1. \A x \in DOMAIN A \cup {e} : B[x] = IF x = e THEN 1 ELSE A[x]
    BY <1>1, <1>2, <1>5
  <2>2. B = [x \in DOMAIN A \cup {e} |-> IF x = e THEN 1 ELSE A[x]]
    BY <1>1, <1>3, <2>1
  <2>3. B = SV!Promise!Multiset!BagAdd(A, e)
    BY <1>5, <2>2 DEF SV!Promise!Multiset!BagAdd
  <2>4. QED
    BY <2>3 DEF A, B, e
<1>6. QED
  BY <1>4, <1>5

\* Closing a gap removes from the bag what was there.
LEMMA BagLess ==
  ASSUME NEW F, NEW G, NEW n \in Nat, NEW at \in 0 .. n, Gap(F, G, n, at)
  PROVE  BagOf(F, n) = SV!Promise!Multiset!BagRemove(BagOf(G, n + 1), G[at])
<1> DEFINE A == BagOf(F, n)
           B == BagOf(G, n + 1)
           e == G[at]
<1>1. /\ DOMAIN B = DOMAIN A \cup {e}
      /\ \A x \in DOMAIN A : A[x] = Until(F, x, n)
      /\ \A x \in DOMAIN B : B[x] = Until(G, x, n + 1)
      /\ \A x : x \in DOMAIN A <=> Until(F, x, n) > 0
  BY MoreElements
<1>2. \A x : /\ Until(F, x, n) \in Nat
             /\ Until(G, x, n + 1) = IF e = x THEN Until(F, x, n) + 1 ELSE Until(F, x, n)
  BY OneMore
<1>3. A = [x \in DOMAIN A |-> A[x]]
  BY DEF BagOf
<1> HIDE DEF A, B, e
<1>4. e \in DOMAIN B /\ B[e] = Until(F, e, n) + 1
  BY <1>1, <1>2
<1>5. CASE B[e] = 1
  <2>1. e \notin DOMAIN A
    BY <1>1, <1>2, <1>4, <1>5
  <2>2. DOMAIN A = DOMAIN B \ {e}
    BY <1>1, <2>1
  <2>3. \A x \in DOMAIN B \ {e} : A[x] = B[x]
    BY <1>1, <1>2, <2>2
  <2>4. A = [x \in DOMAIN B \ {e} |-> B[x]]
    BY <1>3, <2>2, <2>3
  <2>5. A = SV!Promise!Multiset!BagRemove(B, e)
    BY <1>4, <1>5, <2>4 DEF SV!Promise!Multiset!BagRemove
  <2>6. QED
    BY <2>5 DEF A, B, e
<1>6. CASE B[e] # 1
  <2>1. e \in DOMAIN A
    BY <1>1, <1>2, <1>4, <1>6
  <2>2. DOMAIN A = DOMAIN B
    BY <1>1, <2>1
  <2>3. \A x \in DOMAIN B : A[x] = IF x = e THEN B[x] - 1 ELSE B[x]
    BY <1>1, <1>2, <2>2
  <2>4. A = [x \in DOMAIN B |-> IF x = e THEN B[x] - 1 ELSE B[x]]
    BY <1>3, <2>2, <2>3
  <2>5. A = SV!Promise!Multiset!BagRemove(B, e)
    BY <1>4, <1>6, <2>4 DEF SV!Promise!Multiset!BagRemove
  <2>6. QED
    BY <2>5 DEF A, B, e
<1>7. QED
  BY <1>5, <1>6

LEMMA BagCounts ==
  ASSUME NEW S
  PROVE  SV!Cardinality(S) = Cardinality(S) /\ SV!Promise!Cardinality(S) = Cardinality(S)
<1>1. \A T : SV!IsFiniteSet(T) = IsFiniteSet(T) /\ SV!Promise!IsFiniteSet(T) = IsFiniteSet(T)
  BY DEF SV!IsFiniteSet, SV!Promise!IsFiniteSet, IsFiniteSet
<1>2. SV!Cardinality(S) = Cardinality(S)
  BY <1>1 DEF SV!Cardinality, Cardinality
<1>3. SV!Promise!Cardinality(S) = Cardinality(S)
  BY <1>1 DEF SV!Promise!Cardinality, Cardinality
<1>4. QED
  BY <1>2, <1>3

LEMMA HeldIs ==
  SV!HeldBag = BagOf(sv_elements, sv_len) /\ SV!HeldBag' = BagOf(sv_elements', sv_len')
<1>1. \A S : SV!Cardinality(S) = Cardinality(S)
  BY BagCounts
<1>2. SV!HeldBag = BagOf(sv_elements, sv_len)
  BY <1>1 DEF SV!HeldBag, BagOf
<1>3. SV!HeldBag' = BagOf(sv_elements', sv_len')
  BY <1>1 DEF SV!HeldBag, BagOf
<1>4. QED
  BY <1>2, <1>3

\* The places of an array whose rank is lower, and those not higher.
Lower(r) == {i \in 0 .. sv_len - 1 : sv_elements[i].rank < r}
NotHigher(r) == {i \in 0 .. sv_len - 1 : sv_elements[i].rank <= r}

\* What the promise looks at, in terms of the array.
LEMMA BagReads ==
  ASSUME SV!SortedVecAssumption, SortedInv
  PROVE  /\ SV!Promise!Size = sv_len
         /\ \A r : SV!Promise!Below(r) = Cardinality(Lower(r))
         /\ \A r : SV!Promise!UpTo(r) = Cardinality(NotHigher(r))
         /\ \A r : SV!Promise!Holds(r) <=> \E i \in 0 .. sv_len - 1 : sv_elements[i].rank = r
         /\ DOMAIN SV!HeldBag = {sv_elements[i] : i \in 0 .. sv_len - 1}
<1> DEFINE E == {sv_elements[i] : i \in 0 .. sv_len - 1}
           C == CopiesIn(BagOf(sv_elements, sv_len))
<1>1. sv_len \in Nat
  BY DEF SortedInv, SV!TypeOK, SV!SortedVecAssumption
<1>2. DOMAIN SV!HeldBag = E
  BY DEF SV!HeldBag
<1>3. SV!Promise!Copies = C
  <2>1. SV!Promise!Copies
          = UNION {{<<e, k>> : k \in 1 .. SV!HeldBag[e]} : e \in DOMAIN SV!HeldBag}
    BY DEF SV!Promise!Copies, SV!HeldBag
  <2>2. QED
    BY <2>1, HeldIs DEF CopiesIn
<1>4. \A c \in C : c[1] \in E
  <2>1. DOMAIN BagOf(sv_elements, sv_len) = E
    BY DEF BagOf
  <2>2. \A c \in C : \E e \in E : \E k : c = <<e, k>>
    BY <2>1 DEF CopiesIn
  <2>3. \A e, k : <<e, k>>[1] = e
    OBVIOUS
  <2> HIDE DEF C, E
  <2>4. QED
    BY <2>2, <2>3
<1>5. \A i \in 0 .. sv_len - 1 : sv_elements[i] \in E
  OBVIOUS
<1>6. ASSUME NEW Z
      PROVE  Cardinality({c \in C : c[1] \in Z})
               = Cardinality({i \in 0 .. sv_len - 1 : sv_elements[i] \in Z})
  <2>1. Alike(sv_elements, sv_len, Z)
    BY <1>1, CopiesCounted
  <2>2. QED
    BY <2>1 DEF Alike
<1> HIDE DEF C, E
<1>7. SV!Promise!Size = sv_len
  <2>1. {c \in C : c[1] \in E} = C
    BY <1>4
  <2>2. {i \in 0 .. sv_len - 1 : sv_elements[i] \in E} = 0 .. sv_len - 1
    BY <1>5
  <2>3. Cardinality(0 .. sv_len - 1) = sv_len
    BY <1>1, FS_Interval
  <2>4. Cardinality(C) = sv_len
    BY <1>6, <2>1, <2>2, <2>3
  <2>5. SV!Promise!Size = Cardinality(C)
    BY <1>3, BagCounts DEF SV!Promise!Size
  <2>6. QED
    BY <2>4, <2>5
<1>8. ASSUME NEW r PROVE SV!Promise!Below(r) = Cardinality(Lower(r))
  <2> DEFINE Z == {e \in E : e.rank < r}
  <2>1. {c \in C : c[1].rank < r} = {c \in C : c[1] \in Z}
    BY <1>4
  <2>2. {i \in 0 .. sv_len - 1 : sv_elements[i] \in Z} = Lower(r)
    BY <1>5 DEF Lower
  <2>3. Cardinality({c \in C : c[1] \in Z})
          = Cardinality({i \in 0 .. sv_len - 1 : sv_elements[i] \in Z})
    BY <1>6
  <2>4. SV!Promise!Below(r) = Cardinality({c \in C : c[1].rank < r})
    BY <1>3, BagCounts DEF SV!Promise!Below
  <2> HIDE DEF Z
  <2>5. QED
    BY <2>1, <2>2, <2>3, <2>4
<1>9. ASSUME NEW r PROVE SV!Promise!UpTo(r) = Cardinality(NotHigher(r))
  <2> DEFINE Z == {e \in E : e.rank <= r}
  <2>1. {c \in C : c[1].rank <= r} = {c \in C : c[1] \in Z}
    BY <1>4
  <2>2. {i \in 0 .. sv_len - 1 : sv_elements[i] \in Z} = NotHigher(r)
    BY <1>5 DEF NotHigher
  <2>3. Cardinality({c \in C : c[1] \in Z})
          = Cardinality({i \in 0 .. sv_len - 1 : sv_elements[i] \in Z})
    BY <1>6
  <2>4. SV!Promise!UpTo(r) = Cardinality({c \in C : c[1].rank <= r})
    BY <1>3, BagCounts DEF SV!Promise!UpTo
  <2> HIDE DEF Z
  <2>5. QED
    BY <2>1, <2>2, <2>3, <2>4
<1>10. ASSUME NEW r
       PROVE  SV!Promise!Holds(r) <=> \E i \in 0 .. sv_len - 1 : sv_elements[i].rank = r
  <2>1. SV!Promise!Holds(r) <=> \E e \in DOMAIN SV!HeldBag : e.rank = r
    BY DEF SV!Promise!Holds, SV!HeldBag
  <2>2. QED
    BY <1>2, <2>1 DEF E
<1>11. QED
  BY <1>2, <1>7, <1>8, <1>9, <1>10 DEF E

\* The places below m number m.
LEMMA PlacesBelow ==
  ASSUME NEW m \in Nat
  PROVE  IsFiniteSet(0 .. m - 1) /\ Cardinality(0 .. m - 1) = m
  BY FS_Interval

\* The counts that the promise takes, against the places of the array.
LEMMA BagPlaces ==
  ASSUME SV!SortedVecAssumption, SortedInv, NEW r \in Rank
  PROVE  /\ SV!Promise!Below(r) \in Nat /\ SV!Promise!UpTo(r) \in Nat
         /\ \A m \in 0 .. sv_len : Suits(m, r) => m \in SV!Promise!Below(r) .. SV!Promise!UpTo(r)
         /\ \A i \in 0 .. sv_len - 1 : sv_elements[i].rank = r => i \in SV!Promise!Places(r)
<1>1. /\ sv_len \in Nat /\ r \in Nat
      /\ \A i \in 0 .. sv_len - 1 : sv_elements[i].rank \in Nat
      /\ \A i, j \in 0 .. sv_len - 1 : i <= j => sv_elements[i].rank <= sv_elements[j].rank
  BY DEF SortedInv, SV!TypeOK, SV!SortedVecAssumption, Ascends
<1>2. /\ IsFiniteSet(Lower(r)) /\ Cardinality(Lower(r)) \in Nat
      /\ IsFiniteSet(NotHigher(r)) /\ Cardinality(NotHigher(r)) \in Nat
  <2>1. Lower(r) \subseteq 0 .. sv_len - 1 /\ NotHigher(r) \subseteq 0 .. sv_len - 1
    BY DEF Lower, NotHigher
  <2>2. QED
    BY <1>1, <2>1, PlacesFinite
<1>3. SV!Promise!Below(r) = Cardinality(Lower(r)) /\ SV!Promise!UpTo(r) = Cardinality(NotHigher(r))
  BY BagReads
<1>4. ASSUME NEW m \in 0 .. sv_len, Lower(r) \subseteq 0 .. m - 1
      PROVE  SV!Promise!Below(r) <= m
  <2>1. IsFiniteSet(0 .. m - 1) /\ Cardinality(0 .. m - 1) = m
    BY <1>1, PlacesBelow
  <2>2. Cardinality(Lower(r)) <= Cardinality(0 .. m - 1)
    BY <1>4, <2>1, FS_Subset
  <2>3. QED
    BY <1>3, <2>1, <2>2
<1>5. ASSUME NEW m \in 0 .. sv_len, 0 .. m - 1 \subseteq NotHigher(r)
      PROVE  m <= SV!Promise!UpTo(r)
  <2>1. IsFiniteSet(0 .. m - 1) /\ Cardinality(0 .. m - 1) = m
    BY <1>1, PlacesBelow
  <2>2. Cardinality(0 .. m - 1) <= Cardinality(NotHigher(r))
    BY <1>2, <1>5, FS_Subset
  <2>3. QED
    BY <1>3, <2>1, <2>2
<1>6. ASSUME NEW m \in 0 .. sv_len, Suits(m, r)
      PROVE  m \in SV!Promise!Below(r) .. SV!Promise!UpTo(r)
  <2>1. Lower(r) \subseteq 0 .. m - 1
    BY <1>1, <1>6 DEF Lower, Suits
  <2>2. 0 .. m - 1 \subseteq NotHigher(r)
    BY <1>1, <1>6 DEF NotHigher, Suits
  <2>3. QED
    BY <1>2, <1>3, <1>4, <1>5, <2>1, <2>2
<1>7. ASSUME NEW i \in 0 .. sv_len - 1, sv_elements[i].rank = r
      PROVE  i \in SV!Promise!Places(r)
  <2>1. Lower(r) \subseteq 0 .. i - 1
    BY <1>1, <1>7 DEF Lower
  <2>2. 0 .. (i + 1) - 1 \subseteq NotHigher(r)
    BY <1>1, <1>7 DEF NotHigher
  <2>3. SV!Promise!Below(r) <= i /\ i + 1 <= SV!Promise!UpTo(r)
    BY <1>1, <1>4, <1>5, <2>1, <2>2
  <2>4. QED
    BY <1>2, <1>3, <2>3 DEF SV!Promise!Places
<1>8. QED
  BY <1>2, <1>3, <1>6, <1>7

\* What a search returns, as the promise says it.
LEMMA SearchAsPromised ==
  ASSUME SV!SortedVecAssumption, SortedInv, NEW r \in Rank
  PROVE  /\ SV!Search(r).found <=> SV!Promise!Holds(r)
         /\ SV!Search(r).found =>
              /\ SV!Search(r).at \in 0 .. sv_len - 1
              /\ sv_elements[SV!Search(r).at].rank = r
              /\ SV!Search(r).at \in SV!Promise!Places(r)
         /\ ~SV!Search(r).found => SV!Search(r).at = SV!Promise!Below(r)
         /\ SV!Search(r).at \in 0 .. sv_len
         /\ SV!Search(r).at \in SV!Promise!Below(r) .. SV!Promise!UpTo(r)
<1>1. PICK s : s = SV!Search(r)
  OBVIOUS
<1>2. s.found \in BOOLEAN /\ Located(s, 0, sv_len, r)
  BY <1>1, SearchLocates DEF EachRankLocated
<1>3. Suits(s.at, r) /\ (s.found => s.at \in 0 .. sv_len - 1)
  BY <1>1, SearchSuits
<1>4. s.at \in 0 .. sv_len /\ s.at \in SV!Promise!Below(r) .. SV!Promise!UpTo(r)
  BY <1>3, BagPlaces DEF Suits
<1>5. SV!Promise!Holds(r) <=> \E i \in 0 .. sv_len - 1 : sv_elements[i].rank = r
  BY BagReads
<1>6. sv_len \in Nat /\ r \in Nat /\ \A i \in 0 .. sv_len - 1 : sv_elements[i].rank \in Nat
  BY DEF SortedInv, SV!TypeOK, SV!SortedVecAssumption, Ascends
<1>7. CASE s.found
  <2>1. s.at \in 0 .. sv_len - 1 /\ sv_elements[s.at].rank = r
    BY <1>2, <1>7 DEF Located
  <2>2. s.at \in SV!Promise!Places(r)
    BY <2>1, BagPlaces
  <2>3. QED
    BY <1>1, <1>4, <1>5, <1>7, <2>1, <2>2
<1>8. CASE ~s.found
  <2>1. /\ s.at \in 0 .. sv_len
        /\ \A i \in 0 .. s.at - 1 : sv_elements[i].rank < r
        /\ \A i \in s.at .. sv_len - 1 : sv_elements[i].rank > r
    BY <1>2, <1>8 DEF Located
  <2>2. PICK m \in 0 .. sv_len : m = s.at
    BY <2>1
  <2>3. ASSUME NEW i \in 0 .. sv_len - 1
        PROVE  sv_elements[i].rank < r <=> i \in 0 .. m - 1
    <3>1. CASE i \in 0 .. m - 1
      BY <2>1, <2>2, <3>1
    <3>2. CASE i \notin 0 .. m - 1
      <4>1. i \in m .. sv_len - 1
        BY <1>6, <3>2
      <4>2. sv_elements[i].rank > r /\ sv_elements[i].rank \in Nat
        BY <1>6, <2>1, <2>2, <4>1
      <4>3. ~(sv_elements[i].rank < r)
        BY <1>6, <4>2
      <4>4. QED
        BY <3>2, <4>3
    <3>3. QED
      BY <3>1, <3>2
  <2>4. Lower(r) = 0 .. m - 1
    <3>1. \A i \in 0 .. m - 1 : i \in 0 .. sv_len - 1
      BY <1>6
    <3>2. QED
      BY <2>3, <3>1 DEF Lower
  <2>5. Cardinality(Lower(r)) = m
    BY <1>6, <2>4, PlacesBelow
  <2>6. m = SV!Promise!Below(r)
    BY <2>5, BagReads
  <2>7. ~\E i \in 0 .. sv_len - 1 : sv_elements[i].rank = r
    <3>1. ASSUME NEW i \in 0 .. sv_len - 1, sv_elements[i].rank = r PROVE FALSE
      <4>1. ~(sv_elements[i].rank < r)
        BY <1>6, <3>1
      <4>2. i \in m .. sv_len - 1
        BY <1>6, <2>3, <4>1
      <4>3. sv_elements[i].rank > r
        BY <2>1, <2>2, <4>2
      <4>4. QED
        BY <1>6, <3>1, <4>3
    <3>2. QED
      BY <3>1
  <2>8. QED
    BY <1>1, <1>4, <1>5, <1>8, <2>2, <2>6, <2>7
<1>9. QED
  BY <1>2, <1>7, <1>8

LEMMA PutAdds ==
  ASSUME SV!SortedVecAssumption, SortedInv, NEW at \in 0 .. sv_len, NEW e \in SV!Element,
         NEW call, ~SV!Full, SV!Put(at, e, call)
  PROVE  SV!HeldBag' = SV!Promise!Multiset!BagAdd(SV!HeldBag, e)
<1>1. sv_len \in Nat /\ Capacity \in Nat /\ sv_len < Capacity
  BY DEF SortedInv, SV!TypeOK, SV!Full, SV!SortedVecAssumption
<1>2. /\ sv_len' = sv_len + 1
      /\ sv_elements' = [i \in 0 .. Capacity - 1 |->
                           IF i < at \/ i > sv_len THEN sv_elements[i]
                           ELSE IF i = at THEN e ELSE sv_elements[i - 1]]
  BY DEF SV!Put, SV!ShiftedRight, SV!Index
<1>3. PICK G : G = sv_elements'
  OBVIOUS
<1>4. G[at] = e
  BY <1>1, <1>2, <1>3
<1>5. Gap(sv_elements, G, sv_len, at)
  <2>1. ASSUME NEW i \in 0 .. sv_len - 1
        PROVE  sv_elements[i] = IF i < at THEN G[i] ELSE G[i + 1]
    <3>1. i \in 0 .. Capacity - 1 /\ i + 1 \in 0 .. Capacity - 1 /\ (i + 1) - 1 = i
      BY <1>1
    <3>2. i < at => G[i] = sv_elements[i]
      BY <1>2, <1>3, <3>1
    <3>3. ~(i < at) => ~(i + 1 < at \/ i + 1 > sv_len) /\ i + 1 # at
      BY <1>1
    <3>4. ~(i < at) => G[i + 1] = sv_elements[i]
      BY <1>2, <1>3, <3>1, <3>3
    <3>5. QED
      BY <3>2, <3>4
  <2>2. QED
    BY <2>1 DEF Gap
<1>6. BagOf(G, sv_len + 1) = SV!Promise!Multiset!BagAdd(BagOf(sv_elements, sv_len), e)
  BY <1>1, <1>4, <1>5, BagMore
<1>7. QED
  BY <1>2, <1>3, <1>6, HeldIs

LEMMA TakeRemoves ==
  ASSUME SV!SortedVecAssumption, SortedInv, NEW at \in 0 .. sv_len - 1, SV!Take(at)
  PROVE  /\ sv_elements[at] \in DOMAIN SV!HeldBag
         /\ SV!Promise!Leaves(sv_elements[at])
<1>1. sv_len \in Nat /\ Capacity \in Nat /\ sv_len <= Capacity /\ sv_len - 1 \in Nat
  BY DEF SortedInv, SV!TypeOK, SV!SortedVecAssumption
<1>2. /\ sv_len' = sv_len - 1
      /\ sv_elements' = [i \in 0 .. Capacity - 1 |->
                           IF i < at \/ i >= sv_len THEN sv_elements[i]
                           ELSE IF i = sv_len - 1 THEN SV!Blank ELSE sv_elements[i + 1]]
      /\ sv_reply' = SV!Done("remove", sv_elements[at])
  BY DEF SV!Take, SV!ShiftedLeft, SV!Index
<1>3. PICK F : F = sv_elements'
  OBVIOUS
<1>4. PICK n \in Nat : n = sv_len - 1
  BY <1>1
<1>5. n + 1 = sv_len /\ at \in 0 .. n
  BY <1>1, <1>4
<1>6. Gap(F, sv_elements, n, at)
  <2>1. ASSUME NEW i \in 0 .. n - 1
        PROVE  F[i] = IF i < at THEN sv_elements[i] ELSE sv_elements[i + 1]
    <3>1. i \in 0 .. Capacity - 1 /\ ~(i >= sv_len) /\ i # sv_len - 1
      BY <1>1, <1>4
    <3>2. QED
      BY <1>2, <1>3, <3>1
  <2>2. QED
    BY <2>1 DEF Gap
<1>7. BagOf(F, n) = SV!Promise!Multiset!BagRemove(BagOf(sv_elements, n + 1), sv_elements[at])
  BY <1>5, <1>6, BagLess
<1>8. SV!HeldBag' = SV!Promise!Multiset!BagRemove(SV!HeldBag, sv_elements[at])
  BY <1>2, <1>3, <1>4, <1>5, <1>7, HeldIs
<1>9. sv_elements[at] \in DOMAIN SV!HeldBag
  BY BagReads
<1>10. QED
  BY <1>2, <1>8, <1>9 DEF SV!Promise!Leaves, SV!Done

\* What leaves the array as it is leaves the bag.
LEMMA BagStays ==
  ASSUME UNCHANGED <<sv_len, sv_elements>> PROVE SV!HeldBag' = SV!HeldBag
  BY HeldIs

\* Every call on the array is the call of that name on the bag.
LEMMA InsertBags ==
  ASSUME SV!SortedVecAssumption, SortedInv, NEW e \in SV!Element, SV!Insert(e)
  PROVE  SV!Promise!AInsert(e)
<1>1. e.rank \in Rank
  BY DEF SV!Element
<1>2. SV!Promise!Size = sv_len /\ sv_len \in Nat /\ Capacity \in Nat /\ sv_len <= Capacity
  BY BagReads DEF SortedInv, SV!TypeOK, SV!SortedVecAssumption
<1>3. CASE SV!Full
  <2>1. SV!Promise!Size = Capacity
    BY <1>2, <1>3 DEF SV!Full
  <2>2. sv_reply' = SV!Refused("insert", "full", 0) /\ UNCHANGED <<sv_len, sv_elements>>
    BY <1>3 DEF SV!Insert
  <2>3. QED
    BY <2>1, <2>2, BagStays DEF SV!Promise!AInsert, SV!Refused
<1>4. CASE ~SV!Full
  <2>1. PICK at : at = SV!Search(e.rank).at
    OBVIOUS
  <2>2. at \in 0 .. sv_len /\ at \in SV!Promise!Below(e.rank) .. SV!Promise!UpTo(e.rank)
    BY <1>1, <2>1, SearchAsPromised
  <2>3. SV!Put(at, e, "insert")
    BY <1>4, <2>1 DEF SV!Insert
  <2>4. SV!HeldBag' = SV!Promise!Multiset!BagAdd(SV!HeldBag, e)
    BY <1>4, <2>2, <2>3, PutAdds
  <2>5. sv_reply' = SV!Promise!Done("insert", at)
    BY <2>3 DEF SV!Put, SV!Done
  <2>6. SV!Promise!Size < Capacity
    BY <1>2, <1>4 DEF SV!Full
  <2>7. QED
    BY <2>2, <2>4, <2>5, <2>6 DEF SV!Promise!AInsert
<1>5. QED
  BY <1>3, <1>4

LEMMA InsertUniqueBags ==
  ASSUME SV!SortedVecAssumption, SortedInv, NEW e \in SV!Element, SV!InsertUnique(e)
  PROVE  SV!Promise!AInsertUnique(e)
<1>1. e.rank \in Rank
  BY DEF SV!Element
<1>2. SV!Promise!Size = sv_len /\ sv_len \in Nat /\ Capacity \in Nat /\ sv_len <= Capacity
  BY BagReads DEF SortedInv, SV!TypeOK, SV!SortedVecAssumption
<1>3. PICK s : s = SV!Search(e.rank)
  OBVIOUS
<1>4. /\ s.found <=> SV!Promise!Holds(e.rank)
      /\ s.found => s.at \in SV!Promise!Places(e.rank)
      /\ ~s.found => s.at = SV!Promise!Below(e.rank)
      /\ s.at \in 0 .. sv_len
  BY <1>1, <1>3, SearchAsPromised
<1>5. CASE s.found
  <2>1. /\ sv_reply' = SV!Refused("insert_unique", "duplicate", s.at)
        /\ UNCHANGED <<sv_len, sv_elements>>
    BY <1>3, <1>5 DEF SV!InsertUnique
  <2>2. QED
    BY <1>4, <1>5, <2>1, BagStays DEF SV!Promise!AInsertUnique, SV!Refused
<1>6. CASE ~s.found /\ SV!Full
  <2>1. SV!Promise!Size = Capacity
    BY <1>2, <1>6 DEF SV!Full
  <2>2. /\ sv_reply' = SV!Refused("insert_unique", "full", 0)
        /\ UNCHANGED <<sv_len, sv_elements>>
    BY <1>3, <1>6 DEF SV!InsertUnique
  <2>3. QED
    BY <1>4, <1>6, <2>1, <2>2, BagStays DEF SV!Promise!AInsertUnique, SV!Refused
<1>7. CASE ~s.found /\ ~SV!Full
  <2>1. SV!Put(s.at, e, "insert_unique")
    BY <1>3, <1>7 DEF SV!InsertUnique
  <2>2. SV!HeldBag' = SV!Promise!Multiset!BagAdd(SV!HeldBag, e)
    BY <1>4, <1>7, <2>1, PutAdds
  <2>3. sv_reply' = SV!Promise!Done("insert_unique", SV!Promise!Below(e.rank))
    BY <1>4, <1>7, <2>1 DEF SV!Put, SV!Done
  <2>4. SV!Promise!Size # Capacity
    BY <1>2, <1>7 DEF SV!Full
  <2>5. QED
    BY <1>4, <1>7, <2>2, <2>3, <2>4 DEF SV!Promise!AInsertUnique
<1>8. QED
  BY <1>5, <1>6, <1>7

LEMMA RemoveValueBags ==
  ASSUME SV!SortedVecAssumption, SortedInv, NEW e \in SV!Element, SV!RemoveValue(e)
  PROVE  SV!Promise!ARemoveValue(e)
<1>1. e.rank \in Rank
  BY DEF SV!Element
<1>2. PICK s : s = SV!Search(e.rank)
  OBVIOUS
<1>3. /\ s.found <=> SV!Promise!Holds(e.rank)
      /\ s.found => s.at \in 0 .. sv_len - 1 /\ sv_elements[s.at].rank = e.rank
  BY <1>1, <1>2, SearchAsPromised
<1>4. CASE s.found
  <2>1. SV!Take(s.at)
    BY <1>2, <1>4 DEF SV!RemoveValue
  <2>2. PICK x : x = sv_elements[s.at]
    OBVIOUS
  <2>3. x \in DOMAIN SV!HeldBag /\ SV!Promise!Leaves(x) /\ x.rank = e.rank
    BY <1>3, <1>4, <2>1, <2>2, TakeRemoves
  <2>4. QED
    BY <1>3, <1>4, <2>3 DEF SV!Promise!ARemoveValue
<1>5. CASE ~s.found
  <2>1. sv_reply' = SV!Refused("remove", "absent", 0) /\ UNCHANGED <<sv_len, sv_elements>>
    BY <1>2, <1>5 DEF SV!RemoveValue
  <2>2. QED
    BY <1>3, <1>5, <2>1, BagStays DEF SV!Promise!ARemoveValue, SV!Refused
<1>6. QED
  BY <1>4, <1>5

\* The element at a place is one whose rank the place belongs to.
LEMMA PlaceBelongs ==
  ASSUME SV!SortedVecAssumption, SortedInv, NEW i \in 0 .. sv_len - 1
  PROVE  /\ sv_elements[i] \in DOMAIN SV!HeldBag
         /\ i \in SV!Promise!Places(sv_elements[i].rank)
<1>1. sv_elements[i].rank \in Rank
  BY DEF SortedInv, SV!TypeOK, SV!Index, SV!Element, SV!SortedVecAssumption
<1>2. QED
  BY <1>1, BagReads, BagPlaces

LEMMA RemoveBags ==
  ASSUME SV!SortedVecAssumption, SortedInv, NEW i \in 0 .. Capacity, SV!Remove(i)
  PROVE  SV!Promise!ARemove(i)
<1>1. SV!Promise!Size = sv_len /\ sv_len \in Nat
  BY BagReads DEF SortedInv, SV!TypeOK, SV!SortedVecAssumption
<1>2. CASE i < sv_len
  <2>1. i \in 0 .. sv_len - 1 /\ SV!Take(i)
    BY <1>1, <1>2 DEF SV!Remove
  <2>2. PICK x : x = sv_elements[i]
    OBVIOUS
  <2>3. x \in DOMAIN SV!HeldBag /\ SV!Promise!Leaves(x) /\ i \in SV!Promise!Places(x.rank)
    BY <2>1, <2>2, TakeRemoves, PlaceBelongs
  <2>4. QED
    BY <1>1, <1>2, <2>3 DEF SV!Promise!ARemove
<1>3. CASE ~(i < sv_len)
  <2>1. sv_reply' = SV!Refused("remove", "index", 0) /\ UNCHANGED <<sv_len, sv_elements>>
    BY <1>3 DEF SV!Remove
  <2>2. QED
    BY <1>1, <1>3, <2>1, BagStays DEF SV!Promise!ARemove, SV!Refused
<1>4. QED
  BY <1>2, <1>3

LEMMA GetBags ==
  ASSUME SV!SortedVecAssumption, SortedInv, NEW i \in 0 .. Capacity, SV!Get(i)
  PROVE  SV!Promise!AGet(i)
<1>1. SV!Promise!Size = sv_len /\ sv_len \in Nat
  BY BagReads DEF SortedInv, SV!TypeOK, SV!SortedVecAssumption
<1>2. SV!HeldBag' = SV!HeldBag
  BY BagStays DEF SV!Get
<1>3. CASE i < sv_len
  <2>1. i \in 0 .. sv_len - 1 /\ sv_reply' = SV!Done("get", sv_elements[i])
    BY <1>1, <1>3 DEF SV!Get
  <2>2. PICK x : x = sv_elements[i]
    OBVIOUS
  <2>3. x \in DOMAIN SV!HeldBag /\ i \in SV!Promise!Places(x.rank)
    BY <2>1, <2>2, PlaceBelongs
  <2>4. sv_reply' = SV!Promise!Done("get", x)
    BY <2>1, <2>2 DEF SV!Done
  <2>5. QED
    BY <1>1, <1>2, <1>3, <2>3, <2>4 DEF SV!Promise!AGet
<1>4. CASE ~(i < sv_len)
  <2>1. sv_reply' = SV!Refused("get", "index", 0)
    BY <1>4 DEF SV!Get
  <2>2. QED
    BY <1>1, <1>2, <1>4, <2>1 DEF SV!Promise!AGet, SV!Refused
<1>5. QED
  BY <1>3, <1>4

LEMMA SearchBags ==
  ASSUME SV!SortedVecAssumption, SortedInv, NEW e \in SV!Element, SV!BinarySearch(e)
  PROVE  SV!Promise!ASearch(e)
<1>1. e.rank \in Rank
  BY DEF SV!Element
<1>2. PICK s : s = SV!Search(e.rank)
  OBVIOUS
<1>3. /\ s.found <=> SV!Promise!Holds(e.rank)
      /\ s.found => s.at \in SV!Promise!Places(e.rank)
      /\ ~s.found => s.at = SV!Promise!Below(e.rank)
  BY <1>1, <1>2, SearchAsPromised
<1>4. SV!HeldBag' = SV!HeldBag
  BY BagStays DEF SV!BinarySearch
<1>5. sv_reply' = IF s.found THEN SV!Done("search", s.at) ELSE SV!Refused("search", "absent", s.at)
  BY <1>2 DEF SV!BinarySearch
<1>6. CASE s.found
  BY <1>3, <1>4, <1>5, <1>6 DEF SV!Promise!ASearch, SV!Done
<1>7. CASE ~s.found
  BY <1>3, <1>4, <1>5, <1>7 DEF SV!Promise!ASearch, SV!Refused
<1>8. QED
  BY <1>6, <1>7

\* The sorted vec is a bag of at most Capacity elements in the order of their ranks:
\* no insert or remove loses, duplicates or invents an element, the place a search
\* returns is one that the rank sought has or would have, and an element returned is
\* the one that left (collections/sorted_vec.rs).
THEOREM ElementsImplementBag ==
  ASSUME SV!SortedVecAssumption
  PROVE  SV!Spec => SV!ImplementsBag
<1>1. SV!Init => SortedInv /\ SV!Promise!AInit
  <2>1. SUFFICES ASSUME SV!Init PROVE SortedInv /\ SV!Promise!AInit
    OBVIOUS
  <2>2. SortedInv
    BY <2>1 DEF SV!Init, SortedInv, SV!TypeOK, Ascends, SV!Blank, SV!Element, SV!SortedVecAssumption
  <2>3. DOMAIN SV!HeldBag = {}
    BY <2>1 DEF SV!Init, SV!HeldBag
  <2>4. QED
    BY <2>1, <2>2, <2>3 DEF SV!Init, SV!Promise!AInit, SV!Done
<1>2. SortedInv /\ [SV!Next]_(SV!vars) => SortedInv' /\ [SV!Promise!ANext]_(SV!Promise!avars)
  <2>1. SUFFICES ASSUME SortedInv, [SV!Next]_(SV!vars)
                 PROVE  [SV!Promise!ANext]_(SV!Promise!avars)
    BY NextSorted
  <2>2. SV!Promise!Element = SV!Element
    BY DEF SV!Promise!Element, SV!Element
  <2>3. CASE \E e \in SV!Element :
               SV!Insert(e) \/ SV!InsertUnique(e) \/ SV!RemoveValue(e) \/ SV!BinarySearch(e)
    BY <2>1, <2>2, <2>3, InsertBags, InsertUniqueBags, RemoveValueBags, SearchBags DEF SV!Promise!ANext
  <2>4. CASE \E i \in 0 .. Capacity : SV!Remove(i) \/ SV!Get(i)
    BY <2>1, <2>4, RemoveBags, GetBags DEF SV!Promise!ANext
  <2>5. CASE UNCHANGED SV!vars
    BY <2>5, BagStays DEF SV!vars, SV!Promise!avars
  <2>6. QED
    BY <2>1, <2>3, <2>4, <2>5 DEF SV!Next
<1>3. QED
  BY <1>1, <1>2, PTL DEF SV!Spec, SV!ImplementsBag, SV!Promise!ASpec

-----------------------------------------------------------------------------
(* The growable sequence *)

\* Places of S bytes each, the b-th byte of place i at i * S + b.
LEMMA PlacesApart ==
  ASSUME NEW S \in Nat \ {0}, NEW i \in Nat, NEW j \in Nat, i < j
  PROVE  i * S + S <= j * S
<1>1. PICK d \in Nat : j = i + 1 + d
  <2>1. j - (i + 1) \in Nat /\ j = i + 1 + (j - (i + 1))
    OBVIOUS
  <2>2. QED
    BY <2>1
<1>2. d * S \in Nat /\ j * S = i * S + S + d * S
  BY <1>1
<1>3. QED
  BY <1>2

LEMMA ByteOfPlace ==
  ASSUME NEW S \in Nat \ {0}, NEW i \in Nat, NEW b \in 0 .. S - 1
  PROVE  (i * S + b) \div S = i /\ (i * S + b) % S = b /\ i * S + b \in Nat
<1>1. PICK x \in Nat : x = i * S
  OBVIOUS
<1>2. PICK q \in Int, r \in Int : q = (x + b) \div S /\ r = (x + b) % S
  OBVIOUS
<1>3. x + b = q * S + r /\ r \in 0 .. S - 1
  BY <1>1, <1>2
<1>4. q \in Nat
  <2>1. SUFFICES ASSUME q < 0 PROVE FALSE
    OBVIOUS
  <2>2. q * S <= 0 - S
    <3>1. (0 - (q + 1)) \in Nat
      BY <2>1
    <3>2. (0 - (q + 1)) * S \in Nat
      BY <3>1
    <3>3. (0 - (q + 1)) * S = 0 - q * S - S
      OBVIOUS
    <3>4. QED
      BY <3>2, <3>3
  <2>3. QED
    BY <1>3, <2>2
<1>5. q = i
  <2>1. CASE q < i
    <3>1. q * S + S <= i * S
      BY <1>4, <2>1, PlacesApart
    <3>2. q * S \in Int
      OBVIOUS
    <3>3. QED
      BY <1>1, <1>3, <3>1, <3>2
  <2>2. CASE i < q
    <3>1. i * S + S <= q * S
      BY <1>4, <2>2, PlacesApart
    <3>2. q * S \in Int
      OBVIOUS
    <3>3. QED
      BY <1>1, <1>3, <3>1, <3>2
  <2>3. QED
    BY <2>1, <2>2
<1>6. r = b
  BY <1>1, <1>3, <1>5
<1>7. QED
  BY <1>1, <1>2, <1>5, <1>6

LEMMA PlaceOfByte ==
  ASSUME NEW S \in Nat \ {0}, NEW o \in Nat
  PROVE  o \div S \in Nat /\ o % S \in 0 .. S - 1 /\ o = (o \div S) * S + (o % S)
<1>1. PICK q \in Int, r \in Int : q = o \div S /\ r = o % S
  OBVIOUS
<1>2. o = q * S + r /\ r \in 0 .. S - 1
  BY <1>1
<1>3. q \in Nat
  <2>1. SUFFICES ASSUME q < 0 PROVE FALSE
    OBVIOUS
  <2>2. (0 - (q + 1)) \in Nat
    BY <2>1
  <2>3. (0 - (q + 1)) * S \in Nat
    BY <2>2
  <2>4. (0 - (q + 1)) * S = 0 - q * S - S
    OBVIOUS
  <2>5. QED
    BY <1>2, <2>3, <2>4
<1>4. QED
  BY <1>1, <1>2, <1>3

\* A place below the n-th lies below the n-th, all of it.
LEMMA PlaceBelow ==
  ASSUME NEW S \in Nat \ {0}, NEW i \in Nat, NEW n \in Nat, NEW b \in 0 .. S - 1
  PROVE  i < n <=> i * S + b < n * S
<1>1. i * S \in Nat /\ n * S \in Nat
  OBVIOUS
<1>2. CASE i < n
  BY <1>1, <1>2, PlacesApart
<1>3. CASE i = n
  BY <1>1, <1>3
<1>4. CASE n < i
  BY <1>1, <1>4, PlacesApart
<1>5. QED
  BY <1>2, <1>3, <1>4

\* As many places as len bytes have room for end within them.
LEMMA RoomHolds ==
  ASSUME NEW S \in Nat \ {0}, NEW len \in Nat
  PROVE  len \div S \in Nat /\ (len \div S) * S <= len
<1>1. /\ len \div S \in Nat /\ len % S \in 0 .. S - 1
      /\ len = (len \div S) * S + (len % S)
  BY PlaceOfByte
<1>2. PICK q \in Nat, r \in 0 .. S - 1 : q = len \div S /\ len = q * S + r
  BY <1>1
<1>3. QED
  BY <1>2

LEMMA RoomGrows ==
  ASSUME NEW S \in Nat \ {0}, NEW len \in Nat, NEW most \in Nat, len <= most
  PROVE  len \div S <= most \div S
<1>1. PICK p \in Nat, q \in Nat, r \in 0 .. S - 1 :
        /\ p = len \div S /\ p * S <= len
        /\ q = most \div S /\ most = q * S + r
  <2>1. len \div S \in Nat /\ (len \div S) * S <= len
    BY RoomHolds
  <2>2. /\ most \div S \in Nat /\ most % S \in 0 .. S - 1
        /\ most = (most \div S) * S + (most % S)
    BY PlaceOfByte
  <2>3. QED
    BY <2>1, <2>2, Zenon
<1>2. SUFFICES ASSUME q < p PROVE FALSE
  BY <1>1
<1>3. q * S + S <= p * S
  BY <1>2, PlacesApart
<1>4. p * S \in Nat /\ q * S \in Nat
  OBVIOUS
<1>5. QED
  BY <1>1, <1>3, <1>4

CONSTANTS Byte, ZeroByte, STRIDE, MaxLen, Lengths
VARIABLES gs_len, gs_count, gs_bytes, gs_reset, gs_reply

GS == INSTANCE GrowableSeq WITH
  Zero <- ZeroByte,
  len <- gs_len, count <- gs_count, bytes <- gs_bytes, reset <- gs_reset, reply <- gs_reply

\* The elements, as the promise names them.
ElementList == [i \in 1 .. gs_count |-> GS!Element(i - 1)]

MostElements == MaxLen \div STRIDE
ByteAt(j, b) == j * STRIDE + b
InElement == 0 .. STRIDE - 1

LEMMA GrownConstants ==
  ASSUME GS!GrowableSeqAssumption
  PROVE  /\ STRIDE \in Nat \ {0} /\ MaxLen \in Nat /\ Lengths \subseteq 0 .. MaxLen
         /\ ZeroByte \in Byte
         /\ MostElements \in Nat /\ GS!Place = 0 .. MostElements - 1
         /\ GS!Offset = 0 .. MaxLen - 1 /\ GS!Encoding = [InElement -> Byte]
         /\ \A n \in Lengths : n \in Nat /\ n \div STRIDE \in 0 .. MostElements
<1>1. STRIDE \in Nat \ {0} /\ MaxLen \in Nat /\ Lengths \subseteq 0 .. MaxLen /\ ZeroByte \in Byte
  BY DEF GS!GrowableSeqAssumption
<1>2. MostElements \in Nat
  BY <1>1, RoomHolds DEF MostElements
<1>3. ASSUME NEW n \in Lengths PROVE n \in Nat /\ n \div STRIDE \in 0 .. MostElements
  <2>1. n \in Nat /\ n <= MaxLen
    BY <1>1
  <2>2. n \div STRIDE \in Nat
    BY <1>1, <2>1, RoomHolds
  <2>3. n \div STRIDE <= MaxLen \div STRIDE
    BY <1>1, <2>1, RoomGrows
  <2>4. QED
    BY <1>2, <2>1, <2>2, <2>3 DEF MostElements
<1>4. QED
  BY <1>1, <1>2, <1>3 DEF GS!Place, MostElements, GS!Offset, GS!Encoding, InElement

LEMMA ByteFacts ==
  ASSUME GS!GrowableSeqAssumption, NEW j \in Nat, NEW b \in InElement
  PROVE  /\ ByteAt(j, b) \in Nat /\ ByteAt(j, b) \div STRIDE = j /\ ByteAt(j, b) % STRIDE = b
         /\ \A n \in Nat : j < n <=> ByteAt(j, b) < n * STRIDE
         /\ j < MostElements => ByteAt(j, b) \in GS!Offset
         /\ \A n \in Nat : j < n \div STRIDE => ByteAt(j, b) < n
<1>1. STRIDE \in Nat \ {0} /\ MaxLen \in Nat /\ b \in 0 .. STRIDE - 1
  BY GrownConstants DEF InElement
<1>2. j * STRIDE + b \in Nat /\ (j * STRIDE + b) \div STRIDE = j /\ (j * STRIDE + b) % STRIDE = b
  BY <1>1, ByteOfPlace
<1>3. \A n \in Nat : j < n <=> ByteAt(j, b) < n * STRIDE
  BY <1>1, PlaceBelow DEF ByteAt
<1>4. ASSUME NEW n \in Nat, j < n \div STRIDE PROVE ByteAt(j, b) < n
  <2>1. PICK q \in Nat : q = n \div STRIDE /\ q * STRIDE <= n
    BY <1>1, RoomHolds
  <2>2. ByteAt(j, b) < q * STRIDE
    BY <1>3, <1>4, <2>1
  <2>3. ByteAt(j, b) \in Nat /\ q * STRIDE \in Nat
    BY <1>1, <1>2 DEF ByteAt
  <2>4. QED
    BY <2>1, <2>2, <2>3
<1>5. j < MostElements => ByteAt(j, b) \in GS!Offset
  <2>1. ByteAt(j, b) \in Nat
    BY <1>2 DEF ByteAt
  <2>2. QED
    BY <1>1, <1>4, <2>1 DEF MostElements, GS!Offset
<1>6. QED
  BY <1>2, <1>3, <1>4, <1>5 DEF ByteAt

\* Every byte belongs to a place.
LEMMA OffsetFacts ==
  ASSUME GS!GrowableSeqAssumption, NEW o \in GS!Offset
  PROVE  /\ o \div STRIDE \in Nat /\ o % STRIDE \in InElement
         /\ o = ByteAt(o \div STRIDE, o % STRIDE)
         /\ \A n \in Nat : o \div STRIDE < n <=> o < n * STRIDE
<1>1. STRIDE \in Nat \ {0} /\ o \in Nat
  BY GrownConstants
<1>2. /\ o \div STRIDE \in Nat /\ o % STRIDE \in InElement
      /\ o = ByteAt(o \div STRIDE, o % STRIDE)
  BY <1>1, PlaceOfByte DEF InElement, ByteAt
<1>3. PICK j \in Nat, b \in InElement : j = o \div STRIDE /\ o = ByteAt(j, b)
  BY <1>2
<1>4. \A n \in Nat : j < n <=> o < n * STRIDE
  BY <1>3, ByteFacts
<1>5. QED
  BY <1>2, <1>3, <1>4

\* Element j in bytes of which the first len are mapped, and the list of the first n.
ElementOf(len, bytes, j) ==
  [b \in InElement |-> IF ByteAt(j, b) < len THEN bytes[ByteAt(j, b)] ELSE ZeroByte]

ListOf(len, n, bytes) == [i \in 1 .. n |-> ElementOf(len, bytes, i - 1)]

LEMMA ListFacts ==
  ASSUME GS!GrowableSeqAssumption, NEW len \in Lengths, NEW n \in 0 .. MostElements,
         NEW bytes \in [GS!Offset -> Byte]
  PROVE  /\ n \in Nat
         /\ \A j \in 0 .. MostElements - 1 : ElementOf(len, bytes, j) \in GS!Encoding
         /\ \A j \in 0 .. (len \div STRIDE) - 1 :
              /\ j \in 0 .. MostElements - 1
              /\ ElementOf(len, bytes, j) = [b \in InElement |-> bytes[ByteAt(j, b)]]
         /\ ListOf(len, n, bytes) \in [1 .. n -> GS!Encoding]
         /\ Len(ListOf(len, n, bytes)) = n
         /\ \A i \in 1 .. n : ListOf(len, n, bytes)[i] = ElementOf(len, bytes, i - 1)
<1>1. n \in Nat /\ MostElements \in Nat
  BY GrownConstants
<1>2. ASSUME NEW j \in 0 .. MostElements - 1 PROVE ElementOf(len, bytes, j) \in GS!Encoding
  <2>1. ASSUME NEW b \in InElement PROVE ElementOf(len, bytes, j)[b] \in Byte
    <3>1. ElementOf(len, bytes, j)[b]
            = IF ByteAt(j, b) < len THEN bytes[ByteAt(j, b)] ELSE ZeroByte
      BY DEF ElementOf
    <3>2. j \in Nat /\ j < MostElements
      BY <1>1
    <3>3. ByteAt(j, b) \in GS!Offset
      BY <3>2, ByteFacts
    <3>4. ZeroByte \in Byte
      BY GrownConstants
    <3>5. QED
      BY <3>1, <3>3, <3>4
  <2>2. ElementOf(len, bytes, j) = [b \in InElement |-> ElementOf(len, bytes, j)[b]]
    BY DEF ElementOf
  <2>3. GS!Encoding = [InElement -> Byte]
    BY GrownConstants
  <2>4. QED
    BY <2>1, <2>2, <2>3
<1>3. ASSUME NEW j \in 0 .. (len \div STRIDE) - 1
      PROVE  /\ j \in 0 .. MostElements - 1
             /\ ElementOf(len, bytes, j) = [b \in InElement |-> bytes[ByteAt(j, b)]]
  <2>1. len \in Nat /\ len \div STRIDE \in 0 .. MostElements
    BY GrownConstants
  <2>2. PICK room \in 0 .. MostElements : room = len \div STRIDE
    BY <2>1
  <2>3. j \in 0 .. MostElements - 1 /\ j < room
    BY <1>1, <2>2
  <2>4. \A b \in InElement : ByteAt(j, b) < len
    BY <2>1, <2>2, <2>3, ByteFacts
  <2>5. QED
    BY <2>3, <2>4 DEF ElementOf
<1>4. /\ ListOf(len, n, bytes) \in [1 .. n -> GS!Encoding]
      /\ \A i \in 1 .. n : ListOf(len, n, bytes)[i] = ElementOf(len, bytes, i - 1)
  <2>1. \A i \in 1 .. n : i - 1 \in 0 .. MostElements - 1
    BY <1>1
  <2>2. QED
    BY <1>2, <2>1 DEF ListOf
<1>5. Len(ListOf(len, n, bytes)) = n
  BY <1>1, <1>4, WindowIsSeq
<1>6. QED
  BY <1>1, <1>2, <1>3, <1>4, <1>5

\* An element the account has room for is its bytes.
LEMMA ElementWithin ==
  ASSUME GS!GrowableSeqAssumption, NEW len \in Lengths, NEW bytes \in [GS!Offset -> Byte],
         NEW j \in Nat, j < len \div STRIDE
  PROVE  /\ j \in 0 .. MostElements - 1
         /\ ElementOf(len, bytes, j) = [b \in InElement |-> bytes[ByteAt(j, b)]]
<1>1. 0 \in 0 .. MostElements /\ j \in 0 .. (len \div STRIDE) - 1
  BY GrownConstants
<1>2. QED
  BY <1>1, ListFacts

LEMMA GrownFacts ==
  ASSUME GS!GrowableSeqAssumption, GS!TypeOK
  PROVE  /\ gs_count \in 0 .. MostElements /\ gs_count \in Nat /\ gs_len \in Lengths
         /\ gs_bytes \in [GS!Offset -> Byte] /\ gs_reset \in BOOLEAN
         /\ GS!SeqCapacityFor = gs_len \div STRIDE /\ GS!SeqCapacityFor \in 0 .. MostElements
         /\ Len(ElementList) = gs_count
<1>1. /\ gs_count \in 0 .. MostElements /\ gs_len \in Lengths
      /\ gs_bytes \in [GS!Offset -> Byte] /\ gs_reset \in BOOLEAN
  BY DEF GS!TypeOK, MostElements
<1>2. GS!SeqCapacityFor = gs_len \div STRIDE /\ GS!SeqCapacityFor \in 0 .. MostElements
  BY <1>1, GrownConstants DEF GS!SeqCapacityFor
<1>3. ElementList = ListOf(gs_len, gs_count, gs_bytes)
  BY DEF ElementList, ListOf, GS!Element, ElementOf, GS!At, ByteAt, InElement
<1>4. QED
  BY <1>1, <1>2, <1>3, ListFacts

LEMMA ListsAre ==
  /\ ElementList = ListOf(gs_len, gs_count, gs_bytes)
  /\ ElementList' = ListOf(gs_len', gs_count', gs_bytes')
  /\ \A j : GS!Element(j) = ElementOf(gs_len, gs_bytes, j)
  BY DEF ElementList, ListOf, GS!Element, ElementOf, GS!At, ByteAt, InElement

\* What a write of element i leaves in each byte, and a removal.
LEMMA EncodedBytes ==
  ASSUME GS!GrowableSeqAssumption, GS!TypeOK, NEW i \in Nat, NEW v \in GS!Encoding
  PROVE  /\ GS!Encoded(i, v) \in [GS!Offset -> Byte]
         /\ \A j \in 0 .. MostElements - 1 : \A b \in InElement :
              GS!Encoded(i, v)[ByteAt(j, b)] = IF j = i THEN v[b] ELSE gs_bytes[ByteAt(j, b)]
<1>1. ASSUME NEW o \in GS!Offset PROVE GS!Encoded(i, v)[o] \in Byte
  <2>1. o % STRIDE \in InElement /\ v \in [InElement -> Byte]
    BY OffsetFacts, GrownConstants
  <2>2. QED
    BY <2>1, GrownFacts DEF GS!Encoded
<1>2. GS!Encoded(i, v) = [o \in GS!Offset |-> GS!Encoded(i, v)[o]]
  BY DEF GS!Encoded
<1>3. ASSUME NEW j \in 0 .. MostElements - 1, NEW b \in InElement
      PROVE  GS!Encoded(i, v)[ByteAt(j, b)] = IF j = i THEN v[b] ELSE gs_bytes[ByteAt(j, b)]
  <2>1. /\ ByteAt(j, b) \in GS!Offset
        /\ ByteAt(j, b) \div STRIDE = j /\ ByteAt(j, b) % STRIDE = b
    BY ByteFacts, GrownConstants
  <2>2. QED
    BY <2>1 DEF GS!Encoded
<1>4. QED
  BY <1>1, <1>2, <1>3

LEMMA WithoutBytes ==
  ASSUME GS!GrowableSeqAssumption, GS!TypeOK, gs_count > 0, NEW i \in Nat
  PROVE  /\ GS!Without(i) \in [GS!Offset -> Byte]
         /\ \A j \in 0 .. MostElements - 1 : \A b \in InElement :
              GS!Without(i)[ByteAt(j, b)] =
                IF j = gs_count - 1 THEN ZeroByte
                ELSE gs_bytes[ByteAt(IF j = i THEN gs_count - 1 ELSE j, b)]
<1>1. /\ gs_count - 1 \in Nat /\ gs_count - 1 < MostElements
      /\ gs_bytes \in [GS!Offset -> Byte] /\ ZeroByte \in Byte
  BY GrownFacts, GrownConstants
<1>2. GS!Without(i) = [o \in GS!Offset |-> IF o \div STRIDE = gs_count - 1 THEN ZeroByte
                         ELSE IF o \div STRIDE = i THEN gs_bytes[ByteAt(gs_count - 1, o % STRIDE)]
                         ELSE gs_bytes[o]]
  BY DEF GS!Without, ByteAt
<1>3. ASSUME NEW o \in GS!Offset PROVE GS!Without(i)[o] \in Byte
  <2>1. o % STRIDE \in InElement
    BY OffsetFacts
  <2>2. ByteAt(gs_count - 1, o % STRIDE) \in GS!Offset
    BY <1>1, <2>1, ByteFacts
  <2>3. QED
    BY <1>1, <1>2, <2>2
<1>4. GS!Without(i) = [o \in GS!Offset |-> GS!Without(i)[o]]
  BY <1>2
<1>5. ASSUME NEW j \in 0 .. MostElements - 1, NEW b \in InElement
      PROVE  GS!Without(i)[ByteAt(j, b)] =
               IF j = gs_count - 1 THEN ZeroByte
               ELSE gs_bytes[ByteAt(IF j = i THEN gs_count - 1 ELSE j, b)]
  <2>1. /\ ByteAt(j, b) \in GS!Offset
        /\ ByteAt(j, b) \div STRIDE = j /\ ByteAt(j, b) % STRIDE = b
    BY ByteFacts, GrownConstants
  <2>2. QED
    BY <1>2, <2>1
<1>6. QED
  BY <1>3, <1>4, <1>5

LEMMA ListReplaced ==
  ASSUME NEW S, NEW n \in Nat, NEW w \in [1 .. n -> S], NEW v \in [1 .. n -> S], NEW k \in 1 .. n,
         \A i \in 1 .. n : i # k => v[i] = w[i]
  PROVE  v = [w EXCEPT ![k] = v[k]]
OBVIOUS

LEMMA ListShortened ==
  ASSUME NEW S, NEW n \in Nat \ {0}, NEW w \in [1 .. n -> S], NEW v \in [1 .. n - 1 -> S],
         \A i \in 1 .. n - 1 : v[i] = w[i]
  PROVE  v = SubSeq(w, 1, n - 1)
<1>1. w \in Seq(S) /\ Len(w) = n
  BY WindowIsSeq
<1>2. n - 1 \in Nat /\ 1 \in 1 .. Len(w) + 1 /\ n - 1 \in 1 - 1 .. Len(w)
  BY <1>1
<1>3. v \in Seq(S) /\ Len(v) = n - 1
  BY <1>2, WindowIsSeq
<1>4. /\ SubSeq(w, 1, n - 1) \in Seq(S)
      /\ Len(SubSeq(w, 1, n - 1)) = n - 1
      /\ \A i \in 1 .. n - 1 : SubSeq(w, 1, n - 1)[i] = w[i]
  BY <1>1, <1>2, SubSeqProperties
<1>5. QED
  BY <1>3, <1>4, SeqEqual

LEMMA ListSwapped ==
  ASSUME NEW S, NEW n \in Nat \ {0}, NEW w \in [1 .. n -> S], NEW v \in [1 .. n - 1 -> S],
         NEW k \in 1 .. n, \A i \in 1 .. n - 1 : v[i] = IF i = k THEN w[n] ELSE w[i]
  PROVE  v = SubSeq([w EXCEPT ![k] = w[n]], 1, n - 1)
<1>1. PICK u : u = [w EXCEPT ![k] = w[n]]
  OBVIOUS
<1>2. u \in [1 .. n -> S] /\ \A i \in 1 .. n - 1 : v[i] = u[i]
  <2>1. n \in 1 .. n
    OBVIOUS
  <2>2. QED
    BY <1>1, <2>1
<1>3. QED
  BY <1>1, <1>2, ListShortened

\* What the list becomes when it is open.
LEMMA PushAppends ==
  ASSUME GS!GrowableSeqAssumption, GS!TypeOK, gs_count < GS!SeqCapacityFor, NEW v \in GS!Encoding
  PROVE  ListOf(gs_len, gs_count + 1, GS!Encoded(gs_count, v)) = Append(ElementList, v)
<1> DEFINE n == gs_count
           bytes == GS!Encoded(n, v)
           after == ListOf(gs_len, n + 1, bytes)
<1>1. /\ n \in Nat /\ n + 1 \in 0 .. MostElements /\ gs_len \in Lengths
      /\ n \in 0 .. MostElements /\ gs_bytes \in [GS!Offset -> Byte]
      /\ n < gs_len \div STRIDE /\ gs_len \div STRIDE \in Nat
  BY GrownFacts, GrownConstants
<1>2. bytes \in [GS!Offset -> Byte]
  BY <1>1, EncodedBytes
<1> HIDE DEF bytes
<1>3. /\ after \in [1 .. n + 1 -> GS!Encoding] /\ ElementList \in [1 .. n -> GS!Encoding]
      /\ \A i \in 1 .. n + 1 : after[i] = ElementOf(gs_len, bytes, i - 1)
      /\ \A i \in 1 .. n : ElementList[i] = ElementOf(gs_len, gs_bytes, i - 1)
  <2>1. /\ ListOf(gs_len, n, gs_bytes) \in [1 .. n -> GS!Encoding]
        /\ \A i \in 1 .. n : ListOf(gs_len, n, gs_bytes)[i] = ElementOf(gs_len, gs_bytes, i - 1)
    BY <1>1, ListFacts
  <2>2. QED
    BY <1>1, <1>2, <2>1, ListFacts, ListsAre
<1>4. ASSUME NEW j \in 0 .. n
      PROVE  ElementOf(gs_len, bytes, j) = IF j = n THEN v ELSE ElementOf(gs_len, gs_bytes, j)
  <2>1. j \in Nat /\ j < gs_len \div STRIDE
    BY <1>1
  <2>2. /\ j \in 0 .. MostElements - 1
        /\ ElementOf(gs_len, bytes, j) = [b \in InElement |-> bytes[ByteAt(j, b)]]
        /\ ElementOf(gs_len, gs_bytes, j) = [b \in InElement |-> gs_bytes[ByteAt(j, b)]]
    <3>1. /\ j \in 0 .. MostElements - 1
          /\ ElementOf(gs_len, bytes, j) = [b \in InElement |-> bytes[ByteAt(j, b)]]
      BY <1>1, <1>2, <2>1, ElementWithin
    <3>2. ElementOf(gs_len, gs_bytes, j) = [b \in InElement |-> gs_bytes[ByteAt(j, b)]]
      BY <1>1, <2>1, ElementWithin
    <3>3. QED
      BY <3>1, <3>2
  <2>3. \A b \in InElement : bytes[ByteAt(j, b)] = IF j = n THEN v[b] ELSE gs_bytes[ByteAt(j, b)]
    BY <1>1, <2>2, EncodedBytes DEF bytes
  <2>4. v = [b \in InElement |-> v[b]]
    BY GrownConstants
  <2>5. QED
    BY <2>2, <2>3, <2>4
<1> HIDE DEF after
<1>5. Grows(GS!Encoding, n, ElementList, v, after)
  <2>1. \A i \in 1 .. n : i \in 1 .. n + 1 /\ i - 1 \in 0 .. n /\ i - 1 # n
    BY <1>1
  <2>2. n + 1 \in 1 .. n + 1 /\ (n + 1) - 1 = n /\ n \in 0 .. n
    BY <1>1
  <2>3. after[n + 1] = v
    BY <1>3, <1>4, <2>2
  <2>4. \A i \in 1 .. n : after[i] = ElementList[i]
    BY <1>3, <1>4, <2>1
  <2>5. QED
    BY <1>3, <2>3, <2>4 DEF Grows
<1>6. QED
  BY <1>1, <1>5, WindowGrows DEF after, bytes

LEMMA SetReplaces ==
  ASSUME GS!GrowableSeqAssumption, GS!TypeOK, gs_count <= GS!SeqCapacityFor,
         NEW k \in 0 .. gs_count - 1, NEW v \in GS!Encoding
  PROVE  ListOf(gs_len, gs_count, GS!Encoded(k, v)) = [ElementList EXCEPT ![k + 1] = v]
<1> DEFINE n == gs_count
           bytes == GS!Encoded(k, v)
           after == ListOf(gs_len, n, bytes)
<1>1. /\ n \in Nat /\ k \in Nat /\ n \in 0 .. MostElements /\ gs_len \in Lengths
      /\ gs_bytes \in [GS!Offset -> Byte] /\ n <= gs_len \div STRIDE /\ gs_len \div STRIDE \in Nat
  BY GrownFacts, GrownConstants
<1>2. bytes \in [GS!Offset -> Byte]
  BY <1>1, EncodedBytes
<1> HIDE DEF bytes
<1>3. /\ after \in [1 .. n -> GS!Encoding] /\ ElementList \in [1 .. n -> GS!Encoding]
      /\ \A i \in 1 .. n : after[i] = ElementOf(gs_len, bytes, i - 1)
      /\ \A i \in 1 .. n : ElementList[i] = ElementOf(gs_len, gs_bytes, i - 1)
  <2>1. /\ ListOf(gs_len, n, gs_bytes) \in [1 .. n -> GS!Encoding]
        /\ \A i \in 1 .. n : ListOf(gs_len, n, gs_bytes)[i] = ElementOf(gs_len, gs_bytes, i - 1)
    BY <1>1, ListFacts
  <2>2. QED
    BY <1>1, <1>2, <2>1, ListFacts, ListsAre
<1>4. ASSUME NEW j \in 0 .. n - 1
      PROVE  ElementOf(gs_len, bytes, j) = IF j = k THEN v ELSE ElementOf(gs_len, gs_bytes, j)
  <2>1. j \in Nat /\ j < gs_len \div STRIDE
    BY <1>1
  <2>2. /\ j \in 0 .. MostElements - 1
        /\ ElementOf(gs_len, bytes, j) = [b \in InElement |-> bytes[ByteAt(j, b)]]
        /\ ElementOf(gs_len, gs_bytes, j) = [b \in InElement |-> gs_bytes[ByteAt(j, b)]]
    <3>1. /\ j \in 0 .. MostElements - 1
          /\ ElementOf(gs_len, bytes, j) = [b \in InElement |-> bytes[ByteAt(j, b)]]
      BY <1>1, <1>2, <2>1, ElementWithin
    <3>2. ElementOf(gs_len, gs_bytes, j) = [b \in InElement |-> gs_bytes[ByteAt(j, b)]]
      BY <1>1, <2>1, ElementWithin
    <3>3. QED
      BY <3>1, <3>2
  <2>3. \A b \in InElement : bytes[ByteAt(j, b)] = IF j = k THEN v[b] ELSE gs_bytes[ByteAt(j, b)]
    BY <1>1, <2>2, EncodedBytes DEF bytes
  <2>4. v = [b \in InElement |-> v[b]]
    BY GrownConstants
  <2>5. QED
    BY <2>2, <2>3, <2>4
<1> HIDE DEF after
<1>5. k + 1 \in 1 .. n /\ after[k + 1] = v
  <2>1. k + 1 \in 1 .. n /\ (k + 1) - 1 = k
    BY <1>1
  <2>2. QED
    BY <1>3, <1>4, <2>1
<1>6. \A i \in 1 .. n : i # k + 1 => after[i] = ElementList[i]
  <2>1. \A i \in 1 .. n : i - 1 \in 0 .. n - 1 /\ (i # k + 1 => i - 1 # k)
    BY <1>1
  <2>2. QED
    BY <1>3, <1>4, <2>1
<1>7. after = [ElementList EXCEPT ![k + 1] = after[k + 1]]
  BY <1>1, <1>3, <1>5, <1>6, ListReplaced
<1>8. QED
  BY <1>5, <1>7 DEF after, bytes

LEMMA RemovalSwaps ==
  ASSUME GS!GrowableSeqAssumption, GS!TypeOK, gs_count <= GS!SeqCapacityFor,
         NEW k \in 0 .. gs_count - 1
  PROVE  ListOf(gs_len, gs_count - 1, GS!Without(k))
           = SubSeq([ElementList EXCEPT ![k + 1] = ElementList[gs_count]], 1, gs_count - 1)
<1> DEFINE n == gs_count
           bytes == GS!Without(k)
           after == ListOf(gs_len, n - 1, bytes)
<1>1. /\ n \in Nat \ {0} /\ k \in Nat /\ n \in 0 .. MostElements /\ n - 1 \in 0 .. MostElements
      /\ gs_len \in Lengths /\ gs_bytes \in [GS!Offset -> Byte]
      /\ n <= gs_len \div STRIDE /\ gs_len \div STRIDE \in Nat /\ n > 0
  BY GrownFacts, GrownConstants
<1>2. bytes \in [GS!Offset -> Byte]
  BY <1>1, WithoutBytes
<1> HIDE DEF bytes
<1>3. /\ after \in [1 .. n - 1 -> GS!Encoding] /\ ElementList \in [1 .. n -> GS!Encoding]
      /\ \A i \in 1 .. n - 1 : after[i] = ElementOf(gs_len, bytes, i - 1)
      /\ \A i \in 1 .. n : ElementList[i] = ElementOf(gs_len, gs_bytes, i - 1)
  <2>1. /\ ListOf(gs_len, n, gs_bytes) \in [1 .. n -> GS!Encoding]
        /\ \A i \in 1 .. n : ListOf(gs_len, n, gs_bytes)[i] = ElementOf(gs_len, gs_bytes, i - 1)
    BY <1>1, ListFacts
  <2>2. QED
    BY <1>1, <1>2, <2>1, ListFacts, ListsAre
<1>4. ASSUME NEW j \in 0 .. n - 2
      PROVE  ElementOf(gs_len, bytes, j) = ElementOf(gs_len, gs_bytes, IF j = k THEN n - 1 ELSE j)
  <2>1. PICK s \in 0 .. n - 1 : s = IF j = k THEN n - 1 ELSE j
    BY <1>1
  <2>2. /\ j \in Nat /\ j < gs_len \div STRIDE /\ j # n - 1
        /\ s \in Nat /\ s < gs_len \div STRIDE
    BY <1>1, <2>1
  <2>3. /\ j \in 0 .. MostElements - 1
        /\ ElementOf(gs_len, bytes, j) = [b \in InElement |-> bytes[ByteAt(j, b)]]
        /\ ElementOf(gs_len, gs_bytes, s) = [b \in InElement |-> gs_bytes[ByteAt(s, b)]]
    <3>1. /\ j \in 0 .. MostElements - 1
          /\ ElementOf(gs_len, bytes, j) = [b \in InElement |-> bytes[ByteAt(j, b)]]
      BY <1>1, <1>2, <2>2, ElementWithin
    <3>2. ElementOf(gs_len, gs_bytes, s) = [b \in InElement |-> gs_bytes[ByteAt(s, b)]]
      BY <1>1, <2>2, ElementWithin
    <3>3. QED
      BY <3>1, <3>2
  <2>4. \A b \in InElement : bytes[ByteAt(j, b)] = gs_bytes[ByteAt(s, b)]
    BY <1>1, <2>1, <2>2, <2>3, WithoutBytes DEF bytes
  <2>5. QED
    BY <2>1, <2>3, <2>4
<1> HIDE DEF after
<1>5. \A i \in 1 .. n - 1 : after[i] = IF i = k + 1 THEN ElementList[n] ELSE ElementList[i]
  <2>1. ASSUME NEW i \in 1 .. n - 1
        PROVE  after[i] = IF i = k + 1 THEN ElementList[n] ELSE ElementList[i]
    <3>1. i - 1 \in 0 .. n - 2 /\ i \in 1 .. n /\ n \in 1 .. n /\ (i = k + 1 <=> i - 1 = k)
      BY <1>1
    <3>2. QED
      BY <1>3, <1>4, <3>1
  <2>2. QED
    BY <2>1
<1>6. k + 1 \in 1 .. n
  BY <1>1
<1>7. QED
  BY <1>1, <1>3, <1>5, <1>6, ListSwapped DEF after, bytes

LEMMA ResizeCuts ==
  ASSUME GS!GrowableSeqAssumption, GS!TypeOK, NEW m \in Lengths, GS!Resize(m)
  PROVE  /\ gs_bytes' \in [GS!Offset -> Byte]
         /\ ElementList' = GS!Promise!CutAt(m)
<1>1. /\ gs_count \in Nat /\ gs_count \in 0 .. MostElements /\ gs_len \in Lengths /\ gs_len \in Nat
      /\ gs_bytes \in [GS!Offset -> Byte] /\ ZeroByte \in Byte /\ m \in Nat
  BY GrownFacts, GrownConstants
<1>2. /\ gs_len' = m /\ gs_count' = gs_count
      /\ gs_bytes' = [o \in GS!Offset |-> IF gs_len <= o /\ o < m THEN ZeroByte ELSE gs_bytes[o]]
  BY DEF GS!Resize
<1>3. gs_bytes' \in [GS!Offset -> Byte]
  BY <1>1, <1>2
<1>4. ASSUME NEW j \in 0 .. gs_count - 1
      PROVE  ElementOf(m, gs_bytes', j)
               = [b \in InElement |-> IF ByteAt(j, b) < m THEN ElementOf(gs_len, gs_bytes, j)[b]
                                      ELSE ZeroByte]
  <2>1. ASSUME NEW b \in InElement, ByteAt(j, b) < m
        PROVE  gs_bytes'[ByteAt(j, b)] = ElementOf(gs_len, gs_bytes, j)[b]
    <3>1. j \in Nat /\ j < MostElements
      BY <1>1, GrownConstants
    <3>2. ByteAt(j, b) \in GS!Offset /\ ByteAt(j, b) \in Nat
      BY <3>1, ByteFacts
    <3>3. gs_bytes'[ByteAt(j, b)] = IF gs_len <= ByteAt(j, b) THEN ZeroByte
                                    ELSE gs_bytes[ByteAt(j, b)]
      BY <1>2, <2>1, <3>2
    <3>4. QED
      BY <1>1, <3>2, <3>3 DEF ElementOf
  <2>2. QED
    BY <2>1 DEF ElementOf
<1>5. ElementList' = [i \in 1 .. gs_count |-> ElementOf(m, gs_bytes', i - 1)]
  BY <1>2, ListsAre DEF ListOf
<1>6. DOMAIN ElementList = 1 .. gs_count
      /\ \A i \in 1 .. gs_count : ElementList[i] = ElementOf(gs_len, gs_bytes, i - 1)
  BY ListsAre DEF ListOf
<1>7. GS!Promise!CutAt(m) = [i \in DOMAIN ElementList |->
        [b \in InElement |-> IF ByteAt(i - 1, b) < m THEN ElementList[i][b] ELSE ZeroByte]]
  BY DEF GS!Promise!CutAt, InElement, ByteAt, ElementList
<1>8. GS!Promise!CutAt(m) = [i \in 1 .. gs_count |->
        [b \in InElement |-> IF ByteAt(i - 1, b) < m
                             THEN ElementOf(gs_len, gs_bytes, i - 1)[b] ELSE ZeroByte]]
  BY <1>6, <1>7
<1>9. \A i \in 1 .. gs_count : i - 1 \in 0 .. gs_count - 1
  BY <1>1
<1>10. QED
  BY <1>3, <1>4, <1>5, <1>8, <1>9

\* Opens and the number of elements, as the promise sees them.
LEMMA ListReads ==
  ASSUME GS!GrowableSeqAssumption, GS!TypeOK
  PROVE  /\ Len(ElementList) = gs_count
         /\ GS!Promise!Open <=> GS!Opens
         /\ \A i : GS!Promise!Within(i) <=> GS!Opens /\ i < gs_count
         /\ GS!Promise!Room = GS!SeqCapacityFor
<1>1. Len(ElementList) = gs_count
  BY GrownFacts
<1>2. GS!Promise!Room = GS!SeqCapacityFor
  BY DEF GS!Promise!Room, GS!SeqCapacityFor
<1>3. GS!Promise!Open <=> GS!Opens
  BY <1>1, <1>2 DEF GS!Promise!Open, GS!Opens, ElementList
<1>4. \A i : GS!Promise!Within(i) <=> GS!Opens /\ i < gs_count
  BY <1>1, <1>3 DEF GS!Promise!Within, ElementList
<1>5. QED
  BY <1>1, <1>2, <1>3, <1>4

LEMMA PushStep ==
  ASSUME GS!GrowableSeqAssumption, GS!TypeOK, NEW v \in GS!Encoding, GS!Push(v)
  PROVE  GS!TypeOK' /\ GS!Promise!APush(v)
<1>1. /\ Len(ElementList) = gs_count
      /\ GS!Promise!Open <=> GS!Opens
      /\ GS!Promise!Room = GS!SeqCapacityFor
  BY ListReads
<1>2. CASE GS!Opens /\ gs_count < GS!SeqCapacityFor
  <2>1. /\ gs_bytes' = GS!Encoded(gs_count, v) /\ gs_count' = gs_count + 1
        /\ gs_reply' = GS!Done("push", gs_count + 1) /\ gs_len' = gs_len /\ gs_reset' = gs_reset
    BY <1>2 DEF GS!Push
  <2>2. gs_count + 1 \in 0 .. MostElements /\ gs_bytes' \in [GS!Offset -> Byte]
    BY <1>2, <2>1, GrownFacts, GrownConstants, EncodedBytes
  <2>3. GS!TypeOK'
    BY <2>1, <2>2 DEF GS!TypeOK, MostElements, GS!Offset
  <2>4. ElementList' = Append(ElementList, v)
    BY <1>2, <2>1, PushAppends, ListsAre
  <2>5. GS!Promise!APush(v)
    BY <1>1, <1>2, <2>1, <2>4 DEF GS!Promise!APush, GS!Promise!Answer, ElementList, GS!Done
  <2>6. QED
    BY <2>3, <2>5
<1>3. CASE ~(GS!Opens /\ gs_count < GS!SeqCapacityFor)
  <2>1. gs_reply' = GS!Refused("push") /\ UNCHANGED <<gs_len, gs_count, gs_bytes, gs_reset>>
    BY <1>3 DEF GS!Push, GS!Reject
  <2>2. ElementList' = ElementList
    BY <2>1, ListsAre
  <2>3. GS!TypeOK'
    BY <2>1 DEF GS!TypeOK, GS!Offset
  <2>4. GS!Promise!APush(v)
    BY <1>1, <1>3, <2>1, <2>2 DEF GS!Promise!APush, GS!Promise!Answer, ElementList, GS!Refused
  <2>5. QED
    BY <2>3, <2>4
<1>4. QED
  BY <1>2, <1>3

LEMMA GrownRefuses ==
  ASSUME GS!GrowableSeqAssumption, GS!TypeOK, NEW call, GS!Reject(call)
  PROVE  /\ GS!TypeOK' /\ ElementList' = ElementList /\ gs_len' = gs_len
         /\ gs_reply' = GS!Promise!Refused(call)
<1>1. gs_reply' = GS!Refused(call) /\ UNCHANGED <<gs_len, gs_count, gs_bytes, gs_reset>>
  BY DEF GS!Reject
<1>2. ElementList' = ElementList
  BY <1>1, ListsAre
<1>3. GS!TypeOK'
  BY <1>1 DEF GS!TypeOK, GS!Offset
<1>4. QED
  BY <1>1, <1>2, <1>3 DEF GS!Refused

LEMMA SetStep ==
  ASSUME GS!GrowableSeqAssumption, GS!TypeOK, NEW i \in GS!Place, NEW v \in GS!Encoding,
         GS!Set(i, v)
  PROVE  GS!TypeOK' /\ GS!Promise!ASet(i, v)
<1>1. /\ \A k : GS!Promise!Within(k) <=> GS!Opens /\ k < gs_count
      /\ i \in Nat
  BY ListReads, GrownConstants
<1>2. CASE GS!Opens /\ i < gs_count
  <2>1. /\ gs_bytes' = GS!Encoded(i, v) /\ gs_count' = gs_count
        /\ gs_reply' = GS!Done("set", i) /\ gs_len' = gs_len /\ gs_reset' = gs_reset
    BY <1>2 DEF GS!Set
  <2>2. gs_bytes' \in [GS!Offset -> Byte] /\ i \in 0 .. gs_count - 1
        /\ gs_count <= GS!SeqCapacityFor
    BY <1>1, <1>2, <2>1, GrownFacts, EncodedBytes DEF GS!Opens
  <2>3. GS!TypeOK'
    BY <2>1, <2>2 DEF GS!TypeOK, GS!Offset
  <2>4. ElementList' = [ElementList EXCEPT ![i + 1] = v]
    BY <2>1, <2>2, SetReplaces, ListsAre
  <2>5. GS!Promise!ASet(i, v)
    BY <1>1, <1>2, <2>1, <2>4 DEF GS!Promise!ASet, GS!Promise!Answer, ElementList, GS!Done
  <2>6. QED
    BY <2>3, <2>5
<1>3. CASE ~(GS!Opens /\ i < gs_count)
  <2>1. GS!Reject("set")
    BY <1>3 DEF GS!Set
  <2>2. GS!TypeOK' /\ ElementList' = ElementList /\ gs_len' = gs_len
        /\ gs_reply' = GS!Promise!Refused("set")
    BY <2>1, GrownRefuses
  <2>3. GS!Promise!ASet(i, v)
    BY <1>1, <1>3, <2>2 DEF GS!Promise!ASet, GS!Promise!Answer, ElementList
  <2>4. QED
    BY <2>2, <2>3
<1>4. QED
  BY <1>2, <1>3

\* Where the elements stay as they are.
LEMMA GrownKept ==
  ASSUME GS!TypeOK, UNCHANGED <<gs_len, gs_count, gs_bytes, gs_reset>>
  PROVE  GS!TypeOK' /\ ElementList' = ElementList
<1>1. GS!TypeOK'
  BY DEF GS!TypeOK, GS!Offset
<1>2. QED
  BY <1>1, ListsAre

LEMMA ElementsListed ==
  ASSUME GS!GrowableSeqAssumption, GS!TypeOK, NEW i \in Nat, i < gs_count
  PROVE  ElementList[i + 1] = GS!Element(i)
<1>1. i + 1 \in 1 .. gs_count /\ (i + 1) - 1 = i
  BY GrownFacts
<1>2. QED
  BY <1>1 DEF ElementList

LEMMA SeqGetStep ==
  ASSUME GS!GrowableSeqAssumption, GS!TypeOK, NEW i \in GS!Place, GS!Get(i)
  PROVE  GS!TypeOK' /\ GS!Promise!AGet(i)
<1>1. /\ \A k : GS!Promise!Within(k) <=> GS!Opens /\ k < gs_count
      /\ i \in Nat
  BY ListReads, GrownConstants
<1>2. CASE GS!Opens /\ i < gs_count
  <2>1. /\ gs_reply' = GS!Done("get", GS!Element(i))
        /\ UNCHANGED <<gs_len, gs_count, gs_bytes, gs_reset>>
    BY <1>2 DEF GS!Get
  <2>2. GS!TypeOK' /\ ElementList' = ElementList /\ ElementList[i + 1] = GS!Element(i)
    BY <1>1, <1>2, <2>1, GrownKept, ElementsListed
  <2>3. GS!Promise!AGet(i)
    BY <1>1, <1>2, <2>1, <2>2 DEF GS!Promise!AGet, GS!Promise!Answer, ElementList, GS!Done
  <2>4. QED
    BY <2>2, <2>3
<1>3. CASE ~(GS!Opens /\ i < gs_count)
  <2>1. GS!Reject("get")
    BY <1>3 DEF GS!Get
  <2>2. GS!TypeOK' /\ ElementList' = ElementList /\ gs_len' = gs_len
        /\ gs_reply' = GS!Promise!Refused("get")
    BY <2>1, GrownRefuses
  <2>3. GS!Promise!AGet(i)
    BY <1>1, <1>3, <2>2 DEF GS!Promise!AGet, GS!Promise!Answer, ElementList
  <2>4. QED
    BY <2>2, <2>3
<1>4. QED
  BY <1>2, <1>3

LEMMA IterateStep ==
  ASSUME GS!GrowableSeqAssumption, GS!TypeOK, GS!Iterate
  PROVE  GS!TypeOK' /\ GS!Promise!AIterate
<1>1. GS!Promise!Open <=> GS!Opens
  BY ListReads
<1>2. CASE GS!Opens
  <2>1. /\ gs_reply' = GS!Done("iter", ElementList)
        /\ UNCHANGED <<gs_len, gs_count, gs_bytes, gs_reset>>
    BY <1>2 DEF GS!Iterate, ElementList
  <2>2. GS!TypeOK' /\ ElementList' = ElementList
    BY <2>1, GrownKept
  <2>3. GS!Promise!AIterate
    BY <1>1, <1>2, <2>1, <2>2 DEF GS!Promise!AIterate, GS!Promise!Answer, ElementList, GS!Done
  <2>4. QED
    BY <2>2, <2>3
<1>3. CASE ~GS!Opens
  <2>1. GS!Reject("iter")
    BY <1>3 DEF GS!Iterate
  <2>2. GS!TypeOK' /\ ElementList' = ElementList /\ gs_len' = gs_len
        /\ gs_reply' = GS!Promise!Refused("iter")
    BY <2>1, GrownRefuses
  <2>3. GS!Promise!AIterate
    BY <1>1, <1>3, <2>2 DEF GS!Promise!AIterate, GS!Promise!Answer, ElementList
  <2>4. QED
    BY <2>2, <2>3
<1>4. QED
  BY <1>2, <1>3

LEMMA SwapRemoveStep ==
  ASSUME GS!GrowableSeqAssumption, GS!TypeOK, NEW i \in GS!Place, GS!SwapRemove(i)
  PROVE  GS!TypeOK' /\ GS!Promise!ASwapRemove(i)
<1>1. /\ \A k : GS!Promise!Within(k) <=> GS!Opens /\ k < gs_count
      /\ Len(ElementList) = gs_count /\ i \in Nat
  BY ListReads, GrownConstants
<1>2. CASE GS!Opens /\ i < gs_count
  <2>1. /\ gs_bytes' = GS!Without(i) /\ gs_count' = gs_count - 1
        /\ gs_reply' = GS!Done("swap_remove", GS!Element(i))
        /\ gs_len' = gs_len /\ gs_reset' = gs_reset
    BY <1>2 DEF GS!SwapRemove
  <2>2. /\ gs_count > 0 /\ i \in 0 .. gs_count - 1 /\ gs_count <= GS!SeqCapacityFor
        /\ gs_count - 1 \in 0 .. MostElements
    BY <1>1, <1>2, GrownFacts, GrownConstants DEF GS!Opens
  <2>3. gs_bytes' \in [GS!Offset -> Byte]
    BY <1>1, <2>1, <2>2, WithoutBytes
  <2>4. GS!TypeOK'
    BY <2>1, <2>2, <2>3 DEF GS!TypeOK, MostElements, GS!Offset
  <2>5. ElementList'
          = SubSeq([ElementList EXCEPT ![i + 1] = ElementList[gs_count]], 1, gs_count - 1)
    BY <2>1, <2>2, RemovalSwaps, ListsAre
  <2>6. ElementList[i + 1] = GS!Element(i)
    BY <1>1, <1>2, ElementsListed
  <2>7. GS!Promise!ASwapRemove(i)
    BY <1>1, <1>2, <2>1, <2>5, <2>6
    DEF GS!Promise!ASwapRemove, GS!Promise!Answer, ElementList, GS!Done
  <2>8. QED
    BY <2>4, <2>7
<1>3. CASE ~(GS!Opens /\ i < gs_count)
  <2>1. GS!Reject("swap_remove")
    BY <1>3 DEF GS!SwapRemove
  <2>2. GS!TypeOK' /\ ElementList' = ElementList /\ gs_len' = gs_len
        /\ gs_reply' = GS!Promise!Refused("swap_remove")
    BY <2>1, GrownRefuses
  <2>3. GS!Promise!ASwapRemove(i)
    BY <1>1, <1>3, <2>2 DEF GS!Promise!ASwapRemove, GS!Promise!Answer, ElementList
  <2>4. QED
    BY <2>2, <2>3
<1>4. QED
  BY <1>2, <1>3

LEMMA PopStep ==
  ASSUME GS!GrowableSeqAssumption, GS!TypeOK, GS!Pop
  PROVE  GS!TypeOK' /\ GS!Promise!APop
<1>1. /\ \A k : GS!Promise!Within(k) <=> GS!Opens /\ k < gs_count
      /\ GS!Promise!Open <=> GS!Opens
      /\ Len(ElementList) = gs_count /\ gs_count \in Nat
  BY ListReads, GrownFacts
<1>2. CASE GS!Opens /\ gs_count > 0
  <2> DEFINE k == gs_count - 1
  <2>1. /\ gs_bytes' = GS!Without(k) /\ gs_count' = gs_count - 1
        /\ gs_reply' = GS!Done("pop", GS!Element(k))
        /\ gs_len' = gs_len /\ gs_reset' = gs_reset
    BY <1>2 DEF GS!Pop
  <2>2. /\ k \in 0 .. gs_count - 1 /\ k \in Nat /\ k < gs_count /\ k + 1 = gs_count
        /\ gs_count <= GS!SeqCapacityFor /\ gs_count - 1 \in 0 .. MostElements
    BY <1>1, <1>2, GrownFacts, GrownConstants DEF GS!Opens
  <2>3. gs_bytes' \in [GS!Offset -> Byte]
    BY <1>2, <2>1, <2>2, WithoutBytes
  <2>4. GS!TypeOK'
    BY <2>1, <2>2, <2>3 DEF GS!TypeOK, MostElements, GS!Offset
  <2>5. ElementList' = SubSeq(ElementList, 1, gs_count - 1)
    <3>1. ElementList'
            = SubSeq([ElementList EXCEPT ![k + 1] = ElementList[gs_count]], 1, gs_count - 1)
      <4> HIDE DEF k
      <4>1. ListOf(gs_len, gs_count - 1, GS!Without(k))
              = SubSeq([ElementList EXCEPT ![k + 1] = ElementList[gs_count]], 1, gs_count - 1)
        BY <2>2, RemovalSwaps
      <4>2. QED
        BY <2>1, <4>1, ListsAre
    <3>2. [ElementList EXCEPT ![k + 1] = ElementList[gs_count]] = ElementList
      BY <2>2 DEF ElementList
    <3>3. QED
      BY <3>1, <3>2
  <2>6. ElementList[gs_count] = GS!Element(k)
    <3>1. ElementList[k + 1] = GS!Element(k)
      <4> HIDE DEF k
      <4>1. QED
        BY <2>2, ElementsListed
    <3>2. QED
      BY <2>2, <3>1
  <2>7. GS!Promise!APop
    BY <1>1, <1>2, <2>1, <2>2, <2>5, <2>6
    DEF GS!Promise!APop, GS!Promise!Answer, ElementList, GS!Done
  <2>8. QED
    BY <2>4, <2>7
<1>3. CASE ~(GS!Opens /\ gs_count > 0)
  <2>1. GS!Reject("pop")
    BY <1>3 DEF GS!Pop
  <2>2. GS!TypeOK' /\ ElementList' = ElementList /\ gs_len' = gs_len
        /\ gs_reply' = GS!Promise!Refused("pop")
    BY <2>1, GrownRefuses
  <2>3. GS!Promise!APop
    BY <1>1, <1>3, <2>2 DEF GS!Promise!APop, GS!Promise!Answer, ElementList
  <2>4. QED
    BY <2>2, <2>3
<1>4. QED
  BY <1>2, <1>3

LEMMA ClearStep ==
  ASSUME GS!GrowableSeqAssumption, GS!TypeOK, GS!Clear
  PROVE  GS!TypeOK' /\ GS!Promise!AClear
<1>1. GS!Promise!Open <=> GS!Opens
  BY ListReads
<1>2. CASE GS!Opens
  <2>1. /\ gs_bytes' = [o \in GS!Offset |-> IF o < gs_count * STRIDE THEN ZeroByte ELSE gs_bytes[o]]
        /\ gs_count' = 0 /\ gs_reply' = GS!Done("clear", 0)
        /\ gs_len' = gs_len /\ gs_reset' = gs_reset
    BY <1>2 DEF GS!Clear
  <2>2. 0 \in 0 .. MostElements /\ gs_bytes' \in [GS!Offset -> Byte]
    BY <2>1, GrownFacts, GrownConstants
  <2>3. GS!TypeOK'
    BY <2>1, <2>2 DEF GS!TypeOK, MostElements, GS!Offset
  <2>4. ElementList' = <<>>
    BY <2>1 DEF ElementList
  <2>5. GS!Promise!AClear
    BY <1>1, <1>2, <2>1, <2>4 DEF GS!Promise!AClear, GS!Promise!Answer, ElementList, GS!Done
  <2>6. QED
    BY <2>3, <2>5
<1>3. CASE ~GS!Opens
  <2>1. GS!Reject("clear")
    BY <1>3 DEF GS!Clear
  <2>2. GS!TypeOK' /\ ElementList' = ElementList /\ gs_len' = gs_len
        /\ gs_reply' = GS!Promise!Refused("clear")
    BY <2>1, GrownRefuses
  <2>3. GS!Promise!AClear
    BY <1>1, <1>3, <2>2 DEF GS!Promise!AClear, GS!Promise!Answer, ElementList
  <2>4. QED
    BY <2>2, <2>3
<1>4. QED
  BY <1>2, <1>3

LEMMA SeqInitStep ==
  ASSUME GS!GrowableSeqAssumption, GS!TypeOK, GS!SeqInit
  PROVE  GS!TypeOK' /\ GS!Promise!AReset
<1>1. /\ gs_count' = 0 /\ gs_reset' \in BOOLEAN /\ gs_reply' = GS!Done("init", 0)
      /\ gs_len' = gs_len /\ gs_bytes' = gs_bytes
  BY DEF GS!SeqInit
<1>2. 0 \in 0 .. MostElements
  BY GrownConstants
<1>3. GS!TypeOK'
  BY <1>1, <1>2 DEF GS!TypeOK, MostElements, GS!Offset
<1>4. ElementList' = <<>>
  BY <1>1 DEF ElementList
<1>5. GS!Promise!AReset
  BY <1>1, <1>4 DEF GS!Promise!AReset, ElementList, GS!Done
<1>6. QED
  BY <1>3, <1>5

LEMMA ResizeStep ==
  ASSUME GS!GrowableSeqAssumption, GS!TypeOK, NEW m \in Lengths, GS!Resize(m)
  PROVE  GS!TypeOK' /\ GS!Promise!AResize(m)
<1>1. /\ gs_len' = m /\ gs_count' = gs_count /\ gs_reset' = gs_reset
      /\ gs_reply' = GS!Done("resize", m)
  BY DEF GS!Resize
<1>2. gs_bytes' \in [GS!Offset -> Byte] /\ ElementList' = GS!Promise!CutAt(m)
  BY ResizeCuts
<1>3. GS!TypeOK'
  BY <1>1, <1>2 DEF GS!TypeOK, GS!Offset
<1>4. GS!Promise!AResize(m)
  BY <1>1, <1>2 DEF GS!Promise!AResize, ElementList, GS!Done
<1>5. QED
  BY <1>3, <1>4

LEMMA GrownStep ==
  ASSUME GS!GrowableSeqAssumption, GS!TypeOK, [GS!Next]_(GS!vars)
  PROVE  GS!TypeOK' /\ [GS!Promise!ANext]_(GS!Promise!avars)
<1>1. /\ GS!Promise!Encoding = GS!Encoding /\ GS!Promise!Place = GS!Place
      /\ Lengths \subseteq 0 .. MaxLen
  BY GrownConstants DEF GS!Promise!Encoding, GS!Encoding, GS!Promise!Place, GS!Place
<1>2. ASSUME NEW v \in GS!Encoding, GS!Push(v) PROVE GS!TypeOK' /\ GS!Promise!ANext
  BY <1>1, <1>2, PushStep DEF GS!Promise!ANext
<1>3. ASSUME NEW i \in GS!Place, GS!Get(i) PROVE GS!TypeOK' /\ GS!Promise!ANext
  BY <1>1, <1>3, SeqGetStep DEF GS!Promise!ANext
<1>4. ASSUME NEW i \in GS!Place, GS!SwapRemove(i) PROVE GS!TypeOK' /\ GS!Promise!ANext
  BY <1>1, <1>4, SwapRemoveStep DEF GS!Promise!ANext
<1>5. ASSUME NEW i \in GS!Place, NEW v \in GS!Encoding, GS!Set(i, v)
      PROVE  GS!TypeOK' /\ GS!Promise!ANext
  BY <1>1, <1>5, SetStep DEF GS!Promise!ANext
<1>6. CASE GS!Pop
  BY <1>6, PopStep DEF GS!Promise!ANext
<1>7. CASE GS!Iterate
  BY <1>7, IterateStep DEF GS!Promise!ANext
<1>8. CASE GS!Clear
  BY <1>8, ClearStep DEF GS!Promise!ANext
<1>9. CASE GS!SeqInit
  BY <1>9, SeqInitStep DEF GS!Promise!ANext
<1>10. ASSUME NEW m \in Lengths, GS!Resize(m) PROVE GS!TypeOK' /\ GS!Promise!ANext
  <2>1. GS!TypeOK' /\ GS!Promise!AResize(m) /\ m \in 0 .. MaxLen
    BY <1>1, <1>10, ResizeStep
  <2>2. QED
    BY <2>1 DEF GS!Promise!ANext
<1>11. CASE UNCHANGED GS!vars
  <2>1. UNCHANGED <<gs_len, gs_count, gs_bytes, gs_reset, gs_reply>>
    BY <1>11 DEF GS!vars
  <2>2. GS!TypeOK' /\ ElementList' = ElementList
    BY <2>1, GrownKept
  <2>3. UNCHANGED GS!Promise!avars
    BY <2>1, <2>2 DEF GS!Promise!avars, ElementList
  <2>4. QED
    BY <2>2, <2>3
<1>12. QED
  BY <1>2, <1>3, <1>4, <1>5, <1>6, <1>7, <1>8, <1>9, <1>10, <1>11 DEF GS!Next

LEMMA GrownStarts ==
  ASSUME GS!GrowableSeqAssumption, GS!Init
  PROVE  GS!TypeOK /\ GS!RestIsBlank /\ GS!Promise!AInit
<1>1. /\ gs_len \in Lengths /\ gs_count = 0 /\ gs_reset = FALSE
      /\ gs_bytes = [o \in GS!Offset |-> ZeroByte] /\ gs_reply = GS!Done("zeroed", 0)
  BY DEF GS!Init
<1>2. 0 \in 0 .. MostElements /\ ZeroByte \in Byte /\ gs_len \in 0 .. MaxLen
  BY <1>1, GrownConstants
<1>3. GS!TypeOK
  BY <1>1, <1>2 DEF GS!TypeOK, MostElements, GS!Offset
<1>4. GS!RestIsBlank
  BY <1>1 DEF GS!RestIsBlank
<1>5. ElementList = <<>>
  BY <1>1 DEF ElementList
<1>6. GS!Promise!AInit
  BY <1>1, <1>2, <1>5 DEF GS!Promise!AInit, ElementList, GS!Done
<1>7. QED
  BY <1>3, <1>4, <1>6

\* No byte from place n on.
BlankFrom(n, len, bytes) ==
  \A o \in GS!Offset : n <= o \div STRIDE /\ o < len => bytes[o] = ZeroByte

LEMMA BlankByPlace ==
  ASSUME GS!GrowableSeqAssumption, NEW n \in Nat, NEW len, NEW bytes
  PROVE  BlankFrom(n, len, bytes)
           <=> \A o \in GS!Offset : n * STRIDE <= o /\ o < len => bytes[o] = ZeroByte
<1>1. ASSUME NEW o \in GS!Offset PROVE n <= o \div STRIDE <=> n * STRIDE <= o
  <2>1. PICK j \in Nat : j = o \div STRIDE /\ (j < n <=> o < n * STRIDE)
    BY OffsetFacts
  <2>2. o \in Nat /\ n * STRIDE \in Nat
    BY GrownConstants
  <2>3. QED
    BY <2>1, <2>2
<1>2. QED
  BY <1>1 DEF BlankFrom

LEMMA BlankKept ==
  ASSUME GS!GrowableSeqAssumption, GS!TypeOK, GS!RestIsBlank, [GS!Next]_(GS!vars)
  PROVE  GS!RestIsBlank'
<1>1. gs_count \in Nat /\ gs_len \in Nat /\ gs_bytes \in [GS!Offset -> Byte]
  BY GrownFacts, GrownConstants
<1>2. ~gs_reset => BlankFrom(gs_count, gs_len, gs_bytes)
  BY <1>1, BlankByPlace DEF GS!RestIsBlank
<1>3. SUFFICES gs_count' \in Nat /\ (~gs_reset' => BlankFrom(gs_count', gs_len', gs_bytes'))
  <2>1. ASSUME gs_count' \in Nat, ~gs_reset' => BlankFrom(gs_count', gs_len', gs_bytes')
        PROVE  GS!RestIsBlank'
    <3>1. ~gs_reset' => \A o \in GS!Offset :
             gs_count' * STRIDE <= o /\ o < gs_len' => gs_bytes'[o] = ZeroByte
      BY <2>1, BlankByPlace
    <3>2. QED
      BY <3>1 DEF GS!RestIsBlank, GS!Offset
  <2>2. QED
    BY <2>1
<1>4. \A o \in GS!Offset : o \in Nat /\ o \div STRIDE \in Nat
  BY OffsetFacts, GrownConstants
<1>5. ASSUME UNCHANGED <<gs_len, gs_count, gs_bytes, gs_reset>>
      PROVE  gs_count' \in Nat /\ (~gs_reset' => BlankFrom(gs_count', gs_len', gs_bytes'))
  BY <1>1, <1>2, <1>5
<1>6. ASSUME NEW call, GS!Reject(call)
      PROVE  gs_count' \in Nat /\ (~gs_reset' => BlankFrom(gs_count', gs_len', gs_bytes'))
  BY <1>5, <1>6 DEF GS!Reject
<1>7. ASSUME NEW v \in GS!Encoding, GS!Push(v)
      PROVE  gs_count' \in Nat /\ (~gs_reset' => BlankFrom(gs_count', gs_len', gs_bytes'))
  <2>1. CASE GS!Opens /\ gs_count < GS!SeqCapacityFor
    <3>1. /\ gs_bytes' = GS!Encoded(gs_count, v) /\ gs_count' = gs_count + 1
          /\ gs_len' = gs_len /\ gs_reset' = gs_reset
      BY <1>7, <2>1 DEF GS!Push
    <3>2. \A o \in GS!Offset : gs_count + 1 <= o \div STRIDE =>
            gs_count <= o \div STRIDE /\ gs_bytes'[o] = gs_bytes[o]
      BY <1>1, <1>4, <3>1 DEF GS!Encoded
    <3>3. QED
      BY <1>1, <1>2, <3>1, <3>2 DEF BlankFrom
  <2>2. CASE ~(GS!Opens /\ gs_count < GS!SeqCapacityFor)
    BY <1>6, <1>7, <2>2 DEF GS!Push
  <2>3. QED
    BY <2>1, <2>2
<1>8. ASSUME NEW i \in GS!Place, NEW v \in GS!Encoding, GS!Set(i, v)
      PROVE  gs_count' \in Nat /\ (~gs_reset' => BlankFrom(gs_count', gs_len', gs_bytes'))
  <2>1. CASE GS!Opens /\ i < gs_count
    <3>1. /\ gs_bytes' = GS!Encoded(i, v) /\ gs_count' = gs_count
          /\ gs_len' = gs_len /\ gs_reset' = gs_reset /\ i \in Nat
      BY <1>8, <2>1, GrownConstants DEF GS!Set
    <3>2. \A o \in GS!Offset : gs_count <= o \div STRIDE => gs_bytes'[o] = gs_bytes[o]
      BY <1>1, <1>4, <2>1, <3>1 DEF GS!Encoded
    <3>3. QED
      BY <1>1, <1>2, <3>1, <3>2 DEF BlankFrom
  <2>2. CASE ~(GS!Opens /\ i < gs_count)
    BY <1>6, <1>8, <2>2 DEF GS!Set
  <2>3. QED
    BY <2>1, <2>2
<1>9. ASSUME NEW i \in Nat, i < gs_count, gs_count' = gs_count - 1, gs_bytes' = GS!Without(i),
             UNCHANGED <<gs_len, gs_reset>>
      PROVE  gs_count' \in Nat /\ (~gs_reset' => BlankFrom(gs_count', gs_len', gs_bytes'))
  <2>1. \A o \in GS!Offset : gs_count - 1 <= o \div STRIDE =>
          \/ gs_bytes'[o] = ZeroByte
          \/ gs_count <= o \div STRIDE /\ gs_bytes'[o] = gs_bytes[o]
    BY <1>1, <1>4, <1>9 DEF GS!Without
  <2>2. gs_count - 1 \in Nat
    BY <1>1, <1>9
  <2>3. QED
    BY <1>2, <1>9, <2>1, <2>2 DEF BlankFrom
<1>10. ASSUME NEW i \in GS!Place, GS!SwapRemove(i)
       PROVE  gs_count' \in Nat /\ (~gs_reset' => BlankFrom(gs_count', gs_len', gs_bytes'))
  <2>1. i \in Nat
    BY GrownConstants
  <2>2. QED
    BY <1>6, <1>9, <1>10, <2>1 DEF GS!SwapRemove
<1>11. CASE GS!Pop
  <2>1. CASE GS!Opens /\ gs_count > 0
    <3>1. gs_count - 1 \in Nat /\ gs_count - 1 < gs_count
      BY <1>1, <2>1
    <3>2. QED
      BY <1>9, <1>11, <2>1, <3>1 DEF GS!Pop
  <2>2. CASE ~(GS!Opens /\ gs_count > 0)
    BY <1>6, <1>11, <2>2 DEF GS!Pop
  <2>3. QED
    BY <2>1, <2>2
<1>12. CASE GS!Clear
  <2>1. CASE GS!Opens
    <3>1. /\ gs_bytes' = [o \in GS!Offset |-> IF o < gs_count * STRIDE THEN ZeroByte
                                             ELSE gs_bytes[o]]
          /\ gs_count' = 0 /\ gs_len' = gs_len /\ gs_reset' = gs_reset
      BY <1>12, <2>1 DEF GS!Clear
    <3>2. ASSUME NEW o \in GS!Offset
          PROVE  \/ gs_bytes'[o] = ZeroByte
                 \/ gs_count <= o \div STRIDE /\ gs_bytes'[o] = gs_bytes[o]
      <4>1. PICK j \in Nat : j = o \div STRIDE /\ (j < gs_count <=> o < gs_count * STRIDE)
        BY <1>1, OffsetFacts
      <4>2. QED
        BY <1>1, <3>1, <4>1
    <3>3. QED
      BY <1>2, <3>1, <3>2 DEF BlankFrom
  <2>2. CASE ~GS!Opens
    BY <1>6, <1>12, <2>2 DEF GS!Clear
  <2>3. QED
    BY <2>1, <2>2
<1>13. CASE GS!SeqInit
  <2>1. /\ gs_count' = 0 /\ gs_reset' = (gs_reset \/ gs_count > 0)
        /\ gs_len' = gs_len /\ gs_bytes' = gs_bytes
    BY <1>13 DEF GS!SeqInit
  <2>2. ~gs_reset' => ~gs_reset /\ gs_count = 0
    <3>1. ~gs_reset' => ~gs_reset /\ ~(gs_count > 0)
      BY <2>1, Zenon
    <3>2. ~(gs_count > 0) => gs_count = 0
      BY <1>1
    <3>3. QED
      BY <3>1, <3>2, Zenon
  <2>3. QED
    BY <1>2, <2>1, <2>2
<1>14. ASSUME NEW m \in Lengths, GS!Resize(m)
       PROVE  gs_count' \in Nat /\ (~gs_reset' => BlankFrom(gs_count', gs_len', gs_bytes'))
  <2>1. /\ gs_len' = m /\ gs_count' = gs_count /\ gs_reset' = gs_reset
        /\ gs_bytes' = [o \in GS!Offset |-> IF gs_len <= o /\ o < m THEN ZeroByte ELSE gs_bytes[o]]
    BY <1>14 DEF GS!Resize
  <2>2. m \in Nat
    BY GrownConstants
  <2>3. \A o \in GS!Offset : o < m =>
          gs_bytes'[o] = ZeroByte \/ (o < gs_len /\ gs_bytes'[o] = gs_bytes[o])
    BY <1>1, <1>4, <2>1, <2>2
  <2>4. QED
    BY <1>1, <1>2, <2>1, <2>3 DEF BlankFrom
<1>15. CASE \E i \in GS!Place : GS!Get(i)
  BY <1>5, <1>6, <1>15 DEF GS!Get
<1>16. CASE GS!Iterate
  BY <1>5, <1>6, <1>16 DEF GS!Iterate
<1>17. CASE UNCHANGED GS!vars
  BY <1>5, <1>17 DEF GS!vars
<1>18. QED
  BY <1>7, <1>8, <1>10, <1>11, <1>12, <1>13, <1>14, <1>15, <1>16, <1>17 DEF GS!Next

\* Whatever a program does to the length of the account, no byte of a removed element
\* stays behind the last one, unless the program has reset the count over live elements
\* (TailSeqMut::swap_remove, FixedVec::pop, AccountView::resize).
THEOREM RemovedElementsBlank ==
  ASSUME GS!GrowableSeqAssumption
  PROVE  GS!Spec => [](GS!TypeOK /\ GS!RestIsBlank)
<1>1. GS!Init => GS!TypeOK /\ GS!RestIsBlank
  BY GrownStarts
<1>2. GS!TypeOK /\ GS!RestIsBlank /\ [GS!Next]_(GS!vars) => GS!TypeOK' /\ GS!RestIsBlank'
  BY GrownStep, BlankKept
<1>3. QED
  BY <1>1, <1>2, PTL DEF GS!Spec

\* A growable sequence is a list that the calls change and nothing else: no resize
\* moves, duplicates or invents an element, one that cuts the list closes it until
\* there is room again, and the bytes cut off read as zeros (TailSeqMut, FixedVec).
THEOREM SequenceImplementsList ==
  ASSUME GS!GrowableSeqAssumption
  PROVE  GS!Spec => GS!ImplementsList
<1>1. GS!Init => GS!TypeOK /\ GS!Promise!AInit
  BY GrownStarts
<1>2. GS!TypeOK /\ [GS!Next]_(GS!vars) => GS!TypeOK' /\ [GS!Promise!ANext]_(GS!Promise!avars)
  BY GrownStep
<1>3. QED
  BY <1>1, <1>2, PTL DEF GS!Spec, GS!ImplementsList, GS!Promise!ASpec

-----------------------------------------------------------------------------
(* The dynamic tail *)

CONSTANTS Payload, StringCap, VecCap, NoteLen, MaxRoom, Lost
VARIABLES tail_len, tail_cells, tail_stored

DT == INSTANCE DynamicTail WITH
  len <- tail_len, cells <- tail_cells, stored <- tail_stored

\* A set that holds 0, and with a number below n the next one, holds all up to n.
LEMMA UpTo ==
  ASSUME NEW n \in Nat, NEW T, 0 \in T, \A i \in 0 .. n - 1 : i \in T => i + 1 \in T
  PROVE  \A i \in 0 .. n : i \in T
<1> DEFINE Bad == {i \in 0 .. n : i \notin T}
<1>1. SUFFICES ASSUME Bad # {} PROVE FALSE
  OBVIOUS
<1>2. PICK i \in Bad : \A j \in Bad : i <= j
  <2>1. Bad \subseteq Nat
    OBVIOUS
  <2> HIDE DEF Bad
  <2>2. QED
    BY <1>1, <2>1, LeastElement
<1>3. i # 0 /\ i \in 0 .. n /\ i \notin T
  BY <1>2
<1>4. PICK k \in 0 .. n - 1 : i = k + 1
  <2>1. i - 1 \in 0 .. n - 1 /\ i = (i - 1) + 1
    BY <1>3
  <2>2. QED
    BY <2>1
<1>5. k \notin Bad
  <2> HIDE DEF Bad
  <2>1. QED
    BY <1>2, <1>4
<1>6. k \in T
  BY <1>5
<1>7. QED
  BY <1>3, <1>4, <1>6

\* Parts of a sequence put together, and cut out again.
LEMMA Joined ==
  ASSUME NEW S, NEW a \in Seq(S), NEW b \in Seq(S)
  PROVE  /\ a \o b \in Seq(S) /\ Len(a \o b) = Len(a) + Len(b)
         /\ Len(a) \in Nat /\ Len(b) \in Nat
         /\ \A i \in 1 .. Len(a) : (a \o b)[i] = a[i]
         /\ \A i \in 1 .. Len(b) : (a \o b)[Len(a) + i] = b[i]
         /\ a \o <<>> = a /\ <<>> \o a = a
<1>1. /\ a \o b \in Seq(S)
      /\ Len(a \o b) = Len(a) + Len(b)
      /\ \A i \in 1 .. Len(a) + Len(b) : (a \o b)[i] =
              IF i <= Len(a) THEN a[i] ELSE b[i - Len(a)]
  BY ConcatProperties
<1>2. Len(a) \in Nat /\ Len(b) \in Nat
  BY LenProperties
<1>3. a \o <<>> = a /\ <<>> \o a = a
  BY ConcatEmptySeq
<1>4. ASSUME NEW i \in 1 .. Len(a) PROVE (a \o b)[i] = a[i]
  BY <1>1, <1>2
<1>5. ASSUME NEW i \in 1 .. Len(b) PROVE (a \o b)[Len(a) + i] = b[i]
  <2>1. Len(a) + i \in 1 .. Len(a) + Len(b) /\ ~(Len(a) + i <= Len(a)) /\ (Len(a) + i) - Len(a) = i
    BY <1>2
  <2>2. QED
    BY <1>1, <2>1
<1>6. QED
  BY <1>1, <1>2, <1>3, <1>4, <1>5

\* A joined sequence has its type and its length.
LEMMA JoinedTyped ==
  ASSUME NEW S, NEW a, NEW b, a \in Seq(S), b \in Seq(S)
  PROVE  a \o b \in Seq(S) /\ Len(a \o b) = Len(a) + Len(b)
  BY Joined

\* Three parts join to the same, whichever two are joined first.
Regroups(a, b, c) == (a \o b) \o c = a \o (b \o c)

\* Joining is associative.
LEMMA Regrouped ==
  ASSUME NEW S, NEW a \in Seq(S), NEW b \in Seq(S), NEW c \in Seq(S)
  PROVE  Regroups(a, b, c)
  BY ConcatAssociative DEF Regroups

\* A slice has its type, its length and its elements.
LEMMA Slice ==
  ASSUME NEW S, NEW s \in Seq(S), NEW p \in Nat, NEW q \in Nat, p > 0, q <= Len(s)
  PROVE  /\ SubSeq(s, p, q) \in Seq(S)
         /\ Len(SubSeq(s, p, q)) = IF p <= q THEN q - p + 1 ELSE 0
         /\ \A i \in 1 .. q - p + 1 : SubSeq(s, p, q)[i] = s[p + i - 1]
<1>1. \A i \in p .. q : s[i] \in S
  <2>1. Len(s) \in Nat
    BY LenProperties
  <2>2. \A i \in p .. q : i \in 1 .. Len(s)
    BY <2>1
  <2>3. QED
    BY <2>2, ElementOfSeq
<1>2. p \in Int /\ q \in Int
  OBVIOUS
<1>3. QED
  BY <1>1, <1>2, SubSeqProperties

\* The bytes of x are in s, behind the first p.
Lies(s, p, x) == p + Len(x) <= Len(s) /\ \A j \in 1 .. Len(x) : s[p + j] = x[j]

\* What lies somewhere is cut out there.
LEMMA LiesCut ==
  ASSUME NEW S, NEW s \in Seq(S), NEW p \in Nat, NEW x \in Seq(S), Lies(s, p, x)
  PROVE  SubSeq(s, p + 1, p + Len(x)) = x
<1>1. Len(x) \in Nat /\ Len(s) \in Nat /\ p + Len(x) <= Len(s)
  BY LenProperties DEF Lies
<1>2. PICK a \in Nat, b \in Nat : a = p + 1 /\ b = p + Len(x)
  BY <1>1
<1>3. /\ SubSeq(s, a, b) \in Seq(S)
      /\ Len(SubSeq(s, a, b)) = IF a <= b THEN b - a + 1 ELSE 0
      /\ \A i \in 1 .. b - a + 1 : SubSeq(s, a, b)[i] = s[a + i - 1]
  <2>1. a > 0 /\ b <= Len(s)
    BY <1>1, <1>2
  <2>2. QED
    BY <2>1, Slice
<1>4. Len(SubSeq(s, a, b)) = Len(x)
  BY <1>1, <1>2, <1>3
<1>5. \A i \in 1 .. Len(x) : i \in 1 .. b - a + 1 /\ a + i - 1 = p + i
  BY <1>1, <1>2
<1>6. \A i \in 1 .. Len(x) : SubSeq(s, a, b)[i] = x[i]
  BY <1>3, <1>5 DEF Lies
<1>7. SubSeq(s, a, b) = x
  BY <1>3, <1>4, <1>6, SeqEqual
<1>8. QED
  BY <1>2, <1>7

\* What is joined lies one part behind the other.
LiesInTwo(s, p, a, b) == Lies(s, p, a \o b) <=> Lies(s, p, a) /\ Lies(s, p + Len(a), b)

\* A joined sequence lies where its parts lie one behind the other.
LEMMA LiesJoined ==
  ASSUME NEW S, NEW s \in Seq(S), NEW p \in Nat, NEW a \in Seq(S), NEW b \in Seq(S)
  PROVE  LiesInTwo(s, p, a, b)
<1>1. PICK c : c = a \o b
  OBVIOUS
<1>2. /\ Len(c) = Len(a) + Len(b) /\ Len(a) \in Nat /\ Len(b) \in Nat /\ Len(s) \in Nat
      /\ \A i \in 1 .. Len(a) : c[i] = a[i]
      /\ \A i \in 1 .. Len(b) : c[Len(a) + i] = b[i]
  BY <1>1, Joined, LenProperties
<1>3. ASSUME Lies(s, p, c) PROVE Lies(s, p, a) /\ Lies(s, p + Len(a), b)
  <2>1. p + Len(a) <= Len(s) /\ (p + Len(a)) + Len(b) <= Len(s)
    BY <1>2, <1>3 DEF Lies
  <2>2. \A i \in 1 .. Len(a) : i \in 1 .. Len(c)
    BY <1>2
  <2>3. \A i \in 1 .. Len(b) : Len(a) + i \in 1 .. Len(c) /\ p + (Len(a) + i) = (p + Len(a)) + i
    BY <1>2
  <2>4. \A i \in 1 .. Len(a) : s[p + i] = a[i]
    BY <1>2, <1>3, <2>2 DEF Lies
  <2>5. \A i \in 1 .. Len(b) : s[(p + Len(a)) + i] = b[i]
    BY <1>2, <1>3, <2>3 DEF Lies
  <2>6. QED
    BY <2>1, <2>4, <2>5 DEF Lies
<1>4. ASSUME Lies(s, p, a), Lies(s, p + Len(a), b) PROVE Lies(s, p, c)
  <2>1. p + Len(c) <= Len(s)
    BY <1>2, <1>4 DEF Lies
  <2>2. ASSUME NEW j \in 1 .. Len(c) PROVE s[p + j] = c[j]
    <3>1. CASE j <= Len(a)
      <4>1. j \in 1 .. Len(a)
        BY <1>2, <3>1
      <4>2. QED
        BY <1>2, <1>4, <4>1 DEF Lies
    <3>2. CASE ~(j <= Len(a))
      <4>1. PICK i \in 1 .. Len(b) : j = Len(a) + i
        <5>1. j - Len(a) \in 1 .. Len(b) /\ j = Len(a) + (j - Len(a))
          BY <1>2, <3>2
        <5>2. QED
          BY <5>1
      <4>2. p + j = (p + Len(a)) + i
        BY <1>2, <4>1
      <4>3. s[(p + Len(a)) + i] = b[i] /\ c[j] = b[i]
        BY <1>2, <1>4, <4>1 DEF Lies
      <4>4. QED
        BY <4>2, <4>3
    <3>3. QED
      BY <3>1, <3>2
  <2>3. QED
    BY <2>1, <2>2 DEF Lies
<1>5. QED
  BY <1>1, <1>3, <1>4 DEF LiesInTwo

\* What lies at the start and is as long is all there is.
LEMMA LiesAll ==
  ASSUME NEW S, NEW s \in Seq(S), NEW x \in Seq(S), Len(s) = Len(x)
  PROVE  Lies(s, 0, x) <=> s = x
<1>1. Len(s) \in Nat /\ 0 + Len(x) <= Len(s) /\ \A j \in 1 .. Len(x) : 0 + j = j
  BY LenProperties
<1>2. s = x => Lies(s, 0, x)
  BY <1>1 DEF Lies
<1>3. ASSUME Lies(s, 0, x) PROVE s = x
  <2>1. \A j \in 1 .. Len(x) : s[j] = x[j]
    BY <1>1, <1>3 DEF Lies
  <2>2. QED
    BY <2>1, SeqEqual
<1>4. QED
  BY <1>2, <1>3

\* A sequence lies in itself.
LEMMA LiesSelf ==
  ASSUME NEW S, NEW s, s \in Seq(S)
  PROVE  Lies(s, 0, s)
  BY LiesAll

\* The elements of a sequence of sequences joined one by one.
Joins(f, m) == f[0] = <<>> /\ \A i \in 1 .. Len(m) : f[i] = f[i - 1] \o m[i]

\* FlattenSeq joins the elements one by one.
LEMMA FlatIs ==
  ASSUME NEW S, NEW m \in Seq(Seq(S))
  PROVE  \E f : Joins(f, m) /\ DT!FlattenSeq(m) = f[Len(m)]
<1> DEFINE n == Len(m)
           Entry(h, i) == IF i = 1 THEN m[i] ELSE h[i - 1] \o m[i]
           Body(h) == [i \in 1 .. n |-> Entry(h, i)]
<1>1. n \in Nat /\ \A i \in 1 .. n : m[i] \in Seq(S)
  BY LenProperties, ElementOfSeq
<1>2. CASE n = 0
  <2>1. m = <<>>
    BY <1>2, EmptySeq
  <2>2. DT!FlattenSeq(m) = <<>>
    BY <1>2, <2>1 DEF DT!FlattenSeq
  <2>3. PICK f : f = [i \in {0} |-> <<>>]
    OBVIOUS
  <2>4. Joins(f, m) /\ f[n] = <<>>
    BY <1>2, <2>3 DEF Joins
  <2>5. QED
    BY <2>2, <2>4
<1>3. CASE n # 0
  <2> DEFINE T == {d \in 0 .. n : \E h : \A i \in 1 .. d : h[i] = Entry(h, i)}
  <2>1. 0 \in T
    BY <1>1
  <2>2. ASSUME NEW d \in 0 .. n - 1, d \in T PROVE d + 1 \in T
    <3>1. PICK h : \A i \in 1 .. d : h[i] = Entry(h, i)
      BY <2>2
    <3>2. PICK g : g = [i \in 1 .. n |-> IF i <= d THEN h[i] ELSE Entry(h, i)]
      OBVIOUS
    <3>3. ASSUME NEW i \in 1 .. d + 1 PROVE g[i] = Entry(g, i)
      <4>1. i \in 1 .. n /\ i <= d + 1 /\ d \in Nat
        BY <1>1
      <4>2. g[i] = Entry(h, i)
        <5>1. CASE i <= d
          <6>1. i \in 1 .. d
            BY <4>1, <5>1
          <6>2. g[i] = h[i]
            BY <3>2, <4>1, <5>1
          <6> HIDE DEF Entry
          <6>3. QED
            BY <3>1, <6>1, <6>2
        <5>2. CASE ~(i <= d)
          <6> HIDE DEF Entry
          <6>1. QED
            BY <3>2, <4>1, <5>2
        <5>3. QED
          BY <5>1, <5>2
      <4>3. i # 1 => g[i - 1] = h[i - 1]
        <5>1. i # 1 => i - 1 \in 1 .. n /\ i - 1 <= d
          BY <4>1
        <5> HIDE DEF Entry
        <5>2. QED
          BY <3>2, <5>1
      <4>4. QED
        BY <4>2, <4>3
    <3>4. d + 1 \in 0 .. n
      BY <1>1
    <3> HIDE DEF Entry
    <3>5. QED
      BY <3>3, <3>4
  <2>3. \A i \in 0 .. n : i \in T
    <3> HIDE DEF T, n
    <3>1. QED
      BY <1>1, <2>1, <2>2, UpTo
  <2>4. PICK h : \A i \in 1 .. n : h[i] = Entry(h, i)
    <3>1. n \in T
      <4>1. n \in 0 .. n
        BY <1>1
      <4> HIDE DEF T, n
      <4>2. QED
        BY <2>3, <4>1
    <3> HIDE DEF Entry
    <3>2. QED
      BY <3>1
  <2>5. PICK g : g = [i \in 1 .. n |-> h[i]]
    OBVIOUS
  <2>6. ASSUME NEW i \in 1 .. n PROVE g[i] = Entry(g, i)
    <3>1. i # 1 => i - 1 \in 1 .. n
      BY <1>1
    <3>2. g[i] = h[i] /\ (i # 1 => g[i - 1] = h[i - 1])
      BY <2>5, <3>1
    <3>3. h[i] = Entry(h, i)
      BY <2>4
    <3>4. QED
      BY <3>2, <3>3
  <2>7. g = Body(g)
    <3>1. g = [i \in 1 .. n |-> g[i]]
      BY <2>5
    <3> HIDE DEF Entry
    <3>2. QED
      BY <2>6, <3>1
  <2>8. PICK f : f = CHOOSE h_1 : h_1 = Body(h_1)
    OBVIOUS
  <2>9. f = Body(f)
    <3> HIDE DEF Body
    <3>1. QED
      BY <2>7, <2>8
  <2>10. DT!FlattenSeq(m) = f[n]
    BY <1>3, <2>8 DEF DT!FlattenSeq
  <2>11. PICK e : e = [i \in 0 .. n |-> IF i = 0 THEN <<>> ELSE f[i]]
    OBVIOUS
  <2>12. e[0] = <<>> /\ e[n] = f[n]
    BY <1>1, <1>3, <2>11
  <2>13. ASSUME NEW i \in 1 .. n PROVE e[i] = e[i - 1] \o m[i]
    <3>1. i \in 0 .. n /\ i # 0 /\ i - 1 \in 0 .. n
      BY <1>1
    <3>2. f[i] = Entry(f, i)
      BY <2>9
    <3>3. e[i] = f[i] /\ e[i - 1] = IF i - 1 = 0 THEN <<>> ELSE f[i - 1]
      BY <2>11, <3>1
    <3>4. CASE i = 1
      <4>1. m[i] \in Seq(S)
        BY <1>1
      <4>2. <<>> \o m[i] = m[i]
        BY <4>1, ConcatEmptySeq
      <4>3. e[i - 1] = <<>> /\ f[i] = m[i]
        BY <3>2, <3>3, <3>4
      <4> HIDE DEF Entry, Body
      <4>4. QED
        BY <3>3, <4>2, <4>3
    <3>5. CASE i # 1
      <4>1. i - 1 # 0
        BY <3>1, <3>5
      <4>2. QED
        BY <3>2, <3>3, <3>5, <4>1
    <3>6. QED
      BY <3>4, <3>5
  <2>14. Joins(e, m)
    <3> HIDE DEF Body, Entry
    <3>1. QED
      BY <2>12, <2>13 DEF Joins
  <2>15. QED
    BY <2>10, <2>12, <2>14
<1>4. QED
  BY <1>2, <1>3

\* Each partial join is a sequence.
LEMMA JoinsTyped ==
  ASSUME NEW S, NEW m \in Seq(Seq(S)), NEW f, Joins(f, m)
  PROVE  \A i \in 0 .. Len(m) : f[i] \in Seq(S)
<1> DEFINE T == {i \in 0 .. Len(m) : f[i] \in Seq(S)}
<1>1. Len(m) \in Nat /\ \A i \in 1 .. Len(m) : m[i] \in Seq(S)
  BY LenProperties, ElementOfSeq
<1>2. 0 \in T
  <2>1. f[0] = <<>> /\ 0 \in 0 .. Len(m)
    BY <1>1 DEF Joins
  <2>2. <<>> \in Seq(S)
    BY EmptySeq
  <2>3. QED
    BY <2>1, <2>2
<1>3. ASSUME NEW i \in 0 .. Len(m) - 1, i \in T PROVE i + 1 \in T
  <2>1. i + 1 \in 1 .. Len(m) /\ (i + 1) - 1 = i /\ i + 1 \in 0 .. Len(m)
    BY <1>1
  <2>2. f[i + 1] = f[i] \o m[i + 1]
    BY <2>1 DEF Joins
  <2>3. f[i] \in Seq(S) /\ m[i + 1] \in Seq(S)
    BY <1>1, <1>3, <2>1
  <2>4. f[i] \o m[i + 1] \in Seq(S)
    BY <2>3, ConcatProperties
  <2>5. QED
    BY <2>1, <2>2, <2>4
<1> HIDE DEF T
<1>4. \A i \in 0 .. Len(m) : i \in T
  BY <1>1, <1>2, <1>3, UpTo
<1>5. QED
  BY <1>4 DEF T

\* The same follows a in b as follows c in d.
EndAlike(S, a, b, c, d) == \E t : t \in Seq(S) /\ b = a \o t /\ d = c \o t

\* What sequences have in common from places k and l on joins to the same.
LEMMA JoinsAlike ==
  ASSUME NEW S, NEW m \in Seq(Seq(S)), NEW f, Joins(f, m),
         NEW w \in Seq(Seq(S)), NEW g, Joins(g, w),
         NEW k \in Nat, NEW l \in Nat, NEW n \in Nat, k + n <= Len(m), l + n <= Len(w),
         \A i \in 1 .. n : m[k + i] = w[l + i]
  PROVE  EndAlike(S, f[k], f[k + n], g[l], g[l + n])
<1> DEFINE T == {i \in 0 .. n : \E t \in Seq(S) : f[k + i] = f[k] \o t /\ g[l + i] = g[l] \o t}
<1>1. /\ Len(m) \in Nat /\ \A i \in 1 .. Len(m) : m[i] \in Seq(S)
      /\ Len(w) \in Nat
      /\ \A i \in 0 .. Len(m) : f[i] \in Seq(S)
      /\ \A i \in 0 .. Len(w) : g[i] \in Seq(S)
  BY LenProperties, ElementOfSeq, JoinsTyped
<1>2. f[k] \in Seq(S) /\ g[l] \in Seq(S)
  <2>1. k \in 0 .. Len(m) /\ l \in 0 .. Len(w)
    BY <1>1
  <2>2. QED
    BY <1>1, <2>1
<1>3. 0 \in T
  <2>1. f[k] \o <<>> = f[k] /\ g[l] \o <<>> = g[l]
    BY <1>2, ConcatEmptySeq
  <2>2. <<>> \in Seq(S) /\ k + 0 = k /\ l + 0 = l /\ 0 \in 0 .. n
    BY EmptySeq
  <2>3. QED
    BY <2>1, <2>2
<1>4. ASSUME NEW i \in 0 .. n - 1, i \in T PROVE i + 1 \in T
  <2>1. /\ i + 1 \in 1 .. n /\ i + 1 \in 0 .. n
        /\ k + (i + 1) \in 1 .. Len(m) /\ (k + (i + 1)) - 1 = k + i
        /\ l + (i + 1) \in 1 .. Len(w) /\ (l + (i + 1)) - 1 = l + i
    BY <1>1
  <2>2. PICK x : x = m[k + (i + 1)]
    OBVIOUS
  <2>3. x \in Seq(S) /\ w[l + (i + 1)] = x
    BY <1>1, <2>1, <2>2
  <2>4. PICK t \in Seq(S) : f[k + i] = f[k] \o t /\ g[l + i] = g[l] \o t
    BY <1>4
  <2>5. f[k + (i + 1)] = f[k + i] \o x /\ g[l + (i + 1)] = g[l + i] \o x
    BY <2>1, <2>2, <2>3 DEF Joins
  <2>6. (f[k] \o t) \o x = f[k] \o (t \o x) /\ (g[l] \o t) \o x = g[l] \o (t \o x)
    <3>1. PICK u \in Seq(S), v \in Seq(S) : u = f[k] /\ v = g[l]
      BY <1>2
    <3>2. PICK y \in Seq(S) : y = x
      BY <2>3
    <3>3. (u \o t) \o y = u \o (t \o y) /\ (v \o t) \o y = v \o (t \o y)
      <4>1. Regroups(u, t, y) /\ Regroups(v, t, y)
        BY Regrouped
      <4>2. QED
        BY <4>1 DEF Regroups
    <3>4. QED
      BY <3>1, <3>2, <3>3
  <2>7. t \o x \in Seq(S)
    BY <2>3, ConcatProperties
  <2>8. f[k + (i + 1)] = f[k] \o (t \o x) /\ g[l + (i + 1)] = g[l] \o (t \o x)
    BY <2>4, <2>5, <2>6
  <2>9. QED
    BY <2>1, <2>7, <2>8
<1> HIDE DEF T
<1>5. \A i \in 0 .. n : i \in T
  BY <1>3, <1>4, UpTo
<1>6. n \in T
  BY <1>5
<1>7. QED
  BY <1>6 DEF T, EndAlike

\* What the elements behind place k join to follows the join up to k.
LEMMA JoinsRest ==
  ASSUME NEW S, NEW m \in Seq(Seq(S)), NEW f, Joins(f, m), NEW k \in 0 .. Len(m)
  PROVE  EndAlike(S, f[k], f[Len(m)], f[k], f[Len(m)])
<1>1. PICK j \in Nat, d \in Nat : j = k /\ j + d = Len(m)
  <2>1. Len(m) \in Nat
    BY LenProperties
  <2>2. k \in Nat /\ Len(m) - k \in Nat /\ k + (Len(m) - k) = Len(m)
    BY <2>1
  <2>3. QED
    BY <2>2
<1>2. j + d <= Len(m) /\ \A i \in 1 .. d : m[j + i] = m[j + i]
  BY <1>1, LenProperties
<1>3. EndAlike(S, f[j], f[j + d], f[j], f[j + d])
  BY <1>2, JoinsAlike
<1>4. QED
  BY <1>1, <1>3

\* The walk over a vector: each element ends where its bytes say.
Walks(e, s, p) ==
  /\ e[0] = p + 1
  /\ \A i \in 1 .. s[p] : e[i] = IF e[i - 1] = DT!FAIL THEN DT!FAIL ELSE DT!ElementEnd(s, e[i - 1])

\* ElementEnds walks the vector.
LEMMA EndsWalk ==
  ASSUME NEW s, NEW p, s[p] \in Nat
  PROVE  Walks(DT!ElementEnds(s, p), s, p)
<1> DEFINE n == s[p]
           Entry(h, i) ==
             IF i = 0 THEN p + 1
             ELSE IF h[i - 1] = DT!FAIL THEN DT!FAIL ELSE DT!ElementEnd(s, h[i - 1])
           Body(h) == [i \in 0 .. n |-> Entry(h, i)]
           T == {d \in 0 .. n : \E h : \A i \in 0 .. d : h[i] = Entry(h, i)}
<1>1. n \in Nat
  OBVIOUS
<1>2. 0 \in T
  <2>1. PICK h : h = [i \in {0} |-> p + 1]
    OBVIOUS
  <2>2. \A i \in 0 .. 0 : h[i] = Entry(h, i)
    BY <2>1
  <2>3. 0 \in 0 .. n
    BY <1>1
  <2> HIDE DEF Entry
  <2>4. QED
    BY <2>2, <2>3
<1>3. ASSUME NEW d \in 0 .. n - 1, d \in T PROVE d + 1 \in T
  <2>1. PICK h : \A i \in 0 .. d : h[i] = Entry(h, i)
    BY <1>3
  <2>2. PICK g : g = [i \in 0 .. n |-> IF i <= d THEN h[i] ELSE Entry(h, i)]
    OBVIOUS
  <2>3. ASSUME NEW i \in 0 .. d + 1 PROVE g[i] = Entry(g, i)
    <3>1. i \in 0 .. n /\ i <= d + 1 /\ d \in Nat
      BY <1>1
    <3>2. g[i] = Entry(h, i)
      <4>1. CASE i <= d
        <5>1. i \in 0 .. d /\ g[i] = h[i]
          BY <2>2, <3>1, <4>1
        <5> HIDE DEF Entry
        <5>2. QED
          BY <2>1, <5>1
      <4>2. CASE ~(i <= d)
        <5> HIDE DEF Entry
        <5>1. QED
          BY <2>2, <3>1, <4>2
      <4>3. QED
        BY <4>1, <4>2
    <3>3. i # 0 => g[i - 1] = h[i - 1]
      <4>1. i # 0 => i - 1 \in 0 .. n /\ i - 1 <= d
        BY <3>1
      <4> HIDE DEF Entry
      <4>2. QED
        BY <2>2, <4>1
    <3>4. QED
      BY <3>2, <3>3
  <2>4. d + 1 \in 0 .. n
    BY <1>1
  <2> HIDE DEF Entry
  <2>5. QED
    BY <2>3, <2>4
<1>4. \A i \in 0 .. n : i \in T
  <2> HIDE DEF T, n
  <2>1. QED
    BY <1>1, <1>2, <1>3, UpTo
<1>5. PICK h : \A i \in 0 .. n : h[i] = Entry(h, i)
  <2>1. n \in T
    <3>1. n \in 0 .. n
      BY <1>1
    <3> HIDE DEF T, n
    <3>2. QED
      BY <1>4, <3>1
  <2> HIDE DEF Entry
  <2>2. QED
    BY <2>1
<1>6. PICK g : g = [i \in 0 .. n |-> h[i]]
  OBVIOUS
<1>7. ASSUME NEW i \in 0 .. n PROVE g[i] = Entry(g, i)
  <2>1. i # 0 => i - 1 \in 0 .. n
    BY <1>1
  <2>2. g[i] = h[i] /\ (i # 0 => g[i - 1] = h[i - 1])
    BY <1>6, <2>1
  <2>3. h[i] = Entry(h, i)
    BY <1>5
  <2>4. QED
    BY <2>2, <2>3
<1>8. g = Body(g)
  <2>1. g = [i \in 0 .. n |-> g[i]]
    BY <1>6
  <2> HIDE DEF Entry
  <2>2. QED
    BY <1>7, <2>1
<1>9. PICK f : f = CHOOSE h_1 : h_1 = Body(h_1)
  OBVIOUS
<1>10. f = Body(f)
  <2> HIDE DEF Body
  <2>1. QED
    BY <1>8, <1>9
<1>11. DT!ElementEnds(s, p) = f
  BY <1>9 DEF DT!ElementEnds
<1>12. ASSUME NEW i \in 0 .. n PROVE f[i] = Entry(f, i)
  BY <1>10
<1>13. f[0] = p + 1
  BY <1>1, <1>12
<1>14. ASSUME NEW i \in 1 .. n
       PROVE  f[i] = IF f[i - 1] = DT!FAIL THEN DT!FAIL ELSE DT!ElementEnd(s, f[i - 1])
  <2>1. i \in 0 .. n /\ i # 0
    BY <1>1
  <2>2. f[i] = Entry(f, i)
    BY <1>12, <2>1
  <2>3. QED
    BY <2>1, <2>2
<1>15. QED
  BY <1>11, <1>13, <1>14 DEF Walks

\* As long as the walk has not failed, it goes on, and stays inside.
LEMMA WalkInside ==
  ASSUME NEW s \in Seq(DT!Byte), NEW p \in 1 .. Len(s), NEW e, Walks(e, s, p),
         NEW n \in Nat, n = s[p], e[n] # DT!FAIL
  PROVE  /\ \A i \in 0 .. n : e[i] \in p + 1 .. Len(s) + 1
         /\ \A i \in 1 .. n : e[i - 1] < e[i]
         /\ \A i \in 0 .. n : e[i] <= e[n]
<1> DEFINE T == {d \in 0 .. n : e[n - d] # DT!FAIL}
<1>1. Len(s) \in Nat /\ p \in Nat
  BY LenProperties
<1>2. \A i \in 0 .. n : e[i] # DT!FAIL
  <2>1. 0 \in T
    <3>1. n - 0 = n /\ 0 \in 0 .. n
      OBVIOUS
    <3>2. QED
      BY <3>1
  <2>2. ASSUME NEW d \in 0 .. n - 1, d \in T PROVE d + 1 \in T
    <3>1. n - d \in 1 .. n /\ (n - d) - 1 = n - (d + 1) /\ d + 1 \in 0 .. n
      OBVIOUS
    <3>2. e[n - d] # DT!FAIL
      BY <2>2
    <3>3. e[(n - d) - 1] # DT!FAIL
      BY <3>1, <3>2 DEF Walks
    <3>4. QED
      BY <3>1, <3>3
  <2>3. \A d \in 0 .. n : d \in T
    <3> HIDE DEF T
    <3>1. QED
      BY <2>1, <2>2, UpTo
  <2>4. ASSUME NEW i \in 0 .. n PROVE e[i] # DT!FAIL
    <3>1. n - i \in 0 .. n /\ n - (n - i) = i
      OBVIOUS
    <3>2. n - i \in T
      BY <2>3, <3>1
    <3>3. QED
      BY <3>1, <3>2
  <2>5. QED
    BY <2>4
<1>3. ASSUME NEW i \in 1 .. n, e[i - 1] \in p + 1 .. Len(s) + 1
      PROVE  e[i] \in p + 1 .. Len(s) + 1 /\ e[i - 1] < e[i]
  <2>1. i - 1 \in 0 .. n /\ i \in 0 .. n
    OBVIOUS
  <2>2. PICK q \in p + 1 .. Len(s) + 1 : q = e[i - 1]
    BY <1>3
  <2>3. e[i] = DT!ElementEnd(s, q)
    BY <1>2, <2>1, <2>2 DEF Walks
  <2>4. \/ q <= Len(s) /\ DT!ElementEnd(s, q) = q + 1
        \/ q < Len(s) /\ DT!ElementEnd(s, q) = q + 2
        \/ DT!ElementEnd(s, q) = DT!FAIL
    BY <1>1 DEF DT!ElementEnd
  <2>5. e[i] # DT!FAIL
    BY <1>2, <2>1
  <2>6. QED
    BY <1>1, <2>2, <2>3, <2>4, <2>5
<1>4. \A i \in 0 .. n : e[i] \in p + 1 .. Len(s) + 1
  <2> DEFINE U == {i \in 0 .. n : e[i] \in p + 1 .. Len(s) + 1}
  <2>1. 0 \in U
    BY <1>1 DEF Walks
  <2>2. ASSUME NEW i \in 0 .. n - 1, i \in U PROVE i + 1 \in U
    <3>1. i + 1 \in 1 .. n /\ (i + 1) - 1 = i /\ i + 1 \in 0 .. n
      OBVIOUS
    <3>2. e[i] \in p + 1 .. Len(s) + 1
      BY <2>2
    <3>3. e[i + 1] \in p + 1 .. Len(s) + 1
      BY <1>3, <3>1, <3>2
    <3>4. QED
      BY <3>1, <3>3
  <2>3. \A i \in 0 .. n : i \in U
    <3> HIDE DEF U
    <3>1. QED
      BY <2>1, <2>2, UpTo
  <2>4. QED
    BY <2>3
<1>5. ASSUME NEW i \in 1 .. n PROVE e[i - 1] < e[i]
  <2>1. i - 1 \in 0 .. n
    OBVIOUS
  <2>2. QED
    BY <1>3, <1>4, <2>1
<1>6. \A i \in 0 .. n : e[i] <= e[n]
  <2> DEFINE U == {d \in 0 .. n : e[n - d] <= e[n]}
  <2>1. 0 \in U
    <3>1. n - 0 = n /\ 0 \in 0 .. n /\ n \in 0 .. n
      OBVIOUS
    <3>2. e[n] <= e[n]
      BY <1>1, <1>4, <3>1
    <3>3. QED
      BY <3>1, <3>2
  <2>2. ASSUME NEW d \in 0 .. n - 1, d \in U PROVE d + 1 \in U
    <3>1. /\ n - d \in 1 .. n /\ (n - d) - 1 = n - (d + 1) /\ d + 1 \in 0 .. n
          /\ n - d \in 0 .. n /\ n - (d + 1) \in 0 .. n /\ n \in 0 .. n
      OBVIOUS
    <3>2. e[n - d] <= e[n] /\ e[n - (d + 1)] < e[n - d]
      BY <1>5, <2>2, <3>1
    <3>3. e[n] \in Int /\ e[n - d] \in Int /\ e[n - (d + 1)] \in Int
      <4> HIDE DEF T, U
      <4>1. p + 1 .. Len(s) + 1 \subseteq Int
        BY <1>1
      <4>2. \A i \in 0 .. n : e[i] \in Int
        BY <1>4, <4>1, Zenon
      <4>3. QED
        BY <3>1, <4>2, Zenon
    <3>4. e[n - (d + 1)] <= e[n]
      BY <3>2, <3>3
    <3>5. QED
      BY <3>1, <3>4
  <2>3. \A d \in 0 .. n : d \in U
    <3> HIDE DEF U
    <3>1. QED
      BY <2>1, <2>2, UpTo
  <2>4. ASSUME NEW i \in 0 .. n PROVE e[i] <= e[n]
    <3>1. n - i \in 0 .. n /\ n - (n - i) = i
      OBVIOUS
    <3>2. n - i \in U
      BY <2>3, <3>1
    <3>3. QED
      BY <3>1, <3>2
  <2>5. QED
    BY <2>4
<1>7. QED
  BY <1>4, <1>5, <1>6

\* Intervals from 1 that are equal are as long.
LEMMA SameLength ==
  ASSUME NEW k \in Nat, NEW n \in Nat, 1 .. n = 1 .. k
  PROVE  n = k
<1>1. (n > 0 => n \in 1 .. n) /\ (k > 0 => k \in 1 .. k)
  OBVIOUS
<1>2. (n > 0 => n \in 1 .. k) /\ (k > 0 => k \in 1 .. n)
  BY <1>1
<1>3. QED
  BY <1>2

\* What the parts of a record are, as sequences of bytes.
LEMMA SizedAre ==
  ASSUME NEW S, NEW n \in Nat, NEW s
  PROVE  s \in UNION {[1 .. k -> S] : k \in 0 .. n} <=> s \in Seq(S) /\ Len(s) <= n
<1>1. ASSUME NEW k \in 0 .. n, s \in [1 .. k -> S] PROVE s \in Seq(S) /\ Len(s) <= n
  <2>1. s \in Seq(S)
    BY <1>1, SeqDef
  <2>2. Len(s) \in Nat /\ DOMAIN s = 1 .. Len(s)
    BY <2>1, LenProperties
  <2>3. DOMAIN s = 1 .. k
    BY <1>1
  <2>4. 1 .. Len(s) = 1 .. k
    BY <2>2, <2>3
  <2>5. Len(s) = k
    <3>1. k \in Nat /\ Len(s) \in Nat
      BY <2>2
    <3>2. QED
      BY <2>4, <3>1, SameLength
  <2>6. QED
    BY <2>1, <2>5
<1>2. ASSUME s \in Seq(S), Len(s) <= n PROVE \E k \in 0 .. n : s \in [1 .. k -> S]
  <2>1. Len(s) \in Nat /\ s \in [1 .. Len(s) -> S]
    BY <1>2, LenProperties
  <2>2. Len(s) \in 0 .. n
    BY <1>2, <2>1
  <2>3. QED
    BY <2>1, <2>2
<1>3. QED
  BY <1>1, <1>2

\* A string of the model is a sequence of payload bytes that is not too long.
LEMMA StringsAre ==
  ASSUME NEW n \in Nat, NEW s
  PROVE  s \in DT!Strings(n) <=> s \in Seq(Payload) /\ Len(s) <= n
  BY SizedAre DEF DT!Strings

\* A vector of the model is a sequence of elements that is not too long.
LEMMA VecsAre ==
  ASSUME DT!DynamicTailAssumption, NEW m
  PROVE  m \in DT!Vecs <=> m \in Seq(DT!Element) /\ Len(m) <= VecCap
  BY SizedAre DEF DT!Vecs, DT!DynamicTailAssumption, DT!Byte

\* A sequence of one byte.
LEMMA OneByte ==
  ASSUME NEW S, NEW b \in S
  PROVE  <<b>> \in Seq(S) /\ Len(<<b>>) = 1 /\ <<b>>[1] = b
  OBVIOUS

\* None is one byte, and Some two.
LEMMA ElementIs ==
  ASSUME DT!DynamicTailAssumption, NEW x \in DT!Element
  PROVE  /\ x \in Seq(DT!Byte)
         /\ (Len(x) = 1 /\ x[1] = 0) \/ (Len(x) = 2 /\ x[1] = 1)
<1>1. Payload \subseteq DT!Byte /\ 0 \in DT!Byte /\ 1 \in DT!Byte
  BY DEF DT!DynamicTailAssumption, DT!Byte
<1>2. CASE x = <<0>>
  BY <1>1, <1>2
<1>3. CASE \E y \in Payload : x = <<1, y>>
  <2>1. PICK y \in DT!Byte : x = <<1, y>>
    BY <1>1, <1>3
  <2>2. QED
    BY <1>1, <2>1
<1>4. QED
  BY <1>2, <1>3 DEF DT!Element

\* The first field as it is stored, and with the count of the vector behind it.
NameSlot(r) == <<Len(r.name)>> \o r.name

\* Both counts and the first field.
Lead(r) == NameSlot(r) \o <<Len(r.members)>>

\* The bytes of the elements.
Flat(r) == DT!FlattenSeq(r.members)

\* The fields of a record, and their bytes.
LEMMA RecordIs ==
  ASSUME DT!DynamicTailAssumption, NEW r \in DT!Record
  PROVE  /\ r.name \in Seq(Payload) /\ Len(r.name) \in Nat /\ Len(r.name) <= StringCap
         /\ r.members \in Seq(DT!Element) /\ Len(r.members) \in Nat /\ Len(r.members) <= VecCap
         /\ r.note \in Seq(Payload) /\ Len(r.note) \in Nat /\ Len(r.note) <= NoteLen
         /\ r.name \in Seq(DT!Byte) /\ r.note \in Seq(DT!Byte)
         /\ r.members \in Seq(Seq(DT!Byte))
         /\ Len(r.name) \in DT!Byte /\ Len(r.members) \in DT!Byte
<1>1. /\ Payload \subseteq DT!Byte /\ StringCap \in Nat /\ VecCap \in Nat /\ NoteLen \in Nat
      /\ StringCap <= 255 /\ VecCap <= 255
  BY DEF DT!DynamicTailAssumption, DT!Byte
<1>2. r.name \in DT!Strings(StringCap) /\ r.members \in DT!Vecs /\ r.note \in DT!Strings(NoteLen)
  BY DEF DT!Record
<1>3. /\ r.name \in Seq(Payload) /\ Len(r.name) <= StringCap
      /\ r.note \in Seq(Payload) /\ Len(r.note) <= NoteLen
  BY <1>1, <1>2, StringsAre
<1>4. r.members \in Seq(DT!Element) /\ Len(r.members) <= VecCap
  BY <1>2, VecsAre
<1>5. Len(r.name) \in Nat /\ Len(r.members) \in Nat /\ Len(r.note) \in Nat
  BY <1>3, <1>4, LenProperties
<1>6. r.name \in Seq(DT!Byte) /\ r.note \in Seq(DT!Byte)
  BY <1>1, <1>3, SeqMonotonic
<1>7. r.members \in Seq(Seq(DT!Byte))
  <2>1. DT!Element \subseteq Seq(DT!Byte)
    BY ElementIs
  <2>2. QED
    BY <1>4, <2>1, SeqMonotonic
<1>8. Len(r.name) \in DT!Byte /\ Len(r.members) \in DT!Byte
  <2>1. \A j, c \in Nat : j <= c /\ c <= 255 => j \in DT!Byte
    BY DEF DT!Byte
  <2>2. QED
    BY <1>1, <1>3, <1>4, <1>5, <2>1
<1>9. QED
  BY <1>3, <1>4, <1>5, <1>6, <1>7, <1>8

\* A record encoded: the two counted fields, then the raw bytes.
LEMMA EncodedIs ==
  ASSUME DT!DynamicTailAssumption, NEW r \in DT!Record
  PROVE  /\ DT!Encoded(r) = (Lead(r) \o Flat(r)) \o r.note
         /\ DT!Encoded(r) \in Seq(DT!Byte)
         /\ NameSlot(r) \in Seq(DT!Byte) /\ Len(NameSlot(r)) = Len(r.name) + 1
         /\ Lead(r) \in Seq(DT!Byte) /\ Len(Lead(r)) = Len(r.name) + 2
         /\ Flat(r) \in Seq(DT!Byte) /\ Len(Flat(r)) \in Nat
         /\ Len(DT!Encoded(r)) = Len(r.name) + 2 + Len(Flat(r)) + Len(r.note)
<1>1. /\ r.name \in Seq(DT!Byte) /\ r.note \in Seq(DT!Byte)
      /\ r.members \in Seq(Seq(DT!Byte))
      /\ Len(r.name) \in DT!Byte /\ Len(r.members) \in DT!Byte
      /\ Len(r.name) \in Nat /\ Len(r.note) \in Nat /\ Len(r.members) \in Nat
  BY RecordIs
<1>2. /\ <<Len(r.name)>> \in Seq(DT!Byte) /\ Len(<<Len(r.name)>>) = 1
      /\ <<Len(r.members)>> \in Seq(DT!Byte) /\ Len(<<Len(r.members)>>) = 1
  BY <1>1, OneByte
<1>3. NameSlot(r) \in Seq(DT!Byte) /\ Len(NameSlot(r)) = Len(r.name) + 1
  <2>1. NameSlot(r) \in Seq(DT!Byte) /\ Len(NameSlot(r)) = 1 + Len(r.name)
    BY <1>1, <1>2, JoinedTyped DEF NameSlot
  <2>2. QED
    BY <1>1, <2>1
<1>4. Lead(r) \in Seq(DT!Byte) /\ Len(Lead(r)) = Len(r.name) + 2
  <2>1. Lead(r) \in Seq(DT!Byte) /\ Len(Lead(r)) = Len(NameSlot(r)) + 1
    BY <1>2, <1>3, JoinedTyped DEF Lead
  <2>2. QED
    BY <1>1, <1>3, <2>1
<1>5. Flat(r) \in Seq(DT!Byte) /\ Len(Flat(r)) \in Nat
  <2>1. PICK f : Joins(f, r.members) /\ Flat(r) = f[Len(r.members)]
    BY <1>1, FlatIs DEF Flat
  <2>2. Len(r.members) \in 0 .. Len(r.members)
    BY <1>1
  <2>3. Flat(r) \in Seq(DT!Byte)
    BY <1>1, <2>1, <2>2, JoinsTyped
  <2>4. QED
    BY <2>3, LenProperties
<1>6. DT!Encoded(r) = (Lead(r) \o Flat(r)) \o r.note
  BY DEF DT!Encoded, Lead, NameSlot, Flat
<1>7. /\ DT!Encoded(r) \in Seq(DT!Byte)
      /\ Len(DT!Encoded(r)) = Len(Lead(r)) + Len(Flat(r)) + Len(r.note)
  <2>1. PICK x : x = Lead(r) \o Flat(r)
    OBVIOUS
  <2>2. x \in Seq(DT!Byte) /\ Len(x) = Len(Lead(r)) + Len(Flat(r))
    BY <1>4, <1>5, <2>1, JoinedTyped
  <2>3. x \o r.note \in Seq(DT!Byte) /\ Len(x \o r.note) = Len(x) + Len(r.note)
    <3>1. r.note \in Seq(DT!Byte) /\ x \in Seq(DT!Byte)
      BY <1>1, <2>2
    <3>2. QED
      BY <3>1, ConcatProperties
  <2>4. QED
    BY <1>6, <2>1, <2>2, <2>3
<1>8. Len(DT!Encoded(r)) = Len(r.name) + 2 + Len(Flat(r)) + Len(r.note)
  BY <1>1, <1>4, <1>5, <1>7
<1>9. QED
  BY <1>3, <1>4, <1>5, <1>6, <1>7, <1>8

\* Reading what lies somewhere gives what was written there.
LEMMA ElementReads ==
  ASSUME DT!DynamicTailAssumption, NEW s \in Seq(DT!Byte), NEW q \in Nat,
         NEW x \in DT!Element, Lies(s, q, x)
  PROVE  DT!ElementEnd(s, q + 1) = q + 1 + Len(x)
<1>1. (Len(x) = 1 /\ x[1] = 0) \/ (Len(x) = 2 /\ x[1] = 1)
  BY ElementIs
<1>2. Len(s) \in Nat
  BY LenProperties
<1>3. 1 \in 1 .. Len(x)
  BY <1>1
<1>4. q + Len(x) <= Len(s) /\ s[q + 1] = x[1]
  BY <1>3 DEF Lies
<1>5. CASE Len(x) = 1 /\ x[1] = 0
  <2>1. q + 1 <= Len(s) /\ s[q + 1] = 0 /\ q + 1 + Len(x) = (q + 1) + 1
    BY <1>2, <1>4, <1>5
  <2>2. QED
    BY <2>1 DEF DT!ElementEnd
<1>6. CASE Len(x) = 2 /\ x[1] = 1
  <2>1. q + 1 < Len(s) /\ s[q + 1] = 1 /\ s[q + 1] # 0 /\ q + 1 + Len(x) = (q + 1) + 2
    BY <1>2, <1>4, <1>6
  <2>2. QED
    BY <2>1 DEF DT!ElementEnd
<1>7. QED
  BY <1>1, <1>5, <1>6

\* The first field ends behind what was written, and reads the same.
LEMMA StringReads ==
  ASSUME NEW s \in Seq(DT!Byte), NEW x \in Seq(DT!Byte), Len(x) <= StringCap, Len(x) \in DT!Byte,
         Lies(s, 0, <<Len(x)>> \o x)
  PROVE  /\ DT!StringEnd(s, 1) = Len(x) + 2
         /\ SubSeq(s, 2, Len(x) + 1) = x
<1>1. PICK h : h \in Seq(DT!Byte) /\ Len(h) = 1 /\ h[1] = Len(x) /\ h = <<Len(x)>>
  BY OneByte
<1>2. Lies(s, 0, h) /\ Lies(s, 1, x)
  <2>1. LiesInTwo(s, 0, h, x)
    BY <1>1, LiesJoined
  <2>2. QED
    BY <1>1, <2>1 DEF LiesInTwo
<1>3. Len(x) \in Nat /\ Len(s) \in Nat
  BY LenProperties
<1>4. s[1] = Len(x)
  <2>1. 1 \in 1 .. Len(h) /\ 0 + 1 = 1
    BY <1>1
  <2>2. QED
    BY <1>1, <1>2, <2>1 DEF Lies
<1>5. 1 + Len(x) <= Len(s)
  BY <1>2 DEF Lies
<1>6. DT!StringEnd(s, 1) = Len(x) + 2
  <2>1. 1 <= Len(s) /\ 1 + Len(x) + 1 = Len(x) + 2
    BY <1>3, <1>5
  <2>2. QED
    BY <1>4, <1>5, <2>1 DEF DT!StringEnd
<1>7. SubSeq(s, 2, Len(x) + 1) = x
  <2>1. SubSeq(s, 1 + 1, 1 + Len(x)) = x
    BY <1>2, LiesCut
  <2>2. 1 + 1 = 2 /\ 1 + Len(x) = Len(x) + 1
    BY <1>3
  <2>3. QED
    BY <2>1, <2>2
<1>8. QED
  BY <1>6, <1>7

\* The elements of a vector whose count is at q + 1.
VecLies(s, q, m, f) ==
  /\ m \in Seq(DT!Element) /\ m \in Seq(Seq(DT!Byte)) /\ Len(m) <= VecCap /\ Len(m) \in Nat
  /\ Joins(f, m) /\ Lies(s, q, <<Len(m)>>) /\ Lies(s, q + 1, f[Len(m)])

\* The elements up to place i lie behind the count, and the rest behind them.
LEMMA JoinedLies ==
  ASSUME NEW s \in Seq(DT!Byte), NEW q \in Nat, NEW m, NEW f, VecLies(s, q, m, f),
         NEW i \in 0 .. Len(m)
  PROVE  /\ f[i] \in Seq(DT!Byte) /\ Len(f[i]) \in Nat
         /\ \E t : /\ t \in Seq(DT!Byte) /\ f[Len(m)] = f[i] \o t
                   /\ Lies(s, q + 1, f[i]) /\ Lies(s, q + 1 + Len(f[i]), t)
<1>1. /\ m \in Seq(Seq(DT!Byte)) /\ Joins(f, m) /\ Lies(s, q + 1, f[Len(m)])
  BY DEF VecLies
<1>2. f[i] \in Seq(DT!Byte)
  BY <1>1, JoinsTyped
<1>3. PICK t : t \in Seq(DT!Byte) /\ f[Len(m)] = f[i] \o t
  <2>1. EndAlike(DT!Byte, f[i], f[Len(m)], f[i], f[Len(m)])
    BY <1>1, JoinsRest
  <2>2. QED
    BY <2>1 DEF EndAlike
<1>4. LiesInTwo(s, q + 1, f[i], t)
  BY <1>2, <1>3, LiesJoined
<1>5. Lies(s, q + 1, f[i]) /\ Lies(s, q + 1 + Len(f[i]), t)
  BY <1>1, <1>3, <1>4 DEF LiesInTwo
<1>6. Len(f[i]) \in Nat
  BY <1>2, LenProperties
<1>7. QED
  BY <1>2, <1>3, <1>5, <1>6

\* An element lies behind those before it, and reading it ends behind it.
ElementSits(s, q, m, f, i) ==
  /\ Len(f[i - 1]) \in Nat /\ Len(m[i]) \in Nat
  /\ Len(f[i]) = Len(f[i - 1]) + Len(m[i])
  /\ Lies(s, q + 1 + Len(f[i - 1]), m[i])
  /\ DT!ElementEnd(s, q + 2 + Len(f[i - 1])) = q + 2 + Len(f[i])

\* Each element of a vector sits in its place.
LEMMA ElementLies ==
  ASSUME DT!DynamicTailAssumption, NEW s \in Seq(DT!Byte), NEW q \in Nat, NEW m, NEW f,
         VecLies(s, q, m, f), NEW i \in 1 .. Len(m)
  PROVE  ElementSits(s, q, m, f, i)
<1>1. m[i] \in DT!Element /\ Len(m) \in Nat
  BY ElementOfSeq DEF VecLies
<1>2. m[i] \in Seq(DT!Byte) /\ Len(m[i]) \in Nat
  BY <1>1, ElementIs, LenProperties
<1>3. i \in 0 .. Len(m) /\ i - 1 \in 0 .. Len(m)
  BY <1>1
<1>4. /\ Lies(s, q + 1, f[i])
      /\ f[i - 1] \in Seq(DT!Byte) /\ Len(f[i - 1]) \in Nat
  BY <1>3, JoinedLies
<1>5. f[i] = f[i - 1] \o m[i]
  BY DEF VecLies, Joins
<1>6. PICK p : p = f[i - 1]
  OBVIOUS
<1>7. PICK x : x = m[i]
  OBVIOUS
<1>8. LiesInTwo(s, q + 1, p, x)
  BY <1>2, <1>4, <1>6, <1>7, LiesJoined
<1>9. Lies(s, q + 1 + Len(p), x)
  BY <1>4, <1>5, <1>6, <1>7, <1>8 DEF LiesInTwo
<1>10. Len(f[i]) = Len(p) + Len(x)
  BY <1>2, <1>4, <1>5, <1>6, <1>7, JoinedTyped
<1>11. PICK k : k = Len(p)
  OBVIOUS
<1>12. PICK l : l = Len(x)
  OBVIOUS
<1>13. k \in Nat /\ l \in Nat
  BY <1>2, <1>4, <1>6, <1>7, <1>11, <1>12
<1>14. PICK v : v = q + 1 + k
  OBVIOUS
<1>15. /\ v \in Nat /\ v + 1 = q + 2 + k /\ v + 1 + l = q + 2 + (k + l)
  BY <1>13, <1>14
<1>16. DT!ElementEnd(s, v + 1) = v + 1 + Len(x)
  BY <1>1, <1>7, <1>9, <1>11, <1>14, <1>15, ElementReads
<1>17. QED
  BY <1>2, <1>4, <1>6, <1>7, <1>9, <1>10, <1>11, <1>12, <1>15, <1>16
     DEF ElementSits

\* The walk over a vector ends each element where it was written.
VecIsRead(s, q, m, f) ==
  /\ s[q + 1] = Len(m)
  /\ \A i \in 0 .. Len(m) : DT!ElementEnds(s, q + 1)[i] = q + 2 + Len(f[i])
  /\ DT!VecFieldExtent(s, q + 1) = q + 2 + Len(f[Len(m)])

\* A vector that lies somewhere is read there.
LEMMA VecReads ==
  ASSUME DT!DynamicTailAssumption, NEW s \in Seq(DT!Byte), NEW q \in Nat, NEW m, NEW f,
         VecLies(s, q, m, f)
  PROVE  VecIsRead(s, q, m, f)
<1>1. Len(m) \in Nat /\ Len(m) <= VecCap /\ Lies(s, q, <<Len(m)>>) /\ Joins(f, m) /\ Len(s) \in Nat
  BY LenProperties DEF VecLies
<1>2. s[q + 1] = Len(m) /\ q + 1 <= Len(s)
  <2>1. PICK h : h = <<Len(m)>>
    OBVIOUS
  <2>2. Len(h) = 1 /\ h[1] = Len(m) /\ 1 \in 1 .. Len(h)
    BY <2>1
  <2>3. QED
    BY <1>1, <2>1, <2>2 DEF Lies
<1>3. PICK e : e = DT!ElementEnds(s, q + 1)
  OBVIOUS
<1>4. Walks(e, s, q + 1)
  BY <1>1, <1>2, <1>3, EndsWalk
<1> DEFINE T == {i \in 0 .. Len(m) : e[i] = q + 2 + Len(f[i])}
<1>5. 0 \in T
  <2>1. e[0] = (q + 1) + 1
    BY <1>4 DEF Walks
  <2>2. Len(f[0]) = 0
    BY <1>1 DEF Joins
  <2>3. (q + 1) + 1 = q + 2 + 0 /\ 0 \in 0 .. Len(m)
    BY <1>1
  <2>4. e[0] = q + 2 + Len(f[0])
    BY <2>1, <2>2, <2>3
  <2>5. QED
    BY <2>3, <2>4
<1>6. ASSUME NEW i \in 0 .. Len(m) - 1, i \in T PROVE i + 1 \in T
  <2>1. i + 1 \in 1 .. Len(m) /\ (i + 1) - 1 = i /\ i + 1 \in 0 .. Len(m)
    BY <1>1
  <2>2. DT!ElementEnd(s, q + 2 + Len(f[i])) = q + 2 + Len(f[i + 1]) /\ Len(f[i]) \in Nat
    <3>1. PICK j : j = i + 1
      OBVIOUS
    <3>2. j \in 1 .. Len(m) /\ j - 1 = i
      BY <2>1, <3>1
    <3>3. ElementSits(s, q, m, f, j)
      BY <3>2, ElementLies
    <3>4. QED
      BY <3>1, <3>2, <3>3 DEF ElementSits
  <2>3. e[i] = q + 2 + Len(f[i])
    BY <1>6
  <2>4. e[i] # DT!FAIL
    <3>1. PICK k : k = Len(f[i])
      OBVIOUS
    <3>2. k \in Nat /\ e[i] = q + 2 + k
      BY <2>2, <2>3, <3>1
    <3>3. q + 2 + k # 0
      BY <3>2
    <3>4. QED
      BY <3>2, <3>3 DEF DT!FAIL
  <2>5. e[i + 1] = DT!ElementEnd(s, e[i])
    BY <1>2, <1>4, <2>1, <2>4 DEF Walks
  <2>6. e[i + 1] = q + 2 + Len(f[i + 1])
    BY <2>2, <2>3, <2>5
  <2>7. QED
    BY <2>1, <2>6
<1>7. \A i \in 0 .. Len(m) : i \in T
  <2> HIDE DEF T
  <2>1. QED
    BY <1>1, <1>5, <1>6, UpTo
<1>8. \A i \in 0 .. Len(m) : e[i] = q + 2 + Len(f[i])
  BY <1>7
<1>9. DT!VecFieldExtent(s, q + 1) = e[Len(m)]
  BY <1>1, <1>2, <1>3 DEF DT!VecFieldExtent
<1>10. Len(m) \in 0 .. Len(m)
  BY <1>1
<1>11. QED
  BY <1>2, <1>3, <1>8, <1>9, <1>10 DEF VecIsRead

\* The fields of a record, one behind the other.
PartsLie(s, r) ==
  /\ Lies(s, 0, NameSlot(r)) /\ Lies(s, Len(r.name) + 1, <<Len(r.members)>>)
  /\ Lies(s, Len(r.name) + 2, Flat(r)) /\ Lies(s, Len(r.name) + 2 + Len(Flat(r)), r.note)

\* An encoded record lies at the start when its parts lie in their places.
LEMMA EncodedLies ==
  ASSUME DT!DynamicTailAssumption, NEW s \in Seq(DT!Byte), NEW r \in DT!Record
  PROVE  Lies(s, 0, DT!Encoded(r)) <=> PartsLie(s, r)
<1>1. PICK a : a = NameSlot(r)
  OBVIOUS
<1>2. PICK b : b = <<Len(r.members)>>
  OBVIOUS
<1>3. PICK l : l = Lead(r)
  OBVIOUS
<1>4. PICK g : g = Flat(r)
  OBVIOUS
<1>5. PICK x : x = l \o g
  OBVIOUS
<1>6. PICK c : c = r.note
  OBVIOUS
<1>7. /\ a \in Seq(DT!Byte) /\ l \in Seq(DT!Byte) /\ g \in Seq(DT!Byte) /\ c \in Seq(DT!Byte)
      /\ Len(a) = Len(r.name) + 1 /\ Len(l) = Len(r.name) + 2
      /\ Len(g) \in Nat /\ Len(r.name) \in Nat /\ Len(r.members) \in DT!Byte
      /\ DT!Encoded(r) = x \o c
  BY <1>1, <1>3, <1>4, <1>5, <1>6, EncodedIs, RecordIs
<1>8. b \in Seq(DT!Byte)
  BY <1>2, <1>7, OneByte
<1>9. x \in Seq(DT!Byte) /\ Len(x) = Len(l) + Len(g)
  BY <1>5, <1>7, JoinedTyped
<1>10. LiesInTwo(s, 0, x, c) /\ LiesInTwo(s, 0, l, g) /\ LiesInTwo(s, 0, a, b)
  <2>1. LiesInTwo(s, 0, x, c)
    BY <1>7, <1>9, LiesJoined
  <2>2. LiesInTwo(s, 0, l, g)
    BY <1>7, LiesJoined
  <2>3. LiesInTwo(s, 0, a, b)
    BY <1>7, <1>8, LiesJoined
  <2>4. QED
    BY <2>1, <2>2, <2>3
<1>11. l = a \o b
  BY <1>1, <1>2, <1>3 DEF Lead
<1>12. /\ 0 + Len(x) = Len(r.name) + 2 + Len(g) /\ 0 + Len(l) = Len(r.name) + 2
       /\ 0 + Len(a) = Len(r.name) + 1
  BY <1>7, <1>9
<1>13. Lies(s, 0, x \o c) <=> Lies(s, 0, x) /\ Lies(s, Len(r.name) + 2 + Len(g), c)
  BY <1>10, <1>12 DEF LiesInTwo
<1>14. Lies(s, 0, x) <=> Lies(s, 0, l) /\ Lies(s, Len(r.name) + 2, g)
  BY <1>5, <1>10, <1>12 DEF LiesInTwo
<1>15. Lies(s, 0, l) <=> Lies(s, 0, a) /\ Lies(s, Len(r.name) + 1, b)
  BY <1>10, <1>11, <1>12 DEF LiesInTwo
<1>16. PartsLie(s, r) <=> /\ Lies(s, 0, a) /\ Lies(s, Len(r.name) + 1, b)
                          /\ Lies(s, Len(r.name) + 2, g) /\ Lies(s, Len(r.name) + 2 + Len(g), c)
  BY <1>1, <1>2, <1>4, <1>6 DEF PartsLie
<1>17. QED
  BY <1>7, <1>13, <1>14, <1>15, <1>16

\* The vector of a record lies behind its first field.
LEMMA MembersLie ==
  ASSUME DT!DynamicTailAssumption, NEW s \in Seq(DT!Byte), NEW r \in DT!Record, PartsLie(s, r)
  PROVE  \E f : VecLies(s, Len(r.name) + 1, r.members, f) /\ Flat(r) = f[Len(r.members)]
<1>1. /\ r.members \in Seq(DT!Element) /\ r.members \in Seq(Seq(DT!Byte))
      /\ Len(r.members) <= VecCap /\ Len(r.members) \in Nat /\ Len(r.name) \in Nat
  BY RecordIs
<1>2. PICK f : Joins(f, r.members) /\ Flat(r) = f[Len(r.members)]
  BY <1>1, FlatIs DEF Flat
<1>3. Lies(s, Len(r.name) + 1, <<Len(r.members)>>) /\ Lies(s, Len(r.name) + 2, f[Len(r.members)])
  BY <1>2 DEF PartsLie
<1>4. (Len(r.name) + 1) + 1 = Len(r.name) + 2
  BY <1>1
<1>5. VecLies(s, Len(r.name) + 1, r.members, f)
  BY <1>1, <1>2, <1>3, <1>4 DEF VecLies
<1>6. QED
  BY <1>2, <1>5

\* The bytes of the tail are those of the record.
TailHolds(r) ==
  /\ r \in DT!Record /\ tail_cells \in Seq(DT!Byte) /\ DT!Readable
  /\ tail_len = Len(DT!Encoded(r)) /\ Lies(tail_cells, 0, DT!Encoded(r))

\* Where the elements of the vector of the record end in the tail.
EndsAre(r, f) ==
  /\ VecLies(tail_cells, Len(r.name) + 1, r.members, f) /\ Flat(r) = f[Len(r.members)]
  /\ \A i \in 0 .. Len(r.members) :
       DT!ElementEnds(DT!TailPayload, DT!MembersStart)[i] = Len(r.name) + 3 + Len(f[i])

\* The tail that holds a record reads it: the codec loses nothing.
LEMMA TailDecodes ==
  ASSUME DT!DynamicTailAssumption, NEW r, TailHolds(r)
  PROVE  /\ DT!TailPayload = DT!Encoded(r)
         /\ DT!MembersStart = Len(r.name) + 2
         /\ DT!NoteStart = Len(r.name) + 3 + Len(Flat(r))
         /\ DT!Members = r.members
         /\ DT!Decodes /\ DT!TailRead = r
         /\ \E f : EndsAre(r, f)
<1> DEFINE s == DT!Encoded(r)
           n == Len(r.name)
           m == r.members
<1>1. /\ r \in DT!Record /\ tail_cells \in Seq(DT!Byte) /\ tail_len = Len(s)
      /\ Lies(tail_cells, 0, s) /\ DT!Readable
  BY DEF TailHolds
<1>2. /\ s \in Seq(DT!Byte) /\ NameSlot(r) \in Seq(DT!Byte)
      /\ Flat(r) \in Seq(DT!Byte) /\ Len(Flat(r)) \in Nat
      /\ Len(s) = n + 2 + Len(Flat(r)) + Len(r.note)
  BY <1>1, EncodedIs
<1>3. /\ n \in Nat /\ n <= StringCap /\ n \in DT!Byte /\ r.name \in Seq(DT!Byte)
      /\ r.note \in Seq(DT!Byte) /\ Len(r.note) \in Nat
      /\ m \in Seq(DT!Element) /\ Len(m) \in Nat /\ Len(m) <= VecCap
  BY <1>1, RecordIs
<1> HIDE DEF s, n, m
<1>4. DT!TailPayload = s
  <2>1. SubSeq(tail_cells, 0 + 1, 0 + Len(s)) = s
    BY <1>1, <1>2, LiesCut
  <2>2. 0 + 1 = 1 /\ 0 + Len(s) = tail_len
    BY <1>1, <1>2, LenProperties
  <2>3. QED
    BY <2>1, <2>2 DEF DT!TailPayload
<1>5. PartsLie(s, r) /\ PartsLie(tail_cells, r)
  <2>1. Lies(s, 0, s)
    BY <1>2, LiesSelf
  <2>2. QED
    BY <1>1, <1>2, <2>1, EncodedLies DEF s
<1>6. PICK f : VecLies(s, n + 1, m, f) /\ Flat(r) = f[Len(m)]
  BY <1>1, <1>2, <1>5, MembersLie DEF n, m
<1>7. DT!StringEnd(s, 1) = n + 2 /\ SubSeq(s, 2, n + 1) = r.name
  <2>1. Lies(s, 0, <<n>> \o r.name)
    BY <1>5 DEF PartsLie, NameSlot, n
  <2>2. QED
    BY <1>2, <1>3, <2>1, StringReads DEF n
<1>8. DT!MembersStart = n + 2
  BY <1>4, <1>7 DEF DT!MembersStart
<1>9. /\ s[n + 2] = Len(m)
      /\ \A i \in 0 .. Len(m) : DT!ElementEnds(s, n + 2)[i] = n + 3 + Len(f[i])
      /\ DT!VecFieldExtent(s, n + 2) = n + 3 + Len(Flat(r))
  <2>1. PICK q : q = n + 1
    OBVIOUS
  <2>2. q \in Nat /\ q + 1 = n + 2 /\ q + 2 = n + 3
    BY <1>3, <2>1
  <2>3. VecLies(s, q, m, f)
    BY <1>6, <2>1
  <2>4. VecIsRead(s, q, m, f)
    BY <1>2, <2>2, <2>3, VecReads
  <2>5. QED
    BY <1>6, <2>2, <2>4 DEF VecIsRead
<1>10. DT!MembersStart # DT!FAIL
  BY <1>3, <1>8 DEF DT!FAIL
<1>11. DT!NoteStart = n + 3 + Len(Flat(r))
  BY <1>4, <1>8, <1>9, <1>10 DEF DT!NoteStart
<1>12. DT!Decodes
  <2>1. DT!NoteStart # DT!FAIL
    BY <1>2, <1>3, <1>11 DEF DT!FAIL
  <2>2. QED
    BY <1>1, <2>1 DEF DT!Decodes
<1>13. DT!Members = m
  <2>1. PICK e : e = DT!ElementEnds(s, n + 2)
    OBVIOUS
  <2>2. DT!Members = [i \in 1 .. Len(m) |-> SubSeq(s, e[i - 1], e[i] - 1)]
    BY <1>4, <1>8, <1>9, <2>1 DEF DT!Members
  <2>3. ASSUME NEW i \in 1 .. Len(m) PROVE SubSeq(s, e[i - 1], e[i] - 1) = m[i]
    <3>1. PICK q : q = n + 1
      OBVIOUS
    <3>2. q \in Nat /\ VecLies(s, q, m, f) /\ q = n + 1
      BY <1>3, <1>6, <3>1
    <3>3. /\ Len(f[i - 1]) \in Nat /\ Len(m[i]) \in Nat
          /\ Len(f[i]) = Len(f[i - 1]) + Len(m[i])
          /\ Lies(s, q + 1 + Len(f[i - 1]), m[i])
      <4>1. ElementSits(s, q, m, f, i)
        BY <1>2, <3>2, ElementLies
      <4>2. QED
        BY <4>1 DEF ElementSits
    <3>4. PICK v : v = q + 1 + Len(f[i - 1])
      OBVIOUS
    <3>5. v \in Nat
      BY <3>2, <3>3, <3>4
    <3>6. m[i] \in Seq(DT!Byte)
      <4>1. m[i] \in DT!Element
        BY <1>3, ElementOfSeq
      <4>2. QED
        BY <4>1, ElementIs
    <3>7. SubSeq(s, v + 1, v + Len(m[i])) = m[i]
      BY <1>2, <3>3, <3>4, <3>5, <3>6, LiesCut
    <3>8. e[i - 1] = n + 3 + Len(f[i - 1]) /\ e[i] = n + 3 + Len(f[i])
      <4>1. i - 1 \in 0 .. Len(m) /\ i \in 0 .. Len(m)
        BY <1>3
      <4>2. QED
        BY <1>9, <2>1, <4>1
    <3>9. v + 1 = e[i - 1] /\ v + Len(m[i]) = e[i] - 1
      <4>1. PICK k, l : k = Len(f[i - 1]) /\ l = Len(m[i])
        OBVIOUS
      <4>2. /\ k \in Nat /\ l \in Nat /\ v = q + 1 + k
            /\ e[i - 1] = n + 3 + k /\ e[i] = n + 3 + (k + l)
        BY <3>3, <3>4, <3>8, <4>1
      <4>3. v + 1 = n + 3 + k /\ v + l = (n + 3 + (k + l)) - 1
        BY <1>3, <3>2, <4>2
      <4>4. QED
        BY <4>1, <4>2, <4>3
    <3>10. QED
      BY <3>7, <3>9
  <2>4. m = [i \in 1 .. Len(m) |-> m[i]]
    BY <1>3, LenProperties
  <2>5. QED
    BY <2>2, <2>3, <2>4
<1>14. SubSeq(s, n + 3 + Len(Flat(r)), tail_len) = r.note
  <2>1. PICK v : v = n + 2 + Len(Flat(r))
    OBVIOUS
  <2>2. v \in Nat /\ v + 1 = n + 3 + Len(Flat(r)) /\ v + Len(r.note) = Len(s)
    BY <1>2, <1>3, <2>1
  <2>3. Lies(s, v, r.note)
    BY <1>5, <2>1 DEF PartsLie, n
  <2>4. SubSeq(s, v + 1, v + Len(r.note)) = r.note
    BY <1>2, <1>3, <2>2, <2>3, LiesCut
  <2>5. QED
    BY <1>1, <2>2, <2>4
<1>15. DT!TailRead = r
  <2>1. DT!TailRead = [name |-> r.name, members |-> m, note |-> r.note]
    <3>1. DT!MembersStart - 1 = n + 1
      BY <1>3, <1>8
    <3>2. QED
      BY <1>4, <1>7, <1>11, <1>12, <1>13, <1>14, <3>1 DEF DT!TailRead
  <2>2. r = [name |-> r.name, members |-> r.members, note |-> r.note]
    BY <1>1 DEF DT!Record
  <2>3. QED
    BY <2>1, <2>2 DEF m
<1>16. \E g : EndsAre(r, g)
  <2>1. VecLies(tail_cells, n + 1, m, f)
    <3>1. (n + 1) + 1 = n + 2
      BY <1>3
    <3>2. /\ Lies(tail_cells, n + 1, <<Len(m)>>) /\ Lies(tail_cells, n + 2, f[Len(m)])
      BY <1>5, <1>6 DEF PartsLie, n, m
    <3>3. QED
      BY <1>6, <3>1, <3>2 DEF VecLies
  <2>2. EndsAre(r, f)
    BY <1>4, <1>6, <1>8, <1>9, <2>1 DEF EndsAre, n, m
  <2>3. QED
    BY <2>2
<1>17. QED
  BY <1>4, <1>8, <1>11, <1>12, <1>13, <1>15, <1>16 DEF s, n, m

\* Bytes a + 1 to z of the first n are replaced by new, what follows them is
\* moved, and what was behind the first n is kept as far as there is room.
Moves(c, d, n, a, z, new) ==
  /\ Len(d) = Len(c) /\ Lies(d, a, new)
  /\ \A q, x : q \in Nat /\ Len(x) \in Nat /\ Lies(c, q, x) /\ q + Len(x) <= a => Lies(d, q, x)
  /\ \A q, x : (q \in Nat /\ Len(x) \in Nat /\ Lies(c, q, x) /\ z <= q /\ q + Len(x) <= n)
                 => Lies(d, a + Len(new) + (q - z), x)

\* The splice that replace_tail_field performs, its bounds included.
Spliced(S, c, d, n, a, z, new) ==
  /\ c \in Seq(S) /\ new \in Seq(S) /\ n \in Nat /\ a \in Nat /\ z \in Nat
  /\ a <= z /\ z <= n /\ n <= Len(c) /\ a + Len(new) + (n - z) <= Len(c)
  /\ d = SubSeq(c, 1, a) \o new \o SubSeq(c, z + 1, n)
             \o SubSeq(c, a + Len(new) + (n - z) + 1, Len(c))

\* A splice moves what lies behind the field and keeps what lies before it.
LEMMA Moving ==
  ASSUME NEW S, NEW c, NEW d, NEW n, NEW a, NEW z, NEW new, Spliced(S, c, d, n, a, z, new)
  PROVE  d \in Seq(S) /\ Moves(c, d, n, a, z, new)
<1>0. /\ c \in Seq(S) /\ new \in Seq(S)
  BY DEF Spliced
<1>1. PICK k, w : /\ k = Len(new) /\ w = Len(c) /\ k \in Nat /\ w \in Nat
                  /\ n \in Nat /\ a \in Nat /\ z \in Nat
                  /\ a <= z /\ z <= n /\ n <= w /\ a + k + (n - z) <= w
  BY LenProperties DEF Spliced
<1>2. PICK u, v, x, y : /\ u = z + 1 /\ v = a + k + (n - z) + 1
                        /\ x = n - z /\ y = w - (a + k + (n - z))
  OBVIOUS
<1>3. /\ u \in Nat /\ u > 0 /\ v \in Nat /\ v > 0 /\ x \in Nat /\ y \in Nat /\ a <= w /\ n <= w
      /\ (IF u <= n THEN n - u + 1 ELSE 0) = x /\ (IF v <= w THEN w - v + 1 ELSE 0) = y
      /\ (IF 1 <= a THEN a - 1 + 1 ELSE 0) = a /\ a + k + x + y = w
      /\ n - u + 1 = x /\ a - 1 + 1 = a
  BY <1>1, <1>2
<1>4. PICK pa : /\ pa = SubSeq(c, 1, a) /\ pa \in Seq(S) /\ Len(pa) = a
                /\ \A i \in 1 .. a : pa[i] = c[1 + i - 1]
  <2>1. 1 \in Nat /\ 1 > 0
    OBVIOUS
  <2>2. /\ SubSeq(c, 1, a) \in Seq(S) /\ Len(SubSeq(c, 1, a)) = IF 1 <= a THEN a - 1 + 1 ELSE 0
        /\ \A i \in 1 .. a - 1 + 1 : SubSeq(c, 1, a)[i] = c[1 + i - 1]
    BY <1>0, <1>1, <1>3, <2>1, Slice
  <2>3. QED
    BY <1>3, <2>2
<1>5. PICK pz : /\ pz = SubSeq(c, u, n) /\ pz \in Seq(S) /\ Len(pz) = x
                /\ \A i \in 1 .. x : pz[i] = c[u + i - 1]
  <2>1. /\ SubSeq(c, u, n) \in Seq(S) /\ Len(SubSeq(c, u, n)) = IF u <= n THEN n - u + 1 ELSE 0
        /\ \A i \in 1 .. n - u + 1 : SubSeq(c, u, n)[i] = c[u + i - 1]
    BY <1>0, <1>1, <1>3, Slice
  <2>2. QED
    BY <1>3, <2>1
<1>6. PICK pr : pr = SubSeq(c, v, w) /\ pr \in Seq(S) /\ Len(pr) = y
  <2>1. SubSeq(c, v, w) \in Seq(S) /\ Len(SubSeq(c, v, w)) = IF v <= w THEN w - v + 1 ELSE 0
    <3>1. w <= Len(c)
      BY <1>1
    <3>2. QED
      BY <1>0, <1>1, <1>3, <3>1, Slice
  <2>2. QED
    BY <1>3, <2>1
<1>7. PICK ab, abz : ab = pa \o new /\ abz = ab \o pz
  OBVIOUS
<1>8. d = abz \o pr
  BY <1>1, <1>2, <1>4, <1>5, <1>6, <1>7 DEF Spliced
<1>9. ab \in Seq(S) /\ Len(ab) = a + k
  BY <1>0, <1>1, <1>4, <1>7, JoinedTyped
<1>10. abz \in Seq(S) /\ Len(abz) = a + k + x
  BY <1>5, <1>7, <1>9, JoinedTyped
<1>11. d \in Seq(S) /\ Len(d) = w
  <2>1. d \in Seq(S) /\ Len(d) = a + k + x + y
    BY <1>6, <1>8, <1>10, JoinedTyped
  <2>2. QED
    BY <1>3, <2>1
<1>12. Lies(d, 0, abz)
  <2>1. Lies(d, 0, d)
    BY <1>11, LiesSelf
  <2>2. LiesInTwo(d, 0, abz, pr)
    BY <1>6, <1>10, <1>11, LiesJoined
  <2>3. QED
    BY <1>8, <2>1, <2>2 DEF LiesInTwo
<1>13. Lies(d, 0, ab) /\ Lies(d, 0 + (a + k), pz)
  <2>1. LiesInTwo(d, 0, ab, pz)
    BY <1>5, <1>9, <1>11, LiesJoined
  <2>2. QED
    BY <1>7, <1>9, <1>12, <2>1 DEF LiesInTwo
<1>14. Lies(d, 0, pa) /\ Lies(d, 0 + a, new)
  <2>1. LiesInTwo(d, 0, pa, new)
    BY <1>0, <1>4, <1>11, LiesJoined
  <2>2. QED
    BY <1>4, <1>7, <1>13, <2>1 DEF LiesInTwo
<1>15. 0 + a = a /\ 0 + (a + k) = a + k
  BY <1>1
<1>16. Lies(d, a, new) /\ Lies(d, a + k, pz)
  BY <1>13, <1>14, <1>15
<1>17. ASSUME NEW q, NEW t, q \in Nat /\ Len(t) \in Nat /\ Lies(c, q, t) /\ q + Len(t) <= a
       PROVE  Lies(d, q, t)
  <2>1. q + Len(t) <= Len(d)
    BY <1>1, <1>3, <1>11, <1>17
  <2>2. ASSUME NEW j \in 1 .. Len(t) PROVE d[q + j] = t[j]
    <3>1. q + j \in 1 .. a /\ 0 + (q + j) = q + j /\ 1 + (q + j) - 1 = q + j
      BY <1>1, <1>17
    <3>2. d[0 + (q + j)] = pa[q + j]
      BY <1>4, <1>14, <3>1 DEF Lies
    <3>3. pa[q + j] = c[q + j]
      BY <1>4, <3>1
    <3>4. c[q + j] = t[j]
      BY <1>17 DEF Lies
    <3>5. QED
      BY <3>1, <3>2, <3>3, <3>4
  <2>3. QED
    BY <2>1, <2>2 DEF Lies
<1>18. ASSUME NEW q, NEW t, /\ q \in Nat /\ Len(t) \in Nat /\ Lies(c, q, t)
                            /\ z <= q /\ q + Len(t) <= n
       PROVE  Lies(d, a + k + (q - z), t)
  <2>1. a + k + (q - z) + Len(t) <= Len(d)
    BY <1>1, <1>2, <1>3, <1>11, <1>18
  <2>2. ASSUME NEW j \in 1 .. Len(t) PROVE d[a + k + (q - z) + j] = t[j]
    <3>1. /\ (q - z) + j \in 1 .. x /\ (a + k) + ((q - z) + j) = a + k + (q - z) + j
          /\ u + ((q - z) + j) - 1 = q + j
      BY <1>1, <1>2, <1>18
    <3>2. d[(a + k) + ((q - z) + j)] = pz[(q - z) + j]
      BY <1>5, <1>16, <3>1 DEF Lies
    <3>3. pz[(q - z) + j] = c[q + j]
      BY <1>5, <3>1
    <3>4. c[q + j] = t[j]
      BY <1>18 DEF Lies
    <3>5. QED
      BY <3>1, <3>2, <3>3, <3>4
  <2>3. QED
    BY <2>1, <2>2 DEF Lies
<1>19. Len(d) = Len(c) /\ k = Len(new)
  BY <1>1, <1>11
<1>20. \A q, t : q \in Nat /\ Len(t) \in Nat /\ Lies(c, q, t) /\ q + Len(t) <= a => Lies(d, q, t)
  BY <1>17
<1>21. \A q, t : (q \in Nat /\ Len(t) \in Nat /\ Lies(c, q, t) /\ z <= q /\ q + Len(t) <= n)
                    => Lies(d, a + Len(new) + (q - z), t)
  BY <1>18, <1>19
<1>22. Moves(c, d, n, a, z, new)
  BY <1>16, <1>19, <1>20, <1>21, Zenon DEF Moves
<1>23. QED
  BY <1>11, <1>22

\* The type of the prefix and the bytes.
TailTyped ==
  /\ tail_len \in 0 .. MaxRoom /\ tail_cells \in Seq(DT!Byte) /\ Len(tail_cells) <= MaxRoom

\* What replace_tail_field leaves, wherever the field is.
LEMMA Replaced ==
  ASSUME DT!DynamicTailAssumption, TailTyped, DT!Readable,
         NEW start \in Nat, NEW end \in Nat, 1 <= start, start <= end, end <= tail_len + 1,
         NEW new \in Seq(DT!Byte), DT!Fits(start, end, new), DT!ReplaceTailField(start, end, new)
  PROVE  /\ TailTyped' /\ DT!Readable'
         /\ tail_len' = (start - 1) + Len(new) + (tail_len - (end - 1))
         /\ Moves(tail_cells, tail_cells', tail_len, start - 1, end - 1, new)
<1>1. PICK a, z, k, w : /\ a = start - 1 /\ z = end - 1 /\ k = Len(new) /\ w = Len(tail_cells)
                        /\ k \in Nat /\ w \in Nat
  BY LenProperties DEF TailTyped
<1>2. /\ a \in Nat /\ z \in Nat /\ a <= z /\ z <= tail_len /\ tail_len \in Nat /\ z + 1 = end
      /\ tail_len <= w /\ w <= MaxRoom /\ MaxRoom \in Nat
  BY <1>1 DEF TailTyped, DT!Readable, DT!Room, DT!DynamicTailAssumption
<1>3. DT!NewTotal(start, end, new) = a + k + (tail_len - z)
  BY <1>1, <1>2 DEF DT!NewTotal
<1>4. a + k + (tail_len - z) <= w
  BY <1>1, <1>3 DEF DT!Fits, DT!Room
<1>5. PICK c, d, n : c = tail_cells /\ d = tail_cells' /\ n = tail_len
  OBVIOUS
<1>6. d = SubSeq(c, 1, a) \o new \o SubSeq(c, z + 1, n) \o SubSeq(c, a + k + (n - z) + 1, w)
  BY <1>1, <1>2, <1>3, <1>5 DEF DT!ReplaceTailField, DT!Room
<1>7. c \in Seq(DT!Byte) /\ n \in Nat /\ n <= w
  BY <1>2, <1>5 DEF TailTyped
<1>8. d \in Seq(DT!Byte) /\ Moves(c, d, n, a, z, new)
  <2>1. Spliced(DT!Byte, c, d, n, a, z, new)
    BY <1>1, <1>2, <1>4, <1>5, <1>6, <1>7 DEF Spliced
  <2>2. QED
    BY <2>1, Moving
<1>9. tail_len' = a + k + (tail_len - z)
  BY <1>3 DEF DT!ReplaceTailField
<1>10. Len(tail_cells') = w
  BY <1>1, <1>5, <1>8 DEF Moves
<1>11. TailTyped' /\ DT!Readable'
  BY <1>1, <1>2, <1>4, <1>5, <1>8, <1>9, <1>10 DEF TailTyped, DT!Readable, DT!Room
<1>12. QED
  BY <1>1, <1>5, <1>8, <1>9, <1>11

\* The type of the tail, and that it holds the record it should.
TailInv ==
  /\ TailTyped /\ tail_stored \in DT!Record \cup {Lost}
  /\ tail_stored # Lost => TailHolds(tail_stored)

\* A step that leaves the parts of the new record in place keeps the invariant.
LEMMA HoldsAgain ==
  ASSUME DT!DynamicTailAssumption, TailTyped', DT!Readable', NEW r \in DT!Record,
         PartsLie(tail_cells', r), tail_stored' = r,
         tail_len' = Len(r.name) + 2 + Len(Flat(r)) + Len(r.note)
  PROVE  TailInv'
<1>1. tail_cells' \in Seq(DT!Byte)
  BY DEF TailTyped
<1>2. Lies(tail_cells', 0, DT!Encoded(r))
  BY <1>1, EncodedLies
<1>3. tail_len' = Len(DT!Encoded(r))
  BY EncodedIs
<1>4. QED
  BY <1>1, <1>2, <1>3 DEF TailInv, TailHolds

\* A step that leaves no record to read has only the types to keep.
LEMMA LostAgain ==
  ASSUME TailTyped', tail_stored' = Lost
  PROVE  TailInv'
  BY DEF TailInv

\* A call that is refused keeps the invariant.
LEMMA TailKept ==
  ASSUME TailInv, UNCHANGED DT!vars
  PROVE  TailInv'
  BY DEF TailInv, TailTyped, TailHolds, DT!vars, DT!Readable, DT!Room

\* A byte is a number.
LEMMA ByteIsNat == DT!Byte \subseteq Nat
  BY DEF DT!Byte

\* A field that the tail has lies inside it.
LEMMA PayloadIs ==
  ASSUME TailTyped, DT!Readable
  PROVE  DT!TailPayload \in Seq(DT!Byte) /\ Len(DT!TailPayload) = tail_len /\ tail_len \in Nat
<1>1. /\ tail_len \in Nat /\ tail_cells \in Seq(DT!Byte) /\ tail_len <= Len(tail_cells)
      /\ 1 \in Nat /\ 1 > 0
  BY DEF TailTyped, DT!Readable, DT!Room
<1>2. /\ SubSeq(tail_cells, 1, tail_len) \in Seq(DT!Byte)
      /\ Len(SubSeq(tail_cells, 1, tail_len)) = IF 1 <= tail_len THEN tail_len - 1 + 1 ELSE 0
  BY <1>1, Slice
<1>3. (IF 1 <= tail_len THEN tail_len - 1 + 1 ELSE 0) = tail_len
  BY <1>1
<1>4. QED
  BY <1>1, <1>2, <1>3 DEF DT!TailPayload

\* The vector starts inside the tail, if the first field decodes.
LEMMA MembersStartInside ==
  ASSUME TailTyped, DT!Readable, DT!MembersStart # DT!FAIL
  PROVE  DT!MembersStart \in Nat /\ 1 <= DT!MembersStart /\ DT!MembersStart <= tail_len + 1
<1>1. PICK s : s = DT!TailPayload
  OBVIOUS
<1>2. s \in Seq(DT!Byte) /\ Len(s) = tail_len /\ tail_len \in Nat
  BY <1>1, PayloadIs
<1>3. 1 <= Len(s) => s[1] \in Nat
  <2>1. 1 <= Len(s) => s[1] \in DT!Byte
    BY <1>2, ElementOfSeq
  <2>2. QED
    BY <2>1, ByteIsNat
<1>4. 1 <= Len(s) /\ 1 + s[1] <= Len(s) /\ DT!MembersStart = 1 + s[1] + 1
  BY <1>1 DEF DT!MembersStart, DT!StringEnd
<1>5. QED
  BY <1>2, <1>3, <1>4

\* The walk e over the vector of the tail stays between the two ends of the vector.
VecInside(e) ==
  LET c == DT!TailPayload[DT!MembersStart]
  IN  /\ c \in Nat /\ c <= VecCap /\ e[c] = DT!NoteStart
      /\ \A i \in 0 .. c : e[i] \in Nat /\ DT!MembersStart + 1 <= e[i] /\ e[i] <= DT!NoteStart
      /\ \A i \in 1 .. c : e[i - 1] < e[i]
      /\ DT!Members = [i \in 1 .. c |-> SubSeq(DT!TailPayload, e[i - 1], e[i] - 1)]

\* The raw bytes start inside the tail, if both fields before them decode.
LEMMA NoteStartInside ==
  ASSUME TailTyped, DT!Decodes
  PROVE  /\ DT!MembersStart \in Nat /\ 1 <= DT!MembersStart
         /\ DT!NoteStart \in Nat /\ DT!MembersStart + 1 <= DT!NoteStart /\ DT!NoteStart <= tail_len + 1
         /\ VecInside(DT!ElementEnds(DT!TailPayload, DT!MembersStart))
         /\ DT!Readable
<1>1. DT!Readable /\ DT!NoteStart # DT!FAIL
  BY DEF DT!Decodes
<1>2. PICK s, p, e : /\ s = DT!TailPayload /\ p = DT!MembersStart
                     /\ e = DT!ElementEnds(DT!TailPayload, DT!MembersStart)
  OBVIOUS
<1>3. s \in Seq(DT!Byte) /\ Len(s) = tail_len /\ tail_len \in Nat
  BY <1>1, <1>2, PayloadIs
<1>4. DT!MembersStart # DT!FAIL /\ DT!NoteStart = DT!VecFieldExtent(s, p)
  BY <1>1, <1>2 DEF DT!NoteStart
<1>5. p \in Nat /\ 1 <= p
  BY <1>1, <1>2, <1>4, MembersStartInside
<1>6. p <= Len(s) /\ s[p] <= VecCap /\ DT!NoteStart = e[s[p]]
  BY <1>1, <1>2, <1>4 DEF DT!VecFieldExtent
<1>7. p \in 1 .. Len(s) /\ s[p] \in Nat
  <2>1. p \in 1 .. Len(s)
    BY <1>3, <1>5, <1>6
  <2>2. s[p] \in DT!Byte
    BY <1>3, <2>1, ElementOfSeq
  <2>3. QED
    BY <2>1, <2>2, ByteIsNat
<1>8. Walks(e, s, p)
  BY <1>2, <1>7, EndsWalk
<1>9. /\ \A i \in 0 .. s[p] : e[i] \in p + 1 .. Len(s) + 1
      /\ \A i \in 1 .. s[p] : e[i - 1] < e[i]
      /\ \A i \in 0 .. s[p] : e[i] <= e[s[p]]
  <2>1. PICK n : n = s[p]
    OBVIOUS
  <2>2. n \in Nat /\ e[n] # DT!FAIL
    BY <1>1, <1>6, <1>7, <2>1
  <2>3. /\ \A i \in 0 .. n : e[i] \in p + 1 .. Len(s) + 1
        /\ \A i \in 1 .. n : e[i - 1] < e[i]
        /\ \A i \in 0 .. n : e[i] <= e[n]
    BY <1>3, <1>7, <1>8, <2>1, <2>2, WalkInside
  <2>4. QED
    BY <2>1, <2>3
<1>10. /\ DT!NoteStart \in Nat /\ p + 1 <= DT!NoteStart /\ DT!NoteStart <= tail_len + 1
  <2>1. s[p] \in 0 .. s[p]
    BY <1>7
  <2>2. e[s[p]] \in p + 1 .. Len(s) + 1
    BY <1>9, <2>1
  <2>3. QED
    BY <1>3, <1>5, <1>6, <2>2
<1>11. \A i \in 0 .. s[p] : e[i] \in Nat /\ p + 1 <= e[i] /\ e[i] <= DT!NoteStart
  <2>1. ASSUME NEW i \in 0 .. s[p] PROVE e[i] \in Nat /\ p + 1 <= e[i] /\ e[i] <= DT!NoteStart
    <3>1. e[i] \in p + 1 .. Len(s) + 1 /\ e[i] <= e[s[p]]
      BY <1>9
    <3>2. QED
      BY <1>3, <1>5, <1>6, <3>1
  <2>2. QED
    BY <2>1
<1>12. DT!Members = [i \in 1 .. s[p] |-> SubSeq(s, e[i - 1], e[i] - 1)]
  BY <1>2 DEF DT!Members
<1>13. VecInside(e)
  BY <1>2, <1>6, <1>7, <1>9, <1>11, <1>12 DEF VecInside
<1>14. QED
  BY <1>1, <1>2, <1>5, <1>10, <1>13

\* The vector that is read has as many elements as its count says.
LEMMA MembersAre ==
  ASSUME TailTyped, DT!Decodes
  PROVE  Len(DT!Members) = DT!TailPayload[DT!MembersStart]
<1>1. PICK e : e = DT!ElementEnds(DT!TailPayload, DT!MembersStart)
  OBVIOUS
<1>2. PICK c : c = DT!TailPayload[DT!MembersStart]
  OBVIOUS
<1>3. c \in Nat /\ DT!Members = [i \in 1 .. c |-> SubSeq(DT!TailPayload, e[i - 1], e[i] - 1)]
  BY <1>1, <1>2, NoteStartInside DEF VecInside
<1>4. PICK h : h = [i \in 1 .. c |-> SubSeq(DT!TailPayload, e[i - 1], e[i] - 1)]
  OBVIOUS
<1>5. Len(h) = c
  BY <1>3, <1>4
<1>6. QED
  BY <1>2, <1>3, <1>4, <1>5

\* A string of the model is bytes.
LEMMA StringTyped ==
  ASSUME DT!DynamicTailAssumption, NEW n \in Nat, NEW s \in DT!Strings(n)
  PROVE  s \in Seq(Payload) /\ s \in Seq(DT!Byte) /\ Len(s) \in Nat /\ Len(s) <= n
<1>1. s \in Seq(Payload) /\ Len(s) <= n
  BY StringsAre
<1>2. Payload \subseteq DT!Byte
  BY DEF DT!DynamicTailAssumption
<1>3. QED
  BY <1>1, <1>2, SeqMonotonic, LenProperties

\* set_name: the vector and the final bytes move, and stay what they were.
LEMMA SetNameKeeps ==
  ASSUME DT!DynamicTailAssumption, TailInv, NEW s \in DT!Strings(StringCap + 1), DT!SetName(s)
  PROVE  TailInv'
<1>1. CASE UNCHANGED DT!vars
  BY <1>1, TailKept
<1>2. PICK new : new = <<Len(s)>> \o s
  OBVIOUS
<1>3. CASE /\ Len(s) <= StringCap /\ DT!Readable /\ DT!MembersStart # DT!FAIL
           /\ DT!Fits(1, DT!MembersStart, new)
           /\ DT!ReplaceTailField(1, DT!MembersStart, new)
           /\ DT!Becomes([tail_stored EXCEPT !.name = s])
  <2>1. StringCap \in Nat /\ StringCap + 1 \in Nat /\ StringCap <= 255
    BY DEF DT!DynamicTailAssumption, DT!Byte
  <2>2. s \in Seq(Payload) /\ s \in Seq(DT!Byte) /\ Len(s) \in Nat
    BY <2>1, StringTyped
  <2>3. Len(s) \in DT!Byte
    <3>1. \A j \in Nat, h \in Nat : j <= h /\ h <= 255 => j \in DT!Byte
      BY DEF DT!Byte
    <3>2. QED
      BY <1>3, <2>1, <2>2, <3>1
  <2>4. new \in Seq(DT!Byte) /\ Len(new) = Len(s) + 1
    <3>1. <<Len(s)>> \in Seq(DT!Byte) /\ Len(<<Len(s)>>) = 1
      BY <2>3, OneByte
    <3>2. new \in Seq(DT!Byte) /\ Len(new) = 1 + Len(s)
      BY <1>2, <2>2, <3>1, JoinedTyped
    <3>3. QED
      BY <2>2, <3>2
  <2>5. PICK end : end = DT!MembersStart
    OBVIOUS
  <2>6. TailTyped /\ tail_len \in Nat
    BY DEF TailInv, TailTyped
  <2>7. end \in Nat /\ 1 <= end /\ end <= tail_len + 1
    BY <1>3, <2>5, <2>6, MembersStartInside
  <2>8. /\ TailTyped' /\ DT!Readable'
        /\ tail_len' = (1 - 1) + Len(new) + (tail_len - (end - 1))
        /\ Moves(tail_cells, tail_cells', tail_len, 1 - 1, end - 1, new)
    <3>1. 1 \in Nat /\ 1 <= 1
      OBVIOUS
    <3>2. QED
      BY <1>3, <2>4, <2>5, <2>6, <2>7, <3>1, Replaced
  <2>9. CASE tail_stored = Lost
    BY <1>3, <2>8, <2>9, LostAgain DEF DT!Becomes
  <2>10. CASE tail_stored # Lost
    <3>1. PICK r : r = tail_stored
      OBVIOUS
    <3>2. r \in DT!Record /\ TailHolds(r)
      BY <2>10, <3>1 DEF TailInv
    <3>3. PICK o : o = [r EXCEPT !.name = s]
      OBVIOUS
    <3>4. tail_stored' = o
      BY <1>3, <2>10, <3>1, <3>3 DEF DT!Becomes
    <3>5. o \in DT!Record /\ o.name = s /\ o.members = r.members /\ o.note = r.note
      <4>1. s \in DT!Strings(StringCap)
        BY <1>3, <2>1, <2>2, StringsAre
      <4>2. QED
        BY <3>2, <3>3, <4>1 DEF DT!Record
    <3>6. Flat(o) = Flat(r) /\ NameSlot(o) = new
      BY <1>2, <3>5 DEF Flat, NameSlot
    <3>7. end = Len(r.name) + 2
      BY <2>5, <3>2, TailDecodes
    <3>8. PICK k, n, g, c, m : /\ k = Len(s) /\ n = Len(r.name) /\ g = Len(Flat(r)) /\ c = Len(r.note)
                               /\ m = <<Len(r.members)>>
      OBVIOUS
    <3>9. k \in Nat /\ n \in Nat /\ g \in Nat /\ c \in Nat
      BY <2>2, <3>2, <3>8, EncodedIs, RecordIs
    <3>10. tail_len = n + 2 + g + c
      BY <3>2, <3>8, EncodedIs DEF TailHolds
    <3>11. PartsLie(tail_cells, r)
      BY <3>2, EncodedLies DEF TailHolds
    <3>12. /\ Lies(tail_cells, n + 1, m) /\ Lies(tail_cells, n + 2, Flat(r))
           /\ Lies(tail_cells, n + 2 + g, r.note)
      BY <3>8, <3>11 DEF PartsLie
    <3>13. Len(m) = 1
      BY <3>8
    <3>14. Moves(tail_cells, tail_cells', tail_len, 0, n + 1, new)
      <4>1. 1 - 1 = 0 /\ end - 1 = n + 1
        BY <3>7, <3>8, <3>9
      <4>2. QED
        BY <2>8, <4>1
    <3>15. Len(new) = k + 1
      BY <2>4, <3>8
    <3>16. Lies(tail_cells', 0, new)
      BY <3>14 DEF Moves
    <3>17. /\ Lies(tail_cells', k + 1, m) /\ Lies(tail_cells', k + 2, Flat(r))
           /\ Lies(tail_cells', k + 2 + g, r.note)
      <4>1. /\ n + 1 \in Nat /\ n + 1 <= n + 1 /\ (n + 1) + 1 <= n + 2 + g + c
            /\ n + 2 \in Nat /\ n + 1 <= n + 2 /\ (n + 2) + g <= n + 2 + g + c
            /\ n + 2 + g \in Nat /\ n + 1 <= n + 2 + g /\ (n + 2 + g) + c <= n + 2 + g + c
            /\ 0 + (k + 1) + ((n + 1) - (n + 1)) = k + 1
            /\ 0 + (k + 1) + ((n + 2) - (n + 1)) = k + 2
            /\ 0 + (k + 1) + ((n + 2 + g) - (n + 1)) = k + 2 + g
        BY <3>9
      <4>2. Len(m) \in Nat /\ (n + 1) + Len(m) <= tail_len
        BY <3>10, <3>13, <4>1
      <4>3. Lies(tail_cells', 0 + (k + 1) + ((n + 1) - (n + 1)), m)
        BY <3>12, <3>14, <3>15, <4>1, <4>2 DEF Moves
      <4>4. Lies(tail_cells', 0 + (k + 1) + ((n + 2) - (n + 1)), Flat(r))
        BY <3>8, <3>9, <3>10, <3>12, <3>14, <3>15, <4>1 DEF Moves
      <4>5. Lies(tail_cells', 0 + (k + 1) + ((n + 2 + g) - (n + 1)), r.note)
        BY <3>8, <3>9, <3>10, <3>12, <3>14, <3>15, <4>1 DEF Moves
      <4>6. QED
        BY <4>1, <4>3, <4>4, <4>5
    <3>18. PartsLie(tail_cells', o)
      BY <3>5, <3>6, <3>8, <3>16, <3>17 DEF PartsLie
    <3>19. tail_len' = k + 2 + g + c
      <4>1. (1 - 1) + (k + 1) + ((n + 2 + g + c) - ((n + 2) - 1)) = k + 2 + g + c
        BY <3>9
      <4>2. QED
        BY <2>8, <3>7, <3>8, <3>10, <3>15, <4>1
    <3>20. tail_len' = Len(o.name) + 2 + Len(Flat(o)) + Len(o.note)
      BY <3>5, <3>6, <3>8, <3>19
    <3>21. QED
      BY <2>8, <3>4, <3>5, <3>18, <3>20, HoldsAgain
  <2>11. QED
    BY <2>9, <2>10
<1>4. QED
  BY <1>1, <1>2, <1>3 DEF DT!SetName, DT!Reject

\* One more element, and one less, in what is joined.
LEMMA FlatAppend ==
  ASSUME NEW S, NEW m, m \in Seq(Seq(S)), NEW x, x \in Seq(S)
  PROVE  DT!FlattenSeq(Append(m, x)) = DT!FlattenSeq(m) \o x
<1>1. PICK w : w = Append(m, x)
  OBVIOUS
<1>2. PICK n : n = Len(m)
  OBVIOUS
<1>3. n \in Nat /\ w \in Seq(Seq(S)) /\ Len(w) = n + 1 /\ w[n + 1] = x /\ \A i \in 1 .. n : w[i] = m[i]
  <2>1. /\ w \in Seq(Seq(S)) /\ Len(w) = Len(m) + 1
        /\ \A i \in 1 .. Len(m) : w[i] = m[i]
        /\ w[Len(m) + 1] = x
    BY <1>1, AppendProperties
  <2>2. Len(m) \in Nat
    BY LenProperties
  <2>3. QED
    BY <1>2, <2>1, <2>2
<1>4. PICK f : Joins(f, m) /\ DT!FlattenSeq(m) = f[n]
  BY <1>2, FlatIs
<1>5. PICK g : Joins(g, w) /\ DT!FlattenSeq(w) = g[n + 1]
  BY <1>3, FlatIs
<1>6. EndAlike(S, f[0], f[0 + n], g[0], g[0 + n])
  <2>1. 0 \in Nat /\ 0 + n <= Len(m) /\ 0 + n <= Len(w) /\ \A i \in 1 .. n : m[0 + i] = w[0 + i]
    BY <1>2, <1>3
  <2>2. QED
    BY <1>3, <1>4, <1>5, <2>1, JoinsAlike
<1>7. f[n] = g[n]
  <2>1. 0 + n = n /\ f[0] = g[0]
    BY <1>3, <1>4, <1>5 DEF Joins
  <2>2. PICK t : f[0 + n] = f[0] \o t /\ g[0 + n] = g[0] \o t
    BY <1>6, Zenon DEF EndAlike
  <2>3. QED
    BY <2>1, <2>2, Zenon
<1>8. g[n + 1] = g[n] \o x
  <2>1. n + 1 \in 1 .. Len(w) /\ (n + 1) - 1 = n
    BY <1>3
  <2>2. QED
    BY <1>3, <1>5, <2>1 DEF Joins
<1>9. QED
  BY <1>1, <1>4, <1>5, <1>7, <1>8

\* w is m without its element k.
Without(S, m, w, k) ==
  /\ m \in Seq(S) /\ w \in Seq(S) /\ k \in 1 .. Len(m) /\ Len(w) = Len(m) - 1
  /\ \A i \in 1 .. k - 1 : w[i] = m[i]
  /\ \A i \in k .. Len(w) : w[i] = m[i + 1]

\* The elements behind the one left out join to the same without it.
LEMMA FlatWithout ==
  ASSUME NEW S, NEW m, NEW w, NEW k, Without(Seq(S), m, w, k), NEW f, Joins(f, m)
  PROVE  EndAlike(S, f[k], f[Len(m)], f[k - 1], DT!FlattenSeq(w))
<1>1. PICK n, l : n = Len(m) /\ l = Len(w)
  OBVIOUS
<1>2. PICK j, d : j = k - 1 /\ d = l - j
  OBVIOUS
<1>3. n \in Nat /\ l \in Nat
  BY <1>1, LenProperties DEF Without
<1>4. k \in 1 .. n /\ l = n - 1
  BY <1>1 DEF Without
<1>5. /\ k \in Nat /\ j \in Nat /\ d \in Nat /\ j = k - 1 /\ 0 \in Nat
      /\ 0 + j = j /\ j <= n /\ j <= l /\ k + d = n /\ j + d = l
  BY <1>2, <1>3, <1>4
<1>6. m \in Seq(Seq(S)) /\ w \in Seq(Seq(S))
  BY DEF Without
<1>7. PICK g : Joins(g, w) /\ DT!FlattenSeq(w) = g[l]
  BY <1>1, <1>6, FlatIs
<1>8. f[j] = g[j]
  <2>1. \A i \in 1 .. j : m[0 + i] = w[0 + i]
    <3>1. \A i \in 1 .. j : 0 + i = i /\ i \in 1 .. k - 1
      BY <1>5
    <3>2. QED
      BY <3>1 DEF Without
  <2>2. EndAlike(S, f[0], f[0 + j], g[0], g[0 + j])
    <3>1. 0 \in Nat /\ j \in Nat /\ 0 + j <= Len(m) /\ 0 + j <= Len(w)
      BY <1>1, <1>5
    <3>2. Joins(g, w)
      BY <1>7
    <3>3. QED
      BY <1>6, <2>1, <3>1, <3>2, JoinsAlike
  <2>3. f[0] = g[0]
    BY <1>7 DEF Joins
  <2>4. PICK t : f[0 + j] = f[0] \o t /\ g[0 + j] = g[0] \o t
    BY <2>2, Zenon DEF EndAlike
  <2>5. f[0 + j] = g[0 + j]
    BY <2>3, <2>4, Zenon
  <2>6. 0 + j = j
    BY <1>5
  <2>7. QED
    BY <2>5, <2>6, Zenon
<1>9. EndAlike(S, f[k], f[k + d], g[j], g[j + d])
  <2>1. \A i \in 1 .. d : m[k + i] = w[j + i]
    <3>1. \A i \in 1 .. d : j + i \in k .. l /\ (j + i) + 1 = k + i
      BY <1>5
    <3>2. QED
      BY <1>1, <3>1 DEF Without
  <2>2. k + d <= Len(m) /\ j + d <= Len(w)
    BY <1>1, <1>3, <1>5
  <2>3. Joins(g, w)
    BY <1>7
  <2>4. k \in Nat /\ j \in Nat /\ d \in Nat
    BY <1>5
  <2>5. QED
    BY <1>6, <2>1, <2>2, <2>3, <2>4, JoinsAlike
<1>10. EndAlike(S, f[k], f[Len(m)], f[k - 1], DT!FlattenSeq(w))
  BY <1>1, <1>5, <1>7, <1>8, <1>9
<1>11. QED
  BY <1>10

\* RemoveFirst leaves out the first place that holds x.
LEMMA FirstIs ==
  ASSUME NEW S, NEW m, m \in Seq(S), NEW x, DT!Contains(m, x)
  PROVE  /\ DT!First(m, x) \in 1 .. Len(m)
         /\ DT!RemoveFirst(m, x) = DT!RemoveAt(m, DT!First(m, x))
<1> DEFINE I == {i \in 1 .. Len(m) : m[i] = x}
<1>1. I \subseteq Nat /\ I # {} /\ Len(m) \in Nat /\ DOMAIN m = 1 .. Len(m)
  BY LenProperties DEF DT!Contains
<1>2. PICK k \in I : \A j \in I : k <= j
  <2> HIDE DEF I
  <2>1. QED
    BY <1>1, LeastElement
<1>3. DT!First(m, x) = k
  <2>1. k \in DOMAIN m /\ m[k] = x /\ \A j \in 1 .. k - 1 : m[j] # x
    <3>1. ASSUME NEW j \in 1 .. k - 1 PROVE m[j] # x
      <4>1. j \in 1 .. Len(m) /\ ~(k <= j)
        BY <1>1, <1>2
      <4>2. j \notin I
        <5> HIDE DEF I
        <5>1. QED
          BY <1>2, <4>1
      <4>3. QED
        BY <4>1, <4>2
    <3>2. QED
      BY <1>1, <1>2, <3>1
  <2>2. ASSUME NEW i \in DOMAIN m, m[i] = x, \A j \in 1 .. i - 1 : m[j] # x PROVE i = k
    <3>1. i \in I /\ i \in Nat /\ k \in Nat /\ m[k] = x
      BY <1>1, <1>2, <2>2
    <3>2. k <= i
      <4> HIDE DEF I
      <4>1. QED
        BY <1>2, <3>1
    <3>3. ~(k < i)
      <4>1. k < i => k \in 1 .. i - 1
        BY <1>2, <3>1
      <4>2. QED
        BY <2>2, <3>1, <4>1
    <3>4. QED
      BY <3>1, <3>2, <3>3
  <2>3. \A i \in DOMAIN m : (m[i] = x /\ \A j \in 1 .. i - 1 : m[j] # x) => i = k
    BY <2>2
  <2> HIDE DEF I
  <2>4. QED
    BY <2>1, <2>3 DEF DT!First
<1>4. DT!Min(I) = k
  <2> HIDE DEF I
  <2>1. \A i \in I : (\A j \in I : i <= j) => i = k
    BY <1>1, <1>2
  <2>2. QED
    BY <1>2, <2>1 DEF DT!Min
<1>5. DT!SelectInSeq(m, LAMBDA v : v = x) = k
  BY <1>1, <1>4 DEF DT!SelectInSeq
<1>6. \E i \in 1 .. Len(m) : m[i] = x
  BY DEF DT!Contains
<1>7. DT!RemoveFirst(m, x) = DT!RemoveAt(m, k)
  BY <1>5, <1>6 DEF DT!RemoveFirst
<1>8. k \in 1 .. Len(m)
  BY <1>2
<1>9. QED
  BY <1>3, <1>7, <1>8

\* RemoveAt leaves out one element.
LEMMA RemovedIs ==
  ASSUME NEW S, NEW m, m \in Seq(S), NEW k, k \in 1 .. Len(m)
  PROVE  Without(S, m, DT!RemoveAt(m, k), k)
<1>1. PICK n : n = Len(m) /\ n \in Nat
  BY LenProperties
<1>2. PICK j, d, p : j = k - 1 /\ d = n - k /\ p = k + 1
  OBVIOUS
<1>3. /\ k \in Nat /\ k <= n /\ j \in Nat /\ d \in Nat /\ p \in Nat /\ p > 0 /\ j <= n
      /\ 1 \in Nat /\ 1 > 0 /\ j + d = n - 1
      /\ (IF 1 <= j THEN j - 1 + 1 ELSE 0) = j /\ (IF p <= n THEN n - p + 1 ELSE 0) = d
      /\ j - 1 + 1 = j /\ n - p + 1 = d
  BY <1>1, <1>2
<1>4. PICK a : /\ a = SubSeq(m, 1, j) /\ a \in Seq(S) /\ Len(a) = j
               /\ \A i \in 1 .. j : a[i] = m[1 + i - 1]
  <2>1. /\ SubSeq(m, 1, j) \in Seq(S) /\ Len(SubSeq(m, 1, j)) = IF 1 <= j THEN j - 1 + 1 ELSE 0
        /\ \A i \in 1 .. j - 1 + 1 : SubSeq(m, 1, j)[i] = m[1 + i - 1]
    BY <1>1, <1>3, Slice
  <2>2. QED
    BY <1>3, <2>1
<1>5. PICK b : /\ b = SubSeq(m, p, n) /\ b \in Seq(S) /\ Len(b) = d
               /\ \A i \in 1 .. d : b[i] = m[p + i - 1]
  <2>1. n <= Len(m)
    BY <1>1
  <2>2. /\ SubSeq(m, p, n) \in Seq(S) /\ Len(SubSeq(m, p, n)) = IF p <= n THEN n - p + 1 ELSE 0
        /\ \A i \in 1 .. n - p + 1 : SubSeq(m, p, n)[i] = m[p + i - 1]
    BY <1>1, <1>3, <2>1, Slice
  <2>3. QED
    BY <1>3, <2>2
<1>6. PICK w : w = DT!RemoveAt(m, k)
  OBVIOUS
<1>7. w = a \o b
  BY <1>1, <1>2, <1>4, <1>5, <1>6 DEF DT!RemoveAt
<1>8. /\ w \in Seq(S) /\ Len(w) = n - 1
      /\ \A i \in 1 .. j : w[i] = a[i]
      /\ \A i \in 1 .. d : w[j + i] = b[i]
  <2>1. /\ a \o b \in Seq(S) /\ Len(a \o b) = Len(a) + Len(b)
        /\ \A i \in 1 .. Len(a) : (a \o b)[i] = a[i]
        /\ \A i \in 1 .. Len(b) : (a \o b)[Len(a) + i] = b[i]
    <3>1. a \in Seq(S) /\ b \in Seq(S)
      BY <1>4, <1>5
    <3>2. QED
      BY <3>1, Joined
  <2>2. Len(a) = j /\ Len(b) = d /\ j + d = n - 1
    BY <1>3, <1>4, <1>5
  <2>3. QED
    BY <1>7, <2>1, <2>2
<1>9. ASSUME NEW i \in 1 .. k - 1 PROVE w[i] = m[i]
  <2>1. i \in 1 .. j /\ 1 + i - 1 = i
    BY <1>2, <1>3
  <2>2. QED
    BY <1>4, <1>8, <2>1
<1>10. ASSUME NEW i \in k .. Len(w) PROVE w[i] = m[i + 1]
  <2>1. i \in k .. n - 1
    BY <1>8
  <2>2. PICK e : e = i - j
    OBVIOUS
  <2>3. e \in 1 .. d /\ j + e = i /\ p + e - 1 = i + 1
    BY <1>1, <1>2, <1>3, <2>1, <2>2
  <2>4. w[j + e] = b[e] /\ b[e] = m[p + e - 1]
    BY <1>5, <1>8, <2>3
  <2>5. QED
    BY <2>3, <2>4
<1>11. QED
  BY <1>1, <1>6, <1>8, <1>9, <1>10 DEF Without

\* A vector that is replaced by the bytes of another: the first field stays and
\* the final bytes move.
NewMembers(r, w, o, new) ==
  /\ TailHolds(r) /\ w \in DT!Vecs /\ o = [r EXCEPT !.members = w] /\ tail_stored' = o
  /\ new = <<Len(w)>> \o DT!FlattenSeq(w) /\ TailTyped' /\ DT!Readable'
  /\ tail_len' = (DT!MembersStart - 1) + Len(new) + (tail_len - (DT!NoteStart - 1))
  /\ Moves(tail_cells, tail_cells', tail_len, DT!MembersStart - 1, DT!NoteStart - 1, new)

\* A vector replaced by the bytes of another reads back as that one.
LEMMA MembersReplaced ==
  ASSUME DT!DynamicTailAssumption, NEW r, NEW w, NEW o, NEW new, NewMembers(r, w, o, new)
  PROVE  TailInv'
<1>1. /\ o \in DT!Record /\ o.name = r.name /\ o.members = w /\ o.note = r.note
      /\ r \in DT!Record /\ TailHolds(r)
  BY DEF DT!Record, TailHolds, NewMembers
<1>2. NameSlot(o) = NameSlot(r) /\ Flat(o) = DT!FlattenSeq(w)
  BY <1>1 DEF NameSlot, Flat
<1>3. PICK n, g, c, k, b : /\ n = Len(r.name) /\ g = Len(Flat(r)) /\ c = Len(r.note)
                           /\ k = Len(Flat(o)) /\ b = <<Len(w)>>
  OBVIOUS
<1>4. n \in Nat /\ g \in Nat /\ c \in Nat /\ k \in Nat /\ Len(NameSlot(r)) = n + 1
  BY <1>1, <1>3, EncodedIs, RecordIs
<1>5. b \in Seq(DT!Byte) /\ Len(b) = 1 /\ Flat(o) \in Seq(DT!Byte)
  <2>1. Len(w) \in DT!Byte
    BY <1>1, RecordIs
  <2>2. QED
    BY <1>1, <1>3, <2>1, OneByte, EncodedIs
<1>6. new = b \o Flat(o) /\ new \in Seq(DT!Byte) /\ Len(new) = 1 + k
  <2>1. b \o Flat(o) \in Seq(DT!Byte) /\ Len(b \o Flat(o)) = Len(b) + Len(Flat(o))
    <3>1. b \in Seq(DT!Byte) /\ Flat(o) \in Seq(DT!Byte)
      BY <1>5
    <3>2. QED
      BY <3>1, JoinedTyped
  <2>2. new = b \o Flat(o)
    BY <1>2, <1>3 DEF NewMembers
  <2>3. QED
    BY <1>3, <1>5, <2>1, <2>2
<1>7. tail_len = n + 2 + g + c
  BY <1>1, <1>3, EncodedIs DEF TailHolds
<1>8. DT!MembersStart - 1 = n + 1 /\ DT!NoteStart - 1 = n + 2 + g
  <2>1. DT!MembersStart = n + 2 /\ DT!NoteStart = n + 3 + g
    BY <1>1, <1>3, TailDecodes
  <2>2. (n + 2) - 1 = n + 1 /\ (n + 3 + g) - 1 = n + 2 + g
    BY <1>4
  <2>3. QED
    BY <2>1, <2>2
<1>9. Moves(tail_cells, tail_cells', tail_len, n + 1, n + 2 + g, new)
  BY <1>8 DEF NewMembers
<1>10. Lies(tail_cells, 0, NameSlot(r)) /\ Lies(tail_cells, n + 2 + g, r.note)
  <2>1. PartsLie(tail_cells, r)
    BY <1>1, EncodedLies DEF TailHolds
  <2>2. QED
    BY <1>3, <2>1 DEF PartsLie
<1>11. Lies(tail_cells', 0, NameSlot(r))
  <2>1. 0 \in Nat /\ n + 1 \in Nat /\ 0 + (n + 1) <= n + 1
    BY <1>4
  <2>2. QED
    BY <1>4, <1>9, <1>10, <2>1 DEF Moves
<1>12. Lies(tail_cells', n + 1, b) /\ Lies(tail_cells', (n + 1) + 1, Flat(o))
  <2>1. Lies(tail_cells', n + 1, new)
    BY <1>9 DEF Moves
  <2>2. LiesInTwo(tail_cells', n + 1, b, Flat(o))
    <3>1. tail_cells' \in Seq(DT!Byte) /\ n + 1 \in Nat
      BY <1>4 DEF TailTyped, NewMembers
    <3>2. QED
      BY <1>5, <3>1, LiesJoined
  <2>3. QED
    BY <1>5, <1>6, <2>1, <2>2 DEF LiesInTwo
<1>13. Lies(tail_cells', n + 2 + k, r.note)
  <2>1. /\ n + 2 + g \in Nat /\ n + 2 + g <= n + 2 + g /\ (n + 2 + g) + c <= n + 2 + g + c
        /\ (n + 1) + (1 + k) + ((n + 2 + g) - (n + 2 + g)) = n + 2 + k
    BY <1>4
  <2>2. Lies(tail_cells', (n + 1) + (1 + k) + ((n + 2 + g) - (n + 2 + g)), r.note)
    BY <1>3, <1>4, <1>6, <1>7, <1>9, <1>10, <2>1 DEF Moves
  <2>3. QED
    BY <2>1, <2>2
<1>14. (n + 1) + 1 = n + 2 /\ (n + 1) + (1 + k) + ((n + 2 + g + c) - (n + 2 + g)) = n + 2 + k + c
  BY <1>4
<1>15. PartsLie(tail_cells', o)
  BY <1>1, <1>2, <1>3, <1>11, <1>12, <1>13, <1>14 DEF PartsLie
<1>16. tail_len' = Len(o.name) + 2 + Len(Flat(o)) + Len(o.note)
  BY <1>1, <1>3, <1>6, <1>7, <1>8, <1>14 DEF NewMembers
<1>17. QED
  BY <1>1, <1>15, <1>16, HoldsAgain DEF NewMembers

\* A slice of the bytes in use.
LEMMA CellsSlice ==
  ASSUME TailTyped, DT!Readable, NEW p, NEW q, p \in Nat, q \in Nat, 1 <= p, p <= q, q <= tail_len + 1
  PROVE  /\ SubSeq(tail_cells, p, q - 1) \in Seq(DT!Byte)
         /\ Len(SubSeq(tail_cells, p, q - 1)) = q - p
<1>1. /\ tail_cells \in Seq(DT!Byte) /\ tail_len \in Nat /\ tail_len <= Len(tail_cells)
      /\ Len(tail_cells) \in Nat
  BY LenProperties DEF TailTyped, DT!Readable, DT!Room
<1>2. PICK u : u = q - 1
  OBVIOUS
<1>3. u \in Nat /\ p > 0 /\ u <= Len(tail_cells) /\ (IF p <= u THEN u - p + 1 ELSE 0) = q - p
  BY <1>1, <1>2
<1>4. /\ SubSeq(tail_cells, p, u) \in Seq(DT!Byte)
      /\ Len(SubSeq(tail_cells, p, u)) = IF p <= u THEN u - p + 1 ELSE 0
  BY <1>1, <1>3, Slice
<1>5. QED
  BY <1>2, <1>3, <1>4

\* A count up to the capacity fits its byte.
LEMMA ByteUpTo ==
  ASSUME DT!DynamicTailAssumption, NEW c, c \in Nat, c <= VecCap
  PROVE  c \in DT!Byte
  BY DEF DT!DynamicTailAssumption, DT!Byte

\* push_member: the new count and the new element, and the raw bytes move.
LEMMA PushMemberKeeps ==
  ASSUME DT!DynamicTailAssumption, TailInv, NEW x \in DT!Element, DT!PushMember(x)
  PROVE  TailInv'
<1>1. CASE UNCHANGED DT!vars
  BY <1>1, TailKept
<1>2. CASE /\ DT!Pushable(x)
           /\ DT!ReplaceTailField(DT!MembersStart, DT!NoteStart, DT!Pushed(x))
           /\ DT!Becomes([tail_stored EXCEPT !.members = Append(@, x)])
  <2>1. DT!Decodes /\ Len(DT!Members) < VecCap /\ DT!Fits(DT!NoteStart, DT!NoteStart, x)
    BY <1>2 DEF DT!Pushable
  <2>2. PICK c, p, q, new : /\ c = Len(DT!Members) /\ p = DT!MembersStart /\ q = DT!NoteStart
                            /\ new = DT!Pushed(x)
    OBVIOUS
  <2>3. TailTyped /\ tail_len \in Nat /\ VecCap \in Nat
    BY DEF TailInv, TailTyped, DT!DynamicTailAssumption, DT!Byte
  <2>4. /\ p \in Nat /\ 1 <= p /\ q \in Nat /\ p + 1 <= q /\ q <= tail_len + 1 /\ DT!Readable
    BY <2>1, <2>2, <2>3, NoteStartInside
  <2>5. c \in Nat
    <3>1. DT!TailPayload[DT!MembersStart] \in Nat
      BY <2>1, <2>3, NoteStartInside DEF VecInside
    <3>2. QED
      BY <2>1, <2>2, <2>3, <3>1, MembersAre
  <2>6. c + 1 \in DT!Byte
    <3>1. c + 1 \in Nat /\ c + 1 <= VecCap
      BY <2>1, <2>2, <2>3, <2>5
    <3>2. QED
      BY <3>1, ByteUpTo
  <2>7. PICK h, v : h = <<c + 1>> /\ v = SubSeq(tail_cells, p + 1, q - 1)
    OBVIOUS
  <2>8. h \in Seq(DT!Byte) /\ Len(h) = 1
    BY <2>6, <2>7, OneByte
  <2>9. v \in Seq(DT!Byte) /\ Len(v) = q - (p + 1)
    <3>1. p + 1 \in Nat /\ 1 <= p + 1
      BY <2>4
    <3>2. QED
      BY <2>3, <2>4, <2>7, <3>1, CellsSlice
  <2>10. x \in Seq(DT!Byte) /\ Len(x) \in Nat
    BY ElementIs, LenProperties
  <2>11. new = (h \o v) \o x
    BY <2>2, <2>7 DEF DT!Pushed
  <2>12. h \o v \in Seq(DT!Byte) /\ Len(h \o v) = 1 + (q - (p + 1))
    <3>1. h \in Seq(DT!Byte) /\ v \in Seq(DT!Byte)
      BY <2>8, <2>9
    <3>2. h \o v \in Seq(DT!Byte) /\ Len(h \o v) = Len(h) + Len(v)
      BY <3>1, JoinedTyped
    <3>3. QED
      BY <2>8, <2>9, <3>2
  <2>13. new \in Seq(DT!Byte) /\ Len(new) = 1 + (q - (p + 1)) + Len(x)
    <3>1. PICK hv : hv = h \o v
      OBVIOUS
    <3>2. hv \o x \in Seq(DT!Byte) /\ Len(hv \o x) = Len(hv) + Len(x)
      <4>1. hv \in Seq(DT!Byte)
        BY <2>12, <3>1
      <4>2. QED
        BY <2>10, <4>1, JoinedTyped
    <3>3. QED
      BY <2>11, <2>12, <3>1, <3>2
  <2>14. DT!Fits(p, q, new)
    <3>1. PICK l : l = Len(x)
      OBVIOUS
    <3>2. tail_len - (q - q) + l = tail_len - (q - p) + (1 + (q - (p + 1)) + l)
      BY <2>3, <2>4, <2>10, <3>1
    <3>3. QED
      BY <2>1, <2>2, <2>13, <3>1, <3>2 DEF DT!Fits, DT!NewTotal
  <2>15. /\ TailTyped' /\ DT!Readable'
         /\ tail_len' = (p - 1) + Len(new) + (tail_len - (q - 1))
         /\ Moves(tail_cells, tail_cells', tail_len, p - 1, q - 1, new)
    <3>1. p <= q /\ DT!ReplaceTailField(p, q, new)
      BY <1>2, <2>2, <2>4
    <3>2. QED
      BY <2>3, <2>4, <2>13, <2>14, <3>1, Replaced
  <2>16. CASE tail_stored = Lost
    BY <1>2, <2>15, <2>16, LostAgain DEF DT!Becomes
  <2>17. CASE tail_stored # Lost
    <3>1. PICK r : r = tail_stored
      OBVIOUS
    <3>2. r \in DT!Record /\ TailHolds(r)
      BY <2>17, <3>1 DEF TailInv
    <3>3. PICK w, o : w = Append(r.members, x) /\ o = [r EXCEPT !.members = w]
      OBVIOUS
    <3>4. tail_stored' = o
      BY <1>2, <2>17, <3>1, <3>3 DEF DT!Becomes
    <3>5. c = Len(r.members) /\ p = Len(r.name) + 2 /\ q = Len(r.name) + 3 + Len(Flat(r))
      BY <2>2, <3>2, TailDecodes
    <3>6. /\ r.members \in Seq(DT!Element) /\ r.members \in Seq(Seq(DT!Byte))
          /\ Len(r.name) \in Nat /\ Flat(r) \in Seq(DT!Byte) /\ Len(Flat(r)) \in Nat
      BY <3>2, RecordIs, EncodedIs
    <3>7. w \in Seq(DT!Element) /\ Len(w) = c + 1
      BY <3>3, <3>5, <3>6, AppendProperties
    <3>8. w \in DT!Vecs
      <4>1. c + 1 <= VecCap
        BY <2>1, <2>2, <2>3, <2>5
      <4>2. QED
        BY <3>7, <4>1, VecsAre
    <3>9. DT!FlattenSeq(w) = Flat(r) \o x
      BY <2>10, <3>3, <3>6, FlatAppend DEF Flat
    <3>10. v = Flat(r)
      <4>1. PICK u : u = Len(r.name) + 2
        OBVIOUS
      <4>2. u \in Nat /\ u + 1 = p + 1 /\ u + Len(Flat(r)) = q - 1
        BY <3>5, <3>6, <4>1
      <4>3. Lies(tail_cells, u, Flat(r)) /\ tail_cells \in Seq(DT!Byte)
        BY <3>2, <4>1, EncodedLies DEF PartsLie, TailHolds
      <4>4. SubSeq(tail_cells, u + 1, u + Len(Flat(r))) = Flat(r)
        BY <3>6, <4>2, <4>3, LiesCut
      <4>5. QED
        BY <2>7, <4>2, <4>4
    <3>11. new = <<Len(w)>> \o DT!FlattenSeq(w)
      <4>1. Regroups(h, v, x)
        BY <2>8, <2>9, <2>10, Regrouped
      <4>2. QED
        BY <2>7, <2>11, <3>7, <3>9, <3>10, <4>1 DEF Regroups
    <3>12. NewMembers(r, w, o, new)
      BY <2>2, <2>15, <3>2, <3>3, <3>4, <3>8, <3>11 DEF NewMembers
    <3>13. QED
      BY <3>12, MembersReplaced
  <2>18. QED
    BY <2>16, <2>17
<1>3. QED
  BY <1>1, <1>2 DEF DT!PushMember, DT!Reject

\* push_unique_member: refused if the vector has the element.
LEMMA PushUniqueMemberKeeps ==
  ASSUME DT!DynamicTailAssumption, TailInv, NEW x \in DT!Element, DT!PushUniqueMember(x)
  PROVE  TailInv'
<1>1. UNCHANGED DT!vars \/ DT!PushMember(x)
  BY DEF DT!PushUniqueMember, DT!Reject
<1>2. QED
  BY <1>1, TailKept, PushMemberKeeps

\* The element to remove is one of the vector.
LEMMA RemovedWhere ==
  ASSUME TailTyped, DT!Decodes, NEW x, DT!Contains(DT!Members, x)
  PROVE  /\ DT!First(DT!Members, x) \in 1 .. Len(DT!Members)
         /\ Len(DT!Members) \in Nat /\ Len(DT!Members) <= VecCap
<1>1. PICK e, c : /\ e = DT!ElementEnds(DT!TailPayload, DT!MembersStart)
                  /\ c = DT!TailPayload[DT!MembersStart]
  OBVIOUS
<1>2. /\ c \in Nat /\ c <= VecCap
      /\ DT!Members = [i \in 1 .. c |-> SubSeq(DT!TailPayload, e[i - 1], e[i] - 1)]
  BY <1>1, NoteStartInside DEF VecInside
<1>3. PICK S : S = {SubSeq(DT!TailPayload, e[i - 1], e[i] - 1) : i \in 1 .. c}
  OBVIOUS
<1>4. DT!Members \in Seq(S)
  <2>1. DT!Members \in [1 .. c -> S]
    BY <1>2, <1>3
  <2>2. QED
    BY <1>2, <2>1, SeqDef
<1>5. DT!First(DT!Members, x) \in 1 .. Len(DT!Members)
  BY <1>4, FirstIs
<1>6. Len(DT!Members) = c
  BY <1>1, MembersAre
<1>7. QED
  BY <1>2, <1>5, <1>6

\* remove_member: the later elements move down, then the final bytes do.
LEMMA RemoveMemberKeeps ==
  ASSUME DT!DynamicTailAssumption, TailInv, NEW x \in DT!Element, DT!RemoveMember(x)
  PROVE  TailInv'
<1>1. CASE UNCHANGED DT!vars
  BY <1>1, TailKept
<1>2. CASE /\ DT!Decodes /\ DT!Contains(DT!Members, x)
           /\ DT!ReplaceTailField(DT!MembersStart, DT!NoteStart, DT!Shortened(DT!First(DT!Members, x)))
           /\ DT!Becomes([tail_stored EXCEPT !.members = DT!RemoveFirst(@, x)])
  <2>1. PICK c, p, q, i, e, new :
          /\ c = Len(DT!Members) /\ p = DT!MembersStart /\ q = DT!NoteStart
          /\ i = DT!First(DT!Members, x) /\ e = DT!ElementEnds(DT!TailPayload, DT!MembersStart)
          /\ new = DT!Shortened(i)
    OBVIOUS
  <2>2. TailTyped /\ tail_len \in Nat /\ VecCap \in Nat
    BY DEF TailInv, TailTyped, DT!DynamicTailAssumption, DT!Byte
  <2>3. /\ p \in Nat /\ 1 <= p /\ q \in Nat /\ p + 1 <= q /\ q <= tail_len + 1 /\ DT!Readable
    BY <1>2, <2>1, <2>2, NoteStartInside
  <2>4. i \in 1 .. c /\ c \in Nat /\ c <= VecCap
    BY <1>2, <2>1, <2>2, RemovedWhere
  <2>5. PICK a, b : a = e[i - 1] /\ b = e[i]
    OBVIOUS
  <2>6. a \in Nat /\ p + 1 <= a /\ a < b /\ b \in Nat /\ b <= q
    <3>1. VecInside(e) /\ DT!TailPayload[DT!MembersStart] = c
      BY <1>2, <2>1, <2>2, NoteStartInside, MembersAre
    <3>2. i - 1 \in 0 .. c /\ i \in 0 .. c
      BY <2>4
    <3>3. QED
      BY <2>1, <2>4, <2>5, <3>1, <3>2 DEF VecInside
  <2>7. c - 1 \in DT!Byte
    <3>1. c - 1 \in Nat /\ c - 1 <= VecCap
      BY <2>2, <2>4
    <3>2. QED
      BY <3>1, ByteUpTo
  <2>8. PICK h, u, v : /\ h = <<c - 1>> /\ u = SubSeq(tail_cells, p + 1, a - 1)
                       /\ v = SubSeq(tail_cells, b, q - 1)
    OBVIOUS
  <2>9. h \in Seq(DT!Byte) /\ Len(h) = 1
    BY <2>7, <2>8, OneByte
  <2>10. u \in Seq(DT!Byte) /\ Len(u) = a - (p + 1)
    <3>1. p + 1 \in Nat /\ 1 <= p + 1 /\ a <= tail_len + 1
      BY <2>2, <2>3, <2>6
    <3>2. QED
      BY <2>2, <2>3, <2>6, <2>8, <3>1, CellsSlice
  <2>11. v \in Seq(DT!Byte) /\ Len(v) = q - b
    <3>1. 1 <= b
      BY <2>3, <2>6
    <3>2. QED
      BY <2>2, <2>3, <2>6, <2>8, <3>1, CellsSlice
  <2>12. new = (h \o u) \o v
    BY <2>1, <2>5, <2>8 DEF DT!Shortened
  <2>13. new \in Seq(DT!Byte) /\ Len(new) = 1 + (a - (p + 1)) + (q - b)
    <3>1. PICK hu : hu = h \o u
      OBVIOUS
    <3>2. hu \in Seq(DT!Byte) /\ Len(hu) = Len(h) + Len(u)
      <4>1. h \in Seq(DT!Byte) /\ u \in Seq(DT!Byte)
        BY <2>9, <2>10
      <4>2. QED
        BY <3>1, <4>1, JoinedTyped
    <3>3. hu \o v \in Seq(DT!Byte) /\ Len(hu \o v) = Len(hu) + Len(v)
      <4>1. hu \in Seq(DT!Byte) /\ v \in Seq(DT!Byte)
        BY <2>11, <3>2
      <4>2. QED
        BY <4>1, JoinedTyped
    <3>4. QED
      BY <2>9, <2>10, <2>11, <2>12, <3>1, <3>2, <3>3
  <2>14. DT!Fits(p, q, new)
    <3>1. tail_len <= Len(tail_cells) /\ Len(tail_cells) \in Nat
      BY <2>2, <2>3, LenProperties DEF TailTyped, DT!Readable, DT!Room
    <3>2. tail_len - (q - p) + (1 + (a - (p + 1)) + (q - b)) <= Len(tail_cells)
      BY <2>2, <2>3, <2>6, <3>1
    <3>3. QED
      BY <2>13, <3>2 DEF DT!Fits, DT!NewTotal, DT!Room
  <2>15. /\ TailTyped' /\ DT!Readable'
         /\ tail_len' = (p - 1) + Len(new) + (tail_len - (q - 1))
         /\ Moves(tail_cells, tail_cells', tail_len, p - 1, q - 1, new)
    <3>1. p <= q /\ DT!ReplaceTailField(p, q, new)
      BY <1>2, <2>1, <2>3
    <3>2. QED
      BY <2>2, <2>3, <2>13, <2>14, <3>1, Replaced
  <2>16. CASE tail_stored = Lost
    BY <1>2, <2>15, <2>16, LostAgain DEF DT!Becomes
  <2>17. CASE tail_stored # Lost
    <3>1. PICK r : r = tail_stored
      OBVIOUS
    <3>2. r \in DT!Record /\ TailHolds(r)
      BY <2>17, <3>1 DEF TailInv
    <3>3. PICK m, w, o, n : /\ m = r.members /\ w = DT!RemoveFirst(m, x)
                            /\ o = [r EXCEPT !.members = w] /\ n = Len(r.name)
      OBVIOUS
    <3>4. tail_stored' = o
      BY <1>2, <2>17, <3>1, <3>3 DEF DT!Becomes
    <3>5. /\ DT!Members = m /\ c = Len(m) /\ p = n + 2 /\ q = n + 3 + Len(Flat(r))
      BY <2>1, <3>2, <3>3, TailDecodes
    <3>6. PICK f : EndsAre(r, f)
      BY <3>2, TailDecodes
    <3>7. /\ m \in Seq(DT!Element) /\ m \in Seq(Seq(DT!Byte)) /\ n \in Nat
          /\ tail_cells \in Seq(DT!Byte)
      BY <3>2, <3>3, RecordIs DEF TailHolds
    <3>8. w = DT!RemoveAt(m, i)
      BY <1>2, <2>1, <3>3, <3>5, <3>7, FirstIs
    <3>9. /\ w \in Seq(DT!Element) /\ w \in Seq(Seq(DT!Byte)) /\ Len(w) = c - 1
          /\ Without(Seq(DT!Byte), m, w, i)
      <4>1. i \in 1 .. Len(m)
        BY <2>4, <3>5
      <4>2. w \in Seq(DT!Element)
        <5>1. Without(DT!Element, m, w, i)
          BY <3>7, <3>8, <4>1, RemovedIs
        <5>2. QED
          BY <5>1 DEF Without
      <4>3. Without(Seq(DT!Byte), m, w, i)
        BY <3>7, <3>8, <4>1, RemovedIs
      <4>4. w \in Seq(Seq(DT!Byte)) /\ Len(w) = Len(m) - 1
        BY <4>3 DEF Without
      <4>5. QED
        BY <3>5, <4>2, <4>3, <4>4
    <3>10. w \in DT!Vecs
      <4>1. c - 1 <= VecCap
        BY <2>2, <2>4
      <4>2. QED
        BY <3>9, <4>1, VecsAre
    <3>11. VecLies(tail_cells, n + 1, m, f) /\ Flat(r) = f[Len(m)]
      BY <3>3, <3>6 DEF EndsAre
    <3>12. PICK t : t \in Seq(DT!Byte) /\ f[Len(m)] = f[i] \o t /\ DT!FlattenSeq(w) = f[i - 1] \o t
      <4>1. Joins(f, m)
        BY <3>11 DEF VecLies
      <4>2. EndAlike(DT!Byte, f[i], f[Len(m)], f[i - 1], DT!FlattenSeq(w))
        BY <3>9, <4>1, FlatWithout
      <4>3. QED
        BY <4>2 DEF EndAlike
    <3>13. PICK k, l, g : k = Len(f[i - 1]) /\ l = Len(f[i]) /\ g = Len(t)
      OBVIOUS
    <3>14. /\ f[i - 1] \in Seq(DT!Byte) /\ f[i] \in Seq(DT!Byte) /\ k \in Nat /\ l \in Nat /\ g \in Nat
           /\ Lies(tail_cells, (n + 1) + 1, f[i - 1])
      <4>1. i - 1 \in 0 .. Len(m) /\ i \in 0 .. Len(m) /\ n + 1 \in Nat
        BY <2>4, <3>5, <3>7
      <4>2. f[i - 1] \in Seq(DT!Byte) /\ Len(f[i - 1]) \in Nat /\ Lies(tail_cells, (n + 1) + 1, f[i - 1])
        BY <3>7, <3>11, <4>1, JoinedLies
      <4>3. f[i] \in Seq(DT!Byte) /\ Len(f[i]) \in Nat
        BY <3>7, <3>11, <4>1, JoinedLies
      <4>4. QED
        BY <3>12, <3>13, <4>2, <4>3, LenProperties
    <3>15. Len(Flat(r)) = l + g
      <4>1. Len(f[i] \o t) = Len(f[i]) + Len(t)
        BY <3>12, <3>14, JoinedTyped
      <4>2. QED
        BY <3>11, <3>12, <3>13, <4>1
    <3>16. Lies(tail_cells, n + 2 + l, t)
      <4>1. LiesInTwo(tail_cells, n + 2, f[i], t)
        <5>1. n + 2 \in Nat
          BY <3>7
        <5>2. QED
          BY <3>7, <3>12, <3>14, <5>1, LiesJoined
      <4>2. Lies(tail_cells, n + 2, Flat(r))
        BY <3>2, <3>3, EncodedLies DEF PartsLie, TailHolds
      <4>3. QED
        BY <3>11, <3>12, <3>13, <4>1, <4>2 DEF LiesInTwo
    <3>17. a = n + 3 + k /\ b = n + 3 + l
      <4>1. i - 1 \in 0 .. Len(m) /\ i \in 0 .. Len(m)
        BY <2>4, <3>5
      <4>2. QED
        BY <2>1, <2>5, <3>3, <3>6, <3>13, <4>1 DEF EndsAre
    <3>18. u = f[i - 1]
      <4>1. PICK z : z = n + 2
        OBVIOUS
      <4>2. z \in Nat /\ (n + 1) + 1 = z /\ z + 1 = p + 1 /\ z + k = a - 1
        BY <3>5, <3>7, <3>14, <3>17, <4>1
      <4>3. SubSeq(tail_cells, z + 1, z + Len(f[i - 1])) = f[i - 1]
        BY <3>7, <3>14, <4>2, LiesCut
      <4>4. QED
        BY <2>8, <3>13, <4>2, <4>3
    <3>19. v = t
      <4>1. PICK z : z = n + 2 + l
        OBVIOUS
      <4>2. z \in Nat /\ z + 1 = b /\ z + g = q - 1
        <5>1. q = n + 3 + (l + g)
          BY <3>5, <3>15
        <5>2. QED
          BY <3>7, <3>14, <3>17, <4>1, <5>1
      <4>3. SubSeq(tail_cells, z + 1, z + Len(t)) = t
        BY <3>7, <3>12, <3>16, <4>1, <4>2, LiesCut
      <4>4. QED
        BY <2>8, <3>13, <4>2, <4>3
    <3>20. new = <<Len(w)>> \o DT!FlattenSeq(w)
      <4>1. Regroups(h, u, v)
        BY <2>9, <2>10, <2>11, Regrouped
      <4>2. QED
        BY <2>8, <2>12, <3>9, <3>12, <3>18, <3>19, <4>1 DEF Regroups
    <3>21. NewMembers(r, w, o, new)
      BY <2>1, <2>15, <3>2, <3>3, <3>4, <3>10, <3>20 DEF NewMembers
    <3>22. QED
      BY <3>21, MembersReplaced
  <2>18. QED
    BY <2>16, <2>17
<1>3. QED
  BY <1>1, <1>2 DEF DT!RemoveMember, DT!Reject

\* set_note: the final bytes are the last, nothing lies behind them.
LEMMA SetNoteKeeps ==
  ASSUME DT!DynamicTailAssumption, TailInv, NEW s \in DT!Strings(NoteLen), DT!SetNote(s)
  PROVE  TailInv'
<1>1. CASE UNCHANGED DT!vars
  BY <1>1, TailKept
<1>2. CASE /\ DT!Decodes /\ DT!Fits(DT!NoteStart, tail_len + 1, s)
           /\ DT!ReplaceTailField(DT!NoteStart, tail_len + 1, s)
           /\ DT!Becomes([tail_stored EXCEPT !.note = s])
  <2>1. PICK p, q, l : p = DT!NoteStart /\ q = tail_len + 1 /\ l = Len(s)
    OBVIOUS
  <2>2. TailTyped /\ tail_len \in Nat
    BY DEF TailInv, TailTyped
  <2>3. s \in Seq(DT!Byte) /\ l \in Nat
    <3>1. NoteLen \in Nat
      BY DEF DT!DynamicTailAssumption
    <3>2. QED
      BY <2>1, <3>1, StringTyped
  <2>4. p \in Nat /\ 1 <= p /\ p <= q /\ q \in Nat /\ q <= tail_len + 1 /\ DT!Readable
    <3>1. /\ DT!MembersStart \in Nat /\ 1 <= DT!MembersStart /\ p \in Nat
          /\ DT!MembersStart + 1 <= p /\ p <= q /\ DT!Readable
      BY <1>2, <2>1, <2>2, NoteStartInside
    <3>2. QED
      BY <2>1, <2>2, <3>1
  <2>5. /\ TailTyped' /\ DT!Readable'
        /\ tail_len' = (p - 1) + Len(s) + (tail_len - (q - 1))
        /\ Moves(tail_cells, tail_cells', tail_len, p - 1, q - 1, s)
    <3>1. DT!Fits(p, q, s) /\ DT!ReplaceTailField(p, q, s)
      BY <1>2, <2>1
    <3>2. QED
      BY <2>2, <2>3, <2>4, <3>1, Replaced
  <2>6. CASE tail_stored = Lost
    BY <1>2, <2>5, <2>6, LostAgain DEF DT!Becomes
  <2>7. CASE tail_stored # Lost
    <3>1. PICK r, o : r = tail_stored /\ o = [r EXCEPT !.note = s]
      OBVIOUS
    <3>2. r \in DT!Record /\ TailHolds(r)
      BY <2>7, <3>1 DEF TailInv
    <3>3. tail_stored' = o
      BY <1>2, <2>7, <3>1 DEF DT!Becomes
    <3>4. o \in DT!Record /\ o.name = r.name /\ o.members = r.members /\ o.note = s
      BY <3>1, <3>2 DEF DT!Record
    <3>5. NameSlot(o) = NameSlot(r) /\ Flat(o) = Flat(r)
      BY <3>4 DEF NameSlot, Flat
    <3>6. PICK n, g, m : n = Len(r.name) /\ g = Len(Flat(r)) /\ m = <<Len(r.members)>>
      OBVIOUS
    <3>7. n \in Nat /\ g \in Nat /\ Len(NameSlot(r)) = n + 1
      BY <3>2, <3>6, EncodedIs, RecordIs
    <3>8. p = n + 3 + g
      BY <2>1, <3>2, <3>6, TailDecodes
    <3>9. p - 1 = n + 2 + g /\ q - 1 = tail_len
      BY <2>1, <2>2, <3>7, <3>8
    <3>10. Moves(tail_cells, tail_cells', tail_len, n + 2 + g, tail_len, s)
      BY <2>5, <3>9
    <3>11. /\ Lies(tail_cells, 0, NameSlot(r)) /\ Lies(tail_cells, n + 1, m)
           /\ Lies(tail_cells, n + 2, Flat(r))
      <4>1. PartsLie(tail_cells, r)
        BY <3>2, EncodedLies DEF TailHolds
      <4>2. QED
        BY <3>6, <4>1 DEF PartsLie
    <3>12. /\ 0 \in Nat /\ n + 1 \in Nat /\ n + 2 \in Nat /\ Len(m) = 1 /\ 1 \in Nat
           /\ 0 + (n + 1) <= n + 2 + g /\ (n + 1) + 1 <= n + 2 + g /\ (n + 2) + g <= n + 2 + g
      BY <3>6, <3>7
    <3>13. Lies(tail_cells', 0, NameSlot(r))
      BY <3>7, <3>10, <3>11, <3>12 DEF Moves
    <3>14. Lies(tail_cells', n + 1, m)
      BY <3>10, <3>11, <3>12 DEF Moves
    <3>15. Lies(tail_cells', n + 2, Flat(r))
      BY <3>6, <3>7, <3>10, <3>11, <3>12 DEF Moves
    <3>16. Lies(tail_cells', n + 2 + g, s)
      BY <3>10 DEF Moves
    <3>17. PartsLie(tail_cells', o)
      BY <3>4, <3>5, <3>6, <3>13, <3>14, <3>15, <3>16 DEF PartsLie
    <3>18. tail_len' = n + 2 + g + l
      <4>1. (n + 2 + g) + l + (tail_len - tail_len) = n + 2 + g + l
        BY <2>2, <2>3, <3>7
      <4>2. QED
        BY <2>1, <2>5, <3>9, <4>1
    <3>19. tail_len' = Len(o.name) + 2 + Len(Flat(o)) + Len(o.note)
      BY <2>1, <3>4, <3>5, <3>6, <3>18
    <3>20. QED
      BY <2>5, <3>3, <3>4, <3>17, <3>19, HoldsAgain
  <2>8. QED
    BY <2>6, <2>7
<1>3. QED
  BY <1>1, <1>2 DEF DT!SetNote, DT!Reject

\* Bytes written over the first ones.
Overwrites(S, c, d, new) ==
  /\ c \in Seq(S) /\ new \in Seq(S) /\ Len(new) <= Len(c)
  /\ d = new \o SubSeq(c, Len(new) + 1, Len(c))

\* What is written over the first bytes lies there, and the length stays.
LEMMA Overwritten ==
  ASSUME NEW S, NEW c, NEW d, NEW new, Overwrites(S, c, d, new)
  PROVE  d \in Seq(S) /\ Len(d) = Len(c) /\ Lies(d, 0, new)
<1>0. c \in Seq(S) /\ new \in Seq(S)
  BY DEF Overwrites
<1>1. PICK k, w, v : k = Len(new) /\ w = Len(c) /\ v = k + 1
  OBVIOUS
<1>2. k \in Nat /\ w \in Nat /\ k <= w
  BY <1>0, <1>1, LenProperties DEF Overwrites
<1>3. v \in Nat /\ v > 0 /\ (IF v <= w THEN w - v + 1 ELSE 0) = w - k /\ k + (w - k) = w
  BY <1>1, <1>2
<1>4. PICK r : r = SubSeq(c, v, w) /\ r \in Seq(S) /\ Len(r) = w - k
  <2>1. SubSeq(c, v, w) \in Seq(S) /\ Len(SubSeq(c, v, w)) = IF v <= w THEN w - v + 1 ELSE 0
    <3>1. w <= Len(c)
      BY <1>1, <1>2
    <3>2. QED
      BY <1>0, <1>2, <1>3, <3>1, Slice
  <2>2. QED
    BY <1>3, <2>1
<1>5. d = new \o r
  BY <1>1, <1>4 DEF Overwrites
<1>6. d \in Seq(S) /\ Len(d) = w
  <2>1. new \o r \in Seq(S) /\ Len(new \o r) = Len(new) + Len(r)
    BY <1>0, <1>4, JoinedTyped
  <2>2. QED
    BY <1>1, <1>3, <1>4, <1>5, <2>1
<1>7. Lies(d, 0, new)
  <2>1. Lies(d, 0, d)
    BY <1>6, LiesSelf
  <2>2. LiesInTwo(d, 0, new, r)
    BY <1>0, <1>4, <1>6, LiesJoined
  <2>3. QED
    BY <1>5, <2>1, <2>2 DEF LiesInTwo
<1>8. QED
  BY <1>1, <1>6, <1>7

\* What the first bytes are lies there.
LEMMA LiesFirst ==
  ASSUME NEW S, NEW s, NEW x, s \in Seq(S), x \in Seq(S), Len(x) <= Len(s),
         SubSeq(s, 1, Len(x)) = x
  PROVE  Lies(s, 0, x)
<1>1. PICK k : k = Len(x)
  OBVIOUS
<1>2. k \in Nat /\ 1 \in Nat /\ 1 > 0 /\ k <= Len(s) /\ Len(s) \in Nat
  BY <1>1, LenProperties
<1>3. \A i \in 1 .. k - 1 + 1 : SubSeq(s, 1, k)[i] = s[1 + i - 1]
  BY <1>2, Slice
<1>4. \A i \in 1 .. k : i \in 1 .. k - 1 + 1 /\ 1 + i - 1 = 0 + i
  BY <1>2
<1>5. \A i \in 1 .. k : s[0 + i] = x[i]
  BY <1>1, <1>3, <1>4
<1>6. 0 + k <= Len(s)
  BY <1>2
<1>7. QED
  BY <1>1, <1>5, <1>6 DEF Lies

\* What a refused write encodes fits the account.
LEMMA WrittenFits ==
  ASSUME DT!DynamicTailAssumption, TailTyped, NEW r \in DT!Record
  PROVE  DT!WrittenBefore(r) \in Seq(DT!Byte) /\ Len(DT!WrittenBefore(r)) <= Len(tail_cells)
<1>1. PICK head, h, w : /\ head = Lead(r) \o Flat(r) /\ h = Len(head) /\ w = Len(tail_cells)
  OBVIOUS
<1>2. head \in Seq(DT!Byte)
  BY <1>1, EncodedIs, JoinedTyped
<1>3. h \in Nat /\ w \in Nat
  BY <1>1, <1>2, LenProperties DEF TailTyped
<1>4. PICK u : u = DT!Min({w, h})
  OBVIOUS
<1>5. u \in Nat /\ u <= w /\ u <= h
  <2>1. \E y \in {w, h} : \A z \in {w, h} : y <= z
    BY <1>3
  <2>2. u \in {w, h} /\ \A z \in {w, h} : u <= z
    BY <1>4, <2>1 DEF DT!Min
  <2>3. QED
    BY <1>3, <2>2
<1>6. DT!WrittenBefore(r) = <<>> \/ DT!WrittenBefore(r) = SubSeq(head, 1, u)
  BY <1>1, <1>4 DEF DT!WrittenBefore, DT!Room, Lead, NameSlot, Flat
<1>7. <<>> \in Seq(DT!Byte) /\ Len(<<>>) = 0 /\ 0 <= w
  BY <1>3
<1>8. SubSeq(head, 1, u) \in Seq(DT!Byte) /\ Len(SubSeq(head, 1, u)) <= w
  <2>1. 1 \in Nat /\ 1 > 0 /\ u <= Len(head)
    BY <1>1, <1>5
  <2>2. /\ SubSeq(head, 1, u) \in Seq(DT!Byte)
        /\ Len(SubSeq(head, 1, u)) = IF 1 <= u THEN u - 1 + 1 ELSE 0
    BY <1>2, <1>5, <2>1, Slice
  <2>3. QED
    BY <1>3, <1>5, <2>2
<1>9. QED
  BY <1>1, <1>6, <1>7, <1>8

\* tail_write: a record that fits is there; one that does not may have hit the
\* record that was, and is forgotten then.
LEMMA TailWriteKeeps ==
  ASSUME DT!DynamicTailAssumption, TailInv, NEW r \in DT!Record, DT!TailWrite(r)
  PROVE  TailInv'
<1>1. PICK e, c, d, w : /\ e = DT!Encoded(r) /\ c = tail_cells /\ d = tail_cells' /\ w = Len(tail_cells)
  OBVIOUS
<1>2. /\ TailTyped /\ c \in Seq(DT!Byte) /\ w \in Nat /\ w <= MaxRoom /\ MaxRoom \in Nat
      /\ tail_len \in 0 .. MaxRoom
  BY <1>1, LenProperties DEF TailInv, TailTyped, DT!DynamicTailAssumption
<1>3. e \in Seq(DT!Byte) /\ Len(e) \in Nat
  BY <1>1, EncodedIs, LenProperties
<1>4. CASE Len(e) <= w
  <2>1. d = e \o SubSeq(c, Len(e) + 1, w) /\ tail_len' = Len(e) /\ tail_stored' = r
    BY <1>1, <1>4 DEF DT!TailWrite, DT!Room
  <2>2. d \in Seq(DT!Byte) /\ Len(d) = w /\ Lies(d, 0, e)
    <3>1. w = Len(c)
      BY <1>1
    <3>2. d \in Seq(DT!Byte) /\ Len(d) = Len(c) /\ Lies(d, 0, e)
      <4>1. Overwrites(DT!Byte, c, d, e)
        BY <1>2, <1>3, <1>4, <2>1, <3>1 DEF Overwrites
      <4>2. QED
        BY <4>1, Overwritten
    <3>3. QED
      BY <3>1, <3>2
  <2>3. TailTyped' /\ DT!Readable'
    BY <1>1, <1>2, <1>3, <1>4, <2>1, <2>2 DEF TailTyped, DT!Readable, DT!Room
  <2>4. TailHolds(tail_stored)'
    BY <1>1, <2>1, <2>2, <2>3 DEF TailHolds
  <2>5. QED
    BY <2>1, <2>3, <2>4 DEF TailInv
<1>5. CASE ~(Len(e) <= w)
  <2>1. PICK new : new = DT!WrittenBefore(r)
    OBVIOUS
  <2>2. /\ d = new \o SubSeq(c, Len(new) + 1, w) /\ tail_len' = tail_len
        /\ tail_stored' = IF DT!Readable /\ SubSeq(tail_cells', 1, tail_len) = DT!TailPayload
                            THEN tail_stored ELSE Lost
    BY <1>1, <1>5, <2>1 DEF DT!TailWrite, DT!Room
  <2>3. new \in Seq(DT!Byte) /\ Len(new) <= w
    BY <1>1, <1>2, <2>1, WrittenFits
  <2>4. d \in Seq(DT!Byte) /\ Len(d) = w
    <3>1. Overwrites(DT!Byte, c, d, new)
      BY <1>1, <1>2, <2>2, <2>3 DEF Overwrites
    <3>2. QED
      BY <1>1, <3>1, Overwritten
  <2>5. TailTyped'
    BY <1>1, <1>2, <2>2, <2>4 DEF TailTyped
  <2>6. CASE tail_stored' = Lost
    BY <2>5, <2>6, LostAgain
  <2>7. CASE tail_stored' # Lost
    <3>1. /\ DT!Readable /\ SubSeq(d, 1, tail_len) = DT!TailPayload
          /\ tail_stored' = tail_stored /\ tail_stored # Lost
      BY <1>1, <2>2, <2>7
    <3>2. PICK o : o = tail_stored
      OBVIOUS
    <3>3. TailHolds(o) /\ o \in DT!Record
      BY <3>1, <3>2 DEF TailInv
    <3>4. PICK x : x = DT!Encoded(o)
      OBVIOUS
    <3>5. x \in Seq(DT!Byte) /\ tail_len = Len(x) /\ tail_len <= w
      BY <1>1, <3>3, <3>4, EncodedIs DEF TailHolds, DT!Readable, DT!Room
    <3>6. SubSeq(d, 1, Len(x)) = x
      BY <3>1, <3>3, <3>4, <3>5, TailDecodes
    <3>7. Lies(d, 0, x)
      BY <2>4, <3>5, <3>6, LiesFirst
    <3>8. DT!Readable'
      BY <1>1, <2>2, <2>4, <3>5 DEF DT!Readable, DT!Room
    <3>9. TailHolds(tail_stored)'
      BY <1>1, <2>2, <2>4, <3>1, <3>2, <3>3, <3>4, <3>5, <3>7, <3>8 DEF TailHolds
    <3>10. QED
      BY <2>5, <3>1, <3>2, <3>3, <3>9 DEF TailInv
  <2>8. QED
    BY <2>6, <2>7
<1>6. QED
  BY <1>4, <1>5

\* Resizing the account keeps the bytes in use, or cuts them and loses them.
LEMMA ResizeKeeps ==
  ASSUME DT!DynamicTailAssumption, TailInv, NEW n \in 0 .. MaxRoom, DT!Resize(n)
  PROVE  TailInv'
<1>1. PICK c, d, w : c = tail_cells /\ d = tail_cells' /\ w = Len(tail_cells)
  OBVIOUS
<1>2. /\ c \in Seq(DT!Byte) /\ w \in Nat /\ MaxRoom \in Nat /\ n \in Nat /\ n <= MaxRoom
      /\ tail_len \in 0 .. MaxRoom
  BY <1>1, LenProperties DEF TailInv, TailTyped, DT!DynamicTailAssumption
<1>3. d = [i \in 1 .. n |-> IF i <= w THEN c[i] ELSE 0] /\ tail_len' = tail_len
  BY <1>1 DEF DT!Resize, DT!Room
<1>4. d \in Seq(DT!Byte) /\ Len(d) = n
  <2>1. ASSUME NEW i \in 1 .. n PROVE (IF i <= w THEN c[i] ELSE 0) \in DT!Byte
    <3>1. i <= w => c[i] \in DT!Byte
      <4>1. i <= w => i \in 1 .. Len(c)
        BY <1>1, <1>2
      <4>2. QED
        BY <1>2, <4>1, ElementOfSeq
    <3>2. 0 \in DT!Byte
      BY DEF DT!Byte
    <3>3. QED
      BY <3>1, <3>2
  <2>2. d \in [1 .. n -> DT!Byte]
    BY <1>3, <2>1
  <2>3. d \in Seq(DT!Byte)
    BY <1>2, <2>2, SeqDef
  <2>4. Len(d) = n
    <3>1. DOMAIN d = 1 .. n /\ DOMAIN d = 1 .. Len(d) /\ Len(d) \in Nat
      BY <2>2, <2>3, LenProperties
    <3>2. 1 .. Len(d) = 1 .. n
      BY <3>1
    <3>3. QED
      BY <1>2, <3>1, <3>2, SameLength
  <2>5. QED
    BY <2>3, <2>4
<1>5. TailTyped'
  BY <1>1, <1>2, <1>3, <1>4 DEF TailTyped
<1>6. tail_stored' = IF n < tail_len THEN Lost ELSE tail_stored
  BY DEF DT!Resize
<1>7. CASE tail_stored' = Lost
  BY <1>5, <1>7, LostAgain
<1>8. CASE tail_stored' # Lost
  <2>1. tail_len <= n /\ tail_stored' = tail_stored /\ tail_stored # Lost
    BY <1>2, <1>6, <1>8
  <2>2. PICK r : r = tail_stored
    OBVIOUS
  <2>3. TailHolds(r) /\ r \in DT!Record
    BY <2>1, <2>2 DEF TailInv
  <2>4. PICK x : x = DT!Encoded(r)
    OBVIOUS
  <2>5. x \in Seq(DT!Byte) /\ tail_len = Len(x) /\ Lies(c, 0, x)
    BY <1>1, <2>3, <2>4, EncodedIs DEF TailHolds
  <2>6. Lies(d, 0, x)
    <3>1. PICK l : l = Len(x)
      OBVIOUS
    <3>2. l \in Nat /\ l <= n /\ l <= w
      BY <1>1, <2>1, <2>3, <2>5, <3>1, LenProperties DEF TailHolds, DT!Readable, DT!Room
    <3>3. ASSUME NEW j \in 1 .. l PROVE d[0 + j] = x[j]
      <4>1. 0 + j = j /\ j \in 1 .. n /\ j <= w
        BY <1>2, <3>2
      <4>2. c[0 + j] = x[j]
        BY <2>5, <3>1 DEF Lies
      <4>3. d[j] = c[j]
        BY <1>3, <4>1
      <4>4. QED
        BY <4>1, <4>2, <4>3
    <3>4. 0 + l <= n
      BY <1>2, <3>2
    <3>5. QED
      BY <1>4, <3>1, <3>3, <3>4 DEF Lies
  <2>7. DT!Readable'
    BY <1>1, <1>3, <1>4, <2>1 DEF DT!Readable, DT!Room
  <2>8. TailHolds(tail_stored)'
    BY <1>1, <1>3, <1>4, <2>1, <2>2, <2>3, <2>4, <2>5, <2>6, <2>7 DEF TailHolds
  <2>9. QED
    BY <1>5, <2>1, <2>2, <2>3, <2>8 DEF TailInv
<1>9. QED
  BY <1>7, <1>8

\* A fresh account keeps no record.
LEMMA TailInvInit ==
  ASSUME DT!DynamicTailAssumption, DT!Init
  PROVE  TailInv
<1>1. PICK n \in 0 .. MaxRoom : tail_cells = [i \in 1 .. n |-> 0]
  BY DEF DT!Init
<1>2. MaxRoom \in Nat /\ n \in Nat /\ n <= MaxRoom /\ 0 \in DT!Byte
  BY DEF DT!DynamicTailAssumption, DT!Byte
<1>3. PICK d : d = tail_cells
  OBVIOUS
<1>4. d \in [1 .. n -> DT!Byte]
  BY <1>1, <1>2, <1>3
<1>5. d \in Seq(DT!Byte)
  BY <1>2, <1>4, SeqDef
<1>6. Len(d) = n
  <2>1. DOMAIN d = 1 .. n /\ DOMAIN d = 1 .. Len(d) /\ Len(d) \in Nat
    BY <1>4, <1>5, LenProperties
  <2>2. 1 .. Len(d) = 1 .. n
    BY <2>1
  <2>3. QED
    BY <1>2, <2>1, <2>2, SameLength
<1>7. TailTyped
  BY <1>2, <1>3, <1>5, <1>6 DEF DT!Init, TailTyped
<1>8. QED
  BY <1>7 DEF DT!Init, TailInv

\* Every step keeps the invariant.
LEMMA TailInvStep ==
  ASSUME DT!DynamicTailAssumption, TailInv, [DT!Next]_DT!vars
  PROVE  TailInv'
<1>1. CASE UNCHANGED DT!vars
  BY <1>1, TailKept
<1>2. CASE DT!Next
  BY <1>2, SetNameKeeps, PushMemberKeeps, PushUniqueMemberKeeps, RemoveMemberKeeps,
     SetNoteKeeps, TailWriteKeeps, ResizeKeeps DEF DT!Next
<1>3. QED
  BY <1>1, <1>2

\* The invariant gives the type, and what is read is the record stored.
LEMMA TailInvGives ==
  ASSUME DT!DynamicTailAssumption, TailInv
  PROVE  DT!TypeOK /\ DT!ReadsBack
<1>1. DT!TypeOK
  BY DEF TailInv, TailTyped, DT!TypeOK, DT!Room
<1>2. ASSUME tail_stored # Lost PROVE DT!TailRead = tail_stored
  <2>1. PICK r : r = tail_stored
    OBVIOUS
  <2>2. TailHolds(r)
    BY <1>2, <2>1 DEF TailInv
  <2>3. DT!TailRead = r
    BY <2>2, TailDecodes
  <2>4. QED
    BY <2>1, <2>3
<1>3. QED
  BY <1>1, <1>2 DEF DT!ReadsBack

\* The tail has its type, and reads back, field by field, the record that the
\* accepted calls have made of it: a setter that changes the length of its field
\* moves what lies behind it, one that is refused leaves all as it was
\* (replace_tail_field, tail_write and the accessors of dynamic_account).
THEOREM TailReadsBack ==
  ASSUME DT!DynamicTailAssumption
  PROVE  DT!Spec => [](DT!TypeOK /\ DT!ReadsBack)
<1>1. DT!Init => TailInv
  BY TailInvInit
<1>2. TailInv /\ [DT!Next]_DT!vars => TailInv'
  BY TailInvStep
<1>3. TailInv => DT!TypeOK /\ DT!ReadsBack
  BY TailInvGives
<1>4. QED
  BY <1>1, <1>2, <1>3, PTL DEF DT!Spec
=============================================================================
