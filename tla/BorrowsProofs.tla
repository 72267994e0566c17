---------------------------- MODULE BorrowsProofs ----------------------------
(***************************************************************************)
(* Proofs about the two systems of MCBorrows.                              *)
(*                                                                         *)
(* AccountBorrow: for every set of guards, cells, threads and addresses,   *)
(* every registry capacity and every width of the borrow byte.  The native *)
(* half of the inductive invariant speaks of the byte and the live guards, *)
(* the registry half of the entries and the tokens; no action disturbs     *)
(* both.                                                                   *)
(*                                                                         *)
(* LoaderInput: for every word, header and data length, every number of    *)
(* records and every bound.  A walk is shown to be, record for record, the *)
(* layout the loader wrote; the inductive invariant says that the bytes a  *)
(* walk has not reached yet are the loader's, and that those behind it are *)
(* measured from entry, whatever handlers have changed meanwhile.          *)
(***************************************************************************)
EXTENDS AccountBorrow, LoaderInput, WellFoundedInduction, TLAPS, FiniteSetTheorems, SequenceTheorems

\* The reader count keeps clear of the sentinel.
ReaderRoom == \A c \in Cell : Cardinality(LiveOn(c, "shared")) < NOT_BORROWED

\* Two live guards of one cell are both shared.
CellExclusive ==
  \A g, h \in Live : g # h /\ guards[g].cell = guards[h].cell =>
    guards[g].access = "shared" /\ guards[h].access = "shared"

\* Two tokens of one address are both shared, live or in transit.
TokenExclusive ==
  ~SBF => \A g, h \in Used :
    g # h /\ AddressOf[guards[g].cell] = AddressOf[guards[h].cell] =>
      guards[g].access = "shared" /\ guards[h].access = "shared"

NativeInv   == ByteCountsGuards /\ ReaderRoom /\ CellExclusive
RegistryInv == RegistryCountsTokens /\ TokenExclusive

IInv == TypeOK /\ NativeInv /\ RegistryInv

-----------------------------------------------------------------------------
\* A used guard is a guard with a cell, an access and a phase.
LEMMA GuardFacts ==
  ASSUME TypeOK, NEW g \in Used
  PROVE  /\ g \in Guard /\ guards[g] # Unused
         /\ guards[g].cell \in Cell /\ guards[g].access \in Access
         /\ guards[g].phase \in Phase
         /\ guards[g] = At(guards[g].phase, guards[g].cell, guards[g].access)
         /\ AddressOf[guards[g].cell] \in Address
<1>1. g \in Guard /\ guards[g] # Unused
  BY DEF Used
<1>2. guards[g] \in [phase : Phase, cell : Cell, access : Access]
  BY <1>1 DEF TypeOK
<1>3. QED
  BY <1>1, <1>2, AccountBorrowAssumption DEF At

\* A record with a phase of Phase is not the unused one.
LEMMA PhaseUsed ==
  ASSUME NEW ph \in Phase, NEW c, NEW access
  PROVE  At(ph, c, access) # Unused
<1>1. At(ph, c, access).phase = ph /\ Unused.phase = "unused"
  BY DEF At, Unused
<1>2. ph # "unused"
  BY DEF Phase
<1>3. QED
  BY <1>1, <1>2

\* The guards are finitely many, so is every set of them that is counted.
LEMMA CountsFinite ==
  /\ \A c, access : IsFiniteSet(LiveOn(c, access))
  /\ \A address, access : IsFiniteSet(TokensOf(address, access))
<1>1. /\ \A c, access : LiveOn(c, access) \subseteq Guard
      /\ \A address, access : TokensOf(address, access) \subseteq Guard
  BY DEF LiveOn, TokensOf, Live, Used
<1>2. QED
  BY <1>1, FS_Subset, AccountBorrowAssumption

\* A non-empty set of naturals has a least element.
LEMMA LeastElement ==
  ASSUME NEW T, T \subseteq Nat, T # {}
  PROVE  \E x \in T : \A y \in T : x <= y
<1>1. PICK x \in T : \A y \in T : <<y, x>> \notin OpToRel(<, Nat)
  BY NatLessThanWellFounded, WFMin
<1>2. ASSUME NEW y \in T PROVE x <= y
  <2>1. <<y, x>> \notin OpToRel(<, Nat) /\ x \in Nat /\ y \in Nat
    BY <1>1
  <2>2. QED
    BY <2>1 DEF OpToRel
<1>3. QED
  BY <1>2

\* The least index of a non-empty set of slots belongs to it.
LEMMA MinOfSlots ==
  ASSUME NEW T, T \subseteq Slot, T # {}
  PROVE  Min(T) \in T
<1>1. T \subseteq Nat
  BY AccountBorrowAssumption DEF Slot
<1>2. \E x \in T : \A y \in T : x <= y
  BY <1>1, LeastElement
<1>3. QED
  BY <1>2 DEF Min

-----------------------------------------------------------------------------
(* The native half *)

\* How a step that changes the phase of one guard changes the live sets.
LEMMA LiveSetsChange ==
  ASSUME TypeOK, TypeOK', NEW g \in Guard,
         \A h \in Guard \ {g} : guards'[h] = guards[h]
  PROVE  /\ \A h \in Guard \ {g} : h \in Live' <=> h \in Live
         /\ \A c, access :
              LiveOn(c, access)' =
                IF g \in Live' /\ guards'[g].cell = c /\ guards'[g].access = access
                  THEN (LiveOn(c, access) \ {g}) \cup {g}
                  ELSE LiveOn(c, access) \ {g}
<1>1. \A h \in Guard \ {g} : h \in Live' <=> h \in Live
  BY DEF Live, Used
<1>2. Live \subseteq Guard /\ Live' \subseteq Guard
  BY DEF Live, Used
<1>3. ASSUME NEW c, NEW access
      PROVE  LiveOn(c, access)' =
                IF g \in Live' /\ guards'[g].cell = c /\ guards'[g].access = access
                  THEN (LiveOn(c, access) \ {g}) \cup {g}
                  ELSE LiveOn(c, access) \ {g}
  BY <1>1, <1>2 DEF LiveOn
<1>4. QED
  BY <1>1, <1>3

\* A step that leaves the bytes and the live guards alone keeps the native half.
LEMMA NativeUntouched ==
  ASSUME TypeOK, TypeOK', NativeInv, NEW g \in Guard,
         \A h \in Guard \ {g} : guards'[h] = guards[h],
         g \notin Live, g \notin Live', borrow_state' = borrow_state
  PROVE  NativeInv'
<1>1. \A h \in Guard : h \in Live' <=> h \in Live
  BY LiveSetsChange
<1>2. Live' = Live
  BY <1>1 DEF Live, Used
<1>3. \A c, access : LiveOn(c, access)' = LiveOn(c, access)
  BY <1>2, LiveSetsChange DEF LiveOn
<1>4. ByteCountsGuards' /\ ReaderRoom'
  BY <1>3 DEF NativeInv, ByteCountsGuards, ReaderRoom
<1>5. CellExclusive'
  <2>1. \A h \in Live : h \in Guard \ {g}
    BY DEF Live, Used
  <2>2. QED
    BY <1>2, <2>1 DEF NativeInv, CellExclusive
<1>6. QED
  BY <1>4, <1>5 DEF NativeInv

\* A granted native borrow is counted by the byte and conflicts with no live guard.
LEMMA NativeBorrowPreserves ==
  ASSUME TypeOK, TypeOK', NativeInv, NEW g \in Guard, NativeBorrow(g)
  PROVE  NativeInv'
<1> USE AccountBorrowAssumption
<1> DEFINE c == guards[g].cell
           access == guards[g].access
<1>1. g \in Used /\ guards[g].phase = "backend" /\ c \in Cell /\ access \in Access
  BY GuardFacts DEF NativeBorrow
<1>2. /\ guards'[g].phase = "live" /\ guards'[g].cell = c /\ guards'[g].access = access
      /\ \A h \in Guard \ {g} : guards'[h] = guards[h]
  BY <1>1 DEF NativeBorrow, TypeOK
<1>3. g \notin Live /\ g \in Live'
  BY <1>1, <1>2 DEF Live, Used, Unused
<1>4. \A d, acc : LiveOn(d, acc)' = IF d = c /\ acc = access THEN LiveOn(d, acc) \cup {g}
                                                              ELSE LiveOn(d, acc)
  <2>1. \A d, acc : g \notin LiveOn(d, acc)
    BY <1>3 DEF LiveOn
  <2>2. \A d, acc : LiveOn(d, acc)' = IF d = c /\ acc = access
                                        THEN (LiveOn(d, acc) \ {g}) \cup {g}
                                        ELSE LiveOn(d, acc) \ {g}
    <3>1. \A d, acc :
            LiveOn(d, acc)' =
              IF g \in Live' /\ guards'[g].cell = d /\ guards'[g].access = acc
                THEN (LiveOn(d, acc) \ {g}) \cup {g}
                ELSE LiveOn(d, acc) \ {g}
      BY <1>2, LiveSetsChange
    <3>2. QED
      BY <1>2, <1>3, <3>1, Zenon
  <2>3. QED
    BY <2>1, <2>2
<1>5. /\ borrow_state'[c] = Borrowed(borrow_state[c], access)
      /\ \A d \in Cell \ {c} : borrow_state'[d] = borrow_state[d]
      /\ NativeGrants(c, access)
      /\ borrow_state[c] \in 0 .. NOT_BORROWED
  BY <1>1 DEF NativeBorrow, TypeOK
<1>6. LiveOn(c, "mutable") = {}
  BY <1>1, <1>5 DEF NativeInv, ByteCountsGuards, NativeGrants, NativeAllows, Access
<1>7. access = "mutable" => LiveOn(c, "shared") = {}
  <2>1. SUFFICES ASSUME access = "mutable", LiveOn(c, "shared") # {} PROVE FALSE
    OBVIOUS
  <2>2. borrow_state[c] = NOT_BORROWED
    BY <1>5, <2>1 DEF NativeGrants, NativeAllows
  <2>3. borrow_state[c] = Cardinality(LiveOn(c, "shared"))
    BY <1>1, <1>6, <2>1 DEF NativeInv, ByteCountsGuards
  <2>4. Cardinality(LiveOn(c, "shared")) < NOT_BORROWED
    BY <1>1 DEF NativeInv, ReaderRoom
  <2>5. QED
    BY <2>2, <2>3, <2>4
<1>8. Cardinality(LiveOn(c, "shared") \cup {g}) = Cardinality(LiveOn(c, "shared")) + 1
  <2>1. g \notin LiveOn(c, "shared")
    BY <1>3 DEF LiveOn
  <2>2. QED
    BY <2>1, CountsFinite, FS_AddElement
<1>9. ASSUME NEW d \in Cell
      PROVE  /\ borrow_state'[d] = IF LiveOn(d, "mutable")' # {} THEN 0
                                   ELSE IF LiveOn(d, "shared")' = {} THEN NOT_BORROWED
                                   ELSE Cardinality(LiveOn(d, "shared")')
             /\ Cardinality(LiveOn(d, "shared")') < NOT_BORROWED
  <2>1. CASE d # c
    BY <1>4, <1>5, <2>1 DEF NativeInv, ByteCountsGuards, ReaderRoom
  <2>2. CASE d = c /\ access = "mutable"
    <3>1. LiveOn(d, "mutable")' # {} /\ LiveOn(d, "shared")' = {}
      BY <1>4, <1>7, <2>2
    <3>2. borrow_state'[d] = 0
      BY <1>5, <2>2 DEF Borrowed
    <3>3. Cardinality(LiveOn(d, "shared")') = 0
      BY <3>1, FS_EmptySet
    <3>4. QED
      BY <3>1, <3>2, <3>3
  <2>3. CASE d = c /\ access = "shared"
    <3>1. LiveOn(d, "mutable")' = {} /\ LiveOn(d, "shared")' = LiveOn(c, "shared") \cup {g}
      BY <1>4, <1>6, <2>3
    <3>2. borrow_state'[c] = (IF borrow_state[c] = NOT_BORROWED THEN 1 ELSE borrow_state[c] + 1)
      BY <1>5, <2>3 DEF Borrowed
    <3>3. borrow_state[c] # 0 /\ borrow_state[c] + 1 # NOT_BORROWED
      BY <1>5, <2>3 DEF NativeGrants, NativeAllows
    <3>4. borrow_state'[c] = Cardinality(LiveOn(c, "shared")) + 1
      <4>1. CASE LiveOn(c, "shared") = {}
        <5>1. Cardinality(LiveOn(c, "shared")) = 0 /\ borrow_state[c] = NOT_BORROWED
          BY <1>1, <1>6, <4>1, FS_EmptySet DEF NativeInv, ByteCountsGuards
        <5>2. QED
          BY <3>2, <5>1
      <4>2. CASE LiveOn(c, "shared") # {}
        <5>1. /\ borrow_state[c] = Cardinality(LiveOn(c, "shared"))
              /\ Cardinality(LiveOn(c, "shared")) < NOT_BORROWED
          BY <1>1, <1>6, <4>2 DEF NativeInv, ByteCountsGuards, ReaderRoom
        <5>2. QED
          BY <1>5, <3>2, <5>1
      <4>3. QED
        BY <4>1, <4>2
    <3>5. borrow_state'[c] < NOT_BORROWED
      BY <1>5, <3>2, <3>3
    <3>6. LiveOn(d, "shared")' # {} /\ borrow_state'[d] = Cardinality(LiveOn(d, "shared")')
      BY <1>8, <2>3, <3>1, <3>4
    <3>7. QED
      BY <2>3, <3>1, <3>5, <3>6
  <2>4. QED
    BY <1>1, <2>1, <2>2, <2>3 DEF Access
<1>10. CellExclusive'
  <2>1. SUFFICES ASSUME NEW h \in Live', NEW k \in Live', h # k,
                        guards'[h].cell = guards'[k].cell
                 PROVE  guards'[h].access = "shared" /\ guards'[k].access = "shared"
    BY DEF CellExclusive
  <2>2. \A j \in Live' : j \in Guard /\ (j # g => j \in Live /\ guards'[j] = guards[j])
    BY <1>2, LiveSetsChange DEF Live, Used
  <2>3. ASSUME NEW j \in Live, guards[j].cell = c
        PROVE  guards[j].access = "shared" /\ access = "shared"
    <3>1. j \in Used /\ guards[j].access \in Access
      BY GuardFacts DEF Live
    <3>2. j \in LiveOn(c, guards[j].access)
      BY <2>3, <3>1 DEF LiveOn
    <3>3. QED
      BY <1>1, <1>6, <1>7, <3>1, <3>2 DEF Access
  <2>4. CASE h = g
    BY <1>2, <2>1, <2>2, <2>3, <2>4
  <2>5. CASE k = g
    BY <1>2, <2>1, <2>2, <2>3, <2>5
  <2>6. CASE h # g /\ k # g
    BY <2>1, <2>2, <2>6 DEF NativeInv, CellExclusive
  <2>7. QED
    BY <2>4, <2>5, <2>6
<1>11. QED
  BY <1>9, <1>10 DEF NativeInv, ByteCountsGuards, ReaderRoom

\* Dropping a guard restores the byte to the count of the guards left.
LEMMA DropNativePreserves ==
  ASSUME TypeOK, TypeOK', NativeInv, NEW g \in Guard, DropNative(g)
  PROVE  NativeInv'
<1> USE AccountBorrowAssumption
<1> DEFINE c == guards[g].cell
           access == guards[g].access
<1>1. g \in Live /\ g \in Used /\ c \in Cell /\ access \in Access
  BY GuardFacts DEF DropNative, Live
<1>2. /\ guards'[g].phase = "token"
      /\ \A h \in Guard \ {g} : guards'[h] = guards[h]
  BY <1>1 DEF DropNative, TypeOK
<1>3. g \notin Live'
  BY <1>2 DEF Live
<1>4. \A d, acc : LiveOn(d, acc)' = IF d = c /\ acc = access THEN LiveOn(d, acc) \ {g}
                                                              ELSE LiveOn(d, acc)
  <2>1. \A d, acc : g \in LiveOn(d, acc) => d = c /\ acc = access
    BY DEF LiveOn
  <2>2. QED
    BY <1>2, <1>3, <2>1, LiveSetsChange
<1>5. /\ borrow_state'[c] = Returned(borrow_state[c], access)
      /\ \A d \in Cell \ {c} : borrow_state'[d] = borrow_state[d]
  BY <1>1 DEF DropNative, TypeOK
<1>6. g \in LiveOn(c, access)
  BY <1>1 DEF LiveOn
<1>7. ASSUME NEW h \in Live, h # g, guards[h].cell = c
      PROVE  guards[h].access = "shared" /\ access = "shared"
  BY <1>1, <1>7 DEF NativeInv, CellExclusive
<1>8. ASSUME NEW d \in Cell
      PROVE  /\ borrow_state'[d] = IF LiveOn(d, "mutable")' # {} THEN 0
                                   ELSE IF LiveOn(d, "shared")' = {} THEN NOT_BORROWED
                                   ELSE Cardinality(LiveOn(d, "shared")')
             /\ Cardinality(LiveOn(d, "shared")') < NOT_BORROWED
  <2>1. CASE d # c
    BY <1>4, <1>5, <2>1 DEF NativeInv, ByteCountsGuards, ReaderRoom
  <2>2. CASE d = c /\ access = "mutable"
    <3>a. \A h \in Live : guards[h].cell = c => h = g
      BY <1>7, <2>2
    <3>b. LiveOn(c, "mutable") \ {g} = {} /\ LiveOn(c, "shared") = {}
      BY <3>a, <2>2 DEF LiveOn
    <3>1. LiveOn(d, "mutable")' = {} /\ LiveOn(d, "shared")' = {}
      BY <1>4, <3>b, <2>2
    <3>2. borrow_state'[d] = NOT_BORROWED
      BY <1>5, <2>2 DEF Returned
    <3>3. Cardinality(LiveOn(d, "shared")') = 0
      BY <3>1, FS_EmptySet
    <3>4. QED
      BY <3>1, <3>2, <3>3
  <2>3. CASE d = c /\ access = "shared"
    <3>1. LiveOn(c, "mutable") = {}
      <4>1. ASSUME NEW h \in LiveOn(c, "mutable") PROVE FALSE
        <5>1. h \in Live /\ guards[h].cell = c /\ guards[h].access = "mutable"
          BY DEF LiveOn
        <5>2. h # g
          BY <2>3, <5>1
        <5>3. QED
          BY <1>7, <5>1, <5>2
      <4>2. QED
        BY <4>1
    <3>2. LiveOn(d, "mutable")' = {} /\ LiveOn(d, "shared")' = LiveOn(c, "shared") \ {g}
      BY <1>4, <2>3, <3>1
    <3>3. /\ borrow_state[c] = Cardinality(LiveOn(c, "shared"))
          /\ Cardinality(LiveOn(c, "shared")) < NOT_BORROWED
      BY <1>1, <1>6, <2>3, <3>1 DEF NativeInv, ByteCountsGuards, ReaderRoom
    <3>4. /\ Cardinality(LiveOn(c, "shared") \ {g}) = Cardinality(LiveOn(c, "shared")) - 1
          /\ Cardinality(LiveOn(c, "shared") \ {g}) \in Nat
          /\ IsFiniteSet(LiveOn(c, "shared") \ {g})
      BY <1>6, <2>3, CountsFinite, FS_RemoveElement, FS_CardinalityType
    <3>5. borrow_state'[c] = (IF borrow_state[c] = 1 THEN NOT_BORROWED ELSE borrow_state[c] - 1)
      BY <1>5, <2>3 DEF Returned
    <3>6. LiveOn(c, "shared") \ {g} = {} <=> Cardinality(LiveOn(c, "shared") \ {g}) = 0
      BY <3>4, FS_EmptySet
    <3>7. Cardinality(LiveOn(c, "shared")) \in Nat
      BY CountsFinite, FS_CardinalityType
    <3>8. Cardinality(LiveOn(d, "shared")') < NOT_BORROWED
      <4>1. Cardinality(LiveOn(c, "shared") \ {g}) < NOT_BORROWED
        BY <3>3, <3>4, <3>7
      <4>2. QED
        BY <3>2, <4>1
    <3>9. CASE LiveOn(c, "shared") \ {g} = {}
      <4>1. borrow_state[c] = 1
        BY <3>3, <3>4, <3>6, <3>7, <3>9
      <4>2. QED
        BY <2>3, <3>2, <3>5, <3>8, <3>9, <4>1
    <3>10. CASE LiveOn(c, "shared") \ {g} # {}
      <4>1. borrow_state'[c] = Cardinality(LiveOn(c, "shared") \ {g})
        BY <3>3, <3>4, <3>5, <3>6, <3>7, <3>10
      <4>2. QED
        BY <2>3, <3>2, <3>8, <3>10, <4>1
    <3>11. QED
      BY <3>9, <3>10
  <2>4. QED
    BY <1>1, <2>1, <2>2, <2>3 DEF Access
<1>9. CellExclusive'
  <2>1. \A j \in Live' : j \in Live /\ guards'[j] = guards[j]
    BY <1>2, <1>3, LiveSetsChange DEF Live, Used
  <2>2. QED
    BY <2>1 DEF NativeInv, CellExclusive
<1>10. QED
  BY <1>8, <1>9 DEF NativeInv, ByteCountsGuards, ReaderRoom

-----------------------------------------------------------------------------
(* The registry half *)

\* How a step that changes one guard changes the tokens.
LEMMA TokensChange ==
  ASSUME TypeOK, TypeOK', NEW g \in Guard,
         \A h \in Guard \ {g} : guards'[h] = guards[h]
  PROVE  /\ \A h \in Guard \ {g} : h \in Used' <=> h \in Used
         /\ \A a, access :
              TokensOf(a, access)' =
                IF g \in Used' /\ AddressOf[guards'[g].cell] = a /\ guards'[g].access = access
                  THEN (TokensOf(a, access) \ {g}) \cup {g}
                  ELSE TokensOf(a, access) \ {g}
<1>1. \A h \in Guard \ {g} : h \in Used' <=> h \in Used
  BY DEF Used
<1>2. Used \subseteq Guard /\ Used' \subseteq Guard
  BY DEF Used
<1>3. ASSUME NEW a, NEW access
      PROVE  TokensOf(a, access)' =
                IF g \in Used' /\ AddressOf[guards'[g].cell] = a /\ guards'[g].access = access
                  THEN (TokensOf(a, access) \ {g}) \cup {g}
                  ELSE TokensOf(a, access) \ {g}
  BY <1>1, <1>2 DEF TokensOf
<1>4. QED
  BY <1>1, <1>3

\* A step that moves a guard to another phase moves no token.
LEMMA RegistryUntouched ==
  ASSUME TypeOK, TypeOK', RegistryInv, NEW g \in Used, NEW ph \in Phase,
         guards' = [guards EXCEPT ![g].phase = ph], entries' = entries
  PROVE  RegistryInv'
<1>1. /\ \A h \in Guard \ {g} : guards'[h] = guards[h]
      /\ g \in Guard /\ guards'[g].cell = guards[g].cell /\ guards'[g].access = guards[g].access
      /\ guards'[g] = At(ph, guards[g].cell, guards[g].access)
  <2>1. g \in Guard /\ guards[g] = At(guards[g].phase, guards[g].cell, guards[g].access)
    BY GuardFacts DEF TypeOK, At, Used
  <2>2. guards'[g] = [guards[g] EXCEPT !.phase = ph] /\ \A h \in Guard \ {g} : guards'[h] = guards[h]
    BY <2>1 DEF TypeOK
  <2>3. guards'[g] = At(ph, guards[g].cell, guards[g].access)
    BY <2>1, <2>2 DEF At
  <2>4. QED
    BY <2>1, <2>2, <2>3 DEF At
<1>2. guards'[g] # Unused
  BY <1>1, PhaseUsed
<1>3. Used' = Used
  BY <1>1, <1>2 DEF Used
<1>4. \A h \in Used : guards'[h].cell = guards[h].cell /\ guards'[h].access = guards[h].access
  BY <1>1 DEF Used
<1>5. \A a, access : TokensOf(a, access)' = TokensOf(a, access)
  BY <1>3, <1>4 DEF TokensOf
<1>6. \A a : Find(a)' = Find(a)
  BY DEF Find
<1>7. RegistryCountsTokens'
  BY <1>5, <1>6 DEF RegistryInv, RegistryCountsTokens
<1>8. TokenExclusive'
  BY <1>3, <1>4 DEF RegistryInv, TokenExclusive
<1>9. QED
  BY <1>7, <1>8 DEF RegistryInv

\* Writing the entry of address a, in place or into an empty slot, is seen by
\* lookups of a and by no other.
LEMMA EntryWritten ==
  ASSUME TypeOK, NEW a \in Address, NEW i \in Slot, NEW st,
         InUse(entries[i]) => entries[i].address = a,
         Find(a) \subseteq {i},
         InUse(st) => st.address = a,
         entries' = [entries EXCEPT ![i] = st]
  PROVE  /\ \A b \in Address \ {a} :
              Find(b)' = Find(b) /\ \A j \in Find(b) : entries'[j] = entries[j]
         /\ Find(a)' = IF InUse(st) THEN {i} ELSE {}
         /\ entries'[i] = st
<1>1. /\ entries'[i] = st
      /\ \A j \in Slot \ {i} : entries'[j] = entries[j]
  BY DEF TypeOK
<1>2. ASSUME NEW b \in Address \ {a}
      PROVE  i \notin Find(b) /\ i \notin Find(b)'
  BY <1>1 DEF Find
<1>3. ASSUME NEW b \in Address \ {a}
      PROVE  Find(b)' = Find(b) /\ \A j \in Find(b) : entries'[j] = entries[j]
  <2>1. \A j \in Slot \ {i} : j \in Find(b)' <=> j \in Find(b)
    BY <1>1 DEF Find
  <2>2. Find(b) \subseteq Slot /\ Find(b)' \subseteq Slot
    BY DEF Find
  <2>3. QED
    BY <1>1, <1>2, <2>1, <2>2
<1>4. Find(a)' = IF InUse(st) THEN {i} ELSE {}
  <2>1. \A j \in Slot \ {i} : j \notin Find(a)'
    BY <1>1 DEF Find
  <2>2. i \in Find(a)' <=> InUse(st)
    BY <1>1 DEF Find
  <2>3. Find(a)' \subseteq Slot
    BY DEF Find
  <2>4. QED
    BY <2>1, <2>2, <2>3
<1>5. QED
  BY <1>1, <1>3, <1>4

\* What an entry means for one address: the predicate RegistryCountsTokens states.
CountsFor(a) ==
  /\ \A i, j \in Find(a) : i = j
  /\ Find(a) = {} => TokensOf(a, "shared") = {} /\ TokensOf(a, "mutable") = {}
  /\ \A i \in Find(a) :
       /\ entries[i].shared_count = Cardinality(TokensOf(a, "shared"))
       /\ entries[i].mutable <=> TokensOf(a, "mutable") # {}

LEMMA CountsForEach == RegistryCountsTokens <=> (~SBF => \A a \in Address : CountsFor(a))
  BY DEF RegistryCountsTokens, CountsFor

\* An address whose entry and tokens do not change keeps its count.
LEMMA CountsForKept ==
  ASSUME NEW b, CountsFor(b), Find(b)' = Find(b),
         \A j \in Find(b) : entries'[j] = entries[j],
         \A access \in Access : TokensOf(b, access)' = TokensOf(b, access)
  PROVE  CountsFor(b)'
  BY DEF CountsFor, Access

\* A registered token is counted by the entry of its address and conflicts with none.
LEMMA TakeTokenPreserves ==
  ASSUME TypeOK, TypeOK', RegistryInv,
         NEW g \in Guard, NEW c \in Cell, NEW access \in Access, TakeToken(g, c, access)
  PROVE  RegistryInv'
<1> USE AccountBorrowAssumption
<1> DEFINE a == AddressOf[c]
           i == EntryFor(a)
           st == Added(entries[i], a, access)
<1>1. /\ guards[g] = Unused /\ guards'[g] = At("backend", c, access)
      /\ \A h \in Guard \ {g} : guards'[h] = guards[h]
  BY DEF TakeToken, TypeOK
<1>2. g \notin Used /\ g \in Used' /\ a \in Address
      /\ guards'[g].cell = c /\ guards'[g].access = access
  BY <1>1, PhaseUsed DEF Used, Phase, At
<1>3. \A b, acc : TokensOf(b, acc)' = IF b = a /\ acc = access THEN TokensOf(b, acc) \cup {g}
                                                               ELSE TokensOf(b, acc)
  <2>1. \A b, acc : g \notin TokensOf(b, acc)
    BY <1>2 DEF TokensOf
  <2>2. QED
    BY <1>1, <1>2, <2>1, TokensChange
<1>4. CASE SBF
  BY <1>4 DEF RegistryInv, RegistryCountsTokens, TokenExclusive
<1>5. CASE ~SBF
  <2>1. CanRegister(a, access) /\ entries' = [entries EXCEPT ![i] = st]
    BY <1>5 DEF TakeToken, Registers, Register
  <2>2. CountsFor(a) /\ \A b \in Address : CountsFor(b)
    BY <1>2, <1>5, CountsForEach DEF RegistryInv
  <2>3. /\ i \in Slot
        /\ InUse(entries[i]) => entries[i].address = a
        /\ Find(a) \subseteq {i}
        /\ Find(a) = {} => ~InUse(entries[i])
        /\ Find(a) # {} => i \in Find(a) /\ EntryAllows(entries[i], access)
    <3>1. CASE Find(a) # {}
      <4>1. i \in Find(a) /\ EntryAllows(entries[i], access)
        BY <2>1, <3>1, MinOfSlots DEF EntryFor, CanRegister, Find
      <4>2. QED
        BY <2>2, <3>1, <4>1 DEF CountsFor, Find
    <3>2. CASE Find(a) = {}
      <4>1. i \in FirstEmpty
        BY <2>1, <3>2, MinOfSlots DEF EntryFor, CanRegister, FirstEmpty
      <4>2. QED
        BY <3>2, <4>1 DEF FirstEmpty
    <3>3. QED
      BY <3>1, <3>2
  <2>4. entries[i].shared_count \in Nat /\ entries[i].mutable \in BOOLEAN
    BY <2>3 DEF TypeOK, BorrowState
  <2>5. /\ st.shared_count = entries[i].shared_count + (IF access = "shared" THEN 1 ELSE 0)
        /\ st.mutable <=> entries[i].mutable \/ access = "mutable"
        /\ st.address = a
    BY <2>3 DEF Added
  <2>6. InUse(st)
    BY <2>4, <2>5 DEF InUse, Access
  <2> HIDE DEF i, st
  <2>7. /\ \A b \in Address \ {a} :
              Find(b)' = Find(b) /\ \A j \in Find(b) : entries'[j] = entries[j]
        /\ Find(a)' = {i} /\ entries'[i] = st
    BY <1>2, <2>1, <2>3, <2>5, <2>6, EntryWritten
  <2>8. \A b \in Address \ {a} : CountsFor(b)'
    BY <1>3, <2>2, <2>7, CountsForKept
  <2>9. /\ entries[i].shared_count = Cardinality(TokensOf(a, "shared"))
        /\ entries[i].mutable <=> TokensOf(a, "mutable") # {}
    <3>1. CASE Find(a) # {}
      BY <2>2, <2>3, <3>1 DEF CountsFor
    <3>2. CASE Find(a) = {}
      <4>1. TokensOf(a, "shared") = {} /\ TokensOf(a, "mutable") = {}
        BY <2>2, <3>2 DEF CountsFor
      <4>2. entries[i].shared_count = 0 /\ ~entries[i].mutable
        BY <2>3, <3>2 DEF InUse
      <4>3. QED
        BY <4>1, <4>2, FS_EmptySet
    <3>3. QED
      BY <3>1, <3>2
  <2>10. CountsFor(a)'
    <3>1. Cardinality(TokensOf(a, "shared") \cup {g}) = Cardinality(TokensOf(a, "shared")) + 1
      <4>1. g \notin TokensOf(a, "shared")
        BY <1>2 DEF TokensOf
      <4>2. QED
        BY <4>1, CountsFinite, FS_AddElement
    <3>2. CASE access = "shared"
      <4>1. /\ TokensOf(a, "shared")' = TokensOf(a, "shared") \cup {g}
            /\ TokensOf(a, "mutable")' = TokensOf(a, "mutable")
        BY <1>3, <3>2
      <4>2. /\ st.shared_count = Cardinality(TokensOf(a, "shared")')
            /\ st.mutable <=> TokensOf(a, "mutable")' # {}
        BY <2>5, <2>9, <3>1, <3>2, <4>1
      <4>3. QED
        BY <2>7, <4>2 DEF CountsFor
    <3>3. CASE access = "mutable"
      <4>1. /\ TokensOf(a, "shared")' = TokensOf(a, "shared")
            /\ TokensOf(a, "mutable")' # {}
        BY <1>3, <3>3
      <4>2. /\ st.shared_count = Cardinality(TokensOf(a, "shared")')
            /\ st.mutable <=> TokensOf(a, "mutable")' # {}
        BY <2>4, <2>5, <2>9, <3>3, <4>1
      <4>3. QED
        BY <2>7, <4>2 DEF CountsFor
    <3>4. QED
      BY <3>2, <3>3 DEF Access
  <2>11. RegistryCountsTokens'
    <3>1. \A b \in Address : CountsFor(b)'
      BY <2>8, <2>10
    <3>2. QED
      BY <3>1 DEF RegistryCountsTokens, CountsFor
  <2>12. ASSUME NEW h \in Used, AddressOf[guards[h].cell] = a
         PROVE  guards[h].access = "shared" /\ access = "shared"
    <3>1. guards[h].access \in Access /\ h \in TokensOf(a, guards[h].access)
      BY <2>12, GuardFacts DEF TokensOf
    <3>2. Find(a) # {}
      BY <2>2, <3>1 DEF CountsFor, Access
    <3>3. EntryAllows(entries[i], access)
      BY <2>3, <3>2
    <3>4. guards[h].access = "shared"
      BY <2>9, <3>1, <3>3 DEF EntryAllows, Access
    <3>5. TokensOf(a, "shared") # {} /\ IsFiniteSet(TokensOf(a, "shared"))
      BY <3>1, <3>4, CountsFinite
    <3>6. entries[i].shared_count # 0
      BY <2>9, <3>5, FS_EmptySet
    <3>7. QED
      BY <3>3, <3>4, <3>6 DEF EntryAllows, Access
  <2>13. TokenExclusive'
    <3>1. SUFFICES ASSUME NEW h \in Used', NEW k \in Used', h # k,
                          AddressOf[guards'[h].cell] = AddressOf[guards'[k].cell]
                   PROVE  guards'[h].access = "shared" /\ guards'[k].access = "shared"
      BY DEF TokenExclusive
    <3>2. \A j \in Used' : j # g => j \in Used /\ guards'[j] = guards[j]
      BY <1>1 DEF Used
    <3>3. CASE h = g
      BY <1>2, <2>12, <3>1, <3>2, <3>3
    <3>4. CASE k = g
      BY <1>2, <2>12, <3>1, <3>2, <3>4
    <3>5. CASE h # g /\ k # g
      BY <1>5, <3>1, <3>2, <3>5 DEF RegistryInv, TokenExclusive
    <3>6. QED
      BY <3>3, <3>4, <3>5
  <2>14. QED
    BY <2>11, <2>13 DEF RegistryInv
<1>6. QED
  BY <1>4, <1>5

\* A released token leaves the count of the tokens that are left.
LEMMA DropTokenPreserves ==
  ASSUME TypeOK, TypeOK', RegistryInv, NEW g \in Guard, DropToken(g)
  PROVE  RegistryInv'
<1> USE AccountBorrowAssumption
<1>0. PICK a \in Address, access \in Access :
        a = AddressOf[guards[g].cell] /\ access = guards[g].access
  BY GuardFacts DEF DropToken
<1> DEFINE i == Min(Find(a))
           left == Taken(entries[i], access)
           st == IF InUse(left) THEN left ELSE EMPTY
<1>1. /\ g \in Used /\ a \in Address /\ access \in Access
      /\ guards[g].access = access /\ AddressOf[guards[g].cell] = a
      /\ guards'[g] = Unused /\ \A h \in Guard \ {g} : guards'[h] = guards[h]
  BY <1>0 DEF DropToken, TypeOK
<1>2. g \notin Used' /\ \A h \in Used' : h \in Used /\ guards'[h] = guards[h]
  BY <1>1 DEF Used
<1>3. \A b, acc : TokensOf(b, acc)' = IF b = a /\ acc = access THEN TokensOf(b, acc) \ {g}
                                                               ELSE TokensOf(b, acc)
  <2>1. \A b, acc : g \in TokensOf(b, acc) => b = a /\ acc = access
    BY <1>1 DEF TokensOf
  <2>2. QED
    BY <1>1, <1>2, <2>1, TokensChange
<1>4. CASE SBF
  BY <1>4 DEF RegistryInv, RegistryCountsTokens, TokenExclusive
<1>5. CASE ~SBF
  <2>1. \A b \in Address : CountsFor(b)
    BY <1>5, CountsForEach DEF RegistryInv
  <2>2. g \in TokensOf(a, access)
    BY <1>1 DEF TokensOf
  <2>3. Find(a) # {} /\ i \in Find(a) /\ i \in Slot /\ Find(a) \subseteq {i}
    <3>1. Find(a) # {}
      BY <1>1, <2>1, <2>2 DEF CountsFor, Access
    <3>2. i \in Find(a)
      BY <3>1, MinOfSlots DEF Find
    <3>3. QED
      BY <1>1, <2>1, <3>1, <3>2 DEF CountsFor, Find
  <2>4. entries' = [entries EXCEPT ![i] = st]
    BY <1>1, <1>5, <2>3 DEF DropToken, Release
  <2>5. entries[i].shared_count \in Nat /\ entries[i].mutable \in BOOLEAN
        /\ entries[i].address = a
    BY <2>3 DEF TypeOK, BorrowState, Find
  <2>6. /\ entries[i].shared_count = Cardinality(TokensOf(a, "shared"))
        /\ entries[i].mutable <=> TokensOf(a, "mutable") # {}
    BY <1>1, <2>1, <2>3 DEF CountsFor
  <2>7. access = "shared" =>
          /\ Cardinality(TokensOf(a, "shared") \ {g}) = Cardinality(TokensOf(a, "shared")) - 1
          /\ Cardinality(TokensOf(a, "shared") \ {g}) \in Nat
    BY <2>2, CountsFinite, FS_RemoveElement, FS_CardinalityType
  <2>8. access = "mutable" => TokensOf(a, "mutable") \ {g} = {} /\ TokensOf(a, "shared") = {}
    <3>1. SUFFICES ASSUME access = "mutable", NEW h \in Used, h # g, AddressOf[guards[h].cell] = a
                   PROVE  FALSE
      BY <1>1 DEF TokensOf
    <3>2. QED
      BY <1>1, <1>5, <3>1 DEF RegistryInv, TokenExclusive
  <2>9. /\ left.address = a
        /\ left.shared_count = Cardinality(TokensOf(a, "shared")')
        /\ left.mutable <=> TokensOf(a, "mutable")' # {}
    <3>1. CASE access = "shared"
      <4>1. /\ TokensOf(a, "shared")' = TokensOf(a, "shared") \ {g}
            /\ TokensOf(a, "mutable")' = TokensOf(a, "mutable")
        BY <1>3, <3>1
      <4>2. left.address = a /\ left.mutable = entries[i].mutable
            /\ left.shared_count = (IF entries[i].shared_count # 0
                                      THEN entries[i].shared_count - 1
                                      ELSE entries[i].shared_count)
        BY <2>3, <2>5, <3>1 DEF Taken, TypeOK, BorrowState
      <4>3. Cardinality(TokensOf(a, "shared")) # 0
        BY <2>2, <3>1, CountsFinite, FS_EmptySet
      <4>4. QED
        BY <2>6, <2>7, <3>1, <4>1, <4>2, <4>3
    <3>2. CASE access = "mutable"
      <4>1. /\ TokensOf(a, "shared")' = TokensOf(a, "shared")
            /\ TokensOf(a, "mutable")' = {}
        BY <1>3, <2>8, <3>2
      <4>2. left.address = a /\ ~left.mutable /\ left.shared_count = entries[i].shared_count
        BY <2>3, <2>5, <3>2 DEF Taken, TypeOK, BorrowState
      <4>3. QED
        BY <2>6, <4>1, <4>2
    <3>3. QED
      BY <1>1, <3>1, <3>2 DEF Access
  <2>10. /\ InUse(st) <=> InUse(left)
         /\ InUse(st) => st = left
    BY DEF InUse, EMPTY
  <2>11. InUse(st) => st.address = a
    BY <2>9, <2>10
  <2> HIDE DEF i, st, left
  <2>12. /\ \A b \in Address \ {a} :
               Find(b)' = Find(b) /\ \A j \in Find(b) : entries'[j] = entries[j]
         /\ Find(a)' = (IF InUse(st) THEN {i} ELSE {}) /\ entries'[i] = st
    BY <1>1, <2>3, <2>4, <2>5, <2>11, EntryWritten
  <2>13. \A b \in Address \ {a} : CountsFor(b)'
    BY <1>3, <2>1, <2>12, CountsForKept
  <2>14. CountsFor(a)'
    <3>1. CASE InUse(st)
      <4>1. Find(a)' = {i} /\ entries'[i] = left
        BY <2>10, <2>12, <3>1
      <4>2. QED
        BY <2>9, <4>1 DEF CountsFor
    <3>2. CASE ~InUse(st)
      <4>1. left.shared_count = 0 /\ ~left.mutable
        BY <2>10, <3>2 DEF InUse
      <4>2. TokensOf(a, "mutable")' = {} /\ Cardinality(TokensOf(a, "shared")') = 0
        BY <2>9, <4>1
      <4>3. TokensOf(a, "shared")' \subseteq TokensOf(a, "shared")
        BY <1>3
      <4>4. IsFiniteSet(TokensOf(a, "shared")')
        BY <4>3, CountsFinite, FS_Subset
      <4>5. TokensOf(a, "shared")' = {}
        BY <4>2, <4>4, FS_EmptySet
      <4>6. QED
        BY <2>12, <3>2, <4>2, <4>5 DEF CountsFor
    <3>3. QED
      BY <3>1, <3>2
  <2>15. RegistryCountsTokens'
    <3>1. \A b \in Address : CountsFor(b)'
      BY <2>13, <2>14
    <3>2. QED
      BY <3>1 DEF RegistryCountsTokens, CountsFor
  <2>16. TokenExclusive'
    BY <1>2 DEF RegistryInv, TokenExclusive
  <2>17. QED
    BY <2>15, <2>16 DEF RegistryInv
<1>6. QED
  BY <1>4, <1>5

-----------------------------------------------------------------------------
(* Types, and the invariant as a whole *)

LEMMA InitEstablishes == Init => IInv
<1> SUFFICES ASSUME Init PROVE IInv
  OBVIOUS
<1> USE AccountBorrowAssumption
<1>1. TypeOK
  BY DEF Init, TypeOK, BorrowState, EMPTY
<1>2. Used = {} /\ Live = {}
  BY DEF Init, Used, Live
<1>3. \A c, access : LiveOn(c, access) = {}
  BY <1>2 DEF LiveOn
<1>4. \A a, access : TokensOf(a, access) = {}
  BY <1>2 DEF TokensOf
<1>5. \A a : Find(a) = {}
  BY DEF Init, Find, InUse, EMPTY
<1>6. NativeInv
  BY <1>2, <1>3, FS_EmptySet DEF Init, NativeInv, ByteCountsGuards, ReaderRoom, CellExclusive
<1>7. RegistryInv
  BY <1>2, <1>4, <1>5 DEF RegistryInv, RegistryCountsTokens, TokenExclusive
<1>8. QED
  BY <1>1, <1>6, <1>7 DEF IInv

\* A live shared guard is counted, so its drop does not take the byte below zero.
LEMMA SharedGuardCounted ==
  ASSUME TypeOK, NativeInv, NEW g \in Live, guards[g].access = "shared"
  PROVE  borrow_state[guards[g].cell] > 0
<1> DEFINE c == guards[g].cell
<1>1. c \in Cell /\ g \in LiveOn(c, "shared")
  BY GuardFacts DEF Live, LiveOn
<1>2. LiveOn(c, "mutable") = {}
  <2>1. SUFFICES ASSUME NEW h \in Live, guards[h].cell = c, guards[h].access = "mutable"
                 PROVE  FALSE
    BY DEF LiveOn
  <2>2. QED
    BY <2>1 DEF NativeInv, CellExclusive
<1>3. borrow_state[c] = Cardinality(LiveOn(c, "shared"))
  BY <1>1, <1>2 DEF NativeInv, ByteCountsGuards
<1>4. Cardinality(LiveOn(c, "shared")) \in Nat /\ Cardinality(LiveOn(c, "shared")) # 0
  BY <1>1, CountsFinite, FS_CardinalityType, FS_EmptySet
<1>5. QED
  BY <1>3, <1>4

\* Moving a guard to another phase keeps its borrow and its type.
LEMMA PhaseChanged ==
  ASSUME TypeOK, NEW g \in Used, NEW ph \in Phase, guards' = [guards EXCEPT ![g].phase = ph]
  PROVE  guards' \in [Guard -> {Unused} \cup [phase : Phase, cell : Cell, access : Access]]
<1>1. /\ g \in Guard /\ guards[g].cell \in Cell /\ guards[g].access \in Access
      /\ guards[g] = At(guards[g].phase, guards[g].cell, guards[g].access)
  BY GuardFacts
<1>2. [guards[g] EXCEPT !.phase = ph] = At(ph, guards[g].cell, guards[g].access)
  BY <1>1 DEF At
<1>3. guards' = [guards EXCEPT ![g] = At(ph, guards[g].cell, guards[g].access)]
  BY <1>1, <1>2
<1>4. At(ph, guards[g].cell, guards[g].access) \in [phase : Phase, cell : Cell, access : Access]
  BY <1>1 DEF At
<1>5. QED
  BY <1>1, <1>3, <1>4 DEF TypeOK

\* Releasing a token keeps an entry's fields in range; the free entry is typed.
LEMMA TakenTyped ==
  ASSUME NEW state \in BorrowState, NEW access \in Access
  PROVE  Taken(state, access) \in BorrowState /\ EMPTY \in BorrowState
<1>1. state.shared_count \in 0 .. U16_MAX /\ state.mutable \in BOOLEAN /\ state.address \in Address
  BY DEF BorrowState
<1>2. PICK n \in 0 .. U16_MAX :
        n = IF access = "shared" /\ state.shared_count # 0 THEN state.shared_count - 1
                                                          ELSE state.shared_count
  BY <1>1, AccountBorrowAssumption
<1>3. PICK m \in BOOLEAN : m = IF access = "mutable" THEN FALSE ELSE state.mutable
  BY <1>1
<1>4. Taken(state, access) = [state EXCEPT !.shared_count = n, !.mutable = m]
  BY <1>2, <1>3, Zenon DEF Taken
<1>5. [state EXCEPT !.shared_count = n, !.mutable = m] \in BorrowState
  BY DEF BorrowState
<1>6. EMPTY \in BorrowState
  BY AccountBorrowAssumption DEF EMPTY, BorrowState
<1>7. QED
  BY <1>4, <1>5, <1>6

\* The counts of byte and entry stay within their widths.
LEMMA TypePreserved ==
  ASSUME TypeOK, NativeInv, Next
  PROVE  TypeOK'
<1> USE AccountBorrowAssumption
<1>1. ASSUME NEW g \in Guard, NEW c \in Cell, NEW access \in Access, TakeToken(g, c, access)
      PROVE  TypeOK'
  <2> DEFINE a == AddressOf[c]
             i == EntryFor(a)
  <2>1. guards' \in [Guard -> {Unused} \cup [phase : Phase, cell : Cell, access : Access]]
    BY <1>1 DEF TakeToken, TypeOK, At, Phase
  <2>2. borrow_state' = borrow_state
    BY <1>1 DEF TakeToken
  <2>3. entries' \in [Slot -> BorrowState]
    <3>1. CASE SBF
      BY <1>1, <3>1 DEF TakeToken, Register, TypeOK
    <3>2. CASE ~SBF
      <4>1. i \in Slot
        BY <1>1, <3>2, MinOfSlots
           DEF TakeToken, Registers, EntryFor, CanRegister, Find, FirstEmpty
      <4>2. /\ entries' = [entries EXCEPT ![i] = Added(entries[i], a, access)]
            /\ access = "shared" => entries[i].shared_count < U16_MAX
        BY <1>1, <3>2 DEF TakeToken, Registers, Register
      <4>3. entries[i] \in BorrowState /\ a \in Address
        BY <4>1 DEF TypeOK
      <4>4. Added(entries[i], a, access) \in BorrowState
        BY <4>2, <4>3 DEF Added, BorrowState, Access
      <4> HIDE DEF i
      <4>5. QED
        BY <4>1, <4>2, <4>4 DEF TypeOK
    <3>3. QED
      BY <3>1, <3>2
  <2>4. QED
    BY <2>1, <2>2, <2>3 DEF TypeOK
<1>2. ASSUME NEW g \in Guard, NativeBorrow(g)
      PROVE  TypeOK'
  <2>1. PICK c \in Cell, access \in Access : c = guards[g].cell /\ access = guards[g].access
    BY <1>2, GuardFacts DEF NativeBorrow
  <2>2. guards' \in [Guard -> {Unused} \cup [phase : Phase, cell : Cell, access : Access]]
    <3>1. "live" \in Phase /\ g \in Used /\ guards' = [guards EXCEPT ![g].phase = "live"]
      BY <1>2 DEF NativeBorrow, Phase
    <3>2. QED
      BY <3>1, PhaseChanged
  <2>3. borrow_state' \in [Cell -> 0 .. NOT_BORROWED]
    <3>1. borrow_state' = [borrow_state EXCEPT ![c] = Borrowed(borrow_state[c], access)]
      BY <1>2, <2>1 DEF NativeBorrow
    <3>2. Borrowed(borrow_state[c], access) \in 0 .. NOT_BORROWED
      BY DEF TypeOK, Borrowed
    <3>3. QED
      BY <3>1, <3>2 DEF TypeOK
  <2>4. QED
    BY <1>2, <2>2, <2>3 DEF TypeOK, NativeBorrow
<1>3. ASSUME NEW g \in Guard, NativeRefused(g)
      PROVE  TypeOK'
  <2>1. "token" \in Phase /\ g \in Used /\ guards' = [guards EXCEPT ![g].phase = "token"]
    BY <1>3 DEF NativeRefused, Phase
  <2>2. guards' \in [Guard -> {Unused} \cup [phase : Phase, cell : Cell, access : Access]]
    BY <2>1, PhaseChanged
  <2>3. QED
    BY <1>3, <2>2 DEF TypeOK, NativeRefused
<1>4. ASSUME NEW g \in Guard, DropNative(g)
      PROVE  TypeOK'
  <2>1. PICK c \in Cell, access \in Access : c = guards[g].cell /\ access = guards[g].access
    BY <1>4, GuardFacts DEF DropNative, Live
  <2>2. g \in Used /\ g \in Live
    BY <1>4 DEF DropNative, Live
  <2>3. guards' \in [Guard -> {Unused} \cup [phase : Phase, cell : Cell, access : Access]]
    <3>1. "token" \in Phase /\ guards' = [guards EXCEPT ![g].phase = "token"]
      BY <1>4 DEF DropNative, Phase
    <3>2. QED
      BY <2>2, <3>1, PhaseChanged
  <2>4. borrow_state' \in [Cell -> 0 .. NOT_BORROWED]
    <3>1. borrow_state' = [borrow_state EXCEPT ![c] = Returned(borrow_state[c], access)]
      BY <1>4, <2>1 DEF DropNative
    <3>2. access = "shared" => borrow_state[c] > 0
      BY <2>1, <2>2, SharedGuardCounted
    <3>3. Returned(borrow_state[c], access) \in 0 .. NOT_BORROWED
      BY <3>2 DEF TypeOK, Returned, Access
    <3>4. QED
      BY <3>1, <3>3 DEF TypeOK
  <2>5. QED
    BY <1>4, <2>3, <2>4 DEF TypeOK, DropNative
<1>5. ASSUME NEW g \in Guard, DropToken(g)
      PROVE  TypeOK'
  <2>1. PICK a \in Address, access \in Access :
          a = AddressOf[guards[g].cell] /\ access = guards[g].access
    BY <1>5, GuardFacts DEF DropToken
  <2> DEFINE i == Min(Find(a))
             left == Taken(entries[i], access)
  <2>2. CASE entries' = entries
    BY <1>5, <2>2 DEF DropToken, TypeOK
  <2>3. CASE /\ Find(a) # {}
             /\ entries' = [entries EXCEPT ![i] = IF InUse(left) THEN left ELSE EMPTY]
    <3>1. i \in Slot
      BY <2>3, MinOfSlots DEF Find
    <3>2. entries[i] \in BorrowState
      BY <3>1 DEF TypeOK
    <3>3. left \in BorrowState /\ EMPTY \in BorrowState
      BY <3>2, TakenTyped
    <3> HIDE DEF i, left
    <3>4. entries' \in [Slot -> BorrowState]
      BY <2>3, <3>1, <3>3 DEF TypeOK
    <3>5. QED
      BY <1>5, <3>4 DEF DropToken, TypeOK
  <2>4. QED
    BY <1>5, <2>1, <2>2, <2>3 DEF DropToken, Release
<1>6. ASSUME NEW c \in Cell, NEW access \in Access, TokenRefused(c, access) \/ CheckBorrow(c, access)
      PROVE  TypeOK'
  BY <1>6 DEF TokenRefused, CheckBorrow, TypeOK
<1>7. QED
  BY <1>1, <1>2, <1>3, <1>4, <1>5, <1>6 DEF Next

\* A step that changes only the answer keeps both halves.
LEMMA AnswerOnly ==
  ASSUME NativeInv, RegistryInv, UNCHANGED <<borrow_state, entries, guards>>
  PROVE  NativeInv' /\ RegistryInv'
<1>1. Used' = Used /\ Live' = Live
  BY DEF Live, Used
<1>2. \A c, access : LiveOn(c, access)' = LiveOn(c, access)
  BY <1>1 DEF LiveOn
<1>3. \A a, access : TokensOf(a, access)' = TokensOf(a, access)
  BY <1>1 DEF TokensOf
<1>4. \A a : Find(a)' = Find(a)
  BY DEF Find
<1>5. NativeInv'
  BY <1>1, <1>2 DEF NativeInv, ByteCountsGuards, ReaderRoom, CellExclusive
<1>6. RegistryCountsTokens'
  BY <1>3, <1>4 DEF RegistryInv, RegistryCountsTokens
<1>7. TokenExclusive'
  BY <1>1 DEF RegistryInv, TokenExclusive
<1>8. QED
  BY <1>5, <1>6, <1>7 DEF RegistryInv

\* Every step keeps the invariant.
LEMMA NextPreserves ==
  ASSUME IInv, Next
  PROVE  IInv'
<1> USE DEF IInv
<1>1. TypeOK'
  BY TypePreserved
<1>2. ASSUME NEW g \in Guard, NEW c \in Cell, NEW access \in Access, TakeToken(g, c, access)
      PROVE  IInv'
  <2>1. guards[g] = Unused /\ guards'[g] = At("backend", c, access)
        /\ \A h \in Guard \ {g} : guards'[h] = guards[h]
    BY <1>2 DEF TakeToken, TypeOK
  <2>2. g \notin Live /\ g \notin Live'
    BY <2>1 DEF Live, Used, At
  <2>3. NativeInv'
    BY <1>1, <1>2, <2>1, <2>2, NativeUntouched DEF TakeToken
  <2>4. QED
    BY <1>1, <1>2, <2>3, TakeTokenPreserves
<1>3. ASSUME NEW g \in Guard, NativeBorrow(g)
      PROVE  IInv'
  <2>1. g \in Used /\ "live" \in Phase
    BY <1>3 DEF NativeBorrow, Phase
  <2>2. RegistryInv'
    BY <1>1, <1>3, <2>1, RegistryUntouched DEF NativeBorrow
  <2>3. QED
    BY <1>1, <1>3, <2>2, NativeBorrowPreserves
<1>4. ASSUME NEW g \in Guard, NativeRefused(g)
      PROVE  IInv'
  <2>1. g \in Used /\ "token" \in Phase /\ guards[g].phase = "backend"
    BY <1>4 DEF NativeRefused, Phase
  <2>2. RegistryInv'
    BY <1>1, <1>4, <2>1, RegistryUntouched DEF NativeRefused
  <2>3. /\ guards'[g].phase = "token"
        /\ \A h \in Guard \ {g} : guards'[h] = guards[h]
    BY <1>4, <2>1, GuardFacts DEF NativeRefused, TypeOK, At
  <2>4. g \notin Live /\ g \notin Live'
    BY <2>1, <2>3 DEF Live
  <2>5. NativeInv'
    BY <1>1, <1>4, <2>3, <2>4, NativeUntouched DEF NativeRefused
  <2>6. QED
    BY <1>1, <2>2, <2>5
<1>5. ASSUME NEW g \in Guard, DropNative(g)
      PROVE  IInv'
  <2>1. g \in Used /\ "token" \in Phase
    BY <1>5 DEF DropNative, Live, Phase
  <2>2. RegistryInv'
    BY <1>1, <1>5, <2>1, RegistryUntouched DEF DropNative
  <2>3. QED
    BY <1>1, <1>5, <2>2, DropNativePreserves
<1>6. ASSUME NEW g \in Guard, DropToken(g)
      PROVE  IInv'
  <2>1. guards[g].phase = "token" /\ guards'[g] = Unused
        /\ \A h \in Guard \ {g} : guards'[h] = guards[h]
    BY <1>6 DEF DropToken, TypeOK
  <2>2. g \notin Live /\ g \notin Live'
    BY <2>1 DEF Live, Used
  <2>3. NativeInv'
    BY <1>1, <1>6, <2>1, <2>2, NativeUntouched DEF DropToken
  <2>4. QED
    BY <1>1, <1>6, <2>3, DropTokenPreserves
<1>7. ASSUME NEW c \in Cell, NEW access \in Access, TokenRefused(c, access) \/ CheckBorrow(c, access)
      PROVE  IInv'
  <2>1. UNCHANGED <<borrow_state, entries, guards>>
    BY <1>7 DEF TokenRefused, CheckBorrow
  <2>2. QED
    BY <1>1, <2>1, AnswerOnly
<1>8. QED
  BY <1>2, <1>3, <1>4, <1>5, <1>6, <1>7 DEF Next

THEOREM Invariance == Spec => []IInv
<1>1. Init => IInv
  BY InitEstablishes
<1>2. IInv /\ [Next]_vars => IInv'
  <2>1. SUFFICES ASSUME IInv, [Next]_vars PROVE IInv'
    OBVIOUS
  <2>2. CASE Next
    BY <2>1, <2>2, NextPreserves
  <2>3. CASE UNCHANGED vars
    <3>1. UNCHANGED <<borrow_state, entries, guards>>
      BY <2>3 DEF vars
    <3>2. TypeOK'
      BY <2>1, <3>1 DEF IInv, TypeOK
    <3>3. QED
      BY <2>1, <3>1, <3>2, AnswerOnly DEF IInv
  <2>4. QED
    BY <2>1, <2>2, <2>3
<1>3. QED
  BY <1>1, <1>2, PTL DEF Spec

-----------------------------------------------------------------------------
(* The theorems *)

\* Byte and entry never leave the range of their Rust types.
THEOREM TypeCorrect == Spec => []TypeOK
<1>1. IInv => TypeOK
  BY DEF IInv
<1>2. QED
  BY <1>1, Invariance, PTL

\* borrow_state is always the exact count of the live guards of its account.
THEOREM ByteAlwaysCountsGuards == Spec => []ByteCountsGuards
<1>1. IInv => ByteCountsGuards
  BY DEF IInv, NativeInv
<1>2. QED
  BY <1>1, Invariance, PTL

\* The alias registry always holds the outstanding tokens and nothing else.
THEOREM RegistryAlwaysCountsTokens == Spec => []RegistryCountsTokens
<1>1. IInv => RegistryCountsTokens
  BY DEF IInv, RegistryInv
<1>2. QED
  BY <1>1, Invariance, PTL

\* Both layers count exactly.
THEOREM CountsAlwaysExact == Spec => []CountsExact
<1>1. IInv => CountsExact
  BY DEF IInv, NativeInv, RegistryInv, CountsExact
<1>2. QED
  BY <1>1, Invariance, PTL

\* Live guards that name one account through any handles are both shared.
LEMMA LiveGuardsCompatible ==
  ASSUME IInv, NEW g \in Live, NEW h \in Live, g # h,
         Identity[guards[g].cell] = Identity[guards[h].cell]
  PROVE  guards[g].access = "shared" /\ guards[h].access = "shared"
<1>1. guards[g].cell \in Cell /\ guards[h].cell \in Cell /\ g \in Used /\ h \in Used
  BY GuardFacts DEF IInv, Live
<1>2. CASE SBF
  BY <1>1, <1>2 DEF Identity, IInv, NativeInv, CellExclusive
<1>3. CASE ~SBF
  BY <1>1, <1>3 DEF Identity, IInv, RegistryInv, TokenExclusive
<1>4. QED
  BY <1>2, <1>3

\* The guards held, as the promise sees them.
Holding == [g \in Guard |-> IF g \in Live
                              THEN [cell |-> guards[g].cell, access |-> guards[g].access]
                              ELSE [none |-> TRUE]]

LEMMA HoldingFacts ==
  /\ Promise!Holders = {g \in Guard : Holding[g] # [none |-> TRUE]}
  /\ Promise!Exclusive <=>
       \A g, h \in Promise!Holders : g # h => Promise!Compatible(Holding[g], Holding[h])
  /\ \A b : Promise!Free(b) <=> \A h \in Promise!Holders : Promise!Compatible(Holding[h], b)
  /\ Promise!AInit <=> Holding = [g \in Guard |-> [none |-> TRUE]]
  BY DEF Promise!Holders, Promise!Exclusive, Promise!Free, Promise!AInit, Promise!NoBorrow, Holding

LEMMA HoldersAreLive == Promise!Holders = Live
<1>1. \A g \in Live : [cell |-> guards[g].cell, access |-> guards[g].access] # [none |-> TRUE]
  <2>1. TAKE g \in Live
  <2>2. DOMAIN [cell |-> guards[g].cell, access |-> guards[g].access] # DOMAIN [none |-> TRUE]
    OBVIOUS
  <2>3. QED
    BY <2>2
<1>2. Live \subseteq Guard
  BY DEF Live, Used
<1>3. QED
  BY <1>1, <1>2, HoldingFacts DEF Holding

\* No reachable state holds two conflicting guards of one account, on either tier.
THEOREM BorrowsAlwaysExclusive == Spec => []ExclusiveBorrows
<1>1. IInv => ExclusiveBorrows
  <2>1. SUFFICES ASSUME IInv, NEW g \in Live, NEW h \in Live, g # h
                 PROVE  Promise!Compatible(Holding[g], Holding[h])
    BY HoldingFacts, HoldersAreLive DEF ExclusiveBorrows
  <2>2. /\ Holding[g].cell = guards[g].cell /\ Holding[g].access = guards[g].access
        /\ Holding[h].cell = guards[h].cell /\ Holding[h].access = guards[h].access
    BY DEF Holding, Live, Used
  <2>3. QED
    BY <2>1, <2>2, LiveGuardsCompatible DEF Promise!Compatible
<1>2. QED
  BY <1>1, Invariance, PTL

\* One step of the borrow layer is a grant, a return or no step of the promise.
LEMMA StepRefines ==
  ASSUME IInv, IInv', [Next]_vars
  PROVE  [Promise!ANext]_Holding
<1> DEFINE none == [none |-> TRUE]
<1>1. ASSUME NEW g \in Guard, g \notin Live, g \notin Live',
             \A h \in Guard \ {g} : guards'[h] = guards[h]
      PROVE  Holding' = Holding
  <2>1. \A h \in Guard : h \in Live' <=> h \in Live
    BY <1>1 DEF Live, Used
  <2>2. \A h \in Live : guards'[h] = guards[h]
    BY <1>1 DEF Live, Used
  <2>3. QED
    BY <2>1, <2>2 DEF Holding
<1>2. ASSUME NEW g \in Guard, NativeBorrow(g)
      PROVE  Promise!ANext
  <2>1. PICK c \in Cell, access \in Access : c = guards[g].cell /\ access = guards[g].access
    BY <1>2, GuardFacts DEF NativeBorrow, IInv
  <2>2. /\ guards'[g] = At("live", c, access) /\ guards[g].phase = "backend"
        /\ \A h \in Guard \ {g} : guards'[h] = guards[h]
    BY <1>2, <2>1, GuardFacts DEF NativeBorrow, IInv, TypeOK, At
  <2>3. g \notin Live /\ g \in Live'
    <3>1. At("live", c, access) # Unused
      BY PhaseUsed DEF Phase
    <3>2. QED
      BY <2>2, <3>1 DEF Live, Used, At
  <2>4. \A h \in Guard \ {g} : h \in Live' <=> h \in Live
    BY <2>2 DEF Live, Used
  <2>5. Holding' = [Holding EXCEPT ![g] = Promise!BorrowOf(c, access)]
    <3>1. guards'[g].cell = c /\ guards'[g].access = access
      BY <2>2 DEF At
    <3>2. \A h \in Guard \ {g} : Holding'[h] = Holding[h]
      BY <2>2, <2>4 DEF Holding
    <3>3. Holding'[g] = Promise!BorrowOf(c, access)
      BY <2>3, <3>1 DEF Holding, Promise!BorrowOf
    <3> DEFINE F == [Holding EXCEPT ![g] = Promise!BorrowOf(c, access)]
    <3>4. DOMAIN Holding' = Guard /\ DOMAIN F = Guard
          /\ Holding' = [h \in Guard |-> Holding'[h]] /\ F = [h \in Guard |-> F[h]]
      BY DEF Holding
    <3>5. \A h \in Guard : Holding'[h] = F[h]
      BY <3>2, <3>3 DEF Holding
    <3> HIDE DEF F
    <3>6. Holding' = F
      BY <3>4, <3>5
    <3>7. QED
      BY <3>6 DEF F
  <2>6. Holding[g] = none
    BY <2>3 DEF Holding
  <2>7. ASSUME NEW h \in Live
        PROVE  Promise!Compatible(Holding[h], Promise!BorrowOf(c, access))
    <3>1. h # g /\ h \in Live' /\ guards'[h] = guards[h]
      BY <2>2, <2>3, <2>4 DEF Live, Used
    <3>2. Holding[h] = [cell |-> guards[h].cell, access |-> guards[h].access]
      BY DEF Holding, Live, Used
    <3>3. Identity[guards[h].cell] = Identity[c] => guards[h].access = "shared" /\ access = "shared"
      <4>1. guards'[g].cell = c /\ guards'[g].access = access
        BY <2>2 DEF At
      <4>2. CASE SBF
        <5>1. CellExclusive'
          BY DEF IInv, NativeInv
        <5>2. guards[h].cell \in Cell
          BY GuardFacts DEF Live, IInv
        <5>3. QED
          BY <2>3, <3>1, <4>1, <4>2, <5>1, <5>2 DEF CellExclusive, Identity
      <4>3. CASE ~SBF
        <5>1. TokenExclusive'
          BY DEF IInv, RegistryInv
        <5>2. h \in Used' /\ g \in Used'
          BY <2>3, <3>1 DEF Live
        <5>3. QED
          BY <3>1, <4>1, <4>3, <5>1, <5>2 DEF TokenExclusive, Identity
      <4>4. QED
        BY <4>2, <4>3
    <3>4. QED
      BY <3>2, <3>3 DEF Promise!Compatible, Promise!BorrowOf
  <2>8. Promise!Free(Promise!BorrowOf(c, access))
    BY <2>7, HoldingFacts, HoldersAreLive
  <2>9. Promise!Grant(g, Promise!BorrowOf(c, access))
    BY <2>5, <2>6, <2>8 DEF Promise!Grant, Promise!NoBorrow, Holding
  <2>10. Promise!BorrowOf(c, access) \in Promise!Borrow
    BY <2>1 DEF Promise!Borrow, Promise!Access, Access
  <2>11. QED
    BY <2>9, <2>10 DEF Promise!ANext
<1>3. ASSUME NEW g \in Guard, DropNative(g)
      PROVE  Promise!ANext
  <2>1. g \in Live /\ g \in Used
    BY <1>3 DEF DropNative, Live
  <2>2. /\ guards'[g].phase = "token"
        /\ \A h \in Guard \ {g} : guards'[h] = guards[h]
    BY <1>3, <2>1, GuardFacts DEF DropNative, IInv, TypeOK, At
  <2>3. g \notin Live'
    BY <2>2 DEF Live
  <2>4. \A h \in Guard \ {g} : h \in Live' <=> h \in Live
    BY <2>2 DEF Live, Used
  <2>5. Holding' = [Holding EXCEPT ![g] = none]
    BY <2>2, <2>3, <2>4 DEF Holding
  <2>6. Holding[g] # none
    BY <2>1, HoldersAreLive, HoldingFacts
  <2>7. Promise!Return(g)
    BY <2>5, <2>6 DEF Promise!Return, Promise!NoBorrow, Holding
  <2>8. QED
    BY <2>7 DEF Promise!ANext
<1>4. ASSUME NEW g \in Guard, NEW c \in Cell, NEW access \in Access, TakeToken(g, c, access)
      PROVE  Holding' = Holding
  <2>1. guards[g] = Unused /\ guards'[g] = At("backend", c, access)
        /\ \A h \in Guard \ {g} : guards'[h] = guards[h]
    BY <1>4 DEF TakeToken, IInv, TypeOK
  <2>2. QED
    BY <1>1, <2>1 DEF Live, Used, At
<1>5. ASSUME NEW g \in Guard, NativeRefused(g)
      PROVE  Holding' = Holding
  <2>1. /\ g \in Used /\ guards[g].phase = "backend" /\ guards'[g].phase = "token"
        /\ \A h \in Guard \ {g} : guards'[h] = guards[h]
    BY <1>5, GuardFacts DEF NativeRefused, IInv, TypeOK, At
  <2>2. QED
    BY <1>1, <2>1 DEF Live
<1>6. ASSUME NEW g \in Guard, DropToken(g)
      PROVE  Holding' = Holding
  <2>1. /\ guards[g].phase = "token" /\ guards'[g] = Unused
        /\ \A h \in Guard \ {g} : guards'[h] = guards[h]
    BY <1>6 DEF DropToken, IInv, TypeOK
  <2>2. QED
    BY <1>1, <2>1 DEF Live, Used
<1>7. ASSUME UNCHANGED guards
      PROVE  Holding' = Holding
  BY <1>7 DEF Holding, Live, Used
<1>8. ASSUME NEW c \in Cell, NEW access \in Access, TokenRefused(c, access) \/ CheckBorrow(c, access)
      PROVE  Holding' = Holding
  BY <1>7, <1>8 DEF TokenRefused, CheckBorrow
<1>9. QED
  BY <1>2, <1>3, <1>4, <1>5, <1>6, <1>7, <1>8 DEF Next, vars

\* The borrow layer, both tiers, implements the promise of AccountGuards.
THEOREM BorrowsImplementPromise == Spec => ImplementsPromise
<1>1. Init => Promise!AInit
  BY HoldingFacts DEF Init, Holding, Live, Used
<1>2. Spec => []IInv
  BY Invariance
<1>3. QED
  BY <1>1, <1>2, StepRefines, PTL DEF Spec, ImplementsPromise, Promise!ASpec, Holding

-----------------------------------------------------------------------------
(* The loader's input: words *)

\* Two multiples lie a whole step apart.
LEMMA PlacesApart ==
  ASSUME NEW S \in Nat \ {0}, NEW i \in Nat, NEW j \in Nat, i < j
  PROVE  i * S + S <= j * S
<1>1. PICK d \in Nat : j = i + 1 + d
  <2>1. j - (i + 1) \in Nat /\ j = i + 1 + (j - (i + 1))
    OBVIOUS
  <2>2. QED
    BY <2>1
<1>2. d * S \in Nat /\ j * S = i * S + S + d * S
  BY <1>1
<1>3. QED
  BY <1>2

\* A multiple of a word, and no other lies less than a word above it.
Whole(x) == \E q \in Nat : x = q * ALIGN

\* Multiples of a word add up.
LEMMA WholeFacts ==
  /\ ALIGN \in Nat \ {0}
  /\ Whole(0) /\ Whole(ALIGN)
  /\ \A x, y : Whole(x) /\ Whole(y) => Whole(x + y)
  /\ \A x : Whole(x) => x \in Nat
<1>1. ALIGN \in Nat \ {0}
  BY LoaderAssumption
<1>2. Whole(0) /\ Whole(ALIGN)
  <2>1. 0 = 0 * ALIGN /\ ALIGN = 1 * ALIGN
    BY <1>1
  <2>2. QED
    BY <2>1 DEF Whole
<1>3. ASSUME NEW x, NEW y, Whole(x), Whole(y) PROVE Whole(x + y)
  <2>1. PICK p0 \in Nat, q0 \in Nat : x = p0 * ALIGN /\ y = q0 * ALIGN
    BY <1>3 DEF Whole
  <2>2. p0 + q0 \in Nat /\ x + y = (p0 + q0) * ALIGN
    BY <1>1, <2>1
  <2>3. QED
    BY <2>2 DEF Whole
<1>4. \A x : Whole(x) => x \in Nat
  BY <1>1 DEF Whole
<1>5. QED
  BY <1>1, <1>2, <1>3, <1>4

\* Multiples less than a word apart are the same.
LEMMA WholeUnique ==
  ASSUME NEW x, NEW y, Whole(x), Whole(y), x < y + ALIGN, y < x + ALIGN
  PROVE  x = y
<1>1. ALIGN \in Nat \ {0}
  BY LoaderAssumption
<1>2. PICK p0 \in Nat, q0 \in Nat : x = p0 * ALIGN /\ y = q0 * ALIGN
  BY DEF Whole
<1>3. p0 * ALIGN \in Nat /\ q0 * ALIGN \in Nat
  BY <1>1
<1>4. CASE p0 < q0
  <2>1. p0 * ALIGN + ALIGN <= q0 * ALIGN
    BY <1>1, <1>4, PlacesApart
  <2>2. QED
    BY <1>1, <1>2, <1>3, <2>1
<1>5. CASE q0 < p0
  <2>1. q0 * ALIGN + ALIGN <= p0 * ALIGN
    BY <1>1, <1>5, PlacesApart
  <2>2. QED
    BY <1>1, <1>2, <1>3, <2>1
<1>6. QED
  BY <1>2, <1>4, <1>5

\* Rounding down to a word.
LEMMA Division ==
  ASSUME NEW x \in Nat
  PROVE  /\ Whole((x \div ALIGN) * ALIGN)
         /\ (x \div ALIGN) * ALIGN + (x % ALIGN) = x
         /\ x % ALIGN \in 0 .. ALIGN - 1
         /\ (x \div ALIGN) * ALIGN \in Nat
<1>1. ALIGN \in Nat \ {0}
  BY LoaderAssumption
<1>2. PICK q \in Int, r \in Int : q = x \div ALIGN /\ r = x % ALIGN
  BY <1>1
<1>3. x = q * ALIGN + r /\ r \in 0 .. ALIGN - 1
  BY <1>1, <1>2
<1>4. q \in Nat
  <2>1. SUFFICES ASSUME q < 0 PROVE FALSE
    OBVIOUS
  <2>2. q * ALIGN <= 0 - ALIGN
    <3>1. (0 - (q + 1)) \in Nat
      BY <2>1
    <3>2. (0 - (q + 1)) * ALIGN \in Nat
      BY <1>1, <3>1
    <3>3. (0 - (q + 1)) * ALIGN = 0 - q * ALIGN - ALIGN
      BY <1>1
    <3>4. QED
      BY <1>1, <3>2, <3>3
  <2>3. q * ALIGN \in Int
    BY <1>1
  <2>4. QED
    BY <1>1, <1>3, <2>2, <2>3
<1>5. QED
  BY <1>1, <1>2, <1>3, <1>4 DEF Whole

\* Rounding up to a word.
LEMMA RoundUpFacts ==
  ASSUME NEW x \in Nat
  PROVE  RoundUp(x) \in Nat /\ Whole(RoundUp(x)) /\ x <= RoundUp(x) /\ RoundUp(x) < x + ALIGN
<1>1. ALIGN \in Nat \ {0}
  BY LoaderAssumption
<1>2. x + ALIGN - 1 \in Nat
  BY <1>1
<1>3. PICK y \in Nat, r \in 0 .. ALIGN - 1 :
        /\ y = RoundUp(x) /\ Whole(y) /\ y + r = x + ALIGN - 1
  BY <1>2, Division DEF RoundUp
<1>4. QED
  BY <1>1, <1>3

Walks == {"pointer", "lazy", "frame"}

\* Three formulas, one stride.
LEMMA StridesAgree ==
  ASSUME NEW at, Whole(at), NEW len \in Nat, NEW walk \in Walks
  PROVE  Stride(walk, at, len) = at + Width(Canonical(len))
<1>1. /\ ALIGN \in Nat \ {0} /\ HEADER \in Nat /\ RESERVE \in Nat /\ at \in Nat
      /\ HEADER % ALIGN = 0 /\ RESERVE % ALIGN = 0
  BY LoaderAssumption, WholeFacts
<1>2. Whole(HEADER) /\ Whole(RESERVE)
  <2>1. (HEADER \div ALIGN) * ALIGN = HEADER /\ (RESERVE \div ALIGN) * ALIGN = RESERVE
    BY <1>1, Division
  <2>2. QED
    BY <1>1, <2>1, Division
<1> DEFINE body == HEADER + len + RESERVE
<1>3. body \in Nat /\ at + body \in Nat /\ at + body + ALIGN \in Nat
  BY <1>1
<1>4. Width(Canonical(len)) = RoundUp(body) + ALIGN
  BY DEF Width, Canonical
<1>5. RoundUp(body) \in Nat /\ Whole(RoundUp(body)) /\ body <= RoundUp(body) /\ RoundUp(body) < body + ALIGN
  BY <1>3, RoundUpFacts
<1>6. Whole(at + RoundUp(body)) /\ Whole(at + RoundUp(body) + ALIGN)
  BY <1>5, WholeFacts
<1>7. CASE walk = "pointer"
  <2>1. NextRecord(at, len) = RoundUp(at + body + ALIGN)
    <3>1. at + HEADER + RESERVE + ALIGN + (ALIGN - 1) + len = at + body + ALIGN + ALIGN - 1
      BY <1>1
    <3>2. QED
      BY <3>1 DEF NextRecord, RoundUp
  <2>2. PICK y \in Nat : /\ y = NextRecord(at, len) /\ Whole(y)
                         /\ at + body + ALIGN <= y /\ y < at + body + ALIGN + ALIGN
    BY <1>3, <2>1, RoundUpFacts
  <2>3. y = at + RoundUp(body) + ALIGN
    <3> HIDE DEF body
    <3>1. y < at + RoundUp(body) + ALIGN + ALIGN /\ at + RoundUp(body) + ALIGN < y + ALIGN
      BY <1>1, <1>3, <1>5, <2>2
    <3>2. QED
      BY <1>6, <2>2, <3>1, WholeUnique
  <2>4. QED
    BY <1>1, <1>4, <1>5, <1>7, <2>2, <2>3 DEF Stride
<1>8. CASE walk = "lazy"
  <2>1. RoundUp(len) \in Nat /\ Whole(RoundUp(len)) /\ len <= RoundUp(len) /\ RoundUp(len) < len + ALIGN
    BY RoundUpFacts
  <2>2. Whole(at + HEADER + RESERVE + ALIGN + RoundUp(len))
    BY <1>2, <2>1, WholeFacts
  <2>3. at + HEADER + RESERVE + ALIGN + RoundUp(len) = at + RoundUp(body) + ALIGN
    <3>1. PICK y \in Nat : y = RoundUp(len)
      BY <2>1
    <3>2. PICK z \in Nat : z = RoundUp(body)
      BY <1>5
    <3>3. /\ at + HEADER + RESERVE + ALIGN + y < at + z + ALIGN + ALIGN
          /\ at + z + ALIGN < at + HEADER + RESERVE + ALIGN + y + ALIGN
      BY <1>1, <1>5, <2>1, <3>1, <3>2
    <3>4. QED
      BY <1>6, <2>2, <3>1, <3>2, <3>3, WholeUnique
  <2>4. QED
    BY <1>1, <1>4, <1>5, <1>8, <2>3 DEF Stride, NonDupStride
<1>9. CASE walk = "frame"
  <2>1. PICK e \in Nat : e = at + HEADER + len + RESERVE
    BY <1>1
  <2>2. PICK r \in 0 .. ALIGN - 1 : r = e % ALIGN
    BY <2>1, Division
  <2>3. PICK b \in Nat : Whole(b) /\ b + r = e
    BY <2>1, <2>2, Division
  <2>4. PICK p0 \in Nat : p0 = (ALIGN - r) % ALIGN /\ p0 = IF r = 0 THEN 0 ELSE ALIGN - r
    <3>1. r = 0 => (ALIGN - r) % ALIGN = 0
      BY <1>1
    <3>2. r # 0 => (ALIGN - r) % ALIGN = ALIGN - r
      BY <1>1
    <3>3. QED
      BY <1>1, <3>1, <3>2
  <2>5. Whole(e + p0)
    <3>1. CASE r = 0
      BY <2>3, <2>4, <3>1, WholeFacts
    <3>2. CASE r # 0
      <4>1. e + p0 = b + ALIGN
        BY <1>1, <2>2, <2>3, <2>4, <3>2
      <4>2. QED
        BY <2>3, <4>1, WholeFacts
    <3>3. QED
      BY <3>1, <3>2
  <2>6. e + p0 = at + RoundUp(body)
    <3>1. PICK z \in Nat : z = RoundUp(body) /\ body <= z /\ z < body + ALIGN
      BY <1>5
    <3>2. e = at + body /\ p0 < ALIGN
      BY <1>1, <2>1, <2>2, <2>4
    <3> HIDE DEF body
    <3>3. e + p0 < at + z + ALIGN /\ at + z < e + p0 + ALIGN
      BY <1>1, <1>3, <3>1, <3>2
    <3>4. QED
      BY <1>6, <2>5, <3>1, <3>3, WholeUnique
  <2>7. AlignedStep(at, len) = e + p0 + ALIGN
    BY <2>1, <2>2, <2>4 DEF AlignedStep
  <2>8. QED
    BY <1>1, <1>4, <1>5, <1>9, <2>6, <2>7 DEF Stride
<1>10. QED
  BY <1>7, <1>8, <1>9 DEF Walks

-----------------------------------------------------------------------------
(* The records *)

Rec == {Canonical(n) : n \in Lengths} \cup {Duplicate(m) : m \in 0 .. FREE - 1}

\* A record is an account or a marker, and a whole number of words wide.
LEMMA RecordFacts ==
  ASSUME NEW s \in Inputs
  PROVE  /\ s \in Seq(Rec) /\ Len(s) \in Nat /\ DOMAIN s = 1 .. Len(s)
         /\ \A i \in 1 .. Len(s) :
              /\ s[i].dup \in BOOLEAN
              /\ ~s[i].dup => s[i].len \in Nat /\ s[i] = Canonical(s[i].len)
              /\ s[i].dup => s[i].of \in 0 .. FREE - 1 /\ s[i].of \in Nat /\ s[i].of # FREE
              /\ Width(s[i]) \in Nat /\ Whole(Width(s[i])) /\ ALIGN <= Width(s[i])
<1>1. s \in Seq(Rec)
  BY LoaderAssumption DEF Rec
<1>2. Len(s) \in Nat /\ DOMAIN s = 1 .. Len(s)
  BY <1>1
<1>3. ASSUME NEW i \in 1 .. Len(s)
      PROVE   /\ s[i].dup \in BOOLEAN
              /\ ~s[i].dup => s[i].len \in Nat /\ s[i] = Canonical(s[i].len)
              /\ s[i].dup => s[i].of \in 0 .. FREE - 1 /\ s[i].of \in Nat /\ s[i].of # FREE
              /\ Width(s[i]) \in Nat /\ Whole(Width(s[i])) /\ ALIGN <= Width(s[i])
  <2>1. s[i] \in Rec
    BY <1>1, <1>2
  <2>2. /\ FREE \in Nat /\ ALIGN \in Nat /\ Whole(ALIGN) /\ HEADER \in Nat /\ RESERVE \in Nat
        /\ Lengths \subseteq Nat
    BY LoaderAssumption, WholeFacts
  <2>3. CASE s[i] \in {Canonical(n) : n \in Lengths}
    <3>1. PICK n \in Nat : s[i] = Canonical(n)
      BY <2>2, <2>3
    <3>2. s[i].dup = FALSE /\ s[i].len = n
      BY <3>1 DEF Canonical
    <3>3. Width(s[i]) = RoundUp(HEADER + n + RESERVE) + ALIGN
      BY <3>2 DEF Width
    <3>4. HEADER + n + RESERVE \in Nat
      BY <2>2
    <3>5. RoundUp(HEADER + n + RESERVE) \in Nat /\ Whole(RoundUp(HEADER + n + RESERVE))
      BY <3>4, RoundUpFacts
    <3>6. Whole(Width(s[i]))
      BY <2>2, <3>3, <3>5, WholeFacts
    <3>7. Width(s[i]) \in Nat /\ ALIGN <= Width(s[i])
      <4>1. PICK y \in Nat : y = RoundUp(HEADER + n + RESERVE)
        BY <3>5
      <4>2. QED
        BY <2>2, <3>3, <4>1
    <3>8. ~s[i].dup => s[i].len \in Nat /\ s[i] = Canonical(s[i].len)
      BY <3>1, <3>2
    <3>9. s[i].dup \in BOOLEAN /\ ~s[i].dup
      BY <3>2, Zenon
    <3>10. QED
      BY <3>6, <3>7, <3>8, <3>9
  <2>4. CASE s[i] \in {Duplicate(m) : m \in 0 .. FREE - 1}
    <3>1. PICK m \in 0 .. FREE - 1 : s[i] = Duplicate(m)
      BY <2>4
    <3>2. s[i].dup = TRUE /\ s[i].of = m
      BY <3>1 DEF Duplicate
    <3>3. Width(s[i]) = ALIGN
      BY <3>2 DEF Width
    <3>4. Width(s[i]) \in Nat /\ Whole(Width(s[i])) /\ ALIGN <= Width(s[i])
      BY <2>2, <3>3
    <3>5. m \in Nat /\ m # FREE
      BY <2>2
    <3>6. s[i].dup \in BOOLEAN /\ s[i].dup
      BY <3>2, Zenon
    <3>7. s[i].of \in 0 .. FREE - 1 /\ s[i].of \in Nat /\ s[i].of # FREE
      BY <3>2, <3>5
    <3>8. QED
      BY <3>4, <3>6, <3>7
  <2>5. QED
    BY <2>1, <2>3, <2>4 DEF Rec
<1>4. QED
  BY <1>1, <1>2, <1>3

\* Two walks that start alike and step alike are alike.
LEMMA SameSteps ==
  ASSUME NEW a \in Nat, NEW n \in Nat, NEW f, NEW g, f[a] = g[a],
         \A k \in a + 1 .. n : f[k - 1] = g[k - 1] => f[k] = g[k]
  PROVE  \A k \in a .. n : f[k] = g[k]
<1> DEFINE Bad == {k \in a .. n : f[k] # g[k]}
<1>1. SUFFICES ASSUME Bad # {} PROVE FALSE
  OBVIOUS
<1>2. PICK k \in Bad : \A y \in Bad : k <= y
  <2>1. Bad \subseteq Nat
    OBVIOUS
  <2> HIDE DEF Bad
  <2>2. QED
    BY <1>1, <2>1, LeastElement
<1>3. k \in a .. n /\ f[k] # g[k]
  OBVIOUS
<1>4. k \in a + 1 .. n
  BY <1>3
<1>5. k - 1 \in a .. n /\ ~(k <= k - 1)
  BY <1>4
<1>6. k - 1 \notin Bad
  <2> HIDE DEF Bad
  <2>1. QED
    BY <1>2, <1>5
<1>7. f[k - 1] = g[k - 1]
  BY <1>5, <1>6
<1>8. QED
  BY <1>3, <1>4, <1>7

StartsOf(s) ==
  LET t[i \in 1 .. Len(s) + 1] == IF i = 1 THEN ALIGN ELSE t[i - 1] + Width(s[i - 1]) IN t

\* Where the first k records start, and what is behind them.
Laid(S, s, k) ==
  /\ S \in [1 .. k + 1 -> Nat] /\ S[1] = ALIGN
  /\ \A i \in 1 .. k : S[i + 1] = S[i] + Width(s[i])
  /\ \A i \in 1 .. k + 1 : Whole(S[i]) /\ ALIGN <= S[i]
  /\ \A i, j \in 1 .. k + 1 : i < j => S[i] < S[j]

\* One more record can be laid behind those there are.
LEMMA LaidFurther ==
  ASSUME NEW s \in Inputs, NEW k \in 1 .. Len(s), NEW R, Laid(R, s, k - 1)
  PROVE  \E S : Laid(S, s, k)
<1>1. /\ k \in Nat /\ ALIGN \in Nat /\ Width(s[k]) \in Nat /\ Whole(Width(s[k])) /\ ALIGN > 0
      /\ ALIGN <= Width(s[k])
  BY RecordFacts, LoaderAssumption
<1>2. PICK w \in Nat : w = R[k] + Width(s[k]) /\ R[k] < w /\ R[k] \in Nat
  <2>1. R[k] \in Nat
    BY <1>1 DEF Laid
  <2>2. QED
    BY <1>1, <2>1
<1>3. Whole(w)
  BY <1>1, <1>2, WholeFacts DEF Laid
<1>4. PICK S : S = [i \in 1 .. k + 1 |-> IF i = k + 1 THEN w ELSE R[i]]
  OBVIOUS
<1>5. S[k + 1] = w /\ \A i \in 1 .. k : S[i] = R[i] /\ R[i] \in Nat
  BY <1>1, <1>4 DEF Laid
<1>6. S \in [1 .. k + 1 -> Nat] /\ S[1] = ALIGN
  BY <1>1, <1>4, <1>5 DEF Laid
<1>7. ASSUME NEW i \in 1 .. k PROVE S[i + 1] = S[i] + Width(s[i])
  <2>1. CASE i = k
    BY <1>2, <1>5, <2>1
  <2>2. CASE i # k
    <3>1. i \in 1 .. k - 1 /\ i + 1 \in 1 .. k
      BY <2>2
    <3>2. QED
      BY <1>5, <3>1 DEF Laid
  <2>3. QED
    BY <2>1, <2>2
<1>8. ASSUME NEW i \in 1 .. k + 1 PROVE Whole(S[i]) /\ ALIGN <= S[i]
  <2>1. CASE i = k + 1
    BY <1>1, <1>2, <1>3, <1>5, <2>1 DEF Laid
  <2>2. CASE i # k + 1
    <3>1. i \in 1 .. k /\ i \in 1 .. (k - 1) + 1
      BY <2>2
    <3>2. QED
      BY <1>5, <3>1 DEF Laid
  <2>3. QED
    BY <2>1, <2>2
<1>9. ASSUME NEW i \in 1 .. k + 1, NEW j \in 1 .. k + 1, i < j PROVE S[i] < S[j]
  <2>0. i \in 1 .. k /\ S[i] = R[i] /\ R[i] \in Nat
    BY <1>5, <1>9
  <2>1. CASE j = k + 1
    <3>1. R[i] <= R[k]
      <4>1. i = k \/ (i \in 1 .. (k - 1) + 1 /\ k \in 1 .. (k - 1) + 1 /\ i < k)
        BY <2>0
      <4>2. i < k => R[i] < R[k]
        BY <4>1 DEF Laid
      <4>3. QED
        BY <1>2, <2>0, <4>1, <4>2
    <3>2. QED
      BY <1>2, <1>5, <2>0, <2>1, <3>1
  <2>2. CASE j # k + 1
    <3>1. j \in 1 .. k /\ j \in 1 .. (k - 1) + 1 /\ i \in 1 .. (k - 1) + 1
      BY <2>2, <2>0
    <3>2. QED
      BY <1>5, <1>9, <2>0, <3>1 DEF Laid
  <2>3. QED
    BY <2>1, <2>2
<1>10. QED
  BY <1>6, <1>7, <1>8, <1>9 DEF Laid

\* The starts are where the records are laid.
LEMMA StartsLaid ==
  ASSUME NEW s \in Inputs
  PROVE  Laid(StartsOf(s), s, Len(s))
<1>0. Len(s) \in Nat /\ ALIGN \in Nat
  BY RecordFacts, LoaderAssumption
<1>1. \E S : Laid(S, s, Len(s))
  <2> DEFINE Bad == {k \in 0 .. Len(s) : ~ \E S : Laid(S, s, k)}
  <2>1. SUFFICES ASSUME Bad # {} PROVE FALSE
    BY <1>0
  <2>2. PICK k \in Bad : \A y \in Bad : k <= y
    <3>1. Bad \subseteq Nat
      OBVIOUS
    <3> HIDE DEF Bad
    <3>2. QED
      BY <2>1, <3>1, LeastElement
  <2>3. k \in 0 .. Len(s) /\ ~ \E S : Laid(S, s, k)
    OBVIOUS
  <2>4. k # 0
    <3>1. PICK S : S = [i \in 1 .. 1 |-> ALIGN]
      OBVIOUS
    <3>2. Laid(S, s, 0)
      BY <1>0, <3>1, WholeFacts DEF Laid
    <3>3. QED
      BY <2>3, <3>2
  <2>5. k \in 1 .. Len(s) /\ k - 1 \in 0 .. Len(s) /\ ~(k <= k - 1)
    BY <2>3, <2>4
  <2>6. k - 1 \notin Bad
    <3> HIDE DEF Bad
    <3>1. QED
      BY <2>2, <2>5
  <2>7. \E R : Laid(R, s, k - 1)
    BY <2>5, <2>6
  <2>8. QED
    BY <2>3, <2>5, <2>7, LaidFurther
<1>2. PICK S : Laid(S, s, Len(s))
  BY <1>1
<1> DEFINE Equation(t) == t = [i \in 1 .. Len(s) + 1 |-> IF i = 1 THEN ALIGN ELSE t[i - 1] + Width(s[i - 1])]
<1>3. ASSUME NEW i \in 1 .. Len(s) + 1, i # 1 PROVE S[i] = S[i - 1] + Width(s[i - 1])
  <2>1. i - 1 \in 1 .. Len(s) /\ (i - 1) + 1 = i
    BY <1>0, <1>3
  <2>2. QED
    BY <1>2, <2>1 DEF Laid
<1>4. Equation(S)
  <2>1. S = [i \in 1 .. Len(s) + 1 |-> S[i]] /\ S[1] = ALIGN
    BY <1>2 DEF Laid
  <2>2. QED
    BY <1>3, <2>1
<1>5. StartsOf(s) = CHOOSE t : Equation(t)
  BY DEF StartsOf
<1>6. Equation(StartsOf(s))
  BY <1>4, <1>5
<1>7. PICK T : T = StartsOf(s)
  OBVIOUS
<1>8. T = [i \in 1 .. Len(s) + 1 |-> IF i = 1 THEN ALIGN ELSE T[i - 1] + Width(s[i - 1])]
  BY <1>6, <1>7
<1>9. \A i \in 1 .. Len(s) + 1 : T[i] = S[i]
  <2>1. T[1] = S[1]
    BY <1>0, <1>2, <1>8 DEF Laid
  <2>2. ASSUME NEW k \in 1 + 1 .. Len(s) + 1, T[k - 1] = S[k - 1] PROVE T[k] = S[k]
    <3>1. k \in 1 .. Len(s) + 1 /\ k # 1
      BY <1>0, <2>2
    <3>2. QED
      BY <1>3, <1>8, <2>2, <3>1
  <2>3. PICK n \in Nat : n = Len(s) + 1
    BY <1>0
  <2>4. \A k \in 1 + 1 .. n : T[k - 1] = S[k - 1] => T[k] = S[k]
    BY <2>2, <2>3
  <2>5. \A k \in 1 .. n : T[k] = S[k]
    BY <2>1, <2>4, SameSteps
  <2>6. QED
    BY <2>3, <2>5
<1>10. T = S
  <2>1. T = [i \in 1 .. Len(s) + 1 |-> T[i]] /\ S = [i \in 1 .. Len(s) + 1 |-> S[i]]
    BY <1>2, <1>8 DEF Laid
  <2>2. QED
    BY <1>9, <2>1
<1>11. QED
  BY <1>2, <1>7, <1>10

\* The addresses of the model, of the input as it is.
LEMMA StartsHere == Starts = StartsOf(input)
  BY DEF Starts, StartsOf

-----------------------------------------------------------------------------
(* The accounts *)

SoundIn(s, k) == \A i \in 1 .. k : s[i].dup => s[i].of < i - 1

AccountsOf(s, k) ==
  LET a[i \in 1 .. k] == IF s[i].dup THEN a[s[i].of + 1] ELSE StartsOf(s)[i]
  IN  [i \in 1 .. k |-> a[i]]

\* Every slot names what the slot it repeats names.
Names(A, s, k) ==
  \A i \in 1 .. k : A[i] = IF s[i].dup THEN A[s[i].of + 1] ELSE StartsOf(s)[i]

\* ... which is a record of its own, no later than the slot.
Rooted(A, s, k) ==
  \A i \in 1 .. k : \E j \in 1 .. i : ~s[j].dup /\ A[i] = StartsOf(s)[j]

\* A sound marker names a slot before its own.
LEMMA EarlierSlot ==
  ASSUME NEW s \in Inputs, NEW k \in 0 .. Len(s), SoundIn(s, k), NEW i \in 1 .. k, s[i].dup
  PROVE  /\ s[i].of + 1 \in 1 .. k /\ s[i].of + 1 < i /\ ~(i <= s[i].of + 1)
         /\ s[i].of \in Nat
<1>1. Len(s) \in Nat /\ i \in 1 .. Len(s)
  BY RecordFacts
<1>2. s[i].of \in Nat /\ s[i].of < i - 1
  BY <1>1, RecordFacts DEF SoundIn
<1>3. QED
  BY <1>1, <1>2

\* What the slots name is settled by the records.
LEMMA NamesAlike ==
  ASSUME NEW s \in Inputs, NEW k \in 0 .. Len(s), SoundIn(s, k),
         NEW A, NEW B, Names(A, s, k), Names(B, s, k)
  PROVE  \A i \in 1 .. k : A[i] = B[i]
<1> DEFINE Bad == {i \in 1 .. k : A[i] # B[i]}
<1>1. SUFFICES ASSUME Bad # {} PROVE FALSE
  OBVIOUS
<1>2. PICK i \in Bad : \A y \in Bad : i <= y
  <2>1. Bad \subseteq Nat
    OBVIOUS
  <2> HIDE DEF Bad
  <2>2. QED
    BY <1>1, <2>1, LeastElement
<1>3. i \in 1 .. k /\ A[i] # B[i]
  OBVIOUS
<1>4. s[i].dup
  BY <1>3 DEF Names
<1>5. s[i].of + 1 \in 1 .. k /\ ~(i <= s[i].of + 1)
  BY <1>3, <1>4, EarlierSlot
<1>6. s[i].of + 1 \notin Bad
  <2> HIDE DEF Bad
  <2>1. QED
    BY <1>2, <1>5
<1>7. A[s[i].of + 1] = B[s[i].of + 1]
  BY <1>5, <1>6
<1>8. QED
  BY <1>3, <1>4, <1>7 DEF Names

\* A sound section is sound as far as one looks.
LEMMA SoundShorter ==
  ASSUME NEW s, NEW n \in Nat, NEW k \in 0 .. n, SoundIn(s, n)
  PROVE  SoundIn(s, k)
<1>1. \A i \in 1 .. k : i \in 1 .. n
  OBVIOUS
<1>2. QED
  BY <1>1 DEF SoundIn

\* There are accounts for the slots to name.
LEMMA AccountsExist ==
  ASSUME NEW s \in Inputs, NEW n \in 0 .. Len(s), SoundIn(s, n)
  PROVE  \E A : A = [i \in 1 .. n |-> A[i]] /\ Names(A, s, n) /\ Rooted(A, s, n)
<1> DEFINE Solved(k) == \E A : A = [i \in 1 .. k |-> A[i]] /\ Names(A, s, k) /\ Rooted(A, s, k)
           Bad == {k \in 0 .. n : ~Solved(k)}
<1>0. Len(s) \in Nat /\ n \in Nat
  BY RecordFacts
<1>1. SUFFICES ASSUME Bad # {} PROVE FALSE
  BY <1>0
<1>2. PICK k \in Bad : \A y \in Bad : k <= y
  <2>1. Bad \subseteq Nat
    OBVIOUS
  <2> HIDE DEF Bad
  <2>2. QED
    BY <1>1, <2>1, LeastElement
<1>3. k \in 0 .. n /\ ~Solved(k)
  OBVIOUS
<1>4. k # 0
  <2>1. PICK A : A = [i \in 1 .. 0 |-> 0]
    OBVIOUS
  <2>2. A = [i \in 1 .. 0 |-> A[i]] /\ Names(A, s, 0) /\ Rooted(A, s, 0)
    BY <2>1 DEF Names, Rooted
  <2>3. QED
    BY <1>3, <2>2
<1>5. k \in 1 .. n /\ k - 1 \in 0 .. n /\ ~(k <= k - 1) /\ k \in 1 .. Len(s)
  BY <1>0, <1>3, <1>4
<1>6. k - 1 \notin Bad
  <2> HIDE DEF Bad
  <2>1. QED
    BY <1>2, <1>5
<1>7. PICK R : R = [i \in 1 .. k - 1 |-> R[i]] /\ Names(R, s, k - 1) /\ Rooted(R, s, k - 1)
  BY <1>5, <1>6
<1>8. PICK A : A = [i \in 1 .. k |-> IF i < k THEN R[i]
                                     ELSE IF s[k].dup THEN R[s[k].of + 1] ELSE StartsOf(s)[k]]
  OBVIOUS
<1>9. \A i \in 1 .. k - 1 : A[i] = R[i]
  BY <1>5, <1>8
<1>10. A[k] = IF s[k].dup THEN R[s[k].of + 1] ELSE StartsOf(s)[k]
  BY <1>5, <1>8
<1>11. SoundIn(s, k) /\ SoundIn(s, k - 1)
  BY <1>0, <1>5, SoundShorter
<1>12. s[k].dup => s[k].of + 1 \in 1 .. k - 1
  <2>1. SUFFICES ASSUME s[k].dup PROVE s[k].of + 1 \in 1 .. k - 1
    OBVIOUS
  <2>2. k \in 0 .. Len(s) /\ k \in 1 .. k
    BY <1>0, <1>5
  <2>3. s[k].of + 1 \in 1 .. k /\ s[k].of + 1 < k
    BY <1>11, <2>1, <2>2, EarlierSlot
  <2>4. QED
    BY <1>5, <2>3
<1>13. Names(A, s, k)
  <2>1. ASSUME NEW i \in 1 .. k PROVE A[i] = IF s[i].dup THEN A[s[i].of + 1] ELSE StartsOf(s)[i]
    <3>1. CASE i = k
      BY <1>9, <1>10, <1>12, <3>1
    <3>2. CASE i # k
      <4>1. i \in 1 .. k - 1 /\ k - 1 \in 0 .. Len(s)
        BY <1>0, <1>5, <3>2
      <4>2. s[i].dup => s[i].of + 1 \in 1 .. k - 1
        BY <1>11, <4>1, EarlierSlot
      <4>3. QED
        BY <1>7, <1>9, <4>1, <4>2 DEF Names
    <3>3. QED
      BY <3>1, <3>2
  <2>2. QED
    BY <2>1 DEF Names
<1>14. Rooted(A, s, k)
  <2>1. ASSUME NEW i \in 1 .. k - 1 PROVE \E j \in 1 .. i : ~s[j].dup /\ A[i] = StartsOf(s)[j]
    BY <1>7, <1>9, <2>1 DEF Rooted
  <2>2. \E j \in 1 .. k : ~s[j].dup /\ A[k] = StartsOf(s)[j]
    <3>1. CASE s[k].dup
      <4>1. PICK m \in 1 .. k - 1 : m = s[k].of + 1 /\ A[k] = A[m]
        BY <1>9, <1>10, <1>12, <3>1
      <4>2. PICK j \in 1 .. m : ~s[j].dup /\ A[m] = StartsOf(s)[j]
        BY <2>1
      <4>3. j \in 1 .. k
        BY <1>5
      <4>4. QED
        BY <4>1, <4>2, <4>3
    <3>2. CASE ~s[k].dup
      <4>1. k \in 1 .. k /\ A[k] = StartsOf(s)[k]
        BY <1>5, <1>10, <3>2
      <4>2. QED
        BY <3>2, <4>1
    <3>3. QED
      BY <3>1, <3>2
  <2>3. \A i \in 1 .. k : i = k \/ i \in 1 .. k - 1
    BY <1>5
  <2>4. QED
    BY <2>1, <2>2, <2>3 DEF Rooted
<1>15. A = [i \in 1 .. k |-> A[i]]
  BY <1>8
<1>16. QED
  BY <1>3, <1>13, <1>14, <1>15

\* The accounts are what the slots name.
LEMMA AccountsNamed ==
  ASSUME NEW s \in Inputs, NEW k \in 0 .. Len(s), SoundIn(s, k)
  PROVE  /\ AccountsOf(s, k) \in [1 .. k -> Nat]
         /\ AccountsOf(s, k) \in Seq(Nat) /\ Len(AccountsOf(s, k)) = k
         /\ Names(AccountsOf(s, k), s, k) /\ Rooted(AccountsOf(s, k), s, k)
<1> DEFINE Equation(t) == t = [i \in 1 .. k |-> IF s[i].dup THEN t[s[i].of + 1] ELSE StartsOf(s)[i]]
<1>1. PICK A : A = [i \in 1 .. k |-> A[i]] /\ Names(A, s, k) /\ Rooted(A, s, k)
  BY AccountsExist
<1>2. Equation(A)
  BY <1>1 DEF Names
<1>3. AccountsOf(s, k) = [i \in 1 .. k |-> (CHOOSE t : Equation(t))[i]]
  BY DEF AccountsOf
<1>4. PICK T : Equation(T) /\ T = CHOOSE t : Equation(t)
  BY <1>2
<1>5. Names(T, s, k)
  BY <1>4 DEF Names
<1>6. \A i \in 1 .. k : T[i] = A[i]
  BY <1>1, <1>5, NamesAlike
<1>7. AccountsOf(s, k) = A
  <2>1. AccountsOf(s, k) = [i \in 1 .. k |-> T[i]]
    BY <1>3, <1>4
  <2>2. QED
    BY <1>1, <1>6, <2>1
<1>8. k \in Nat /\ Len(s) \in Nat
  BY RecordFacts
<1>9. A \in [1 .. k -> Nat]
  <2>1. ASSUME NEW i \in 1 .. k PROVE A[i] \in Nat
    <3>1. PICK j \in 1 .. i : A[i] = StartsOf(s)[j]
      BY <1>1 DEF Rooted
    <3>2. j \in 1 .. Len(s) + 1
      BY <1>8
    <3>3. QED
      BY <3>1, <3>2, StartsLaid DEF Laid
  <2>2. QED
    BY <1>1, <2>1
<1>10. A \in Seq(Nat) /\ Len(A) = k
  BY <1>8, <1>9
<1>11. QED
  BY <1>1, <1>7, <1>9, <1>10

\* The accounts of more slots begin with those of fewer.
LEMMA AccountsPrefix ==
  ASSUME NEW s \in Inputs, NEW n \in 0 .. Len(s), SoundIn(s, n), NEW k \in 0 .. n
  PROVE  /\ \A i \in 1 .. k : AccountsOf(s, n)[i] = AccountsOf(s, k)[i]
         /\ SubSeq(AccountsOf(s, n), 1, k) = AccountsOf(s, k)
<1>1. /\ Len(s) \in Nat /\ n \in Nat /\ k \in Nat /\ k \in 0 .. Len(s) /\ k <= n
      /\ SoundIn(s, k)
  BY RecordFacts, SoundShorter
<1>2. Names(AccountsOf(s, n), s, k)
  <2>1. \A i \in 1 .. k : i \in 1 .. n
    BY <1>1
  <2>2. QED
    BY <2>1, AccountsNamed DEF Names
<1>3. \A i \in 1 .. k : AccountsOf(s, n)[i] = AccountsOf(s, k)[i]
  BY <1>1, <1>2, AccountsNamed, NamesAlike
<1>4. PICK A, B : /\ A = AccountsOf(s, n) /\ A \in Seq(Nat) /\ Len(A) = n
                  /\ B = AccountsOf(s, k) /\ B \in Seq(Nat) /\ Len(B) = k
                  /\ \A i \in 1 .. k : A[i] = B[i]
  BY <1>1, <1>3, AccountsNamed
<1>5. SubSeq(A, 1, k) = B
  BY <1>1, <1>4
<1>6. QED
  BY <1>3, <1>4, <1>5

\* What the next slot names is appended.
LEMMA AccountsAppend ==
  ASSUME NEW s \in Inputs, NEW k \in 0 .. Len(s) - 1, SoundIn(s, k + 1)
  PROVE  AccountsOf(s, k + 1) =
           Append(AccountsOf(s, k),
                  IF s[k + 1].dup THEN AccountsOf(s, k)[s[k + 1].of + 1] ELSE StartsOf(s)[k + 1])
<1>1. /\ Len(s) \in Nat /\ k \in Nat /\ k + 1 \in 0 .. Len(s) /\ k \in 0 .. k + 1 /\ k \in 0 .. Len(s)
      /\ k + 1 \in 1 .. k + 1 /\ SoundIn(s, k)
  BY RecordFacts, SoundShorter
<1>2. PICK A, B : /\ A = AccountsOf(s, k + 1) /\ A \in Seq(Nat) /\ Len(A) = k + 1
                  /\ B = AccountsOf(s, k) /\ B \in Seq(Nat) /\ Len(B) = k
                  /\ \A i \in 1 .. k : A[i] = B[i]
                  /\ Names(A, s, k + 1)
  BY <1>1, AccountsNamed, AccountsPrefix
<1>3. A[k + 1] = IF s[k + 1].dup THEN B[s[k + 1].of + 1] ELSE StartsOf(s)[k + 1]
  <2>1. CASE s[k + 1].dup
    <3>1. s[k + 1].of + 1 \in 1 .. k + 1 /\ s[k + 1].of + 1 < k + 1 /\ s[k + 1].of \in Nat
      BY <1>1, <2>1, EarlierSlot
    <3>2. s[k + 1].of + 1 \in 1 .. k
      BY <1>1, <3>1
    <3>3. QED
      BY <1>1, <1>2, <2>1, <3>2 DEF Names
  <2>2. CASE ~s[k + 1].dup
    BY <1>1, <1>2, <2>2 DEF Names
  <2>3. QED
    BY <2>1, <2>2
<1>4. A[k + 1] \in Nat
  BY <1>1, <1>2
<1>5. A = Append(B, A[k + 1])
  BY <1>1, <1>2, <1>4
<1>6. QED
  BY <1>2, <1>3, <1>5

\* The accounts of the model are those of its input.
LEMMA AccountsHere ==
  ASSUME NEW k
  PROVE  Accounts(k) = AccountsOf(input, k) /\ (Sound(k) <=> SoundIn(input, k))
<1>1. Accounts(k) = AccountsOf(input, k)
  BY DEF Accounts, AccountsOf, Starts, StartsOf
<1>2. QED
  BY <1>1 DEF Sound, SoundIn

-----------------------------------------------------------------------------
(* One record is crossed *)

\* Behind the first m records the loader's bytes are as they were.
Ready(m) ==
  /\ input \in Inputs /\ m \in 0 .. Len(input)
  /\ header \in [1 .. Len(input) -> [borrow : Nat, len : Nat, baseline : Nat]]
  /\ \A i \in m + 1 .. Len(input) :
       header[i].borrow = FREE /\ (~input[i].dup => header[i].len = input[i].len)

Walker(at, slot, v, f, state) ==
  [at |-> at, slot |-> slot, views |-> v, fresh |-> f, state |-> state]

NamesEarlier(i) == input[i].dup => input[i].of < i - 1

\* The places of the records, which tell them apart.
Place(i) == StartsOf(input)[i]

\* The places rise by the width of the records.
LEMMA PlaceFacts ==
  ASSUME input \in Inputs
  PROVE  /\ Len(input) \in Nat /\ Slots = 1 .. Len(input)
         /\ \A i \in 1 .. Len(input) + 1 : Place(i) \in Nat /\ Whole(Place(i)) /\ ALIGN <= Place(i)
         /\ \A i \in 1 .. Len(input) : Place(i + 1) = Place(i) + Width(input[i])
         /\ \A i, j \in 1 .. Len(input) + 1 : i < j => Place(i) < Place(j)
         /\ \A i, j \in 1 .. Len(input) + 1 : Place(i) = Place(j) => i = j
         /\ Place(1) = ALIGN
         /\ \A i : Starts[i] = Place(i)
         /\ TailStart = Place(Len(input) + 1)
<1>1. Len(input) \in Nat /\ Slots = 1 .. Len(input)
  BY RecordFacts DEF Slots
<1>2. /\ \A i \in 1 .. Len(input) + 1 : Place(i) \in Nat /\ Whole(Place(i)) /\ ALIGN <= Place(i)
      /\ \A i \in 1 .. Len(input) : Place(i + 1) = Place(i) + Width(input[i])
      /\ \A i, j \in 1 .. Len(input) + 1 : i < j => Place(i) < Place(j)
      /\ Place(1) = ALIGN
  <2>1. Laid(StartsOf(input), input, Len(input))
    BY StartsLaid
  <2>2. \A i \in 1 .. Len(input) + 1 : Place(i) \in Nat
    BY <2>1 DEF Laid, Place
  <2>3. QED
    BY <2>1, <2>2 DEF Laid, Place
<1>3. ASSUME NEW i \in 1 .. Len(input) + 1, NEW j \in 1 .. Len(input) + 1, Place(i) = Place(j)
      PROVE  i = j
  <2>1. ~(i < j) /\ ~(j < i)
    BY <1>2, <1>3
  <2>2. QED
    BY <1>1, <2>1
<1>4. (\A i : Starts[i] = Place(i)) /\ TailStart = Place(Len(input) + 1)
  BY StartsHere DEF Place, TailStart
<1>5. QED
  BY <1>1, <1>2, <1>3, <1>4

\* A place is that of one record.
LEMMA Located ==
  ASSUME input \in Inputs, NEW i \in 1 .. Len(input)
  PROVE  /\ RecordAt(Place(i)) = {i}
         /\ (CHOOSE x \in RecordAt(Place(i)) : TRUE) = i
<1>1. \A x \in 1 .. Len(input) : x \in 1 .. Len(input) + 1
  BY PlaceFacts
<1>2. RecordAt(Place(i)) = {i}
  BY <1>1, PlaceFacts DEF RecordAt
<1>3. QED
  BY <1>2

\* Ahead of a walk a first byte is what the loader wrote.
LEMMA MarkerFacts ==
  ASSUME NEW m, Ready(m), NEW i \in m + 1 .. Len(input)
  PROVE  /\ i \in 1 .. Len(input)
         /\ input[i].dup => Marker(i) = input[i].of /\ Marker(i) # FREE /\ Marker(i) \in Nat
         /\ ~input[i].dup => Marker(i) = FREE
<1>1. i \in 1 .. Len(input)
  BY PlaceFacts DEF Ready
<1>2. input[i].dup => Marker(i) = input[i].of /\ Marker(i) # FREE /\ Marker(i) \in Nat
  BY <1>1, RecordFacts DEF Marker, Ready
<1>3. ~input[i].dup => Marker(i) = FREE
  BY <1>1 DEF Marker, Ready
<1>4. QED
  BY <1>1, <1>2, <1>3

Moved(w, at, slot) == [w EXCEPT !.at = at, !.slot = slot]
Caught(w) == [w EXCEPT !.state = "trapped"]
Sees(w, v, f) == [w EXCEPT !.views = v, !.fresh = f]

\* What the steps of a walk change.
LEMMA WalkerChanges ==
  ASSUME NEW at, NEW slot, NEW v, NEW f, NEW state
  PROVE  /\ \A at2, slot2 : Moved(Walker(at, slot, v, f, state), at2, slot2) = Walker(at2, slot2, v, f, state)
         /\ \A v2, f2 : Sees(Walker(at, slot, v, f, state), v2, f2) = Walker(at, slot, v2, f2, state)
         /\ Caught(Walker(at, slot, v, f, state)) = Walker(at, slot, v, f, "trapped")
<1>1. ASSUME NEW at2, NEW slot2
      PROVE  Moved(Walker(at, slot, v, f, state), at2, slot2) = Walker(at2, slot2, v, f, state)
  <2>1. PICK y : y = Walker(at2, slot, v, f, state)
    OBVIOUS
  <2>2. [Walker(at, slot, v, f, state) EXCEPT !.at = at2] = y
    BY <2>1 DEF Walker
  <2>3. [y EXCEPT !.slot = slot2] = Walker(at2, slot2, v, f, state)
    BY <2>1 DEF Walker
  <2>4. QED
    BY <2>2, <2>3 DEF Moved
<1>2. ASSUME NEW v2, NEW f2
      PROVE  Sees(Walker(at, slot, v, f, state), v2, f2) = Walker(at, slot, v2, f2, state)
  <2>1. PICK y : y = Walker(at, slot, v2, f, state)
    OBVIOUS
  <2>2. [Walker(at, slot, v, f, state) EXCEPT !.views = v2] = y
    BY <2>1 DEF Walker
  <2>3. [y EXCEPT !.fresh = f2] = Walker(at, slot, v2, f2, state)
    BY <2>1 DEF Walker
  <2>4. QED
    BY <2>2, <2>3 DEF Sees
<1>3. Caught(Walker(at, slot, v, f, state)) = Walker(at, slot, v, f, "trapped")
  BY DEF Caught, Walker
<1>4. QED
  BY <1>1, <1>2, <1>3

\* A record is crossed if its marker is sound or nobody looks at it.
LEMMA CrossOne ==
  ASSUME NEW m, Ready(m), NEW j \in m .. Len(input) - 1,
         NEW walk \in Walks, NEW v, NEW f
  PROVE  /\ Cross(Walker(Place(j + 1), j, v, f, "walking"), walk, FALSE) =
              IF NamesEarlier(j + 1) THEN Walker(Place(j + 2), j + 1, v, f, "walking")
              ELSE Walker(Place(j + 1), j, v, f, "trapped")
         /\ Cross(Walker(Place(j + 1), j, v, f, "walking"), walk, TRUE) =
              Walker(Place(j + 2), j + 1, v, f, "walking")
<1> DEFINE w == Walker(Place(j + 1), j, v, f, "walking")
           i == j + 1
           next == Walker(Place(i + 1), j + 1, v, f, "walking")
<1>1. /\ input \in Inputs /\ i \in m + 1 .. Len(input) /\ i \in 1 .. Len(input) /\ j \in Nat
      /\ i + 1 = j + 2 /\ i \in 1 .. Len(input) + 1 /\ i - 1 = j
  BY PlaceFacts DEF Ready
<1>2. w.at = Place(i) /\ w.slot = j /\ w.state = "walking"
  BY DEF Walker
<1>3. RecordAt(w.at) # {} /\ (CHOOSE x \in RecordAt(w.at) : TRUE) = i
  BY <1>1, <1>2, Located
<1>4. /\ Moved(w, Place(i + 1), j + 1) = next
      /\ Caught(w) = Walker(Place(i), j, v, f, "trapped")
  BY WalkerChanges
<1> HIDE DEF w, i, next
<1>5. /\ Cross(w, walk, FALSE) =
           IF Marker(i) = FREE THEN Moved(w, Stride(walk, w.at, header[i].len), w.slot + 1)
           ELSE IF Marker(i) < w.slot THEN Moved(w, w.at + ALIGN, w.slot + 1) ELSE Caught(w)
      /\ Cross(w, walk, TRUE) =
           IF Marker(i) = FREE THEN Moved(w, Stride(walk, w.at, header[i].len), w.slot + 1)
           ELSE Moved(w, w.at + ALIGN, w.slot + 1)
  BY <1>2, <1>3 DEF Cross, Moved, Caught
<1>6. CASE ~input[i].dup
  <2>1. Marker(i) = FREE /\ NamesEarlier(i) /\ header[i].len = input[i].len
    BY <1>1, <1>6, MarkerFacts DEF NamesEarlier, Ready
  <2>2. input[i].len \in Nat /\ input[i] = Canonical(input[i].len)
    BY <1>1, <1>6, RecordFacts
  <2>3. Stride(walk, Place(i), header[i].len) = Place(i + 1)
    BY <1>1, <2>1, <2>2, PlaceFacts, StridesAgree
  <2>4. Cross(w, walk, FALSE) = next /\ Cross(w, walk, TRUE) = next
    BY <1>2, <1>4, <1>5, <2>1, <2>3
  <2>5. QED
    BY <1>1, <2>1, <2>4 DEF w, i, next
<1>7. CASE input[i].dup
  <2>1. Marker(i) = input[i].of /\ Marker(i) # FREE
    BY <1>1, <1>7, MarkerFacts
  <2>2. NamesEarlier(i) <=> Marker(i) < w.slot
    BY <1>1, <1>2, <1>7, <2>1 DEF NamesEarlier
  <2>3. w.at + ALIGN = Place(i + 1)
    BY <1>1, <1>2, <1>7, PlaceFacts DEF Width
  <2>4. /\ Cross(w, walk, FALSE) = IF NamesEarlier(i) THEN next ELSE Walker(Place(i), j, v, f, "trapped")
        /\ Cross(w, walk, TRUE) = next
    BY <1>2, <1>4, <1>5, <2>1, <2>2, <2>3
  <2>5. QED
    BY <1>1, <2>4 DEF w, i, next
<1>8. QED
  BY <1>6, <1>7

\* A walk that has stopped stays where it is.
LEMMA Stopped ==
  ASSUME NEW w, w.state # "walking", NEW walk, NEW trusting
  PROVE  Cross(w, walk, trusting) = w /\ Take(w, walk) = w
<1>1. Cross(w, walk, trusting) = w /\ Cross(w, walk, FALSE) = w
  BY DEF Cross
<1>2. QED
  BY <1>1 DEF Take

\* The records of the slots from m + 1 to j that hold an account.
Crossed(m, j) == {Place(i) : i \in {x \in m + 1 .. j : ~input[x].dup}}

\* A record is taken while the accounts so far are those the loader named.
LEMMA TakeOne ==
  ASSUME NEW m, Ready(m), NEW j \in m .. Len(input) - 1, SoundIn(input, j),
         NEW walk \in Walks
  PROVE  Take(Walker(Place(j + 1), j, AccountsOf(input, j), Crossed(m, j), "walking"), walk) =
           IF SoundIn(input, j + 1)
             THEN Walker(Place(j + 2), j + 1, AccountsOf(input, j + 1), Crossed(m, j + 1), "walking")
             ELSE Walker(Place(j + 1), j, AccountsOf(input, j), Crossed(m, j), "trapped")
<1> DEFINE w == Walker(Place(j + 1), j, AccountsOf(input, j), Crossed(m, j), "walking")
           i == j + 1
           c == Walker(Place(j + 2), j + 1, AccountsOf(input, j), Crossed(m, j), "walking")
<1>1. /\ input \in Inputs /\ i \in m + 1 .. Len(input) /\ i \in 1 .. Len(input) /\ j \in Nat
      /\ i \in 1 .. Len(input) + 1 /\ j \in 0 .. Len(input) - 1 /\ m \in Nat
  BY PlaceFacts DEF Ready
<1>2. SoundIn(input, i) <=> NamesEarlier(i)
  <2>1. 1 .. i = (1 .. j) \cup {i}
    BY <1>1
  <2>2. QED
    BY <2>1 DEF SoundIn, NamesEarlier
<1>3. Cross(w, walk, FALSE) =
        IF NamesEarlier(i) THEN c ELSE Walker(Place(j + 1), j, AccountsOf(input, j), Crossed(m, j), "trapped")
  BY CrossOne
<1>4. CASE ~NamesEarlier(i)
  <2>1. Cross(w, walk, FALSE).state # "walking"
    <3>1. "trapped" # "walking"
      OBVIOUS
    <3>2. PICK x : x = Walker(Place(j + 1), j, AccountsOf(input, j), Crossed(m, j), "trapped")
      OBVIOUS
    <3>3. x.state = "trapped" /\ Cross(w, walk, FALSE) = x
      <4>1. x.state = "trapped"
        BY <3>2 DEF Walker
      <4>2. QED
        BY <1>3, <1>4, <3>2, <4>1
    <3>4. QED
      BY <3>1, <3>3
  <2>2. Take(w, walk) = Cross(w, walk, FALSE)
    BY <2>1 DEF Take
  <2>3. QED
    BY <1>2, <1>3, <1>4, <2>2
<1>5. CASE NamesEarlier(i)
  <2>1. Cross(w, walk, FALSE) = c /\ c.state = "walking"
    BY <1>3, <1>5 DEF Walker
  <2>2. w.at = Place(i) /\ w.views = AccountsOf(input, j)
    BY DEF Walker
  <2>3. (CHOOSE x \in RecordAt(w.at) : TRUE) = i
    BY <1>1, <2>2, Located
  <2> DEFINE seen == IF Marker(i) = FREE THEN w.at ELSE w.views[Marker(i) + 1]
             new == Captured(w, i)
  <2>4. Take(w, walk) = Sees(c, Append(c.views, seen), c.fresh \cup new)
    <3>1. Take(w, walk) =
            Sees(c, Append(c.views, IF Marker(i) = FREE THEN w.at ELSE w.views[Marker(i) + 1]),
                 c.fresh \cup Captured(w, i))
      <4> DEFINE found == CHOOSE x \in RecordAt(w.at) : TRUE
      <4> HIDE DEF w, i, c
      <4>1. Cross(w, walk, FALSE).state = "walking"
        BY <2>1
      <4>2. Take(w, walk) =
              Sees(Cross(w, walk, FALSE),
                   Append(Cross(w, walk, FALSE).views,
                          IF Marker(found) = FREE THEN w.at ELSE w.views[Marker(found) + 1]),
                   Cross(w, walk, FALSE).fresh \cup Captured(w, found))
        BY <4>1 DEF Take, Sees
      <4>3. found = i
        BY <2>3
      <4> HIDE DEF found
      <4>4. QED
        BY <2>1, <4>2, <4>3
    <3>2. QED
      BY <3>1
  <2>5. Append(AccountsOf(input, j), seen) = AccountsOf(input, i)
    <3>1. SoundIn(input, j + 1)
      BY <1>2, <1>5
    <3>2. seen = IF input[i].dup THEN AccountsOf(input, j)[input[i].of + 1] ELSE Place(i)
      <4> HIDE DEF w, i
      <4>1. QED
        BY <1>1, <2>2, MarkerFacts
    <3>3. QED
      BY <1>1, <3>1, <3>2, AccountsAppend DEF Place
  <2>6. Crossed(m, j) \cup new = Crossed(m, i)
    <3>1. m + 1 .. i = (m + 1 .. j) \cup {i}
      BY <1>1
    <3>2. Crossed(m, i) = Crossed(m, j) \cup (IF input[i].dup THEN {} ELSE {Place(i)})
      <4> HIDE DEF i
      <4>1. QED
        BY <3>1 DEF Crossed
    <3>3. new = IF input[i].dup THEN {} ELSE {Place(i)}
      <4> HIDE DEF w, i
      <4>1. QED
        BY <1>1, <2>2, MarkerFacts DEF Captured
    <3>4. QED
      BY <3>2, <3>3
  <2>7. Sees(c, Append(c.views, seen), c.fresh \cup new) =
          Walker(Place(j + 2), j + 1, Append(AccountsOf(input, j), seen), Crossed(m, j) \cup new, "walking")
    <3>1. c.views = AccountsOf(input, j) /\ c.fresh = Crossed(m, j)
      BY DEF Walker
    <3>2. \A v2, f2 : Sees(c, v2, f2) = Walker(Place(j + 2), j + 1, v2, f2, "walking")
      BY WalkerChanges
    <3> HIDE DEF seen, new, c
    <3>3. QED
      BY <3>1, <3>2
  <2>8. QED
    BY <1>2, <1>5, <2>4, <2>5, <2>6, <2>7
<1>6. QED
  BY <1>4, <1>5

-----------------------------------------------------------------------------
(* Many records *)

\* Two walks of n steps that take the same ones end alike.
LEMMA SameWalk ==
  ASSUME NEW n \in Nat, NEW f, NEW g, f[0] = g[0],
         \A k \in 1 .. n : f[k - 1] = g[k - 1] => f[k] = g[k]
  PROVE  f[n] = g[n]
<1>1. 0 \in Nat /\ 0 + 1 = 1 /\ n \in 0 .. n
  OBVIOUS
<1>2. \A k \in 0 + 1 .. n : f[k - 1] = g[k - 1] => f[k] = g[k]
  BY <1>1
<1>3. \A k \in 0 .. n : f[k] = g[k]
  BY <1>1, <1>2, SameSteps
<1>4. QED
  BY <1>1, <1>3

\* Where a walk over n records from the slot behind m stops: at the first of a set,
\* or behind all of them.
LEMMA FirstOf ==
  ASSUME NEW m \in Nat, NEW n \in Nat, NEW B
  PROVE  \E u \in m + 1 .. m + n + 1 :
           (\A i \in m + 1 .. u - 1 : i \notin B) /\ (u <= m + n => u \in B)
<1> DEFINE T == {i \in m + 1 .. m + n : i \in B} \cup {m + n + 1}
<1>1. PICK u \in T : \A y \in T : u <= y
  <2>1. T \subseteq Nat /\ T # {}
    OBVIOUS
  <2> HIDE DEF T
  <2>2. QED
    BY <2>1, LeastElement
<1>2. u \in m + 1 .. m + n + 1 /\ (u <= m + n => u \in B)
  BY <1>1
<1>3. ASSUME NEW i \in m + 1 .. u - 1, i \in B PROVE FALSE
  <2>1. i \in m + 1 .. m + n /\ ~(u <= i)
    BY <1>2
  <2>2. i \in T
    BY <1>3, <2>1
  <2> HIDE DEF T
  <2>3. QED
    BY <1>1, <2>1, <2>2
<1>4. QED
  BY <1>2, <1>3

\* What stops a walk that trusts no marker.
Unsound == {i \in Slots : ~NamesEarlier(i)}

\* The records are sound up to the first unsound one.
LEMMA SoundUpTo ==
  ASSUME input \in Inputs, NEW m \in 0 .. Len(input), SoundIn(input, m),
         NEW u \in m + 1 .. Len(input) + 1, \A i \in m + 1 .. u - 1 : i \notin Unsound,
         NEW k \in m .. Len(input)
  PROVE  /\ k < u => SoundIn(input, k)
         /\ u \in Unsound /\ u <= k => ~SoundIn(input, k)
<1>1. Len(input) \in Nat /\ Slots = 1 .. Len(input)
  BY PlaceFacts
<1>2. ASSUME k < u PROVE SoundIn(input, k)
  <2>1. ASSUME NEW i \in 1 .. k PROVE NamesEarlier(i)
    <3>1. CASE i <= m
      BY <1>1, <3>1 DEF SoundIn, NamesEarlier
    <3>2. CASE ~(i <= m)
      <4>1. i \in m + 1 .. u - 1 /\ i \in Slots
        BY <1>1, <1>2, <3>2
      <4>2. QED
        BY <4>1 DEF Unsound
    <3>3. QED
      BY <3>1, <3>2
  <2>2. QED
    BY <2>1 DEF SoundIn, NamesEarlier
<1>3. ASSUME u \in Unsound, u <= k PROVE ~SoundIn(input, k)
  <2>1. u \in 1 .. k /\ ~NamesEarlier(u)
    BY <1>1, <1>3 DEF Unsound
  <2>2. QED
    BY <2>1 DEF SoundIn, NamesEarlier
<1>4. QED
  BY <1>2, <1>3

Crosses(walk, w, n) == Repeat(LAMBDA x : Cross(x, walk, FALSE), w, n)
Trusts(w, n) == Repeat(LAMBDA x : Cross(x, "pointer", TRUE), w, n)
Takes(walk, w, n) == Repeat(LAMBDA x : Take(x, walk), w, n)

\* Records are crossed to the end of the walk or to the first unsound one.
LEMMA CrossMany ==
  ASSUME NEW m, Ready(m), SoundIn(input, m), NEW n \in 0 .. Len(input) - m,
         NEW walk \in Walks, NEW v, NEW f
  PROVE  /\ SoundIn(input, m + n) =>
              Crosses(walk, Walker(Place(m + 1), m, v, f, "walking"), n)
                = Walker(Place(m + n + 1), m + n, v, f, "walking")
         /\ ~SoundIn(input, m + n) =>
              Crosses(walk, Walker(Place(m + 1), m, v, f, "walking"), n).state = "trapped"
<1> DEFINE w == Walker(Place(m + 1), m, v, f, "walking")
           Equation(t) == t = [k \in 0 .. n |-> IF k = 0 THEN w ELSE Cross(t[k - 1], walk, FALSE)]
<1>1. /\ input \in Inputs /\ Len(input) \in Nat /\ m \in Nat /\ n \in Nat /\ m + n \in 0 .. Len(input)
      /\ m \in 0 .. Len(input) /\ Slots = 1 .. Len(input)
  BY PlaceFacts DEF Ready
<1>2. PICK u \in m + 1 .. m + n + 1 :
        (\A i \in m + 1 .. u - 1 : i \notin Unsound) /\ (u <= m + n => u \in Unsound)
  BY <1>1, FirstOf
<1>3. PICK G : G = [k \in 0 .. n |->
                      IF m + k < u THEN Walker(Place(m + k + 1), m + k, v, f, "walking")
                      ELSE Walker(Place(u), u - 1, v, f, "trapped")]
  OBVIOUS
<1>4. G[0] = w
  BY <1>1, <1>2, <1>3
<1>5. ASSUME NEW k \in 1 .. n PROVE G[k] = Cross(G[k - 1], walk, FALSE)
  <2>1. k - 1 \in 0 .. n /\ k \in 0 .. n /\ m + (k - 1) \in m .. Len(input) - 1 /\ m + k \in m + 1 .. m + n
    BY <1>1
  <2>2. CASE m + (k - 1) < u
    <3>1. G[k - 1] = Walker(Place(m + (k - 1) + 1), m + (k - 1), v, f, "walking")
      BY <1>3, <2>1, <2>2
    <3>2. m + k \in Slots /\ m + (k - 1) + 1 = m + k /\ m + (k - 1) + 2 = m + k + 1
      BY <1>1, <2>1
    <3>3. Cross(G[k - 1], walk, FALSE) =
            IF NamesEarlier(m + k) THEN Walker(Place(m + k + 1), m + k, v, f, "walking")
            ELSE Walker(Place(m + k), m + (k - 1), v, f, "trapped")
      <4>1. PICK j \in m .. Len(input) - 1 : j = m + (k - 1) /\ j + 1 = m + k /\ j + 2 = m + k + 1
        BY <1>1, <2>1, <3>2
      <4>2. G[k - 1] = Walker(Place(j + 1), j, v, f, "walking")
        BY <3>1, <4>1
      <4>3. Cross(Walker(Place(j + 1), j, v, f, "walking"), walk, FALSE) =
              IF NamesEarlier(j + 1) THEN Walker(Place(j + 2), j + 1, v, f, "walking")
              ELSE Walker(Place(j + 1), j, v, f, "trapped")
        BY CrossOne
      <4>4. QED
        BY <4>1, <4>2, <4>3
    <3>4. CASE m + k < u
      <4>1. m + k \in m + 1 .. u - 1
        BY <1>1, <1>2, <2>1, <3>4
      <4>2. NamesEarlier(m + k)
        BY <1>2, <3>2, <4>1 DEF Unsound
      <4>3. QED
        BY <1>3, <2>1, <3>3, <3>4, <4>2
    <3>5. CASE ~(m + k < u)
      <4>1. m + k = u /\ u - 1 = m + (k - 1) /\ u <= m + n
        BY <1>1, <1>2, <2>1, <2>2, <3>5
      <4>2. ~NamesEarlier(m + k)
        BY <1>2, <4>1 DEF Unsound
      <4>3. QED
        BY <1>3, <2>1, <3>3, <3>5, <4>1, <4>2
    <3>6. QED
      BY <3>4, <3>5
  <2>3. CASE ~(m + (k - 1) < u)
    <3>1. ~(m + k < u)
      BY <1>1, <1>2, <2>1, <2>3
    <3>2. PICK x : x = Walker(Place(u), u - 1, v, f, "trapped") /\ G[k] = x /\ G[k - 1] = x
      BY <1>3, <2>1, <2>3, <3>1
    <3>3. x.state # "walking"
      <4>1. x.state = "trapped"
        BY <3>2 DEF Walker
      <4>2. QED
        BY <4>1
    <3>4. QED
      BY <3>2, <3>3, Stopped
  <2>4. QED
    BY <2>2, <2>3
<1>6. Equation(G)
  <2>1. G = [k \in 0 .. n |-> G[k]]
    BY <1>3
  <2>2. \A k \in 0 .. n : k = 0 \/ k \in 1 .. n
    OBVIOUS
  <2> HIDE DEF w
  <2>3. QED
    BY <1>4, <1>5, <2>1, <2>2
<1>7. PICK T : Equation(T) /\ T = CHOOSE t : Equation(t)
  BY <1>6
<1>8. Crosses(walk, w, n) = T[n]
  BY <1>7 DEF Crosses, Repeat
<1>9. T[n] = G[n]
  <2> HIDE DEF w
  <2>1. T[0] = w /\ \A k \in 1 .. n : T[k] = Cross(T[k - 1], walk, FALSE)
    <3>1. T = [k \in 0 .. n |-> IF k = 0 THEN w ELSE Cross(T[k - 1], walk, FALSE)]
      BY <1>7, Zenon
    <3>2. 0 \in 0 .. n /\ \A k \in 1 .. n : k \in 0 .. n /\ k # 0
      BY <1>1
    <3>3. QED
      BY <3>1, <3>2, Zenon
  <2>2. \A k \in 1 .. n : T[k - 1] = G[k - 1] => T[k] = G[k]
    <3>1. ASSUME NEW k \in 1 .. n, T[k - 1] = G[k - 1] PROVE T[k] = G[k]
      BY <1>5, <2>1, <3>1
    <3>2. QED
      BY <3>1
  <2>3. QED
    BY <1>1, <1>4, <2>1, <2>2, SameWalk
<1>10. u \in m + 1 .. Len(input) + 1 /\ m + n \in m .. Len(input)
  BY <1>1, <1>2
<1>11. m + n < u <=> SoundIn(input, m + n)
  <2>1. m + n < u => SoundIn(input, m + n)
    BY <1>1, <1>2, <1>10, SoundUpTo
  <2>2. ~(m + n < u) => u <= m + n /\ u \in Unsound
    BY <1>1, <1>2
  <2>3. QED
    BY <1>1, <1>2, <1>10, <2>1, <2>2, SoundUpTo
<1>12. G[n] = IF SoundIn(input, m + n) THEN Walker(Place(m + n + 1), m + n, v, f, "walking")
              ELSE Walker(Place(u), u - 1, v, f, "trapped")
  BY <1>1, <1>3, <1>11
<1>13. Walker(Place(u), u - 1, v, f, "trapped").state = "trapped"
  BY DEF Walker
<1>14. QED
  BY <1>8, <1>9, <1>12, <1>13

\* A walk that looks at no marker crosses them all.
LEMMA TrustMany ==
  ASSUME NEW m, Ready(m), NEW j \in m .. Len(input), NEW n \in 0 .. Len(input) - j, NEW v, NEW f
  PROVE  Trusts(Walker(Place(j + 1), j, v, f, "walking"), n)
           = Walker(Place(j + n + 1), j + n, v, f, "walking")
<1> DEFINE w == Walker(Place(j + 1), j, v, f, "walking")
           Equation(t) == t = [k \in 0 .. n |-> IF k = 0 THEN w ELSE Cross(t[k - 1], "pointer", TRUE)]
<1>1. /\ input \in Inputs /\ Len(input) \in Nat /\ m \in Nat /\ j \in Nat /\ n \in Nat
      /\ j + n \in 0 .. Len(input)
  BY PlaceFacts DEF Ready
<1>2. PICK G : G = [k \in 0 .. n |-> Walker(Place(j + k + 1), j + k, v, f, "walking")]
  OBVIOUS
<1>3. G[0] = w
  BY <1>1, <1>2
<1>4. ASSUME NEW k \in 1 .. n PROVE G[k] = Cross(G[k - 1], "pointer", TRUE)
  <2>1. PICK x \in m .. Len(input) - 1 : x = j + (k - 1) /\ x + 1 = j + k /\ x + 2 = j + k + 1
    BY <1>1
  <2>2. k - 1 \in 0 .. n /\ k \in 0 .. n
    OBVIOUS
  <2>3. G[k - 1] = Walker(Place(x + 1), x, v, f, "walking")
    BY <1>2, <2>1, <2>2
  <2>4. G[k] = Walker(Place(x + 2), x + 1, v, f, "walking")
    BY <1>2, <2>1, <2>2
  <2>5. Cross(Walker(Place(x + 1), x, v, f, "walking"), "pointer", TRUE)
          = Walker(Place(x + 2), x + 1, v, f, "walking")
    BY CrossOne DEF Walks
  <2>6. QED
    BY <2>3, <2>4, <2>5
<1>5. Equation(G)
  <2>1. G = [k \in 0 .. n |-> G[k]]
    BY <1>2
  <2>2. \A k \in 0 .. n : k = 0 \/ k \in 1 .. n
    OBVIOUS
  <2> HIDE DEF w
  <2>3. QED
    BY <1>3, <1>4, <2>1, <2>2
<1>6. PICK T : Equation(T) /\ T = CHOOSE t : Equation(t)
  BY <1>5
<1>7. Trusts(w, n) = T[n]
  BY <1>6 DEF Trusts, Repeat
<1>8. T[n] = G[n]
  <2> HIDE DEF w
  <2>1. T[0] = w /\ \A k \in 1 .. n : T[k] = Cross(T[k - 1], "pointer", TRUE)
    <3>1. T = [k \in 0 .. n |-> IF k = 0 THEN w ELSE Cross(T[k - 1], "pointer", TRUE)]
      BY <1>6, Zenon
    <3>2. 0 \in 0 .. n /\ \A k \in 1 .. n : k \in 0 .. n /\ k # 0
      BY <1>1
    <3>3. QED
      BY <3>1, <3>2, Zenon
  <2>2. \A k \in 1 .. n : T[k - 1] = G[k - 1] => T[k] = G[k]
    <3>1. ASSUME NEW k \in 1 .. n, T[k - 1] = G[k - 1] PROVE T[k] = G[k]
      BY <1>4, <2>1, <3>1
    <3>2. QED
      BY <3>1
  <2>3. QED
    BY <1>1, <1>3, <2>1, <2>2, SameWalk
<1>9. QED
  BY <1>1, <1>2, <1>7, <1>8

\* Accounts are taken to the end of the walk or to the first unsound record.
LEMMA TakeMany ==
  ASSUME NEW m, Ready(m), SoundIn(input, m), NEW n \in 0 .. Len(input) - m,
         NEW walk \in Walks
  PROVE  /\ SoundIn(input, m + n) =>
              Takes(walk, Walker(Place(m + 1), m, AccountsOf(input, m), {}, "walking"), n)
                = Walker(Place(m + n + 1), m + n, AccountsOf(input, m + n), Crossed(m, m + n), "walking")
         /\ ~SoundIn(input, m + n) =>
              \E u \in m + 1 .. m + n :
                Takes(walk, Walker(Place(m + 1), m, AccountsOf(input, m), {}, "walking"), n)
                  = Walker(Place(u), u - 1, AccountsOf(input, u - 1), Crossed(m, u - 1), "trapped")
<1> DEFINE Reached(j) == Walker(Place(j + 1), j, AccountsOf(input, j), Crossed(m, j), "walking")
           w == Walker(Place(m + 1), m, AccountsOf(input, m), {}, "walking")
           Equation(t) == t = [k \in 0 .. n |-> IF k = 0 THEN w ELSE Take(t[k - 1], walk)]
<1>1. /\ input \in Inputs /\ Len(input) \in Nat /\ m \in Nat /\ n \in Nat /\ m + n \in 0 .. Len(input)
      /\ m \in 0 .. Len(input) /\ Slots = 1 .. Len(input)
  BY PlaceFacts DEF Ready
<1>2. PICK u \in m + 1 .. m + n + 1 :
        (\A i \in m + 1 .. u - 1 : i \notin Unsound) /\ (u <= m + n => u \in Unsound)
  BY <1>1, FirstOf
<1>3. u \in m + 1 .. Len(input) + 1 /\ u \in Nat
  BY <1>1, <1>2
<1>4. ASSUME NEW j \in m .. m + n PROVE j < u <=> SoundIn(input, j)
  <2>1. j \in m .. Len(input)
    BY <1>1
  <2>2. j < u => SoundIn(input, j)
    BY <1>1, <1>2, <1>3, <2>1, SoundUpTo
  <2>3. ~(j < u) => u <= j /\ u \in Unsound
    BY <1>1, <1>2
  <2>4. QED
    BY <1>1, <1>2, <1>3, <2>1, <2>2, <2>3, SoundUpTo
<1> DEFINE stop == Walker(Place(u), u - 1, AccountsOf(input, u - 1), Crossed(m, u - 1), "trapped")
<1>5. PICK G : G = [k \in 0 .. n |-> IF m + k < u THEN Reached(m + k) ELSE stop]
  OBVIOUS
<1>6. Reached(m) = w
  <2>1. m + 1 .. m = {}
    BY <1>1
  <2>2. Crossed(m, m) = {}
    BY <2>1 DEF Crossed
  <2>3. QED
    BY <2>2
<1>7. G[0] = w
  <2> HIDE DEF Reached, w, stop
  <2>1. QED
    BY <1>1, <1>2, <1>5, <1>6
<1>8. ASSUME NEW k \in 1 .. n PROVE G[k] = Take(G[k - 1], walk)
  <2>1. PICK j \in m .. Len(input) - 1 :
          j = m + (k - 1) /\ j + 1 = m + k /\ j + 2 = m + k + 1 /\ j \in m .. m + n /\ j + 1 \in m .. m + n
    BY <1>1
  <2>2. k - 1 \in 0 .. n /\ k \in 0 .. n
    OBVIOUS
  <2>3. CASE j < u
    <3>1. SoundIn(input, j) /\ (j + 1 < u <=> SoundIn(input, j + 1))
      BY <1>4, <2>1, <2>3
    <3>2. Take(Reached(j), walk) =
            IF SoundIn(input, j + 1) THEN Reached(j + 1)
            ELSE Walker(Place(j + 1), j, AccountsOf(input, j), Crossed(m, j), "trapped")
      <4>1. Take(Walker(Place(j + 1), j, AccountsOf(input, j), Crossed(m, j), "walking"), walk) =
           IF SoundIn(input, j + 1)
             THEN Walker(Place(j + 2), j + 1, AccountsOf(input, j + 1), Crossed(m, j + 1), "walking")
             ELSE Walker(Place(j + 1), j, AccountsOf(input, j), Crossed(m, j), "trapped")
        BY <2>1, <3>1, TakeOne
      <4>2. (j + 1) + 1 = j + 2
        BY <1>1, <2>1
      <4>3. QED
        BY <4>1, <4>2
    <3>3. G[k - 1] = Reached(j)
      <4> HIDE DEF Reached, stop
      <4>1. QED
        BY <1>5, <2>1, <2>2, <2>3
    <3>4. G[k] = IF j + 1 < u THEN Reached(j + 1) ELSE stop
      <4> HIDE DEF Reached, stop
      <4>1. QED
        BY <1>5, <2>1, <2>2
    <3>5. ~(j + 1 < u) => u = j + 1 /\ u - 1 = j
      BY <1>1, <1>3, <2>1, <2>3
    <3>6. ~(j + 1 < u) => stop = Walker(Place(j + 1), j, AccountsOf(input, j), Crossed(m, j), "trapped")
      BY <3>5
    <3> HIDE DEF Reached, stop
    <3>7. QED
      BY <3>1, <3>2, <3>3, <3>4, <3>6
  <2>4. CASE ~(j < u)
    <3>1. ~(m + k < u) /\ ~(m + (k - 1) < u)
      BY <1>1, <1>3, <2>1, <2>4
    <3>2. G[k] = stop /\ G[k - 1] = stop
      <4> HIDE DEF Reached, stop
      <4>1. QED
        BY <1>5, <2>2, <3>1
    <3>3. stop.state # "walking"
      <4>1. stop.state = "trapped"
        BY DEF Walker
      <4> HIDE DEF stop
      <4>2. QED
        BY <4>1
    <3> HIDE DEF stop
    <3>4. QED
      BY <3>2, <3>3, Stopped
  <2>5. QED
    BY <2>3, <2>4
<1>9. Equation(G)
  <2>1. G = [k \in 0 .. n |-> G[k]]
    BY <1>5
  <2>2. \A k \in 0 .. n : k = 0 \/ k \in 1 .. n
    OBVIOUS
  <2> HIDE DEF w
  <2>3. QED
    BY <1>7, <1>8, <2>1, <2>2
<1>10. PICK T : Equation(T) /\ T = CHOOSE t : Equation(t)
  BY <1>9
<1>11. Takes(walk, w, n) = T[n]
  BY <1>10 DEF Takes, Repeat
<1>12. T[n] = G[n]
  <2> HIDE DEF w
  <2>1. T[0] = w /\ \A k \in 1 .. n : T[k] = Take(T[k - 1], walk)
    BY <1>1, <1>10
  <2>2. \A k \in 1 .. n : T[k - 1] = G[k - 1] => T[k] = G[k]
    <3>1. ASSUME NEW k \in 1 .. n, T[k - 1] = G[k - 1] PROVE T[k] = G[k]
      BY <1>8, <2>1, <3>1
    <3>2. QED
      BY <3>1
  <2>3. QED
    BY <1>1, <1>7, <2>1, <2>2, SameWalk
<1>13. m + n < u <=> SoundIn(input, m + n)
  BY <1>1, <1>4
<1>14. G[n] = IF SoundIn(input, m + n) THEN Reached(m + n) ELSE stop
  <2> HIDE DEF Reached, stop
  <2>1. QED
    BY <1>1, <1>5, <1>13
<1>16. Takes(walk, w, n) = IF SoundIn(input, m + n) THEN Reached(m + n) ELSE stop
  <2> HIDE DEF Reached, stop, w
  <2>1. QED
    BY <1>11, <1>12, <1>14
<1>17. SoundIn(input, m + n) => Takes(walk, w, n) = Reached(m + n)
  <2> HIDE DEF Reached, stop, w
  <2>1. QED
    BY <1>16
<1>18. ~SoundIn(input, m + n) =>
          \E x \in m + 1 .. m + n :
            Takes(walk, w, n)
              = Walker(Place(x), x - 1, AccountsOf(input, x - 1), Crossed(m, x - 1), "trapped")
  <2>1. ~SoundIn(input, m + n) => u \in m + 1 .. m + n
    BY <1>1, <1>2, <1>13
  <2>2. ~SoundIn(input, m + n) => Takes(walk, w, n) = stop
    <3> HIDE DEF Reached, stop, w
    <3>1. QED
      BY <1>16
  <2> HIDE DEF w
  <2>3. QED
    BY <2>1, <2>2
<1>19. QED
  BY <1>17, <1>18

\* The checked parsers walk until a record is unsound or goes past the buffer.
InRoom(room, w) ==
  LET c == Take(w, "frame")
  IN  IF c.state = "walking" /\ c.at <= room THEN c ELSE [w EXCEPT !.state = "refused"]

Complete(room) == SoundIn(input, Len(input)) /\ (Len(input) = 0 \/ TailStart <= room)

\* A bounded walk takes all the records, or refuses the frame.
LEMMA WithinMany ==
  ASSUME Ready(0), NEW room \in Nat
  PROVE  /\ Complete(room) =>
              Within(room) = Walker(TailStart, Len(input), AccountsOf(input, Len(input)),
                                    Crossed(0, Len(input)), "walking")
         /\ ~Complete(room) => Within(room).state = "refused"
<1> DEFINE n == Len(input)
           Reached(j) == Walker(Place(j + 1), j, AccountsOf(input, j), Crossed(0, j), "walking")
           w == Walk(ALIGN, <<>>)
           Equation(t) == t = [k \in 0 .. n |-> IF k = 0 THEN w ELSE InRoom(room, t[k - 1])]
           Past == {i \in Slots : room < Place(i + 1)}
           Stops == Unsound \cup Past
<1>1. /\ input \in Inputs /\ n \in Nat /\ Slots = 1 .. n /\ n \in 0 .. n
      /\ \A i \in 1 .. n + 1 : Place(i) \in Nat
      /\ \A i, j \in 1 .. n + 1 : i < j => Place(i) < Place(j)
      /\ TailStart = Place(n + 1) /\ SoundIn(input, 0)
  <2>1. SoundIn(input, 0)
    BY DEF SoundIn
  <2>2. QED
    BY <2>1, PlaceFacts DEF Ready
<1>2. PICK u \in 1 .. n + 1 : (\A i \in 1 .. u - 1 : i \notin Stops) /\ (u <= n => u \in Stops)
  <2>1. \E u \in 0 + 1 .. 0 + n + 1 :
          (\A i \in 0 + 1 .. u - 1 : i \notin Stops) /\ (u <= 0 + n => u \in Stops)
    <3> HIDE DEF Stops
    <3>1. QED
      BY <1>1, FirstOf
  <2>2. 0 + 1 = 1 /\ 0 + n = n
    BY <1>1
  <2> HIDE DEF Stops
  <2>3. QED
    BY <2>1, <2>2
<1>3. ASSUME NEW j \in 0 .. n, j < u PROVE SoundIn(input, j)
  <2>1. \A i \in 1 .. j : NamesEarlier(i)
    <3>1. ASSUME NEW i \in 1 .. j PROVE NamesEarlier(i)
      <4>1. i \in 1 .. u - 1 /\ i \in Slots
        BY <1>1, <1>3
      <4>2. QED
        BY <1>2, <4>1 DEF Unsound
    <3>2. QED
      BY <3>1
  <2>2. QED
    BY <2>1 DEF SoundIn, NamesEarlier
<1> DEFINE stop == Walker(Place(u), u - 1, AccountsOf(input, u - 1), Crossed(0, u - 1), "refused")
<1>4. PICK G : G = [k \in 0 .. n |-> IF k < u THEN Reached(k) ELSE stop]
  OBVIOUS
<1>5. Reached(0) = w
  <2>1. Crossed(0, 0) = {}
    <3>1. 0 + 1 .. 0 = {}
      OBVIOUS
    <3>2. QED
      BY <3>1 DEF Crossed
  <2>2. AccountsOf(input, 0) = <<>>
    <3>1. 0 \in 0 .. Len(input)
      BY <1>1
    <3>2. AccountsOf(input, 0) \in Seq(Nat) /\ Len(AccountsOf(input, 0)) = 0
      BY <1>1, <3>1, AccountsNamed
    <3>3. QED
      BY <3>2
  <2>3. Place(0 + 1) = ALIGN
    BY <1>1, PlaceFacts
  <2>4. Len(<<>>) = 0
    OBVIOUS
  <2>5. QED
    BY <2>1, <2>2, <2>3, <2>4 DEF Walk, Walker
<1>6. G[0] = w
  <2>1. 0 \in 0 .. n /\ 0 < u
    BY <1>1, <1>2
  <2> HIDE DEF Reached, w, stop
  <2>2. QED
    BY <1>4, <1>5, <2>1
<1>7. ASSUME NEW j, NEW at, NEW slot, NEW v, NEW f
      PROVE  [Walker(at, slot, v, f, j) EXCEPT !.state = "refused"] = Walker(at, slot, v, f, "refused")
  BY DEF Walker
<1>8. ASSUME NEW k \in 1 .. n PROVE G[k] = InRoom(room, G[k - 1])
  <2>1. PICK j \in 0 .. Len(input) - 1 : j = k - 1 /\ j + 1 = k /\ j + 2 = k + 1 /\ j \in 0 .. n
    BY <1>1
  <2>2. k - 1 \in 0 .. n /\ k \in 0 .. n /\ k \in Slots /\ k \in Nat /\ u \in Nat
    BY <1>1
  <2>3. CASE j < u
    <3>1. SoundIn(input, j)
      BY <1>3, <2>1, <2>3
    <3>2. SoundIn(input, k) <=> NamesEarlier(k)
      <4>1. 1 .. k = (1 .. j) \cup {k}
        BY <2>1
      <4>2. QED
        BY <3>1, <4>1 DEF SoundIn, NamesEarlier
    <3>3. Take(Reached(j), "frame") =
            IF SoundIn(input, k) THEN Reached(k)
            ELSE Walker(Place(j + 1), j, AccountsOf(input, j), Crossed(0, j), "trapped")
      <4>1. Take(Walker(Place(j + 1), j, AccountsOf(input, j), Crossed(0, j), "walking"), "frame") =
           IF SoundIn(input, j + 1)
             THEN Walker(Place(j + 2), j + 1, AccountsOf(input, j + 1), Crossed(0, j + 1), "walking")
             ELSE Walker(Place(j + 1), j, AccountsOf(input, j), Crossed(0, j), "trapped")
        BY <2>1, <3>1, TakeOne DEF Walks
      <4>2. QED
        BY <2>1, <4>1
    <3>4. /\ Reached(k).state = "walking" /\ Reached(k).at = Place(k + 1)
          /\ Walker(Place(j + 1), j, AccountsOf(input, j), Crossed(0, j), "trapped").state = "trapped"
          /\ "trapped" # "walking"
      BY DEF Walker
    <3>5. [Reached(j) EXCEPT !.state = "refused"] =
            Walker(Place(j + 1), j, AccountsOf(input, j), Crossed(0, j), "refused")
      BY <1>7
    <3>6. InRoom(room, Reached(j)) =
            IF SoundIn(input, k) /\ Place(k + 1) <= room THEN Reached(k)
            ELSE Walker(Place(j + 1), j, AccountsOf(input, j), Crossed(0, j), "refused")
      <4> DEFINE trap == Walker(Place(j + 1), j, AccountsOf(input, j), Crossed(0, j), "trapped")
                 gone == Walker(Place(j + 1), j, AccountsOf(input, j), Crossed(0, j), "refused")
                 here == Reached(j)
                 there == Reached(k)
      <4> HIDE DEF trap, gone, here, there
      <4>1. InRoom(room, here) =
              IF Take(here, "frame").state = "walking" /\ Take(here, "frame").at <= room
                THEN Take(here, "frame") ELSE [here EXCEPT !.state = "refused"]
        BY DEF InRoom
      <4>2. Take(here, "frame") = IF SoundIn(input, k) THEN there ELSE trap
        BY <3>3 DEF here, there, trap
      <4>3. there.state = "walking" /\ there.at = Place(k + 1) /\ trap.state # "walking"
        BY <3>4 DEF there, trap
      <4>4. [here EXCEPT !.state = "refused"] = gone
        BY <3>5 DEF here, gone
      <4>5. InRoom(room, here) = IF SoundIn(input, k) /\ Place(k + 1) <= room THEN there ELSE gone
        BY <4>1, <4>2, <4>3, <4>4
      <4>6. QED
        BY <4>5 DEF here, there, gone
    <3>7. k < u <=> SoundIn(input, k) /\ Place(k + 1) <= room
      <4>1. Place(k + 1) \in Nat
        BY <1>1, <2>2
      <4>2. CASE k < u
        <5>1. k \in 1 .. u - 1
          BY <2>2, <4>2
        <5>2. k \notin Stops
          BY <1>2, <5>1
        <5>3. QED
          BY <2>2, <3>2, <4>1, <4>2, <5>2 DEF Unsound
      <4>3. CASE ~(k < u)
        <5>1. k = u /\ u <= n
          BY <1>1, <2>1, <2>2, <2>3, <4>3
        <5>2. k \in Stops
          BY <1>2, <5>1
        <5>3. QED
          BY <3>2, <4>1, <4>3, <5>2 DEF Unsound
      <4>4. QED
        BY <4>2, <4>3
    <3>8. ~(k < u) => stop = Walker(Place(j + 1), j, AccountsOf(input, j), Crossed(0, j), "refused")
      <4>1. ~(k < u) => u = j + 1 /\ u - 1 = j
        BY <2>1, <2>2, <2>3
      <4>2. QED
        BY <4>1
    <3>9. G[k - 1] = Reached(j)
      <4> HIDE DEF Reached, stop
      <4>1. QED
        BY <1>4, <2>1, <2>2, <2>3
    <3>10. G[k] = IF k < u THEN Reached(k) ELSE stop
      <4> HIDE DEF Reached, stop
      <4>1. QED
        BY <1>4, <2>2
    <3> HIDE DEF Reached, stop
    <3>11. QED
      BY <3>6, <3>7, <3>8, <3>9, <3>10
  <2>4. CASE ~(j < u)
    <3>1. ~(k < u) /\ ~(k - 1 < u)
      BY <2>1, <2>2, <2>4
    <3>2. G[k] = stop /\ G[k - 1] = stop
      <4> HIDE DEF Reached, stop
      <4>1. QED
        BY <1>4, <2>2, <3>1
    <3>3. stop.state # "walking" /\ [stop EXCEPT !.state = "refused"] = stop
      <4>1. stop.state = "refused" /\ "refused" # "walking"
        BY DEF Walker
      <4>2. [stop EXCEPT !.state = "refused"] = stop
        BY <1>7
      <4> HIDE DEF stop
      <4>3. QED
        BY <4>1, <4>2
    <3>4. Take(stop, "frame") = stop
      <4> HIDE DEF stop
      <4>1. QED
        BY <3>3, Stopped
    <3> HIDE DEF stop
    <3>5. QED
      BY <3>2, <3>3, <3>4 DEF InRoom
  <2>5. QED
    BY <2>3, <2>4
<1>9. Equation(G)
  <2>1. G = [k \in 0 .. n |-> G[k]]
    BY <1>4
  <2>2. \A k \in 0 .. n : k = 0 \/ k \in 1 .. n
    BY <1>1
  <2> HIDE DEF w
  <2>3. QED
    BY <1>6, <1>8, <2>1, <2>2
<1>10. PICK T : Equation(T) /\ T = CHOOSE t : Equation(t)
  BY <1>9
<1>11. Within(room) = T[n]
  BY <1>10 DEF Within, Repeat, InRoom
<1>12. T[n] = G[n]
  <2> HIDE DEF w
  <2>1. T[0] = w /\ \A k \in 1 .. n : T[k] = InRoom(room, T[k - 1])
    <3>1. T = [k \in 0 .. n |-> IF k = 0 THEN w ELSE InRoom(room, T[k - 1])]
      BY <1>10, Zenon
    <3>2. 0 \in 0 .. n /\ \A k \in 1 .. n : k \in 0 .. n /\ k # 0
      BY <1>1
    <3>3. QED
      BY <3>1, <3>2, Zenon
  <2>2. \A k \in 1 .. n : T[k - 1] = G[k - 1] => T[k] = G[k]
    <3>1. ASSUME NEW k \in 1 .. n, T[k - 1] = G[k - 1] PROVE T[k] = G[k]
      BY <1>8, <2>1, <3>1
    <3>2. QED
      BY <3>1
  <2>3. T[0] = G[0] /\ n \in Nat
    BY <1>1, <1>6, <2>1
  <2> HIDE DEF n
  <2>4. QED
    BY <2>2, <2>3, SameWalk
<1>13. n < u <=> Complete(room)
  <2>1. CASE n < u
    <3>1. SoundIn(input, n)
      BY <1>1, <1>3, <2>1
    <3>2. n = 0 \/ Place(n + 1) <= room
      <4>1. SUFFICES ASSUME n # 0 PROVE Place(n + 1) <= room
        OBVIOUS
      <4>2. n \in 1 .. u - 1 /\ n \in Slots /\ Place(n + 1) \in Nat
        BY <1>1, <2>1, <4>1
      <4>3. n \notin Past
        BY <1>2, <4>2
      <4>4. QED
        BY <4>2, <4>3
    <3>3. QED
      BY <1>1, <2>1, <3>1, <3>2 DEF Complete
  <2>2. CASE ~(n < u)
    <3>1. u \in Slots /\ u \in Stops /\ n # 0
      BY <1>1, <1>2, <2>2
    <3>2. CASE u \in Unsound
      <4>1. ~SoundIn(input, n)
        BY <1>1, <3>1, <3>2 DEF SoundIn, Unsound, NamesEarlier
      <4>2. QED
        BY <2>2, <4>1 DEF Complete
    <3>3. CASE u \in Past
      <4>1. room < Place(u + 1) /\ Place(u + 1) \in Nat /\ Place(n + 1) \in Nat
        BY <1>1, <3>1, <3>3
      <4>2. Place(u + 1) <= Place(n + 1)
        <5>1. u + 1 \in 1 .. n + 1 /\ n + 1 \in 1 .. n + 1 /\ (u + 1 = n + 1 \/ u + 1 < n + 1)
          BY <1>1, <3>1
        <5>2. QED
          BY <1>1, <4>1, <5>1
      <4>3. ~(TailStart <= room)
        BY <1>1, <4>1, <4>2
      <4>4. QED
        BY <2>2, <3>1, <4>3 DEF Complete
    <3>4. QED
      BY <3>1, <3>2, <3>3
  <2>3. QED
    BY <2>1, <2>2
<1>14. G[n] = IF Complete(room) THEN Reached(n) ELSE stop
  <2> HIDE DEF Reached, stop, n
  <2>1. QED
    BY <1>1, <1>4, <1>13
<1>15. /\ stop.state = "refused"
       /\ Reached(n) = Walker(TailStart, n, AccountsOf(input, n), Crossed(0, n), "walking")
  BY <1>1 DEF Walker
<1>16. Within(room) = IF Complete(room) THEN Reached(n) ELSE stop
  <2> HIDE DEF Reached, stop, n
  <2>1. QED
    BY <1>11, <1>12, <1>14
<1>17. Complete(room) => Within(room) = Reached(n)
  <2> HIDE DEF Reached, stop, n
  <2>1. QED
    BY <1>16
<1>18. ~Complete(room) => Within(room).state = "refused"
  <2> HIDE DEF Reached, stop, n
  <2>1. QED
    BY <1>15, <1>16
<1>19. QED
  <2> HIDE DEF Reached, stop
  <2>1. QED
    BY <1>15, <1>17, <1>18

\* A walk that stopped is not taken up again.
LEMMA TrustStopped ==
  ASSUME NEW w, w.state # "walking", NEW n \in Nat
  PROVE  Trusts(w, n) = w
<1> DEFINE Equation(t) == t = [k \in 0 .. n |-> IF k = 0 THEN w ELSE Cross(t[k - 1], "pointer", TRUE)]
<1>1. PICK G : G = [k \in 0 .. n |-> w]
  OBVIOUS
<1>2. \A k \in 1 .. n : k - 1 \in 0 .. n /\ k \in 0 .. n /\ k # 0
  OBVIOUS
<1>3. Cross(w, "pointer", TRUE) = w
  BY Stopped
<1>4. \A k \in 1 .. n : G[k] = w /\ G[k - 1] = w
  BY <1>1, <1>2
<1>5. G[0] = w
  BY <1>1
<1>6. Equation(G)
  <2>1. \A k \in 0 .. n : k = 0 \/ k \in 1 .. n
    OBVIOUS
  <2>2. \A k \in 0 .. n : G[k] = IF k = 0 THEN w ELSE Cross(G[k - 1], "pointer", TRUE)
    BY <1>3, <1>4, <1>5, <2>1
  <2>3. G = [k \in 0 .. n |-> G[k]]
    BY <1>1
  <2>4. QED
    BY <2>2, <2>3
<1>7. PICK T : Equation(T) /\ T = CHOOSE t : Equation(t)
  BY <1>6
<1>8. Trusts(w, n) = T[n]
  BY <1>7 DEF Trusts, Repeat
<1>9. T[n] = G[n]
  <2>1. T[0] = w /\ \A k \in 1 .. n : T[k] = Cross(T[k - 1], "pointer", TRUE)
    <3>1. T = [k \in 0 .. n |-> IF k = 0 THEN w ELSE Cross(T[k - 1], "pointer", TRUE)]
      BY <1>7, Zenon
    <3>2. 0 \in 0 .. n
      OBVIOUS
    <3>3. QED
      BY <1>2, <3>1, <3>2, Zenon
  <2>2. \A k \in 1 .. n : T[k - 1] = G[k - 1] => T[k] = G[k]
    <3>1. ASSUME NEW k \in 1 .. n, T[k - 1] = G[k - 1] PROVE T[k] = G[k]
      BY <1>3, <1>4, <2>1, <3>1
    <3>2. QED
      BY <3>1
  <2>3. QED
    BY <1>5, <2>1, <2>2, SameWalk
<1>10. QED
  BY <1>1, <1>8, <1>9

-----------------------------------------------------------------------------
(* The inductive invariant *)

Headers(s) == [1 .. Len(s) -> [borrow : Nat, len : Nat, baseline : Nat]]

\* Behind the first m records the bytes are the loader's.
Kept(s, h, m) ==
  \A i \in m + 1 .. Len(s) : h[i].borrow = FREE /\ (~s[i].dup => h[i].len = s[i].len)

\* The accounts of the first m records are measured from their length at entry.
Measured(s, h, m) ==
  \A i \in 1 .. m : ~s[i].dup => h[i].baseline = s[i].len

FreshOf(s) ==
  [i \in DOMAIN s |-> [borrow |-> FREE, len |-> IF s[i].dup THEN 0 ELSE s[i].len, baseline |-> 0]]

TailOf(s) == StartsOf(s)[Len(s) + 1]

Placed(s, a, c, t, v, o) ==
  /\ o \in {"none", "running", "refused", "trapped"}
  /\ o = "trapped" => ~SoundIn(s, Len(s))
  /\ a.way = "lazy" => c = StartsOf(s)[Len(v) + 1]
  /\ t # NULL => t = TailOf(s)

Viewed(s, a, v, o) ==
  /\ a.way # "parse" => SoundIn(s, Len(v)) /\ v = AccountsOf(s, Len(v))
  /\ o = "running" =>
       /\ a.way \in {"scan", "fast", "table"} => Len(v) = Lesser(Len(s), Lesser(a.max, CLAMP))
       /\ a.way \in {"exact", "direct", "parse"} => Len(v) = Len(s)
       /\ a.way = "parse" => \A i \in DOMAIN s : v[i] = StartsOf(s)[i]

Accepted(s, a, o) ==
  /\ a.way = "parse" =>
       (o = "running" <=>
          Len(s) <= MAX_SLOTS /\ SoundIn(s, Len(s)) /\ TailOf(s) + ALIGN + DATA + ID <= a.room)
  /\ a.way = "direct" =>
       (o = "running" <=>
          /\ Len(s) <= a.max /\ SoundIn(s, Len(s)) /\ a.own
          /\ TableAt(TailOf(s)) + Len(s) * ALIGN <= a.room
          /\ a.table = AccountsOf(s, Len(s)))

InputRead(s, h, a, c, t, v, o) ==
  /\ s \in Inputs /\ h \in Headers(s) /\ Len(v) \in 0 .. Len(s) /\ Kept(s, h, Len(v))
  /\ Placed(s, a, c, t, v, o)
  /\ Viewed(s, a, v, o)
  /\ a.way # "parse" => Measured(s, h, Len(v))
  /\ Accepted(s, a, o)
  /\ o = "none" => h = FreshOf(s) /\ a = Unread /\ t = NULL /\ v = <<>>

LoaderInv == InputRead(input, header, arm, cursor, tail, views, outcome)

\* A walk is ready when the bytes ahead of it are the loader's.
LEMMA ReadyKept ==
  ASSUME NEW m
  PROVE  Ready(m) <=> /\ input \in Inputs /\ m \in 0 .. Len(input) /\ header \in Headers(input)
                      /\ Kept(input, header, m)
  BY DEF Ready, Headers, Kept

\* The accounts among the first m records, and the places of the views.
LEMMA ViewPlaces ==
  ASSUME input \in Inputs, NEW m \in 0 .. Len(input), SoundIn(input, m)
  PROVE  {AccountsOf(input, m)[k] : k \in 1 .. m} = Crossed(0, m)
<1>1. Len(input) \in Nat /\ m \in Nat
  BY PlaceFacts
<1>2. ASSUME NEW k \in 1 .. m PROVE AccountsOf(input, m)[k] \in Crossed(0, m)
  <2>1. PICK j \in 1 .. k : ~input[j].dup /\ AccountsOf(input, m)[k] = Place(j)
    BY AccountsNamed DEF Rooted, Place
  <2>2. j \in {x \in 0 + 1 .. m : ~input[x].dup}
    BY <1>1, <2>1
  <2>3. QED
    BY <2>1, <2>2 DEF Crossed
<1>3. ASSUME NEW x \in Crossed(0, m) PROVE \E k \in 1 .. m : AccountsOf(input, m)[k] = x
  <2>1. PICK i \in 0 + 1 .. m : ~input[i].dup /\ x = Place(i)
    BY DEF Crossed
  <2>2. i \in 1 .. m
    BY <1>1, <2>1
  <2>3. AccountsOf(input, m)[i] = Place(i)
    BY <2>1, <2>2, AccountsNamed DEF Names, Place
  <2>4. QED
    BY <2>1, <2>2, <2>3
<1>4. QED
  BY <1>2, <1>3

\* Which places a walk has crossed.
LEMMA CrossedPlaces ==
  ASSUME input \in Inputs, NEW m \in Nat, NEW n \in 0 .. Len(input), NEW i \in 1 .. Len(input)
  PROVE  Place(i) \in Crossed(m, n) <=> i \in m + 1 .. n /\ ~input[i].dup
<1>1. Len(input) \in Nat
  BY PlaceFacts
<1>2. ASSUME NEW x \in m + 1 .. n, Place(i) = Place(x) PROVE i = x
  <2>1. x \in 1 .. Len(input) + 1 /\ i \in 1 .. Len(input) + 1
    BY <1>1
  <2>2. QED
    BY <1>2, <2>1, PlaceFacts
<1>3. QED
  BY <1>2 DEF Crossed

\* What making views of the records from m + 1 to n leaves of the headers.
LEMMA Captures ==
  ASSUME NEW m, Ready(m), NEW n \in m .. Len(input), Measured(input, header, m)
  PROVE  /\ WithBaselines(Crossed(m, n)) \in Headers(input)
         /\ Measured(input, WithBaselines(Crossed(m, n)), n)
         /\ Kept(input, WithBaselines(Crossed(m, n)), m)
<1>0. /\ input \in Inputs /\ m \in 0 .. Len(input) /\ header \in Headers(input)
      /\ Kept(input, header, m)
  BY ReadyKept
<1>1. /\ input \in Inputs /\ Len(input) \in Nat /\ m \in Nat /\ n \in 0 .. Len(input) /\ n \in Nat
      /\ Slots = 1 .. Len(input) /\ header \in Headers(input) /\ Kept(input, header, m) /\ m <= n
      /\ \A i : Starts[i] = Place(i)
  BY <1>0, PlaceFacts
<1>2. PICK h : h = WithBaselines(Crossed(m, n))
  OBVIOUS
<1>3. ASSUME NEW i \in 1 .. Len(input)
      PROVE  /\ h[i] \in [borrow : Nat, len : Nat, baseline : Nat]
             /\ h[i].borrow = header[i].borrow /\ h[i].len = header[i].len
             /\ h[i].baseline = IF i \in m + 1 .. n /\ ~input[i].dup THEN header[i].len
                                ELSE header[i].baseline
  <2>1. header[i] \in [borrow : Nat, len : Nat, baseline : Nat]
    BY <1>1 DEF Headers
  <2>2. h[i] = IF i \in m + 1 .. n /\ ~input[i].dup
                 THEN [header[i] EXCEPT !.baseline = header[i].len] ELSE header[i]
    BY <1>1, <1>2, CrossedPlaces DEF WithBaselines
  <2>3. QED
    BY <2>1, <2>2
<1>4. h \in Headers(input)
  <2>1. h = [i \in 1 .. Len(input) |-> h[i]]
    BY <1>1, <1>2 DEF WithBaselines
  <2>2. QED
    BY <1>3, <2>1 DEF Headers
<1>5. Measured(input, h, n)
  <2>1. ASSUME NEW i \in 1 .. n, ~input[i].dup PROVE h[i].baseline = input[i].len
    <3>1. i \in 1 .. Len(input)
      BY <1>1
    <3>2. CASE i \in m + 1 .. n
      <4>1. i \in m + 1 .. Len(input)
        BY <1>1, <3>2
      <4>2. QED
        BY <1>1, <1>3, <2>1, <3>1, <3>2, <4>1 DEF Kept
    <3>3. CASE i \notin m + 1 .. n
      <4>1. i \in 1 .. m
        BY <1>1, <3>3
      <4>2. QED
        BY <1>3, <2>1, <3>1, <3>3, <4>1 DEF Measured
    <3>4. QED
      BY <3>2, <3>3
  <2>2. QED
    BY <2>1 DEF Measured
<1>6. Kept(input, h, m)
  <2>1. \A i \in m + 1 .. Len(input) : i \in 1 .. Len(input)
    BY <1>1
  <2>2. QED
    BY <1>1, <1>3, <2>1 DEF Kept
<1>7. QED
  BY <1>2, <1>4, <1>5, <1>6

\* What is kept ahead of a walk is kept further on.
LEMMA KeptFurther ==
  ASSUME NEW s, Len(s) \in Nat, NEW h, NEW m \in Nat, NEW n \in Nat, m <= n, Kept(s, h, m)
  PROVE  Kept(s, h, n)
<1>1. \A i \in n + 1 .. Len(s) : i \in m + 1 .. Len(s)
  OBVIOUS
<1>2. QED
  BY <1>1 DEF Kept

\* The accounts of fewer records are measured if those of more are.
LEMMA MeasuredLess ==
  ASSUME NEW s, NEW h, NEW m \in Nat, NEW n \in Nat, m <= n, Measured(s, h, n)
  PROVE  Measured(s, h, m)
<1>1. \A i \in 1 .. m : i \in 1 .. n
  OBVIOUS
<1>2. QED
  BY <1>1 DEF Measured

-----------------------------------------------------------------------------
(* The arms *)

EntryFacts ==
  /\ input \in Inputs /\ Len(input) \in Nat /\ Ready(0) /\ header \in Headers(input)
  /\ Kept(input, header, 0) /\ Measured(input, header, 0) /\ SoundIn(input, 0)
  /\ header = FreshOf(input) /\ tail = NULL /\ views = <<>>
  /\ AccountsOf(input, 0) = <<>>
  /\ Walk(ALIGN, <<>>) = Walker(Place(1), 0, AccountsOf(input, 0), {}, "walking")

\* What an arm finds.
LEMMA Entering ==
  ASSUME LoaderInv, outcome = "none"
  PROVE  EntryFacts
<1>1. /\ input \in Inputs /\ header \in Headers(input) /\ Len(views) \in 0 .. Len(input)
      /\ Kept(input, header, Len(views))
      /\ header = FreshOf(input) /\ tail = NULL /\ views = <<>>
  BY DEF LoaderInv, InputRead
<1>2. Len(input) \in Nat /\ Place(1) = ALIGN
  BY <1>1, PlaceFacts
<1>3. Len(views) = 0 /\ 0 \in 0 .. Len(input)
  BY <1>1, <1>2
<1>4. Kept(input, header, 0)
  BY <1>1, <1>3
<1>5. Ready(0)
  BY <1>1, <1>3, <1>4, ReadyKept
<1>6. SoundIn(input, 0) /\ Measured(input, header, 0)
  BY DEF SoundIn, Measured
<1>7. AccountsOf(input, 0) = <<>>
  BY <1>1, <1>3, <1>6, AccountsNamed
<1>8. Walk(ALIGN, <<>>) = Walker(Place(1), 0, AccountsOf(input, 0), {}, "walking")
  BY <1>2, <1>7 DEF Walk, Walker
<1>9. QED
  BY <1>1, <1>2, <1>4, <1>5, <1>6, <1>7, <1>8 DEF EntryFacts

\* An arm that hands nothing out.
LEMMA NothingRead ==
  ASSUME LoaderInv, outcome = "none", input' = input, header' = header, views' = views,
         tail' = tail, NEW how, arm' = how, how.way # "lazy",
         \/ outcome' = "trapped" /\ ~SoundIn(input, Len(input))
         \/ outcome' = "refused",
         Accepted(input, how, outcome')
  PROVE  LoaderInv'
<1>1. EntryFacts /\ Len(views) = 0
  BY Entering DEF EntryFacts
<1>2. Placed(input, how, cursor', tail, views, outcome')
  BY <1>1 DEF EntryFacts, Placed
<1>3. Viewed(input, how, views, outcome')
  BY <1>1 DEF EntryFacts, Viewed
<1>4. Len(views) \in 0 .. Len(input)
  BY <1>1 DEF EntryFacts
<1>5. InputRead(input, header, how, cursor', tail, views, outcome')
  BY <1>1, <1>2, <1>3, <1>4 DEF EntryFacts, InputRead
<1>6. QED
  BY <1>5 DEF LoaderInv

\* An arm that walks n records and hands out the first k of them.
LEMMA HandedOut ==
  ASSUME LoaderInv, outcome = "none", input' = input, NEW how, arm' = how,
         how.way \notin {"lazy", "parse"}, outcome' = "running",
         NEW n \in 0 .. Len(input), SoundIn(input, n), NEW k \in 0 .. n,
         header' = WithBaselines(Crossed(0, n)), views' = AccountsOf(input, k),
         tail' # NULL => tail' = TailOf(input),
         how.way \in {"scan", "fast", "table"} => k = Lesser(Len(input), Lesser(how.max, CLAMP)),
         how.way \in {"exact", "direct"} => k = Len(input),
         Accepted(input, how, "running")
  PROVE  LoaderInv'
<1>1. EntryFacts
  BY Entering
<1>2. /\ Len(input) \in Nat /\ n \in Nat /\ k \in Nat /\ k <= n /\ k \in 0 .. Len(input)
      /\ input \in Inputs /\ 0 \in 0 .. Len(input) /\ n \in 0 .. Len(input) /\ 0 <= k
  BY <1>1 DEF EntryFacts
<1>3. SoundIn(input, k)
  BY <1>2, SoundShorter
<1>4. Len(AccountsOf(input, k)) = k
  BY <1>2, <1>3, AccountsNamed
<1>5. PICK h : h = header'
  OBVIOUS
<1>6. h \in Headers(input) /\ Measured(input, h, n) /\ Kept(input, h, 0)
  BY <1>1, <1>2, <1>5, Captures DEF EntryFacts
<1>7. Kept(input, h, k) /\ Measured(input, h, k)
  BY <1>2, <1>6, KeptFurther, MeasuredLess
<1>8. PICK v : v = views' /\ v = AccountsOf(input, k)
  OBVIOUS
<1>9. Len(v) = k
  BY <1>4, <1>8
<1>10. Placed(input, how, cursor', tail', v, "running")
  BY DEF Placed
<1>11. Viewed(input, how, v, "running")
  BY <1>3, <1>8, <1>9 DEF Viewed
<1>12. InputRead(input, h, how, cursor', tail', v, "running")
  BY <1>2, <1>6, <1>7, <1>9, <1>10, <1>11 DEF InputRead
<1>13. QED
  BY <1>5, <1>8, <1>12 DEF LoaderInv

\* What a walk has made of its first q records, if they are sound.
Gathered(w, q) ==
  /\ q \in 0 .. Len(input)
  /\ SoundIn(input, q) =>
       w = Walker(Place(q + 1), q, AccountsOf(input, q), Crossed(0, q), "walking")
  /\ ~SoundIn(input, q) =>
       \E u \in 1 .. q :
         w = Walker(Place(u), u - 1, AccountsOf(input, u - 1), Crossed(0, u - 1), "trapped")

\* The eager walk: how far it goes and what it has then.
LEMMA Materialized ==
  ASSUME EntryFacts, NEW max \in Nat, NEW stop \in Nat, stop <= Len(input),
         NEW q, q = Lesser(stop, Lesser(max, CLAMP))
  PROVE  Gathered(Materialize(stop, max), q)
<1>1. CLAMP \in Nat /\ Len(input) \in Nat /\ Ready(0) /\ SoundIn(input, 0)
  BY LoaderAssumption DEF EntryFacts
<1>2. q \in 0 .. Len(input)
  BY <1>1 DEF Lesser
<1>3. q \in 0 .. Len(input) - 0 /\ 0 + q = q /\ 0 + 1 = 1 /\ "pointer" \in Walks
  BY <1>2 DEF Walks
<1>4. Materialize(stop, max) = Takes("pointer", Walk(ALIGN, <<>>), q)
  BY DEF Materialize, Takes
<1>5. Materialize(stop, max) = Takes("pointer", Walker(Place(1), 0, AccountsOf(input, 0), {}, "walking"), q)
  BY <1>4 DEF EntryFacts
<1>6. QED
  BY <1>1, <1>2, <1>3, <1>5, TakeMany DEF Gathered

\* deserialize_accounts keeps the invariant.
LEMMA ScanArmReads ==
  ASSUME LoaderInv, NEW max \in Nat, NEW shown \in Nat, max \in {shown, CLAMP},
         ScanArm(max, shown)
  PROVE  LoaderInv'
<1> DEFINE how == [way |-> "scan", max |-> shown]
<1>1. PICK w : w = Materialize(Len(input), max)
  OBVIOUS
<1>2. PICK t : t = Trusts(w, Len(input) - w.slot)
  OBVIOUS
<1>3. PICK x : x = [w EXCEPT !.state = t.state]
  OBVIOUS
<1>4. PICK k : k = Lesser(Len(w.views), shown)
  OBVIOUS
<1>5. /\ outcome = "none" /\ arm' = how /\ input' = input /\ cursor' = cursor
      /\ HandOut(x, k) /\ (IF t.state = "walking" THEN tail' = t.at ELSE tail' = tail)
  BY <1>1, <1>2, <1>3, <1>4 DEF ScanArm, Enter, Trusts
<1>6. EntryFacts /\ CLAMP \in Nat /\ Len(input) \in Nat /\ input \in Inputs
  BY <1>5, Entering, LoaderAssumption DEF EntryFacts
<1>7. PICK q : q = Lesser(Len(input), Lesser(max, CLAMP))
  OBVIOUS
<1>8. /\ q \in 0 .. Len(input)
      /\ SoundIn(input, q) => w = Walker(Place(q + 1), q, AccountsOf(input, q), Crossed(0, q), "walking")
      /\ ~SoundIn(input, q) =>
           \E u \in 1 .. q :
             w = Walker(Place(u), u - 1, AccountsOf(input, u - 1), Crossed(0, u - 1), "trapped")
  <2>1. Len(input) <= Len(input) /\ max \in Nat /\ q = Lesser(Len(input), Lesser(max, CLAMP))
    BY <1>6, <1>7
  <2>2. Gathered(w, q)
    BY <1>1, <1>6, <2>1, Materialized
  <2>3. QED
    BY <2>2 DEF Gathered
<1>9. how.way = "scan" /\ how.max = shown
  OBVIOUS
<1>10. \A o : Accepted(input, how, o)
  BY <1>9 DEF Accepted
<1> HIDE DEF how
<1>11. CASE SoundIn(input, q)
  <2>1. /\ w = Walker(Place(q + 1), q, AccountsOf(input, q), Crossed(0, q), "walking")
        /\ w.slot = q /\ w.state = "walking" /\ w.views = AccountsOf(input, q) /\ w.fresh = Crossed(0, q)
    BY <1>8, <1>11 DEF Walker
  <2>2. q \in 0 .. Len(input) /\ Len(input) - q \in 0 .. Len(input) - q /\ q + (Len(input) - q) = Len(input)
        /\ q + (Len(input) - q) + 1 = Len(input) + 1 /\ Len(input) - w.slot = Len(input) - q
    BY <1>6, <1>8, <2>1
  <2>3. t = Walker(Place(Len(input) + 1), Len(input), AccountsOf(input, q), Crossed(0, q), "walking")
    <3>1. Ready(0)
      BY <1>6 DEF EntryFacts
    <3>2. t = Trusts(Walker(Place(q + 1), q, AccountsOf(input, q), Crossed(0, q), "walking"), Len(input) - q)
      BY <1>2, <2>1, <2>2
    <3>3. QED
      BY <2>2, <3>1, <3>2, TrustMany
  <2>4. t.state = "walking" /\ t.at = TailOf(input)
    BY <2>3 DEF Walker, TailOf, Place
  <2>5. x.state = "walking" /\ x.views = AccountsOf(input, q) /\ x.fresh = Crossed(0, q)
    BY <1>3, <2>1, <2>4 DEF Walker
  <2>6. Len(w.views) = q
    BY <1>6, <1>8, <1>11, <2>1, AccountsNamed
  <2>7. k \in 0 .. q /\ k = Lesser(Len(input), Lesser(shown, CLAMP))
    BY <1>4, <1>6, <1>7, <1>8, <2>6 DEF Lesser
  <2>8. views' = SubSeq(AccountsOf(input, q), 1, k) /\ header' = WithBaselines(Crossed(0, q))
        /\ outcome' = "running"
    BY <1>5, <2>5 DEF HandOut
  <2>9. views' = AccountsOf(input, k)
    BY <1>6, <1>8, <1>11, <2>7, <2>8, AccountsPrefix
  <2>10. tail' = TailOf(input)
    BY <1>5, <2>4
  <2>11. QED
    BY <1>5, <1>6, <1>8, <1>9, <1>10, <1>11, <2>7, <2>8, <2>9, <2>10, HandedOut
<1>12. CASE ~SoundIn(input, q)
  <2>1. w.state = "trapped" /\ w.slot \in 0 .. Len(input) - 1
    <3>1. PICK u \in 1 .. q :
            w = Walker(Place(u), u - 1, AccountsOf(input, u - 1), Crossed(0, u - 1), "trapped")
      BY <1>8, <1>12
    <3>2. QED
      BY <1>6, <1>8, <3>1 DEF Walker
  <2>2. t = w
    BY <1>2, <1>6, <2>1, TrustStopped
  <2>3. x.state = "trapped"
    <3>1. \E u : w = Walker(Place(u), u - 1, AccountsOf(input, u - 1), Crossed(0, u - 1), "trapped")
      BY <1>8, <1>12
    <3>2. QED
      BY <1>3, <2>1, <2>2, <3>1 DEF Walker
  <2>4. outcome' = "trapped" /\ header' = header /\ views' = views /\ tail' = tail
    BY <1>5, <2>3 DEF HandOut, Trapped, parsed
  <2>5. ~SoundIn(input, Len(input))
    BY <1>6, <1>8, <1>12, SoundShorter
  <2>6. QED
    BY <1>5, <1>9, <1>10, <2>4, <2>5, NothingRead
<1>13. QED
  BY <1>11, <1>12

\* The arms that hand out all they have walked, with nothing of the tail.
LEMMA WalkReads ==
  ASSUME LoaderInv, outcome = "none", input' = input, NEW how, arm' = how,
         how.way \in {"fast", "exact"}, tail' = tail,
         NEW max \in Nat, NEW stop \in Nat, stop <= Len(input),
         NEW q, q = Lesser(stop, Lesser(max, CLAMP)),
         how.way = "fast" => q = Lesser(Len(input), Lesser(how.max, CLAMP)),
         how.way = "exact" => q = Len(input),
         HandOut(Materialize(stop, max), Len(Materialize(stop, max).views))
  PROVE  LoaderInv'
<1>1. EntryFacts /\ CLAMP \in Nat /\ Len(input) \in Nat /\ input \in Inputs
  BY Entering, LoaderAssumption DEF EntryFacts
<1>2. PICK w : w = Materialize(stop, max)
  OBVIOUS
<1>3. /\ q \in 0 .. Len(input)
      /\ SoundIn(input, q) => w = Walker(Place(q + 1), q, AccountsOf(input, q), Crossed(0, q), "walking")
      /\ ~SoundIn(input, q) =>
           \E u \in 1 .. q :
             w = Walker(Place(u), u - 1, AccountsOf(input, u - 1), Crossed(0, u - 1), "trapped")
  <2>1. Gathered(w, q)
    BY <1>1, <1>2, Materialized
  <2>2. QED
    BY <2>1 DEF Gathered
<1>4. \A o : Accepted(input, how, o)
  BY DEF Accepted
<1>5. CASE SoundIn(input, q)
  <2>1. w.state = "walking" /\ w.views = AccountsOf(input, q) /\ w.fresh = Crossed(0, q)
    BY <1>3, <1>5 DEF Walker
  <2>2. Len(w.views) = q /\ q \in 0 .. q
    BY <1>1, <1>3, <1>5, <2>1, AccountsNamed
  <2>3. views' = SubSeq(AccountsOf(input, q), 1, q) /\ header' = WithBaselines(Crossed(0, q))
        /\ outcome' = "running"
    BY <1>2, <2>1, <2>2 DEF HandOut
  <2>4. views' = AccountsOf(input, q)
    BY <1>1, <1>3, <1>5, <2>2, <2>3, AccountsPrefix
  <2>5. tail' = NULL
    BY <1>1 DEF EntryFacts
  <2>6. QED
    BY <1>3, <1>4, <1>5, <2>2, <2>3, <2>4, <2>5, HandedOut
<1>6. CASE ~SoundIn(input, q)
  <2>1. w.state = "trapped"
    BY <1>3, <1>6 DEF Walker
  <2>2. outcome' = "trapped" /\ header' = header /\ views' = views
    BY <1>2, <2>1 DEF HandOut, Trapped, parsed
  <2>3. ~SoundIn(input, Len(input))
    BY <1>1, <1>3, <1>6, SoundShorter
  <2>4. QED
    BY <1>4, <2>2, <2>3, NothingRead
<1>7. QED
  BY <1>5, <1>6

\* deserialize_accounts_fast keeps it.
LEMMA FastArmReads ==
  ASSUME LoaderInv, NEW max \in Nat, FastArm(max)
  PROVE  LoaderInv'
<1>1. PICK how : how = [way |-> "fast", max |-> max]
  OBVIOUS
<1>2. how.way = "fast" /\ how.max = max
  BY <1>1
<1>3. /\ outcome = "none" /\ arm' = how /\ input' = input /\ tail' = tail
      /\ HandOut(Materialize(Len(input), max), Len(Materialize(Len(input), max).views))
  BY <1>1 DEF FastArm, Enter
<1>4. Len(input) \in Nat /\ Len(input) <= Len(input)
  BY <1>3, Entering DEF EntryFacts
<1>5. QED
  BY <1>2, <1>3, <1>4, WalkReads

\* hopper_exact_entrypoint keeps it.
LEMMA ExactArmReads ==
  ASSUME LoaderInv, NEW widest \in Nat, NEW bound \in 0 .. Lesser(widest, CLAMP),
         ExactArm(bound, widest)
  PROVE  LoaderInv'
<1>1. PICK how : how = [way |-> "exact", max |-> bound]
  OBVIOUS
<1>2. how.way = "exact"
  BY <1>1
<1>3. outcome = "none" /\ arm' = how /\ input' = input /\ tail' = tail
  BY <1>1 DEF ExactArm, Enter
<1>4. Len(input) \in Nat /\ CLAMP \in Nat /\ bound \in Nat
  BY <1>3, Entering, LoaderAssumption DEF EntryFacts, Lesser
<1>5. CASE Len(input) > bound
  <2>1. outcome' = "refused" /\ header' = header /\ views' = views
    BY <1>5 DEF ExactArm
  <2>2. Accepted(input, how, outcome')
    BY <1>2 DEF Accepted
  <2>3. QED
    BY <1>2, <1>3, <2>1, <2>2, NothingRead
<1>6. CASE ~(Len(input) > bound)
  <2>1. PICK stop : stop = Lesser(Len(input), bound)
    OBVIOUS
  <2>2. stop = Len(input)
    BY <1>4, <1>6, <2>1 DEF Lesser
  <2>3. HandOut(Materialize(stop, widest), Len(Materialize(stop, widest).views))
    BY <1>6, <2>1 DEF ExactArm
  <2>4. Lesser(stop, Lesser(widest, CLAMP)) = Len(input)
    BY <1>4, <1>6, <2>2 DEF Lesser
  <2>5. stop \in Nat /\ stop <= Len(input)
    BY <1>4, <2>2
  <2>6. QED
    BY <1>2, <1>3, <2>3, <2>4, <2>5, WalkReads
<1>7. QED
  BY <1>5, <1>6

\* deserialize_accounts_0449_into keeps it.
LEMMA TableArmReads ==
  ASSUME LoaderInv, NEW max \in Nat, TableArm(max)
  PROVE  LoaderInv'
<1>1. PICK how : how = [way |-> "table", max |-> max]
  OBVIOUS
<1>2. how.way = "table" /\ how.max = max
  BY <1>1
<1>3. PICK n : n = Len(input)
  OBVIOUS
<1>4. PICK k : k = Lesser(max, Lesser(CLAMP, n))
  OBVIOUS
<1>5. PICK table : table = Accounts(n)
  OBVIOUS
<1>6. /\ outcome = "none" /\ arm' = how /\ input' = input /\ tail' = tail /\ Sound(n)
      /\ views' = SubSeq(table, 1, k) /\ header' = WithBaselines({table[i] : i \in Slots})
      /\ outcome' = "running"
  BY <1>1, <1>3, <1>4, <1>5 DEF TableArm, Enter
<1>7. EntryFacts /\ CLAMP \in Nat /\ n \in Nat /\ input \in Inputs /\ n \in 0 .. Len(input)
  BY <1>3, <1>6, Entering, LoaderAssumption DEF EntryFacts
<1>8. SoundIn(input, n) /\ table = AccountsOf(input, n)
  BY <1>5, <1>6, AccountsHere
<1>9. k \in 0 .. n /\ k = Lesser(Len(input), Lesser(how.max, CLAMP))
  BY <1>2, <1>3, <1>4, <1>7 DEF Lesser
<1>10. views' = AccountsOf(input, k)
  BY <1>6, <1>7, <1>8, <1>9, AccountsPrefix
<1>11. header' = WithBaselines(Crossed(0, n))
  <2>1. Slots = 1 .. n
    BY <1>3, <1>7, PlaceFacts
  <2>2. QED
    BY <1>6, <1>7, <1>8, <2>1, ViewPlaces
<1>12. Accepted(input, how, "running")
  BY <1>2 DEF Accepted
<1>13. tail' = NULL
  BY <1>6, <1>7 DEF EntryFacts
<1>14. QED
  BY <1>2, <1>6, <1>7, <1>8, <1>9, <1>10, <1>11, <1>12, <1>13, HandedOut

\* scan_instruction_frame keeps it.
LEMMA FrameArmReads ==
  ASSUME LoaderInv, FrameArm
  PROVE  LoaderInv'
<1>1. PICK how : how = [way |-> "frame"]
  OBVIOUS
<1>2. how.way = "frame"
  BY <1>1
<1>3. PICK t : t = Crosses("frame", Walk(ALIGN, <<>>), Len(input))
  OBVIOUS
<1>4. /\ outcome = "none" /\ arm' = how /\ input' = input
      /\ IF t.state = "walking"
           THEN tail' = t.at /\ outcome' = "running" /\ header' = header /\ views' = views
           ELSE outcome' = t.state /\ header' = header /\ views' = views /\ tail' = tail
  BY <1>1, <1>3 DEF FrameArm, Enter, Crosses, Trapped, parsed
<1>5. EntryFacts /\ Len(input) \in Nat
  BY <1>4, Entering DEF EntryFacts
<1>6. /\ SoundIn(input, Len(input)) =>
           t = Walker(Place(Len(input) + 1), Len(input), AccountsOf(input, 0), {}, "walking")
      /\ ~SoundIn(input, Len(input)) => t.state = "trapped"
  <2>1. /\ Ready(0) /\ SoundIn(input, 0) /\ Len(input) \in 0 .. Len(input) - 0 /\ "frame" \in Walks
        /\ 0 + Len(input) = Len(input) /\ 0 + 1 = 1
    BY <1>5 DEF EntryFacts, Walks
  <2>2. t = Crosses("frame", Walker(Place(1), 0, AccountsOf(input, 0), {}, "walking"), Len(input))
    BY <1>3, <1>5 DEF EntryFacts
  <2>3. QED
    BY <2>1, <2>2, CrossMany
<1>7. \A o : Accepted(input, how, o)
  BY <1>2 DEF Accepted
<1>8. CASE SoundIn(input, Len(input))
  <2>1. t.state = "walking" /\ t.at = TailOf(input)
    BY <1>6, <1>8 DEF Walker, TailOf, Place
  <2>2. tail' = TailOf(input) /\ outcome' = "running" /\ header' = header /\ views' = views
    BY <1>4, <2>1
  <2>3. Len(views) = 0 /\ 0 \in 0 .. Len(input)
    BY <1>5 DEF EntryFacts
  <2>4. Placed(input, how, cursor', TailOf(input), views, "running") /\ Viewed(input, how, views, "running")
    BY <1>2, <1>5, <2>3 DEF EntryFacts, Placed, Viewed
  <2>5. InputRead(input, header, how, cursor', TailOf(input), views, "running")
    BY <1>5, <1>7, <2>3, <2>4 DEF EntryFacts, InputRead
  <2>6. QED
    BY <1>4, <2>2, <2>5 DEF LoaderInv
<1>9. CASE ~SoundIn(input, Len(input))
  <2>1. t.state = "trapped"
    BY <1>6, <1>9
  <2>2. outcome' = "trapped" /\ header' = header /\ views' = views /\ tail' = tail
    BY <1>4, <2>1
  <2>3. QED
    BY <1>2, <1>4, <1>7, <1>9, <2>2, NothingRead
<1>10. QED
  BY <1>8, <1>9

\* lazy_deserialize keeps it.
LEMMA LazyArmReads ==
  ASSUME LoaderInv, LazyArm
  PROVE  LoaderInv'
<1>1. PICK how : how = [way |-> "lazy"]
  OBVIOUS
<1>2. how.way = "lazy"
  BY <1>1
<1>3. /\ outcome = "none" /\ arm' = how /\ input' = input /\ cursor' = ALIGN /\ outcome' = "running"
      /\ header' = header /\ tail' = tail /\ views' = views
  BY <1>1 DEF LazyArm, Enter
<1>4. EntryFacts /\ Len(views) = 0 /\ Place(1) = ALIGN /\ 0 \in 0 .. Len(input)
  BY <1>3, Entering, PlaceFacts DEF EntryFacts
<1>5. Len(views) + 1 = 1
  BY <1>4
<1>6. ALIGN = StartsOf(input)[Len(views) + 1]
  BY <1>4, <1>5 DEF Place
<1>7. Placed(input, how, ALIGN, tail, views, "running") /\ Viewed(input, how, views, "running")
      /\ Accepted(input, how, "running")
  <2>1. Placed(input, how, ALIGN, tail, views, "running")
    BY <1>4, <1>6 DEF EntryFacts, Placed
  <2>2. Viewed(input, how, views, "running") /\ Accepted(input, how, "running")
    BY <1>2, <1>4 DEF EntryFacts, Viewed, Accepted
  <2>3. QED
    BY <2>1, <2>2
<1>8. InputRead(input, header, how, ALIGN, tail, views, "running")
  BY <1>4, <1>7 DEF EntryFacts, InputRead
<1>9. QED
  BY <1>3, <1>8 DEF LoaderInv

-----------------------------------------------------------------------------
(* The lazy context *)

\* A lazy context stands behind the records it has taken.
LazyFacts(m) ==
  /\ input \in Inputs /\ Len(input) \in Nat /\ m = Len(views) /\ m \in 0 .. Len(input) /\ m \in Nat
  /\ header \in Headers(input) /\ Ready(m) /\ Kept(input, header, m) /\ Measured(input, header, m)
  /\ SoundIn(input, m) /\ views = AccountsOf(input, m) /\ cursor = Place(m + 1)
  /\ arm.way = "lazy" /\ outcome = "running" /\ (tail # NULL => tail = TailOf(input))

\* What a call of a lazy context finds.
LEMMA LazyReady ==
  ASSUME LoaderInv, Lazy
  PROVE  LazyFacts(Len(views))
<1>1. arm.way = "lazy" /\ outcome = "running"
  BY DEF Lazy
<1>2. /\ input \in Inputs /\ header \in Headers(input) /\ Len(views) \in 0 .. Len(input)
      /\ Kept(input, header, Len(views)) /\ Measured(input, header, Len(views))
      /\ Placed(input, arm, cursor, tail, views, outcome)
      /\ Viewed(input, arm, views, outcome)
  BY <1>1 DEF LoaderInv, InputRead
<1>3. Len(input) \in Nat
  BY <1>2, PlaceFacts
<1>4. Len(views) \in Nat
  BY <1>2, <1>3
<1>5. Ready(Len(views))
  BY <1>2, ReadyKept
<1>6. cursor = Place(Len(views) + 1) /\ (tail # NULL => tail = TailOf(input))
  BY <1>1, <1>2 DEF Placed, Place
<1>7. SoundIn(input, Len(views)) /\ views = AccountsOf(input, Len(views))
  BY <1>1, <1>2 DEF Viewed
<1>8. QED
  BY <1>1, <1>2, <1>3, <1>4, <1>5, <1>6, <1>7 DEF LazyFacts

\* What is left of the invariant for a lazy context that goes on or traps.
LEMMA LazyGoesOn ==
  ASSUME NEW s \in Inputs, NEW h \in Headers(s), NEW a, a.way = "lazy", NEW c, NEW t, NEW v, NEW o,
         Len(v) \in 0 .. Len(s), Kept(s, h, Len(v)), Measured(s, h, Len(v)),
         SoundIn(s, Len(v)), v = AccountsOf(s, Len(v)), c = StartsOf(s)[Len(v) + 1],
         t # NULL => t = TailOf(s),
         o = "running" \/ (o = "trapped" /\ ~SoundIn(s, Len(s)))
  PROVE  InputRead(s, h, a, c, t, v, o)
<1>1. Placed(s, a, c, t, v, o)
  BY DEF Placed
<1>2. Viewed(s, a, v, o) /\ Accepted(s, a, o)
  BY DEF Viewed, Accepted
<1>3. QED
  BY <1>1, <1>2 DEF InputRead

\* A walk that trapped leaves the context as it was.
LEMMA LazyTrapped ==
  ASSUME LoaderInv, Lazy, ~SoundIn(input, Len(input)), outcome' = "trapped",
         UNCHANGED <<input, header, arm, cursor, tail, views>>
  PROVE  LoaderInv'
<1>1. LazyFacts(Len(views))
  BY LazyReady
<1>2. InputRead(input, header, arm, cursor, tail, views, "trapped")
  BY <1>1, LazyGoesOn DEF LazyFacts, Place
<1>3. QED
  BY <1>2 DEF LoaderInv

\* next_account, skip and drain_remaining keep the invariant.
LEMMA ConsumeReads ==
  ASSUME LoaderInv, NEW n \in Nat, Consume(n)
  PROVE  LoaderInv'
<1>1. PICK m : m = Len(views)
  OBVIOUS
<1>2. PICK d : d = Lesser(n, Exposed - m)
  OBVIOUS
<1>3. PICK w : w = Takes("lazy", Walk(cursor, views), d)
  OBVIOUS
<1>4. /\ Lazy /\ m < Exposed /\ input' = input /\ arm' = arm
      /\ IF w.state # "walking" THEN Trapped(w)
         ELSE /\ views' = w.views /\ cursor' = w.at /\ header' = WithBaselines(w.fresh)
              /\ tail' = tail /\ outcome' = outcome
  BY <1>1, <1>2, <1>3 DEF Consume, Takes
<1>5. LazyFacts(m)
  BY <1>1, <1>4, LazyReady
<1>6. /\ input \in Inputs /\ Len(input) \in Nat /\ m \in Nat /\ m \in 0 .. Len(input) /\ Ready(m)
      /\ SoundIn(input, m) /\ Measured(input, header, m)
  BY <1>5 DEF LazyFacts
<1>7. d \in 0 .. Len(input) - m /\ d \in Nat
  BY <1>2, <1>4, <1>6, LoaderAssumption DEF Lesser, Exposed
<1>8. Walk(cursor, views) = Walker(Place(m + 1), m, AccountsOf(input, m), {}, "walking")
  BY <1>1, <1>5 DEF LazyFacts, Walk, Walker
<1>9. /\ SoundIn(input, m + d) =>
           w = Walker(Place(m + d + 1), m + d, AccountsOf(input, m + d), Crossed(m, m + d), "walking")
      /\ ~SoundIn(input, m + d) => w.state = "trapped"
  <2>1. "lazy" \in Walks
    BY DEF Walks
  <2>2. w = Takes("lazy", Walker(Place(m + 1), m, AccountsOf(input, m), {}, "walking"), d)
    BY <1>3, <1>8
  <2>3. ~SoundIn(input, m + d) =>
          \E u : w = Walker(Place(u), u - 1, AccountsOf(input, u - 1), Crossed(m, u - 1), "trapped")
    BY <1>6, <1>7, <2>1, <2>2, TakeMany
  <2>4. ~SoundIn(input, m + d) => w.state = "trapped"
    BY <2>3 DEF Walker
  <2>5. QED
    BY <1>6, <1>7, <2>1, <2>2, <2>4, TakeMany
<1>10. PICK j : j = m + d
  OBVIOUS
<1>11. j \in 0 .. Len(input) /\ j \in m .. Len(input) /\ j \in Nat /\ m <= j
  BY <1>6, <1>7, <1>10
<1>12. CASE SoundIn(input, j)
  <2>1. /\ w.state = "walking" /\ w.views = AccountsOf(input, j) /\ w.at = Place(j + 1)
        /\ w.fresh = Crossed(m, j)
    BY <1>9, <1>10, <1>12 DEF Walker
  <2>2. /\ views' = AccountsOf(input, j) /\ cursor' = Place(j + 1) /\ tail' = tail /\ outcome' = outcome
        /\ header' = WithBaselines(Crossed(m, j))
    BY <1>4, <2>1
  <2>3. PICK h : h = WithBaselines(Crossed(m, j))
    OBVIOUS
  <2>4. h \in Headers(input) /\ Measured(input, h, j) /\ Kept(input, h, m)
    BY <1>6, <1>11, <2>3, Captures
  <2>5. Kept(input, h, j)
    BY <1>6, <1>11, <2>4, KeptFurther
  <2>6. PICK v : v = AccountsOf(input, j)
    OBVIOUS
  <2>7. Len(v) = j
    BY <1>6, <1>11, <1>12, <2>6, AccountsNamed
  <2>8. InputRead(input, h, arm, Place(j + 1), tail, v, outcome)
    BY <1>5, <1>11, <1>12, <2>4, <2>5, <2>6, <2>7, LazyGoesOn DEF LazyFacts, Place
  <2>9. QED
    BY <1>4, <2>2, <2>3, <2>6, <2>8 DEF LoaderInv
<1>13. CASE ~SoundIn(input, j)
  <2>1. w.state = "trapped"
    BY <1>9, <1>10, <1>13
  <2>2. outcome' = "trapped" /\ UNCHANGED <<header, cursor, tail, views>>
    BY <1>4, <2>1 DEF Trapped, parsed
  <2>3. ~SoundIn(input, Len(input))
    BY <1>6, <1>11, <1>13, SoundShorter
  <2>4. QED
    BY <1>4, <2>2, <2>3, LazyTrapped
<1>14. QED
  BY <1>12, <1>13

\* tail_ptr keeps it.
LEMMA ReadTailReads ==
  ASSUME LoaderInv, ReadTail
  PROVE  LoaderInv'
<1>1. PICK m : m = Len(views)
  OBVIOUS
<1>2. PICK w : w = [Walk(cursor, views) EXCEPT !.slot = m]
  OBVIOUS
<1>3. PICK t : t = Crosses("lazy", w, Len(input) - m)
  OBVIOUS
<1>4. /\ Lazy /\ input' = input /\ arm' = arm
      /\ IF t.state # "walking" THEN Trapped(t)
         ELSE /\ tail' = t.at
              /\ UNCHANGED <<header, cursor, views, outcome>>
  BY <1>1, <1>2, <1>3 DEF ReadTail, Crosses
<1>5. LazyFacts(m)
  BY <1>1, <1>4, LazyReady
<1>6. /\ input \in Inputs /\ Len(input) \in Nat /\ m \in Nat /\ m \in 0 .. Len(input) /\ Ready(m)
      /\ SoundIn(input, m)
  BY <1>5 DEF LazyFacts
<1>7. w = Walker(Place(m + 1), m, views, {}, "walking")
  BY <1>1, <1>2, <1>5 DEF LazyFacts, Walk, Walker
<1>8. Len(input) - m \in 0 .. Len(input) - m /\ m + (Len(input) - m) = Len(input)
      /\ m + (Len(input) - m) + 1 = Len(input) + 1
  BY <1>6
<1>9. /\ SoundIn(input, Len(input)) => t = Walker(Place(Len(input) + 1), Len(input), views, {}, "walking")
      /\ ~SoundIn(input, Len(input)) => t.state = "trapped"
  <2>1. "lazy" \in Walks
    BY DEF Walks
  <2>2. t = Crosses("lazy", Walker(Place(m + 1), m, views, {}, "walking"), Len(input) - m)
    BY <1>3, <1>7
  <2>3. QED
    BY <1>6, <1>8, <2>1, <2>2, CrossMany
<1>10. CASE SoundIn(input, Len(input))
  <2>1. t.state = "walking" /\ t.at = TailOf(input)
    BY <1>9, <1>10 DEF Walker, TailOf, Place
  <2>2. tail' = TailOf(input) /\ UNCHANGED <<header, cursor, views, outcome>>
    BY <1>4, <2>1
  <2>3. InputRead(input, header, arm, cursor, TailOf(input), views, outcome)
    BY <1>1, <1>5, LazyGoesOn DEF LazyFacts, Place
  <2>4. QED
    BY <1>4, <2>2, <2>3 DEF LoaderInv
<1>11. CASE ~SoundIn(input, Len(input))
  <2>1. outcome' = "trapped" /\ UNCHANGED <<header, cursor, tail, views>>
    BY <1>4, <1>9, <1>11 DEF Trapped, parsed
  <2>2. QED
    BY <1>4, <1>11, <2>1, LazyTrapped
<1>12. QED
  BY <1>10, <1>11

\* What a lazy context holds are records it has taken, each with an account.
LEMMA HeldTaken ==
  ASSUME LoaderInv, arm.way # "parse", NEW i \in Held
  PROVE  i \in 1 .. Len(views) /\ ~input[i].dup
<1>1. PICK m : m = Len(views)
  OBVIOUS
<1>2. /\ input \in Inputs /\ m \in 0 .. Len(input) /\ SoundIn(input, m) /\ views = AccountsOf(input, m)
  BY <1>1 DEF LoaderInv, InputRead, Viewed
<1>3. /\ Len(input) \in Nat /\ i \in 1 .. Len(input) /\ Starts[i] = Place(i)
  BY <1>2, PlaceFacts DEF Held
<1>4. DOMAIN views = 1 .. m
  BY <1>1, <1>2, AccountsNamed
<1>5. PICK k \in 1 .. m : views[k] = Place(i)
  BY <1>3, <1>4 DEF Held
<1>6. Place(i) \in {AccountsOf(input, m)[x] : x \in 1 .. m}
  BY <1>2, <1>5
<1>7. Place(i) \in Crossed(0, m)
  BY <1>2, <1>6, ViewPlaces
<1>8. i \in 0 + 1 .. m /\ ~input[i].dup
  BY <1>2, <1>3, <1>7, CrossedPlaces
<1>9. QED
  BY <1>1, <1>8

\* A handler changes an account it holds, but not the length it is measured from.
LEMMA HeldChanges ==
  ASSUME LoaderInv, Lazy, NEW i \in Held, NEW r \in [borrow : Nat, len : Nat, baseline : Nat],
         r.baseline = header[i].baseline, header' = [header EXCEPT ![i] = r],
         UNCHANGED <<input, arm, cursor, tail, views, outcome>>
  PROVE  LoaderInv'
<1>1. PICK m : m = Len(views)
  OBVIOUS
<1>2. LazyFacts(m)
  BY <1>1, LazyReady
<1>3. /\ input \in Inputs /\ Len(input) \in Nat /\ m \in Nat /\ m \in 0 .. Len(input)
      /\ header \in Headers(input) /\ Kept(input, header, m) /\ Measured(input, header, m)
      /\ arm.way = "lazy"
  BY <1>2 DEF LazyFacts
<1>4. i \in 1 .. m /\ i \in 1 .. Len(input)
  BY <1>1, <1>3, HeldTaken
<1>5. PICK h : h = header'
  OBVIOUS
<1>6. \A x \in 1 .. Len(input) : h[x] = IF x = i THEN r ELSE header[x]
  BY <1>3, <1>5 DEF Headers
<1>7. h \in Headers(input)
  BY <1>3, <1>5 DEF Headers
<1>8. Kept(input, h, m)
  <2>1. \A x \in m + 1 .. Len(input) : x \in 1 .. Len(input) /\ x # i
    BY <1>3, <1>4
  <2>2. QED
    BY <1>3, <1>6, <2>1 DEF Kept
<1>9. Measured(input, h, m)
  <2>1. \A x \in 1 .. m : x \in 1 .. Len(input)
    BY <1>3
  <2>2. \A x \in 1 .. Len(input) : h[x].baseline = header[x].baseline
    BY <1>6
  <2>3. QED
    BY <1>3, <2>1, <2>2 DEF Measured
<1>10. InputRead(input, h, arm, cursor, tail, views, outcome)
  BY <1>1, <1>2, <1>7, <1>8, <1>9, LazyGoesOn DEF LazyFacts, Place
<1>11. QED
  BY <1>5, <1>10 DEF LoaderInv

\* A borrow keeps the invariant.
LEMMA BorrowReads ==
  ASSUME LoaderInv, NEW i \in Held, NEW byte \in Nat, Borrow(i, byte)
  PROVE  LoaderInv'
<1>1. Lazy /\ header' = [header EXCEPT ![i].borrow = byte]
      /\ UNCHANGED <<input, arm, cursor, tail, views, outcome>>
  BY DEF Borrow, parsed
<1>2. header[i] \in [borrow : Nat, len : Nat, baseline : Nat]
  <2>1. header \in Headers(input) /\ i \in 1 .. Len(input)
    BY <1>1, LazyReady, PlaceFacts DEF LazyFacts, Held
  <2>2. QED
    BY <2>1 DEF Headers
<1>3. PICK r : r = [header[i] EXCEPT !.borrow = byte]
  OBVIOUS
<1>4. r \in [borrow : Nat, len : Nat, baseline : Nat] /\ r.baseline = header[i].baseline
  BY <1>2, <1>3
<1>5. header' = [header EXCEPT ![i] = r]
  BY <1>1, <1>3
<1>6. QED
  BY <1>1, <1>4, <1>5, HeldChanges

\* A resize keeps it.
LEMMA ResizeReads ==
  ASSUME LoaderInv, NEW i \in Held, NEW len \in Nat, Resize(i, len)
  PROVE  LoaderInv'
<1>1. Lazy /\ header' = [header EXCEPT ![i].len = len]
      /\ UNCHANGED <<input, arm, cursor, tail, views, outcome>>
  BY DEF Resize, parsed
<1>2. header[i] \in [borrow : Nat, len : Nat, baseline : Nat]
  <2>1. header \in Headers(input) /\ i \in 1 .. Len(input)
    BY <1>1, LazyReady, PlaceFacts DEF LazyFacts, Held
  <2>2. QED
    BY <2>1 DEF Headers
<1>3. PICK r : r = [header[i] EXCEPT !.len = len]
  OBVIOUS
<1>4. r \in [borrow : Nat, len : Nat, baseline : Nat] /\ r.baseline = header[i].baseline
  BY <1>2, <1>3
<1>5. header' = [header EXCEPT ![i] = r]
  BY <1>1, <1>3
<1>6. QED
  BY <1>1, <1>4, <1>5, HeldChanges

-----------------------------------------------------------------------------
(* The checked parsers *)

\* parse_instruction_frame_checked keeps the invariant.
LEMMA ParseReads ==
  ASSUME LoaderInv, NEW room \in Nat, Parse(room)
  PROVE  LoaderInv'
<1> DEFINE n == Len(input)
           Starting == Walker(Place(1), 0, AccountsOf(input, 0), {}, "walking")
<1>1. PICK how : how = [way |-> "parse", room |-> room]
  OBVIOUS
<1>2. how.way = "parse" /\ how.room = room
  BY <1>1
<1>3. PICK w : w = Within(room)
  OBVIOUS
<1>4. PICK accepts \in BOOLEAN :
        accepts = (room >= ALIGN /\ n <= MAX_SLOTS /\ w.state = "walking"
                     /\ w.at + ALIGN + DATA + ID <= room)
  OBVIOUS
<1>5. PICK v : v = [k \in Slots |-> Crosses("frame", Walk(ALIGN, <<>>), k - 1).at]
  OBVIOUS
<1>6. /\ outcome = "none" /\ arm' = how /\ input' = input /\ header' = header /\ cursor' = cursor
      /\ IF accepts THEN tail' = w.at /\ views' = v /\ outcome' = "running"
         ELSE outcome' = "refused" /\ tail' = tail /\ views' = views
  BY <1>1, <1>3, <1>4, <1>5 DEF Parse, Enter, Crosses
<1>7. EntryFacts
  BY <1>6, Entering
<1>8. /\ input \in Inputs /\ n \in Nat /\ Ready(0) /\ SoundIn(input, 0) /\ Slots = 1 .. n
      /\ TailStart = TailOf(input) /\ TailStart \in Nat /\ ALIGN <= TailStart
      /\ Walk(ALIGN, <<>>) = Starting
  <2>1. input \in Inputs /\ n \in Nat /\ Ready(0) /\ SoundIn(input, 0) /\ Walk(ALIGN, <<>>) = Starting
    BY <1>7 DEF EntryFacts
  <2>2. Slots = 1 .. n /\ TailStart = Place(n + 1) /\ Place(n + 1) = TailOf(input)
    BY <2>1, PlaceFacts DEF Place, TailOf
  <2>3. n + 1 \in 1 .. n + 1
    BY <2>1
  <2>4. Place(n + 1) \in Nat /\ ALIGN <= Place(n + 1)
    BY <2>1, <2>3, PlaceFacts
  <2>5. QED
    BY <2>1, <2>2, <2>4
<1>9. w.state = "walking" => w.at = TailStart /\ SoundIn(input, n)
  <2>1. Complete(room) => w = Walker(TailStart, n, AccountsOf(input, n), Crossed(0, n), "walking")
    BY <1>3, <1>8, WithinMany
  <2>2. ~Complete(room) => w.state = "refused"
    BY <1>3, <1>8, WithinMany
  <2>3. Complete(room) => SoundIn(input, n)
    BY DEF Complete
  <2>4. QED
    BY <2>1, <2>2, <2>3 DEF Walker
<1>10. SoundIn(input, n) /\ TailStart <= room => w.state = "walking" /\ w.at = TailStart
  <2>1. SoundIn(input, n) /\ TailStart <= room =>
          w = Walker(TailStart, n, AccountsOf(input, n), Crossed(0, n), "walking")
    BY <1>3, <1>8, WithinMany DEF Complete
  <2>2. QED
    BY <2>1 DEF Walker
<1>11. accepts <=> n <= MAX_SLOTS /\ SoundIn(input, n) /\ TailOf(input) + ALIGN + DATA + ID <= room
  <2>1. ALIGN \in Nat /\ DATA \in Nat /\ ID \in Nat /\ MAX_SLOTS \in Nat
    BY LoaderAssumption
  <2>2. TailOf(input) + ALIGN + DATA + ID <= room => TailStart <= room /\ room >= ALIGN
    BY <1>8, <2>1
  <2>3. QED
    BY <1>4, <1>8, <1>9, <1>10, <2>2
<1>12. CASE accepts
  <2>1. tail' = TailOf(input) /\ views' = v /\ outcome' = "running" /\ SoundIn(input, n)
    BY <1>4, <1>6, <1>8, <1>9, <1>11, <1>12
  <2>2. \A k \in 1 .. n : v[k] = Place(k)
    <3>1. ASSUME NEW k \in 1 .. n PROVE v[k] = Place(k)
      <4>1. PICK q : q = k - 1
        OBVIOUS
      <4>2. /\ q \in 0 .. Len(input) - 0 /\ q \in 0 .. n /\ 0 + q = q /\ 0 + q + 1 = k /\ 0 + 1 = 1
            /\ "frame" \in Walks
        BY <1>8, <4>1 DEF Walks
      <4>3. Crosses("frame", Starting, k - 1) = Walker(Place(k), k - 1, AccountsOf(input, 0), {}, "walking")
        <5>1. SoundIn(input, q)
          BY <1>8, <2>1, <4>2, SoundShorter
        <5>2. Crosses("frame", Starting, q) = Walker(Place(k), q, AccountsOf(input, 0), {}, "walking")
          BY <1>8, <4>2, <5>1, CrossMany
        <5>3. QED
          BY <4>1, <5>2
      <4>4. v[k] = Crosses("frame", Starting, k - 1).at
        BY <1>5, <1>8
      <4>5. QED
        BY <4>3, <4>4 DEF Walker
    <3>2. QED
      BY <3>1
  <2>3. Len(v) = n
    BY <1>5, <1>8
  <2>4. Viewed(input, how, v, "running")
    BY <1>2, <1>8, <2>2, <2>3 DEF Viewed, Slots, Place
  <2>5. Placed(input, how, cursor, TailOf(input), v, "running")
    BY <1>2 DEF Placed
  <2>6. Accepted(input, how, "running")
    BY <1>2, <1>11, <1>12 DEF Accepted
  <2>7. Kept(input, header, n) /\ header \in Headers(input) /\ n \in 0 .. n
    BY <1>8 DEF EntryFacts, Kept, Ready, Headers
  <2>8. InputRead(input, header, how, cursor, TailOf(input), v, "running")
    BY <1>2, <1>8, <2>3, <2>4, <2>5, <2>6, <2>7 DEF InputRead
  <2>9. QED
    BY <1>6, <2>1, <2>8 DEF LoaderInv
<1>13. CASE ~accepts
  <2>1. outcome' = "refused" /\ tail' = tail /\ views' = views
    BY <1>6, <1>13
  <2>2. Accepted(input, how, outcome')
    BY <1>2, <1>11, <1>13, <2>1 DEF Accepted
  <2>3. QED
    BY <1>2, <1>6, <2>1, <2>2, NothingRead
<1>14. QED
  BY <1>12, <1>13

\* deserialize_accounts_0449_checked keeps it.
LEMMA DirectReads ==
  ASSUME LoaderInv, NEW room \in Nat, NEW max \in Nat, NEW own \in BOOLEAN, NEW table,
         Direct(room, max, own, table)
  PROVE  LoaderInv'
<1> DEFINE n == Len(input)
<1>1. PICK how : how = [way |-> "direct", room |-> room, max |-> max, own |-> own, table |-> table]
  OBVIOUS
<1>2. how.way = "direct" /\ how.room = room /\ how.max = max /\ how.own = own /\ how.table = table
  BY <1>1
<1>3. PICK w : w = Within(room)
  OBVIOUS
<1>4. PICK accepts \in BOOLEAN :
        accepts = (room >= ALIGN /\ n <= max /\ w.state = "walking" /\ own
                     /\ TableAt(w.at) + n * ALIGN <= room /\ table = w.views)
  OBVIOUS
<1>5. /\ outcome = "none" /\ arm' = how /\ input' = input /\ tail' = tail
      /\ IF accepts
           THEN views' = w.views /\ header' = WithBaselines(w.fresh) /\ outcome' = "running"
         ELSE outcome' = "refused" /\ header' = header /\ views' = views
  BY <1>1, <1>3, <1>4 DEF Direct, Enter
<1>6. EntryFacts
  BY <1>5, Entering
<1>7. /\ input \in Inputs /\ n \in Nat /\ Ready(0) /\ SoundIn(input, 0) /\ n \in 0 .. n
      /\ TailStart = TailOf(input) /\ TailStart \in Nat /\ ALIGN <= TailStart /\ tail = NULL
  <2>1. input \in Inputs /\ n \in Nat /\ Ready(0) /\ SoundIn(input, 0) /\ tail = NULL
    BY <1>6 DEF EntryFacts
  <2>2. TailStart = Place(n + 1) /\ Place(n + 1) = TailOf(input)
    BY <2>1, PlaceFacts DEF Place, TailOf
  <2>3. n + 1 \in 1 .. n + 1 /\ n \in 0 .. n
    BY <2>1
  <2>4. Place(n + 1) \in Nat /\ ALIGN <= Place(n + 1)
    BY <2>1, <2>3, PlaceFacts
  <2>5. QED
    BY <2>1, <2>2, <2>3, <2>4
<1>8. /\ Complete(room) =>
           w = Walker(TailStart, n, AccountsOf(input, n), Crossed(0, n), "walking")
      /\ ~Complete(room) => w.state = "refused"
  BY <1>3, <1>7, WithinMany
<1>9. w.state = "walking" =>
        /\ w.at = TailStart /\ SoundIn(input, n) /\ w.views = AccountsOf(input, n)
        /\ w.fresh = Crossed(0, n)
  <2>1. Complete(room) => SoundIn(input, n)
    BY DEF Complete
  <2>2. QED
    BY <1>8, <2>1 DEF Walker
<1>10. SoundIn(input, n) /\ TailStart <= room =>
         w.state = "walking" /\ w.at = TailStart /\ w.views = AccountsOf(input, n)
  <2>1. SoundIn(input, n) /\ TailStart <= room =>
          w = Walker(TailStart, n, AccountsOf(input, n), Crossed(0, n), "walking")
    BY <1>8 DEF Complete
  <2>2. QED
    BY <2>1 DEF Walker
<1>11. TableAt(TailStart) + n * ALIGN <= room => TailStart <= room /\ room >= ALIGN
  <2>1. ALIGN \in Nat /\ DATA \in Nat /\ ID \in Nat
    BY LoaderAssumption
  <2>2. n * ALIGN \in Nat
    BY <1>7, <2>1
  <2>3. PICK z : z = TailStart + ALIGN + DATA + ID
    OBVIOUS
  <2>4. z \in Nat /\ TailStart <= z
    BY <1>7, <2>1, <2>3
  <2>5. TableAt(TailStart) \in Nat /\ z <= TableAt(TailStart)
    BY <2>3, <2>4, RoundUpFacts DEF TableAt
  <2>6. PICK y : y = n * ALIGN
    OBVIOUS
  <2>7. TableAt(TailStart) + y <= room => TailStart <= room /\ room >= ALIGN
    BY <1>7, <2>1, <2>2, <2>4, <2>5, <2>6
  <2>8. QED
    BY <2>6, <2>7
<1>12. accepts <=> /\ n <= max /\ SoundIn(input, n) /\ own
                   /\ TableAt(TailOf(input)) + n * ALIGN <= room
                   /\ table = AccountsOf(input, n)
  <2>1. PICK y : y = n * ALIGN
    OBVIOUS
  <2>2. QED
    BY <1>4, <1>7, <1>9, <1>10, <1>11, <2>1
<1>13. CASE accepts
  <2>1. w.state = "walking"
    BY <1>4, <1>13
  <2>2. SoundIn(input, n) /\ views' = AccountsOf(input, n) /\ header' = WithBaselines(Crossed(0, n))
        /\ outcome' = "running"
    BY <1>5, <1>9, <1>13, <2>1
  <2>3. Accepted(input, how, "running")
    BY <1>2, <1>12, <1>13 DEF Accepted
  <2>4. tail' = NULL
    BY <1>5, <1>7
  <2>5. QED
    BY <1>2, <1>5, <1>7, <2>2, <2>3, <2>4, HandedOut
<1>14. CASE ~accepts
  <2>1. outcome' = "refused" /\ header' = header /\ views' = views
    BY <1>5, <1>14
  <2>2. Accepted(input, how, outcome')
    BY <1>2, <1>12, <1>14, <2>1 DEF Accepted
  <2>3. QED
    BY <1>2, <1>5, <2>1, <2>2, NothingRead
<1>15. QED
  BY <1>13, <1>14

-----------------------------------------------------------------------------
(* The specification *)

\* What an instruction starts with.
LEMMA UnreadRead ==
  ASSUME NEW s \in Inputs
  PROVE  InputRead(s, FreshOf(s), Unread, NULL, NULL, <<>>, "none")
<1>1. PICK h : h = FreshOf(s)
  OBVIOUS
<1>2. Len(s) \in Nat /\ DOMAIN s = 1 .. Len(s) /\ 0 \in 0 .. Len(s) /\ FREE \in Nat
  BY RecordFacts, LoaderAssumption
<1>3. \A i \in 1 .. Len(s) :
        /\ h[i] \in [borrow : Nat, len : Nat, baseline : Nat]
        /\ h[i].borrow = FREE /\ (~s[i].dup => h[i].len = s[i].len)
  <2>1. ASSUME NEW i \in 1 .. Len(s)
        PROVE  /\ h[i] \in [borrow : Nat, len : Nat, baseline : Nat]
               /\ h[i].borrow = FREE /\ (~s[i].dup => h[i].len = s[i].len)
    <3>1. h[i] = [borrow |-> FREE, len |-> IF s[i].dup THEN 0 ELSE s[i].len, baseline |-> 0]
      BY <1>1, <1>2 DEF FreshOf
    <3>2. (IF s[i].dup THEN 0 ELSE s[i].len) \in Nat
      BY RecordFacts
    <3>3. QED
      BY <1>2, <3>1, <3>2
  <2>2. QED
    BY <2>1
<1>4. h \in Headers(s)
  <2>1. h = [i \in 1 .. Len(s) |-> h[i]]
    BY <1>1, <1>2 DEF FreshOf
  <2>2. QED
    BY <1>3, <2>1 DEF Headers
<1>5. Kept(s, h, 0)
  <2>1. \A i \in 0 + 1 .. Len(s) : i \in 1 .. Len(s)
    BY <1>2
  <2>2. QED
    BY <1>3, <2>1 DEF Kept
<1>6. SoundIn(s, 0) /\ Measured(s, h, 0)
  BY DEF SoundIn, Measured
<1>7. AccountsOf(s, 0) = <<>> /\ Len(<<>>) = 0
  BY <1>2, <1>6, AccountsNamed
<1>8. Unread.way = "none"
  BY DEF Unread
<1>9. Placed(s, Unread, NULL, NULL, <<>>, "none")
  BY <1>8 DEF Placed
<1>10. Viewed(s, Unread, <<>>, "none") /\ Accepted(s, Unread, "none")
  BY <1>6, <1>7, <1>8 DEF Viewed, Accepted
<1>11. QED
  BY <1>1, <1>2, <1>4, <1>5, <1>6, <1>7, <1>9, <1>10 DEF InputRead

\* What the loader writes is what an instruction finds.
LEMMA FreshHere == Fresh = FreshOf(input)
  BY DEF Fresh, FreshOf, Slots

\* The invariant holds at the start.
LEMMA LoaderInvStarts == LoaderInit => LoaderInv
<1>1. SUFFICES ASSUME LoaderInit PROVE LoaderInv
  OBVIOUS
<1>2. /\ input \in Inputs /\ header = FreshOf(input) /\ arm = Unread /\ cursor = NULL
      /\ tail = NULL /\ views = <<>> /\ outcome = "none"
  BY <1>1, FreshHere DEF LoaderInit
<1>3. QED
  BY <1>2, UnreadRead DEF LoaderInv

\* The next instruction starts afresh.
LEMMA ReturnReads ==
  ASSUME LoaderInv, Return
  PROVE  LoaderInv'
<1>1. input \in Inputs
  BY DEF LoaderInv, InputRead
<1>2. /\ input' = input /\ header' = FreshOf(input) /\ arm' = Unread /\ cursor' = NULL
      /\ tail' = NULL /\ views' = <<>> /\ outcome' = "none"
  BY FreshHere DEF Return
<1>3. InputRead(input, FreshOf(input), Unread, NULL, NULL, <<>>, "none")
  BY <1>1, UnreadRead
<1>4. QED
  BY <1>2, <1>3 DEF LoaderInv

\* Every step keeps the invariant.
LEMMA LoaderInvStep == LoaderInv /\ [LoaderNext]_loader => LoaderInv'
<1>1. SUFFICES ASSUME LoaderInv, [LoaderNext]_loader PROVE LoaderInv'
  OBVIOUS
<1>2. /\ input \in Inputs /\ CLAMP \in Nat /\ ALIGN \in Nat /\ FREE \in Nat /\ Bounds \subseteq Nat
      /\ Lengths \subseteq Nat
  BY <1>1, LoaderAssumption DEF LoaderInv, InputRead
<1>3. CASE UNCHANGED loader
  <2>1. UNCHANGED <<input, header, arm, cursor, tail, views, outcome>>
    BY <1>3 DEF loader, parsed
  <2>2. QED
    BY <1>1, <2>1 DEF LoaderInv
<1>4. ASSUME NEW max \in Bounds, ScanArm(max, max) \/ ScanArm(CLAMP, max) \/ FastArm(max) \/ TableArm(max)
      PROVE  LoaderInv'
  <2>1. max \in Nat
    BY <1>2
  <2>2. QED
    BY <1>1, <1>2, <1>4, <2>1, ScanArmReads, FastArmReads, TableArmReads
<1>5. ASSUME NEW widest \in Bounds, NEW bound \in 0 .. Lesser(widest, CLAMP), ExactArm(bound, widest)
      PROVE  LoaderInv'
  BY <1>1, <1>2, <1>5, ExactArmReads
<1>6. CASE FrameArm
  BY <1>1, <1>6, FrameArmReads
<1>7. CASE LazyArm
  BY <1>1, <1>7, LazyArmReads
<1>8. ASSUME NEW n \in 1 .. Exposed, Consume(n) PROVE LoaderInv'
  <2>1. n \in Nat
    OBVIOUS
  <2>2. QED
    BY <1>1, <1>8, <2>1, ConsumeReads
<1>9. CASE ReadTail
  BY <1>1, <1>9, ReadTailReads
<1>10. ASSUME NEW i \in Held, NEW byte \in {0, 1, FREE}, Borrow(i, byte) PROVE LoaderInv'
  <2>1. byte \in Nat
    BY <1>2
  <2>2. QED
    BY <1>1, <1>10, <2>1, BorrowReads
<1>11. ASSUME NEW i \in Held, NEW len \in Lengths, Resize(i, len) PROVE LoaderInv'
  <2>1. len \in Nat
    BY <1>2
  <2>2. QED
    BY <1>1, <1>11, <2>1, ResizeReads
<1>12. ASSUME NEW room \in Rooms, Parse(room) PROVE LoaderInv'
  <2>1. room \in Nat
    BY DEF Rooms
  <2>2. QED
    BY <1>1, <1>12, <2>1, ParseReads
<1>13. ASSUME NEW room \in {FrameEnd, TableAt(TailStart) + Len(input) * ALIGN}, NEW max \in Bounds,
              NEW own \in BOOLEAN, NEW table \in Tables, Direct(room, max, own, table)
       PROVE  LoaderInv'
  <2>1. max \in Nat
    BY <1>2
  <2>2. DATA \in Nat /\ ID \in Nat /\ Len(input) \in Nat
    BY <1>2, PlaceFacts, LoaderAssumption
  <2>3. TailStart \in Nat
    <3>1. Len(input) + 1 \in 1 .. Len(input) + 1
      BY <2>2
    <3>2. QED
      BY <1>2, <3>1, PlaceFacts
  <2>4. FrameEnd \in Nat
    BY <1>2, <2>2, <2>3 DEF FrameEnd
  <2>5. TableAt(TailStart) \in Nat
    <3>1. TailStart + ALIGN + DATA + ID \in Nat
      BY <1>2, <2>2, <2>3
    <3>2. QED
      BY <3>1, RoundUpFacts DEF TableAt
  <2>6. Len(input) * ALIGN \in Nat
    BY <1>2, <2>2
  <2>7. room \in Nat
    <3>1. PICK y : y = Len(input) * ALIGN
      OBVIOUS
    <3>2. QED
      BY <2>4, <2>5, <2>6, <3>1
  <2>8. QED
    BY <1>1, <1>13, <2>1, <2>7, DirectReads
<1>14. CASE Return
  BY <1>1, <1>14, ReturnReads
<1>15. QED
  BY <1>1, <1>3, <1>4, <1>5, <1>6, <1>7, <1>8, <1>9, <1>10, <1>11, <1>12, <1>13, <1>14 DEF LoaderNext

\* The invariant implies what is promised.
LEMMA LoaderInvSays == LoaderInv => InputAsSerialized
<1>1. SUFFICES ASSUME LoaderInv PROVE InputAsSerialized
  OBVIOUS
<1>2. /\ input \in Inputs /\ Len(views) \in 0 .. Len(input)
      /\ Placed(input, arm, cursor, tail, views, outcome) /\ Viewed(input, arm, views, outcome)
      /\ Accepted(input, arm, outcome) /\ (arm.way # "parse" => Measured(input, header, Len(views)))
  BY <1>1 DEF LoaderInv, InputRead
<1>3. /\ \A k : Accounts(k) = AccountsOf(input, k) /\ (Sound(k) <=> SoundIn(input, k))
      /\ TailStart = TailOf(input) /\ \A i : Starts[i] = StartsOf(input)[i]
  BY <1>2, AccountsHere, PlaceFacts DEF Place, TailOf
<1>4. StaysOnRecords
  BY <1>2, <1>3 DEF Placed, StaysOnRecords
<1>5. ViewsAsSerialized
  BY <1>2, <1>3 DEF Viewed, ViewsAsSerialized, Slots
<1>6. BaselinesAtEntry
  <2>1. ASSUME arm.way # "parse", NEW i \in Held PROVE header[i].baseline = input[i].len
    BY <1>1, <1>2, <2>1, HeldTaken DEF Measured
  <2>2. QED
    BY <2>1 DEF BaselinesAtEntry
<1>7. AcceptsWholeFrames
  BY <1>2, <1>3 DEF Accepted, AcceptsWholeFrames, FrameEnd
<1>8. QED
  BY <1>4, <1>5, <1>6, <1>7 DEF InputAsSerialized

\* Whichever way a program reads its input, it gets the accounts and the
\* instruction the loader serialized, for every input, bound and length
\* (deserialize_accounts, deserialize_accounts_0449, LazyContext,
\* parse_instruction_frame_checked).
THEOREM InputReadAsSerialized == LoaderSpec => []InputAsSerialized
<1>1. LoaderInit => LoaderInv
  BY LoaderInvStarts
<1>2. LoaderInv /\ [LoaderNext]_loader => LoaderInv'
  BY LoaderInvStep
<1>3. LoaderInv => InputAsSerialized
  BY LoaderInvSays
<1>4. QED
  BY <1>1, <1>2, <1>3, PTL DEF LoaderSpec
=============================================================================
