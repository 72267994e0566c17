--------------------------- MODULE GateStoreProofs ---------------------------
(***************************************************************************)
(* Proofs about GateStore for every depth, set of addresses, set of        *)
(* install calls and bound on the tokens.                                  *)
(***************************************************************************)
EXTENDS GateStore, WellFoundedInduction, TLAPS, FiniteSetTheorems

\* No slot holds a token that was not issued yet: what makes a fresh token the
\* highest one.
TokensIssued == \A d \in SlotIdx : slots[d].token <= issued

IInv ==
  /\ TypeOK
  /\ TokensIssued
  /\ CachesExact
  /\ GuardsOwnSlots
  /\ CheckerTracksGates

-----------------------------------------------------------------------------
\* A non-empty set of naturals has a least element.
LEMMA LeastElement ==
  ASSUME NEW T, T \subseteq Nat, T # {}
  PROVE  \E x \in T : \A y \in T : x <= y
<1>1. PICK x \in T : \A y \in T : <<y, x>> \notin OpToRel(<, Nat)
  BY NatLessThanWellFounded, WFMin
<1>2. ASSUME NEW y \in T PROVE x <= y
  <2>1. <<y, x>> \notin OpToRel(<, Nat) /\ x \in Nat /\ y \in Nat
    BY <1>1
  <2>2. QED
    BY <2>1 DEF OpToRel
<1>3. QED
  BY <1>2

\* A non-empty set of naturals with a bound has a greatest element.
LEMMA GreatestElement ==
  ASSUME NEW T, T \subseteq Nat, T # {}, NEW n \in Nat, \A y \in T : y <= n
  PROVE  \E x \in T : \A y \in T : y <= x
<1> DEFINE D == {k \in Nat : n - k \in T}
<1>1. D \subseteq Nat /\ D # {}
  <2>1. PICK y \in T : TRUE
    OBVIOUS
  <2>2. n - y \in Nat /\ n - (n - y) = y
    BY <2>1
  <2>3. QED
    BY <2>1, <2>2
<1>2. PICK k \in D : \A j \in D : k <= j
  <2> HIDE DEF D
  <2>1. QED
    BY <1>1, LeastElement
<1>3. \A y \in T : y <= n - k
  <2>1. TAKE y \in T
  <2>2. n - y \in Nat /\ n - (n - y) = y
    OBVIOUS
  <2>3. k <= n - y
    BY <1>2, <2>2
  <2>4. QED
    BY <2>2, <2>3
<1>4. QED
  BY <1>2, <1>3

\* What TypeOK says of one slot, and of the set of live ones.
LEMMA SlotFacts ==
  ASSUME TypeOK
  PROVE  /\ SlotIdx \subseteq Nat
         /\ \A d \in SlotIdx : slots[d].token \in 0 .. MaxIssued
         /\ \A d \in SlotIdx : slots[d].token = 0 <=> slots[d] = FREE
         /\ Live \subseteq SlotIdx
         /\ IsFiniteSet(SlotIdx) /\ IsFiniteSet(Live)
<1>1. SlotIdx \subseteq Nat
  BY GateStoreAssumption DEF SlotIdx
<1>2. ASSUME NEW d \in SlotIdx
      PROVE  slots[d].token \in 0 .. MaxIssued /\ (slots[d].token = 0 <=> slots[d] = FREE)
  <2>1. slots[d] \in GateSlot
    BY DEF TypeOK
  <2>2. CASE slots[d] = FREE
    BY <2>2, GateStoreAssumption DEF FREE
  <2>3. CASE \E t \in 1 .. MaxIssued, call \in Calls : slots[d] = Gate(t, call)
    BY <2>3, GateStoreAssumption DEF FREE, Gate
  <2>4. QED
    BY <2>1, <2>2, <2>3 DEF GateSlot
<1>3. IsFiniteSet(SlotIdx)
  BY GateStoreAssumption, FS_Interval DEF SlotIdx
<1>4. Live \subseteq SlotIdx
  BY DEF Live
<1>5. IsFiniteSet(Live)
  BY <1>3, <1>4, FS_Subset
<1>6. QED
  BY <1>1, <1>2, <1>3, <1>4, <1>5

\* An accepted install finds a free slot, and takes the first one.
LEMMA FreeSlotExists ==
  ASSUME TypeOK, NEW call, Refusal(call) = "None"
  PROVE  Min(SlotIdx \ Live) \in SlotIdx \ Live
<1>1. Live # SlotIdx
  BY DEF Refusal
<1>2. SlotIdx \ Live # {} /\ SlotIdx \ Live \subseteq Nat
  BY <1>1, SlotFacts
<1>3. \E x \in SlotIdx \ Live : \A y \in SlotIdx \ Live : x <= y
  BY <1>2, LeastElement
<1>4. QED
  BY <1>3 DEF Min

\* Rescanning after slot d was freed yields the newest gate that is left.
LEMMA RescanFindsNewest ==
  ASSUME TypeOK, NEW d \in SlotIdx
  PROVE  /\ Live \ {d} = {} => Rescan(d).token = 0 /\ Rescan(d).idx = 0
         /\ Live \ {d} # {} =>
              /\ Rescan(d).idx \in Live \ {d}
              /\ Rescan(d).token = slots[Rescan(d).idx].token
              /\ \A y \in Live \ {d} : slots[y].token <= Rescan(d).token
<1> DEFINE left == Live \ {d}
           toks == {slots[x].token : x \in left}
<1>1. CASE left = {}
  BY <1>1 DEF Rescan
<1>2. CASE left # {}
  <2>1. toks # {} /\ toks \subseteq Nat /\ \A t \in toks : t <= MaxIssued
    BY <1>2, SlotFacts, GateStoreAssumption
  <2>2. PICK t \in toks : \A u \in toks : u <= t
    <3> HIDE DEF toks
    <3>1. QED
      BY <2>1, GreatestElement, GateStoreAssumption
  <2>3. PICK best \in left : slots[best].token = t
    BY <2>2
  <2>4. \A y \in left : slots[y].token <= slots[best].token
    BY <2>2, <2>3
  <2> DEFINE b == CHOOSE x \in left : \A y \in left : slots[y].token <= slots[x].token
  <2>5. b \in left /\ \A y \in left : slots[y].token <= slots[b].token
    BY <2>4
  <2>6. Rescan(d) = [token |-> slots[b].token, idx |-> b]
    BY <1>2 DEF Rescan
  <2>7. QED
    BY <1>2, <2>5, <2>6
<1>3. QED
  BY <1>1, <1>2

-----------------------------------------------------------------------------
LEMMA InitEstablishes == Init => IInv
<1> SUFFICES ASSUME Init PROVE IInv
  OBVIOUS
<1>1. 0 \in SlotIdx /\ 0 \in Token
  BY GateStoreAssumption DEF SlotIdx, Token
<1>2. TypeOK
  <2>1. FREE \in GateSlot
    BY DEF GateSlot
  <2>2. slots \in [SlotIdx -> GateSlot]
    BY <2>1 DEF Init
  <2>3. QED
    BY <1>1, <2>2 DEF Init, TypeOK
<1>3. Live = {}
  BY DEF Init, Live, FREE
<1>4. TokensIssued
  BY DEF Init, TokensIssued, FREE
<1>5. CachesExact
  BY <1>3, FS_EmptySet DEF Init, CachesExact
<1>6. GuardsOwnSlots /\ CheckerTracksGates
  BY <1>3 DEF Init, GuardsOwnSlots, CheckerTracksGates
<1>7. QED
  BY <1>2, <1>4, <1>5, <1>6 DEF IInv

\* An accepted install keeps the bookkeeping: the fresh token is the highest.
LEMMA InstallPreserves ==
  ASSUME IInv, NEW call \in Calls, InstallGate(call)
  PROVE  IInv'
<1> USE GateStoreAssumption DEF IInv
<1> DEFINE d == Min(SlotIdx \ Live)
           t == issued + 1
<1>1. d \in SlotIdx /\ d \notin Live
  BY FreeSlotExists DEF InstallGate
<1>2. t \in 1 .. MaxIssued /\ issued \in Nat
  BY DEF InstallGate, TypeOK, Token
<1> HIDE DEF d
<1>3. /\ slots' = [slots EXCEPT ![d] = Gate(t, call)]
      /\ issued' = t /\ top_token' = t /\ top_idx' = d
      /\ guards' = guards \cup {t}
      /\ installed' = installed + 1 /\ checker' = SBF
  BY DEF InstallGate, FreshToken, d
<1>4. TypeOK'
  <2>1. Gate(t, call) \in GateSlot
    BY <1>2 DEF GateSlot
  <2>2. slots' \in [SlotIdx -> GateSlot]
    BY <1>1, <1>3, <2>1 DEF TypeOK
  <2>3. QED
    BY <1>1, <1>2, <1>3, <2>2 DEF TypeOK, Token
<1>5. /\ slots'[d].token = t
      /\ \A x \in SlotIdx : x # d => slots'[x] = slots[x]
  BY <1>1, <1>3 DEF TypeOK, Gate
<1>6. Live' = Live \cup {d}
  BY <1>1, <1>2, <1>5 DEF Live
<1>7. \A x \in SlotIdx : slots[x].token \in Nat /\ slots[x].token < t
  BY <1>2, SlotFacts DEF TokensIssued
<1>8. TokensIssued'
  BY <1>2, <1>3, <1>5, <1>7 DEF TokensIssued
<1>9. CachesExact'
  <2>1. Cardinality(Live') = Cardinality(Live) + 1
    BY <1>1, <1>6, SlotFacts, FS_AddElement
  <2>2. \A x \in Live' : slots'[x].token <= t
    BY <1>2, <1>5, <1>6, <1>7 DEF Live
  <2>3. QED
    BY <1>3, <1>5, <1>6, <2>1, <2>2 DEF CachesExact
<1>10. GuardsOwnSlots'
  <2>1. ASSUME NEW x \in Live', NEW y \in Live', slots'[x].token = slots'[y].token
        PROVE  x = y
    BY <1>2, <1>5, <1>6, <1>7, <2>1 DEF GuardsOwnSlots, Live
  <2>2. ASSUME NEW g \in guards' PROVE \E x \in Live' : slots'[x].token = g
    <3>1. CASE g = t
      BY <1>5, <1>6, <3>1
    <3>2. CASE g \in guards
      <4>1. PICK x \in Live : slots[x].token = g
        BY <3>2 DEF GuardsOwnSlots
      <4>2. QED
        BY <1>1, <1>5, <1>6, <4>1 DEF Live
    <3>3. QED
      BY <1>3, <3>1, <3>2
  <2>3. QED
    BY <2>1, <2>2 DEF GuardsOwnSlots
<1>11. CheckerTracksGates'
  BY <1>3, <1>6 DEF CheckerTracksGates
<1>12. QED
  BY <1>4, <1>8, <1>9, <1>10, <1>11

\* Freeing the slot of a live token keeps the bookkeeping, whichever gate it is.
LEMMA DropPreserves ==
  ASSUME IInv, NEW token \in guards, DropGuard(token)
  PROVE  IInv'
<1> USE GateStoreAssumption DEF IInv
<1>1. PICK d \in Live : slots[d].token = token
  BY DEF GuardsOwnSlots
<1>2. d \in SlotIdx /\ \A x \in SlotIdx : slots[x].token = token => x = d
  <2>1. token # 0
    BY <1>1 DEF Live
  <2>2. QED
    BY <1>1, <2>1 DEF GuardsOwnSlots, Live
<1>3. Remove(token) /\ guards' = guards \ {token}
  BY <1>1, <1>2 DEF DropGuard
<1>4. d = CHOOSE x \in SlotIdx : slots[x].token = token
  BY <1>1, <1>2
<1>5. /\ slots' = [slots EXCEPT ![d] = FREE]
      /\ installed' = IF installed = 0 THEN 0 ELSE installed - 1
      /\ top_token' = IF token = top_token THEN Rescan(d).token ELSE top_token
      /\ top_idx' = IF token = top_token THEN Rescan(d).idx ELSE top_idx
      /\ checker' = (checker /\ installed' # 0)
      /\ issued' = issued
  BY <1>3, <1>4 DEF Remove, CheckerLeft
<1>6. slots' \in [SlotIdx -> GateSlot]
  <2>1. FREE \in GateSlot
    BY DEF GateSlot
  <2>2. QED
    BY <1>2, <1>5, <2>1 DEF TypeOK
<1>7. /\ slots'[d].token = 0
      /\ \A x \in SlotIdx : x # d => slots'[x] = slots[x]
  BY <1>2, <1>5 DEF TypeOK, FREE
<1>8. Live' = Live \ {d}
  BY <1>2, <1>7 DEF Live
<1>9. Cardinality(Live') = installed' /\ installed' \in Nat
  <2>1. Cardinality(Live) \in Nat /\ Cardinality(Live) # 0
    BY <1>1, SlotFacts, FS_CardinalityType, FS_EmptySet
  <2>2. Cardinality(Live \ {d}) = Cardinality(Live) - 1
    BY <1>1, SlotFacts, FS_RemoveElement
  <2>3. QED
    BY <1>5, <1>8, <2>1, <2>2 DEF CachesExact
<1>10. /\ Live' = {} => top_token' = 0
       /\ Live' # {} => /\ top_idx' \in Live'
                        /\ slots'[top_idx'].token = top_token'
                        /\ \A x \in Live' : slots'[x].token <= top_token'
       /\ top_idx' \in SlotIdx /\ top_token' \in Token
  <2>1. 0 \in SlotIdx /\ 0 \in Token
    BY DEF SlotIdx, Token
  <2>2. CASE token = top_token
    BY <1>2, <1>5, <1>7, <1>8, <2>1, <2>2, RescanFindsNewest, SlotFacts DEF Token
  <2>3. CASE token # top_token
    <3>1. top_idx \in Live /\ top_idx # d /\ top_idx \in Live'
      BY <1>1, <1>8, <2>3 DEF CachesExact
    <3>2. QED
      BY <1>5, <1>7, <1>8, <2>3, <3>1 DEF CachesExact, TypeOK, Live
  <2>4. QED
    BY <2>2, <2>3
<1>11. TypeOK'
  BY <1>3, <1>5, <1>6, <1>9, <1>10 DEF TypeOK
<1>12. TokensIssued'
  BY <1>5, <1>7 DEF TokensIssued, TypeOK, Token
<1>13. CachesExact'
  BY <1>9, <1>10 DEF CachesExact
<1>14. GuardsOwnSlots'
  <2>1. \A x, y \in Live' : slots'[x].token = slots'[y].token => x = y
    BY <1>7, <1>8 DEF GuardsOwnSlots, Live
  <2>2. ASSUME NEW g \in guards' PROVE \E x \in Live' : slots'[x].token = g
    <3>1. PICK x \in Live : slots[x].token = g
      BY <1>3 DEF GuardsOwnSlots
    <3>2. x # d
      BY <1>1, <1>3, <3>1
    <3>3. QED
      BY <1>7, <1>8, <3>1, <3>2 DEF Live
  <2>3. QED
    BY <2>1, <2>2 DEF GuardsOwnSlots
<1>15. CheckerTracksGates'
  <2>1. installed' # 0 <=> Live' # {}
    BY <1>8, <1>9, SlotFacts, FS_EmptySet, FS_RemoveElement
  <2>2. QED
    BY <1>1, <1>5, <2>1 DEF CheckerTracksGates
<1>16. QED
  BY <1>11, <1>12, <1>13, <1>14, <1>15

\* Steps that leave the store and the guards' ownership alone.
LEMMA StorePreserved ==
  ASSUME IInv, UNCHANGED store, guards' \subseteq guards
  PROVE  IInv'
<1> USE DEF IInv, store
<1>1. Live' = Live
  BY DEF Live
<1>2. TypeOK' /\ TokensIssued'
  BY DEF TypeOK, TokensIssued
<1>3. CachesExact' /\ CheckerTracksGates'
  BY <1>1 DEF CachesExact, CheckerTracksGates
<1>4. GuardsOwnSlots'
  BY <1>1 DEF GuardsOwnSlots, Live
<1>5. QED
  BY <1>2, <1>3, <1>4

\* The zeroed heap of a fresh VM is the initial store.
LEMMA FreshPreserves == NewInvocation => IInv'
<1> SUFFICES ASSUME NewInvocation PROVE IInv'
  OBVIOUS
<1>1. 0 \in SlotIdx /\ 0 \in Token
  BY GateStoreAssumption DEF SlotIdx, Token
<1>2. TypeOK'
  <2>1. FREE \in GateSlot
    BY DEF GateSlot
  <2>2. slots' \in [SlotIdx -> GateSlot]
    BY <2>1 DEF NewInvocation
  <2>3. QED
    BY <1>1, <2>2 DEF NewInvocation, TypeOK
<1>3. Live' = {}
  BY DEF NewInvocation, Live, FREE
<1>4. TokensIssued'
  BY DEF NewInvocation, TokensIssued, FREE
<1>5. CachesExact'
  BY <1>3, FS_EmptySet DEF NewInvocation, CachesExact
<1>6. GuardsOwnSlots' /\ CheckerTracksGates'
  BY <1>3 DEF NewInvocation, GuardsOwnSlots, CheckerTracksGates
<1>7. QED
  BY <1>2, <1>4, <1>5, <1>6 DEF IInv

LEMMA StepPreserves == IInv /\ [Next]_vars => IInv'
<1> SUFFICES ASSUME IInv, [Next]_vars PROVE IInv'
  OBVIOUS
<1>1. CASE \E call \in Calls : InstallRefused(call)
  BY <1>1, StorePreserved DEF InstallRefused
<1>2. CASE \E call \in Calls : InstallGate(call)
  BY <1>2, InstallPreserves
<1>3. CASE \E token \in guards : DropGuard(token)
  BY <1>3, DropPreserves
<1>4. CASE \E token \in guards : ForgetGuard(token)
  BY <1>4, StorePreserved DEF ForgetGuard
<1>5. CASE \E a \in Address, c \in Checks : Check(a, c)
  BY <1>5, StorePreserved DEF Check
<1>6. CASE NewInvocation
  BY <1>6, FreshPreserves
<1>7. CASE UNCHANGED vars
  BY <1>7, StorePreserved DEF vars
<1>8. QED
  BY <1>1, <1>2, <1>3, <1>4, <1>5, <1>6, <1>7 DEF Next

\* Type correctness of the store for every depth and every install call.
THEOREM TypeCorrect == Spec => []TypeOK
<1>1. IInv => TypeOK
  BY DEF IInv
<1>2. QED
  BY InitEstablishes, StepPreserves, <1>1, PTL DEF Spec

\* After any sequence of installs, leaks and drops in any order, the cached count
\* and the cached governing gate agree with the slots.
THEOREM CachesAlwaysExact == Spec => []CachesExact
<1>1. IInv => CachesExact
  BY DEF IInv
<1>2. QED
  BY InitEstablishes, StepPreserves, <1>1, PTL DEF Spec

\* Every guard that is still alive owns exactly one slot, and no two gates share
\* a token.
THEOREM GuardsAlwaysOwnSlots == Spec => []GuardsOwnSlots
<1>1. IInv => GuardsOwnSlots
  BY DEF IInv
<1>2. QED
  BY InitEstablishes, StepPreserves, <1>1, PTL DEF Spec

\* What check() and the guards look at is always what the slots hold.
THEOREM StoreAlwaysCoherent == Spec => []StoreCoherent
<1>1. IInv => StoreCoherent
  BY DEF IInv, StoreCoherent
<1>2. QED
  BY InitEstablishes, StepPreserves, <1>1, PTL DEF Spec

\* On chain, the evaluator callback is registered exactly while a gate is live.
THEOREM CheckerAlwaysTracksGates == Spec => []CheckerTracksGates
<1>1. IInv => CheckerTracksGates
  BY DEF IInv
<1>2. QED
  BY InitEstablishes, StepPreserves, <1>1, PTL DEF Spec

-----------------------------------------------------------------------------
(* A step frees only slots of guards it drops, and rewrites none. *)

LEMMA OwnerStep == IInv /\ [Next]_vars => [FreedByOwner]_vars
<1> SUFFICES ASSUME IInv, Next, NEW d \in Live, slots'[d] # slots[d]
             PROVE  \/ slots'[d] = FREE /\ guards \ guards' = {slots[d].token}
                    \/ SBF /\ slots' = [x \in SlotIdx |-> FREE] /\ guards' = {}
  BY DEF FreedByOwner
<1> USE DEF IInv
<1>1. CASE \E call \in Calls : InstallGate(call)
  <2>1. PICK call \in Calls : InstallGate(call)
    BY <1>1
  <2>2. Min(SlotIdx \ Live) # d
    BY <2>1, FreeSlotExists DEF InstallGate
  <2>3. slots'[d] = slots[d]
    BY <2>1, <2>2 DEF InstallGate, TypeOK, Live
  <2>4. QED
    BY <2>3
<1>2. CASE \E token \in guards : DropGuard(token)
  <2>1. PICK token \in guards : DropGuard(token)
    BY <1>2
  <2>2. PICK e \in Live : slots[e].token = token
    BY DEF GuardsOwnSlots
  <2>3. e \in SlotIdx /\ e = CHOOSE x \in SlotIdx : slots[x].token = token
    <3>1. token # 0
      BY <2>2 DEF Live
    <3>2. \A x \in SlotIdx : slots[x].token = token => x = e
      BY <2>2, <3>1 DEF GuardsOwnSlots, Live
    <3>3. QED
      BY <2>2, <3>2 DEF Live
  <2>4. slots' = [slots EXCEPT ![e] = FREE] /\ guards' = guards \ {token}
    BY <2>1, <2>2, <2>3 DEF DropGuard, Remove
  <2>5. d = e
    BY <2>3, <2>4 DEF TypeOK, Live
  <2>6. slots'[d] = FREE /\ guards \ guards' = {token}
    BY <2>1, <2>3, <2>4, <2>5 DEF TypeOK
  <2>7. QED
    BY <2>2, <2>5, <2>6
<1>3. CASE NewInvocation
  BY <1>3 DEF NewInvocation
<1>4. CASE \E call \in Calls : InstallRefused(call)
  BY <1>4 DEF InstallRefused, store
<1>5. CASE \E token \in guards : ForgetGuard(token)
  BY <1>5 DEF ForgetGuard, store
<1>6. CASE \E a \in Address, c \in Checks : Check(a, c)
  BY <1>6 DEF Check, store
<1>7. QED
  BY <1>1, <1>2, <1>3, <1>4, <1>5, <1>6 DEF Next

\* A gate leaves the store only when the guard that owns it is dropped, or with
\* the whole VM: no install evicts or overwrites a live gate.
THEOREM OnlyOwnersFree == Spec => OnlyTheOwnerFrees
  BY InitEstablishes, StepPreserves, OwnerStep, PTL DEF Spec, OnlyTheOwnerFrees

-----------------------------------------------------------------------------
(* The store implements AmbientGates. *)

\* A live slot stands for a call that was installed.
LEMMA LiveSlotShape ==
  ASSUME TypeOK, NEW d \in Live
  PROVE  \E call \in Calls : /\ slots[d] = Gate(slots[d].token, call)
                             /\ GateAt(d) = [id |-> slots[d].token, accounts |-> call.accounts,
                                             policy |-> call.policy, args |-> call.args]
<1>1. slots[d] \in GateSlot /\ slots[d] # FREE
  BY SlotFacts DEF Live, TypeOK
<1>2. PICK t \in 1 .. MaxIssued, call \in Calls : slots[d] = Gate(t, call)
  BY <1>1 DEF GateSlot
<1>3. slots[d] = Gate(slots[d].token, call)
  BY <1>2 DEF Gate
<1>4. /\ DOMAIN EntriesOf(call) = DOMAIN call.accounts
      /\ \A k \in DOMAIN call.accounts : EntriesOf(call)[k].address = call.accounts[k]
  BY DEF EntriesOf, Entry
<1>5. [k \in DOMAIN EntriesOf(call) |-> EntriesOf(call)[k].address] = call.accounts
  BY <1>4, CallsAssumption
<1>6. GateAt(d) = [id |-> slots[d].token, accounts |-> call.accounts,
                   policy |-> call.policy, args |-> call.args]
  BY <1>2, <1>5 DEF GateAt, Gate
<1>7. QED
  BY <1>3, <1>6

\* The promise reads policies with the same operators as the store.
LEMMA SamePolicyOperators ==
  /\ \A p, i : Promise!AllowsLamportMutation(p, i) <=> AllowsLamportMutation(p, i)
  /\ \A p, i : Promise!AllowsDelegation(p, i) <=> AllowsDelegation(p, i)
  /\ \A p, i : Promise!AllowsAnyAccountWrite(p, i) <=> AllowsAnyAccountWrite(p, i)
  /\ \A p : Promise!LamportsDeclared(p) <=> LamportsDeclared(p)
  /\ \A p, i, o, n, args :
        Promise!CheckWriteWithArgs(p, i, o, n, args) <=> CheckWriteWithArgs(p, i, o, n, args)
  /\ \A S : Promise!Min(S) = Min(S)
<1>1. \A S : Promise!Min(S) = Min(S)
  BY DEF Min, Promise!Min
<1>2. \A p : Promise!LamportsDeclared(p) <=> LamportsDeclared(p)
  BY DEF LamportsDeclared, Promise!LamportsDeclared
<1>3. \A p, i : Promise!AllowsLamportMutation(p, i) <=> AllowsLamportMutation(p, i)
  BY <1>2 DEF AllowsLamportMutation, Promise!AllowsLamportMutation
<1>4. \A p, i : Promise!RangesOf(p, i) = RangesOf(p, i)
  BY DEF RangesOf, Promise!RangesOf
<1>5. \A r, o, n : Promise!Contains(r, o, n) <=> Contains(r, o, n)
  BY DEF Contains, Promise!Contains
<1>6. \A p, i, o, n : Promise!CheckWrite(p, i, o, n) <=> CheckWrite(p, i, o, n)
  BY <1>4, <1>5 DEF CheckWrite, Promise!CheckWrite
<1>7. \A p, i : Promise!AllowsDelegation(p, i) <=> AllowsDelegation(p, i)
  BY <1>2, <1>3, <1>6 DEF AllowsDelegation, Promise!AllowsDelegation,
       AllowsWholeAccountWrite, Promise!AllowsWholeAccountWrite
<1>8. \A p, i : Promise!AllowsAnyAccountWrite(p, i) <=> AllowsAnyAccountWrite(p, i)
  BY <1>4 DEF AllowsAnyAccountWrite, Promise!AllowsAnyAccountWrite
<1>9. \A p, i, o, n : Promise!Governing(p, i, o, n) = Governing(p, i, o, n)
  BY DEF Governing, Promise!Governing, EnvelopeOverlaps, Promise!EnvelopeOverlaps,
         EnvelopeEnd, Promise!EnvelopeEnd
<1>10. \A r, x, o, n : Promise!SelectedContains(r, x, o, n) <=> SelectedContains(r, x, o, n)
  BY DEF SelectedContains, Promise!SelectedContains, CellEnd, Promise!CellEnd,
         CellStart, Promise!CellStart
<1>11. \A r, args : /\ Promise!SelectorBound(r, args) <=> SelectorBound(r, args)
                   /\ Promise!Selected(r, args) = Selected(r, args)
  BY DEF SelectorBound, Promise!SelectorBound, Selected, Promise!Selected
<1>12. \A p, i, o, n, args :
         Promise!CheckWriteWithArgs(p, i, o, n, args) <=> CheckWriteWithArgs(p, i, o, n, args)
  <2>1. TAKE p, i, o, n, args
  <2> DEFINE g == Governing(p, i, o, n)
             h == Promise!Governing(p, i, o, n)
  <2>2. g = h /\ Min(g) = Promise!Min(h)
    BY <1>1, <1>9
  <2>3. CASE g = {}
    BY <1>6, <2>2, <2>3 DEF CheckWriteWithArgs, Promise!CheckWriteWithArgs
  <2>4. CASE g # {}
    BY <1>10, <1>11, <2>2, <2>4 DEF CheckWriteWithArgs, Promise!CheckWriteWithArgs
  <2>5. QED
    BY <2>3, <2>4
<1>13. QED
  BY <1>1, <1>2, <1>3, <1>7, <1>8, <1>12

\* Checking against the cached governing slot is deciding by the newest gate.
LEMMA AnswersAgree ==
  ASSUME IInv, NEW x, NEW c \in Checks
  PROVE  Answer(x, c) = Promise!Answer(x, c)
<1> USE DEF IInv
<1>1. Live = {} <=> Gates = {}
  BY DEF Gates
<1>2. Live = {} <=> installed = 0
  BY SlotFacts, FS_EmptySet, FS_CardinalityType DEF CachesExact
<1>3. CASE UNGUARDED /\ c.kind \in Promise!RawKinds
  BY <1>3 DEF Answer, Promise!Answer, Ok
<1>4. CASE Live = {}
  BY <1>1, <1>2, <1>4 DEF Answer, Promise!Answer, Ok, TierCheck, StoreCheck
<1>5. CASE Live # {} /\ ~(UNGUARDED /\ c.kind \in Promise!RawKinds)
  <2>1. /\ top_idx \in Live /\ slots[top_idx].token = top_token
        /\ \A d \in Live : slots[d].token <= top_token
        /\ top_token # 0 /\ installed # 0
    BY <1>2, <1>5 DEF CachesExact, Live
  <2>2. AnyActive /\ Answer(x, c) = StoreCheck(x, c)
    BY <1>5, <2>1, GateStoreAssumption
       DEF Answer, AnyActive, TierCheck, CheckerTracksGates
  <2>3. Promise!Answer(x, c) = Promise!Decision(Promise!Newest, x, c)
    BY <1>1, <1>5 DEF Promise!Answer
  <2>4. Promise!Newest = GateAt(top_idx)
    <3>1. /\ GateAt(top_idx) \in Gates
          /\ \A h \in Gates : h.id <= GateAt(top_idx).id
      BY <2>1 DEF Gates, GateAt
    <3>2. ASSUME NEW g \in Gates, \A h \in Gates : h.id <= g.id
          PROVE  g = GateAt(top_idx)
      <4>1. PICK d \in Live : g = GateAt(d)
        BY DEF Gates
      <4>2. slots[d].token <= top_token /\ top_token <= slots[d].token
        BY <2>1, <3>1, <3>2, <4>1 DEF GateAt
      <4>3. slots[d].token = slots[top_idx].token
        BY <2>1, <4>2, SlotFacts DEF Live, TypeOK, Token
      <4>4. QED
        BY <2>1, <4>1, <4>3 DEF GuardsOwnSlots
    <3>3. QED
      BY <3>1, <3>2 DEF Promise!Newest
  <2>5. PICK call \in Calls :
          /\ slots[top_idx] = Gate(top_token, call)
          /\ GateAt(top_idx) = [id |-> top_token, accounts |-> call.accounts,
                                policy |-> call.policy, args |-> call.args]
    BY <2>1, LiveSlotShape
  <2> DEFINE slot == slots[top_idx]
             gate == GateAt(top_idx)
             at == {k \in DOMAIN gate.accounts : gate.accounts[k] = x}
             matching == {k \in DOMAIN slot.entries : slot.entries[k].address = x}
  <2>6. /\ slot.entries = EntriesOf(call) /\ slot.policy = call.policy
        /\ slot.args = call.args
        /\ gate.accounts = call.accounts /\ gate.policy = call.policy
        /\ gate.args = call.args
    BY <2>5 DEF Gate
  <2>7. at = matching
    BY <2>6 DEF EntriesOf, Entry
  <2>8. \A k \in matching : /\ EntryAllows(slot, slot.entries[k], c)
                               <=> Promise!Grants(gate, k - 1, c)
                            /\ slot.entries[k].index = k - 1
    <3>1. TAKE k \in matching
    <3>2. k \in DOMAIN call.accounts
      BY <2>6 DEF EntriesOf
    <3>3. slot.entries[k] = Entry(call.policy, call.accounts[k], k - 1)
      BY <2>6, <3>2 DEF EntriesOf
    <3>4. /\ slot.entries[k].index = k - 1
          /\ slot.entries[k].allow_mutation = AllowsLamportMutation(call.policy, k - 1)
          /\ slot.entries[k].allow_delegation = AllowsDelegation(call.policy, k - 1)
          /\ slot.entries[k].allow_transition = AllowsAnyAccountWrite(call.policy, k - 1)
      BY <3>3 DEF Entry
    <3>5. EntryAllows(slot, slot.entries[k], c) <=> Promise!Grants(gate, k - 1, c)
      <4> HIDE DEF slot, gate
      <4>1. QED
        BY <2>6, <3>4, SamePolicyOperators, Zenon DEF EntryAllows, Promise!Grants
    <3>6. QED
      BY <3>4, <3>5
  <2>9. slot.policy # NoPolicy
    BY <2>6, CallsAssumption
  <2>10. matching # {} => Min(matching) \in matching
    <3>1. matching \subseteq Nat
      BY <2>6, CallsAssumption DEF EntriesOf
    <3>2. matching # {} => \E k \in matching : \A j \in matching : k <= j
      <4> HIDE DEF matching
      <4>1. QED
        BY <3>1, LeastElement
    <3>3. QED
      BY <3>2 DEF Min
  <2>11. SomeEntryAllows(slot, matching, c) <=> \E k \in at : Promise!Grants(gate, k - 1, c)
    BY <2>7, <2>8 DEF SomeEntryAllows
  <2>12. StoreCheck(x, c) = Promise!Decision(gate, x, c)
    <3> HIDE DEF slot, gate
    <3>1. StoreCheck(x, c) =
            IF c.kind \in Promise!LamportKinds /\ ~LamportsDeclared(slot.policy) THEN Ok
            ELSE IF SomeEntryAllows(slot, matching, c) THEN Ok
            ELSE Violation(IF matching = {} THEN U8_MAX ELSE slot.entries[Min(matching)].index)
      BY <2>1, <2>9 DEF StoreCheck, slot
    <3>2. Promise!Decision(gate, x, c) =
            IF c.kind \in Promise!LamportKinds /\ ~LamportsDeclared(gate.policy) THEN Ok
            ELSE IF \E k \in at : Promise!Grants(gate, k - 1, c) THEN Ok
            ELSE Violation(IF at = {} THEN U8_MAX ELSE Min(at) - 1)
      BY SamePolicyOperators, Zenon DEF Promise!Decision, Ok, Violation
    <3>3. matching # {} => slot.entries[Min(matching)].index = Min(at) - 1
      BY <2>7, <2>8, <2>10
    <3>4. QED
      BY <2>6, <2>7, <2>11, <3>1, <3>2, <3>3
  <2>13. QED
    BY <2>2, <2>3, <2>4, <2>12
<1>6. QED
  BY <1>3, <1>4, <1>5

\* As many gates as live slots: tokens tell them apart.
LEMMA GateCount ==
  ASSUME IInv
  PROVE  Cardinality(Gates) = Cardinality(Live)
<1> USE DEF IInv
<1> DEFINE f == [d \in Live |-> GateAt(d)]
<1>1. f \in [Live -> Gates]
  BY DEF Gates
<1>2. \A d, e \in Live : f[d] = f[e] => d = e
  BY DEF GateAt, GuardsOwnSlots
<1>3. \A g \in Gates : \E d \in Live : f[d] = g
  BY DEF Gates
<1>4. f \in Bijection(Live, Gates)
  BY <1>1, <1>2, <1>3 DEF Bijection, Injection, Surjection, IsInjective
<1>5. QED
  BY <1>4, SlotFacts, FS_Bijection DEF ExistsBijection

\* The tier is full exactly when the promise has no room left.
LEMMA FullTier == IInv => (Live = SlotIdx <=> Promise!Cardinality(Gates) >= DEPTH)
<1> SUFFICES ASSUME IInv PROVE Live = SlotIdx <=> Promise!Cardinality(Gates) >= DEPTH
  OBVIOUS
<1>1. Cardinality(SlotIdx) = DEPTH
  BY GateStoreAssumption, FS_Interval DEF SlotIdx
<1>2. /\ Cardinality(Live) <= Cardinality(SlotIdx)
      /\ Cardinality(Live) = Cardinality(SlotIdx) => SlotIdx = Live
  BY SlotFacts, FS_Subset DEF IInv
<1>3. Cardinality(Live) \in Nat
  BY SlotFacts, FS_CardinalityType DEF IInv
<1>4. Promise!Cardinality(Gates) = Cardinality(Gates)
  BY DEF Cardinality, Promise!Cardinality
<1>5. QED
  BY <1>1, <1>2, <1>3, <1>4, GateCount, GateStoreAssumption

LEMMA InstallRefines ==
  ASSUME IInv, NEW call \in Calls, InstallGate(call)
  PROVE  Promise!AInstall(call)
<1> USE GateStoreAssumption DEF IInv
<1> DEFINE t == issued + 1
<1>1. PICK d \in SlotIdx : d = Min(SlotIdx \ Live) /\ d \notin Live
  BY FreeSlotExists DEF InstallGate
<1>2. t \in 1 .. MaxIssued
  BY DEF InstallGate, TypeOK, Token
<1>3. slots' = [slots EXCEPT ![d] = Gate(t, call)] /\ verdict' = Ok
      /\ request' = <<"install", call>>
  BY <1>1 DEF InstallGate, FreshToken
<1>4. /\ slots'[d] = Gate(t, call)
      /\ \A x \in SlotIdx : x # d => slots'[x] = slots[x]
  BY <1>1, <1>3 DEF TypeOK
<1>5. Live' = Live \cup {d}
  BY <1>1, <1>2, <1>4 DEF Live, Gate
<1>6. d \in Live' /\ TypeOK'
  BY <1>5, InstallPreserves
<1>7. GateAt(d)' = [id |-> t, accounts |-> call.accounts,
                    policy |-> call.policy, args |-> call.args]
  <2>1. /\ DOMAIN EntriesOf(call) = DOMAIN call.accounts
        /\ \A k \in DOMAIN call.accounts : EntriesOf(call)[k].address = call.accounts[k]
    BY DEF EntriesOf, Entry
  <2>2. [k \in DOMAIN EntriesOf(call) |-> EntriesOf(call)[k].address] = call.accounts
    BY <2>1, CallsAssumption
  <2>3. QED
    BY <1>4, <2>2 DEF GateAt, Gate
<1>8. \A x \in Live : GateAt(x)' = GateAt(x)
  BY <1>1, <1>4 DEF GateAt, Live
<1>9. Gates' = Gates \cup {GateAt(d)'}
  <2>1. \A g : g \in Gates' => g \in Gates \cup {GateAt(d)'}
    BY <1>5, <1>8 DEF Gates
  <2>2. \A g : g \in Gates \cup {GateAt(d)'} => g \in Gates'
    BY <1>5, <1>8 DEF Gates
  <2>3. QED
    BY <2>1, <2>2
<1>10. \A h \in Gates : h.id < t
  <2>1. TAKE h \in Gates
  <2>2. PICK x \in Live : h = GateAt(x)
    BY DEF Gates
  <2>3. h.id = slots[x].token /\ slots[x].token <= issued /\ slots[x].token \in Nat
    BY <2>2, SlotFacts DEF GateAt, TokensIssued, Live
  <2>4. QED
    BY <2>3 DEF TypeOK, Token
<1>11. Promise!Obstacles(call) = {}
  BY FullTier DEF InstallGate, Refusal, Promise!Obstacles
<1>12. QED
  BY <1>3, <1>7, <1>9, <1>10, <1>11 DEF Promise!AInstall, Ok

LEMMA RefusalRefines ==
  ASSUME IInv, NEW call \in Calls, InstallRefused(call)
  PROVE  Promise!AInstall(call)
<1>1. Refusal(call) \in Promise!Obstacles(call)
  BY FullTier DEF InstallRefused, Refusal, Promise!Obstacles
<1>2. Gates' = Gates
  BY DEF InstallRefused, store, Gates, Live, GateAt
<1>3. verdict' \in {Promise!Refused(why) : why \in Promise!Obstacles(call)}
  BY <1>1 DEF InstallRefused, Refused
<1>4. QED
  BY <1>1, <1>2, <1>3 DEF Promise!AInstall, InstallRefused

LEMMA DropRefines ==
  ASSUME IInv, NEW token \in guards, DropGuard(token)
  PROVE  \E g \in Gates : Promise!ADrop(g)
<1> USE DEF IInv
<1>1. PICK d \in Live : slots[d].token = token
  BY DEF GuardsOwnSlots
<1>2. d \in SlotIdx /\ d = CHOOSE x \in SlotIdx : slots[x].token = token
  <2>1. token # 0
    BY <1>1 DEF Live
  <2>2. \A x \in SlotIdx : slots[x].token = token => x = d
    BY <1>1, <2>1 DEF GuardsOwnSlots, Live
  <2>3. QED
    BY <1>1, <2>2 DEF Live
<1>3. slots' = [slots EXCEPT ![d] = FREE] /\ UNCHANGED <<request, verdict>>
  BY <1>1, <1>2 DEF DropGuard, Remove
<1>4. /\ slots'[d].token = 0
      /\ \A x \in SlotIdx : x # d => slots'[x] = slots[x]
  BY <1>2, <1>3 DEF TypeOK, FREE
<1>5. Live' = Live \ {d}
  BY <1>2, <1>4 DEF Live
<1>6. \A x \in Live' : GateAt(x)' = GateAt(x) /\ GateAt(x) # GateAt(d)
  <2>1. TAKE x \in Live'
  <2>2. x \in SlotIdx /\ x # d /\ x \in Live
    BY <1>5 DEF Live
  <2>3. GateAt(x)' = GateAt(x)
    BY <1>4, <2>2 DEF GateAt
  <2>4. GateAt(x) # GateAt(d)
    BY <2>2 DEF GateAt, GuardsOwnSlots
  <2>5. QED
    BY <2>3, <2>4
<1>7. Gates' = Gates \ {GateAt(d)}
  <2>1. \A g : g \in Gates' => g \in Gates \ {GateAt(d)}
    BY <1>5, <1>6 DEF Gates
  <2>2. \A g : g \in Gates \ {GateAt(d)} => g \in Gates'
    BY <1>5, <1>6 DEF Gates
  <2>3. QED
    BY <2>1, <2>2
<1>8. GateAt(d) \in Gates
  BY DEF Gates
<1>9. QED
  BY <1>3, <1>7, <1>8 DEF Promise!ADrop

LEMMA StepRefines == IInv /\ [Next]_vars => [Promise!ANext]_(Promise!avars)
<1> SUFFICES ASSUME IInv, [Next]_vars
             PROVE  Promise!ANext \/ UNCHANGED <<Gates, request, verdict>>
  BY DEF Promise!avars
<1>1. CASE \E call \in Calls : InstallRefused(call)
  BY <1>1, RefusalRefines DEF Promise!ANext
<1>2. CASE \E call \in Calls : InstallGate(call)
  BY <1>2, InstallRefines DEF Promise!ANext
<1>3. CASE \E token \in guards : DropGuard(token)
  BY <1>3, DropRefines DEF Promise!ANext
<1>4. CASE \E token \in guards : ForgetGuard(token)
  BY <1>4 DEF ForgetGuard, store, Gates, Live, GateAt
<1>5. CASE \E a \in Address, c \in Checks : Check(a, c)
  <2>1. PICK a \in Address, c \in Checks : Check(a, c)
    BY <1>5
  <2>2. Gates' = Gates
    BY <2>1 DEF Check, store, Gates, Live, GateAt
  <2>3. Promise!ACheck(a, c)
    BY <2>1, <2>2, AnswersAgree DEF Check, Promise!ACheck
  <2>4. QED
    BY <2>3 DEF Promise!ANext, Checks
<1>6. CASE NewInvocation
  <2>1. Gates' = {}
    BY <1>6 DEF NewInvocation, Gates, Live, FREE
  <2>2. QED
    BY <1>6, <2>1 DEF NewInvocation, Promise!ANewInvocation, Promise!ANext, Ok
<1>7. CASE UNCHANGED vars
  BY <1>7 DEF vars, store, Gates, Live, GateAt
<1>8. QED
  BY <1>1, <1>2, <1>3, <1>4, <1>5, <1>6, <1>7 DEF Next

\* The slot store with its caches, precomputed bits and callback answers every
\* check as the newest surviving gate would, for every depth and every policy.
THEOREM StoreImplementsPromise == Spec => ImplementsPromise
<1>1. Init => Promise!AInit
  BY DEF Init, Promise!AInit, Gates, Live, FREE, Ok
<1>2. QED
  BY <1>1, InitEstablishes, StepPreserves, StepRefines, PTL
     DEF Spec, ImplementsPromise, Promise!ASpec
=============================================================================
