--------------------------- MODULE GuardUserProofs ---------------------------
(***************************************************************************)
(* Proofs about what is built over the account guards: SegmentAccess, the  *)
(* typed views of byte ranges, for every set of guards, registries and     *)
(* accounts, every capacity and every batch; and CpiBuilders, the calls,   *)
(* for every set of accounts, lists and gates and every buffer size.       *)
(*                                                                         *)
(* LedgerConflictFree and ViewsDisjoint are not inductive: what a guard's  *)
(* views are is settled while the batch is registered.  The invariant      *)
(* follows a batch through op: its registered entries stay in the ledger   *)
(* until the guard is built, so each is registrable beside the others; and *)
(* a live guard's entries carry the account and the access of the borrow   *)
(* it holds, so the account layer's promise separates the guards.          *)
(*                                                                         *)
(* LedgerExact counts copies.  The invariant Balanced adds what it leaves  *)
(* out: an operation is alone on its registry and so is a live guard, so a *)
(* batch, a lease and the list a release loop works through are the same   *)
(* entries handed on, each counted once.                                   *)
(*                                                                         *)
(* A call is one step, so most of what it promises is a lemma about the    *)
(* tier's checks.  What lasts is what the builders keep.  The infos of a   *)
(* DynCpi stay merged (InfosMerged).  A token batch stays cut where its    *)
(* encoders cut it (BatchSound), half way through a push too, and the      *)
(* checkpoint of that push is one of the cuts (Marks), so a rollback ends  *)
(* on one.                                                                 *)
(***************************************************************************)
EXTENDS SegmentAccess, CpiBuilders, WellFoundedInduction, FiniteSetTheorems, TLAPS

Apart(s) == \A i, j \in DOMAIN s : i # j => ~Conflict(s[i], s[j])

LedgerApart == \A r \in Registry : Apart(ledger[r])

\* An entry carries the account and the access of a borrow.
Carries(e, b) ==
  e.key = Identity[b.cell] /\ (e.kind = "Read" <=> b.access = "shared")

BatchInLedger ==
  op.step = "register" =>
    /\ Apart(op.done)
    /\ \A i \in DOMAIN op.done :
         /\ Carries(op.done[i], BorrowOf(op.cell, op.access))
         /\ \E k \in DOMAIN ledger[op.registry] : ledger[op.registry][k] = op.done[i]

LeaseBacked ==
  \A g \in Views :
    /\ g \in Holders
    /\ Apart(lease[g].entries)
    /\ \A i \in DOMAIN lease[g].entries : Carries(lease[g].entries[i], holding[g])

IInv == TypeOK /\ LedgerApart /\ BatchInLedger /\ LeaseBacked /\ Exclusive

-----------------------------------------------------------------------------
(* Entries *)

\* A registered range is a range of numbers.
LEMMA EntryFacts ==
  ASSUME NEW e \in Entry
  PROVE  /\ e.range \in Segment /\ e.range.offset \in Nat /\ e.range.size \in Nat
         /\ e.range.offset + e.range.size <= 2 * U32_MAX
         /\ e.kind \in Kind
<1>1. e.range \in Segment /\ e.kind \in Kind
  BY DEF Entry
<1>2. Segment \subseteq [offset : 0 .. U32_MAX, size : 0 .. U32_MAX] /\ U32_MAX \in Nat
  BY SegmentAccessAssumption
<1>3. e.range.offset \in 0 .. U32_MAX /\ e.range.size \in 0 .. U32_MAX
  BY <1>1, <1>2
<1>4. QED
  BY <1>1, <1>2, <1>3

\* It does not matter which of two entries is registered first.
LEMMA ConflictSymmetric ==
  ASSUME NEW a \in Entry, NEW b \in Entry, Conflict(a, b)
  PROVE  Conflict(b, a)
BY DEF Conflict, Overlap

\* ranges_overlap misses no shared byte.
LEMMA ApartIsHarmless ==
  ASSUME NEW a \in Entry, NEW b \in Entry, ~Conflict(a, b)
  PROVE  Harmless(a, b)
<1>1. CASE a.key # b.key
  BY <1>1 DEF Harmless, Shared
<1>2. CASE a.kind = "Read" /\ b.kind = "Read"
  BY <1>2 DEF Harmless
<1>3. CASE a.key = b.key /\ ~Overlap(a.range, b.range)
  <2>1. \/ a.range.offset + a.range.size <= b.range.offset
        \/ b.range.offset + b.range.size <= a.range.offset
    BY <1>3 DEF Overlap
  <2>2. ASSUME NEW byte \in 0 .. 2 * U32_MAX,
               a.range.offset <= byte, byte < a.range.offset + a.range.size,
               b.range.offset <= byte, byte < b.range.offset + b.range.size
        PROVE  FALSE
    <3>1. U32_MAX \in Nat
      BY SegmentAccessAssumption
    <3>2. byte \in Nat
      BY <3>1
    <3>3. /\ a.range.offset \in Nat /\ a.range.size \in Nat
          /\ b.range.offset \in Nat /\ b.range.size \in Nat
      BY EntryFacts
    <3>4. QED
      BY <2>1, <2>2, <3>2, <3>3
  <2>3. Shared(a, b) = {}
    BY <1>3, <2>2 DEF Shared
  <2>4. QED
    BY <2>3 DEF Harmless
<1>4. QED
  BY <1>1, <1>2, <1>3 DEF Conflict

\* NoBorrow is no borrow.
LEMMA BorrowIsSome ==
  ASSUME NEW c, NEW access
  PROVE  BorrowOf(c, access) # NoBorrow
<1>1. "none" \in DOMAIN NoBorrow /\ "none" \notin DOMAIN BorrowOf(c, access)
  BY DEF NoBorrow, BorrowOf
<1>2. QED
  BY <1>1

-----------------------------------------------------------------------------
(* The array of a registry *)

\* Appending an entry that conflicts with none keeps the array conflict free.
LEMMA AppendApart ==
  ASSUME NEW s \in Seq(Entry), NEW e \in Entry, Apart(s),
         \A i \in DOMAIN s : ~Conflict(s[i], e)
  PROVE  Apart(Append(s, e))
<1>1. /\ Append(s, e) \in Seq(Entry)
      /\ DOMAIN Append(s, e) = 1 .. Len(s) + 1
      /\ Append(s, e)[Len(s) + 1] = e
      /\ \A i \in 1 .. Len(s) : Append(s, e)[i] = s[i]
      /\ DOMAIN s = 1 .. Len(s) /\ Len(s) \in Nat
  OBVIOUS
<1>2. SUFFICES ASSUME NEW i \in 1 .. Len(s) + 1, NEW j \in 1 .. Len(s) + 1, i # j
               PROVE  ~Conflict(Append(s, e)[i], Append(s, e)[j])
  BY <1>1 DEF Apart
<1>3. CASE i # Len(s) + 1 /\ j # Len(s) + 1
  <2>1. i \in 1 .. Len(s) /\ j \in 1 .. Len(s)
    BY <1>1, <1>3
  <2>2. QED
    BY <1>1, <1>2, <2>1 DEF Apart
<1>4. CASE i # Len(s) + 1 /\ j = Len(s) + 1
  <2>1. i \in 1 .. Len(s)
    BY <1>1, <1>4
  <2>2. QED
    BY <1>1, <1>4, <2>1
<1>5. CASE i = Len(s) + 1 /\ j # Len(s) + 1
  <2>1. j \in 1 .. Len(s)
    BY <1>1, <1>5
  <2>2. s[j] \in Entry
    BY <1>1, <2>1
  <2>3. QED
    BY <1>1, <1>5, <2>1, <2>2, ConflictSymmetric
<1>6. QED
  BY <1>2, <1>3, <1>4, <1>5

\* A non-empty set of naturals has a least element.
LEMMA LeastElement ==
  ASSUME NEW T, T \subseteq Nat, T # {}
  PROVE  \E x \in T : \A y \in T : x <= y
<1>1. PICK x \in T : \A y \in T : <<y, x>> \notin OpToRel(<, Nat)
  BY NatLessThanWellFounded, WFMin
<1>2. ASSUME NEW y \in T PROVE x <= y
  <2>1. <<y, x>> \notin OpToRel(<, Nat) /\ x \in Nat /\ y \in Nat
    BY <1>1
  <2>2. QED
    BY <2>1 DEF OpToRel
<1>3. QED
  BY <1>2

\* The slot found first holds the entry looked for.
LEMMA FirstExact ==
  ASSUME NEW s \in Seq(Entry), NEW e, Exact(s, e) # {}
  PROVE  First(Exact(s, e)) \in 1 .. Len(s)
<1>1. Exact(s, e) \subseteq 1 .. Len(s) /\ Exact(s, e) \subseteq Nat
  BY DEF Exact
<1>2. \E i \in Exact(s, e) : \A j \in Exact(s, e) : i <= j
  BY <1>1, LeastElement
<1>3. QED
  BY <1>1, <1>2 DEF First

\* Releasing an entry keeps the array conflict free: every slot of the array
\* left behind was a slot of the array before, two slots two slots.
LEMMA WithoutApart ==
  ASSUME NEW s \in Seq(Entry), NEW e, Apart(s)
  PROVE  /\ Without(s, e) \in Seq(Entry)
         /\ Len(Without(s, e)) <= Len(s)
         /\ Apart(Without(s, e))
<1>1. CASE Exact(s, e) = {}
  BY <1>1 DEF Without
<1>2. CASE Exact(s, e) # {}
  <2>1. PICK k \in 1 .. Len(s) : Without(s, e) = SwapRemove(s, k)
    BY <1>2, FirstExact DEF Without
  <2>2. PICK n \in Nat : Len(s) = n + 1
    <3>1. Len(s) - 1 \in Nat /\ Len(s) = (Len(s) - 1) + 1
      BY <2>1
    <3>2. QED
      BY <3>1
  <2>3. /\ \A i \in 1 .. n + 1 : s[i] \in Entry
        /\ DOMAIN s = 1 .. n + 1
    BY <2>2
  <2>4. SwapRemove(s, k) = [j \in 1 .. n |-> IF j = k THEN s[n + 1] ELSE s[j]]
    BY <2>2 DEF SwapRemove
  <2>5. SwapRemove(s, k) \in [1 .. n -> Entry]
    BY <2>2, <2>3, <2>4
  <2>6. SwapRemove(s, k) \in Seq(Entry) /\ Len(SwapRemove(s, k)) = n
    BY <2>2, <2>5
  <2>7. Apart(SwapRemove(s, k))
    <3>1. SUFFICES ASSUME NEW i \in 1 .. n, NEW j \in 1 .. n, i # j
                   PROVE  ~Conflict(SwapRemove(s, k)[i], SwapRemove(s, k)[j])
      BY <2>5 DEF Apart
    <3>2. PICK a \in 1 .. n + 1 : SwapRemove(s, k)[i] = s[a] /\ a = IF i = k THEN n + 1 ELSE i
      BY <2>2, <2>4
    <3>3. PICK b \in 1 .. n + 1 : SwapRemove(s, k)[j] = s[b] /\ b = IF j = k THEN n + 1 ELSE j
      BY <2>2, <2>4
    <3>4. a # b
      BY <2>2, <3>1, <3>2, <3>3
    <3>5. QED
      BY <2>3, <3>2, <3>3, <3>4 DEF Apart
  <2>8. QED
    BY <2>1, <2>2, <2>6, <2>7
<1>3. QED
  BY <1>1, <1>2

\* How often an entry occurs is a number.
LEMMA CountIsNat ==
  ASSUME NEW s \in Seq(Entry), NEW e
  PROVE  Count(s, e) \in Nat
<1>1. IsFiniteSet(1 .. Len(s))
  BY FS_Interval
<1>2. Exact(s, e) \subseteq 1 .. Len(s)
  BY DEF Exact
<1>3. QED
  BY <1>1, <1>2, FS_Subset, FS_CardinalityType DEF Count

-----------------------------------------------------------------------------
(* The operation under way *)

LEMMA StepsDiffer ==
  /\ Idle.step = "idle"
  /\ \A r, g, c, access, size_of, ranges, done :
       /\ Register(r, g, c, access, size_of, ranges, done).step = "register"
       /\ Register(r, g, c, access, size_of, ranges, done).done = done
  /\ \A r, left : Release(r, left).step = "release" /\ Release(r, left).registry = r
                   /\ Release(r, left).left = left
BY DEF Idle, Register, Release

LEMMA DoneGrows ==
  ASSUME NEW r, NEW g, NEW c, NEW access, NEW size_of, NEW ranges, NEW done, NEW longer
  PROVE  [Register(r, g, c, access, size_of, ranges, done) EXCEPT !.done = longer]
           = Register(r, g, c, access, size_of, ranges, longer)
BY DEF Register

\* What an acquisition under way knows.
LEMMA Registering ==
  ASSUME TypeOK, op.step = "register"
  PROVE  /\ op.registry \in Registry /\ op.guard \in Guard /\ op.cell \in Cell
         /\ op.access \in Access /\ op.size_of \in Pod /\ op.ranges \in Batch
         /\ op.ranges \in Seq(Segment) /\ op.done \in Seq(Entry)
         /\ op = Register(op.registry, op.guard, op.cell, op.access, op.size_of,
                           op.ranges, op.done)
<1>1. op \in [step : {"register"}, registry : Registry, guard : Guard, cell : Cell,
             access : Access, size_of : Pod, ranges : Batch, done : Seq(Entry)]
  <2>1. op # Idle
    BY StepsDiffer
  <2>2. op \notin [step : {"release"}, registry : Registry, left : Seq(Entry)]
    OBVIOUS
  <2>3. QED
    BY <2>1, <2>2 DEF TypeOK
<1>2. Batch \subseteq Seq(Segment)
  BY SegmentAccessAssumption
<1>3. QED
  BY <1>1, <1>2 DEF Register

LEMMA Releasing ==
  ASSUME TypeOK, op.step = "release"
  PROVE  op.registry \in Registry /\ op.left \in Seq(Entry)
<1>1. op \in [step : {"release"}, registry : Registry, left : Seq(Entry)]
  <2>1. op # Idle
    BY StepsDiffer
  <2>2. op \notin [step : {"register"}, registry : Registry, guard : Guard, cell : Cell,
                  access : Access, size_of : Pod, ranges : Batch, done : Seq(Entry)]
    OBVIOUS
  <2>3. QED
    BY <2>1, <2>2 DEF TypeOK
<1>2. QED
  BY <1>1

\* The three shapes op may take.
LEMMA OpShapes ==
  ASSUME NEW r \in Registry
  PROVE  /\ \A g \in Guard, c \in Cell, access \in Access, size_of \in Pod, ranges \in Batch,
              done \in Seq(Entry) :
              Register(r, g, c, access, size_of, ranges, done) \in
                [step : {"register"}, registry : Registry, guard : Guard, cell : Cell,
                 access : Access, size_of : Pod, ranges : Batch, done : Seq(Entry)]
         /\ \A left \in Seq(Entry) :
              Release(r, left) \in [step : {"release"}, registry : Registry, left : Seq(Entry)]
BY DEF Register, Release

\* A new entry carries what it was asked for.
LEMMA EntryOfFacts ==
  ASSUME NEW c \in Cell, NEW range \in Segment, NEW access \in Access
  PROVE  EntryOf(c, range, access) \in Entry /\ Carries(EntryOf(c, range, access), BorrowOf(c, access))
BY DEF EntryOf, Entry, Kind, Carries, BorrowOf, Access

\* What holds of a guard that keeps its lease and its borrow still holds.
LEMMA LeaseKept ==
  ASSUME LeaseBacked, NEW g \in Guard, lease[g].state = "live"
  PROVE  /\ holding[g] # NoBorrow /\ Apart(lease[g].entries)
         /\ \A i \in DOMAIN lease[g].entries : Carries(lease[g].entries[i], holding[g])
BY DEF LeaseBacked, Views, Holders

\* The account layer keeps the guards exclusive.
LEMMA GrantKeepsExclusive ==
  ASSUME NEW g \in Guard, NEW b, holding \in [Guard -> {NoBorrow} \cup Borrow],
         Exclusive, Free(b), holding' = [holding EXCEPT ![g] = b]
  PROVE  Exclusive'
<1>1. \A h \in Guard : holding'[h] = IF h = g THEN b ELSE holding[h]
  OBVIOUS
<1>2. ASSUME NEW h \in Holders', NEW k \in Holders', h # k
      PROVE  Compatible(holding'[h], holding'[k])
  <2>1. h \in Guard /\ k \in Guard
    BY DEF Holders
  <2>2. CASE h # g /\ k # g
    <3>1. h \in Holders /\ k \in Holders
      BY <1>1, <2>1, <2>2 DEF Holders
    <3>2. QED
      BY <1>1, <1>2, <2>1, <2>2, <3>1 DEF Exclusive
  <2>3. CASE h = g
    <3>1. k \in Holders
      BY <1>1, <1>2, <2>1, <2>3 DEF Holders
    <3>2. Compatible(holding[k], b)
      BY <3>1 DEF Free
    <3>3. QED
      BY <1>1, <1>2, <2>1, <2>3, <3>2 DEF Compatible
  <2>4. CASE k = g
    <3>1. h \in Holders
      BY <1>1, <1>2, <2>1, <2>4 DEF Holders
    <3>2. QED
      BY <1>1, <1>2, <2>1, <2>4, <3>1 DEF Free
  <2>5. QED
    BY <2>2, <2>3, <2>4
<1>3. QED
  BY <1>2 DEF Exclusive, Compatible

\* A guard that goes leaves the others as exclusive as they were.
LEMMA ReturnKeepsExclusive ==
  ASSUME NEW g \in Guard, holding \in [Guard -> {NoBorrow} \cup Borrow],
         Exclusive, Return(g)
  PROVE  Exclusive'
<1>1. \A h \in Guard : holding'[h] = IF h = g THEN NoBorrow ELSE holding[h]
  BY DEF Return
<1>2. Holders' \subseteq Holders \ {g}
  BY <1>1 DEF Holders
<1>3. QED
  BY <1>1, <1>2 DEF Exclusive, Compatible, Holders

-----------------------------------------------------------------------------
(* Every step keeps the invariant *)

LEMMA BeginKeeps ==
  ASSUME IInv, NEW r \in Registry, NEW g \in Guard, NEW c \in Cell, NEW access \in Access,
         NEW size_of \in Pod, NEW ranges \in Batch, Begin(r, g, c, access, size_of, ranges)
  PROVE  IInv'
<1>1. /\ op' = Register(r, g, c, access, size_of, ranges, <<>>)
      /\ UNCHANGED <<holding, ledger, lease, orphans>>
  BY DEF Begin
<1>2. <<>> \in Seq(Entry) /\ DOMAIN <<>> = {}
  OBVIOUS
<1>3. TypeOK'
  <2>1. op' \in [step : {"register"}, registry : Registry, guard : Guard, cell : Cell,
                access : Access, size_of : Pod, ranges : Batch, done : Seq(Entry)]
    BY <1>1, <1>2, OpShapes
  <2>2. QED
    BY <1>1, <2>1 DEF IInv, TypeOK
<1>4. BatchInLedger'
  <2>1. op'.done = <<>>
    BY <1>1, StepsDiffer
  <2>2. QED
    BY <1>2, <2>1 DEF BatchInLedger, Apart
<1>5. (LedgerApart /\ LeaseBacked /\ Exclusive)'
  BY <1>1 DEF IInv, LedgerApart, LeaseBacked, Views, Holders, Exclusive
<1>6. QED
  BY <1>3, <1>4, <1>5 DEF IInv

LEMMA RegisterKeeps ==
  ASSUME IInv, RegisterRange
  PROVE  IInv'
<1>1. op.step = "register" /\ Len(op.done) < Len(op.ranges)
  BY DEF RegisterRange, Pending
<1>2. PICK r \in Registry, done \in Seq(Entry) : r = op.registry /\ done = op.done
  BY <1>1, Registering DEF IInv
<1>3. PICK e \in Entry : e = NextEntry /\ Carries(e, BorrowOf(op.cell, op.access))
  <2>1. NextRange \in Segment
    BY <1>1, Registering DEF IInv, NextRange
  <2>2. QED
    BY <1>1, <2>1, EntryOfFacts, Registering DEF IInv, NextEntry
<1>4. /\ Registrable(ledger[r], e)
      /\ ledger' = [ledger EXCEPT ![r] = Append(@, e)]
      /\ op' = [op EXCEPT !.done = Append(@, e)]
      /\ UNCHANGED <<holding, lease, orphans>>
  BY <1>2, <1>3 DEF RegisterRange, Takes
<1>5. /\ ledger \in [Registry -> Seq(Entry)] /\ Len(ledger[r]) < MAX_SEGMENT_BORROWS
      /\ MAX_SEGMENT_BORROWS \in Nat
  BY <1>4, SegmentAccessAssumption DEF IInv, TypeOK, Registrable
<1>6. op' = Register(op.registry, op.guard, op.cell, op.access, op.size_of, op.ranges,
                     Append(done, e))
  <2>1. op = Register(op.registry, op.guard, op.cell, op.access, op.size_of, op.ranges, done)
    BY <1>1, <1>2, Registering DEF IInv
  <2>2. PICK longer : longer = Append(done, e)
    OBVIOUS
  <2>3. op' = [op EXCEPT !.done = longer]
    BY <1>2, <1>4, <2>2
  <2>4. [op EXCEPT !.done = longer]
          = Register(op.registry, op.guard, op.cell, op.access, op.size_of, op.ranges, longer)
    BY <2>1, DoneGrows
  <2>5. QED
    BY <2>2, <2>3, <2>4
<1>7. TypeOK'
  <2>1. Append(done, e) \in Seq(Entry)
    OBVIOUS
  <2>2. op' \in [step : {"register"}, registry : Registry, guard : Guard, cell : Cell,
                access : Access, size_of : Pod, ranges : Batch, done : Seq(Entry)]
    BY <1>1, <1>6, <2>1, OpShapes, Registering DEF IInv
  <2>3. /\ ledger' \in [Registry -> Seq(Entry)]
        /\ \A q \in Registry : Len(ledger'[q]) <= MAX_SEGMENT_BORROWS
    BY <1>4, <1>5 DEF IInv, TypeOK
  <2>4. QED
    BY <1>4, <2>2, <2>3 DEF IInv, TypeOK
<1>8. ledger[r] \in Seq(Entry) /\ \A i \in DOMAIN ledger[r] : ~Conflict(ledger[r][i], e)
  BY <1>4, <1>5 DEF Registrable
<1>9. LedgerApart'
  <2>1. Apart(Append(ledger[r], e))
    BY <1>8, AppendApart DEF IInv, LedgerApart
  <2>2. QED
    BY <1>4, <1>5, <2>1 DEF IInv, LedgerApart, Apart
<1>10. BatchInLedger'
  <2>1. /\ Apart(done)
        /\ \A i \in DOMAIN done :
             /\ Carries(done[i], BorrowOf(op.cell, op.access))
             /\ \E k \in DOMAIN ledger[r] : ledger[r][k] = done[i]
    BY <1>1, <1>2 DEF IInv, BatchInLedger
  <2>2. \A i \in DOMAIN done : ~Conflict(done[i], e)
    BY <1>8, <2>1
  <2>3. Apart(Append(done, e))
    BY <2>1, <2>2, AppendApart
  <2>4. /\ op'.step = "register" /\ op'.done = Append(done, e) /\ op'.registry = r
        /\ op'.cell = op.cell /\ op'.access = op.access
    <3>1. PICK new : new = Register(op.registry, op.guard, op.cell, op.access, op.size_of,
                                    op.ranges, Append(done, e))
      OBVIOUS
    <3>2. /\ new.step = "register" /\ new.done = Append(done, e) /\ new.registry = op.registry
          /\ new.cell = op.cell /\ new.access = op.access
      BY <3>1 DEF Register
    <3>3. QED
      BY <1>2, <1>6, <3>1, <3>2
  <2>5. ledger'[r] = Append(ledger[r], e)
    BY <1>4, <1>5
  <2>6. ASSUME NEW i \in DOMAIN Append(done, e)
        PROVE  /\ Carries(Append(done, e)[i], BorrowOf(op.cell, op.access))
               /\ \E k \in DOMAIN ledger'[r] : ledger'[r][k] = Append(done, e)[i]
    <3>1. CASE i \in DOMAIN done
      <4>1. Append(done, e)[i] = done[i]
        BY <3>1
      <4>2. PICK k \in DOMAIN ledger[r] : ledger[r][k] = done[i]
        BY <2>1, <3>1
      <4>3. k \in DOMAIN ledger'[r] /\ ledger'[r][k] = done[i]
        BY <1>8, <2>5, <4>2
      <4>4. QED
        BY <2>1, <3>1, <4>1, <4>3
    <3>2. CASE i \notin DOMAIN done
      <4>1. Append(done, e)[i] = e
        BY <2>6, <3>2
      <4>2. Len(ledger[r]) + 1 \in DOMAIN ledger'[r] /\ ledger'[r][Len(ledger[r]) + 1] = e
        BY <1>8, <2>5
      <4>3. QED
        BY <1>3, <4>1, <4>2
    <3>3. QED
      BY <3>1, <3>2
  <2>7. QED
    BY <2>3, <2>4, <2>6 DEF BatchInLedger, Apart
<1>11. (LeaseBacked /\ Exclusive)'
  BY <1>4 DEF IInv, LeaseBacked, Views, Holders, Exclusive
<1>12. QED
  BY <1>7, <1>9, <1>10, <1>11 DEF IInv

\* An acquisition that fails only turns to releasing.
LEMMA RefuseKeeps ==
  ASSUME IInv, RefuseRange \/ AccountRefused
  PROVE  IInv'
<1>1. op.step = "register"
  BY DEF RefuseRange, AccountRefused, Pending, AllRegistered
<1>2. op' = Release(op.registry, op.done) /\ UNCHANGED <<holding, ledger, lease, orphans>>
  BY DEF RefuseRange, AccountRefused, RolledBack
<1>3. op' \in [step : {"release"}, registry : Registry, left : Seq(Entry)]
  BY <1>1, <1>2, OpShapes, Registering DEF IInv
<1>4. TypeOK'
  BY <1>2, <1>3 DEF IInv, TypeOK
<1>5. BatchInLedger'
  BY <1>2, StepsDiffer DEF BatchInLedger
<1>6. (LedgerApart /\ LeaseBacked /\ Exclusive)'
  BY <1>2 DEF IInv, LedgerApart, LeaseBacked, Views, Holders, Exclusive
<1>7. QED
  BY <1>4, <1>5, <1>6 DEF IInv

\* The guard is built: its views are the batch, and they stay apart.
LEMMA BorrowKeeps ==
  ASSUME IInv, BorrowAccount
  PROVE  IInv'
<1>1. op.step = "register"
  BY DEF BorrowAccount, AllRegistered
<1>2. PICK g \in Guard, r \in Registry, c \in Cell, access \in Access, done \in Seq(Entry) :
        g = op.guard /\ r = op.registry /\ c = op.cell /\ access = op.access /\ done = op.done
  BY <1>1, Registering DEF IInv
<1>3. PICK b \in Borrow : b = BorrowOf(c, access) /\ b # NoBorrow
  BY <1>2, BorrowIsSome DEF Borrow
<1>4. PICK new : new = Leased(r, done)
  OBVIOUS
<1>5. new.state = "live" /\ new.entries = done
  BY <1>4 DEF Leased
<1>6. /\ holding[g] = NoBorrow /\ Free(b)
      /\ holding' = [holding EXCEPT ![g] = b]
      /\ lease' = [lease EXCEPT ![g] = new]
      /\ op' = Idle /\ UNCHANGED <<ledger, orphans>>
  BY <1>2, <1>3, <1>4 DEF BorrowAccount, Backed, Grant
<1>7. holding \in [Guard -> {NoBorrow} \cup Borrow]
  BY DEF IInv, TypeOK
<1>8. /\ Apart(done)
      /\ \A i \in DOMAIN done : Carries(done[i], b)
  BY <1>1, <1>2, <1>3 DEF IInv, BatchInLedger
<1>9. TypeOK'
  <2>1. new \in [state : {"live"}, registry : Registry, entries : Seq(Entry)]
    BY <1>4 DEF Leased
  <2>2. holding' \in [Guard -> {NoBorrow} \cup Borrow]
    BY <1>6, <1>7
  <2>3. lease' \in [Guard -> Lease]
    BY <1>6, <2>1 DEF IInv, TypeOK, Lease
  <2>4. QED
    BY <1>6, <2>2, <2>3 DEF IInv, TypeOK
<1>10. LedgerApart' /\ BatchInLedger'
  BY <1>6, StepsDiffer DEF IInv, LedgerApart, BatchInLedger
<1>11. LeaseBacked'
  <2>1. ASSUME NEW h \in Guard, lease'[h].state = "live"
        PROVE  /\ holding'[h] # NoBorrow /\ Apart(lease'[h].entries)
               /\ \A i \in DOMAIN lease'[h].entries : Carries(lease'[h].entries[i], holding'[h])
    <3>1. CASE h # g
      <4>1. lease'[h] = lease[h] /\ holding'[h] = holding[h]
        BY <1>6, <1>7, <3>1
      <4>2. QED
        BY <2>1, <4>1, LeaseKept DEF IInv
    <3>2. CASE h = g
      <4>1. holding'[g] = b
        BY <1>6, <1>7
      <4>2. lease'[g].entries = done
        <5>1. lease'[g] = new \/ lease'[g] = lease[g]
          BY <1>6
        <5>2. lease[g].state # "live"
          BY <1>6, LeaseKept DEF IInv
        <5>3. QED
          BY <1>5, <2>1, <3>2, <5>1, <5>2
      <4>3. QED
        BY <1>3, <1>8, <3>2, <4>1, <4>2
    <3>3. QED
      BY <3>1, <3>2
  <2>2. QED
    BY <2>1 DEF LeaseBacked, Views, Holders
<1>12. Exclusive'
  BY <1>6, <1>7, GrantKeepsExclusive DEF IInv
<1>13. QED
  BY <1>9, <1>10, <1>11, <1>12 DEF IInv

\* A lease that goes leaves the others as they were.
LEMMA LeaseGone ==
  ASSUME LeaseBacked, NEW g \in Guard, NEW gone, gone.state # "live",
         lease \in [Guard -> Lease],
         holding \in [Guard -> {NoBorrow} \cup Borrow],
         lease' = [lease EXCEPT ![g] = gone],
         \A h \in Guard : h # g => holding'[h] = holding[h]
  PROVE  LeaseBacked'
<1>1. ASSUME NEW h \in Guard, lease'[h].state = "live"
      PROVE  /\ holding'[h] # NoBorrow /\ Apart(lease'[h].entries)
             /\ \A i \in DOMAIN lease'[h].entries : Carries(lease'[h].entries[i], holding'[h])
  <2>1. CASE h # g
    <3>1. lease'[h] = lease[h] /\ holding'[h] = holding[h]
      BY <2>1
    <3>2. QED
      BY <1>1, <3>1, LeaseKept
  <2>2. CASE h = g
    <3>1. lease'[g] = gone
      OBVIOUS
    <3>2. QED
      BY <1>1, <2>2, <3>1
  <2>3. QED
    BY <2>1, <2>2
<1>2. QED
  BY <1>1 DEF LeaseBacked, Views, Holders

LEMMA DropKeeps ==
  ASSUME IInv, NEW g \in Guard, DropSegment(g)
  PROVE  IInv'
<1>1. /\ lease[g].state = "live"
      /\ Return(g) /\ lease' = [lease EXCEPT ![g] = NoLease]
      /\ op' = Release(lease[g].registry, lease[g].entries)
      /\ UNCHANGED <<ledger, orphans>>
  BY DEF DropSegment
<1>2. lease[g] \in [state : {"live"}, registry : Registry, entries : Seq(Entry)]
  BY <1>1 DEF IInv, TypeOK, Lease, NoLease, Forgotten
<1>3. holding \in [Guard -> {NoBorrow} \cup Borrow]
  BY DEF IInv, TypeOK
<1>4. holding' = [holding EXCEPT ![g] = NoBorrow]
  BY <1>1 DEF Return
<1>5. TypeOK'
  <2>1. op' \in [step : {"release"}, registry : Registry, left : Seq(Entry)]
    BY <1>1, <1>2, OpShapes
  <2>2. holding' \in [Guard -> {NoBorrow} \cup Borrow]
    BY <1>3, <1>4
  <2>3. lease' \in [Guard -> Lease]
    BY <1>1 DEF IInv, TypeOK, Lease
  <2>4. QED
    BY <1>1, <2>1, <2>2, <2>3 DEF IInv, TypeOK
<1>6. LedgerApart' /\ BatchInLedger'
  BY <1>1, StepsDiffer DEF IInv, LedgerApart, BatchInLedger
<1>7. LeaseBacked'
  <2>1. NoLease.state # "live"
    BY DEF NoLease
  <2>2. \A h \in Guard : h # g => holding'[h] = holding[h]
    BY <1>3, <1>4
  <2>3. QED
    BY <1>1, <1>3, <2>1, <2>2, LeaseGone DEF IInv, TypeOK
<1>8. Exclusive'
  BY <1>1, <1>3, ReturnKeepsExclusive DEF IInv
<1>9. QED
  BY <1>5, <1>6, <1>7, <1>8 DEF IInv

LEMMA ForgetKeeps ==
  ASSUME IInv, NEW g \in Guard, ForgetSegment(g)
  PROVE  IInv'
<1>1. /\ lease[g].state = "live"
      /\ lease' = [lease EXCEPT ![g] = Forgotten]
      /\ orphans' = [orphans EXCEPT ![lease[g].registry] =
                        [e \in Entry |-> @[e] + Count(lease[g].entries, e)]]
      /\ UNCHANGED <<holding, ledger, op>>
  BY DEF ForgetSegment
<1>2. lease[g] \in [state : {"live"}, registry : Registry, entries : Seq(Entry)]
  BY <1>1 DEF IInv, TypeOK, Lease, NoLease, Forgotten
<1>3. holding \in [Guard -> {NoBorrow} \cup Borrow]
  BY DEF IInv, TypeOK
<1>4. TypeOK'
  <2>1. orphans' \in [Registry -> [Entry -> Nat]]
    <3>1. PICK r \in Registry, entries \in Seq(Entry) :
            r = lease[g].registry /\ entries = lease[g].entries
      BY <1>2
    <3>2. orphans \in [Registry -> [Entry -> Nat]]
      BY DEF IInv, TypeOK
    <3>3. \A e \in Entry : orphans[r][e] + Count(entries, e) \in Nat
      BY <3>2, CountIsNat
    <3>4. PICK more : more = [e \in Entry |-> orphans[r][e] + Count(entries, e)]
      OBVIOUS
    <3>5. more \in [Entry -> Nat]
      BY <3>3, <3>4
    <3>6. orphans' = [orphans EXCEPT ![r] = more]
      BY <1>1, <3>1, <3>2, <3>4
    <3>7. QED
      BY <3>2, <3>5, <3>6
  <2>2. lease' \in [Guard -> Lease]
    BY <1>1 DEF IInv, TypeOK, Lease
  <2>3. QED
    BY <1>1, <2>1, <2>2 DEF IInv, TypeOK
<1>5. LedgerApart' /\ BatchInLedger' /\ Exclusive'
  BY <1>1 DEF IInv, LedgerApart, BatchInLedger, Exclusive, Holders
<1>6. LeaseBacked'
  <2>1. Forgotten.state # "live"
    BY DEF Forgotten
  <2>2. QED
    BY <1>1, <1>3, <2>1, LeaseGone DEF IInv, TypeOK
<1>7. QED
  BY <1>4, <1>5, <1>6 DEF IInv

\* Whole-account borrows disturb no lease.
LEMMA WholeKeeps ==
  ASSUME IInv, NEW g \in Guard,
         \/ \E c \in Cell, access \in Access : BorrowWhole(g, c, access)
         \/ DropWhole(g)
  PROVE  IInv'
<1>1. UNCHANGED <<ledger, lease, op, orphans>>
  BY DEF BorrowWhole, DropWhole
<1>2. holding \in [Guard -> {NoBorrow} \cup Borrow]
  BY DEF IInv, TypeOK
<1>3. lease[g].state # "live" /\ \A h \in Guard : h # g => holding'[h] = holding[h]
  <2>1. CASE DropWhole(g)
    BY <1>2, <2>1 DEF DropWhole, Return, NoLease
  <2>2. CASE \E c \in Cell, access \in Access : BorrowWhole(g, c, access)
    BY <1>2, <2>2, LeaseKept DEF IInv, BorrowWhole, Grant
  <2>3. QED
    BY <2>1, <2>2
<1>4. holding' \in [Guard -> {NoBorrow} \cup Borrow] /\ Exclusive'
  <2>1. CASE DropWhole(g)
    <3>1. Return(g)
      BY <2>1 DEF DropWhole
    <3>2. holding' \in [Guard -> {NoBorrow} \cup Borrow]
      BY <1>2, <3>1 DEF Return
    <3>3. QED
      BY <1>2, <3>1, <3>2, ReturnKeepsExclusive DEF IInv
  <2>2. CASE \E c \in Cell, access \in Access : BorrowWhole(g, c, access)
    <3>1. PICK b \in Borrow : Grant(g, b)
      BY <2>2 DEF BorrowWhole, Borrow
    <3>2. holding' = [holding EXCEPT ![g] = b] /\ Free(b)
      BY <3>1 DEF Grant
    <3>3. holding' \in [Guard -> {NoBorrow} \cup Borrow]
      BY <1>2, <3>2
    <3>4. QED
      BY <1>2, <3>2, <3>3, GrantKeepsExclusive DEF IInv
  <2>3. QED
    BY <2>1, <2>2
<1>5. TypeOK' /\ LedgerApart' /\ BatchInLedger'
  BY <1>1, <1>4 DEF IInv, TypeOK, LedgerApart, BatchInLedger
<1>6. LeaseBacked'
  <2>1. ASSUME NEW h \in Guard, lease'[h].state = "live"
        PROVE  /\ holding'[h] # NoBorrow /\ Apart(lease'[h].entries)
               /\ \A i \in DOMAIN lease'[h].entries : Carries(lease'[h].entries[i], holding'[h])
    <3>1. h # g /\ lease'[h] = lease[h]
      BY <1>1, <1>3, <2>1
    <3>2. holding'[h] = holding[h]
      BY <1>3, <3>1
    <3>3. QED
      BY <2>1, <3>1, <3>2, LeaseKept DEF IInv
  <2>2. QED
    BY <2>1 DEF LeaseBacked, Views, Holders
<1>7. QED
  BY <1>4, <1>5, <1>6 DEF IInv

\* A ledger may change under no batch; what it becomes must be conflict free.
LEMMA LedgerKeeps ==
  ASSUME IInv, NEW r \in Registry, NEW s \in Seq(Entry),
         Len(s) <= MAX_SEGMENT_BORROWS, Apart(s),
         ledger' = [ledger EXCEPT ![r] = s],
         orphans' \in [Registry -> [Entry -> Nat]],
         UNCHANGED <<holding, lease>>,
         op.step # "register",
         \/ op' = op
         \/ \E left \in Seq(Entry) : op' = Release(r, left)
  PROVE  IInv'
<1>1. /\ ledger' \in [Registry -> Seq(Entry)]
      /\ \A q \in Registry : Len(ledger'[q]) <= MAX_SEGMENT_BORROWS
      /\ \A q \in Registry : ledger'[q] = IF q = r THEN s ELSE ledger[q]
  BY DEF IInv, TypeOK
<1>2. TypeOK'
  <2>1. CASE op' = op
    BY <1>1, <2>1 DEF IInv, TypeOK
  <2>2. CASE \E left \in Seq(Entry) : op' = Release(r, left)
    <3>1. op' \in [step : {"release"}, registry : Registry, left : Seq(Entry)]
      BY <2>2, OpShapes
    <3>2. QED
      BY <1>1, <3>1 DEF IInv, TypeOK
  <2>3. QED
    BY <2>1, <2>2
<1>3. LedgerApart'
  BY <1>1 DEF IInv, LedgerApart, Apart
<1>4. BatchInLedger'
  <2>1. op'.step # "register"
    BY StepsDiffer
  <2>2. QED
    BY <2>1 DEF BatchInLedger
<1>5. LeaseBacked' /\ Exclusive'
  BY DEF IInv, LeaseBacked, Views, Holders, Exclusive
<1>6. QED
  BY <1>2, <1>3, <1>4, <1>5 DEF IInv

LEMMA LedgerIsSeq ==
  ASSUME IInv, NEW r \in Registry
  PROVE  /\ ledger[r] \in Seq(Entry) /\ Len(ledger[r]) <= MAX_SEGMENT_BORROWS
         /\ Len(ledger[r]) \in Nat /\ MAX_SEGMENT_BORROWS \in Nat
         /\ Apart(ledger[r])
BY SegmentAccessAssumption DEF IInv, TypeOK, LedgerApart

LEMMA ReleaseKeeps ==
  ASSUME IInv, ReleaseEntry
  PROVE  IInv'
<1>1. op.step = "release" /\ op.left # <<>> /\ UNCHANGED <<holding, lease, orphans>>
  BY DEF ReleaseEntry
<1>2. PICK r \in Registry, left \in Seq(Entry) : r = op.registry /\ left = op.left
  BY <1>1, Releasing DEF IInv
<1>3. PICK s \in Seq(Entry) :
        s = Without(ledger[r], Head(left)) /\ Len(s) <= Len(ledger[r]) /\ Apart(s)
  BY LedgerIsSeq, WithoutApart
<1>4. ledger' = [ledger EXCEPT ![r] = s]
  BY <1>2, <1>3 DEF ReleaseEntry, IInv, TypeOK
<1>5. Tail(left) \in Seq(Entry)
  BY <1>1, <1>2
<1>6. op' = Release(r, Tail(left))
  <2>1. op \in [step : {"release"}, registry : Registry, left : Seq(Entry)]
    <3>1. op # Idle
      BY <1>1, StepsDiffer
    <3>2. op \notin [step : {"register"}, registry : Registry, guard : Guard, cell : Cell,
                    access : Access, size_of : Pod, ranges : Batch, done : Seq(Entry)]
      BY <1>1
    <3>3. QED
      BY <3>1, <3>2 DEF IInv, TypeOK
  <2>2. PICK rest : rest = Tail(left)
    OBVIOUS
  <2>3. op' = [op EXCEPT !.left = rest]
    BY <1>2, <2>2 DEF ReleaseEntry
  <2>4. QED
    BY <1>2, <2>1, <2>2, <2>3 DEF Release
<1>7. Len(s) <= MAX_SEGMENT_BORROWS
  BY <1>3, LedgerIsSeq
<1>8. orphans' \in [Registry -> [Entry -> Nat]]
  BY <1>1 DEF IInv, TypeOK
<1>9. QED
  BY <1>1, <1>3, <1>4, <1>5, <1>6, <1>7, <1>8, LedgerKeeps

LEMMA ReleasedKeeps ==
  ASSUME IInv, Released
  PROVE  IInv'
<1>1. op' = Idle /\ UNCHANGED <<holding, ledger, lease, orphans>>
  BY DEF Released
<1>2. TypeOK' /\ LedgerApart' /\ Exclusive' /\ LeaseBacked'
  BY <1>1 DEF IInv, TypeOK, LedgerApart, Exclusive, LeaseBacked, Views, Holders
<1>3. BatchInLedger'
  BY <1>1, StepsDiffer DEF BatchInLedger
<1>4. QED
  BY <1>2, <1>3 DEF IInv

\* Raw registrations, raw releases and clear happen at rest.
LEMMA RawKeeps ==
  ASSUME IInv, NEW r \in Registry,
         \/ \E e \in RawEntry : RegisterRaw(r, e) \/ ReleaseRaw(r, e)
         \/ Clear(r)
  PROVE  IInv'
<1>1. op = Idle /\ UNCHANGED <<holding, lease, op>>
  BY DEF RegisterRaw, ReleaseRaw, Clear, AtRest
<1>2. op.step # "register" /\ op' = op
  BY <1>1, StepsDiffer
<1>3. orphans \in [Registry -> [Entry -> Nat]] /\ ledger \in [Registry -> Seq(Entry)]
  BY DEF IInv, TypeOK
<1>4. RawEntry \subseteq Entry
  BY SegmentAccessAssumption DEF Entry, Kind
<1>5. ASSUME NEW e \in RawEntry, RegisterRaw(r, e)
      PROVE  IInv'
  <2>1. e \in Entry
    BY <1>4
  <2>2. PICK s \in Seq(Entry) :
          s = Append(ledger[r], e) /\ Len(s) <= MAX_SEGMENT_BORROWS /\ Apart(s)
    <3>1. Registrable(ledger[r], e)
      BY <1>5 DEF RegisterRaw
    <3>2. Apart(Append(ledger[r], e))
      BY <2>1, <3>1, LedgerIsSeq, AppendApart DEF Registrable
    <3>3. Append(ledger[r], e) \in Seq(Entry) /\ Len(Append(ledger[r], e)) = Len(ledger[r]) + 1
      BY <2>1, LedgerIsSeq
    <3>4. Len(ledger[r]) + 1 <= MAX_SEGMENT_BORROWS
      BY <3>1, LedgerIsSeq DEF Registrable
    <3>5. PICK s : s = Append(ledger[r], e)
      OBVIOUS
    <3>6. s \in Seq(Entry) /\ Len(s) <= MAX_SEGMENT_BORROWS /\ Apart(s)
      BY <3>2, <3>3, <3>4, <3>5
    <3>7. QED
      BY <3>5, <3>6
  <2>3. ledger' = [ledger EXCEPT ![r] = s]
    BY <1>3, <1>5, <2>2 DEF RegisterRaw
  <2>4. orphans' \in [Registry -> [Entry -> Nat]]
    BY <1>3, <1>5, <2>1 DEF RegisterRaw
  <2>5. QED
    BY <1>1, <1>2, <2>2, <2>3, <2>4, LedgerKeeps
<1>6. ASSUME NEW e \in RawEntry, ReleaseRaw(r, e)
      PROVE  IInv'
  <2>1. e \in Entry
    BY <1>4
  <2>2. PICK s \in Seq(Entry) :
          s = Without(ledger[r], e) /\ Len(s) <= Len(ledger[r]) /\ Apart(s)
    BY LedgerIsSeq, WithoutApart
  <2>3. ledger' = [ledger EXCEPT ![r] = s]
    BY <1>3, <1>6, <2>2 DEF ReleaseRaw
  <2>4. orphans' \in [Registry -> [Entry -> Nat]]
    <3>1. PICK n : n = IF orphans[r][e] = 0 THEN 0 ELSE orphans[r][e] - 1
      OBVIOUS
    <3>2. orphans[r][e] \in Nat
      BY <1>3, <2>1
    <3>3. n \in Nat
      BY <3>1, <3>2
    <3>4. orphans' = [orphans EXCEPT ![r][e] = n]
      BY <1>6, <3>1 DEF ReleaseRaw
    <3>5. QED
      BY <1>3, <2>1, <3>3, <3>4
  <2>5. Len(s) <= MAX_SEGMENT_BORROWS
    BY <2>2, LedgerIsSeq
  <2>6. QED
    BY <1>1, <1>2, <2>2, <2>3, <2>4, <2>5, LedgerKeeps
<1>7. CASE Clear(r)
  <2>1. PICK s \in Seq(Entry) : s = <<>>
    <3>1. <<>> \in Seq(Entry)
      OBVIOUS
    <3>2. QED
      BY <3>1, Zenon
  <2>2. Len(s) = 0 /\ DOMAIN s = {}
    BY <2>1
  <2>3. ledger' = [ledger EXCEPT ![r] = s]
    BY <1>7, <2>1 DEF Clear
  <2>4. None \in [Entry -> Nat]
    BY DEF None
  <2>5. orphans' \in [Registry -> [Entry -> Nat]]
    BY <1>3, <1>7, <2>4 DEF Clear
  <2>6. Len(s) <= MAX_SEGMENT_BORROWS /\ Apart(s)
    BY <2>2, LedgerIsSeq DEF Apart
  <2>7. QED
    BY <1>1, <1>2, <2>3, <2>5, <2>6, LedgerKeeps
<1>8. QED
  BY <1>5, <1>6, <1>7

-----------------------------------------------------------------------------
(* The theorems *)

LEMMA InitEstablishes ==
  ASSUME Init
  PROVE  IInv
<1>1. /\ holding = [g \in Guard |-> NoBorrow] /\ ledger = [r \in Registry |-> <<>>]
      /\ lease = [g \in Guard |-> NoLease] /\ op = Idle
      /\ orphans = [r \in Registry |-> None]
  BY DEF Init, AInit
<1>2. TypeOK
  <2>1. <<>> \in Seq(Entry) /\ Len(<<>>) = 0 /\ MAX_SEGMENT_BORROWS \in Nat
    BY SegmentAccessAssumption
  <2>2. None \in [Entry -> Nat]
    BY DEF None
  <2>3. QED
    BY <1>1, <2>1, <2>2 DEF TypeOK, Lease
<1>3. LedgerApart
  BY <1>1 DEF LedgerApart, Apart
<1>4. BatchInLedger
  BY <1>1, StepsDiffer DEF BatchInLedger
<1>5. LeaseBacked /\ Exclusive
  BY <1>1 DEF LeaseBacked, Views, Exclusive, Holders, NoLease
<1>6. QED
  BY <1>2, <1>3, <1>4, <1>5 DEF IInv

LEMMA NextKeeps ==
  ASSUME IInv, [Next]_vars
  PROVE  IInv'
<1>1. CASE Acquire
  BY <1>1, BeginKeeps DEF Acquire
<1>2. CASE RegisterRange
  BY <1>2, RegisterKeeps
<1>3. CASE RefuseRange \/ AccountRefused
  BY <1>3, RefuseKeeps
<1>4. CASE BorrowAccount
  BY <1>4, BorrowKeeps
<1>5. CASE ReleaseEntry
  BY <1>5, ReleaseKeeps
<1>6. CASE Released
  BY <1>6, ReleasedKeeps
<1>7. CASE \E g \in Guard : DropSegment(g) \/ ForgetSegment(g) \/ DropWhole(g)
  BY <1>7, DropKeeps, ForgetKeeps, WholeKeeps
<1>8. CASE \E g \in Guard, c \in Cell, access \in Access : BorrowWhole(g, c, access)
  BY <1>8, WholeKeeps
<1>9. CASE \/ \E r \in Registry, e \in RawEntry : RegisterRaw(r, e) \/ ReleaseRaw(r, e)
           \/ \E r \in Registry : Clear(r)
  BY <1>9, RawKeeps
<1>10. CASE UNCHANGED vars
  BY <1>10 DEF vars, IInv, TypeOK, LedgerApart, BatchInLedger, LeaseBacked, Exclusive, Views, Holders
<1>11. QED
  BY <1>1, <1>2, <1>3, <1>4, <1>5, <1>6, <1>7, <1>8, <1>9, <1>10 DEF Next

THEOREM Invariance == Spec => []IInv
<1>1. Init => IInv
  BY InitEstablishes
<1>2. IInv /\ [Next]_vars => IInv'
  BY NextKeeps
<1>3. QED
  BY <1>1, <1>2, PTL DEF Spec

\* The state keeps its types and no registry outgrows its array.
THEOREM TypeCorrect == Spec => []TypeOK
<1>1. IInv => TypeOK
  BY DEF IInv
<1>2. QED
  BY <1>1, Invariance, PTL

\* No registry holds two entries that share a byte unless both read it.
THEOREM LedgerAlwaysConflictFree == Spec => []LedgerConflictFree
<1>1. IInv => LedgerConflictFree
  <2>1. SUFFICES ASSUME IInv, NEW r \in Registry, NEW i \in DOMAIN ledger[r],
                        NEW j \in DOMAIN ledger[r], i # j
                 PROVE  Harmless(ledger[r][i], ledger[r][j])
    BY DEF LedgerConflictFree
  <2>2. ledger[r][i] \in Entry /\ ledger[r][j] \in Entry
    BY <2>1, LedgerIsSeq
  <2>3. ~Conflict(ledger[r][i], ledger[r][j])
    BY <2>1 DEF IInv, LedgerApart, Apart
  <2>4. QED
    BY <2>2, <2>3, ApartIsHarmless
<1>2. QED
  BY <1>1, Invariance, PTL

\* Live views share a byte only to read it, whatever guards and registries
\* they come from: the ledger separates the views of one guard, the account
\* borrow separates the guards.
THEOREM ViewsAlwaysDisjoint == Spec => []ViewsDisjoint
<1>1. IInv => ViewsDisjoint
  <2>1. SUFFICES ASSUME IInv, NEW g \in Views, NEW h \in Views,
                        NEW i \in DOMAIN lease[g].entries, NEW j \in DOMAIN lease[h].entries,
                        <<g, i>> # <<h, j>>
                 PROVE  Harmless(lease[g].entries[i], lease[h].entries[j])
    BY DEF ViewsDisjoint
  <2>2. \A k \in Views : /\ lease[k].entries \in Seq(Entry)
                         /\ k \in Holders /\ Apart(lease[k].entries)
                         /\ \A n \in DOMAIN lease[k].entries :
                              Carries(lease[k].entries[n], holding[k])
    <3>1. ASSUME NEW k \in Views
          PROVE  lease[k].entries \in Seq(Entry)
      <4>1. lease[k] \in Lease /\ lease[k].state = "live"
        BY <2>1 DEF IInv, TypeOK, Views
      <4>2. lease[k] \in [state : {"live"}, registry : Registry, entries : Seq(Entry)]
        BY <4>1 DEF Lease, NoLease, Forgotten
      <4>3. QED
        BY <4>2
    <3>2. QED
      BY <2>1, <3>1 DEF IInv, LeaseBacked
  <2>3. PICK a \in Entry, b \in Entry : a = lease[g].entries[i] /\ b = lease[h].entries[j]
    BY <2>1, <2>2
  <2>4. CASE g = h
    <3>1. ~Conflict(a, b)
      BY <2>1, <2>2, <2>3, <2>4 DEF Apart
    <3>2. QED
      BY <2>3, <3>1, ApartIsHarmless
  <2>5. CASE g # h
    <3>1. Compatible(holding[g], holding[h])
      BY <2>1, <2>2, <2>5 DEF IInv, Exclusive
    <3>2. Carries(a, holding[g]) /\ Carries(b, holding[h])
      BY <2>1, <2>2, <2>3
    <3>3. a.key = b.key => a.kind = "Read" /\ b.kind = "Read"
      BY <3>1, <3>2 DEF Carries, Compatible
    <3>4. ~Conflict(a, b)
      BY <3>3 DEF Conflict
    <3>5. QED
      BY <2>3, <3>4, ApartIsHarmless
  <2>6. QED
    BY <2>4, <2>5
<1>2. QED
  BY <1>1, Invariance, PTL

-----------------------------------------------------------------------------
(* How often an entry occurs *)

LEMMA ExactFinite ==
  ASSUME NEW s \in Seq(Entry), NEW e
  PROVE  Exact(s, e) \subseteq 1 .. Len(s) /\ IsFiniteSet(Exact(s, e))
<1>1. IsFiniteSet(1 .. Len(s))
  BY FS_Interval
<1>2. Exact(s, e) \subseteq 1 .. Len(s)
  BY DEF Exact
<1>3. QED
  BY <1>1, <1>2, FS_Subset

\* Slot k apart, the slots of s are those of t, renamed by p.
Renames(s, t, k, p) ==
  /\ k \in 1 .. Len(s) /\ p \in [1 .. Len(t) -> 1 .. Len(s)]
  /\ \A i, j \in 1 .. Len(t) : p[i] = p[j] => i = j
  /\ \A i \in 1 .. Len(t) : p[i] # k /\ t[i] = s[p[i]]
  /\ \A n \in 1 .. Len(s) : n # k => \E i \in 1 .. Len(t) : p[i] = n

\* An array loses the entry of the slot it loses, and no other.
LEMMA CountAcross ==
  ASSUME NEW s \in Seq(Entry), NEW t \in Seq(Entry), NEW k, NEW p, NEW e, Renames(s, t, k, p)
  PROVE  Count(s, e) = Count(t, e) + (IF s[k] = e THEN 1 ELSE 0)
<1> USE DEF Renames
<1> DEFINE S == Exact(t, e)
           T == Exact(s, e) \ {k}
<1>1. S \subseteq 1 .. Len(t) /\ IsFiniteSet(S) /\ IsFiniteSet(Exact(s, e))
  BY ExactFinite
<1>2. ExistsBijection(S, T)
  <2>1. \A i \in S : p[i] \in T
    BY DEF Exact
  <2>2. \A n \in T : \E i \in S : p[i] = n
    <3>1. SUFFICES ASSUME NEW n \in T
                   PROVE  \E i \in S : p[i] = n
      OBVIOUS
    <3>2. n \in 1 .. Len(s) /\ n # k /\ s[n] = e
      BY DEF Exact
    <3>3. PICK i \in 1 .. Len(t) : p[i] = n
      BY <3>2
    <3>4. t[i] = e
      BY <3>2, <3>3
    <3>5. QED
      BY <3>3, <3>4 DEF Exact
    <2>9. S \subseteq 1 .. Len(t) /\ T \subseteq 1 .. Len(s)
    BY <1>1, ExactFinite
  <2> HIDE DEF S, T
  <2>3. [i \in S |-> p[i]] \in Bijection(S, T)
    BY <1>1, <2>1, <2>2 DEF Bijection, Injection, Surjection, IsInjective
  <2>4. QED
    BY <2>3 DEF ExistsBijection
<1>3. Cardinality(T) = Cardinality(S)
  BY <1>1, <1>2, FS_Bijection
<1>4. Cardinality(T) = IF k \in Exact(s, e) THEN Count(s, e) - 1 ELSE Count(s, e)
  BY <1>1, FS_RemoveElement DEF Count
<1>5. k \in Exact(s, e) <=> s[k] = e
  BY DEF Exact
<1>6. Count(t, e) \in Nat /\ Count(s, e) \in Nat
  BY CountIsNat
<1>7. Count(t, e) = IF s[k] = e THEN Count(s, e) - 1 ELSE Count(s, e)
  BY <1>3, <1>4, <1>5 DEF Count
<1>8. QED
  BY <1>6, <1>7

LEMMA CountEmpty ==
  ASSUME NEW e
  PROVE  Count(<<>>, e) = 0
<1>1. Exact(<<>>, e) = {}
  BY DEF Exact
<1>2. QED
  BY <1>1, FS_EmptySet DEF Count

LEMMA CountAppend ==
  ASSUME NEW s \in Seq(Entry), NEW x \in Entry, NEW e
  PROVE  Count(Append(s, x), e) = Count(s, e) + (IF x = e THEN 1 ELSE 0)
<1>1. PICK t \in Seq(Entry) : t = Append(s, x) /\ Len(t) = Len(s) + 1 /\ t[Len(t)] = x
                                /\ \A i \in 1 .. Len(s) : t[i] = s[i]
  <2>1. Append(s, x) \in Seq(Entry)
    OBVIOUS
  <2>2. /\ Len(Append(s, x)) = Len(s) + 1 /\ Append(s, x)[Len(s) + 1] = x
        /\ \A i \in 1 .. Len(s) : Append(s, x)[i] = s[i]
    OBVIOUS
  <2>3. PICK t : t = Append(s, x)
    OBVIOUS
  <2>4. QED
    BY <2>1, <2>2, <2>3
<1>2. PICK p : p = [i \in 1 .. Len(s) |-> i]
  OBVIOUS
<1>3. Len(s) \in Nat
  OBVIOUS
<1>4. p \in [1 .. Len(s) -> 1 .. Len(t)] /\ \A i \in 1 .. Len(s) : p[i] = i
  BY <1>1, <1>2, <1>3
<1>5. \A i \in 1 .. Len(s) : p[i] # Len(t) /\ s[i] = t[p[i]]
  BY <1>1, <1>3, <1>4
<1>6. \A n \in 1 .. Len(t) : n # Len(t) => \E i \in 1 .. Len(s) : p[i] = n
  BY <1>1, <1>3, <1>4
<1>7. Len(t) \in 1 .. Len(t)
  BY <1>1, <1>3
<1>8. Renames(t, s, Len(t), p)
  BY <1>4, <1>5, <1>6, <1>7 DEF Renames
<1>9. Count(t, e) = Count(s, e) + (IF t[Len(t)] = e THEN 1 ELSE 0)
  BY <1>8, CountAcross
<1>10. QED
  BY <1>1, <1>9

LEMMA CountTail ==
  ASSUME NEW s \in Seq(Entry), s # <<>>, NEW e
  PROVE  Count(s, e) = Count(Tail(s), e) + (IF Head(s) = e THEN 1 ELSE 0)
<1>1. PICK t \in Seq(Entry) : t = Tail(s)
  <2>1. Tail(s) \in Seq(Entry)
    OBVIOUS
  <2>2. QED
    BY <2>1, Zenon
<1>2. Len(s) \in Nat /\ Len(s) # 0 /\ Len(t) = Len(s) - 1 /\ Head(s) = s[1]
  BY <1>1
<1>3. \A i \in 1 .. Len(t) : t[i] = s[i + 1]
  BY <1>1
<1>4. PICK p : p = [i \in 1 .. Len(t) |-> i + 1]
  OBVIOUS
<1>5. p \in [1 .. Len(t) -> 1 .. Len(s)] /\ \A i \in 1 .. Len(t) : p[i] = i + 1
  BY <1>2, <1>4
<1>6. \A i, j \in 1 .. Len(t) : p[i] = p[j] => i = j
  BY <1>2, <1>5
<1>7. \A i \in 1 .. Len(t) : p[i] # 1 /\ t[i] = s[p[i]]
  BY <1>2, <1>3, <1>5
<1>8. \A n \in 1 .. Len(s) : n # 1 => \E i \in 1 .. Len(t) : p[i] = n
  <2>1. SUFFICES ASSUME NEW n \in 1 .. Len(s), n # 1
                 PROVE  \E i \in 1 .. Len(t) : p[i] = n
    OBVIOUS
  <2>2. n - 1 \in 1 .. Len(t) /\ p[n - 1] = n
    BY <1>2, <1>5, <2>1
  <2>3. QED
    BY <2>2
<1>9. 1 \in 1 .. Len(s)
  BY <1>2
<1>10. Renames(s, t, 1, p)
  BY <1>5, <1>6, <1>7, <1>8, <1>9 DEF Renames
<1>11. Count(s, e) = Count(t, e) + (IF s[1] = e THEN 1 ELSE 0)
  BY <1>10, CountAcross
<1>12. QED
  BY <1>1, <1>2, <1>11

\* Releasing an entry that is there removes one copy of it and nothing else;
\* releasing one that is not there does nothing.
LEMMA CountWithout ==
  ASSUME NEW s \in Seq(Entry), NEW e, NEW f
  PROVE  Count(s, f) = Count(Without(s, e), f) + (IF f = e /\ Count(s, e) # 0 THEN 1 ELSE 0)
<1>0. Count(s, e) = 0 <=> Exact(s, e) = {}
  BY ExactFinite, FS_EmptySet DEF Count
<1>1. CASE Exact(s, e) = {}
  <2>1. Without(s, e) = s /\ Count(s, e) = 0 /\ Count(s, f) \in Nat
    BY <1>0, <1>1, CountIsNat DEF Without
  <2>2. QED
    BY <2>1
<1>2. CASE Exact(s, e) # {}
  <2>1. PICK k \in 1 .. Len(s) : k = First(Exact(s, e)) /\ Without(s, e) = SwapRemove(s, k)
    BY <1>2, FirstExact DEF Without
  <2>2. s[k] = e
    <3>1. Exact(s, e) \subseteq Nat
      BY ExactFinite
    <3>2. \E i \in Exact(s, e) : \A j \in Exact(s, e) : i <= j
      BY <1>2, <3>1, LeastElement
    <3>3. k \in Exact(s, e)
      BY <2>1, <3>2 DEF First
    <3>4. QED
      BY <3>3 DEF Exact
  <2>3. PICK n \in Nat : Len(s) = n + 1
    <3>1. Len(s) - 1 \in Nat /\ Len(s) = (Len(s) - 1) + 1
      BY <2>1
    <3>2. QED
      BY <3>1
  <2>4. PICK p : p = [j \in 1 .. n |-> IF j = k THEN n + 1 ELSE j]
    OBVIOUS
  <2>5. /\ p \in [1 .. n -> 1 .. Len(s)]
        /\ \A j \in 1 .. n : p[j] = IF j = k THEN n + 1 ELSE j
    BY <2>3, <2>4
  <2>6. PICK t : t = SwapRemove(s, k)
    OBVIOUS
  <2>7. /\ t \in [1 .. n -> Entry]
        /\ \A j \in 1 .. n : t[j] = s[p[j]]
    <3>1. t = [j \in 1 .. n |-> IF j = k THEN s[n + 1] ELSE s[j]]
      BY <2>3, <2>6 DEF SwapRemove
    <3>2. \A i \in 1 .. n + 1 : s[i] \in Entry
      BY <2>3
    <3>3. QED
      BY <2>3, <2>5, <3>1, <3>2
  <2>8. t \in Seq(Entry) /\ Len(t) = n
    BY <2>3, <2>7
  <2>9. \A i, j \in 1 .. n : p[i] = p[j] => i = j
    BY <2>3, <2>5
  <2>10. \A i \in 1 .. n : p[i] # k /\ t[i] = s[p[i]]
    BY <2>1, <2>3, <2>5, <2>7
  <2>11. \A m \in 1 .. Len(s) : m # k => \E i \in 1 .. n : p[i] = m
    <3>1. SUFFICES ASSUME NEW m \in 1 .. Len(s), m # k
                   PROVE  \E i \in 1 .. n : p[i] = m
      OBVIOUS
    <3>2. CASE m = n + 1
      <4>1. k \in 1 .. n /\ p[k] = m
        BY <2>3, <2>5, <3>1, <3>2
      <4>2. QED
        BY <4>1
    <3>3. CASE m # n + 1
      <4>1. m \in 1 .. n /\ p[m] = m
        BY <2>3, <2>5, <3>1, <3>3
      <4>2. QED
        BY <4>1
    <3>4. QED
      BY <3>2, <3>3
  <2>12. Renames(s, t, k, p)
    BY <2>5, <2>8, <2>9, <2>10, <2>11 DEF Renames
  <2>13. Count(s, f) = Count(t, f) + (IF s[k] = f THEN 1 ELSE 0)
    BY <2>8, <2>12, CountAcross
  <2>14. QED
    BY <1>0, <1>2, <2>1, <2>2, <2>6, <2>13
<1>3. QED
  BY <1>1, <1>2

-----------------------------------------------------------------------------
(* Who answers for the entries of a registry *)

LiveOn(g, r) == lease[g].state = "live" /\ lease[g].registry = r

\* The entries of registry r that the operation under way answers for.
During(r) ==
  IF op = Idle \/ op.registry # r THEN <<>>
  ELSE IF op.step = "register" THEN op.done ELSE op.left

\* An operation has the registry for itself, as a guard has, and what the ledger
\* holds beside the program's own entries is the one's or the other's.
Balanced(r) ==
  /\ op # Idle /\ op.registry = r => ~Engaged(r)
  /\ \A g, h \in Guard : LiveOn(g, r) /\ LiveOn(h, r) => g = h
  /\ ~Engaged(r) => \A e \in Entry : Count(ledger[r], e) = orphans[r][e] + Count(During(r), e)
  /\ \A g \in Guard : LiveOn(g, r) =>
       \A e \in Entry : Count(ledger[r], e) = orphans[r][e] + Count(lease[g].entries, e)

XInv == IInv /\ \A r \in Registry : Balanced(r)

\* A registry a step does not touch stays as balanced as it was.
LEMMA Elsewhere ==
  ASSUME NEW r \in Registry, Balanced(r),
         ledger'[r] = ledger[r], orphans'[r] = orphans[r],
         op' # Idle /\ op'.registry = r => op # Idle /\ op.registry = r,
         During(r)' = During(r),
         \A g \in Guard : lease'[g] = lease[g] \/ (~LiveOn(g, r) /\ ~LiveOn(g, r)')
  PROVE  Balanced(r)'
<1>1. \A g \in Guard : LiveOn(g, r)' <=> LiveOn(g, r)
  BY DEF LiveOn
<1>2. Engaged(r)' <=> Engaged(r)
  BY <1>1 DEF Engaged, LiveOn
<1>3. \A g \in Guard : LiveOn(g, r)' => lease'[g] = lease[g]
  BY <1>1
<1>4. (op # Idle /\ op.registry = r)' => ~Engaged(r)'
  BY <1>2 DEF Balanced
<1>5. \A g, h \in Guard : LiveOn(g, r)' /\ LiveOn(h, r)' => g = h
  BY <1>1 DEF Balanced
<1>6. ~Engaged(r)' =>
        \A e \in Entry : Count(ledger[r], e)' = (orphans[r][e] + Count(During(r), e))'
  BY <1>2 DEF Balanced
<1>7. \A g \in Guard : LiveOn(g, r)' =>
        \A e \in Entry : Count(ledger[r], e)' = (orphans[r][e] + Count(lease[g].entries, e))'
  BY <1>1, <1>3 DEF Balanced
<1>8. QED
  BY <1>4, <1>5, <1>6, <1>7 DEF Balanced

\* A registry no guard is on is balanced when its ledger is what the program and
\* the operation under way have in it.
LEMMA Unengaged ==
  ASSUME NEW r \in Registry, \A g \in Guard : ~LiveOn(g, r)',
         \A e \in Entry : (Count(ledger[r], e) = orphans[r][e] + Count(During(r), e))'
  PROVE  Balanced(r)'
<1>1. ~Engaged(r)'
  BY DEF Engaged, LiveOn
<1>2. QED
  BY <1>1 DEF Balanced

\* What During is, by the shape of op.
LEMMA DuringShapes ==
  ASSUME NEW r
  PROVE  /\ op = Idle => During(r) = <<>>
         /\ op.step = "register" /\ op.registry = r => During(r) = op.done
         /\ op.step = "release" /\ op.registry = r => During(r) = op.left
         /\ op.registry # r => During(r) = <<>>
         /\ op.step # "idle" => op # Idle
BY StepsDiffer DEF During

\* No guard is on a registry that rests or that an operation uses.
LEMMA NoneLive ==
  ASSUME NEW r \in Registry, Balanced(r),
         AtRest(r) \/ (op # Idle /\ op.registry = r)
  PROVE  /\ \A g \in Guard : ~LiveOn(g, r)
         /\ \A e \in Entry : Count(ledger[r], e) = orphans[r][e] + Count(During(r), e)
<1>1. ~Engaged(r)
  BY DEF AtRest, Balanced
<1>2. QED
  BY <1>1 DEF Balanced, Engaged, LiveOn

\* No guard is on a registry after the step, if none was and no lease is new.
LEMMA LeasesStay ==
  ASSUME UNCHANGED lease, NEW r, NEW g, ~LiveOn(g, r)
  PROVE  ~LiveOn(g, r)'
BY DEF LiveOn

LEMMA CountOfSeq ==
  ASSUME IInv, NEW r \in Registry, NEW e \in Entry
  PROVE  orphans[r][e] \in Nat /\ Count(ledger[r], e) \in Nat
BY CountIsNat, LedgerIsSeq DEF IInv, TypeOK

\* A step busy with registry q leaves the other registries balanced.
LEMMA Others ==
  ASSUME NEW q \in Registry, NEW r \in Registry, r # q, Balanced(r),
         ledger'[r] = ledger[r], orphans'[r] = orphans[r],
         op = Idle \/ op.registry = q, (op = Idle \/ op.registry = q)',
         \A g \in Guard : lease'[g] = lease[g] \/ (~LiveOn(g, r) /\ ~LiveOn(g, r)')
  PROVE  Balanced(r)'
<1>1. During(r) = <<>> /\ During(r)' = <<>>
  BY DEF During
<1>2. QED
  BY <1>1, Elsewhere

-----------------------------------------------------------------------------
(* Every step keeps the registries balanced *)

LEMMA BeginBalances ==
  ASSUME XInv, NEW q \in Registry, NEW g \in Guard, NEW c \in Cell, NEW access \in Access,
         NEW size_of \in Pod, NEW ranges \in Batch, Begin(q, g, c, access, size_of, ranges),
         NEW r \in Registry
  PROVE  Balanced(r)'
<1>1. /\ op' = Register(q, g, c, access, size_of, ranges, <<>>) /\ AtRest(q)
      /\ UNCHANGED <<holding, ledger, lease, orphans>>
  BY DEF Begin
<1>2. op' # Idle /\ op'.registry = q /\ op'.step = "register" /\ op'.done = <<>> /\ op = Idle
  BY <1>1, StepsDiffer DEF AtRest, Register
<1>3. Balanced(r)
  BY DEF XInv
<1>4. CASE r = q
  <2>1. During(r)' = <<>> /\ During(r) = <<>>
    BY <1>2, <1>4 DEF During
  <2>2. \A h \in Guard : ~LiveOn(h, r)'
    BY <1>1, <1>3, <1>4, NoneLive, LeasesStay
  <2>3. \A e \in Entry : Count(ledger[r], e) = orphans[r][e] + Count(During(r), e)
    BY <1>1, <1>3, <1>4, NoneLive
  <2>4. \A e \in Entry : (Count(ledger[r], e) = orphans[r][e] + Count(During(r), e))'
    BY <1>1, <2>1, <2>3
  <2>5. QED
    BY <2>2, <2>4, Unengaged
<1>5. CASE r # q
  BY <1>1, <1>2, <1>3, <1>5, Others
<1>6. QED
  BY <1>4, <1>5

LEMMA RegisterBalances ==
  ASSUME XInv, RegisterRange, NEW r \in Registry
  PROVE  Balanced(r)'
<1>1. op.step = "register" /\ op # Idle
  BY StepsDiffer DEF RegisterRange, Pending
<1>2. PICK q \in Registry, done \in Seq(Entry) : q = op.registry /\ done = op.done
  BY <1>1, Registering DEF XInv, IInv
<1>3. PICK e \in Entry : e = NextEntry
  <2>1. NextRange \in Segment
    BY <1>1, Registering DEF XInv, IInv, NextRange, RegisterRange, Pending
  <2>2. QED
    BY <1>1, <2>1, EntryOfFacts, Registering DEF XInv, IInv, NextEntry
<1>4. PICK longer, grown : longer = Append(done, e) /\ grown = Append(ledger[q], e)
  OBVIOUS
<1>5. /\ ledger' = [ledger EXCEPT ![q] = grown] /\ op' = [op EXCEPT !.done = longer]
      /\ UNCHANGED <<holding, lease, orphans>>
  BY <1>2, <1>3, <1>4 DEF RegisterRange
<1>6. op'.step = "register" /\ op'.registry = q /\ op'.done = longer /\ op' # Idle
  <2>1. op = Register(op.registry, op.guard, op.cell, op.access, op.size_of, op.ranges, op.done)
    BY <1>1, Registering DEF XInv, IInv
  <2>2. op' = Register(op.registry, op.guard, op.cell, op.access, op.size_of, op.ranges, longer)
    BY <1>5, <2>1, DoneGrows
  <2>3. op'.registry = q
    BY <1>2, <2>2 DEF Register
  <2>4. QED
    BY <2>2, <2>3, StepsDiffer
<1>7. Balanced(r) /\ ledger \in [Registry -> Seq(Entry)] /\ ledger[q] \in Seq(Entry)
  BY LedgerIsSeq DEF XInv, IInv, TypeOK
<1>8. CASE r = q
  <2>1. During(r)' = longer /\ During(r) = done
    BY <1>1, <1>2, <1>6, <1>8 DEF During
  <2>2. \A g \in Guard : ~LiveOn(g, r)'
    BY <1>1, <1>2, <1>5, <1>7, <1>8, NoneLive, LeasesStay
  <2>3. ASSUME NEW f \in Entry
        PROVE  Count(ledger'[r], f) = orphans'[r][f] + Count(During(r)', f)
    <3>1. Count(ledger[r], f) = orphans[r][f] + Count(done, f)
      BY <1>1, <1>2, <1>7, <1>8, <2>1, NoneLive
    <3>2. ledger'[r] = grown /\ orphans'[r] = orphans[r]
      BY <1>5, <1>7, <1>8
    <3>3. Count(grown, f) = Count(ledger[r], f) + (IF e = f THEN 1 ELSE 0)
      BY <1>4, <1>7, <1>8, CountAppend
    <3>4. Count(longer, f) = Count(done, f) + (IF e = f THEN 1 ELSE 0)
      BY <1>4, CountAppend
    <3>5. orphans[r][f] \in Nat /\ Count(ledger[r], f) \in Nat /\ Count(done, f) \in Nat
      BY CountOfSeq, CountIsNat DEF XInv
    <3>6. Count(grown, f) = orphans[r][f] + Count(longer, f)
      BY <3>1, <3>3, <3>4, <3>5
    <3>7. QED
      BY <2>1, <3>2, <3>6
  <2>4. QED
    BY <2>2, <2>3, Unengaged
<1>9. CASE r # q
  <2>1. ledger'[r] = ledger[r]
    BY <1>5, <1>9, <1>7
  <2>2. QED
    BY <1>2, <1>5, <1>6, <1>7, <1>9, <2>1, Others
<1>10. QED
  BY <1>8, <1>9

\* A refusal hands the entries registered so far to the release loop; the end of
\* that loop has none left.
LEMMA TurnBalances ==
  ASSUME XInv, RefuseRange \/ AccountRefused \/ Released, NEW r \in Registry
  PROVE  Balanced(r)'
<1>1. UNCHANGED <<ledger, lease, orphans>> /\ Balanced(r)
  BY DEF XInv, RefuseRange, AccountRefused, Released
<1>2. During(r)' = During(r) /\ (op' # Idle /\ op'.registry = r => op # Idle /\ op.registry = r)
  <2>1. CASE Released
    <3>1. op' = Idle /\ op.step = "release" /\ op.left = <<>>
      BY <2>1 DEF Released
    <3>2. QED
      BY <3>1, StepsDiffer DEF During
  <2>2. CASE RefuseRange \/ AccountRefused
    <3>1. op' = Release(op.registry, op.done) /\ op.step = "register"
      BY <2>2 DEF RefuseRange, AccountRefused, RolledBack, Pending, AllRegistered
    <3>2. op'.registry = op.registry /\ op'.left = op.done /\ op'.step = "release" /\ op # Idle
      BY <3>1, StepsDiffer
    <3>3. op' # Idle
      BY <3>2, StepsDiffer
    <3>4. QED
      BY <3>1, <3>2, <3>3 DEF During
  <2>3. QED
    BY <2>1, <2>2
<1>3. QED
  BY <1>1, <1>2, Elsewhere

\* The guard answers for the batch from here on: it was on no registry before,
\* or it would hold a borrow already.
LEMMA BorrowBalances ==
  ASSUME XInv, BorrowAccount, NEW r \in Registry
  PROVE  Balanced(r)'
<1>1. op.step = "register" /\ op # Idle
  BY StepsDiffer DEF BorrowAccount, AllRegistered
<1>2. PICK g \in Guard, q \in Registry, done \in Seq(Entry) :
        g = op.guard /\ q = op.registry /\ done = op.done
  BY <1>1, Registering DEF XInv, IInv
<1>3. PICK new : new = Leased(q, done)
  OBVIOUS
<1>4. /\ new.state = "live" /\ new.registry = q /\ new.entries = done
      /\ lease' = [lease EXCEPT ![g] = new] /\ op' = Idle /\ UNCHANGED <<ledger, orphans>>
      /\ holding[g] = NoBorrow
  BY <1>2, <1>3 DEF BorrowAccount, Backed, Grant, Leased
<1>5. lease \in [Guard -> Lease] /\ Balanced(r)
  BY DEF XInv, IInv, TypeOK
<1>6. \A h \in Guard : lease'[h] = IF h = g THEN new ELSE lease[h]
  BY <1>4, <1>5
<1>7. \A p \in Registry : ~LiveOn(g, p)
  BY <1>4, LeaseKept DEF XInv, IInv, LiveOn
<1>8. CASE r = q
  <2>1. During(r) = done
    BY <1>1, <1>2, <1>8 DEF During
  <2>2. \A h \in Guard : ~LiveOn(h, r)
    BY <1>1, <1>2, <1>5, <1>8, NoneLive
  <2>3. \A h \in Guard : LiveOn(h, r)' <=> h = g
    BY <1>4, <1>6, <1>8, <2>2 DEF LiveOn
  <2>4. \A e \in Entry : Count(ledger[r], e) = orphans[r][e] + Count(done, e)
    BY <1>1, <1>2, <1>5, <1>8, <2>1, NoneLive
  <2>5. lease'[g].entries = done
    BY <1>4, <1>6
  <2>6. \A e \in Entry : (Count(ledger[r], e) = orphans[r][e] + Count(lease[g].entries, e))'
    BY <1>4, <2>4, <2>5
  <2>7. Engaged(r)'
    BY <2>3 DEF Engaged, LiveOn
  <2>8. QED
    BY <1>4, <2>3, <2>6, <2>7 DEF Balanced
<1>9. CASE r # q
  <2>1. ~LiveOn(g, r)'
    BY <1>4, <1>6, <1>9 DEF LiveOn
  <2>2. QED
    BY <1>2, <1>4, <1>5, <1>6, <1>7, <1>9, <2>1, Others
<1>10. QED
  BY <1>8, <1>9

\* A round of the release loop takes one entry off the ledger and off what is
\* left to release; it is in the ledger, because what is left is.
LEMMA ReleaseBalances ==
  ASSUME XInv, ReleaseEntry, NEW r \in Registry
  PROVE  Balanced(r)'
<1>1. op.step = "release" /\ op.left # <<>> /\ op # Idle
  BY StepsDiffer DEF ReleaseEntry
<1>2. PICK q \in Registry, left \in Seq(Entry) : q = op.registry /\ left = op.left
  BY <1>1, Releasing DEF XInv, IInv
<1>3. PICK rest, shrunk : rest = Tail(left) /\ shrunk = Without(ledger[q], Head(left))
  OBVIOUS
<1>4. /\ ledger' = [ledger EXCEPT ![q] = shrunk] /\ op' = [op EXCEPT !.left = rest]
      /\ UNCHANGED <<holding, lease, orphans>>
  BY <1>2, <1>3 DEF ReleaseEntry
<1>5. op'.step = "release" /\ op'.registry = q /\ op'.left = rest /\ op' # Idle
  <2>1. op \in [step : {"release"}, registry : Registry, left : Seq(Entry)]
    <3>1. op # Idle
      BY <1>1
    <3>2. op \notin [step : {"register"}, registry : Registry, guard : Guard, cell : Cell,
                    access : Access, size_of : Pod, ranges : Batch, done : Seq(Entry)]
      BY <1>1
    <3>3. QED
      BY <3>1, <3>2 DEF XInv, IInv, TypeOK
  <2>2. op'.step = "release" /\ op'.registry = q /\ op'.left = rest
    BY <1>2, <1>4, <2>1
  <2>3. QED
    BY <2>2, StepsDiffer
<1>6. Balanced(r) /\ ledger \in [Registry -> Seq(Entry)] /\ ledger[q] \in Seq(Entry)
  BY LedgerIsSeq DEF XInv, IInv, TypeOK
<1>7. Head(left) \in Entry /\ rest \in Seq(Entry) /\ left # <<>>
  BY <1>1, <1>2, <1>3
<1>8. CASE r = q
  <2>1. During(r)' = rest /\ During(r) = left
    BY <1>1, <1>2, <1>5, <1>8 DEF During
  <2>2. \A g \in Guard : ~LiveOn(g, r)'
    BY <1>1, <1>2, <1>4, <1>6, <1>8, NoneLive, LeasesStay
  <2>3. ledger'[r] = shrunk /\ orphans'[r] = orphans[r]
    BY <1>4, <1>6, <1>8
  <2>4. \A f \in Entry : /\ Count(ledger[r], f) = orphans[r][f] + Count(left, f)
                         /\ Count(left, f) = Count(rest, f) + (IF Head(left) = f THEN 1 ELSE 0)
                         /\ orphans[r][f] \in Nat /\ Count(ledger[r], f) \in Nat
                         /\ Count(left, f) \in Nat /\ Count(rest, f) \in Nat
    <3>1. ASSUME NEW f \in Entry
          PROVE  Count(ledger[r], f) = orphans[r][f] + Count(left, f)
      BY <1>1, <1>2, <1>6, <1>8, <2>1, NoneLive
    <3>2. ASSUME NEW f \in Entry
          PROVE  Count(left, f) = Count(rest, f) + (IF Head(left) = f THEN 1 ELSE 0)
      BY <1>3, <1>7, CountTail
    <3>3. ASSUME NEW f \in Entry
          PROVE  /\ orphans[r][f] \in Nat /\ Count(ledger[r], f) \in Nat
                 /\ Count(left, f) \in Nat /\ Count(rest, f) \in Nat
      BY <1>7, CountOfSeq, CountIsNat DEF XInv
    <3>4. QED
      BY <3>1, <3>2, <3>3
  <2>5. PICK head \in Entry : head = Head(left)
    BY <1>7
  <2>6. Count(ledger[r], head) # 0
    BY <2>4, <2>5
  <2>7. ASSUME NEW f \in Entry
        PROVE  Count(ledger'[r], f) = orphans'[r][f] + Count(During(r)', f)
    <3>1. Count(ledger[r], f) = Count(shrunk, f) + (IF f = head THEN 1 ELSE 0)
      BY <1>3, <1>6, <1>8, <2>5, <2>6, CountWithout
    <3>2. Count(shrunk, f) \in Nat
      BY <1>3, <1>6, WithoutApart, CountIsNat, LedgerIsSeq DEF XInv
    <3>3. /\ Count(ledger[r], f) = orphans[r][f] + Count(left, f)
          /\ Count(left, f) = Count(rest, f) + (IF f = head THEN 1 ELSE 0)
      BY <2>4, <2>5
    <3>4. orphans[r][f] \in Nat /\ Count(rest, f) \in Nat
      BY <2>4
    <3>5. CASE f = head
      <4>1. Count(shrunk, f) + 1 = orphans[r][f] + (Count(rest, f) + 1)
        BY <3>1, <3>3, <3>5
      <4>2. Count(shrunk, f) = orphans[r][f] + Count(rest, f)
        BY <3>2, <3>4, <4>1
      <4>3. QED
        BY <2>1, <2>3, <4>2
    <3>6. CASE f # head
      <4>1. Count(shrunk, f) + 0 = orphans[r][f] + (Count(rest, f) + 0)
        BY <3>1, <3>3, <3>6
      <4>2. Count(shrunk, f) = orphans[r][f] + Count(rest, f)
        BY <3>2, <3>4, <4>1
      <4>3. QED
        BY <2>1, <2>3, <4>2
    <3>7. QED
      BY <3>5, <3>6
  <2>8. QED
    BY <2>2, <2>7, Unengaged
<1>9. CASE r # q
  <2>1. ledger'[r] = ledger[r]
    BY <1>4, <1>9, <1>6
  <2>2. QED
    BY <1>2, <1>4, <1>5, <1>6, <1>9, <2>1, Others
<1>10. QED
  BY <1>8, <1>9

\* A guard dropped hands its entries to the release loop; no other guard is on its
\* registry.
LEMMA DropBalances ==
  ASSUME XInv, NEW g \in Guard, DropSegment(g), NEW r \in Registry
  PROVE  Balanced(r)'
<1>1. /\ lease[g].state = "live" /\ lease' = [lease EXCEPT ![g] = NoLease] /\ op = Idle
      /\ op' = Release(lease[g].registry, lease[g].entries)
      /\ UNCHANGED <<ledger, orphans>>
  BY DEF DropSegment
<1>2. PICK q \in Registry, entries \in Seq(Entry) :
        q = lease[g].registry /\ entries = lease[g].entries
  <2>1. lease[g] \in [state : {"live"}, registry : Registry, entries : Seq(Entry)]
    BY <1>1 DEF XInv, IInv, TypeOK, Lease, NoLease, Forgotten
  <2>2. QED
    BY <2>1
<1>3. lease \in [Guard -> Lease] /\ Balanced(r)
  BY DEF XInv, IInv, TypeOK
<1>4. \A h \in Guard : lease'[h] = IF h = g THEN NoLease ELSE lease[h]
  BY <1>1, <1>3
<1>5. op'.step = "release" /\ op'.registry = q /\ op'.left = entries /\ op' # Idle
  BY <1>1, <1>2, StepsDiffer
<1>6. \A p \in Registry : ~LiveOn(g, p)'
  BY <1>4 DEF LiveOn, NoLease
<1>7. CASE r = q
  <2>1. LiveOn(g, r)
    BY <1>1, <1>2, <1>7 DEF LiveOn
  <2>2. ASSUME NEW h \in Guard
        PROVE  ~LiveOn(h, r)'
    <3>1. CASE h = g
      BY <1>6, <3>1
    <3>2. CASE h # g
      <4>1. ~LiveOn(h, r)
        BY <1>3, <2>1, <3>2 DEF Balanced
      <4>2. QED
        BY <1>4, <3>2, <4>1 DEF LiveOn
    <3>3. QED
      BY <3>1, <3>2
  <2>3. During(r)' = entries
    BY <1>5, <1>7 DEF During
  <2>4. \A e \in Entry : Count(ledger[r], e) = orphans[r][e] + Count(entries, e)
    BY <1>2, <1>3, <2>1 DEF Balanced
  <2>5. \A e \in Entry : (Count(ledger[r], e) = orphans[r][e] + Count(During(r), e))'
    BY <1>1, <2>3, <2>4
  <2>6. QED
    BY <2>2, <2>5, Unengaged
<1>8. CASE r # q
  <2>1. ~LiveOn(g, r)
    BY <1>2, <1>8 DEF LiveOn
  <2>2. QED
    BY <1>1, <1>2, <1>3, <1>4, <1>5, <1>6, <1>8, <2>1, Others
<1>9. QED
  BY <1>7, <1>8

\* The entries of a forgotten guard become the program's own.
LEMMA ForgetBalances ==
  ASSUME XInv, NEW g \in Guard, ForgetSegment(g), NEW r \in Registry
  PROVE  Balanced(r)'
<1>1. /\ lease[g].state = "live" /\ lease' = [lease EXCEPT ![g] = Forgotten]
      /\ op = Idle /\ UNCHANGED <<ledger, op>>
  BY DEF ForgetSegment
<1>2. PICK q \in Registry, entries \in Seq(Entry) :
        q = lease[g].registry /\ entries = lease[g].entries
  <2>1. lease[g] \in [state : {"live"}, registry : Registry, entries : Seq(Entry)]
    BY <1>1 DEF XInv, IInv, TypeOK, Lease, NoLease, Forgotten
  <2>2. QED
    BY <2>1
<1>3. lease \in [Guard -> Lease] /\ orphans \in [Registry -> [Entry -> Nat]] /\ Balanced(r)
  BY DEF XInv, IInv, TypeOK
<1>4. \A h \in Guard : lease'[h] = IF h = g THEN Forgotten ELSE lease[h]
  BY <1>1, <1>3
<1>5. \A p \in Registry : ~LiveOn(g, p)'
  BY <1>4 DEF LiveOn, Forgotten
<1>6. PICK more : more = [e \in Entry |-> orphans[q][e] + Count(entries, e)]
  OBVIOUS
<1>7. orphans' = [orphans EXCEPT ![q] = more]
  BY <1>2, <1>3, <1>6 DEF ForgetSegment
<1>8. CASE r = q
  <2>1. LiveOn(g, r)
    BY <1>1, <1>2, <1>8 DEF LiveOn
  <2>2. ASSUME NEW h \in Guard
        PROVE  ~LiveOn(h, r)'
    <3>1. CASE h = g
      BY <1>5, <3>1
    <3>2. CASE h # g
      <4>1. ~LiveOn(h, r)
        BY <1>3, <2>1, <3>2 DEF Balanced
      <4>2. QED
        BY <1>4, <3>2, <4>1 DEF LiveOn
    <3>3. QED
      BY <3>1, <3>2
  <2>3. During(r)' = <<>>
    BY <1>1 DEF During
  <2>4. ASSUME NEW e \in Entry
        PROVE  Count(ledger'[r], e) = orphans'[r][e] + Count(During(r)', e)
    <3>1. Count(ledger[r], e) = orphans[r][e] + Count(entries, e)
      BY <1>2, <1>3, <2>1 DEF Balanced
    <3>2. orphans'[r][e] = orphans[r][e] + Count(entries, e)
      BY <1>3, <1>6, <1>7, <1>8
    <3>3. orphans[r][e] \in Nat /\ Count(entries, e) \in Nat
      BY CountOfSeq, CountIsNat DEF XInv
    <3>4. orphans'[r][e] = orphans'[r][e] + 0
      BY <3>2, <3>3
    <3>5. QED
      BY <1>1, <2>3, <3>1, <3>2, <3>4, CountEmpty
  <2>5. QED
    BY <2>2, <2>4, Unengaged
<1>9. CASE r # q
  <2>1. ~LiveOn(g, r)
    BY <1>2, <1>9 DEF LiveOn
  <2>2. orphans'[r] = orphans[r]
    BY <1>3, <1>7, <1>9
  <2>3. QED
    BY <1>1, <1>2, <1>3, <1>4, <1>5, <1>9, <2>1, <2>2, Others
<1>10. QED
  BY <1>8, <1>9

\* Whole-account borrows concern no registry.
LEMMA WholeBalances ==
  ASSUME XInv, UNCHANGED <<ledger, lease, op, orphans>>, NEW r \in Registry
  PROVE  Balanced(r)'
<1>1. Balanced(r) /\ During(r)' = During(r)
  BY DEF XInv, During
<1>2. QED
  BY <1>1, Elsewhere

\* The program answers for what it registers and releases itself, at rest.
LEMMA RawBalances ==
  ASSUME XInv, NEW q \in Registry,
         \/ \E e \in RawEntry : RegisterRaw(q, e) \/ ReleaseRaw(q, e)
         \/ Clear(q),
         NEW r \in Registry
  PROVE  Balanced(r)'
<1>1. op = Idle /\ AtRest(q) /\ UNCHANGED <<holding, lease, op>>
  BY DEF RegisterRaw, ReleaseRaw, Clear, AtRest
<1>2. orphans \in [Registry -> [Entry -> Nat]] /\ ledger \in [Registry -> Seq(Entry)]
  BY DEF XInv, IInv, TypeOK
<1>3. Balanced(r) /\ Balanced(q) /\ ledger[q] \in Seq(Entry)
  BY LedgerIsSeq DEF XInv
<1>4. RawEntry \subseteq Entry
  BY SegmentAccessAssumption DEF Entry, Kind
<1>5. During(q) = <<>> /\ During(q)' = <<>>
  BY <1>1 DEF During
<1>6. \A f \in Entry : Count(ledger[q], f) = orphans[q][f] /\ orphans[q][f] \in Nat
  <2>1. \A f \in Entry : Count(ledger[q], f) = orphans[q][f] + Count(<<>>, f)
    BY <1>1, <1>3, <1>5, NoneLive
  <2>2. \A f \in Entry : orphans[q][f] \in Nat
    BY <1>2
  <2>3. QED
    BY <2>1, <2>2, CountEmpty
<1> DEFINE Itself == \A f \in Entry : Count(ledger'[q], f) = orphans'[q][f] /\ orphans'[q][f] \in Nat
           Rest == r # q => ledger'[r] = ledger[r] /\ orphans'[r] = orphans[r]
<1>7. Itself /\ Rest
  <2>1. ASSUME NEW e \in RawEntry, RegisterRaw(q, e)
        PROVE  Itself /\ Rest
    <3>1. PICK grown, more : grown = Append(ledger[q], e) /\ more = orphans[q][e] + 1
      OBVIOUS
    <3>2. ledger' = [ledger EXCEPT ![q] = grown] /\ orphans' = [orphans EXCEPT ![q][e] = more]
      BY <2>1, <3>1 DEF RegisterRaw
    <3>3. ASSUME NEW f \in Entry
          PROVE  Count(ledger'[q], f) = orphans'[q][f] /\ orphans'[q][f] \in Nat
      <4>1. Count(grown, f) = Count(ledger[q], f) + (IF e = f THEN 1 ELSE 0)
        BY <1>3, <1>4, <3>1, CountAppend
      <4>2. orphans'[q][f] = IF e = f THEN more ELSE orphans[q][f]
        BY <1>2, <1>4, <3>2
      <4>3. ledger'[q] = grown
        BY <1>2, <3>2
      <4>4. Count(ledger[q], f) = orphans[q][f] /\ orphans[q][f] \in Nat
        BY <1>6
      <4>5. Count(grown, f) = orphans'[q][f] /\ orphans'[q][f] \in Nat
        BY <3>1, <4>1, <4>2, <4>4
      <4>6. QED
        BY <4>3, <4>5
    <3>4. QED
      BY <1>2, <3>2, <3>3
  <2>2. ASSUME NEW e \in RawEntry, ReleaseRaw(q, e)
        PROVE  Itself /\ Rest
    <3>1. PICK shrunk, less : /\ shrunk = Without(ledger[q], e)
                              /\ less = IF orphans[q][e] = 0 THEN 0 ELSE orphans[q][e] - 1
      OBVIOUS
    <3>2. ledger' = [ledger EXCEPT ![q] = shrunk] /\ orphans' = [orphans EXCEPT ![q][e] = less]
      BY <2>2, <3>1 DEF ReleaseRaw
    <3>3. ASSUME NEW f \in Entry
          PROVE  Count(ledger'[q], f) = orphans'[q][f] /\ orphans'[q][f] \in Nat
      <4>1. Count(ledger[q], f)
              = Count(shrunk, f) + (IF f = e /\ Count(ledger[q], e) # 0 THEN 1 ELSE 0)
        BY <1>3, <3>1, CountWithout
      <4>2. orphans'[q][f] = IF e = f THEN less ELSE orphans[q][f]
        BY <1>2, <1>4, <3>2
      <4>3. ledger'[q] = shrunk
        BY <1>2, <3>2
      <4>4. /\ Count(ledger[q], f) = orphans[q][f] /\ orphans[q][f] \in Nat
            /\ Count(ledger[q], e) = orphans[q][e]
        BY <1>4, <1>6
      <4>5. Count(shrunk, f) \in Nat
        BY <1>3, <3>1, WithoutApart, CountIsNat, LedgerIsSeq DEF XInv
      <4>6. Count(shrunk, f) = orphans'[q][f]
        BY <3>1, <4>1, <4>2, <4>4, <4>5
      <4>7. QED
        BY <4>3, <4>5, <4>6
    <3>4. QED
      BY <1>2, <3>2, <3>3
  <2>3. CASE Clear(q)
    <3>1. ledger' = [ledger EXCEPT ![q] = <<>>] /\ orphans' = [orphans EXCEPT ![q] = None]
      BY <2>3 DEF Clear
    <3>2. ledger'[q] = <<>> /\ orphans'[q] = None
      BY <1>2, <3>1
    <3>3. \A f \in Entry : None[f] = 0
      BY DEF None
    <3>4. \A f \in Entry : Count(ledger'[q], f) = orphans'[q][f] /\ orphans'[q][f] \in Nat
      BY <3>2, <3>3, CountEmpty
    <3>5. QED
      BY <1>2, <3>1, <3>4
  <2>4. QED
    BY <2>1, <2>2, <2>3
<1>8. CASE r = q
  <2>1. \A g \in Guard : ~LiveOn(g, r)'
    BY <1>1, <1>3, <1>8, NoneLive, LeasesStay
  <2>2. \A f \in Entry : (Count(ledger[r], f) = orphans[r][f] + Count(During(r), f))'
    <3>1. \A f \in Entry : Count(<<>>, f) = 0
      BY CountEmpty
    <3>2. \A f \in Entry : orphans'[q][f] = orphans'[q][f] + Count(<<>>, f)
      BY <1>7, <3>1
    <3>3. QED
      BY <1>5, <1>7, <1>8, <3>2
  <2>3. QED
    BY <2>1, <2>2, Unengaged
<1>9. CASE r # q
  BY <1>1, <1>3, <1>7, <1>9, Others
<1>10. QED
  BY <1>8, <1>9

-----------------------------------------------------------------------------
LEMMA InitBalances ==
  ASSUME Init
  PROVE  XInv
<1>1. IInv
  BY InitEstablishes
<1>2. /\ ledger = [r \in Registry |-> <<>>] /\ lease = [g \in Guard |-> NoLease] /\ op = Idle
      /\ orphans = [r \in Registry |-> None]
  BY DEF Init
<1>3. ASSUME NEW r \in Registry
      PROVE  Balanced(r)
  <2>1. \A g \in Guard : ~LiveOn(g, r)
    BY <1>2 DEF LiveOn, NoLease
  <2>2. ledger[r] = <<>> /\ orphans[r] = None /\ During(r) = <<>>
    BY <1>2 DEF During
  <2>3. \A e \in Entry : None[e] = 0 /\ Count(<<>>, e) = 0 /\ 0 = 0 + 0
    BY CountEmpty DEF None
  <2>4. \A e \in Entry : Count(ledger[r], e) = orphans[r][e] + Count(During(r), e)
    BY <2>2, <2>3
  <2>5. QED
    BY <1>2, <2>1, <2>4 DEF Balanced
<1>4. QED
  BY <1>1, <1>3 DEF XInv

LEMMA NextBalances ==
  ASSUME XInv, [Next]_vars
  PROVE  XInv'
<1>1. IInv'
  BY NextKeeps DEF XInv
<1>2. ASSUME NEW r \in Registry
      PROVE  Balanced(r)'
  <2>1. CASE Acquire
    BY <2>1, BeginBalances DEF Acquire
  <2>2. CASE RegisterRange
    BY <2>2, RegisterBalances
  <2>3. CASE RefuseRange \/ AccountRefused \/ Released
    BY <2>3, TurnBalances
  <2>4. CASE BorrowAccount
    BY <2>4, BorrowBalances
  <2>5. CASE ReleaseEntry
    BY <2>5, ReleaseBalances
  <2>6. CASE \E g \in Guard : DropSegment(g) \/ ForgetSegment(g)
    BY <2>6, DropBalances, ForgetBalances
  <2>7. CASE \/ \E g \in Guard : DropWhole(g)
             \/ \E g \in Guard, c \in Cell, access \in Access : BorrowWhole(g, c, access)
             \/ UNCHANGED vars
    <3>1. UNCHANGED <<ledger, lease, op, orphans>>
      BY <2>7 DEF DropWhole, BorrowWhole, vars
    <3>2. QED
      BY <3>1, WholeBalances
  <2>8. CASE \/ \E q \in Registry, e \in RawEntry : RegisterRaw(q, e) \/ ReleaseRaw(q, e)
             \/ \E q \in Registry : Clear(q)
    BY <2>8, RawBalances
  <2>9. QED
    BY <2>1, <2>2, <2>3, <2>4, <2>5, <2>6, <2>7, <2>8 DEF Next
<1>3. QED
  BY <1>1, <1>2 DEF XInv

\* A balanced registry is accounted for, entry by entry.
LEMMA BalancedIsOwned ==
  ASSUME XInv, NEW r \in Registry, NEW e \in Entry
  PROVE  Owned(r, e)
<1> DEFINE guard == {g \in Views : lease[g].registry = r}
           held == IF guard = {} THEN 0 ELSE Count(lease[CHOOSE g \in guard : TRUE].entries, e)
<1>1. \A g \in Guard : g \in guard <=> LiveOn(g, r)
  BY DEF Views, LiveOn
<1>2. guard \subseteq Guard
  BY DEF Views
<1>3. Balanced(r) /\ orphans[r][e] \in Nat
  BY CountOfSeq DEF XInv
<1>4. CASE guard = {}
  <2>1. ~Engaged(r)
    BY <1>1, <1>4 DEF Engaged, LiveOn
  <2>2. Count(ledger[r], e) = orphans[r][e] + Count(During(r), e)
    BY <1>3, <2>1 DEF Balanced
  <2>3. Count(During(r), e) \in Nat
    <3>1. During(r) \in Seq(Entry)
      BY Registering, Releasing, StepsDiffer DEF During, XInv, IInv, TypeOK
    <3>2. QED
      BY <3>1, CountIsNat
  <2>4. Count(ledger[r], e) = orphans[r][e] + Count(During(r), e) + 0
    BY <1>3, <2>2, <2>3
  <2>5. Cardinality(guard) <= 1
    BY <1>4, FS_EmptySet
  <2>6. QED
    BY <1>4, <2>4, <2>5 DEF Owned, During
<1>5. CASE guard # {}
  <2>1. PICK g \in Guard : g = CHOOSE h \in guard : TRUE
    BY <1>2, <1>5
  <2>2. g \in guard /\ LiveOn(g, r)
    BY <1>1, <1>5, <2>1
  <2>3. guard = {g}
    BY <1>1, <1>2, <1>3, <2>2 DEF Balanced
  <2>4. Cardinality(guard) <= 1
    <3>1. Cardinality({g}) = 1
      BY FS_Singleton
    <3>2. QED
      BY <2>3, <3>1
  <2>5. Engaged(r)
    BY <2>2 DEF Engaged, LiveOn
  <2>6. During(r) = <<>>
    BY <1>3, <2>5 DEF During, Balanced
  <2>7. Count(ledger[r], e) = orphans[r][e] + Count(lease[g].entries, e)
    BY <1>3, <2>2 DEF Balanced
  <2>8. orphans[r][e] = orphans[r][e] + Count(<<>>, e)
    <3>1. Count(<<>>, e) = 0
      BY CountEmpty
    <3>2. QED
      BY <1>3, <3>1
  <2>9. Count(ledger[r], e) = orphans[r][e] + Count(During(r), e) + held
    BY <1>5, <2>1, <2>6, <2>7, <2>8
  <2>10. QED
    BY <2>4, <2>9 DEF Owned, During
<1>6. QED
  BY <1>4, <1>5

\* Whatever is refused, dropped or forgotten, and in whatever order: every entry
\* of a ledger is a live guard's, the operation's under way or the program's own,
\* and each of theirs is there, copy for copy.
THEOREM LedgerAlwaysExact == Spec => []LedgerExact
<1>1. Init => XInv
  BY InitBalances
<1>2. XInv /\ [Next]_vars => XInv'
  BY NextBalances
<1>3. XInv => LedgerExact
  BY BalancedIsOwned DEF LedgerExact
<1>4. QED
  BY <1>1, <1>2, <1>3, PTL DEF Spec

-----------------------------------------------------------------------------
(* Partial sums *)

\* What PartialSums would be.
SumsOf(numbers, f) ==
  /\ f \in [0 .. Len(numbers) -> Nat] /\ f[0] = 0
  /\ \A k \in 1 .. Len(numbers) : f[k] = f[k - 1] + numbers[k]

Summed(numbers, m) ==
  \E f \in [0 .. m -> Nat] : f[0] = 0 /\ \A k \in 1 .. m : f[k] = f[k - 1] + numbers[k]

LEMMA SumsUpTo ==
  ASSUME NEW numbers \in Seq(Nat)
  PROVE  \A m \in 0 .. Len(numbers) : Summed(numbers, m)
<1> DEFINE Sums(m, f) == f[0] = 0 /\ \A k \in 1 .. m : f[k] = f[k - 1] + numbers[k]
           Bad == {m \in 0 .. Len(numbers) : ~Summed(numbers, m)}
<1>1. SUFFICES ASSUME Bad # {} PROVE FALSE
  OBVIOUS
<1>2. Len(numbers) \in Nat /\ Bad \subseteq Nat
  OBVIOUS
<1>3. PICK m \in Bad : \A y \in Bad : m <= y
  <2> HIDE DEF Bad
  <2>1. QED
    BY <1>1, <1>2, LeastElement
<1>4. m \in Nat /\ m \in 0 .. Len(numbers) /\ ~Summed(numbers, m)
  OBVIOUS
<1>5. CASE m = 0
  <2>1. PICK f : f = [k \in 0 .. 0 |-> 0]
    OBVIOUS
  <2>2. f \in [0 .. m -> Nat] /\ f[0] = 0
    BY <1>5, <2>1
  <2>3. Sums(m, f)
    BY <1>5, <2>2
  <2>4. QED
    BY <1>4, <2>2, <2>3 DEF Summed
<1>6. CASE m # 0
  <2>1. m - 1 \in 0 .. Len(numbers) /\ m - 1 \notin Bad /\ m \in 1 .. Len(numbers)
    <3>1. m - 1 \in 0 .. Len(numbers) /\ m \in 1 .. Len(numbers) /\ m - 1 \in Nat
      BY <1>2, <1>4, <1>6
    <3>2. ~(m <= m - 1)
      BY <1>4
    <3> HIDE DEF Bad
    <3>3. QED
      BY <1>3, <3>1, <3>2
  <2>2. PICK f \in [0 .. m - 1 -> Nat] : Sums(m - 1, f)
    <3>1. Summed(numbers, m - 1)
      BY <2>1
    <3>2. QED
      BY <3>1 DEF Summed
  <2>3. f[m - 1] \in Nat /\ numbers[m] \in Nat
    BY <2>1
  <2>4. PICK last \in Nat : last = f[m - 1] + numbers[m]
    BY <2>3
  <2>5. PICK g : g = [k \in 0 .. m |-> IF k = m THEN last ELSE f[k]]
    OBVIOUS
  <2> HIDE DEF Bad
  <2>6. /\ DOMAIN g = 0 .. m /\ g[m] = last
        /\ \A k \in 0 .. m - 1 : g[k] = f[k] /\ f[k] \in Nat
    BY <1>4, <2>5
  <2>7. g \in [0 .. m -> Nat]
    BY <1>4, <2>4, <2>5, <2>6
  <2>8. Sums(m, g)
    <3>1. g[0] = 0
      BY <1>4, <1>6, <2>2, <2>6
    <3>2. ASSUME NEW k \in 1 .. m PROVE g[k] = g[k - 1] + numbers[k]
      <4>1. k - 1 \in 0 .. m - 1
        BY <1>4
      <4>2. g[k - 1] = f[k - 1]
        BY <2>6, <4>1
      <4>3. CASE k = m
        BY <2>4, <2>6, <4>2, <4>3
      <4>4. CASE k # m
        <5>1. k \in 1 .. m - 1 /\ k \in 0 .. m - 1
          BY <1>4, <4>4
        <5>2. g[k] = f[k] /\ f[k] = f[k - 1] + numbers[k]
          BY <2>2, <2>6, <5>1
        <5>3. QED
          BY <4>2, <5>2
      <4>5. QED
        BY <4>3, <4>4
    <3>3. QED
      BY <3>1, <3>2
  <2>9. QED
    BY <1>4, <2>7, <2>8 DEF Summed
<1>7. QED
  BY <1>5, <1>6

\* The recursive definition has a solution, and PartialSums is one.
LEMMA PartialSumsAre ==
  ASSUME NEW numbers \in Seq(Nat)
  PROVE  SumsOf(numbers, PartialSums(numbers))
<1>1. PICK f \in [0 .. Len(numbers) -> Nat] :
        f[0] = 0 /\ \A k \in 1 .. Len(numbers) : f[k] = f[k - 1] + numbers[k]
  <2>1. Len(numbers) \in 0 .. Len(numbers)
    OBVIOUS
  <2>2. QED
    BY <2>1, SumsUpTo DEF Summed
<1> DEFINE Equation(g) ==
  g = [k \in 0 .. Len(numbers) |-> IF k = 0 THEN 0 ELSE g[k - 1] + numbers[k]]
<1>2. Equation(f)
  BY <1>1
<1>3. PartialSums(numbers) = CHOOSE g : Equation(g)
  BY DEF PartialSums
<1>4. Equation(PartialSums(numbers))
  BY <1>2, <1>3
<1>5. PICK sum : sum = PartialSums(numbers)
  OBVIOUS
<1>6. /\ DOMAIN sum = 0 .. Len(numbers) /\ sum[0] = 0
      /\ \A k \in 1 .. Len(numbers) : sum[k] = sum[k - 1] + numbers[k]
  <2>1. PICK h : h = [k \in 0 .. Len(numbers) |-> IF k = 0 THEN 0 ELSE sum[k - 1] + numbers[k]]
    OBVIOUS
  <2>2. /\ DOMAIN h = 0 .. Len(numbers) /\ h[0] = 0
        /\ \A k \in 1 .. Len(numbers) : h[k] = sum[k - 1] + numbers[k]
    BY <2>1
  <2>3. sum = h
    BY <1>4, <1>5, <2>1
  <2>4. QED
    BY <2>2, <2>3
<1>7. \A k \in 0 .. Len(numbers) : sum[k] = f[k]
  <2> DEFINE Bad == {k \in 0 .. Len(numbers) : sum[k] # f[k]}
  <2>1. SUFFICES ASSUME Bad # {} PROVE FALSE
    OBVIOUS
  <2>0. Bad \subseteq Nat
    OBVIOUS
  <2>2. PICK k \in Bad : \A y \in Bad : k <= y
    <3> HIDE DEF Bad
    <3>1. QED
      BY <2>0, <2>1, LeastElement
  <2>3. k \in 1 .. Len(numbers) /\ k - 1 \notin Bad /\ k - 1 \in 0 .. Len(numbers)
    BY <1>1, <1>6, <2>2
  <2>4. sum[k] = f[k]
    BY <1>1, <1>6, <2>3
  <2>5. QED
    BY <2>2, <2>4
<1>8. sum \in [0 .. Len(numbers) -> Nat]
  <2>1. sum = [k \in 0 .. Len(numbers) |-> sum[k]]
    BY <1>4, <1>5
  <2>2. QED
    BY <1>7, <2>1
<1>9. QED
  BY <1>5, <1>6, <1>8 DEF SumsOf

\* The sums over what two lists begin with are the same.
LEMMA PrefixSums ==
  ASSUME NEW a \in Seq(Nat), NEW b \in Seq(Nat), NEW n \in Nat, n <= Len(a), n <= Len(b),
         \A k \in 1 .. n : a[k] = b[k]
  PROVE  \A k \in 0 .. n : PartialSums(a)[k] = PartialSums(b)[k]
<1>1. PICK f, g : f = PartialSums(a) /\ g = PartialSums(b)
  OBVIOUS
<1>2. SumsOf(a, f) /\ SumsOf(b, g)
  BY <1>1, PartialSumsAre
<1> DEFINE Bad == {k \in 0 .. n : f[k] # g[k]}
<1>3. SUFFICES ASSUME Bad # {} PROVE FALSE
  BY <1>1
<1>4. Bad \subseteq Nat
  OBVIOUS
<1>5. PICK k \in Bad : \A y \in Bad : k <= y
  <2> HIDE DEF Bad
  <2>1. QED
    BY <1>3, <1>4, LeastElement
<1>6. k \in 0 .. n /\ f[k] # g[k] /\ f[0] = g[0]
  BY <1>2 DEF SumsOf
<1>7. k - 1 \in 0 .. n /\ k - 1 \notin Bad /\ k \in 1 .. n
  <2> HIDE DEF Bad
  <2>1. k \in 1 .. n
    BY <1>6
  <2>2. QED
    BY <1>5, <2>1
<1>8. f[k - 1] = g[k - 1]
  BY <1>7
<1>9. k \in 1 .. Len(a) /\ k \in 1 .. Len(b) /\ a[k] = b[k]
  BY <1>7
<1>10. f[k] = f[k - 1] + a[k] /\ g[k] = g[k - 1] + b[k]
  BY <1>2, <1>9 DEF SumsOf
<1>11. QED
  BY <1>6, <1>8, <1>9, <1>10

\* The sums never decrease.
LEMMA SumsGrow ==
  ASSUME NEW a \in Seq(Nat), NEW j \in 0 .. Len(a), NEW k \in 0 .. Len(a), j <= k
  PROVE  PartialSums(a)[j] <= PartialSums(a)[k]
<1>1. PICK f : f = PartialSums(a)
  OBVIOUS
<1>2. SumsOf(a, f)
  BY <1>1, PartialSumsAre
<1> DEFINE Bad == {i \in 0 .. Len(a) : j <= i /\ ~(f[j] <= f[i])}
<1>3. SUFFICES ASSUME Bad # {} PROVE FALSE
  BY <1>1
<1>4. Bad \subseteq Nat /\ Len(a) \in Nat
  OBVIOUS
<1>5. PICK i \in Bad : \A y \in Bad : i <= y
  <2> HIDE DEF Bad
  <2>1. QED
    BY <1>3, <1>4, LeastElement
<1>6. i \in 0 .. Len(a) /\ j <= i /\ ~(f[j] <= f[i])
  OBVIOUS
<1>7. f \in [0 .. Len(a) -> Nat] /\ \A m \in 1 .. Len(a) : f[m] = f[m - 1] + a[m]
  BY <1>2 DEF SumsOf
<1>8. f[j] \in Nat
  BY <1>7
<1>9. i # j
  BY <1>6, <1>8
<1>10. i \in 1 .. Len(a) /\ i - 1 \in 0 .. Len(a) /\ j <= i - 1
  BY <1>4, <1>6, <1>9
<1>11. i - 1 \notin Bad
  <2> HIDE DEF Bad
  <2>1. QED
    BY <1>5, <1>10
<1>12. f[j] <= f[i - 1] /\ f[i - 1] \in Nat /\ a[i] \in Nat
  <2>1. f[j] <= f[i - 1]
    BY <1>10, <1>11
  <2> HIDE DEF Bad
  <2>2. f[i - 1] \in Nat
    BY <1>7, <1>10
  <2>3. a[i] \in Nat
    BY <1>10
  <2>4. QED
    BY <2>1, <2>2, <2>3
<1>13. f[i] = f[i - 1] + a[i]
  BY <1>7, <1>10
<1>14. QED
  BY <1>6, <1>8, <1>12, <1>13

-----------------------------------------------------------------------------
(* What a tier lets through *)

\* Every account a callee is to touch is one the checks were made of.
Lets(metas, views) ==
  \A i \in DOMAIN metas :
    /\ Borrowable(metas[i], metas[i].cell)
    /\ metas[i].writable => metas[i].cell \in delegable
    /\ \E k \in DOMAIN views : views[k] = metas[i].cell

NoRepeats(metas) == \A i, j \in DOMAIN metas : ~Repeats(metas, i, j)

\* Two metas are alike whichever of them comes first.
LEMMA DistinctEitherWay ==
  ASSUME NEW metas \in Seq(Meta), NEW views, NoDuplicateWritable(metas, views),
         \A i \in DOMAIN metas : views[i] = metas[i].cell
  PROVE  NoRepeats(metas)
<1>1. SUFFICES ASSUME NEW i \in 1 .. Len(metas), NEW j \in 1 .. Len(metas),
                      Repeats(metas, i, j)
               PROVE  FALSE
  BY DEF NoRepeats
<1>2. i < j \/ j < i
  BY <1>1 DEF Repeats
<1>3. QED
  BY <1>1, <1>2 DEF Repeats, NoDuplicateWritable

LEMMA ByPosition ==
  ASSUME NEW metas \in Seq(Meta), NEW views \in Seq(Cell), BorrowChecked(metas, views)
  PROVE  Lets(metas, views) /\ \A i \in DOMAIN metas : views[i] = metas[i].cell
<1>1. Len(views) >= Len(metas) /\ \A i \in DOMAIN metas : views[i] = metas[i].cell
  BY DEF BorrowChecked, Corresponds
<1>2. \A i \in DOMAIN metas : i \in DOMAIN views
  BY <1>1
<1>3. QED
  BY <1>1, <1>2 DEF Lets, BorrowChecked, MayHandOff

LEMMA ByBuilder ==
  ASSUME NEW metas \in Seq(Meta), Builder(metas, ViewsOf(metas))
  PROVE  Lets(metas, ViewsOf(metas))
BY DEF Lets, Builder, ViewsOf, MayHandOff

LEMMA ViewsOfMetas ==
  ASSUME NEW metas \in Seq(Meta)
  PROVE  /\ ViewsOf(metas) \in Seq(Cell) /\ Len(ViewsOf(metas)) = Len(metas)
         /\ DOMAIN ViewsOf(metas) = DOMAIN metas
         /\ \A i \in DOMAIN metas : ViewsOf(metas)[i] = metas[i].cell
<1>1. PICK n \in Nat : n = Len(metas) /\ DOMAIN metas = 1 .. n
  OBVIOUS
<1>2. \A i \in 1 .. n : metas[i].cell \in Cell
  <2>1. \A i \in 1 .. n : metas[i] \in Meta
    BY <1>1
  <2>2. QED
    BY <2>1 DEF Meta
<1>3. PICK v : v = ViewsOf(metas)
  OBVIOUS
<1>4. v \in [1 .. n -> Cell] /\ \A i \in 1 .. n : v[i] = metas[i].cell
  BY <1>1, <1>2, <1>3 DEF ViewsOf
<1>5. v \in Seq(Cell) /\ Len(v) = n /\ DOMAIN v = 1 .. n
  BY <1>4
<1>6. QED
  BY <1>1, <1>3, <1>4, <1>5

\* The info found is the account looked for, be it the first of several.
LEMMA FoundIsNamed ==
  ASSUME NEW m, NEW views \in Seq(Cell), Infos(m, views) # {}
  PROVE  FindInfo(m, views) = m.cell
<1>1. Infos(m, views) \subseteq Nat
  BY DEF Infos
<1>2. PICK least : least = CHOOSE k \in Infos(m, views) : \A j \in Infos(m, views) : k <= j
  OBVIOUS
<1>3. least \in Infos(m, views)
  <2>1. \E k \in Infos(m, views) : \A j \in Infos(m, views) : k <= j
    BY <1>1, LeastElement
  <2>2. QED
    BY <1>2, <2>1
<1>4. QED
  BY <1>2, <1>3 DEF Infos, FindInfo

LEMMA ByAddress ==
  ASSUME NEW metas \in Seq(Meta), NEW views \in Seq(Cell), NEW seeds,
         Deduped(metas, views, seeds)
  PROVE  Lets(metas, views) /\ NoRepeats(metas)
<1>1. \A i \in DOMAIN metas : Infos(metas[i], views) # {}
  BY DEF Deduped
<1>2. \A i \in DOMAIN metas : FindInfo(metas[i], views) = metas[i].cell
  BY <1>1, FoundIsNamed
<1>3. PICK found : found = [i \in DOMAIN metas |-> FindInfo(metas[i], views)]
  OBVIOUS
<1>4. \A i \in DOMAIN metas : found[i] = metas[i].cell
  BY <1>2, <1>3
<1>5. /\ NoDuplicateWritable(metas, ViewsOf(metas))
      /\ \A i \in DOMAIN metas : Borrowable(metas[i], found[i])
      /\ MayHandOff(metas, found)
  BY <1>3 DEF Deduped
<1>6. Lets(metas, views)
  BY <1>1, <1>4, <1>5 DEF Lets, MayHandOff, Infos
<1>7. NoRepeats(metas)
  BY <1>5, ViewsOfMetas, DistinctEitherWay
<1>8. QED
  BY <1>6, <1>7

\* What a callee was let to touch, it may touch.
LEMMA CalledMayTouch ==
  ASSUME NEW tier, NEW metas \in Seq(Meta), NEW views, Lets(metas, views),
         Call(tier, metas, views)
  PROVE  /\ CalleeMayTouch'
         /\ callee'.tier = tier /\ callee'.metas = metas
<1>1. PICK new : new = Running(tier, metas, views)
  OBVIOUS
<1>2. callee' = new /\ UNCHANGED <<holding, entry, delegable>>
  BY <1>1 DEF Call, caller
<1>3. /\ new.tier = tier /\ new.metas = metas
      /\ new.infos = {views[i] : i \in DOMAIN views}
  BY <1>1 DEF Running
<1>4. ASSUME NEW i \in DOMAIN metas
      PROVE  /\ \A h \in Holders : holding[h].cell = metas[i].cell =>
                   ~metas[i].writable /\ holding[h].access = "shared"
             /\ metas[i].writable => metas[i].cell \in delegable
             /\ metas[i].cell \in new.infos
  <2>1. /\ Borrowable(metas[i], metas[i].cell)
        /\ metas[i].writable => metas[i].cell \in delegable
        /\ \E k \in DOMAIN views : views[k] = metas[i].cell
    BY DEF Lets
  <2>2. ASSUME NEW h \in Holders, holding[h].cell = metas[i].cell
        PROVE  ~metas[i].writable /\ holding[h].access = "shared"
    BY <2>1, <2>2 DEF Borrowable, CheckBorrow, CheckBorrowMut, Free, Compatible, BorrowOf
  <2>3. QED
    BY <1>3, <2>1, <2>2
<1>5. Holders' = Holders
  BY <1>2 DEF Holders
<1>6. QED
  BY <1>2, <1>3, <1>4, <1>5 DEF CalleeMayTouch

-----------------------------------------------------------------------------
(* DynCpi: one info for each account pushed *)

Info == [first : Nat, writable : BOOLEAN, signer : BOOLEAN]

\* The account of an info, and that some meta of the account asks for a privilege.
NamedBy(k) == pushed[infos[k].first].cell
SomeWritable(c) == \E i \in DOMAIN pushed : pushed[i].cell = c /\ pushed[i].writable
SomeSigner(c) == \E i \in DOMAIN pushed : pushed[i].cell = c /\ pushed[i].signer

DynTyped ==
  /\ pushed \in Seq(Meta) /\ infos \in Seq(Info)
  /\ \A k \in DOMAIN infos : infos[k].first \in DOMAIN pushed

InfosMerged ==
  /\ \A i \in DOMAIN pushed : \E k \in DOMAIN infos : NamedBy(k) = pushed[i].cell
  /\ \A k, n \in DOMAIN infos : NamedBy(k) = NamedBy(n) => k = n
  /\ \A k \in DOMAIN infos : /\ infos[k].writable <=> SomeWritable(NamedBy(k))
                             /\ infos[k].signer <=> SomeSigner(NamedBy(k))

\* One info per account with the privileges of all its metas.
LEMMA MergedIsExact ==
  ASSUME DynTyped, InfosMerged
  PROVE  \A m \in Meta :
           LET named == {i \in DOMAIN pushed : pushed[i].cell = m.cell}
               info  == {k \in DOMAIN infos : pushed[infos[k].first].cell = m.cell}
           IN  /\ Cardinality(info) = IF named = {} THEN 0 ELSE 1
               /\ \A k \in info :
                    /\ infos[k].writable = \E i \in named : pushed[i].writable
                    /\ infos[k].signer = \E i \in named : pushed[i].signer
<1> SUFFICES ASSUME NEW m \in Meta
             PROVE  LET named == {i \in DOMAIN pushed : pushed[i].cell = m.cell}
                        info  == {k \in DOMAIN infos : pushed[infos[k].first].cell = m.cell}
                    IN  /\ Cardinality(info) = IF named = {} THEN 0 ELSE 1
                        /\ \A k \in info :
                             /\ infos[k].writable = \E i \in named : pushed[i].writable
                             /\ infos[k].signer = \E i \in named : pushed[i].signer
  OBVIOUS
<1> DEFINE named == {i \in DOMAIN pushed : pushed[i].cell = m.cell}
           info  == {k \in DOMAIN infos : pushed[infos[k].first].cell = m.cell}
<1>1. Cardinality(info) = IF named = {} THEN 0 ELSE 1
  <2>1. CASE named = {}
    <3>1. info = {}
      BY <2>1 DEF DynTyped
    <3> HIDE DEF info
    <3>2. QED
      BY <2>1, <3>1, FS_EmptySet
  <2>2. CASE named # {}
    <3>1. PICK k \in DOMAIN infos : NamedBy(k) = m.cell
      BY <2>2 DEF InfosMerged
    <3>2. info = {k}
      BY <3>1 DEF InfosMerged, NamedBy
    <3>3. Cardinality({k}) = 1
      BY FS_Singleton
    <3> HIDE DEF info, named
    <3>4. QED
      BY <2>2, <3>2, <3>3
  <2>3. QED
    BY <2>1, <2>2
<1>2. ASSUME NEW k \in info
      PROVE  /\ infos[k].writable = \E i \in named : pushed[i].writable
             /\ infos[k].signer = \E i \in named : pushed[i].signer
  <2>1. k \in DOMAIN infos /\ NamedBy(k) = m.cell
    BY DEF NamedBy
  <2>2. /\ infos[k].writable <=> SomeWritable(m.cell)
        /\ infos[k].signer <=> SomeSigner(m.cell)
    BY <2>1 DEF InfosMerged
  <2>3. /\ SomeWritable(m.cell) <=> \E i \in named : pushed[i].writable
        /\ SomeSigner(m.cell) <=> \E i \in named : pushed[i].signer
    BY DEF SomeWritable, SomeSigner
  <2>4. infos[k].writable \in BOOLEAN /\ infos[k].signer \in BOOLEAN
    <3>1. infos[k] \in Info
      BY <2>1 DEF DynTyped
    <3>2. QED
      BY <3>1 DEF Info
  <2>5. QED
    BY <2>2, <2>3, <2>4
<1>3. QED
  BY <1>1, <1>2

LEMMA InfoViewsAre ==
  ASSUME DynTyped
  PROVE  /\ InfoViews \in Seq(Cell) /\ DOMAIN InfoViews = DOMAIN infos
         /\ \A k \in DOMAIN infos : InfoViews[k] = NamedBy(k)
<1>1. PICK n \in Nat : n = Len(infos) /\ DOMAIN infos = 1 .. n
  BY DEF DynTyped
<1>2. \A k \in 1 .. n : NamedBy(k) \in Cell
  <2>1. \A k \in 1 .. n : pushed[infos[k].first] \in Meta
    BY <1>1 DEF DynTyped
  <2>2. QED
    BY <2>1 DEF Meta, NamedBy
<1>3. PICK v : v = InfoViews
  OBVIOUS
<1>4. v \in [1 .. n -> Cell] /\ \A k \in 1 .. n : v[k] = NamedBy(k)
  BY <1>1, <1>2, <1>3 DEF InfoViews, NamedBy
<1>5. v \in Seq(Cell) /\ DOMAIN v = 1 .. n
  BY <1>4
<1>6. QED
  BY <1>1, <1>3, <1>4, <1>5

\* The infos of a DynCpi pass the checks its metas would pass with one view each.
LEMMA DedupIsDefault ==
  ASSUME DynTyped, InfosMerged, NEW seeds
  PROVE  Deduped(pushed, InfoViews, seeds) <=> Default(pushed, ViewsOf(pushed), seeds)
<1>1. pushed \in Seq(Meta)
  BY DEF DynTyped
<1>2. PICK views : views = ViewsOf(pushed)
  OBVIOUS
<1>3. /\ Len(views) = Len(pushed) /\ DOMAIN views = DOMAIN pushed
      /\ \A i \in DOMAIN pushed : views[i] = pushed[i].cell
      /\ Len(pushed) \in Nat
  BY <1>1, <1>2, ViewsOfMetas
<1>4. \A i \in DOMAIN pushed : Infos(pushed[i], InfoViews) # {}
  BY InfoViewsAre DEF InfosMerged, Infos
<1>5. \A i \in DOMAIN pushed : FindInfo(pushed[i], InfoViews) = pushed[i].cell
  BY <1>4, InfoViewsAre, FoundIsNamed
<1>6. [i \in DOMAIN pushed |-> FindInfo(pushed[i], InfoViews)] = views
  BY <1>2, <1>5 DEF ViewsOf
<1>7. Deduped(pushed, InfoViews, seeds) <=>
        /\ NoDuplicateWritable(pushed, views)
        /\ \A i \in DOMAIN pushed : /\ Privileged(pushed[i], views[i], seeds)
                                    /\ Borrowable(pushed[i], views[i])
        /\ MayHandOff(pushed, views)
  BY <1>2, <1>4, <1>6 DEF Deduped
<1>8. Default(pushed, views, seeds) <=>
        /\ NoDuplicateWritable(pushed, views)
        /\ \A i \in DOMAIN pushed : /\ Privileged(pushed[i], views[i], seeds)
                                    /\ Borrowable(pushed[i], views[i])
        /\ MayHandOff(pushed, views)
  BY <1>3 DEF Default, Covered, BorrowChecked, Corresponds
<1>9. QED
  BY <1>2, <1>7, <1>8

LEMMA MergedSuffices ==
  ASSUME DynTyped, InfosMerged
  PROVE  DedupAsStrict
<1>1. \A seeds \in BOOLEAN :
        Deduped(pushed, InfoViews, seeds) <=> Default(pushed, ViewsOf(pushed), seeds)
  BY DedupIsDefault
<1>2. QED
  BY <1>1, MergedIsExact DEF DedupAsStrict

\* A meta of an account that has no info yet brings one.
LEMMA PushNew ==
  ASSUME DynTyped, InfosMerged, NEW m \in Meta, pushed' = Append(pushed, m),
         \A k \in DOMAIN infos : NamedBy(k) # m.cell,
         infos' = Append(infos, [first |-> Len(pushed) + 1, writable |-> m.writable,
                                 signer |-> m.signer])
  PROVE  (DynTyped /\ InfosMerged)'
<1>1. PICK n \in Nat, q \in Nat : n = Len(pushed) /\ q = Len(infos)
  BY DEF DynTyped
<1>2. PICK new : new = [first |-> n + 1, writable |-> m.writable, signer |-> m.signer]
  OBVIOUS
<1>3. /\ new \in Info /\ new.first = n + 1
      /\ new.writable = m.writable /\ new.signer = m.signer
  BY <1>2 DEF Info, Meta
<1>4. /\ pushed' \in Seq(Meta) /\ DOMAIN pushed' = 1 .. n + 1 /\ DOMAIN pushed = 1 .. n
      /\ pushed'[n + 1] = m /\ \A i \in 1 .. n : pushed'[i] = pushed[i]
  BY <1>1 DEF DynTyped
<1>5. /\ infos' \in Seq(Info) /\ DOMAIN infos' = 1 .. q + 1 /\ DOMAIN infos = 1 .. q
      /\ infos'[q + 1] = new /\ \A k \in 1 .. q : infos'[k] = infos[k]
  BY <1>1, <1>2, <1>3 DEF DynTyped
<1>6. /\ \A k \in 1 .. q : infos[k].first \in 1 .. n /\ NamedBy(k)' = NamedBy(k)
      /\ NamedBy(q + 1)' = m.cell
  BY <1>3, <1>4, <1>5 DEF DynTyped, NamedBy
<1>7. DynTyped'
  <2>1. \A k \in 1 .. q + 1 : infos'[k].first \in 1 .. n + 1
    <3>1. ASSUME NEW k \in 1 .. q + 1 PROVE infos'[k].first \in 1 .. n + 1
      <4>1. CASE k = q + 1
        BY <1>3, <1>5, <4>1
      <4>2. CASE k # q + 1
        <5>1. k \in 1 .. q
          BY <4>2
        <5>2. PICK f \in 1 .. n : f = infos[k].first
          BY <1>6, <5>1
        <5>3. infos'[k].first = f /\ f \in 1 .. n + 1
          BY <1>5, <5>1, <5>2
        <5>4. QED
          BY <5>3
      <4>3. QED
        BY <4>1, <4>2
    <3>2. QED
      BY <3>1
  <2>2. QED
    BY <1>4, <1>5, <2>1 DEF DynTyped
<1>8. \A c : /\ SomeWritable(c)' <=> SomeWritable(c) \/ (c = m.cell /\ m.writable)
             /\ SomeSigner(c)' <=> SomeSigner(c) \/ (c = m.cell /\ m.signer)
  <2>1. n + 1 \in 1 .. n + 1 /\ \A i \in 1 .. n + 1 : i = n + 1 \/ i \in 1 .. n
    OBVIOUS
  <2>2. \A i \in 1 .. n : i \in 1 .. n + 1
    OBVIOUS
  <2>3. QED
    BY <1>4, <2>1, <2>2, Zenon DEF SomeWritable, SomeSigner
<1>9. ~SomeWritable(m.cell) /\ ~SomeSigner(m.cell)
  <2>1. \A i \in DOMAIN pushed : pushed[i].cell # m.cell
    BY DEF InfosMerged
  <2>2. QED
    BY <2>1 DEF SomeWritable, SomeSigner
<1>10. \A k \in 1 .. q : NamedBy(k) # m.cell
  BY <1>5
<1>11. \A i \in 1 .. n + 1 : \E k \in 1 .. q + 1 : NamedBy(k)' = pushed'[i].cell
  <2>1. ASSUME NEW i \in 1 .. n + 1
        PROVE  \E k \in 1 .. q + 1 : NamedBy(k)' = pushed'[i].cell
    <3>1. CASE i = n + 1
      <4>1. q + 1 \in 1 .. q + 1
        OBVIOUS
      <4>2. QED
        BY <1>4, <1>6, <3>1, <4>1
    <3>2. CASE i # n + 1
      <4>1. i \in 1 .. n
        BY <3>2
      <4>2. PICK k \in 1 .. q : NamedBy(k) = pushed[i].cell
        BY <1>4, <1>5, <4>1 DEF InfosMerged
      <4>3. k \in 1 .. q + 1 /\ NamedBy(k)' = pushed'[i].cell
        BY <1>4, <1>6, <4>1, <4>2
      <4>4. QED
        BY <4>3
    <3>3. QED
      BY <3>1, <3>2
  <2>2. QED
    BY <2>1
<1>12. \A k, l \in 1 .. q + 1 : NamedBy(k)' = NamedBy(l)' => k = l
  <2>1. \A k \in 1 .. q + 1 : k = q + 1 \/ k \in 1 .. q
    OBVIOUS
  <2>2. \A k, l \in 1 .. q : NamedBy(k) = NamedBy(l) => k = l
    BY <1>5 DEF InfosMerged
  <2>3. QED
    BY <1>6, <1>10, <2>1, <2>2
<1>13. \A k \in 1 .. q + 1 : /\ infos'[k].writable <=> SomeWritable(NamedBy(k))'
                             /\ infos'[k].signer <=> SomeSigner(NamedBy(k))'
  <2>1. \A k \in 1 .. q + 1 : k = q + 1 \/ k \in 1 .. q
    OBVIOUS
  <2>2. ASSUME NEW k \in 1 .. q
        PROVE  /\ infos'[k].writable <=> SomeWritable(NamedBy(k))'
               /\ infos'[k].signer <=> SomeSigner(NamedBy(k))'
    <3>1. /\ infos[k].writable <=> SomeWritable(NamedBy(k))
          /\ infos[k].signer <=> SomeSigner(NamedBy(k))
      BY <1>5 DEF InfosMerged
    <3>2. /\ SomeWritable(NamedBy(k))' <=> SomeWritable(NamedBy(k))
          /\ SomeSigner(NamedBy(k))' <=> SomeSigner(NamedBy(k))
      <4>1. PICK c : c = NamedBy(k) /\ c = NamedBy(k)' /\ c # m.cell
        BY <1>6, <1>10
      <4>2. (SomeWritable(c)' <=> SomeWritable(c)) /\ (SomeSigner(c)' <=> SomeSigner(c))
        BY <1>8, <4>1
      <4>3. QED
        BY <4>1, <4>2 DEF SomeWritable, SomeSigner
    <3>3. QED
      BY <1>5, <3>1, <3>2
  <2>3. /\ infos'[q + 1].writable <=> SomeWritable(NamedBy(q + 1))'
        /\ infos'[q + 1].signer <=> SomeSigner(NamedBy(q + 1))'
    <3>1. (SomeWritable(m.cell)' <=> m.writable) /\ (SomeSigner(m.cell)' <=> m.signer)
      BY <1>8, <1>9
    <3>2. QED
      BY <1>3, <1>5, <1>6, <3>1 DEF SomeWritable, SomeSigner
  <2>4. QED
    BY <2>1, <2>2, <2>3
<1>14. InfosMerged'
  BY <1>4, <1>5, <1>11, <1>12, <1>13 DEF InfosMerged
<1>15. QED
  BY <1>7, <1>14

\* A meta of an account that has an info adds its privileges to it.
LEMMA PushAgain ==
  ASSUME DynTyped, InfosMerged, NEW m \in Meta, pushed' = Append(pushed, m),
         NEW same, same = {k \in DOMAIN infos : pushed[infos[k].first].cell = m.cell},
         same # {},
         infos' = [k \in DOMAIN infos |->
                     IF k \in same THEN MergedInfo(infos[k], m) ELSE infos[k]]
  PROVE  (DynTyped /\ InfosMerged)'
<1>1. PICK n \in Nat, q \in Nat : n = Len(pushed) /\ q = Len(infos)
  BY DEF DynTyped
<1>2. /\ pushed' \in Seq(Meta) /\ DOMAIN pushed' = 1 .. n + 1 /\ DOMAIN pushed = 1 .. n
      /\ pushed'[n + 1] = m /\ \A i \in 1 .. n : pushed'[i] = pushed[i]
  BY <1>1 DEF DynTyped
<1>3. DOMAIN infos = 1 .. q /\ DOMAIN infos' = 1 .. q
  BY <1>1 DEF DynTyped
<1>4. \A k \in 1 .. q : k \in same <=> NamedBy(k) = m.cell
  BY <1>3 DEF NamedBy
<1>5. \A k \in 1 .. q :
        /\ infos'[k] \in Info /\ infos'[k].first = infos[k].first
        /\ infos'[k].writable <=> infos[k].writable \/ (k \in same /\ m.writable)
        /\ infos'[k].signer <=> infos[k].signer \/ (k \in same /\ m.signer)
  <2>1. SUFFICES ASSUME NEW k \in 1 .. q
                 PROVE  /\ infos'[k] \in Info /\ infos'[k].first = infos[k].first
                        /\ infos'[k].writable <=> infos[k].writable \/ (k \in same /\ m.writable)
                        /\ infos'[k].signer <=> infos[k].signer \/ (k \in same /\ m.signer)
    OBVIOUS
  <2>2. infos'[k] = IF k \in same THEN MergedInfo(infos[k], m) ELSE infos[k]
    BY <1>3
  <2>3. infos[k] \in Info
    BY <1>3 DEF DynTyped
  <2>4. PICK info \in Info : info = infos[k]
    BY <2>3
  <2>5. /\ MergedInfo(info, m) \in Info /\ MergedInfo(info, m).first = info.first
        /\ MergedInfo(info, m).writable <=> info.writable \/ m.writable
        /\ MergedInfo(info, m).signer <=> info.signer \/ m.signer
    BY DEF MergedInfo, Info, Meta
  <2>6. CASE k \in same
    BY <2>2, <2>4, <2>5, <2>6
  <2>7. CASE k \notin same
    BY <2>2, <2>4, <2>7
  <2>8. QED
    BY <2>6, <2>7
<1>6. \A k \in 1 .. q : infos[k].first \in 1 .. n /\ NamedBy(k)' = NamedBy(k)
  BY <1>2, <1>3, <1>5 DEF DynTyped, NamedBy
<1>7. DynTyped'
  <2>1. infos' \in Seq(Info)
    <3>1. infos' \in [1 .. q -> Info]
      <4>1. infos' = [k \in 1 .. q |-> infos'[k]]
        BY <1>3
      <4>2. QED
        BY <1>5, <4>1
    <3>2. QED
      BY <3>1
  <2>2. \A k \in 1 .. q : infos'[k].first \in 1 .. n + 1
    <3>1. ASSUME NEW k \in 1 .. q PROVE infos'[k].first \in 1 .. n + 1
      <4>1. PICK f \in 1 .. n : f = infos[k].first
        BY <1>6
      <4>2. infos'[k].first = infos[k].first
        BY <1>5
      <4>3. f \in 1 .. n + 1
        OBVIOUS
      <4>4. QED
        BY <4>1, <4>2, <4>3
    <3>2. QED
      BY <3>1
  <2>3. QED
    BY <1>2, <1>3, <2>1, <2>2 DEF DynTyped
<1>8. \A c : /\ SomeWritable(c)' <=> SomeWritable(c) \/ (c = m.cell /\ m.writable)
             /\ SomeSigner(c)' <=> SomeSigner(c) \/ (c = m.cell /\ m.signer)
  <2>1. n + 1 \in 1 .. n + 1 /\ \A i \in 1 .. n + 1 : i = n + 1 \/ i \in 1 .. n
    OBVIOUS
  <2>2. \A i \in 1 .. n : i \in 1 .. n + 1
    OBVIOUS
  <2>3. /\ \A i \in DOMAIN pushed : i \in DOMAIN pushed' /\ pushed'[i] = pushed[i]
        /\ n + 1 \in DOMAIN pushed' /\ pushed'[n + 1] = m
        /\ \A i \in DOMAIN pushed' : i = n + 1 \/ i \in DOMAIN pushed
    BY <1>2, <2>1, <2>2, Zenon
  <2>4. \A c : SomeWritable(c)' <=> SomeWritable(c) \/ (c = m.cell /\ m.writable)
    BY <2>3, Zenon DEF SomeWritable
  <2>5. \A c : SomeSigner(c)' <=> SomeSigner(c) \/ (c = m.cell /\ m.signer)
    BY <2>3, Zenon DEF SomeSigner
  <2>6. QED
    BY <2>4, <2>5
<1>9. \A i \in 1 .. n + 1 : \E k \in 1 .. q : NamedBy(k)' = pushed'[i].cell
  <2>1. ASSUME NEW i \in 1 .. n + 1
        PROVE  \E k \in 1 .. q : NamedBy(k)' = pushed'[i].cell
    <3>1. CASE i = n + 1
      <4>1. PICK k \in same : k \in 1 .. q
        BY <1>3
      <4>2. NamedBy(k)' = pushed'[i].cell
        BY <1>2, <1>4, <1>6, <3>1, <4>1
      <4>3. QED
        BY <4>1, <4>2
    <3>2. CASE i # n + 1
      <4>1. i \in 1 .. n
        BY <3>2
      <4>2. PICK k \in 1 .. q : NamedBy(k) = pushed[i].cell
        BY <1>2, <1>3, <4>1 DEF InfosMerged
      <4>3. NamedBy(k)' = pushed'[i].cell
        BY <1>2, <1>6, <4>1, <4>2
      <4>4. QED
        BY <4>3
    <3>3. QED
      BY <3>1, <3>2
  <2>2. QED
    BY <2>1
<1>10. \A k, l \in 1 .. q : NamedBy(k)' = NamedBy(l)' => k = l
  BY <1>3, <1>6 DEF InfosMerged
<1>11. \A k \in 1 .. q : /\ infos'[k].writable <=> SomeWritable(NamedBy(k))'
                         /\ infos'[k].signer <=> SomeSigner(NamedBy(k))'
  <2>1. ASSUME NEW k \in 1 .. q
        PROVE  /\ infos'[k].writable <=> SomeWritable(NamedBy(k))'
               /\ infos'[k].signer <=> SomeSigner(NamedBy(k))'
    <3>1. /\ infos[k].writable <=> SomeWritable(NamedBy(k))
          /\ infos[k].signer <=> SomeSigner(NamedBy(k))
      BY <1>3 DEF InfosMerged
    <3>2. PICK c : c = NamedBy(k) /\ c = NamedBy(k)'
      BY <1>6
    <3>3. /\ infos'[k].writable <=> SomeWritable(c)'
          /\ infos'[k].signer <=> SomeSigner(c)'
      <4>1. k \in same <=> c = m.cell
        BY <1>4, <3>2
      <4>2. (infos[k].writable <=> SomeWritable(c)) /\ (infos[k].signer <=> SomeSigner(c))
        BY <3>1, <3>2 DEF SomeWritable, SomeSigner
      <4>3. QED
        BY <1>5, <1>8, <4>1, <4>2
    <3>4. QED
      BY <3>2, <3>3 DEF SomeWritable, SomeSigner
  <2>2. QED
    BY <2>1
<1>12. InfosMerged'
  <2>1. \A i \in DOMAIN pushed' : \E k \in DOMAIN infos' : NamedBy(k)' = pushed'[i].cell
    BY <1>2, <1>3, <1>9
  <2>2. \A k, l \in DOMAIN infos' : NamedBy(k)' = NamedBy(l)' => k = l
    BY <1>3, <1>10
  <2>3. \A k \in DOMAIN infos' : /\ infos'[k].writable <=> SomeWritable(NamedBy(k))'
                                 /\ infos'[k].signer <=> SomeSigner(NamedBy(k))'
    BY <1>3, <1>11
  <2>4. QED
    BY <2>1, <2>2, <2>3, Zenon DEF InfosMerged
<1>13. QED
  BY <1>7, <1>12

LEMMA PushKeeps ==
  ASSUME DynTyped, InfosMerged, NEW m \in Meta, PushAccount(m)
  PROVE  (DynTyped /\ InfosMerged)'
<1>1. PICK same : same = {k \in DOMAIN infos : pushed[infos[k].first].cell = m.cell}
  OBVIOUS
<1>2. /\ pushed' = Append(pushed, m)
      /\ infos' = IF same = {}
                    THEN Append(infos, [first |-> Len(pushed) + 1, writable |-> m.writable,
                                        signer |-> m.signer])
                    ELSE [k \in DOMAIN infos |->
                            IF k \in same THEN MergedInfo(infos[k], m) ELSE infos[k]]
  BY <1>1 DEF PushAccount, InfosWith
<1>3. CASE same = {}
  <2>1. \A k \in DOMAIN infos : NamedBy(k) # m.cell
    BY <1>1, <1>3 DEF NamedBy
  <2>2. QED
    BY <1>2, <1>3, <2>1, PushNew
<1>4. CASE same # {}
  BY <1>1, <1>2, <1>4, PushAgain
<1>5. QED
  BY <1>3, <1>4

-----------------------------------------------------------------------------
(* TokenBatch: the headers cut the account list where the encoders did *)

Header == [count : Nat, size : Nat]
Batches == [metas : Seq(Meta), headers : Seq(Header), instructions : Nat]

\* Where the k-th inner instruction of a batch ends.
Cut(b, k) == PartialSums(Counts(b.headers))[k]

Alike(m1, m2) == m1.cell = m2.cell /\ m1.writable /\ m2.writable

DescribesAccounts(b) ==
  /\ Cut(b, Len(b.headers)) = Len(b.metas)
  /\ b.instructions = Len(b.headers)
  /\ Len(b.metas) <= ACCOUNTS /\ BatchBytes(b.headers) <= DATA

\* No inner instruction names an account it may write twice.
ApartInside(b) ==
  \A k \in 1 .. Len(b.headers) : \A i, j \in 1 .. Len(b.metas) :
    Cut(b, k - 1) < i /\ i < j /\ j <= Cut(b, k) => ~Alike(b.metas[i], b.metas[j])

\* A checkpoint is where some inner instruction of the batch ends.
Marks(b, mark) ==
  /\ mark.headers \in 0 .. Len(b.headers)
  /\ mark.accounts = Cut(b, mark.headers) /\ mark.instructions = mark.headers

BatchSound(b) == b \in Batches /\ DescribesAccounts(b) /\ ApartInside(b)

LEMMA CountsAre ==
  ASSUME NEW headers \in Seq(Header)
  PROVE  /\ Counts(headers) \in Seq(Nat) /\ Len(Counts(headers)) = Len(headers)
         /\ \A i \in 1 .. Len(headers) : Counts(headers)[i] = headers[i].count
         /\ Framed(headers) \in Seq(Nat) /\ Len(Framed(headers)) = Len(headers)
         /\ \A i \in 1 .. Len(headers) : Framed(headers)[i] = 2 + headers[i].size
<1>1. PICK n \in Nat : n = Len(headers) /\ DOMAIN headers = 1 .. n
  OBVIOUS
<1>2. \A i \in 1 .. n : headers[i].count \in Nat /\ headers[i].size \in Nat
  <2>1. \A i \in 1 .. n : headers[i] \in Header
    BY <1>1
  <2>2. QED
    BY <2>1 DEF Header
<1>3. PICK counts, framed : counts = Counts(headers) /\ framed = Framed(headers)
  OBVIOUS
<1>4. counts \in [1 .. n -> Nat] /\ \A i \in 1 .. n : counts[i] = headers[i].count
  BY <1>1, <1>2, <1>3 DEF Counts
<1>5. framed \in [1 .. n -> Nat] /\ \A i \in 1 .. n : framed[i] = 2 + headers[i].size
  <2>1. \A i \in 1 .. n : 2 + headers[i].size \in Nat
    BY <1>2
  <2>2. QED
    BY <1>1, <1>3, <2>1 DEF Framed
<1>6. counts \in Seq(Nat) /\ Len(counts) = n
  BY <1>4
<1>7. framed \in Seq(Nat) /\ Len(framed) = n
  BY <1>5
<1>8. QED
  BY <1>1, <1>3, <1>4, <1>5, <1>6, <1>7

\* What the places of the cuts are.
LEMMA CutsAre ==
  ASSUME NEW b \in Batches
  PROVE  /\ \A k \in 0 .. Len(b.headers) : Cut(b, k) \in Nat
         /\ Cut(b, 0) = 0
         /\ \A k \in 1 .. Len(b.headers) : Cut(b, k) = Cut(b, k - 1) + b.headers[k].count
         /\ \A j, k \in 0 .. Len(b.headers) : j <= k => Cut(b, j) <= Cut(b, k)
<1>1. PICK headers \in Seq(Header) : headers = b.headers
  BY DEF Batches
<1>2. PICK counts \in Seq(Nat) : counts = Counts(headers)
  BY CountsAre
<1>3. /\ Len(counts) = Len(headers) /\ Len(headers) \in Nat
      /\ \A i \in 1 .. Len(headers) : counts[i] = headers[i].count
  BY <1>2, CountsAre
<1>4. PICK sums : sums = PartialSums(counts) /\ SumsOf(counts, sums)
  BY PartialSumsAre
<1>5. \A k : Cut(b, k) = sums[k]
  BY <1>1, <1>2, <1>4 DEF Cut
<1>6. \A j, k \in 0 .. Len(counts) : j <= k => sums[j] <= sums[k]
  BY <1>4, SumsGrow
<1>7. /\ \A k \in 0 .. Len(headers) : sums[k] \in Nat
      /\ sums[0] = 0
      /\ \A k \in 1 .. Len(headers) : sums[k] = sums[k - 1] + headers[k].count
  BY <1>3, <1>4 DEF SumsOf
<1>8. (\A k \in 0 .. Len(headers) : Cut(b, k) \in Nat) /\ Cut(b, 0) = 0
  BY <1>5, <1>7
<1>9. \A k \in 1 .. Len(headers) : Cut(b, k) = Cut(b, k - 1) + headers[k].count
  BY <1>5, <1>7
<1>10. \A j, k \in 0 .. Len(headers) : j <= k => Cut(b, j) <= Cut(b, k)
  BY <1>3, <1>5, <1>6
<1>11. QED
  BY <1>1, <1>8, <1>9, <1>10, Zenon

\* Batches that begin with the same headers are cut in the same places.
LEMMA SameCuts ==
  ASSUME NEW a \in Batches, NEW b \in Batches, NEW n \in Nat,
         n <= Len(a.headers), n <= Len(b.headers),
         \A k \in 1 .. n : a.headers[k] = b.headers[k]
  PROVE  \A k \in 0 .. n : Cut(a, k) = Cut(b, k)
<1>1. PICK p \in Seq(Header), q \in Seq(Header) : p = a.headers /\ q = b.headers
  BY DEF Batches
<1>2. PICK s \in Seq(Nat), t \in Seq(Nat) : s = Counts(p) /\ t = Counts(q)
  BY CountsAre
<1>3. /\ Len(s) = Len(p) /\ Len(t) = Len(q) /\ Len(p) \in Nat /\ Len(q) \in Nat
      /\ \A i \in 1 .. Len(p) : s[i] = p[i].count
      /\ \A i \in 1 .. Len(q) : t[i] = q[i].count
  BY <1>2, CountsAre
<1>4. n <= Len(p) /\ n <= Len(q) /\ \A k \in 1 .. n : p[k] = q[k]
  BY <1>1
<1>5. ASSUME NEW k \in 1 .. n PROVE s[k] = t[k]
  <2>1. k \in 1 .. Len(p) /\ k \in 1 .. Len(q)
    BY <1>3, <1>4
  <2>2. s[k] = p[k].count /\ t[k] = q[k].count /\ p[k] = q[k]
    BY <1>3, <1>4, <2>1
  <2>3. QED
    BY <2>2
<1>6. n <= Len(s) /\ n <= Len(t)
  BY <1>3, <1>4
<1>7. \A k \in 0 .. n : PartialSums(s)[k] = PartialSums(t)[k]
  BY <1>5, <1>6, PrefixSums
<1>8. QED
  BY <1>1, <1>2, <1>7 DEF Cut

\* The data of a batch shrinks with its headers.
LEMMA DataLenIs ==
  ASSUME NEW headers \in Seq(Header)
  PROVE  /\ BatchBytes(headers) \in Nat
         /\ headers = <<>> => BatchBytes(headers) = 1
         /\ \A h \in Header : BatchBytes(Append(headers, h)) = BatchBytes(headers) + 2 + h.size
         /\ \A n \in 0 .. Len(headers) : BatchBytes(SubSeq(headers, 1, n)) <= BatchBytes(headers)
<1>1. PICK s \in Seq(Nat) : s = Framed(headers)
  BY CountsAre
<1>2. /\ Len(s) = Len(headers) /\ Len(headers) \in Nat
      /\ \A i \in 1 .. Len(headers) : s[i] = 2 + headers[i].size
  BY <1>1, CountsAre
<1>3. SumsOf(s, PartialSums(s))
  BY PartialSumsAre
<1>4. PICK sums : sums = PartialSums(s) /\ sums \in [0 .. Len(headers) -> Nat] /\ sums[0] = 0
  BY <1>2, <1>3 DEF SumsOf
<1>5. BatchBytes(headers) = 1 + sums[Len(headers)] /\ sums[Len(headers)] \in Nat
  BY <1>1, <1>2, <1>4 DEF BatchBytes
<1>6. headers = <<>> => BatchBytes(headers) = 1
  BY <1>2, <1>4, <1>5
<1>7. ASSUME NEW h \in Header
      PROVE  BatchBytes(Append(headers, h)) = BatchBytes(headers) + 2 + h.size
  <2>1. PICK more \in Seq(Header) :
          /\ more = Append(headers, h) /\ Len(more) = Len(headers) + 1
          /\ more[Len(headers) + 1] = h
          /\ \A i \in 1 .. Len(headers) : more[i] = headers[i]
    <3>1. Append(headers, h) \in Seq(Header)
      OBVIOUS
    <3>2. /\ Len(Append(headers, h)) = Len(headers) + 1
          /\ Append(headers, h)[Len(headers) + 1] = h
          /\ \A i \in 1 .. Len(headers) : Append(headers, h)[i] = headers[i]
      OBVIOUS
    <3>3. PICK more : more = Append(headers, h)
      OBVIOUS
    <3>4. QED
      BY <3>1, <3>2, <3>3
  <2>2. PICK t \in Seq(Nat) : t = Framed(more)
    BY CountsAre
  <2>3. /\ Len(t) = Len(headers) + 1
        /\ \A i \in 1 .. Len(headers) + 1 : t[i] = 2 + more[i].size
    BY <2>1, <2>2, CountsAre
  <2>4. ASSUME NEW i \in 1 .. Len(headers) PROVE s[i] = t[i]
    <3>1. i \in 1 .. Len(headers) + 1
      BY <1>2
    <3>2. s[i] = 2 + headers[i].size /\ t[i] = 2 + more[i].size /\ more[i] = headers[i]
      BY <1>2, <2>1, <2>3, <3>1
    <3>3. QED
      BY <3>2
  <2>5. t[Len(headers) + 1] = 2 + h.size /\ h.size \in Nat
    <3>1. Len(headers) + 1 \in 1 .. Len(headers) + 1
      BY <1>2
    <3>2. t[Len(headers) + 1] = 2 + more[Len(headers) + 1].size
      BY <2>3, <3>1
    <3>3. h.size \in Nat
      BY DEF Header
    <3>4. QED
      BY <2>1, <3>2, <3>3
  <2>6. PICK sum : sum = PartialSums(t) /\ SumsOf(t, sum)
    BY PartialSumsAre
  <2>7. \A k \in 0 .. Len(headers) : sums[k] = sum[k]
    <3>1. Len(headers) <= Len(s) /\ Len(headers) <= Len(t)
      BY <1>2, <2>3
    <3>2. QED
      BY <1>2, <1>4, <2>4, <2>6, <3>1, PrefixSums
  <2>8. sum[Len(headers) + 1] = sums[Len(headers)] + (2 + h.size)
    <3>1. Len(headers) + 1 \in 1 .. Len(t) /\ (Len(headers) + 1) - 1 = Len(headers)
      BY <1>2, <2>3
    <3>2. sum[Len(headers) + 1] = sum[Len(headers)] + t[Len(headers) + 1]
      BY <2>6, <3>1 DEF SumsOf
    <3>3. sum[Len(headers)] = sums[Len(headers)]
      BY <1>2, <2>7
    <3>4. QED
      BY <2>5, <3>2, <3>3
  <2>9. BatchBytes(more) = 1 + sum[Len(headers) + 1]
    BY <2>1, <2>2, <2>6 DEF BatchBytes
  <2>10. BatchBytes(more) = 1 + (sums[Len(headers)] + (2 + h.size))
    BY <2>8, <2>9
  <2>11. 1 + (sums[Len(headers)] + (2 + h.size)) = (1 + sums[Len(headers)]) + 2 + h.size
    <3>1. PICK x \in Nat, y \in Nat : x = sums[Len(headers)] /\ y = h.size
      BY <1>5, <2>5
    <3>2. 1 + (x + (2 + y)) = (1 + x) + 2 + y
      OBVIOUS
    <3>3. QED
      BY <3>1, <3>2
  <2>12. QED
    BY <1>5, <2>1, <2>10, <2>11
<1>8. ASSUME NEW n \in 0 .. Len(headers)
      PROVE  BatchBytes(SubSeq(headers, 1, n)) <= BatchBytes(headers)
  <2>1. PICK less \in Seq(Header) :
          /\ less = SubSeq(headers, 1, n) /\ Len(less) = n
          /\ \A i \in 1 .. n : less[i] = headers[i]
    <3>1. SubSeq(headers, 1, n) \in Seq(Header)
      OBVIOUS
    <3>2. /\ Len(SubSeq(headers, 1, n)) = n
          /\ \A i \in 1 .. n : SubSeq(headers, 1, n)[i] = headers[i]
      OBVIOUS
    <3>3. PICK less : less = SubSeq(headers, 1, n)
      OBVIOUS
    <3>4. QED
      BY <3>1, <3>2, <3>3
  <2>2. PICK t \in Seq(Nat) : t = Framed(less)
    BY CountsAre
  <2>3. Len(t) = n /\ \A i \in 1 .. n : t[i] = 2 + less[i].size
    BY <2>1, <2>2, CountsAre
  <2>4. ASSUME NEW i \in 1 .. n PROVE s[i] = t[i]
    <3>1. i \in 1 .. Len(headers)
      BY <1>2
    <3>2. s[i] = 2 + headers[i].size /\ t[i] = 2 + less[i].size /\ less[i] = headers[i]
      BY <1>2, <2>1, <2>3, <3>1
    <3>3. QED
      BY <3>2
  <2>5. \A k \in 0 .. n : sums[k] = PartialSums(t)[k]
    <3>1. n <= Len(s) /\ n <= Len(t) /\ n \in Nat
      BY <1>2, <2>3
    <3>2. QED
      BY <1>4, <2>4, <3>1, PrefixSums
  <2>6. BatchBytes(less) = 1 + sums[n]
    BY <2>1, <2>2, <2>5 DEF BatchBytes
  <2>7. sums[n] <= sums[Len(headers)]
    <3>1. n \in 0 .. Len(s) /\ Len(headers) \in 0 .. Len(s) /\ n <= Len(headers)
      BY <1>2
    <3>2. QED
      BY <1>4, <3>1, SumsGrow
  <2>8. sums[n] \in Nat
    BY <1>4
  <2>9. QED
    BY <1>5, <2>1, <2>6, <2>7, <2>8
<1>9. QED
  BY <1>5, <1>6, <1>7, <1>8

LEMMA EmptyIsSound ==
  ASSUME BuildersAssumption
  PROVE  BatchSound(EmptyBatch)
<1>1. PICK b : b = EmptyBatch
  OBVIOUS
<1>2. b.metas = <<>> /\ b.headers = <<>> /\ b.instructions = 0 /\ b \in Batches
  BY <1>1 DEF EmptyBatch, Batches
<1>3. Len(b.metas) = 0 /\ Len(b.headers) = 0
  BY <1>2
<1>4. Cut(b, 0) = 0
  BY <1>2, CutsAre
<1>5. BatchBytes(b.headers) = 1
  <2>1. <<>> \in Seq(Header)
    OBVIOUS
  <2>2. QED
    BY <1>2, <2>1, DataLenIs
<1>6. DATA \in Nat \ {0} /\ ACCOUNTS \in Nat
  BY DEF BuildersAssumption
<1>7. DescribesAccounts(b)
  <2>1. 0 <= ACCOUNTS /\ 1 <= DATA
    BY <1>6
  <2>2. QED
    BY <1>2, <1>3, <1>4, <1>5, <2>1 DEF DescribesAccounts
<1>8. ApartInside(b)
  BY <1>3 DEF ApartInside
<1>9. QED
  BY <1>1, <1>2, <1>7, <1>8 DEF BatchSound

\* An inner instruction goes in whole, behind the last cut.
LEMMA EmittedIsSound ==
  ASSUME NEW b, BatchSound(b), NEW metas \in Seq(Meta), NEW size \in Nat, NEW new,
         Len(b.metas) + Len(metas) <= ACCOUNTS, BatchBytes(b.headers) + 2 + size <= DATA,
         NoDuplicateWritable(metas, ViewsOf(metas)),
         new.metas = b.metas \o metas,
         new.headers = Append(b.headers, [count |-> Len(metas), size |-> size]),
         new.instructions = b.instructions + 1,
         new \in Batches
  PROVE  /\ BatchSound(new)
         /\ Len(new.headers) = Len(b.headers) + 1
         /\ \A k \in 0 .. Len(b.headers) : Cut(new, k) = Cut(b, k)
<1>1. PICK header \in Header : header.count = Len(metas) /\ header.size = size
                                /\ new.headers = Append(b.headers, header)
  <2>1. PICK header : header = [count |-> Len(metas), size |-> size]
    OBVIOUS
  <2>2. header \in Header /\ header.count = Len(metas) /\ header.size = size
    BY <2>1 DEF Header
  <2>3. QED
    BY <2>1, <2>2
<1>2. b \in Batches /\ DescribesAccounts(b) /\ ApartInside(b)
  BY DEF BatchSound
<1>3. PICK headers \in Seq(Header), grown \in Seq(Header) :
        headers = b.headers /\ grown = new.headers
  BY <1>2 DEF Batches
<1>4. PICK n \in Nat : n = Len(headers)
  OBVIOUS
<1>5. /\ Len(grown) = n + 1 /\ grown[n + 1] = header
      /\ \A k \in 1 .. n : grown[k] = headers[k]
  BY <1>1, <1>3, <1>4
<1>6. \A k \in 0 .. n : Cut(new, k) = Cut(b, k)
  <2>1. n <= Len(headers) /\ n <= Len(grown)
    BY <1>4, <1>5
  <2>2. QED
    BY <1>2, <1>3, <1>5, <2>1, SameCuts
<1>7. PICK old \in Seq(Meta), all \in Seq(Meta) : old = b.metas /\ all = new.metas
  BY <1>2 DEF Batches
<1>8. PICK p \in Nat, q \in Nat : p = Len(old) /\ q = Len(metas)
  OBVIOUS
<1>9. /\ Len(all) = p + q
      /\ \A i \in 1 .. p : all[i] = old[i]
      /\ \A i \in 1 .. q : all[p + i] = metas[i]
  <2>1. all = old \o metas
    BY <1>7
  <2>2. /\ Len(old \o metas) = p + q
        /\ \A i \in 1 .. p : (old \o metas)[i] = old[i]
        /\ \A i \in 1 .. q : (old \o metas)[p + i] = metas[i]
    BY <1>8
  <2>3. QED
    BY <2>1, <2>2
<1>10. Cut(b, n) = p /\ b.instructions = n
  BY <1>2, <1>3, <1>4, <1>7, <1>8 DEF DescribesAccounts
<1>11. Cut(new, n + 1) = p + q
  <2>1. n + 1 \in 1 .. Len(grown) /\ (n + 1) - 1 = n /\ n \in 0 .. n
    BY <1>5
  <2>2. Cut(new, n + 1) = Cut(new, n) + header.count
    BY <1>3, <1>5, <2>1, CutsAre
  <2>3. Cut(new, n) = p
    BY <1>6, <1>10, <2>1
  <2>4. QED
    BY <1>1, <1>8, <2>2, <2>3
<1>12. DescribesAccounts(new)
  <2>1. BatchBytes(grown) = BatchBytes(headers) + 2 + size
    BY <1>1, <1>3, DataLenIs
  <2>2. new.instructions = n + 1
    BY <1>10
  <2>3. p + q <= ACCOUNTS /\ BatchBytes(headers) + 2 + size <= DATA
    BY <1>3, <1>7, <1>8
  <2>4. QED
    BY <1>3, <1>5, <1>7, <1>9, <1>11, <2>1, <2>2, <2>3 DEF DescribesAccounts
<1>13. ApartInside(new)
  <2>1. SUFFICES ASSUME NEW k \in 1 .. n + 1, NEW i \in 1 .. p + q, NEW j \in 1 .. p + q,
                        Cut(new, k - 1) < i, i < j, j <= Cut(new, k),
                        Alike(all[i], all[j])
                 PROVE  FALSE
    BY <1>3, <1>5, <1>7, <1>9 DEF ApartInside
  <2>2. CASE k = n + 1
    <3>1. Cut(new, k - 1) = p
      BY <1>6, <1>10, <2>2
    <3>2. PICK u \in 1 .. q, v \in 1 .. q : i = p + u /\ j = p + v /\ u < v
      <4>1. i - p \in 1 .. q /\ j - p \in 1 .. q /\ i = p + (i - p) /\ j = p + (j - p)
        BY <2>1, <3>1
      <4>2. i - p < j - p
        BY <2>1
      <4>3. QED
        BY <4>1, <4>2
    <3>3. Alike(metas[u], metas[v])
      BY <1>9, <2>1, <3>2
    <3>4. ViewsOf(metas)[u] # ViewsOf(metas)[v]
      <4>1. u \in DOMAIN metas /\ v \in DOMAIN metas /\ u < v
        BY <1>8, <3>2
      <4>2. metas[u].writable /\ metas[v].writable
        BY <3>3 DEF Alike
      <4>3. QED
        BY <4>1, <4>2, Zenon DEF NoDuplicateWritable
    <3>5. ViewsOf(metas)[u] = metas[u].cell /\ ViewsOf(metas)[v] = metas[v].cell
      BY <1>8, ViewsOfMetas
    <3>6. QED
      BY <3>3, <3>4, <3>5 DEF Alike
  <2>3. CASE k # n + 1
    <3>1. k \in 1 .. n /\ k \in 0 .. n /\ k - 1 \in 0 .. n
      BY <2>3
    <3>2. Cut(b, k - 1) < i /\ j <= Cut(b, k)
      BY <1>6, <2>1, <3>1
    <3>3. Cut(b, k) <= p /\ Cut(b, k) \in Nat
      <4>1. n \in 0 .. n /\ k <= n
        BY <3>1
      <4>2. Cut(b, k) <= Cut(b, n) /\ Cut(b, k) \in Nat
        BY <1>2, <1>3, <1>4, <3>1, <4>1, CutsAre
      <4>3. QED
        BY <1>10, <4>2
    <3>4. i \in 1 .. p /\ j \in 1 .. p
      BY <2>1, <3>2, <3>3
    <3>5. Alike(old[i], old[j])
      BY <1>9, <2>1, <3>4
    <3>6. QED
      BY <1>2, <1>3, <1>4, <1>7, <1>8, <2>1, <3>1, <3>2, <3>4, <3>5 DEF ApartInside
  <2>4. QED
    BY <2>2, <2>3
<1>14. QED
  BY <1>2, <1>3, <1>4, <1>5, <1>6, <1>12, <1>13 DEF BatchSound

\* Rolled back to a cut, a batch is the sound batch it was then.
LEMMA RolledBackIsSound ==
  ASSUME BuildersAssumption, NEW b, BatchSound(b), NEW mark, Marks(b, mark)
  PROVE  BatchSound(CutBack(b, mark))
<1>1. b \in Batches /\ DescribesAccounts(b) /\ ApartInside(b)
  BY DEF BatchSound
<1>2. PICK headers \in Seq(Header), metas \in Seq(Meta) : headers = b.headers /\ metas = b.metas
  BY <1>1 DEF Batches
<1>3. PICK n \in 0 .. Len(headers) :
        n = mark.headers /\ mark.accounts = Cut(b, n) /\ mark.instructions = n
  BY <1>2 DEF Marks
<1>4. n \in Nat /\ Len(headers) \in Nat /\ Len(metas) \in Nat
  OBVIOUS
<1>5. PICK p \in 0 .. Len(metas) : p = Cut(b, n)
  <2>1. Len(headers) \in 0 .. Len(headers) /\ n <= Len(headers)
    BY <1>4
  <2>2. Cut(b, n) \in Nat /\ Cut(b, n) <= Cut(b, Len(headers))
    BY <1>1, <1>2, <2>1, CutsAre
  <2>3. Cut(b, Len(headers)) = Len(metas)
    BY <1>1, <1>2 DEF DescribesAccounts
  <2>4. QED
    BY <1>4, <2>2, <2>3
<1>6. PICK fewer \in Seq(Header) :
        /\ fewer = SubSeq(headers, 1, n) /\ Len(fewer) = n
        /\ \A i \in 1 .. n : fewer[i] = headers[i]
  <2>1. SubSeq(headers, 1, n) \in Seq(Header)
    OBVIOUS
  <2>2. /\ Len(SubSeq(headers, 1, n)) = n
        /\ \A i \in 1 .. n : SubSeq(headers, 1, n)[i] = headers[i]
    OBVIOUS
  <2>3. PICK fewer : fewer = SubSeq(headers, 1, n)
    OBVIOUS
  <2>4. QED
    BY <2>1, <2>2, <2>3
<1>7. PICK kept \in Seq(Meta) :
        /\ kept = SubSeq(metas, 1, p) /\ Len(kept) = p
        /\ \A i \in 1 .. p : kept[i] = metas[i]
  <2>1. SubSeq(metas, 1, p) \in Seq(Meta)
    OBVIOUS
  <2>2. /\ Len(SubSeq(metas, 1, p)) = p
        /\ \A i \in 1 .. p : SubSeq(metas, 1, p)[i] = metas[i]
    OBVIOUS
  <2>3. PICK kept : kept = SubSeq(metas, 1, p)
    OBVIOUS
  <2>4. QED
    BY <2>1, <2>2, <2>3
<1>8. PICK new : new = CutBack(b, mark)
  OBVIOUS
<1>9. new.metas = kept /\ new.headers = fewer /\ new.instructions = n /\ new \in Batches
  <2>1. new = [metas |-> kept, headers |-> fewer, instructions |-> n]
    BY <1>2, <1>3, <1>5, <1>6, <1>7, <1>8 DEF CutBack
  <2>2. QED
    BY <1>4, <2>1 DEF Batches
<1>10. \A k \in 0 .. n : Cut(new, k) = Cut(b, k)
  <2>1. n <= Len(new.headers) /\ n <= Len(b.headers)
    BY <1>2, <1>4, <1>6, <1>9
  <2>2. \A k \in 1 .. n : new.headers[k] = b.headers[k]
    BY <1>2, <1>6, <1>9
  <2>3. new \in Batches /\ b \in Batches /\ n \in Nat
    BY <1>1, <1>4, <1>9
  <2>4. QED
    BY <2>1, <2>2, <2>3, SameCuts
<1>11. DescribesAccounts(new)
  <2>1. Cut(new, n) = p
    BY <1>4, <1>5, <1>10
  <2>2. p <= ACCOUNTS /\ BatchBytes(fewer) <= DATA
    <3>1. Len(metas) <= ACCOUNTS /\ BatchBytes(headers) <= DATA
      BY <1>1, <1>2 DEF DescribesAccounts
    <3>2. BatchBytes(fewer) <= BatchBytes(headers) /\ BatchBytes(fewer) \in Nat /\ BatchBytes(headers) \in Nat
      BY <1>6, DataLenIs
    <3>3. p <= Len(metas) /\ p \in Nat
      BY <1>4
    <3>4. ACCOUNTS \in Int /\ DATA \in Int
      BY DEF BuildersAssumption
    <3>5. QED
      BY <1>4, <3>1, <3>2, <3>3, <3>4
  <2>3. QED
    BY <1>6, <1>7, <1>9, <2>1, <2>2 DEF DescribesAccounts
<1>12. ApartInside(new)
  <2>1. SUFFICES ASSUME NEW k \in 1 .. n, NEW i \in 1 .. p, NEW j \in 1 .. p,
                        Cut(new, k - 1) < i, i < j, j <= Cut(new, k),
                        Alike(kept[i], kept[j])
                 PROVE  FALSE
    BY <1>6, <1>7, <1>9 DEF ApartInside
  <2>2. k \in 0 .. n /\ k - 1 \in 0 .. n /\ k \in 1 .. Len(headers)
    BY <1>4
  <2>3. i \in 1 .. Len(metas) /\ j \in 1 .. Len(metas)
    BY <1>4
  <2>4. Cut(b, k - 1) < i /\ j <= Cut(b, k) /\ Alike(metas[i], metas[j])
    BY <1>7, <1>10, <2>1, <2>2
  <2>5. QED
    BY <1>1, <1>2, <2>1, <2>2, <2>3, <2>4 DEF ApartInside
<1>13. QED
  BY <1>8, <1>9, <1>11, <1>12 DEF BatchSound

\* Every account of a sound batch belongs to an inner instruction.
LEMMA InnerIs ==
  ASSUME BatchSound(batch), NEW i \in 1 .. Len(batch.metas)
  PROVE  /\ Inner(i) \in 1 .. Len(batch.headers)
         /\ Cut(batch, Inner(i) - 1) < i /\ i <= Cut(batch, Inner(i))
<1>1. batch \in Batches /\ DescribesAccounts(batch)
  BY DEF BatchSound
<1>2. PICK n \in Nat, p \in Nat : n = Len(batch.headers) /\ p = Len(batch.metas)
  <2>1. batch.headers \in Seq(Header) /\ batch.metas \in Seq(Meta)
    BY <1>1 DEF Batches
  <2>2. QED
    BY <2>1
<1>3. i \in 1 .. p
  BY <1>2
<1>4. PICK cut : cut = [k \in 0 .. n |-> Cut(batch, k)]
  OBVIOUS
<1>5. /\ \A k \in 0 .. n : cut[k] = Cut(batch, k) /\ cut[k] \in Nat
      /\ cut[0] = 0 /\ cut[n] = p
  <2>1. \A k \in 0 .. n : Cut(batch, k) \in Nat
    BY <1>1, <1>2, CutsAre
  <2>2. Cut(batch, 0) = 0 /\ Cut(batch, n) = p
    BY <1>1, <1>2, CutsAre DEF DescribesAccounts
  <2>3. 0 \in 0 .. n /\ n \in 0 .. n
    OBVIOUS
  <2>4. QED
    BY <1>4, <2>1, <2>2, <2>3
<1> DEFINE Beyond == {k \in 0 .. n : i <= cut[k]}
<1>6. Beyond # {} /\ Beyond \subseteq Nat
  BY <1>3, <1>5
<1>7. PICK k \in Beyond : \A y \in Beyond : k <= y
  <2> HIDE DEF Beyond
  <2>1. QED
    BY <1>6, LeastElement
<1>8. k \in 0 .. n /\ i <= cut[k] /\ k # 0
  BY <1>3, <1>5
<1>9. k - 1 \in 0 .. n /\ k - 1 \notin Beyond /\ k \in 1 .. n
  <2>1. k - 1 \in 0 .. n /\ k \in 1 .. n /\ ~(k <= k - 1)
    BY <1>8
  <2> HIDE DEF Beyond
  <2>2. QED
    BY <1>7, <2>1
<1>10. cut[k - 1] < i
  BY <1>3, <1>5, <1>9
<1>11. Cut(batch, k - 1) < i /\ i <= Cut(batch, k)
  BY <1>5, <1>8, <1>9, <1>10
<1>12. \A l : Counted(l) = Cut(batch, l)
  BY DEF Counted, Cut
<1>13. DOMAIN batch.headers = 1 .. n
  <2>1. batch.headers \in Seq(Header)
    BY <1>1 DEF Batches
  <2>2. QED
    BY <1>2, <2>1
<1>14. Inner(i) = CHOOSE l \in 1 .. n : Cut(batch, l - 1) < i /\ i <= Cut(batch, l)
  BY <1>12, <1>13, Zenon DEF Inner
<1> HIDE DEF Beyond
<1>15. PICK inner : inner = Inner(i)
  OBVIOUS
<1>16. inner \in 1 .. n /\ Cut(batch, inner - 1) < i /\ i <= Cut(batch, inner)
  BY <1>9, <1>11, <1>14, <1>15, Zenon
<1>17. QED
  BY <1>2, <1>15, <1>16

\* A batch names an account it may write twice only across inner instructions.
LEMMA AliasesApart ==
  ASSUME BatchSound(batch),
         NEW i \in DOMAIN batch.metas, NEW j \in DOMAIN batch.metas,
         Repeats(batch.metas, i, j)
  PROVE  Inner(i) # Inner(j)
<1>1. ApartInside(batch) /\ batch \in Batches
  BY DEF BatchSound
<1>2. PICK p \in Nat : p = Len(batch.metas) /\ DOMAIN batch.metas = 1 .. p
  <2>1. batch.metas \in Seq(Meta)
    BY <1>1 DEF Batches
  <2>2. QED
    BY <2>1
<1>3. i \in 1 .. p /\ j \in 1 .. p
  BY <1>2
<1>4. SUFFICES ASSUME Inner(i) = Inner(j) PROVE FALSE
  OBVIOUS
<1>5. PICK k \in 1 .. Len(batch.headers) :
        /\ Cut(batch, k - 1) < i /\ i <= Cut(batch, k)
        /\ Cut(batch, k - 1) < j /\ j <= Cut(batch, k)
  BY <1>2, <1>3, <1>4, InnerIs
<1>6. Alike(batch.metas[i], batch.metas[j]) /\ Alike(batch.metas[j], batch.metas[i]) /\ i # j
  BY DEF Repeats, Alike
<1>7. i < j \/ j < i
  BY <1>3, <1>6
<1>8. QED
  BY <1>1, <1>2, <1>3, <1>5, <1>6, <1>7 DEF ApartInside

-----------------------------------------------------------------------------
(* The invariant of the calls *)

\* A callee under way was refused repeated writable accounts, or its tier
\* waives that, or it runs the batch as it stands.
Unaliased(tier, metas) ==
  tier \in {"borrow_checked", "builder", "batch"} \/ NoRepeats(metas)

Sent ==
  \/ Unaliased(callee.tier, callee.metas)
  \/ callee.tier = "token_batch" /\ checkpoint = NoPush /\ callee.metas = batch.metas

DynMerged == DynTyped /\ InfosMerged
BatchKept == BatchSound(batch) /\ (checkpoint = NoPush \/ Marks(batch, checkpoint))
CallKept == CalleeMayTouch /\ (NoCallee \/ Sent)

CallInv == DynMerged /\ BatchKept /\ CallKept

LEMMA CallSent ==
  ASSUME NEW tier, NEW metas \in Seq(Meta), NEW views, Lets(metas, views),
         Unaliased(tier, metas), Call(tier, metas, views)
  PROVE  CallKept'
<1>1. CalleeMayTouch' /\ callee'.tier = tier /\ callee'.metas = metas
  BY CalledMayTouch
<1>2. Sent'
  BY <1>1 DEF Sent, Unaliased, NoRepeats, Repeats
<1>3. QED
  BY <1>1, <1>2 DEF CallKept

LEMMA InvokeKeeps ==
  ASSUME CpiAssumption, Invoke
  PROVE  CallKept'
<1>1. Metas \subseteq Seq(Meta) /\ ViewLists \subseteq Seq(Cell)
  BY DEF CpiAssumption
<1>2. PICK metas \in Metas :
        \/ InvokeBuilder(metas) \/ InvokeBuilderDistinct(metas)
        \/ \E views \in ViewLists : InvokeBorrowChecked(metas, views)
        \/ \E views \in ViewLists, seeds \in BOOLEAN :
             \/ InvokeSigned(metas, views, seeds) \/ InvokeBounded(metas, views, seeds)
             \/ InvokeBatch(metas, views, seeds)
             \/ InvokeDeduped(metas, views, seeds, MAX_ACCOUNTS)
  BY DEF Invoke
<1>3. metas \in Seq(Meta)
  BY <1>1
<1>4. CASE InvokeBuilder(metas)
  <2>1. Unaliased("builder", metas) /\ Lets(metas, ViewsOf(metas))
    BY <1>3, <1>4, ByBuilder DEF InvokeBuilder, Unaliased
  <2>2. QED
    BY <1>3, <1>4, <2>1, CallSent DEF InvokeBuilder
<1>5. CASE InvokeBuilderDistinct(metas)
  <2>1. NoRepeats(metas)
    BY <1>3, <1>5, ViewsOfMetas, DistinctEitherWay DEF InvokeBuilderDistinct
  <2>2. Unaliased("builder_distinct", metas) /\ Lets(metas, ViewsOf(metas))
    BY <1>3, <1>5, <2>1, ByBuilder DEF InvokeBuilderDistinct, Unaliased
  <2>3. QED
    BY <1>3, <1>5, <2>2, CallSent DEF InvokeBuilderDistinct
<1>6. ASSUME NEW views \in ViewLists, InvokeBorrowChecked(metas, views)
      PROVE  CallKept'
  <2>1. Unaliased("borrow_checked", metas) /\ Lets(metas, views)
    BY <1>1, <1>3, <1>6, ByPosition DEF InvokeBorrowChecked, Unaliased
  <2>2. QED
    BY <1>3, <1>6, <2>1, CallSent DEF InvokeBorrowChecked
<1>7. ASSUME NEW views \in ViewLists, NEW seeds \in BOOLEAN,
             InvokeSigned(metas, views, seeds) \/ InvokeBounded(metas, views, seeds)
      PROVE  CallKept'
  <2>1. Default(metas, views, seeds) /\ Call("default", metas, views)
    BY <1>7 DEF InvokeSigned, InvokeBounded
  <2>2. BorrowChecked(metas, views) /\ NoDuplicateWritable(metas, views)
    BY <2>1 DEF Default, Covered
  <2>3. Lets(metas, views) /\ \A i \in DOMAIN metas : views[i] = metas[i].cell
    BY <1>1, <1>3, <2>2, ByPosition
  <2>4. NoRepeats(metas)
    BY <1>3, <2>2, <2>3, DistinctEitherWay
  <2>5. Unaliased("default", metas)
    BY <2>4 DEF Unaliased
  <2>6. QED
    BY <1>3, <2>1, <2>3, <2>5, CallSent
<1>8. ASSUME NEW views \in ViewLists, NEW seeds \in BOOLEAN, InvokeBatch(metas, views, seeds)
      PROVE  CallKept'
  <2>1. BorrowChecked(metas, views) /\ Call("batch", metas, views)
    BY <1>8 DEF InvokeBatch, Covered
  <2>2. Unaliased("batch", metas) /\ Lets(metas, views)
    BY <1>1, <1>3, <2>1, ByPosition DEF Unaliased
  <2>3. QED
    BY <1>3, <2>1, <2>2, CallSent
<1>9. ASSUME NEW views \in ViewLists, NEW seeds \in BOOLEAN,
             InvokeDeduped(metas, views, seeds, MAX_ACCOUNTS)
      PROVE  CallKept'
  <2>1. Deduped(metas, views, seeds) /\ Call("deduped", metas, views)
    BY <1>9 DEF InvokeDeduped
  <2>2. Lets(metas, views) /\ Unaliased("deduped", metas)
    BY <1>1, <1>3, <2>1, ByAddress DEF Unaliased
  <2>3. QED
    BY <1>3, <2>1, <2>2, CallSent
<1>10. QED
  BY <1>2, <1>4, <1>5, <1>6, <1>7, <1>8, <1>9

LEMMA InvokeDynKeeps ==
  ASSUME DynTyped, NEW seeds, InvokeDyn(seeds)
  PROVE  CallKept'
<1>1. pushed \in Seq(Meta) /\ InfoViews \in Seq(Cell)
  BY InfoViewsAre DEF DynTyped
<1>2. Deduped(pushed, InfoViews, seeds) /\ Call("deduped", pushed, InfoViews)
  BY DEF InvokeDyn, InvokeDeduped
<1>3. Lets(pushed, InfoViews) /\ Unaliased("deduped", pushed)
  BY <1>1, <1>2, ByAddress DEF Unaliased
<1>4. QED
  BY <1>1, <1>2, <1>3, CallSent

LEMMA InvokeTokenBatchKeeps ==
  ASSUME BatchSound(batch), NEW seeds, InvokeTokenBatch(seeds)
  PROVE  CallKept'
<1>1. PICK metas \in Seq(Meta) : metas = batch.metas
  BY DEF BatchSound, Batches
<1>2. /\ BorrowChecked(metas, ViewsOf(metas))
      /\ Call("token_batch", metas, ViewsOf(metas))
      /\ checkpoint = NoPush /\ UNCHANGED <<batch, checkpoint>>
  BY <1>1 DEF InvokeTokenBatch, Covered, builders
<1>3. Lets(metas, ViewsOf(metas))
  BY <1>2, ViewsOfMetas, ByPosition
<1>4. CalleeMayTouch' /\ callee'.tier = "token_batch" /\ callee'.metas = metas
  BY <1>2, <1>3, CalledMayTouch
<1>5. Sent'
  BY <1>1, <1>2, <1>4 DEF Sent, NoPush
<1>6. QED
  BY <1>4, <1>5 DEF CallKept

\* While a push is under way no batch runs, so a batch may change under a callee
\* that is not running it.
LEMMA CallStands ==
  ASSUME CallKept, UNCHANGED cpivars,
         \/ NoCallee \/ checkpoint # NoPush
         \/ UNCHANGED <<batch, checkpoint>>
  PROVE  CallKept'
<1>1. holding' = holding /\ delegable' = delegable /\ callee' = callee
  BY DEF cpivars, caller
<1>2. CalleeMayTouch'
  BY <1>1 DEF CallKept, CalleeMayTouch, NoCallee, Holders
<1>3. CASE NoCallee
  BY <1>1, <1>2, <1>3 DEF CallKept, NoCallee
<1>4. CASE ~NoCallee /\ checkpoint # NoPush
  <2>1. Unaliased(callee.tier, callee.metas)
    BY <1>4 DEF CallKept, Sent
  <2>2. Sent'
    BY <1>1, <2>1 DEF Sent, Unaliased, NoRepeats, Repeats
  <2>3. QED
    BY <1>2, <2>2 DEF CallKept
<1>5. CASE ~NoCallee /\ UNCHANGED <<batch, checkpoint>>
  <2>1. Sent'
    BY <1>1, <1>5 DEF CallKept, Sent, Unaliased, NoRepeats, Repeats
  <2>2. QED
    BY <1>2, <2>1 DEF CallKept
<1>6. QED
  BY <1>3, <1>4, <1>5

\* Nothing changes behind an idle caller's back.
LEMMA NothingRuns ==
  ASSUME NoCallee' PROVE CallKept'
BY DEF CallKept, CalleeMayTouch

LEMMA DynStands ==
  ASSUME DynMerged, UNCHANGED <<pushed, infos>>
  PROVE  DynMerged'
BY DEF DynMerged, DynTyped, InfosMerged, NamedBy, SomeWritable, SomeSigner

LEMMA BatchStands ==
  ASSUME BatchKept, UNCHANGED <<batch, checkpoint>>
  PROVE  BatchKept'
BY DEF BatchKept, NoPush

LEMMA BeginPushKeeps ==
  ASSUME BatchKept, BeginPush
  PROVE  BatchKept'
<1>1. batch \in Batches /\ DescribesAccounts(batch) /\ BatchSound(batch)
  BY DEF BatchKept, BatchSound
<1>2. Len(batch.headers) \in 0 .. Len(batch.headers)
  <2>1. batch.headers \in Seq(Header)
    BY <1>1 DEF Batches
  <2>2. QED
    BY <2>1
<1>3. PICK mark : mark = [accounts |-> Len(batch.metas), headers |-> Len(batch.headers),
                          instructions |-> batch.instructions]
  OBVIOUS
<1>4. checkpoint' = mark /\ batch' = batch
  BY <1>3 DEF BeginPush
<1>5. /\ mark.headers = Len(batch.headers) /\ mark.accounts = Len(batch.metas)
      /\ mark.instructions = batch.instructions
  BY <1>3
<1>6. Marks(batch, mark)
  BY <1>1, <1>2, <1>5 DEF Marks, DescribesAccounts
<1>7. QED
  BY <1>1, <1>4, <1>6 DEF BatchKept

LEMMA EmitKeeps ==
  ASSUME BuildersAssumption, BatchKept, NEW metas \in Seq(Meta), NEW size \in Nat,
         Emit(metas, size)
  PROVE  BatchKept'
<1>1. BatchSound(batch) /\ Marks(batch, checkpoint) /\ batch \in Batches
  BY DEF BatchKept, BatchSound, Emit
<1>2. PICK new : new = [metas |-> batch.metas \o metas,
                        headers |-> Append(batch.headers, [count |-> Len(metas), size |-> size]),
                        instructions |-> batch.instructions + 1]
  OBVIOUS
<1>3. batch' = new /\ checkpoint' = checkpoint
  BY <1>2 DEF Emit
<1>4. /\ new.metas = batch.metas \o metas
      /\ new.headers = Append(batch.headers, [count |-> Len(metas), size |-> size])
      /\ new.instructions = batch.instructions + 1
  BY <1>2
<1>5. new \in Batches
  <2>1. batch.metas \o metas \in Seq(Meta) /\ batch.instructions + 1 \in Nat
    BY <1>1 DEF Batches
  <2>2. Append(batch.headers, [count |-> Len(metas), size |-> size]) \in Seq(Header)
    <3>1. PICK header : header = [count |-> Len(metas), size |-> size]
      OBVIOUS
    <3>2. header \in Header
      BY <3>1 DEF Header
    <3>3. Append(batch.headers, header) \in Seq(Header)
      BY <1>1, <3>2 DEF Batches
    <3>4. QED
      BY <3>1, <3>3
  <2>3. QED
    BY <1>2, <2>1, <2>2 DEF Batches
<1>6. /\ Len(batch.metas) + Len(metas) <= ACCOUNTS
      /\ BatchBytes(batch.headers) + 2 + size <= DATA
      /\ NoDuplicateWritable(metas, ViewsOf(metas))
  BY DEF Emit, Fits, EmitsDistinct
<1>7. /\ BatchSound(new) /\ Len(new.headers) = Len(batch.headers) + 1
      /\ \A k \in 0 .. Len(batch.headers) : Cut(new, k) = Cut(batch, k)
  BY <1>1, <1>4, <1>5, <1>6, EmittedIsSound
<1>8. Marks(new, checkpoint)
  <2>1. PICK n \in Nat : n = Len(batch.headers) /\ Len(new.headers) = n + 1
    <3>1. batch.headers \in Seq(Header)
      BY <1>1 DEF Batches
    <3>2. QED
      BY <1>7, <3>1
  <2>2. checkpoint.headers \in 0 .. n /\ checkpoint.headers \in 0 .. n + 1
    BY <1>1, <2>1 DEF Marks
  <2>3. QED
    BY <1>1, <1>7, <2>1, <2>2 DEF Marks
<1>9. QED
  BY <1>3, <1>7, <1>8 DEF BatchKept

LEMMA EndPushKeeps ==
  ASSUME BuildersAssumption, BatchKept, NEW ok \in BOOLEAN, EndPush(ok)
  PROVE  BatchKept'
<1>1. BatchSound(batch) /\ Marks(batch, checkpoint)
  BY DEF BatchKept, EndPush
<1>2. checkpoint' = NoPush
  BY DEF EndPush
<1>3. batch' = batch \/ batch' = CutBack(batch, checkpoint)
  BY DEF EndPush
<1>4. BatchSound(batch')
  BY <1>1, <1>3, RolledBackIsSound
<1>5. QED
  BY <1>2, <1>4 DEF BatchKept, NoPush, BatchSound, Batches, DescribesAccounts, ApartInside, Cut,
     Alike

LEMMA CallStep ==
  ASSUME CpiAssumption, BuildersAssumption, CallInv, BNext
  PROVE  CallInv'
<1>1. DynMerged /\ BatchKept /\ CallKept /\ DynTyped /\ BatchSound(batch)
  BY DEF CallInv, DynMerged, BatchKept
<1>2. ASSUME NEW m \in Meta, PushAccount(m) PROVE CallInv'
  <2>1. DynMerged'
    BY <1>1, <1>2, PushKeeps DEF DynMerged
  <2>2. UNCHANGED <<batch, checkpoint>> /\ UNCHANGED cpivars
    BY <1>2 DEF PushAccount
  <2>3. QED
    BY <1>1, <2>1, <2>2, BatchStands, CallStands DEF CallInv
<1>3. CASE NewDyn
  <2>1. pushed' = <<>> /\ infos' = <<>> /\ UNCHANGED <<batch, checkpoint>> /\ UNCHANGED cpivars
    BY <1>3 DEF NewDyn
  <2>2. DynMerged'
    BY <2>1 DEF DynMerged, DynTyped, InfosMerged
  <2>3. QED
    BY <1>1, <2>1, <2>2, BatchStands, CallStands DEF CallInv
<1>4. ASSUME NEW seeds \in BOOLEAN, InvokeDyn(seeds) PROVE CallInv'
  <2>1. UNCHANGED <<pushed, infos>> /\ UNCHANGED <<batch, checkpoint>>
    BY <1>4 DEF InvokeDyn, builders
  <2>2. QED
    BY <1>1, <1>4, <2>1, InvokeDynKeeps, DynStands, BatchStands DEF CallInv
<1>5. ASSUME NEW seeds \in BOOLEAN, InvokeTokenBatch(seeds) PROVE CallInv'
  <2>1. UNCHANGED <<pushed, infos>> /\ UNCHANGED <<batch, checkpoint>>
    BY <1>5 DEF InvokeTokenBatch, builders
  <2>2. QED
    BY <1>1, <1>5, <2>1, InvokeTokenBatchKeeps, DynStands, BatchStands DEF CallInv
<1>6. CASE BeginPush
  <2>1. UNCHANGED <<pushed, infos>> /\ UNCHANGED cpivars /\ NoCallee
    BY <1>6 DEF BeginPush
  <2>2. QED
    BY <1>1, <1>6, <2>1, BeginPushKeeps, DynStands, CallStands DEF CallInv
<1>7. ASSUME NEW metas \in Metas, NEW size \in Sizes, Emit(metas, size) PROVE CallInv'
  <2>1. metas \in Seq(Meta) /\ size \in Nat
    BY DEF CpiAssumption, BuildersAssumption
  <2>2. UNCHANGED <<pushed, infos>> /\ UNCHANGED cpivars /\ checkpoint # NoPush
    BY <1>7 DEF Emit
  <2>3. QED
    BY <1>1, <1>7, <2>1, <2>2, EmitKeeps, DynStands, CallStands DEF CallInv
<1>8. ASSUME NEW ok \in BOOLEAN, EndPush(ok) PROVE CallInv'
  <2>1. UNCHANGED <<pushed, infos>> /\ UNCHANGED cpivars /\ checkpoint # NoPush
    BY <1>8 DEF EndPush
  <2>2. QED
    BY <1>1, <1>8, <2>1, EndPushKeeps, DynStands, CallStands DEF CallInv
<1>9. CASE NewBatch
  <2>1. /\ UNCHANGED <<pushed, infos>> /\ UNCHANGED cpivars /\ NoCallee
        /\ batch' = EmptyBatch /\ checkpoint' = NoPush
    BY <1>9 DEF NewBatch
  <2>2. BatchSound(batch')
    BY <2>1, EmptyIsSound
  <2>3. BatchKept'
    BY <2>1, <2>2 DEF BatchKept, NoPush, BatchSound, Batches, DescribesAccounts, ApartInside, Cut,
       Alike
  <2>4. QED
    BY <1>1, <2>1, <2>3, DynStands, CallStands DEF CallInv
<1>10. CASE Invoke /\ UNCHANGED builders
  <2>1. UNCHANGED <<pushed, infos>> /\ UNCHANGED <<batch, checkpoint>>
    BY <1>10 DEF builders
  <2>2. QED
    BY <1>1, <1>10, <2>1, InvokeKeeps, DynStands, BatchStands DEF CallInv
<1>11. CASE (CalleeReturns \/ Borrowing \/ ChangeGate) /\ UNCHANGED builders
  <2>1. UNCHANGED <<pushed, infos>> /\ UNCHANGED <<batch, checkpoint>>
    BY <1>11 DEF builders
  <2>2. NoCallee'
    BY <1>11 DEF CalleeReturns, Borrowing, ChangeGate, NoCallee, caller, NotRunning
  <2>3. QED
    BY <1>1, <2>1, <2>2, NothingRuns, DynStands, BatchStands DEF CallInv
<1>12. QED
  BY <1>2, <1>3, <1>4, <1>5, <1>6, <1>7, <1>8, <1>9, <1>10, <1>11 DEF BNext

\* In every state of a program that calls others, the infos of its DynCpi are
\* merged, its token batch is cut where its encoders did, and what a callee got
\* is what the tier of its call lets through.
THEOREM CallInvariant ==
  ASSUME CpiAssumption, BuildersAssumption
  PROVE  BSpec => []CallInv
<1>1. BInit => CallInv
  <2>1. SUFFICES ASSUME BInit PROVE CallInv
    OBVIOUS
  <2>2. NoCallee /\ checkpoint = NoPush /\ batch = EmptyBatch /\ pushed = <<>> /\ infos = <<>>
    BY <2>1 DEF BInit, CInit, NoCallee
  <2>3. DynMerged
    BY <2>2 DEF DynMerged, DynTyped, InfosMerged
  <2>4. BatchKept
    BY <2>2, EmptyIsSound DEF BatchKept
  <2>5. CallKept
    BY <2>2 DEF CallKept, CalleeMayTouch
  <2>6. QED
    BY <2>3, <2>4, <2>5 DEF CallInv
<1>2. CallInv /\ [BNext]_bvars => CallInv'
  <2>1. SUFFICES ASSUME CallInv, UNCHANGED bvars PROVE CallInv'
    BY CallStep
  <2>2. UNCHANGED <<pushed, infos>> /\ UNCHANGED <<batch, checkpoint>> /\ UNCHANGED cpivars
    BY <2>1 DEF bvars, builders
  <2>3. QED
    BY <2>1, <2>2, DynStands, BatchStands, CallStands DEF CallInv
<1>3. QED
  BY <1>1, <1>2, PTL DEF BSpec

\* No callee runs over an account its caller still looks into, whatever list and
\* whatever tier it was called with, and none may write an account the governing
\* gate does not let go (invoke_unchecked's contract).
THEOREM CalleesTouchFreeAccounts ==
  ASSUME CpiAssumption, BuildersAssumption
  PROVE  BSpec => []CalleeMayTouch
<1>1. CallInv => CalleeMayTouch
  BY DEF CallInv, CallKept
<1>2. QED
  BY <1>1, CallInvariant, PTL

\* A DynCpi is accepted exactly where the default tier would accept its metas,
\* however many were pushed, of whichever accounts and in whichever order
\* (validate_cpi_accounts_deduped).
THEOREM DynCpiIsStrict ==
  ASSUME CpiAssumption, BuildersAssumption
  PROVE  BSpec => []DedupAsStrict
<1>1. CallInv => DedupAsStrict
  BY MergedSuffices DEF CallInv, DynMerged
<1>2. QED
  BY <1>1, CallInvariant, PTL

\* Between pushes the headers of a token batch cut its account list where the
\* encoders did, however many inner instructions were emitted and however many
\* pushes failed half way (TokenBatch::push_multisig).
THEOREM BatchesAreDescribed ==
  ASSUME CpiAssumption, BuildersAssumption
  PROVE  BSpec => []HeadersDescribeAccounts
<1>1. CallInv => HeadersDescribeAccounts
  BY DEF CallInv, BatchKept, BatchSound, DescribesAccounts, Cut, Counted,
     HeadersDescribeAccounts
<1>2. QED
  BY <1>1, CallInvariant, PTL

\* A callee gets one account through two writable metas only from the tiers that
\* document it, and from a token batch only across its inner instructions.
THEOREM AliasesAreWaived ==
  ASSUME CpiAssumption, BuildersAssumption
  PROVE  BSpec => []AliasesOnlyWhereWaived
<1>1. CallInv => AliasesOnlyWhereWaived
  <2>1. SUFFICES ASSUME CallInv, ~NoCallee, NEW i \in DOMAIN callee.metas, NEW j \in DOMAIN callee.metas,
                        Repeats(callee.metas, i, j)
                 PROVE  \/ callee.tier \in {"borrow_checked", "builder", "batch"}
                        \/ callee.tier = "token_batch" /\ Inner(i) # Inner(j)
    BY DEF AliasesOnlyWhereWaived
  <2>2. Sent /\ BatchSound(batch)
    BY <2>1 DEF CallInv, CallKept, BatchKept
  <2>3. CASE Unaliased(callee.tier, callee.metas)
    BY <2>1, <2>3 DEF Unaliased, NoRepeats
  <2>4. CASE callee.tier = "token_batch" /\ callee.metas = batch.metas
    BY <2>1, <2>2, <2>4, AliasesApart
  <2>5. QED
    BY <2>2, <2>3, <2>4 DEF Sent
<1>2. QED
  BY <1>1, CallInvariant, PTL
=============================================================================
