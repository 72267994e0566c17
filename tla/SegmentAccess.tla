---------------------------- MODULE SegmentAccess ----------------------------
(***************************************************************************)
(* Typed byte-range views of account data: segment_ref, segment_mut and    *)
(* split_segments_mut of AccountView over a SegmentBorrowRegistry.         *)
(*                                                                         *)
(* An acquisition validates and registers its ranges one by one, then      *)
(* takes the account borrow that backs all its views (AccountGuards, which *)
(* AccountBorrow implements); whatever fails, the entries already          *)
(* registered are released again.  Dropping the guard gives the account    *)
(* borrow back, then releases each lease.  A step of `op` is one round of  *)
(* such a loop.  A guard holds the registry by &mut, so a registry serves  *)
(* one guard at a time, but a program may have many registries, keep raw   *)
(* entries in one (register without a lease), or forget a guard.           *)
(***************************************************************************)
EXTENDS AccountGuards, Sequences

CONSTANTS
  Registry,
  MAX_SEGMENT_BORROWS,
  DataLen,             \* [Cell -> Nat]
  Writable,            \* [Cell -> BOOLEAN]
  U32_MAX,
  Segment, Batch, Pod,   \* the ranges asked for, alone or in a batch; sizes of T
  RawEntry             \* what a program registers without a lease

ASSUME SegmentAccessAssumption ==
  /\ MAX_SEGMENT_BORROWS \in Nat /\ U32_MAX \in Nat
  /\ DataLen \in [Cell -> Nat] /\ Writable \in [Cell -> BOOLEAN]
  /\ Segment \subseteq [offset : 0 .. U32_MAX, size : 0 .. U32_MAX]
  /\ Batch \subseteq Seq(Segment)
  /\ RawEntry \subseteq [key : {Identity[c] : c \in Cell}, range : Segment, kind : {"Read", "Write"}]

VARIABLES
  ledger,    \* [Registry -> the entries of its array below len]
  lease,     \* [Guard -> the entries a live segment guard releases on drop]
  op,        \* the acquisition or the drop under way
  orphans    \* [Registry -> [Entry -> how many no guard will release]] (history)

vars == <<holding, ledger, lease, op, orphans>>

Kind == {"Read", "Write"}
Entry == [key : {Identity[c] : c \in Cell}, range : Segment, kind : Kind]

None == [e \in Entry |-> 0]

NoLease   == [state |-> "none"]
Forgotten == [state |-> "forgotten"]
Lease == {NoLease, Forgotten} \cup
           [state : {"live"}, registry : Registry, entries : Seq(Entry)]
Leased(r, entries) == [state |-> "live", registry |-> r, entries |-> entries]

Idle == [step |-> "idle"]
Register(r, g, c, access, size_of, ranges, done) ==
  [step |-> "register", registry |-> r, guard |-> g, cell |-> c, access |-> access,
   size_of |-> size_of, ranges |-> ranges, done |-> done]
Release(r, left) == [step |-> "release", registry |-> r, left |-> left]

-----------------------------------------------------------------------------
(* SegmentBorrowRegistry *)

EntryOf(c, range, access) ==
  [key |-> Identity[c], range |-> range, kind |-> IF access = "shared" THEN "Read" ELSE "Write"]

MutantSameStart(a, b) == a.offset = b.offset

Overlap(a, b) ==
  ~(a.offset + a.size <= b.offset \/ b.offset + b.size <= a.offset)

Conflict(a, b) ==
  a.key = b.key /\ Overlap(a.range, b.range) /\ ~(a.kind = "Read" /\ b.kind = "Read")

Registrable(entries, e) ==
  /\ Len(entries) < MAX_SEGMENT_BORROWS
  /\ \A i \in DOMAIN entries : ~Conflict(entries[i], e)

\* The last entry moves into the slot of the removed one.
SwapRemove(entries, i) ==
  [j \in 1 .. Len(entries) - 1 |-> IF j = i THEN entries[Len(entries)] ELSE entries[j]]

Exact(entries, e) == {i \in DOMAIN entries : entries[i] = e}
Count(entries, e) == Cardinality(Exact(entries, e))

First(S) == CHOOSE i \in S : \A j \in S : i <= j

Without(entries, e) ==
  IF Exact(entries, e) = {} THEN entries ELSE SwapRemove(entries, First(Exact(entries, e)))

-----------------------------------------------------------------------------
InBounds(c, range) ==
  /\ range.offset + range.size <= U32_MAX
  /\ range.offset + range.size <= DataLen[c]

\* A registry is out of reach while a guard borrows it.
Engaged(r) == \E g \in Guard : lease[g].state = "live" /\ lease[g].registry = r

AtRest(r) == op = Idle /\ ~Engaged(r)

Init ==
  /\ AInit
  /\ ledger = [r \in Registry |-> <<>>]
  /\ lease = [g \in Guard |-> NoLease]
  /\ op = Idle
  /\ orphans = [r \in Registry |-> None]

\* segment_ref, segment_mut (one range) and split_segments_mut (a batch, which
\* may be empty).  A read-only account refuses the mutable ones outright.
Begin(r, g, c, access, size_of, ranges) ==
  /\ AtRest(r) /\ holding[g] = NoBorrow
  /\ access = "shared" => Len(ranges) = 1
  /\ access = "mutable" => Writable[c]
  /\ op' = Register(r, g, c, access, size_of, ranges, <<>>)
  /\ UNCHANGED <<holding, ledger, lease, orphans>>

\* The next range of the loop, and whether it is taken.
Pending == op.step = "register" /\ Len(op.done) < Len(op.ranges)
NextRange == op.ranges[Len(op.done) + 1]
NextEntry == EntryOf(op.cell, NextRange, op.access)

Takes ==
  /\ NextRange.size = op.size_of /\ InBounds(op.cell, NextRange)
  /\ Registrable(ledger[op.registry], NextEntry)

RegisterRange ==
  /\ Pending /\ Takes
  /\ ledger' = [ledger EXCEPT ![op.registry] = Append(@, NextEntry)]
  /\ op' = [op EXCEPT !.done = Append(@, NextEntry)]
  /\ UNCHANGED <<holding, lease, orphans>>

MutantKeepsFirst(done) == IF done = <<>> THEN done ELSE Tail(done)

\* What a failed acquisition releases: every entry it registered.
RolledBack(done) == done

RefuseRange ==
  /\ Pending /\ ~Takes
  /\ op' = Release(op.registry, RolledBack(op.done))
  /\ UNCHANGED <<holding, ledger, lease, orphans>>

AllRegistered == op.step = "register" /\ Len(op.done) = Len(op.ranges)

MutantUnbacked(g, c, access) ==
  holding[g] = NoBorrow /\ holding' = [holding EXCEPT ![g] = BorrowOf(c, access)]

\* A ledger cannot exclude what other registries and whole-account borrows do:
\* the guard keeps a borrow of the account for as long as it lives.
Backed(g, c, access) == Grant(g, BorrowOf(c, access))

BorrowAccount ==
  /\ AllRegistered
  /\ Backed(op.guard, op.cell, op.access)
  /\ lease' = [lease EXCEPT ![op.guard] = Leased(op.registry, op.done)]
  /\ op' = Idle
  /\ UNCHANGED <<ledger, orphans>>

\* Refused for a conflict, or because the account layer has no room for
\* another reader: AccountBorrow says when, so here it always may be.
AccountRefused ==
  /\ AllRegistered
  /\ op' = Release(op.registry, RolledBack(op.done))
  /\ UNCHANGED <<holding, ledger, lease, orphans>>

ReleaseEntry ==
  /\ op.step = "release" /\ op.left # <<>>
  /\ ledger' = [ledger EXCEPT ![op.registry] = Without(@, Head(op.left))]
  /\ op' = [op EXCEPT !.left = Tail(@)]
  /\ UNCHANGED <<holding, lease, orphans>>

Released ==
  /\ op.step = "release" /\ op.left = <<>>
  /\ op' = Idle
  /\ UNCHANGED <<holding, ledger, lease, orphans>>

\* The account borrow is the first field of SegRef, SegRefMut and SegmentsMut.
DropSegment(g) ==
  /\ op = Idle /\ lease[g].state = "live"
  /\ Return(g)
  /\ lease' = [lease EXCEPT ![g] = NoLease]
  /\ op' = Release(lease[g].registry, lease[g].entries)
  /\ UNCHANGED <<ledger, orphans>>

\* mem::forget: the account stays borrowed, the entries stay registered.
ForgetSegment(g) ==
  /\ op = Idle /\ lease[g].state = "live"
  /\ lease' = [lease EXCEPT ![g] = Forgotten]
  /\ orphans' = [orphans EXCEPT ![lease[g].registry] =
                  [e \in Entry |-> @[e] + Count(lease[g].entries, e)]]
  /\ UNCHANGED <<holding, ledger, op>>

-----------------------------------------------------------------------------
(* What else a program does with the account and with the registry *)

BorrowWhole(g, c, access) ==
  /\ op = Idle
  /\ Grant(g, BorrowOf(c, access))
  /\ UNCHANGED <<ledger, lease, op, orphans>>

DropWhole(g) ==
  /\ op = Idle /\ lease[g] = NoLease
  /\ Return(g)
  /\ UNCHANGED <<ledger, lease, op, orphans>>

RegisterRaw(r, e) ==
  /\ AtRest(r)
  /\ Registrable(ledger[r], e)
  /\ ledger' = [ledger EXCEPT ![r] = Append(@, e)]
  /\ orphans' = [orphans EXCEPT ![r][e] = @ + 1]
  /\ UNCHANGED <<holding, lease, op>>

ReleaseRaw(r, e) ==
  /\ AtRest(r)
  /\ ledger' = [ledger EXCEPT ![r] = Without(@, e)]
  /\ orphans' = [orphans EXCEPT ![r][e] = IF @ = 0 THEN 0 ELSE @ - 1]
  /\ UNCHANGED <<holding, lease, op>>

Clear(r) ==
  /\ AtRest(r)
  /\ ledger' = [ledger EXCEPT ![r] = <<>>]
  /\ orphans' = [orphans EXCEPT ![r] = None]
  /\ UNCHANGED <<holding, lease, op>>

Acquire ==
  \E r \in Registry, g \in Guard, c \in Cell, access \in Access, size_of \in Pod :
    \E ranges \in Batch : Begin(r, g, c, access, size_of, ranges)

Next ==
  \/ Acquire
  \/ RegisterRange \/ RefuseRange
  \/ BorrowAccount \/ AccountRefused
  \/ ReleaseEntry \/ Released
  \/ \E g \in Guard : DropSegment(g) \/ ForgetSegment(g) \/ DropWhole(g)
  \/ \E g \in Guard, c \in Cell, access \in Access : BorrowWhole(g, c, access)
  \/ \E r \in Registry, e \in RawEntry : RegisterRaw(r, e) \/ ReleaseRaw(r, e)
  \/ \E r \in Registry : Clear(r)

Spec == Init /\ [][Next]_vars

-----------------------------------------------------------------------------
(* Properties *)

\* Every variable has its type, and no registry outgrows its array.
TypeOK ==
  /\ holding \in [Guard -> {NoBorrow} \cup Borrow]
  /\ ledger \in [Registry -> Seq(Entry)]
  /\ \A r \in Registry : Len(ledger[r]) <= MAX_SEGMENT_BORROWS
  /\ orphans \in [Registry -> [Entry -> Nat]]
  /\ lease \in [Guard -> Lease]
  /\ \/ op = Idle
     \/ op \in [step : {"register"}, registry : Registry, guard : Guard, cell : Cell,
                access : Access, size_of : Pod, ranges : Batch, done : Seq(Entry)]
     \/ op \in [step : {"release"}, registry : Registry, left : Seq(Entry)]

\* The bytes of the account two entries both cover.
Shared(a, b) ==
  IF a.key # b.key THEN {}
  ELSE {byte \in 0 .. 2 * U32_MAX :
          /\ a.range.offset <= byte /\ byte < a.range.offset + a.range.size
          /\ b.range.offset <= byte /\ byte < b.range.offset + b.range.size}

Harmless(a, b) == Shared(a, b) = {} \/ (a.kind = "Read" /\ b.kind = "Read")

\* No registry ever holds two entries of one account that share a byte unless
\* both read it: register refuses the second, and no rollback, drop or swap
\* brings such a pair back.
LedgerConflictFree ==
  \A r \in Registry : \A i, j \in DOMAIN ledger[r] :
    i # j => Harmless(ledger[r][i], ledger[r][j])

Views == {g \in Guard : lease[g].state = "live"}

\* Live views may share a byte of an account only if all of them read it, be
\* they of one split (where only the ledger tells them apart) or of guards
\* acquired through different registries (where only the account borrow does).
ViewsDisjoint ==
  \A g, h \in Views : \A i \in DOMAIN lease[g].entries, j \in DOMAIN lease[h].entries :
    <<g, i>> # <<h, j>> => Harmless(lease[g].entries[i], lease[h].entries[j])

\* The entries of registry r somebody answers for: a live guard, the operation
\* under way, or the program itself.
Owned(r, e) ==
  LET guard == {g \in Views : lease[g].registry = r}
      during == IF op = Idle \/ op.registry # r THEN <<>>
                ELSE IF op.step = "register" THEN op.done ELSE op.left
  IN  /\ Cardinality(guard) <= 1
      /\ Count(ledger[r], e) = orphans[r][e] + Count(during, e)
           + (IF guard = {} THEN 0 ELSE Count(lease[CHOOSE g \in guard : TRUE].entries, e))

\* The ledger is exactly the leases of the live guard, the entries of the
\* operation under way and the raw or forgotten ones: a refused acquisition
\* leaves nothing behind and a drop releases its own entries, no others.
LedgerExact == \A r \in Registry : \A e \in Entry : Owned(r, e)
=============================================================================
