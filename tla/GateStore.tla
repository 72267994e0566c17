------------------------------ MODULE GateStore ------------------------------
(***************************************************************************)
(* The ambient write-gate store (write_policy.rs: GateStore, SbfGateState, *)
(* LamportGateGuard and the check_* funnels).                              *)
(*                                                                         *)
(* One tier is a fixed array of slots.  An install copies the addresses of *)
(* the instruction's accounts and the permission bits derived from the     *)
(* policy into the first free slot under a fresh token; a guard remembers  *)
(* the token and frees that slot when dropped; a check consults the slot   *)
(* of the highest live token through the cached top_token/top_idx.  Guards *)
(* may be dropped in any order, or leaked with mem::forget.                *)
(***************************************************************************)
EXTENDS WritePolicy, FiniteSets

CONSTANTS
  Address, Calls, DataRequests,          \* see AmbientGates
  DEPTH, CAPACITY, ARG_CAPACITY, U8_MAX,
  UNGUARDED,
  SBF,        \* the on-chain tier: checker callback, heap zeroed per invocation
  MaxIssued   \* bound: installs between two resets of the store

ASSUME GateStoreAssumption ==
  /\ DEPTH \in Nat \ {0}
  /\ CAPACITY \in Nat /\ ARG_CAPACITY \in Nat /\ U8_MAX \in Nat
  /\ UNGUARDED \in BOOLEAN /\ SBF \in BOOLEAN
  /\ MaxIssued \in Nat

NoPolicy == [none |-> TRUE]   \* GateSlot.policy is None

ASSUME CallsAssumption ==
  \A call \in Calls :
    call.accounts \in Seq(Address) /\ call.policy # NoPolicy

VARIABLES
  slots,      \* slot index -> GateSlot
  issued,     \* tokens issued so far; token 0 is the free-slot sentinel
  installed,  \* number of live gates
  top_token,  \* cached token of the governing gate, 0 when none
  top_idx,    \* its slot
  checker,    \* SbfGateState.checker is Some
  guards,     \* tokens held by the LamportGateGuards that are still alive
  request,    \* the last install or check asked for
  verdict     \* and its outcome

store == <<slots, issued, installed, top_token, top_idx, checker>>
vars  == <<store, guards, request, verdict>>

SlotIdx == 0 .. DEPTH - 1

\* The slots in use, and what each one stands for.
Live == {d \in SlotIdx : slots[d].token # 0}

GateAt(d) == [id       |-> slots[d].token,
              accounts |-> [k \in DOMAIN slots[d].entries |-> slots[d].entries[k].address],
              policy   |-> slots[d].policy,
              args     |-> slots[d].args]

Gates == {GateAt(d) : d \in Live}

Promise == INSTANCE AmbientGates WITH FRESH_VM <- SBF, gates <- Gates

Ok               == Promise!Ok
Refused(why)     == Promise!Refused(why)
Violation(index) == Promise!Violation(index)
Checks           == Promise!Checks

-----------------------------------------------------------------------------
FREE == [token |-> 0, entries |-> <<>>, policy |-> NoPolicy, args |-> <<>>]

Entry(policy, address, index) ==
  [address          |-> address,
   index            |-> index,
   allow_mutation   |-> AllowsLamportMutation(policy, index),
   allow_delegation |-> AllowsDelegation(policy, index),
   allow_transition |-> AllowsAnyAccountWrite(policy, index)]

EntriesOf(call) ==
  [k \in DOMAIN call.accounts |-> Entry(call.policy, call.accounts[k], k - 1)]

Gate(token, call) == [token |-> token, entries |-> EntriesOf(call),
                      policy |-> call.policy, args |-> call.args]

MutantUnfenced(call) ==
  IF Len(call.accounts) > CAPACITY        THEN "TooManyAccounts"
  ELSE IF Len(call.args) > ARG_CAPACITY   THEN "TooManyArguments"
  ELSE IF Live = SlotIdx                  THEN "NoFreeSlot"
  ELSE "None"

Refusal(call) ==
  IF UNGUARDED /\ Promise!DeclaresRanges(call.policy) THEN "UnguardedBuild"
  ELSE IF Len(call.accounts) > CAPACITY   THEN "TooManyAccounts"
  ELSE IF Len(call.args) > ARG_CAPACITY   THEN "TooManyArguments"
  ELSE IF Live = SlotIdx                  THEN "NoFreeSlot"
  ELSE "None"

-----------------------------------------------------------------------------
Init ==
  /\ slots = [d \in SlotIdx |-> FREE]
  /\ issued = 0 /\ installed = 0 /\ top_token = 0 /\ top_idx = 0
  /\ checker = FALSE
  /\ guards = {}
  /\ request = Promise!NoRequest /\ verdict = Ok

InstallRefused(call) ==
  /\ Refusal(call) # "None"
  /\ request' = <<"install", call>> /\ verdict' = Refused(Refusal(call))
  /\ UNCHANGED <<store, guards>>

\* Tokens count up from the zeroed store; the 2^64 wrap is out of reach.
FreshToken == issued + 1

InstallGate(call) ==
  /\ Refusal(call) = "None"
  /\ issued < MaxIssued
  /\ LET d     == Min(SlotIdx \ Live)
         token == FreshToken
     IN  /\ slots' = [slots EXCEPT ![d] = Gate(token, call)]
         /\ issued' = token
         /\ top_token' = token
         /\ top_idx' = d
         /\ guards' = guards \cup {token}
  /\ installed' = installed + 1
  /\ checker' = SBF
  /\ request' = <<"install", call>> /\ verdict' = Ok

MutantNoRescan(d) == [token |-> 0, idx |-> 0]

\* The slot left with the highest token after freeing slot d.
Rescan(d) ==
  LET left == Live \ {d}
  IN  IF left = {}
        THEN [token |-> 0, idx |-> 0]
        ELSE LET best == CHOOSE x \in left : \A y \in left : slots[y].token <= slots[x].token
             IN  [token |-> slots[best].token, idx |-> best]

CheckerLeft == checker /\ installed' # 0

Remove(token) ==
  LET d == CHOOSE x \in SlotIdx : slots[x].token = token
  IN  /\ slots' = [slots EXCEPT ![d] = FREE]
      /\ installed' = IF installed = 0 THEN 0 ELSE installed - 1
      /\ top_token' = IF token = top_token THEN Rescan(d).token ELSE top_token
      /\ top_idx' = IF token = top_token THEN Rescan(d).idx ELSE top_idx
      /\ checker' = CheckerLeft
      /\ UNCHANGED issued

MutantDropsTop(token) ==
  /\ token \in guards
  /\ guards' = guards \ {token}
  /\ Remove(top_token)
  /\ UNCHANGED <<request, verdict>>

\* LamportGateGuard::drop.  A guard never outlives its slot (GuardsOwnSlots),
\* but remove() is a no-op on a token no slot holds.
DropGuard(token) ==
  /\ token \in guards
  /\ guards' = guards \ {token}
  /\ IF \E d \in SlotIdx : slots[d].token = token
       THEN Remove(token)
       ELSE UNCHANGED store
  /\ UNCHANGED <<request, verdict>>

\* mem::forget: the guard is gone, its gate stays.
ForgetGuard(token) ==
  /\ token \in guards
  /\ guards' = guards \ {token}
  /\ UNCHANGED <<store, request, verdict>>

-----------------------------------------------------------------------------
EntryAllows(slot, entry, check) ==
  \/ check.kind = "Lamports"   /\ entry.allow_mutation
  \/ check.kind = "Transition" /\ entry.allow_transition
  \/ check.kind = "Delegation" /\ entry.allow_delegation
  \/ check.kind = "Data" /\ CheckWriteWithArgs(slot.policy, entry.index, check.offset,
                                               check.size, slot.args)

MutantFirstEntryOnly(slot, matching, check) ==
  matching # {} /\ EntryAllows(slot, slot.entries[Min(matching)], check)

\* Duplicate metas: any entry that carries the address may allow the request.
SomeEntryAllows(slot, matching, check) ==
  \E k \in matching : EntryAllows(slot, slot.entries[k], check)

StoreCheck(address, check) ==
  LET slot == slots[top_idx]
      matching == {k \in DOMAIN slot.entries : slot.entries[k].address = address}
  IN  IF installed = 0 \/ top_token = 0 THEN Ok
      ELSE IF slot.policy = NoPolicy THEN Violation(U8_MAX)
      ELSE IF check.kind \in Promise!LamportKinds /\ ~LamportsDeclared(slot.policy) THEN Ok
      ELSE IF SomeEntryAllows(slot, matching, check) THEN Ok
      ELSE Violation(IF matching = {} THEN U8_MAX ELSE slot.entries[Min(matching)].index)

AnyActive == IF SBF THEN checker ELSE installed # 0

TierCheck(address, check) ==
  IF SBF /\ ~checker THEN Ok ELSE StoreCheck(address, check)

\* check_lamport_mutation, check_data_mutation, check_account_transition and
\* check_lamport_delegation: the first three test for a gate before building
\* the request, the raw two are compiled out of an unguarded build.
Answer(address, check) ==
  IF UNGUARDED /\ check.kind \in Promise!RawKinds THEN Ok
  ELSE IF check.kind # "Delegation" /\ ~AnyActive THEN Ok
  ELSE TierCheck(address, check)

Check(address, check) ==
  /\ request' = <<"check", address, check>>
  /\ verdict' = Answer(address, check)
  /\ UNCHANGED <<store, guards>>

\* The next instruction or CPI level runs in a fresh VM whose heap is zero:
\* the all-zero store is the empty one, and no guard of the old VM survives.
NewInvocation ==
  /\ SBF
  /\ slots' = [d \in SlotIdx |-> FREE]
  /\ issued' = 0 /\ installed' = 0 /\ top_token' = 0 /\ top_idx' = 0
  /\ checker' = FALSE
  /\ guards' = {}
  /\ request' = Promise!NoRequest /\ verdict' = Ok

Next ==
  \/ \E call \in Calls : InstallRefused(call)
  \/ \E call \in Calls : InstallGate(call)
  \/ \E token \in guards : DropGuard(token)
  \/ \E token \in guards : ForgetGuard(token)
  \/ \E a \in Address, c \in Checks : Check(a, c)
  \/ NewInvocation

Spec == Init /\ [][Next]_vars

-----------------------------------------------------------------------------
(* Properties *)

Token == 0 .. MaxIssued

GateSlot == {FREE} \cup {Gate(token, call) : token \in 1 .. MaxIssued, call \in Calls}

\* Every variable keeps the shape the Rust types give it: a slot is FREE or holds
\* exactly what one install call put there.
TypeOK ==
  /\ slots \in [SlotIdx -> GateSlot]
  /\ issued \in Token /\ installed \in Nat
  /\ top_token \in Token /\ top_idx \in SlotIdx
  /\ checker \in BOOLEAN
  /\ guards \subseteq 1 .. MaxIssued

\* The cached count and the cached governing gate agree with the slot array
\* after any sequence of installs, leaks and drops in any order: the fast-outs
\* of check() and active_slot() never consult a freed or a shadowed gate.
CachesExact ==
  /\ installed = Cardinality(Live)
  /\ Live = {} => top_token = 0
  /\ Live # {} => /\ top_idx \in Live
                  /\ slots[top_idx].token = top_token
                  /\ \A d \in Live : slots[d].token <= top_token

\* Tokens are unique, and a guard that has not been dropped still has its gate:
\* dropping it can only free its own slot (LamportGateGuard, "without
\* disturbing, or resurrecting, other gates").
GuardsOwnSlots ==
  /\ \A d, e \in Live : slots[d].token = slots[e].token => d = e
  /\ \A token \in guards : \E d \in Live : slots[d].token = token

\* What check() and the guards look at is what the slots hold (GateStore).
StoreCoherent == CachesExact /\ GuardsOwnSlots

\* The evaluator callback of the on-chain tier is registered exactly while a
\* gate is installed: no guarded site skips a live gate.
CheckerTracksGates == SBF => (checker <=> Live # {})

\* A step frees the slot of a guard it drops and no other, and never rewrites
\* an occupied slot: a gate is not evicted by an install, however full the tier.
FreedByOwner ==
  \A d \in Live :
    slots'[d] # slots[d] =>
      \/ slots'[d] = FREE /\ guards \ guards' = {slots[d].token}
      \/ SBF /\ slots' = [x \in SlotIdx |-> FREE] /\ guards' = {}

OnlyTheOwnerFrees == [][FreedByOwner]_vars

\* What the doc of try_install_lamport_gate says: nothing is installed unless the
\* policy declares its lamport dimension.  (An install without selector values is
\* exactly a call of that function.)
DataOnlyInstallsNothing ==
  \A d \in Live : slots[d].args = <<>> => LamportsDeclared(slots[d].policy)

\* The store implements the promise: every verdict is the one the most recently
\* installed surviving gate gives under its policy.  One without a lamport dimension
\* lets lamport arithmetic and delegation pass (see Decision in AmbientGates).
ImplementsPromise == Promise!ASpec
=============================================================================
