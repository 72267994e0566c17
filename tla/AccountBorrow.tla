---------------------------- MODULE AccountBorrow ----------------------------
(***************************************************************************)
(* Whole-account borrows: the borrow_state byte of every RuntimeAccount    *)
(* (hopper-native) under the address-keyed alias registry of the host tier *)
(* (hopper-runtime borrow_registry.rs, zero-sized on chain).               *)
(*                                                                         *)
(* AccountView::try_borrow takes a registry token, then the native borrow, *)
(* and gives the token back when the native borrow is refused; dropping a  *)
(* guard releases the byte, then the token.  The registry is one spinlocked*)
(* global on hosts without thread-local storage, so each of these is a step*)
(* of its own and the threads interleave between them.  A leaked guard is  *)
(* one that is never dropped.                                              *)
(***************************************************************************)
EXTENDS Naturals, FiniteSets, FiniteSetsExt

CONSTANTS
  Guard, Cell,
  Thread, ThreadOf,      \* [Cell -> Thread]: an AccountView is not Send
  Address, AddressOf,    \* [Cell -> Address]
  ZERO,                  \* Address::new([0; 32])
  SBF,                   \* the on-chain tier: one thread, no registry
  NOT_BORROWED,          \* the free value of the borrow byte (0xFF)
  CAPACITY, U16_MAX      \* registry entries; the width of shared_count

ASSUME AccountBorrowAssumption ==
  /\ IsFiniteSet(Guard)
  /\ ThreadOf \in [Cell -> Thread] /\ AddressOf \in [Cell -> Address]
  /\ ZERO \in Address
  /\ SBF \in BOOLEAN
  /\ NOT_BORROWED \in Nat /\ NOT_BORROWED > 1
  /\ CAPACITY \in Nat /\ U16_MAX \in Nat

VARIABLES
  borrow_state,  \* [Cell -> 0 .. NOT_BORROWED]; 0 is the exclusive sentinel
  entries,       \* [1 .. CAPACITY -> BorrowState]
  guards,        \* [Guard -> its borrow and how far it is]
  answer         \* what the last try_borrow or check_borrow returned

vars == <<borrow_state, entries, guards, answer>>

Access == {"shared", "mutable"}

\* A guard's life: unused; token taken, native borrow not yet tried; live;
\* native borrow given back (or refused), token still to be released.
Phase  == {"backend", "live", "token"}
Unused == [phase |-> "unused"]
At(phase, c, access) == [phase |-> phase, cell |-> c, access |-> access]

Used == {g \in Guard : guards[g] # Unused}
Busy(t) == \E g \in Used : ThreadOf[guards[g].cell] = t /\ guards[g].phase # "live"

Live == {g \in Used : guards[g].phase = "live"}

Identity == IF SBF THEN [c \in Cell |-> c] ELSE AddressOf

Promise == INSTANCE AccountGuards WITH
  holding <- [g \in Guard |-> IF g \in Live
                                THEN [cell |-> guards[g].cell, access |-> guards[g].access]
                                ELSE [none |-> TRUE]]

-----------------------------------------------------------------------------
(* The alias registry *)

EMPTY == [address |-> ZERO, shared_count |-> 0, mutable |-> FALSE]

Slot == 1 .. CAPACITY

InUse(state)   == state.mutable \/ state.shared_count # 0
Find(address)  == {i \in Slot : InUse(entries[i]) /\ entries[i].address = address}
FirstEmpty     == {i \in Slot : ~InUse(entries[i])}

MutantIgnoresReaders(state, access) == ~state.mutable

\* The entry of an address that is borrowed already.
EntryAllows(state, access) ==
  /\ ~state.mutable
  /\ access = "mutable" => state.shared_count = 0

CanRegister(address, access) ==
  IF Find(address) # {} THEN EntryAllows(entries[Min(Find(address))], access)
                        ELSE FirstEmpty # {}

EntryFor(address) == IF Find(address) # {} THEN Min(Find(address)) ELSE Min(FirstEmpty)

Added(state, address, access) ==
  [address      |-> IF InUse(state) THEN state.address ELSE address,
   shared_count |-> state.shared_count + (IF access = "shared" THEN 1 ELSE 0),
   mutable      |-> state.mutable \/ access = "mutable"]

Taken(state, access) ==
  [state EXCEPT !.shared_count = IF access = "shared" /\ @ # 0 THEN @ - 1 ELSE @,
                !.mutable      = IF access = "mutable" THEN FALSE ELSE @]

Registers(address, access) ==
  SBF \/ /\ CanRegister(address, access)
         /\ access = "shared" => entries[EntryFor(address)].shared_count < U16_MAX

Register(address, access) ==
  entries' = IF SBF THEN entries
             ELSE [entries EXCEPT ![EntryFor(address)] = Added(@, address, access)]

Release(address, access) ==
  entries' = IF SBF \/ Find(address) = {} THEN entries
             ELSE LET i    == Min(Find(address))
                      left == Taken(entries[i], access)
                  IN  [entries EXCEPT ![i] = IF InUse(left) THEN left ELSE EMPTY]

-----------------------------------------------------------------------------
(* The borrow byte *)

NativeAllows(c, access) ==
  IF access = "shared" THEN borrow_state[c] # 0 ELSE borrow_state[c] = NOT_BORROWED

\* The shared count stops one short of the sentinel it would wrap into.
NativeGrants(c, access) ==
  /\ NativeAllows(c, access)
  /\ access = "shared" => borrow_state[c] + 1 # NOT_BORROWED

Borrowed(state, access) ==
  IF access = "mutable" THEN 0 ELSE IF state = NOT_BORROWED THEN 1 ELSE state + 1

MutantLastReaderLeavesZero(state, access) ==
  IF access = "mutable" THEN NOT_BORROWED ELSE state - 1

Returned(state, access) ==
  IF access = "mutable" \/ state = 1 THEN NOT_BORROWED ELSE state - 1

-----------------------------------------------------------------------------
Answered(c, access, ok) == [cell |-> c, access |-> access, ok |-> ok]

Init ==
  /\ borrow_state = [c \in Cell |-> NOT_BORROWED]
  /\ entries = [i \in Slot |-> EMPTY]
  /\ guards = [g \in Guard |-> Unused]
  /\ answer = [none |-> TRUE]

\* BorrowToken::shared / BorrowToken::mutable.
TakeToken(g, c, access) ==
  /\ guards[g] = Unused /\ ~Busy(ThreadOf[c])
  /\ Registers(AddressOf[c], access)
  /\ Register(AddressOf[c], access)
  /\ guards' = [guards EXCEPT ![g] = At("backend", c, access)]
  /\ UNCHANGED <<borrow_state, answer>>

TokenRefused(c, access) ==
  /\ ~Busy(ThreadOf[c])
  /\ ~Registers(AddressOf[c], access)
  /\ answer' = Answered(c, access, FALSE)
  /\ UNCHANGED <<borrow_state, entries, guards>>

\* The native try_borrow / try_borrow_mut behind the token.
NativeBorrow(g) ==
  LET c == guards[g].cell  access == guards[g].access
  IN  /\ g \in Used /\ guards[g].phase = "backend"
      /\ NativeGrants(c, access)
      /\ borrow_state' = [borrow_state EXCEPT ![c] = Borrowed(@, access)]
      /\ guards' = [guards EXCEPT ![g].phase = "live"]
      /\ answer' = Answered(c, access, TRUE)
      /\ UNCHANGED entries

NativeRefused(g) ==
  LET c == guards[g].cell  access == guards[g].access
  IN  /\ g \in Used /\ guards[g].phase = "backend"
      /\ ~NativeGrants(c, access)
      /\ guards' = [guards EXCEPT ![g].phase = "token"]
      /\ answer' = Answered(c, access, FALSE)
      /\ UNCHANGED <<borrow_state, entries>>

\* Dropping a guard: first the native borrow ...
DropNative(g) ==
  LET c == guards[g].cell  access == guards[g].access
  IN  /\ g \in Live /\ ~Busy(ThreadOf[c])
      /\ borrow_state' = [borrow_state EXCEPT ![c] = Returned(@, access)]
      /\ guards' = [guards EXCEPT ![g].phase = "token"]
      /\ UNCHANGED <<entries, answer>>

\* ... then the token, also the one of a refused attempt.
DropToken(g) ==
  /\ g \in Used /\ guards[g].phase = "token"
  /\ Release(AddressOf[guards[g].cell], guards[g].access)
  /\ guards' = [guards EXCEPT ![g] = Unused]
  /\ UNCHANGED <<borrow_state, answer>>

\* check_borrow / check_borrow_mut: both layers asked, nothing taken.
Checks(c, access) == (SBF \/ CanRegister(AddressOf[c], access)) /\ NativeAllows(c, access)

CheckBorrow(c, access) ==
  /\ ~Busy(ThreadOf[c])
  /\ answer' = Answered(c, access, Checks(c, access))
  /\ UNCHANGED <<borrow_state, entries, guards>>

Next ==
  \/ \E c \in Cell, access \in Access :
       \/ \E g \in Guard : TakeToken(g, c, access)
       \/ TokenRefused(c, access)
       \/ CheckBorrow(c, access)
  \/ \E g \in Guard :
       NativeBorrow(g) \/ NativeRefused(g) \/ DropNative(g) \/ DropToken(g)

Spec == Init /\ [][Next]_vars

-----------------------------------------------------------------------------
(* Properties *)

BorrowState == [address : Address, shared_count : 0 .. U16_MAX, mutable : BOOLEAN]

TypeOK ==
  /\ borrow_state \in [Cell -> 0 .. NOT_BORROWED]
  /\ entries \in [Slot -> BorrowState]
  /\ guards \in [Guard -> {Unused} \cup [phase : Phase, cell : Cell, access : Access]]

LiveOn(c, access) == {g \in Live : guards[g].cell = c /\ guards[g].access = access}

\* The byte counts the live guards of its cell and never wraps into one of its
\* two sentinels: 0 means one RefMut, NOT_BORROWED means no guard at all.
ByteCountsGuards ==
  \A c \in Cell :
    borrow_state[c] = IF LiveOn(c, "mutable") # {} THEN 0
                      ELSE IF LiveOn(c, "shared") = {} THEN NOT_BORROWED
                      ELSE Cardinality(LiveOn(c, "shared"))

TokensOf(address, access) ==
  {g \in Used : AddressOf[guards[g].cell] = address /\ guards[g].access = access}

\* The registry holds one entry per address with a token outstanding and counts
\* exactly those tokens, whichever threads and cells took them: no rollback or
\* drop leaves an entry behind, and none takes an entry still in use.
RegistryCountsTokens ==
  ~SBF => \A address \in Address :
    /\ \A i, j \in Find(address) : i = j
    /\ Find(address) = {} => TokensOf(address, "shared") = {} /\ TokensOf(address, "mutable") = {}
    /\ \A i \in Find(address) :
         /\ entries[i].shared_count = Cardinality(TokensOf(address, "shared"))
         /\ entries[i].mutable <=> TokensOf(address, "mutable") # {}

\* Both layers count exactly, whatever was taken, refused, rolled back and dropped
\* in between (borrow_state, BorrowState).
CountsExact == ByteCountsGuards /\ RegistryCountsTokens

\* Two live guards of one account are both shared, through every pair of handles.
ExclusiveBorrows == Promise!Exclusive

\* Every grant is one the promise allows, every drop returns what it held.
ImplementsPromise == Promise!ASpec
=============================================================================
