--------------------------------- MODULE Cpi ---------------------------------
(***************************************************************************)
(* Cross-program invocation: what each tier asks of the accounts before it *)
(* hands them to a callee, while the handler takes and drops data borrows  *)
(* and the ambient gate comes and goes.                                    *)
(*                                                                         *)
(* A meta names an account and the privileges the callee gets over it; a   *)
(* view is the caller's handle on an account.  Views and metas are lists   *)
(* of their own: the runtime joins them by address.  An address is a cell, *)
(* since on chain a duplicate account shares the header of the original.   *)
(* A borrow is what AccountGuards promises.  The gate gives one verdict    *)
(* per account on handing it off (both dimensions, WritePolicy); without a *)
(* gate all may be.  A refused call changes nothing and is no step; the    *)
(* syscall is synchronous, so the handler stands still while the callee    *)
(* runs.  The runtime's own privilege check comes after all of this.       *)
(***************************************************************************)
EXTENDS AccountGuards, Sequences

CONSTANTS
  Flags,           \* what the loader may map: [Cell -> [writable, signer]]
  Gates,           \* verdicts of a gate: the accounts it lets hand off, all without one
  Metas, ViewLists, \* the lists a program names: sequences of Meta, of Cell
  MAX_ACCOUNTS     \* views the bounded tiers take

Meta == [cell : Cell, writable : BOOLEAN, signer : BOOLEAN]

CpiAssumption ==
  /\ Identity \in [Cell -> Cell] /\ \A c \in Cell : Identity[c] = c
  /\ Flags \subseteq [Cell -> [writable : BOOLEAN, signer : BOOLEAN]]
  /\ Gates \subseteq SUBSET Cell
  /\ Metas \subseteq Seq(Meta) /\ ViewLists \subseteq Seq(Cell) /\ MAX_ACCOUNTS \in Nat

VARIABLES
  entry,       \* the flags the loader mapped
  delegable,   \* the accounts the governing gate lets hand off
  callee       \* what the callee under way was given

caller == <<entry, delegable>>
cpivars == <<holding, caller, callee>>

NotRunning == [tier |-> "none"]
Running(tier, metas, views) ==
  [tier |-> tier, metas |-> metas, infos |-> {views[i] : i \in DOMAIN views}]

NoCallee == callee = NotRunning

-----------------------------------------------------------------------------
(* The checks *)

CheckBorrow(c)    == Free(BorrowOf(c, "shared"))
CheckBorrowMut(c) == Free(BorrowOf(c, "mutable"))

Borrowable(m, c) == IF m.writable THEN CheckBorrowMut(c) ELSE CheckBorrow(c)

\* Signer seeds stand for any signer; the runtime derives what they sign for.
Privileged(m, c, seeds) ==
  /\ m.signer => entry[c].signer \/ seeds
  /\ m.writable => entry[c].writable

MutantAnyOrder(metas, views) == Len(views) >= Len(metas)

\* The view at a meta's place is the account the meta names.
Corresponds(metas, views) ==
  /\ Len(views) >= Len(metas)
  /\ \A i \in DOMAIN metas : views[i] = metas[i].cell

\* check_lamport_delegation of the view at every writable meta's place.
MayHandOff(metas, views) ==
  \A i \in DOMAIN metas : metas[i].writable => views[i] \in delegable

\* validate_no_duplicate_writable
NoDuplicateWritable(metas, views) ==
  \A i, j \in DOMAIN metas :
    i < j /\ metas[i].writable /\ metas[j].writable => views[i] # views[j]

-----------------------------------------------------------------------------
(* The tiers *)

BorrowChecked(metas, views) ==
  /\ Corresponds(metas, views)
  /\ \A i \in DOMAIN metas : Borrowable(metas[i], views[i])
  /\ MayHandOff(metas, views)

\* The default tier but for its refusal of repeated writable accounts.
Covered(metas, views, seeds) ==
  /\ BorrowChecked(metas, views)
  /\ \A i \in DOMAIN metas : Privileged(metas[i], views[i], seeds)

Default(metas, views, seeds) ==
  Covered(metas, views, seeds) /\ NoDuplicateWritable(metas, views)

\* A builder of the framework takes each meta from the view at its place.
Builder(metas, views) ==
  /\ \A i \in DOMAIN metas : Borrowable(metas[i], views[i])
  /\ MayHandOff(metas, views)

ViewsOf(metas) == [i \in DOMAIN metas |-> metas[i].cell]

\* find_info: the first info with the meta's address, if there is one.
Infos(m, infos) == {k \in DOMAIN infos : infos[k] = m.cell}
FindInfo(m, infos) == infos[CHOOSE k \in Infos(m, infos) : \A j \in Infos(m, infos) : k <= j]

\* validate_cpi_accounts_deduped: infos in any order, one per account.
Deduped(metas, infos, seeds) ==
  /\ \A i \in DOMAIN metas : Infos(metas[i], infos) # {}
  /\ LET views == [i \in DOMAIN metas |-> FindInfo(metas[i], infos)]
     IN  /\ NoDuplicateWritable(metas, ViewsOf(metas))
         /\ \A i \in DOMAIN metas : /\ Privileged(metas[i], views[i], seeds)
                                    /\ Borrowable(metas[i], views[i])
         /\ MayHandOff(metas, views)

Call(tier, metas, views) ==
  NoCallee /\ callee' = Running(tier, metas, views) /\ UNCHANGED <<holding, caller>>

\* invoke_signed and, with a bound, invoke_signed_with_bounds
InvokeSigned(metas, views, seeds) ==
  Default(metas, views, seeds) /\ Call("default", metas, views)

InvokeBounded(metas, views, seeds) ==
  /\ Len(views) <= MAX_ACCOUNTS /\ Default(metas, views, seeds)
  /\ Call("default", metas, views)

\* invoke_signed_batch_with_bounds
InvokeBatch(metas, views, seeds) ==
  /\ Len(views) <= MAX_ACCOUNTS /\ Covered(metas, views, seeds)
  /\ Call("batch", metas, views)

InvokeBorrowChecked(metas, views) ==
  BorrowChecked(metas, views) /\ Call("borrow_checked", metas, views)

InvokeBuilder(metas) ==
  Builder(metas, ViewsOf(metas)) /\ Call("builder", metas, ViewsOf(metas))

\* invoke_signed_builder_distinct
InvokeBuilderDistinct(metas) ==
  /\ NoDuplicateWritable(metas, ViewsOf(metas)) /\ Builder(metas, ViewsOf(metas))
  /\ Call("builder_distinct", metas, ViewsOf(metas))

InvokeDeduped(metas, infos, seeds, max_infos) ==
  /\ Len(infos) <= max_infos /\ Deduped(metas, infos, seeds)
  /\ Call("deduped", metas, infos)

CalleeReturns ==
  ~NoCallee /\ callee' = NotRunning /\ UNCHANGED <<holding, caller>>

-----------------------------------------------------------------------------
(* What the handler does between calls *)

Borrowing ==
  /\ NoCallee /\ ANext /\ UNCHANGED <<caller, callee>>

\* A gate is installed, dropped or gives way to the one below it.
ChangeGate ==
  /\ NoCallee /\ delegable' \in Gates
  /\ UNCHANGED <<holding, entry, callee>>

CInit ==
  AInit /\ entry \in Flags /\ delegable \in Gates /\ callee = NotRunning

Invoke ==
  \E metas \in Metas :
    \/ InvokeBuilder(metas) \/ InvokeBuilderDistinct(metas)
    \/ \E views \in ViewLists : InvokeBorrowChecked(metas, views)
    \/ \E views \in ViewLists, seeds \in BOOLEAN :
         \/ InvokeSigned(metas, views, seeds) \/ InvokeBounded(metas, views, seeds)
         \/ InvokeBatch(metas, views, seeds) \/ InvokeDeduped(metas, views, seeds, MAX_ACCOUNTS)

CNext == Invoke \/ CalleeReturns \/ Borrowing \/ ChangeGate

CSpec == CInit /\ [][CNext]_cpivars

-----------------------------------------------------------------------------
(* Properties *)

\* A callee never runs over an account the caller still looks into: none it
\* may write has a live borrow, none it may read a live mutable one, whatever
\* lists and tier the caller used (the contract of invoke_unchecked).  And what
\* it may write the governing gate lets go ("a writable CPI meta delegates
\* unbounded data and lamport mutation to the callee").  The runtime is given
\* every account the callee is to get.
CalleeMayTouch ==
  ~NoCallee => \A i \in DOMAIN callee.metas :
    LET m == callee.metas[i]
    IN  /\ \A h \in Holders : holding[h].cell = m.cell =>
             ~m.writable /\ holding[h].access = "shared"
        /\ m.writable => m.cell \in delegable
        /\ m.cell \in callee.infos

\* Two writable metas name one account.
Repeats(metas, i, j) ==
  i # j /\ metas[i].cell = metas[j].cell /\ metas[i].writable /\ metas[j].writable
=============================================================================
