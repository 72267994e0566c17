----------------------------- MODULE AccountGuards -----------------------------
(***************************************************************************)
(* What the account borrow layer promises: a Ref or RefMut guard is handed *)
(* out only when no live guard of the same account conflicts with it.      *)
(*                                                                         *)
(* Two cells are the same account when their Identity agrees.  On chain a  *)
(* duplicate account shares the cell of the original, so a cell is its own *)
(* identity; the host tier layers an address-keyed registry on top, so     *)
(* there the identity is the address.                                      *)
(***************************************************************************)
EXTENDS Naturals, FiniteSets

CONSTANTS
  Guard,       \* the guards a program may hold
  Cell,        \* RuntimeAccount headers
  Identity     \* [Cell -> what tells accounts apart]

VARIABLE holding   \* [Guard -> NoBorrow, or the borrow the guard keeps]

Access == {"shared", "mutable"}

NoBorrow == [none |-> TRUE]

BorrowOf(c, access) == [cell |-> c, access |-> access]

Borrow == {BorrowOf(c, access) : c \in Cell, access \in Access}

Holders == {g \in Guard : holding[g] # NoBorrow}

Compatible(b1, b2) ==
  Identity[b1.cell] = Identity[b2.cell] => b1.access = "shared" /\ b2.access = "shared"

Free(b) == \A h \in Holders : Compatible(holding[h], b)

AInit == holding = [g \in Guard |-> NoBorrow]

Grant(g, b) ==
  /\ holding[g] = NoBorrow
  /\ Free(b)
  /\ holding' = [holding EXCEPT ![g] = b]

Return(g) ==
  /\ holding[g] # NoBorrow
  /\ holding' = [holding EXCEPT ![g] = NoBorrow]

ANext ==
  \/ \E g \in Guard, b \in Borrow : Grant(g, b)
  \/ \E g \in Guard : Return(g)

ASpec == AInit /\ [][ANext]_holding

\* Two live guards of one account are both shared: the rule that makes the
\* references the guards dereference to legal Rust references.
Exclusive ==
  \A g, h \in Holders : g # h => Compatible(holding[g], holding[h])
=============================================================================
