----------------------------- MODULE WritePolicy -----------------------------
(***************************************************************************)
(* The declared write-set of one instruction (write_policy.rs): which      *)
(* bytes of which account index a handler may write, which indices may     *)
(* have their lamports changed, and the cell a run-time selector picks     *)
(* inside a declared column.                                               *)
(*                                                                         *)
(* A policy is a record                                                    *)
(*   allows     a set of [account_index, offset, size]                     *)
(*   parametric a sequence of [account_index, base_offset, stride,         *)
(*              cell_size, count, argument_index]; the order matters, the  *)
(*              first rule that applies decides                            *)
(*   lamports   [declared |-> BOOLEAN, indices |-> set of account indices] *)
(*                                                                         *)
(* Every end offset is computed in u64 by the code from u32 fields, and    *)
(* u32 * u32 + u32 + u32 fits u64, so natural numbers are exact here.      *)
(***************************************************************************)
EXTENDS Naturals, Sequences, FiniteSetsExt

CONSTANT U32_MAX   \* u32::MAX, the size a whole-account grant carries

ASSUME U32Assumption == U32_MAX \in Nat

-----------------------------------------------------------------------------
\* Intervals

Contains(range, offset, size) ==
  /\ offset >= range.offset
  /\ offset + size <= range.offset + range.size

EnvelopeEnd(rule) ==
  rule.base_offset + rule.stride * (IF rule.count = 0 THEN 0 ELSE rule.count - 1)
                   + rule.cell_size

EnvelopeOverlaps(rule, offset, size) ==
  /\ offset < EnvelopeEnd(rule)
  /\ offset + size > rule.base_offset

CellStart(rule, selected) == rule.base_offset + rule.stride * selected

CellEnd(rule, selected) == CellStart(rule, selected) + rule.cell_size

SelectedContains(rule, selected, offset, size) ==
  /\ selected < rule.count
  /\ offset >= CellStart(rule, selected)
  /\ offset + size <= CellEnd(rule, selected)

-----------------------------------------------------------------------------
\* The lamport dimension

LamportsDeclared(policy) == policy.lamports.declared

AllowsLamportMutation(policy, index) ==
  LamportsDeclared(policy) => index \in policy.lamports.indices

-----------------------------------------------------------------------------
\* The data dimension

RangesOf(policy, index) == {r \in policy.allows : r.account_index = index}

\* One declared range must contain the whole request; adjacent ranges are not
\* joined.
CheckWrite(policy, index, offset, size) ==
  \E r \in RangesOf(policy, index) : Contains(r, offset, size)

AllowsWholeAccountWrite(policy, index) == CheckWrite(policy, index, 0, U32_MAX)

AllowsAnyAccountWrite(policy, index) == RangesOf(policy, index) # {}

\* A writable CPI meta hands over both dimensions of one account index.
AllowsDelegation(policy, index) ==
  /\ LamportsDeclared(policy)
  /\ AllowsLamportMutation(policy, index)
  /\ AllowsWholeAccountWrite(policy, index)

\* The value of the selector a rule names, when the invocation bound it.
Selected(rule, args) == args[rule.argument_index + 1]

SelectorBound(rule, args) == rule.argument_index + 1 \in DOMAIN args

\* The rules whose column the request touches.
Governing(policy, index, offset, size) ==
  {k \in DOMAIN policy.parametric :
      /\ policy.parametric[k].account_index = index
      /\ EnvelopeOverlaps(policy.parametric[k], offset, size)}

\* The first rule the request touches decides alone; a request that touches no
\* column falls back to the static ranges.
CheckWriteWithArgs(policy, index, offset, size, args) ==
  LET governing == Governing(policy, index, offset, size)
      rule == policy.parametric[Min(governing)]
  IN  IF governing = {}
        THEN CheckWrite(policy, index, offset, size)
        ELSE /\ SelectorBound(rule, args)
             /\ SelectedContains(rule, Selected(rule, args), offset, size)
=============================================================================
