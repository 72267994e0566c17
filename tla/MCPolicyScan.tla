---------------------------- MODULE MCPolicyScan ----------------------------
(***************************************************************************)
(* Audits of one account of nine bytes: every pair of columns of a small   *)
(* family in either order, beside static ranges that surround, abut or     *)
(* miss them; selectors bound, unbound and out of the column.              *)
(***************************************************************************)
EXTENDS PolicyScan

Rule(base, stride, cell, count, argument) ==
  [account_index |-> 0, base_offset |-> base, stride |-> stride, cell_size |-> cell,
   count |-> count, argument_index |-> argument]

Columns ==
  {Rule(base, stride, cell, count, 0) :
     base \in {0, 2, 3}, stride \in {1, 2}, cell \in {1, 2}, count \in {0, 2}}
  \cup {Rule(2, 1, 0, 1, 0), Rule(4, 2, 1, 2, 1), [Rule(0, 1, 1, 9, 0) EXCEPT !.account_index = 1]}

Parametric == {<<>>} \cup {<<k>> : k \in Columns} \cup {<<k, l>> : k \in Columns, l \in Columns}

RangeOf(account, offset, size) ==
  [account_index |-> account, offset |-> offset, size |-> size]

Allows ==
  { {},
    {RangeOf(0, 0, U32_MAX)},
    {RangeOf(0, 0, 2), RangeOf(0, 2, 3)},
    {RangeOf(0, 1, 3), RangeOf(0, 0, 2), RangeOf(1, 0, U32_MAX)} }

MCPolicy ==
  {[allows |-> a, parametric |-> p, lamports |-> [declared |-> FALSE, indices |-> {}]] :
     a \in Allows, p \in Parametric}

MCArgs == {<<>>, <<0>>, <<1, 1>>, <<2, 0>>}
=============================================================================
