----------------------------- MODULE MCFootprint -----------------------------
(* A vault of four bytes and a mint of one.                                 *)
EXTENDS Footprint, TLC

CONSTANTS vault, mint

MCEntryLength == (vault :> 4) @@ (mint :> 1)

Allow(i, o, n) == [account_index |-> i, offset |-> o, size |-> n]
Undeclared  == [declared |-> FALSE, indices |-> {}]
Declared(S) == [declared |-> TRUE, indices |-> S]

\* Cells at bytes 1 and 3, padding at 2.
Cells == [account_index |-> 0, base_offset |-> 1, stride |-> 2, cell_size |-> 1,
          count |-> 2, argument_index |-> 0]

Ledger(l) == [allows |-> {Allow(0, 0, 4)}, parametric |-> <<Cells>>, lamports |-> l]
Fields    == [allows |-> {Allow(0, 0, 1), Allow(0, 1, 1), Allow(1, 0, U32_MAX)},
              parametric |-> <<>>, lamports |-> Declared({1})]
Shared    == [allows |-> {Allow(0, 0, 1), Allow(0, 1, 1), Allow(1, 2, 1)},
              parametric |-> <<>>, lamports |-> Declared({1})]

Invoke(list, s, p, v) == [accounts |-> list, strict |-> s, policy |-> p, args |-> v]

\* The selected cell is byte 3, or, with a lamport dimension, byte 1; a selector
\* out of range; field ranges that touch, on the vault alone and at both of its
\* positions; and no strict_writes.
MCInvocations ==
  {Invoke(<<vault>>, TRUE, Ledger(Undeclared), <<1>>),
   Invoke(<<vault>>, TRUE, Ledger(Declared({0})), <<0>>),
   Invoke(<<vault>>, TRUE, Ledger(Undeclared), <<2>>),
   Invoke(<<vault, vault>>, TRUE, Shared, <<>>),
   Invoke(<<vault, mint>>, TRUE, Fields, <<>>),
   Invoke(<<mint>>, FALSE, Fields, <<>>)}

MCSegment == {<<0, 1>>, <<1, 1>>, <<2, 1>>}
==============================================================================
