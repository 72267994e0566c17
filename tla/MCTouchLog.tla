----------------------------- MODULE MCTouchLog -----------------------------
(***************************************************************************)
(* A small instance of TouchLog: three records over an account of six      *)
(* bytes, with a second account that has no slot of its own.               *)
(***************************************************************************)
EXTENDS TouchLog, TLC

CONSTANTS vault, stray, mint

T(key, offset, size, kind) == [key |-> key, offset |-> offset, size |-> size, kind |-> kind]

\* Neighbours, gaps, a bridge, reads inside, beside and across writes, an
\* empty range, two ranges whose union does not fit u32, a far offset.
Touches ==
  {T(vault, 0, 1, "Write"), T(vault, 1, 1, "Write"), T(vault, 2, 3, "Write"),
   T(vault, 5, 1, "Write"), T(vault, 0, 2, "Read"), T(vault, 1, 4, "Read"),
   T(vault, 3, 0, "Read"), T(vault, 3, 1, "Read"), T(stray, 0, 1, "Read")}

ThreeSlots == <<mint, vault, stray>>
=============================================================================
