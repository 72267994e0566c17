----------------------------- MODULE MCGuardUsers -----------------------------
(***************************************************************************)
(* A small instance of what is built over the account guards, each in      *)
(* behaviours of its own (`build`): typed views of byte ranges, and calls. *)
(*                                                                         *)
(* Three guards, an account of four bytes and one of two.  For the views   *)
(* there are two registries, and the second account is not writable.  For  *)
(* the calls the loader maps either of two sets of flags.                  *)
(***************************************************************************)
EXTENDS SegmentAccess, CpiBuilders, TLC

CONSTANTS vault, config, r1, r2, g1, g2, g3

VARIABLE build

At(offset, size) == [offset |-> offset, size |-> size]

Same       == [c \in Cell |-> c]
Lengths    == (vault :> 4) @@ (config :> 2)
WritableOf == (vault :> TRUE) @@ (config :> FALSE)

\* Neighbours, an overlap, a range past the end of both accounts and of u32.
Ranges == {At(0, 1), At(1, 1), At(2, 1), At(1, 2), At(4, 2)}

\* Pairs that are apart, repeat a range or end outside, and triples of one byte
\* each, which fill the array after another guard's entry; the third may collide.
Pairs   == {<<At(0, 1), At(1, 2)>>, <<At(1, 2), At(1, 2)>>, <<At(1, 2), At(4, 2)>>}
Triples == {<<At(0, 1), At(1, 1), At(b, 1)>> : b \in {0, 2}}
Singles == {<<At(2, 1)>>, <<At(1, 2)>>}
Asked   == {<<>>} \cup Singles \cup Pairs \cup Triples

RawReads == {[key |-> vault, range |-> At(0, 1), kind |-> k] : k \in {"Read", "Write"}}

Flag(w, s) == [writable |-> w, signer |-> s]

\* Both writable, or only one; a signer of either kind.
Mapped == {(vault :> Flag(TRUE, TRUE)) @@ (config :> Flag(TRUE, FALSE)),
           (vault :> Flag(TRUE, FALSE)) @@ (config :> Flag(FALSE, TRUE))}

\* Without a gate, and under one that keeps config.
Verdicts == {{vault, config}, {vault}}

\* The vault without a signature, and config signing what it writes.
Named == {m \in Meta : IF m.cell = vault THEN ~m.signer ELSE m.writable => m.signer}

NamedLists == UNION {[1 .. n -> Named] : n \in 0 .. 2}

\* No view, too few, the wrong one, a view too many, and either order.
Given == {<<>>, <<vault>>, <<vault, config>>, <<config, vault>>, <<config, config>>,
          <<vault, config, vault>>}

ASSUME CallsAssumption == CpiAssumption /\ BuildersAssumption

GInit ==
  /\ build \in {"views", "calls"}
  /\ Init /\ BInit
  /\ build = "views" => entry[vault].signer /\ delegable = Cell

segments == <<ledger, lease, op, orphans>>
calls    == <<caller, callee, builders>>

\* Bound: a caller holds one borrow, as a callee meets them one by one.
OneBorrow == Cardinality(Holders') <= 1

GNext ==
  \/ build = "views" /\ Next /\ UNCHANGED <<build, calls>>
  \/ build = "calls" /\ BNext /\ OneBorrow /\ UNCHANGED <<build, segments>>

GSpec == GInit /\ [][GNext]_<<build, vars, calls>>

Symmetric == Permutations(Registry) \cup Permutations(Guard)
=============================================================================
