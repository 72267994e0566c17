--------------------------- MODULE MCAccountMemory ---------------------------
(* One account with state and one wallet, which may be any party of a call. *)
EXTENDS AccountMemory, FiniteSetsExt, TLC

CONSTANTS state, wallet

Header(w, s, o, l, n) == [writable |-> w, signer |-> s, owner |-> o, lamports |-> l, len |-> n]

\* A wallet of the System program that signs, the same mapped read-only, and an
\* account of this program that does not sign; and a state account that the
\* transaction maps read-only.  Together they hold more than a balance can.
MCEntry ==
  {(state :> Header(TRUE, TRUE, PROGRAM, 2, 1)) @@ (wallet :> w) :
     w \in {Header(TRUE, TRUE, SYSTEM, 3, 0), Header(FALSE, TRUE, SYSTEM, 3, 0)}}
  \cup {(state :> Header(FALSE, FALSE, PROGRAM, 2, 1)) @@
         (wallet :> Header(TRUE, FALSE, PROGRAM, U64_MAX, 0))}

Body(range) == (state :> range) @@ (wallet :> {})

\* No gate (everything is granted); the first byte of the state account and its
\* own balance; the balances without the data.
MCGate ==
  {[lamports |-> {state, wallet}, body |-> [a \in Account |-> Offset]],
   [lamports |-> {state}, body |-> Body({0})],
   [lamports |-> {state, wallet}, body |-> Body({})]}

MCLaunchRent == [n \in Length |-> n + 1]
MCLiveRent == [n \in Length |-> IF n = 0 THEN 1 ELSE Min({n + 2, U64_MAX})]
==============================================================================
