---------------------------- MODULE AmbientGates ----------------------------
(***************************************************************************)
(* What the ambient write gate promises, without slots, tokens caches or   *)
(* precomputed permission bits: a set of installed gates, of which the     *)
(* most recently installed one that is still there governs every guarded   *)
(* operation.  GateStore implements this.                                  *)
(***************************************************************************)
EXTENDS WritePolicy, FiniteSets

CONSTANTS
  Address,          \* account addresses
  Calls,            \* install calls: [accounts, policy, args]
  DataRequests,     \* byte requests <<offset, size>> a raw write may make
  DEPTH,            \* gates the tier holds at once
  CAPACITY,         \* LAMPORT_GATE_CAPACITY
  ARG_CAPACITY,     \* AMBIENT_GATE_ARG_CAPACITY
  U8_MAX,           \* the index reported for an account foreign to the gate
  UNGUARDED,        \* the unguarded-raw-surfaces size opt-out
  FRESH_VM          \* whether the tier is re-zeroed for every invocation

VARIABLES
  gates,            \* installed gates: [id, accounts, policy, args]
  request,          \* the last install or check asked for
  verdict           \* and its outcome

avars == <<gates, request, verdict>>

-----------------------------------------------------------------------------
NoRequest == <<"none">>

Ok == [result |-> "Ok", index |-> 0]

Refused(why) == [result |-> why, index |-> 0]

\* Custom(0xD000 | index)
Violation(index) == [result |-> "Violation", index |-> index]

Whole(kind) == [kind |-> kind, offset |-> 0, size |-> 0]

Checks ==
  {Whole("Lamports"), Whole("Transition"), Whole("Delegation")}
    \cup {[kind |-> "Data", offset |-> r[1], size |-> r[2]] : r \in DataRequests}

LamportKinds == {"Lamports", "Delegation"}
RawKinds     == {"Data", "Transition"}

DeclaresRanges(policy) == policy.allows # {} \/ policy.parametric # <<>>

-----------------------------------------------------------------------------
\* Every reason for which an install must be refused.
Obstacles(call) ==
  {why \in {"UnguardedBuild", "TooManyAccounts", "TooManyArguments", "NoFreeSlot"} :
     \/ why = "UnguardedBuild"   /\ UNGUARDED /\ DeclaresRanges(call.policy)
     \/ why = "TooManyAccounts"  /\ Len(call.accounts) > CAPACITY
     \/ why = "TooManyArguments" /\ Len(call.args) > ARG_CAPACITY
     \/ why = "NoFreeSlot"       /\ Cardinality(gates) >= DEPTH}

Grants(gate, index, check) ==
  LET p == gate.policy
  IN  \/ check.kind = "Lamports" /\ AllowsLamportMutation(p, index)
      \/ check.kind = "Transition" /\ AllowsAnyAccountWrite(p, index)
      \/ check.kind = "Delegation" /\ AllowsDelegation(p, index)
      \/ check.kind = "Data" /\ CheckWriteWithArgs(p, index, check.offset,
                                                   check.size, gate.args)

\* What one gate decides about an address: the account is one account however
\* many times it is listed, so any of its positions may carry the permission.  A
\* policy without a lamport dimension governs neither lamport arithmetic nor writable
\* CPI delegation, of any account: so say DYNAMIC_TAILS.md:340 and the comment in
\* GateStore::check (write_policy.rs:1082-1091), and otherwise the doc of
\* try_install_ambient_gate_with_args (write_policy.rs:1524-1527).
Decision(gate, address, check) ==
  LET at == {k \in DOMAIN gate.accounts : gate.accounts[k] = address}
  IN  IF check.kind \in LamportKinds /\ ~LamportsDeclared(gate.policy) THEN Ok
      ELSE IF \E k \in at : Grants(gate, k - 1, check) THEN Ok
      ELSE Violation(IF at = {} THEN U8_MAX ELSE Min(at) - 1)

Newest == CHOOSE g \in gates : \A h \in gates : h.id <= g.id

Answer(address, check) ==
  IF gates = {} \/ (UNGUARDED /\ check.kind \in RawKinds)
    THEN Ok
    ELSE Decision(Newest, address, check)

-----------------------------------------------------------------------------
AInit == gates = {} /\ request = NoRequest /\ verdict = Ok

AInstall(call) ==
  /\ request' = <<"install", call>>
  /\ IF Obstacles(call) = {}
       THEN /\ \E g \in gates' :
                 /\ gates' = gates \cup {g}
                 /\ \A h \in gates : h.id < g.id
                 /\ g = [id |-> g.id, accounts |-> call.accounts,
                         policy |-> call.policy, args |-> call.args]
            /\ verdict' = Ok
       ELSE /\ verdict' \in {Refused(why) : why \in Obstacles(call)}
            /\ UNCHANGED gates

ADrop(g) == gates' = gates \ {g} /\ UNCHANGED <<request, verdict>>

ACheck(address, check) ==
  /\ request' = <<"check", address, check>>
  /\ verdict' = Answer(address, check)
  /\ UNCHANGED gates

ANewInvocation ==
  FRESH_VM /\ gates' = {} /\ request' = NoRequest /\ verdict' = Ok

ANext ==
  \/ \E call \in Calls : AInstall(call)
  \/ \E g \in gates : ADrop(g)
  \/ \E a \in Address, c \in Checks : ACheck(a, c)
  \/ ANewInvocation

ASpec == AInit /\ [][ANext]_avars
=============================================================================
