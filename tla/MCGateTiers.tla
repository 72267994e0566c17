----------------------------- MODULE MCGateTiers -----------------------------
(***************************************************************************)
(* Small instances of both tiers of the gate store: the on-chain tier of   *)
(* two slots (the variables of GateStore keep their names) and the host    *)
(* tier of three, compiled here without guards on the raw surfaces.  A      *)
(* build has one tier (`tier`), and keeps it.                              *)
(*                                                                         *)
(* Three addresses (c never belongs to a gate), seven-byte accounts, a     *)
(* strict policy with a selector column, a data-only policy over duplicate *)
(* metas, a lamports-only policy, and calls that overflow each capacity.   *)
(***************************************************************************)
EXTENDS GateStore

CONSTANTS a, b, c

MCAddress == {a, b, c}

Bytes(i, o, n) == [account_index |-> i, offset |-> o, size |-> n]

Undeclared  == [declared |-> FALSE, indices |-> {}]
Declared(S) == [declared |-> TRUE, indices |-> S]

\* Column of two one-byte cells at bytes 2 and 4 of account 0.
Column == [account_index |-> 0, base_offset |-> 2, stride |-> 2, cell_size |-> 1,
           count |-> 2, argument_index |-> 0]

Strict   == [allows |-> {Bytes(0, 0, 4), Bytes(1, 0, U32_MAX)}, parametric |-> <<Column>>,
             lamports |-> Declared({1})]
DataOnly == [allows |-> {Bytes(2, 0, 1)}, parametric |-> <<>>, lamports |-> Undeclared]
LampOnly == [allows |-> {}, parametric |-> <<>>, lamports |-> Declared({0, 2})]

MCCalls ==
  {[accounts |-> <<a, b>>,       policy |-> Strict,   args |-> <<1>>],
   [accounts |-> <<a, b>>,       policy |-> Strict,   args |-> <<>>],
   [accounts |-> <<a, b, a>>,    policy |-> DataOnly, args |-> <<>>],
   [accounts |-> <<b, a, a>>,    policy |-> LampOnly, args |-> <<>>],
   [accounts |-> <<a, b, a, b>>, policy |-> LampOnly, args |-> <<>>],
   [accounts |-> <<a>>,          policy |-> Strict,   args |-> <<0, 1>>]}

MCDataRequests == {<<0, 1>>, <<0, 2>>, <<2, 1>>, <<4, 1>>, <<0, 7>>}

\* Fewer calls for the deep host tier, where the order of drops matters; a
\* build without guards on the raw surfaces refuses the first.
HostCalls ==
  {[accounts |-> <<a, b>>,    policy |-> Strict,   args |-> <<0>>],
   [accounts |-> <<a, b, a>>, policy |-> LampOnly, args |-> <<>>],
   [accounts |-> <<b, a>>,    policy |-> LampOnly, args |-> <<>>]}

HostDataRequests == {<<0, 1>>}

VARIABLES
  tier,
  host_slots, host_issued, host_installed, host_top_token, host_top_idx, host_checker,
  host_guards, host_request, host_verdict

Host == INSTANCE GateStore WITH
  Calls <- HostCalls, DataRequests <- HostDataRequests,
  DEPTH <- 3, UNGUARDED <- TRUE, SBF <- FALSE, MaxIssued <- 4,
  slots <- host_slots, issued <- host_issued, installed <- host_installed,
  top_token <- host_top_token, top_idx <- host_top_idx, checker <- host_checker,
  guards <- host_guards, request <- host_request, verdict <- host_verdict

host == <<host_slots, host_issued, host_installed, host_top_token, host_top_idx, host_checker,
          host_guards, host_request, host_verdict>>

ASSUME HostAssumption == Host!GateStoreAssumption /\ Host!CallsAssumption

TInit == tier \in {"sbf", "host"} /\ Init /\ Host!Init

TNext ==
  \/ tier = "sbf" /\ Next /\ UNCHANGED <<tier, host>>
  \/ tier = "host" /\ Host!Next /\ UNCHANGED <<tier, vars>>

TSpec == TInit /\ [][TNext]_<<tier, vars, host>>

\* The host tier implements the promise too: every verdict is the newest
\* surviving gate's, and a policy this build would enforce by half is refused
\* (AMBIENT_GATE_UNGUARDED_BUILD).
HostImplementsPromise == Host!ImplementsPromise
=============================================================================
