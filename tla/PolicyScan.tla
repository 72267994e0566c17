----------------------------- MODULE PolicyScan -----------------------------
(***************************************************************************)
(* The audit of a recorded write touch (write_policy.rs,                   *)
(* first_unauthorized_byte_with_args): a scan over the record's bytes that *)
(* answers with the first one the instruction's policy does not authorize. *)
(* The gate (CheckWriteWithArgs) grants one acquire against one            *)
(* declaration; the touch log coalesces adjacent grants, so the audit has  *)
(* to walk the union of the declarations instead.                          *)
(*                                                                         *)
(* One step is one turn of the outer while loop.                           *)
(***************************************************************************)
EXTENDS WritePolicy

CONSTANTS Policy, Index, Offset, Size, Args   \* the audits considered

\* The fields of a policy and the bound arguments are u32s.
ASSUME PolicyScanAssumption ==
  /\ Offset \subseteq Nat /\ Size \subseteq Nat
  /\ \A args \in Args : args \in Seq(Nat)
  /\ \A policy \in Policy :
       /\ \A r \in policy.allows : r.offset \in 0 .. U32_MAX /\ r.size \in 0 .. U32_MAX
       /\ policy.parametric \in
            Seq([account_index : Index, base_offset : Nat, stride : Nat, cell_size : Nat,
                 count : Nat, argument_index : Nat])

VARIABLES
  request,   \* the record audited, and the invocation's policy and arguments
  cursor,    \* the first byte not yet decided
  answer

vars == <<request, cursor, answer>>

Request == [policy : Policy, index : Index, offset : Offset, size : Size, args : Args]

RequestEnd == request.offset + request.size

Lesser(a, b) == IF a < b THEN a ELSE b

RuleAt(k) == request.policy.parametric[k]

OwnRules == {k \in DOMAIN request.policy.parametric : RuleAt(k).account_index = request.index}

InEnvelope(k, b) == RuleAt(k).base_offset <= b /\ b < EnvelopeEnd(RuleAt(k))

RulesOver(b) == {k \in OwnRules : InEnvelope(k, b)}

GoverningRule == RuleAt(Min(RulesOver(cursor)))

-----------------------------------------------------------------------------

Init ==
  /\ request \in Request
  /\ cursor = request.offset
  /\ answer = "scanning"

Scanning == answer = "scanning" /\ cursor < RequestEnd

Governed == Scanning /\ RulesOver(cursor) # {}

InSelectedCell ==
  LET selected == Selected(GoverningRule, request.args)
  IN  /\ SelectorBound(GoverningRule, request.args)
      /\ selected < GoverningRule.count
      /\ CellStart(GoverningRule, selected) <= cursor
      /\ cursor < CellEnd(GoverningRule, selected)

PastCell ==
  Lesser(CellEnd(GoverningRule, Selected(GoverningRule, request.args)), RequestEnd)

PassCell ==
  /\ Governed /\ InSelectedCell
  /\ cursor' = PastCell
  /\ UNCHANGED <<request, answer>>

RefuseGoverned ==
  /\ Governed /\ ~InSelectedCell
  /\ answer' = "refused"
  /\ UNCHANGED <<request, cursor>>

RangesOver(b) ==
  {r \in RangesOf(request.policy, request.index) : r.offset <= b /\ b < r.offset + r.size}

MutantWholeRange(end) == end

MutantStopsWhereItStands(end) ==
  Min({end} \cup {s \in {RuleAt(k).base_offset : k \in OwnRules} : cursor <= s /\ s < end})

\* Up to the first column that begins inside the stretch: from there on its
\* rule decides, whatever static range surrounds it.
UpToColumn(end) ==
  LET starts == {RuleAt(k).base_offset : k \in OwnRules}
  IN  Min({end} \cup {s \in starts : cursor < s /\ s < end})

CoveredUntil == UpToColumn(Max({r.offset + r.size : r \in RangesOver(cursor)}))

PassRanges ==
  /\ Scanning /\ ~Governed /\ RangesOver(cursor) # {}
  /\ cursor' = Lesser(CoveredUntil, RequestEnd)
  /\ UNCHANGED <<request, answer>>

RefuseUncovered ==
  /\ Scanning /\ ~Governed /\ RangesOver(cursor) = {}
  /\ answer' = "refused"
  /\ UNCHANGED <<request, cursor>>

Accept ==
  /\ answer = "scanning" /\ cursor >= RequestEnd
  /\ answer' = "accepted"
  /\ UNCHANGED <<request, cursor>>

Next == PassCell \/ RefuseGoverned \/ PassRanges \/ RefuseUncovered \/ Accept

Spec == Init /\ [][Next]_vars

\* The loop, once entered, runs on.
FairSpec == Spec /\ WF_vars(Next)

-----------------------------------------------------------------------------
(* Properties *)

\* The gate's verdict on a write of the bytes [offset, end) of the account.
Granted(offset, end) ==
  CheckWriteWithArgs(request.policy, request.index, offset, end - offset, request.args)

\* The rules of one account keep to disjoint columns, as the context macro
\* asserts of every policy it generates (hopper-macros-proc context.rs).
DisjointColumns ==
  \A k, l \in OwnRules : k # l =>
    \/ EnvelopeEnd(RuleAt(k)) <= RuleAt(l).base_offset
    \/ EnvelopeEnd(RuleAt(l)) <= RuleAt(k).base_offset

\* A touch the audit of a macro-generated policy accepts has no byte the gate
\* would not have granted: no turn of the scan jumps over one.
AcceptsOnlyGranted ==
  answer = "accepted" /\ DisjointColumns =>
    \A b \in request.offset .. RequestEnd - 1 : Granted(b, b + 1)

\* The byte the audit names is no part of any acquire the gate granted, so a
\* record coalesced from granted acquires is never refused, whatever rules and
\* ranges the acquires were granted by and however those overlap.
RefusesNoneGranted ==
  answer = "refused" =>
    \A offset \in request.offset .. cursor : \A end \in cursor + 1 .. RequestEnd :
      ~Granted(offset, end)

\* Audit and gate decide alike on what a record was made of (first_unauthorized_
\* byte_with_args beside check_write_with_args).
AuditAgreesWithGate == AcceptsOnlyGranted /\ RefusesNoneGranted

\* first_unauthorized_byte_with_args on hand-built rules that overlap: "preserve
\* the runtime gate's first-matching-rule behavior".
FirstRuleDecides ==
  answer = "accepted" =>
    \A b \in request.offset .. RequestEnd - 1 : Granted(b, b + 1)

\* Every turn of the loop gets past a byte or answers.
ScanEnds == <>(answer # "scanning")

\* The scan stays inside the record.
TypeOK ==
  /\ request \in Request
  /\ cursor \in request.offset .. RequestEnd
  /\ answer \in {"scanning", "accepted", "refused"}
=============================================================================
