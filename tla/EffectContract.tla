---------------------------- MODULE EffectContract ----------------------------
(***************************************************************************)
(* What an independent verifier makes of one instruction: the mutation     *)
(* contract the program publishes (grillo-manifest), resolved for the      *)
(* arguments of the invocation, and the verdict over account snapshots and *)
(* the instruction's own touch map (grillo-verifier),                      *)
(*                                                                         *)
(*             changed  \subseteq  acquired  \subseteq  authorized.        *)
(*                                                                         *)
(* A contract is [strict |-> BOOLEAN, policy |-> ...]: the macros publish  *)
(* the ranges, columns and lamport accounts of the write policy they       *)
(* compile.  Selector values come decoded, in compact index order; the     *)
(* payload grammar they are decoded from is left out.                      *)
(***************************************************************************)
EXTENDS WritePolicy

End(range) == range.offset + range.size

MutantOneRangeOnly(start, end, cover) ==
  IF start >= end \/ \E c \in cover : c.offset <= start /\ end <= End(c) THEN {} ELSE {start}

\* first_gap: jump to the far end of whichever range reaches furthest over the
\* cursor.  {} when [start, end) is covered, else the first byte that is not.
FirstGap(start, end, cover) ==
  LET Furthest(cursor) ==
        Max({cursor} \cup {End(r) : r \in {c \in cover : c.offset <= cursor /\ cursor < End(c)}})
      gap[cursor \in Nat] ==
        IF cursor >= end THEN {}
        ELSE IF Furthest(cursor) = cursor THEN {cursor} ELSE gap[Furthest(cursor)]
  IN  gap[start]

-----------------------------------------------------------------------------
(* Resolution: validate_rules and resolve_with *)

ValidRule(policy, rule) ==
  /\ rule.count > 0 /\ rule.cell_size > 0
  /\ rule.count > 1 => rule.stride >= rule.cell_size
  /\ EnvelopeEnd(rule) <= U32_MAX
  /\ FirstGap(rule.base_offset, EnvelopeEnd(rule), RangesOf(policy, rule.account_index)) = {}

Overlapping(r, s) ==
  /\ r.account_index = s.account_index
  /\ r.base_offset < EnvelopeEnd(s) /\ s.base_offset < EnvelopeEnd(r)

ValidRules(policy) ==
  LET rules == policy.parametric
  IN  /\ \A k \in DOMAIN rules : ValidRule(policy, rules[k])
      /\ \A j, k \in DOMAIN rules : j < k => ~Overlapping(rules[j], rules[k])

SelectedRange(rule, selected) ==
  [account_index |-> rule.account_index, offset |-> CellStart(rule, selected),
   size |-> rule.cell_size]

Resolvable(policy, args) ==
  /\ ValidRules(policy)
  /\ \A k \in DOMAIN policy.parametric :
       LET rule == policy.parametric[k]
       IN  SelectorBound(rule, args) /\ Selected(rule, args) < rule.count

MutantKeepsColumns(range, rule) == {range}

\* subtract_envelope: what a static grant keeps on either side of a column.
SubtractEnvelope(range, rule) ==
  LET apart  == range.account_index # rule.account_index
                  \/ End(range) <= rule.base_offset \/ range.offset >= EnvelopeEnd(rule)
      before == [range EXCEPT !.size = rule.base_offset - range.offset]
      after  == [range EXCEPT !.offset = EnvelopeEnd(rule), !.size = End(range) - EnvelopeEnd(rule)]
  IN  IF apart THEN {range}
      ELSE {r \in {before} : range.offset < rule.base_offset}
             \cup {r \in {after} : End(range) > EnvelopeEnd(rule)}

\* Columns take over every byte of their envelope; only the selected cells come
\* back.
ResolvedRanges(policy, args) ==
  LET rules == policy.parametric
      static[k \in 0 .. Len(rules)] ==
        IF k = 0 THEN policy.allows
        ELSE UNION {SubtractEnvelope(r, rules[k]) : r \in static[k - 1]}
  IN  static[Len(rules)] \cup {SelectedRange(rules[k], Selected(rules[k], args)) : k \in DOMAIN rules}

-----------------------------------------------------------------------------
(* The verdict *)

\* The maximal runs of a set of bytes.
Runs(bytes) ==
  {r \in [offset : bytes, size : 1 .. Cardinality(bytes)] :
     /\ r.offset .. End(r) - 1 \subseteq bytes
     /\ End(r) \notin bytes
     /\ r.offset = 0 \/ r.offset - 1 \notin bytes}

\* A byte only the longer snapshot has counts as changed.
ChangedBytes(pre, post) ==
  {b \in 0 .. Max({Len(pre), Len(post)}) - 1 :
     b >= Len(pre) \/ b >= Len(post) \/ pre[b + 1] # post[b + 1]}

ChangedIntervals(pre, post) == Runs(ChangedBytes(pre, post))

\* TouchMap::is_partial
IsPartial(map) == map.overflowed \/ map.skipped

Acquired(map, index) == {r \in map.records : r.write /\ r.slot = index}

Untracked(delta, map) ==
  \E c \in ChangedIntervals(delta.pre, delta.post) :
     FirstGap(c.offset, End(c), Acquired(map, delta.account_index)) # {}

UnauthorizedAcquisition(record, authorized) ==
  FirstGap(record.offset, End(record),
           {r \in authorized : r.account_index = record.slot}) # {}

MutationComplete(contract) == contract.strict /\ LamportsDeclared(contract.policy)

UnauthorizedLamports(delta, contract) ==
  /\ MutationComplete(contract)
  /\ delta.lamports_changed
  /\ delta.account_index \notin contract.policy.lamports.indices

Violating(contract, authorized, deltas, map) ==
  \/ \E d \in deltas : Untracked(d, map) \/ UnauthorizedLamports(d, contract)
  \/ \E r \in map.records : r.write /\ UnauthorizedAcquisition(r, authorized)

VerifyContract(contract, authorized, deltas, map) ==
  IF ~contract.strict \/ IsPartial(map) THEN "Inconclusive"
  ELSE IF Violating(contract, authorized, deltas, map) THEN "Violation" ELSE "Pass"

\* verify: without the invocation's arguments.
Verify(contract, deltas, map) ==
  IF contract.policy.parametric # <<>>
    THEN "Inconclusive"
    ELSE VerifyContract(contract, contract.policy.allows, deltas, map)

\* verify_invocation
VerifyInvocation(contract, args, deltas, map) ==
  IF Resolvable(contract.policy, args)
    THEN VerifyContract(contract, ResolvedRanges(contract.policy, args), deltas, map)
    ELSE "Error"
=============================================================================
