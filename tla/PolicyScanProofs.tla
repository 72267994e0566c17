--------------------------- MODULE PolicyScanProofs ---------------------------
(***************************************************************************)
(* Proofs about PolicyScan for every policy, argument vector and record:   *)
(* the audit agrees with the gate.  What it refuses no granted acquire     *)
(* covers, whatever the rules; what it accepts the gate grants byte by     *)
(* byte, when the columns of an account are disjoint.                      *)
(***************************************************************************)
EXTENDS PolicyScan, WellFoundedInduction, TLAPS

\* Everything before the cursor has been decided in favour of the program.
PrefixGranted ==
  DisjointColumns => \A b \in request.offset .. cursor - 1 : Granted(b, b + 1)

AcceptedAll == answer = "accepted" => cursor = RequestEnd

\* Why the scan stopped where it did.
RefusedForCause ==
  answer = "refused" =>
    /\ cursor < RequestEnd
    /\ \/ RulesOver(cursor) # {} /\ ~InSelectedCell
       \/ RulesOver(cursor) = {} /\ RangesOver(cursor) = {}

IInv == TypeOK /\ PrefixGranted /\ AcceptedAll /\ RefusedForCause

-----------------------------------------------------------------------------
(* Arithmetic of columns *)

\* A non-empty set of naturals has a least element.
LEMMA LeastElement ==
  ASSUME NEW T, T \subseteq Nat, T # {}
  PROVE  \E x \in T : \A y \in T : x <= y
<1>1. PICK x \in T : \A y \in T : <<y, x>> \notin OpToRel(<, Nat)
  BY NatLessThanWellFounded, WFMin
<1>2. ASSUME NEW y \in T PROVE x <= y
  <2>1. <<y, x>> \notin OpToRel(<, Nat) /\ x \in Nat /\ y \in Nat
    BY <1>1
  <2>2. QED
    BY <2>1 DEF OpToRel
<1>3. QED
  BY <1>2

\* A non-empty set of naturals with a bound has a greatest element.
LEMMA GreatestElement ==
  ASSUME NEW T, T \subseteq Nat, T # {}, NEW n \in Nat, \A y \in T : y <= n
  PROVE  \E x \in T : \A y \in T : y <= x
<1> DEFINE D == {k \in Nat : n - k \in T}
<1>1. D \subseteq Nat /\ D # {}
  <2>1. PICK y \in T : TRUE
    OBVIOUS
  <2>2. n - y \in Nat /\ n - (n - y) = y
    BY <2>1
  <2>3. QED
    BY <2>1, <2>2
<1>2. PICK k \in D : \A j \in D : k <= j
  <2> HIDE DEF D
  <2>1. QED
    BY <1>1, LeastElement
<1>3. \A y \in T : y <= n - k
  <2>1. TAKE y \in T
  <2>2. n - y \in Nat /\ n - (n - y) = y
    OBVIOUS
  <2>3. k <= n - y
    BY <1>2, <2>2
  <2>4. QED
    BY <2>2, <2>3
<1>4. QED
  BY <1>2, <1>3

LEMMA MinFacts ==
  ASSUME NEW T, T \subseteq Nat, T # {}
  PROVE  Min(T) \in T /\ \A y \in T : Min(T) <= y
BY LeastElement DEF Min

LEMMA MaxFacts ==
  ASSUME NEW T, T \subseteq Nat, T # {}, NEW n \in Nat, \A y \in T : y <= n
  PROVE  Max(T) \in T /\ \A y \in T : y <= Max(T)
<1>1. PICK x \in T : \A y \in T : y <= x
  BY GreatestElement
<1>2. \A y \in T : x >= y
  BY <1>1
<1>3. Max(T) \in T /\ \A y \in T : Max(T) >= y
  BY <1>2 DEF Max
<1>4. QED
  BY <1>3

LEMMA TimesMonotone ==
  ASSUME NEW a \in Nat, NEW s \in Nat, NEW t \in Nat, s <= t
  PROVE  a * s \in Nat /\ a * t \in Nat /\ a * s <= a * t
<1>1. PICK d \in Nat : t = s + d
  <2>1. t - s \in Nat /\ t = s + (t - s)
    OBVIOUS
  <2>2. QED
    BY <2>1
<1>2. a * t = a * s + a * d
  BY <1>1
<1>3. a * s \in Nat /\ a * d \in Nat
  OBVIOUS
<1>4. QED
  BY <1>2, <1>3

Column == [account_index : Index, base_offset : Nat, stride : Nat, cell_size : Nat,
           count : Nat, argument_index : Nat]

\* A cell of the column lies in the column's envelope.
LEMMA CellInEnvelope ==
  ASSUME NEW rule \in Column, NEW selected \in Nat, selected < rule.count
  PROVE  /\ CellStart(rule, selected) \in Nat /\ CellEnd(rule, selected) \in Nat
         /\ EnvelopeEnd(rule) \in Nat
         /\ rule.base_offset <= CellStart(rule, selected)
         /\ CellStart(rule, selected) <= CellEnd(rule, selected)
         /\ CellEnd(rule, selected) <= EnvelopeEnd(rule)
<1>1. /\ rule.base_offset \in Nat /\ rule.stride \in Nat
      /\ rule.cell_size \in Nat /\ rule.count \in Nat
  BY DEF Column
<1>2. PICK last \in Nat : last = rule.count - 1 /\ selected <= last /\ rule.count # 0
  <2>1. rule.count - 1 \in Nat /\ selected <= rule.count - 1 /\ rule.count # 0
    BY <1>1
  <2>2. QED
    BY <2>1
<1>3. PICK near \in Nat, far \in Nat :
        near = rule.stride * selected /\ far = rule.stride * last /\ near <= far
  BY <1>1, <1>2, TimesMonotone
<1>4. CellStart(rule, selected) = rule.base_offset + near
  BY <1>3 DEF CellStart
<1>5. CellEnd(rule, selected) = rule.base_offset + near + rule.cell_size
  BY <1>4 DEF CellEnd
<1>6. EnvelopeEnd(rule) = rule.base_offset + far + rule.cell_size
  BY <1>2, <1>3 DEF EnvelopeEnd
<1>7. QED
  BY <1>1, <1>3, <1>4, <1>5, <1>6

LEMMA EnvelopeEndNat ==
  ASSUME NEW rule \in Column
  PROVE  EnvelopeEnd(rule) \in Nat /\ rule.base_offset \in Nat
<1>1. /\ rule.base_offset \in Nat /\ rule.stride \in Nat
      /\ rule.cell_size \in Nat /\ rule.count \in Nat
  BY DEF Column
<1>2. PICK last \in Nat : last = IF rule.count = 0 THEN 0 ELSE rule.count - 1
  <2>1. CASE rule.count = 0
    BY <2>1
  <2>2. CASE rule.count # 0
    <3>1. rule.count - 1 \in Nat
      BY <1>1, <2>2
    <3>2. QED
      BY <2>2, <3>1
  <2>3. QED
    BY <2>1, <2>2
<1>3. rule.stride * last \in Nat
  BY <1>1
<1>4. EnvelopeEnd(rule) = rule.base_offset + rule.stride * last + rule.cell_size
  BY <1>2 DEF EnvelopeEnd
<1>5. QED
  BY <1>1, <1>3, <1>4

-----------------------------------------------------------------------------
(* What a request is made of *)

LEMMA RequestFacts ==
  ASSUME request \in Request
  PROVE  /\ request.offset \in Nat /\ request.size \in Nat /\ RequestEnd \in Nat
         /\ request.offset <= RequestEnd
         /\ request.args \in Seq(Nat)
         /\ request.policy.parametric \in Seq(Column)
         /\ \A r \in request.policy.allows : /\ r.offset \in 0 .. U32_MAX
                                             /\ r.size \in 0 .. U32_MAX
         /\ OwnRules \subseteq Nat
         /\ \A k \in OwnRules : RuleAt(k) \in Column
<1>1. /\ request.policy \in Policy /\ request.offset \in Offset /\ request.size \in Size
      /\ request.args \in Args
  BY DEF Request
<1>2. request.offset \in Nat /\ request.size \in Nat /\ request.args \in Seq(Nat)
  BY <1>1, PolicyScanAssumption
<1>3. RequestEnd \in Nat /\ request.offset <= RequestEnd
  BY <1>2 DEF RequestEnd
<1>4. /\ \A r \in request.policy.allows : r.offset \in 0 .. U32_MAX /\ r.size \in 0 .. U32_MAX
      /\ request.policy.parametric \in Seq(Column)
  BY <1>1, PolicyScanAssumption DEF Column
<1>5. \A k \in OwnRules : k \in Nat /\ RuleAt(k) \in Column
  BY <1>4 DEF OwnRules, RuleAt
<1>6. QED
  BY <1>2, <1>3, <1>4, <1>5

LEMMA RuleAtNat ==
  ASSUME request \in Request, NEW k \in OwnRules
  PROVE  /\ RuleAt(k) \in Column
         /\ RuleAt(k).base_offset \in Nat /\ EnvelopeEnd(RuleAt(k)) \in Nat
<1>1. RuleAt(k) \in Column
  BY RequestFacts
<1>2. QED
  BY <1>1, EnvelopeEndNat

\* The gate asked about one byte consults the rules over that byte.
LEMMA GoverningByte ==
  ASSUME request \in Request, NEW b \in Nat
  PROVE  Governing(request.policy, request.index, b, 1) = RulesOver(b)
<1>1. ASSUME NEW k \in OwnRules
      PROVE  EnvelopeOverlaps(RuleAt(k), b, 1) <=> InEnvelope(k, b)
  BY RuleAtNat DEF EnvelopeOverlaps, InEnvelope
<1>2. Governing(request.policy, request.index, b, 1)
        = {k \in OwnRules : EnvelopeOverlaps(RuleAt(k), b, 1)}
  BY DEF Governing, OwnRules, RuleAt
<1>3. QED
  BY <1>1, <1>2 DEF RulesOver

\* A selector that is bound is a natural number.
LEMMA SelectedNat ==
  ASSUME request \in Request, NEW rule, SelectorBound(rule, request.args)
  PROVE  Selected(rule, request.args) \in Nat
BY RequestFacts DEF SelectorBound, Selected

LEMMA FirstRule ==
  ASSUME request \in Request, NEW b \in Nat, RulesOver(b) # {}
  PROVE  /\ Min(RulesOver(b)) \in RulesOver(b) /\ Min(RulesOver(b)) \in OwnRules
         /\ \A k \in RulesOver(b) : Min(RulesOver(b)) <= k
<1>1. RulesOver(b) \subseteq OwnRules /\ RulesOver(b) \subseteq Nat
  BY RequestFacts DEF RulesOver
<1>2. QED
  BY <1>1, MinFacts

-----------------------------------------------------------------------------
(* Bytes the scan passes *)

\* The first rule over a byte decides; in its selected cell the gate grants.
LEMMA GrantedInCell ==
  ASSUME request \in Request, NEW b \in Nat, RulesOver(b) # {},
         NEW rule, rule = RuleAt(Min(RulesOver(b))),
         SelectorBound(rule, request.args), Selected(rule, request.args) < rule.count,
         CellStart(rule, Selected(rule, request.args)) <= b,
         b < CellEnd(rule, Selected(rule, request.args))
  PROVE  Granted(b, b + 1)
<1>1. rule \in Column /\ rule = request.policy.parametric[Min(RulesOver(b))]
  BY FirstRule, RuleAtNat DEF RuleAt
<1>2. PICK selected \in Nat : selected = Selected(rule, request.args)
  BY SelectedNat
<1>3. CellEnd(rule, selected) \in Nat /\ CellStart(rule, selected) \in Nat
  BY <1>1, <1>2, CellInEnvelope
<1>4. SelectedContains(rule, selected, b, 1)
  BY <1>2, <1>3 DEF SelectedContains
<1>5. CheckWriteWithArgs(request.policy, request.index, b, 1, request.args)
  BY <1>1, <1>2, <1>4, GoverningByte DEF CheckWriteWithArgs
<1>6. (b + 1) - b = 1
  OBVIOUS
<1>7. QED
  BY <1>5, <1>6 DEF Granted

\* No rule over the byte: a static range grants it.
LEMMA GrantedInRange ==
  ASSUME request \in Request, NEW b \in Nat, RulesOver(b) = {}, NEW r \in RangesOver(b)
  PROVE  Granted(b, b + 1)
<1>1. /\ r \in RangesOf(request.policy, request.index) /\ r \in request.policy.allows
      /\ r.offset <= b /\ b < r.offset + r.size
  BY DEF RangesOver, RangesOf
<1>2. r.offset \in Nat /\ r.size \in Nat
  BY <1>1, RequestFacts
<1>3. Contains(r, b, 1)
  BY <1>1, <1>2 DEF Contains
<1>4. CheckWrite(request.policy, request.index, b, 1)
  BY <1>1, <1>3 DEF CheckWrite
<1>5. CheckWriteWithArgs(request.policy, request.index, b, 1, request.args)
  BY <1>4, GoverningByte DEF CheckWriteWithArgs
<1>6. (b + 1) - b = 1
  OBVIOUS
<1>7. QED
  BY <1>5, <1>6 DEF Granted

\* In disjoint columns the rest of the selected cell has the same one rule.
LEMMA CellBytesGranted ==
  ASSUME request \in Request, cursor \in Nat, DisjointColumns,
         RulesOver(cursor) # {}, InSelectedCell,
         NEW b \in Nat, cursor <= b,
         b < CellEnd(GoverningRule, Selected(GoverningRule, request.args))
  PROVE  Granted(b, b + 1)
<1>1. PICK k \in OwnRules : k = Min(RulesOver(cursor)) /\ k \in RulesOver(cursor)
  BY FirstRule
<1>2. PICK rule \in Column : rule = RuleAt(k) /\ rule = GoverningRule
  BY <1>1, RuleAtNat DEF GoverningRule
<1>3. SelectorBound(rule, request.args)
  BY <1>2 DEF InSelectedCell
<1>4. PICK selected \in Nat : selected = Selected(rule, request.args)
  BY <1>3, SelectedNat
<1>5. /\ selected < rule.count /\ CellStart(rule, selected) <= cursor
      /\ b < CellEnd(rule, selected)
  BY <1>2, <1>4 DEF InSelectedCell
<1>6. /\ CellStart(rule, selected) \in Nat /\ CellEnd(rule, selected) \in Nat
      /\ EnvelopeEnd(rule) \in Nat /\ rule.base_offset \in Nat
      /\ rule.base_offset <= CellStart(rule, selected)
      /\ CellEnd(rule, selected) <= EnvelopeEnd(rule)
  BY <1>5, CellInEnvelope, EnvelopeEndNat
<1>7. rule.base_offset <= b /\ b < EnvelopeEnd(rule) /\ CellStart(rule, selected) <= b
  BY <1>5, <1>6
<1>8. k \in RulesOver(b)
  BY <1>2, <1>7 DEF RulesOver, InEnvelope
<1>9. ASSUME NEW l \in RulesOver(b), l # k
      PROVE  FALSE
  <2>1. l \in OwnRules /\ RuleAt(l).base_offset <= b /\ b < EnvelopeEnd(RuleAt(l))
    BY DEF RulesOver, InEnvelope
  <2>2. RuleAt(l).base_offset \in Nat /\ EnvelopeEnd(RuleAt(l)) \in Nat
    BY <2>1, RuleAtNat
  <2>3. EnvelopeEnd(RuleAt(k)) <= RuleAt(l).base_offset \/ EnvelopeEnd(RuleAt(l)) <= RuleAt(k).base_offset
    BY <1>9, <2>1 DEF DisjointColumns
  <2>4. QED
    BY <1>2, <1>6, <1>7, <2>1, <2>2, <2>3
<1>10. Min(RulesOver(b)) = k /\ RulesOver(b) # {}
  BY <1>8, <1>9, FirstRule
<1>11. QED
  BY <1>2, <1>3, <1>4, <1>5, <1>7, <1>10, GrantedInCell

\* The stretch of static ranges the scan jumps over holds no column.
LEMMA StretchFacts ==
  ASSUME request \in Request, cursor \in Nat, RulesOver(cursor) = {}, RangesOver(cursor) # {}
  PROVE  /\ CoveredUntil \in Nat /\ cursor < CoveredUntil
         /\ \A b \in cursor .. CoveredUntil - 1 : Granted(b, b + 1)
<1> DEFINE Ends == {r.offset + r.size : r \in RangesOver(cursor)}
<1>1. \A r \in RangesOver(cursor) :
        /\ r.offset \in 0 .. U32_MAX /\ r.size \in 0 .. U32_MAX
        /\ r \in RangesOf(request.policy, request.index)
        /\ r.offset <= cursor /\ cursor < r.offset + r.size
  BY RequestFacts DEF RangesOver, RangesOf
<1>2. PICK end : end = Max(Ends)
  OBVIOUS
<1>3. end \in Ends
  <2>1. U32_MAX \in Nat /\ U32_MAX + U32_MAX \in Nat
    BY U32Assumption
  <2>2. Ends \subseteq Nat /\ Ends # {} /\ \A y \in Ends : y <= U32_MAX + U32_MAX
    BY <1>1, <2>1
  <2>3. QED
    <3> HIDE DEF Ends
    <3>1. QED
      BY <1>2, <2>1, <2>2, MaxFacts
<1>4. PICK r \in RangesOver(cursor) : end = r.offset + r.size
  BY <1>3
<1>5. end \in Nat /\ cursor < end /\ r.offset \in Nat /\ r.size \in Nat
  BY <1>1, <1>4
<1>6. PICK starts : starts = {s \in {RuleAt(k).base_offset : k \in OwnRules} : cursor < s /\ s < end}
  OBVIOUS
<1>7. starts \subseteq Nat /\ \A s \in starts : cursor < s
  BY <1>6, RuleAtNat
<1>8. CoveredUntil = Min({end} \cup starts)
  BY <1>2, <1>6 DEF CoveredUntil, UpToColumn
<1>9. /\ CoveredUntil \in {end} \cup starts /\ \A y \in {end} \cup starts : CoveredUntil <= y
  <2>1. {end} \cup starts \subseteq Nat /\ {end} \cup starts # {}
    BY <1>5, <1>7
  <2>2. QED
    BY <1>8, <2>1, MinFacts
<1>10. CoveredUntil \in Nat /\ cursor < CoveredUntil /\ CoveredUntil <= end
  BY <1>5, <1>7, <1>9
<1>11. ASSUME NEW b \in cursor .. CoveredUntil - 1
       PROVE  Granted(b, b + 1)
  <2>1. b \in Nat /\ cursor <= b /\ b < CoveredUntil /\ b < end
    BY <1>5, <1>10
  <2>2. ASSUME NEW k \in RulesOver(b)
        PROVE  FALSE
    <3>1. k \in OwnRules /\ RuleAt(k).base_offset <= b /\ b < EnvelopeEnd(RuleAt(k))
      BY DEF RulesOver, InEnvelope
    <3>2. RuleAt(k).base_offset \in Nat /\ EnvelopeEnd(RuleAt(k)) \in Nat
      BY <3>1, RuleAtNat
    <3>3. CASE RuleAt(k).base_offset <= cursor
      <4>1. k \in RulesOver(cursor)
        BY <2>1, <3>1, <3>2, <3>3 DEF RulesOver, InEnvelope
      <4>2. QED
        BY <4>1
    <3>4. CASE ~(RuleAt(k).base_offset <= cursor)
      <4>1. cursor < RuleAt(k).base_offset /\ RuleAt(k).base_offset < end
        BY <1>5, <2>1, <3>1, <3>2, <3>4
      <4>2. RuleAt(k).base_offset \in starts
        BY <1>6, <3>1, <4>1
      <4>3. CoveredUntil <= RuleAt(k).base_offset
        BY <1>9, <4>2
      <4>4. QED
        BY <1>10, <2>1, <3>1, <3>2, <4>3
    <3>5. QED
      BY <3>3, <3>4
  <2>3. r \in RangesOver(b)
    BY <1>1, <1>4, <1>5, <2>1 DEF RangesOver
  <2>4. QED
    BY <2>1, <2>2, <2>3, GrantedInRange
<1>12. QED
  BY <1>10, <1>11

-----------------------------------------------------------------------------
(* Bytes the scan refuses *)

\* Where the scan refuses, no acquire over the byte can have been granted: the
\* rule that decided it would have to be the scan's, or else a static range.
LEMMA RefusedIsUngranted ==
  ASSUME request \in Request, cursor \in Nat,
         \/ RulesOver(cursor) # {} /\ ~InSelectedCell
         \/ RulesOver(cursor) = {} /\ RangesOver(cursor) = {},
         NEW offset \in Nat, NEW end \in Nat, offset <= cursor, cursor < end,
         Granted(offset, end)
  PROVE  FALSE
<1>1. PICK size \in Nat : size = end - offset /\ offset + size = end
  <2>1. end - offset \in Nat /\ offset + (end - offset) = end
    OBVIOUS
  <2>2. QED
    BY <2>1
<1>2. PICK G : G = Governing(request.policy, request.index, offset, size)
  OBVIOUS
<1>3. /\ G \subseteq OwnRules /\ G \subseteq Nat
      /\ \A k \in OwnRules : k \in G <=> EnvelopeOverlaps(RuleAt(k), offset, size)
  BY <1>2, RequestFacts DEF Governing, OwnRules, RuleAt
<1>4. RulesOver(cursor) \subseteq G
  <2>1. SUFFICES ASSUME NEW k \in RulesOver(cursor) PROVE k \in G
    OBVIOUS
  <2>2. k \in OwnRules /\ RuleAt(k).base_offset <= cursor /\ cursor < EnvelopeEnd(RuleAt(k))
    BY DEF RulesOver, InEnvelope
  <2>3. RuleAt(k).base_offset \in Nat /\ EnvelopeEnd(RuleAt(k)) \in Nat
    BY <2>2, RuleAtNat
  <2>4. EnvelopeOverlaps(RuleAt(k), offset, size)
    BY <1>1, <2>2, <2>3 DEF EnvelopeOverlaps
  <2>5. QED
    BY <1>3, <2>2, <2>4
<1>5. CheckWriteWithArgs(request.policy, request.index, offset, size, request.args)
  BY <1>1 DEF Granted
<1>6. CASE G = {}
  <2>1. CheckWrite(request.policy, request.index, offset, size)
    BY <1>2, <1>5, <1>6 DEF CheckWriteWithArgs
  <2>2. PICK r \in RangesOf(request.policy, request.index) : Contains(r, offset, size)
    BY <2>1 DEF CheckWrite
  <2>3. r.offset \in Nat /\ r.size \in Nat
    BY RequestFacts DEF RangesOf
  <2>4. r \in RangesOver(cursor)
    BY <1>1, <2>2, <2>3 DEF Contains, RangesOver
  <2>5. QED
    BY <1>4, <1>6, <2>4
<1>7. CASE G # {}
  <2>1. PICK m \in G : m = Min(G) /\ \A k \in G : m <= k
    BY <1>3, <1>7, MinFacts
  <2>2. PICK rule \in Column : rule = RuleAt(m)
    BY <1>3, <2>1, RuleAtNat
  <2>3. /\ SelectorBound(rule, request.args)
        /\ SelectedContains(rule, Selected(rule, request.args), offset, size)
    BY <1>2, <1>5, <1>7, <2>1, <2>2 DEF CheckWriteWithArgs, RuleAt
  <2>4. PICK selected \in Nat : selected = Selected(rule, request.args)
    BY <2>3, SelectedNat
  <2>5. /\ selected < rule.count /\ offset >= CellStart(rule, selected)
        /\ offset + size <= CellEnd(rule, selected)
    BY <2>3, <2>4 DEF SelectedContains
  <2>6. /\ CellStart(rule, selected) \in Nat /\ CellEnd(rule, selected) \in Nat
        /\ EnvelopeEnd(rule) \in Nat /\ rule.base_offset \in Nat
        /\ rule.base_offset <= CellStart(rule, selected)
        /\ CellEnd(rule, selected) <= EnvelopeEnd(rule)
    BY <2>5, CellInEnvelope, EnvelopeEndNat
  <2>7. CellStart(rule, selected) <= cursor /\ cursor < CellEnd(rule, selected)
    BY <1>1, <2>5, <2>6
  <2>8. rule.base_offset <= cursor /\ cursor < EnvelopeEnd(rule)
    BY <2>6, <2>7
  <2>9. m \in RulesOver(cursor)
    BY <1>3, <2>1, <2>2, <2>8 DEF RulesOver, InEnvelope
  <2>10. Min(RulesOver(cursor)) = m
    <3>1. PICK n \in RulesOver(cursor) : n = Min(RulesOver(cursor)) /\ n <= m
      BY <2>9, FirstRule
    <3>2. m <= n /\ n \in Nat /\ m \in Nat
      BY <1>3, <1>4, <2>1
    <3>3. QED
      BY <3>1, <3>2
  <2>11. GoverningRule = rule
    BY <2>2, <2>10 DEF GoverningRule
  <2>12. InSelectedCell
    BY <2>3, <2>4, <2>5, <2>7, <2>11 DEF InSelectedCell
  <2>13. QED
    BY <2>9, <2>12
<1>8. QED
  BY <1>6, <1>7

-----------------------------------------------------------------------------
(* Every step keeps the invariant *)

LEMMA GrantedIsFixed ==
  ASSUME UNCHANGED request
  PROVE  /\ DisjointColumns' <=> DisjointColumns
         /\ RequestEnd' = RequestEnd
         /\ \A b : Granted(b, b + 1)' <=> Granted(b, b + 1)
BY DEF DisjointColumns, OwnRules, RuleAt, RequestEnd, Granted

LEMMA LesserFacts ==
  ASSUME NEW a \in Nat, NEW b \in Nat
  PROVE  Lesser(a, b) \in Nat /\ Lesser(a, b) <= a /\ Lesser(a, b) <= b /\ Lesser(a, b) \in {a, b}
BY DEF Lesser

\* A turn that advances to a byte up to which everything is granted.
LEMMA AdvanceKeeps ==
  ASSUME IInv, Scanning, UNCHANGED <<request, answer>>,
         NEW upto \in Nat, cursor <= upto, cursor' = Lesser(upto, RequestEnd),
         DisjointColumns => \A b \in cursor .. upto - 1 : Granted(b, b + 1)
  PROVE  IInv'
<1>1. /\ request \in Request /\ cursor \in Nat /\ request.offset \in Nat /\ RequestEnd \in Nat
      /\ request.offset <= cursor /\ cursor < RequestEnd /\ answer = "scanning"
  BY RequestFacts DEF IInv, TypeOK, Scanning
<1>2. PICK next \in Nat : next = cursor' /\ next <= upto /\ next <= RequestEnd /\ cursor <= next
  <2>1. PICK next : next = Lesser(upto, RequestEnd)
    OBVIOUS
  <2>2. next \in Nat /\ next <= upto /\ next <= RequestEnd /\ next \in {upto, RequestEnd}
    BY <1>1, <2>1, LesserFacts
  <2>3. cursor <= next
    BY <1>1, <2>2
  <2>4. QED
    BY <2>1, <2>2, <2>3
<1>3. TypeOK'
  BY <1>1, <1>2 DEF TypeOK, RequestEnd
<1>4. ASSUME DisjointColumns, NEW b \in request.offset .. next - 1
      PROVE  Granted(b, b + 1)
  <2>1. CASE b < cursor
    <3>1. b \in request.offset .. cursor - 1
      BY <1>1, <1>2, <2>1
    <3>2. QED
      BY <1>4, <3>1 DEF IInv, PrefixGranted
  <2>2. CASE ~(b < cursor)
    <3>1. b \in cursor .. upto - 1
      BY <1>1, <1>2, <2>2
    <3>2. QED
      BY <1>4, <3>1
  <2>3. QED
    BY <2>1, <2>2
<1>5. PrefixGranted'
  BY <1>2, <1>4, GrantedIsFixed DEF PrefixGranted
<1>6. AcceptedAll' /\ RefusedForCause'
  BY <1>1 DEF AcceptedAll, RefusedForCause
<1>7. QED
  BY <1>3, <1>5, <1>6 DEF IInv

LEMMA PassCellKeeps ==
  ASSUME IInv, PassCell
  PROVE  IInv'
<1>1. /\ Scanning /\ RulesOver(cursor) # {} /\ InSelectedCell
      /\ UNCHANGED <<request, answer>>
  BY DEF PassCell, Governed
<1>2. request \in Request /\ cursor \in Nat
  BY RequestFacts DEF IInv, TypeOK
<1>3. GoverningRule \in Column
  BY <1>1, <1>2, FirstRule, RuleAtNat DEF GoverningRule
<1>4. PICK selected \in Nat : selected = Selected(GoverningRule, request.args)
  BY <1>1, <1>2, SelectedNat DEF InSelectedCell
<1>5. PICK upto \in Nat : upto = CellEnd(GoverningRule, selected)
  BY <1>1, <1>3, <1>4, CellInEnvelope DEF InSelectedCell
<1>6. cursor < upto
  BY <1>1, <1>4, <1>5 DEF InSelectedCell
<1>7. cursor' = Lesser(upto, RequestEnd)
  BY <1>4, <1>5 DEF PassCell, PastCell
<1>8. ASSUME DisjointColumns, NEW b \in cursor .. upto - 1
      PROVE  Granted(b, b + 1)
  <2>1. b \in Nat /\ cursor <= b /\ b < upto
    BY <1>2
  <2>2. QED
    BY <1>1, <1>2, <1>4, <1>5, <1>8, <2>1, CellBytesGranted
<1>9. QED
  BY <1>1, <1>2, <1>6, <1>7, <1>8, AdvanceKeeps

LEMMA PassRangesKeeps ==
  ASSUME IInv, PassRanges
  PROVE  IInv'
<1>1. /\ Scanning /\ RulesOver(cursor) = {} /\ RangesOver(cursor) # {}
      /\ UNCHANGED <<request, answer>> /\ cursor' = Lesser(CoveredUntil, RequestEnd)
  BY DEF PassRanges, Governed
<1>2. request \in Request /\ cursor \in Nat
  BY RequestFacts DEF IInv, TypeOK
<1>3. /\ CoveredUntil \in Nat /\ cursor < CoveredUntil
      /\ \A b \in cursor .. CoveredUntil - 1 : Granted(b, b + 1)
  BY <1>1, <1>2, StretchFacts
<1>4. QED
  BY <1>1, <1>2, <1>3, AdvanceKeeps

LEMMA RefuseKeeps ==
  ASSUME IInv, RefuseGoverned \/ RefuseUncovered
  PROVE  IInv'
<1>1. /\ Scanning /\ answer' = "refused" /\ UNCHANGED <<request, cursor>>
      /\ \/ RulesOver(cursor) # {} /\ ~InSelectedCell
         \/ RulesOver(cursor) = {} /\ RangesOver(cursor) = {}
  BY DEF RefuseGoverned, RefuseUncovered, Governed
<1>2. TypeOK'
  BY <1>1 DEF IInv, TypeOK, RequestEnd
<1>3. PrefixGranted'
  BY <1>1, GrantedIsFixed DEF IInv, PrefixGranted
<1>4. RefusedForCause'
  BY <1>1 DEF RefusedForCause, Scanning, RequestEnd, RulesOver, OwnRules, InEnvelope, RuleAt,
              InSelectedCell, GoverningRule, RangesOver
<1>5. AcceptedAll'
  BY <1>1 DEF AcceptedAll
<1>6. QED
  BY <1>2, <1>3, <1>4, <1>5 DEF IInv

LEMMA AcceptKeeps ==
  ASSUME IInv, Accept
  PROVE  IInv'
<1>1. cursor >= RequestEnd /\ answer' = "accepted" /\ UNCHANGED <<request, cursor>>
  BY DEF Accept
<1>2. cursor = RequestEnd
  BY <1>1, RequestFacts DEF IInv, TypeOK
<1>3. TypeOK'
  BY <1>1 DEF IInv, TypeOK, RequestEnd
<1>4. PrefixGranted'
  BY <1>1, GrantedIsFixed DEF IInv, PrefixGranted
<1>5. AcceptedAll' /\ RefusedForCause'
  BY <1>1, <1>2 DEF AcceptedAll, RefusedForCause, RequestEnd
<1>6. QED
  BY <1>3, <1>4, <1>5 DEF IInv

LEMMA InitHolds == Init => IInv
<1>1. SUFFICES ASSUME Init PROVE IInv
  OBVIOUS
<1>2. request \in Request /\ cursor = request.offset /\ answer = "scanning"
  BY <1>1 DEF Init
<1>3. TypeOK
  BY <1>2, RequestFacts DEF TypeOK
<1>4. PrefixGranted
  BY <1>2, RequestFacts DEF PrefixGranted
<1>5. QED
  BY <1>2, <1>3, <1>4 DEF IInv, AcceptedAll, RefusedForCause

LEMMA NextKeeps == IInv /\ [Next]_vars => IInv'
<1>1. SUFFICES ASSUME IInv, [Next]_vars PROVE IInv'
  OBVIOUS
<1>2. CASE UNCHANGED vars
  <2>1. UNCHANGED request /\ UNCHANGED cursor /\ UNCHANGED answer
    BY <1>2 DEF vars
  <2>2. TypeOK' /\ AcceptedAll'
    BY <1>1, <2>1 DEF IInv, TypeOK, AcceptedAll, RequestEnd
  <2>3. PrefixGranted'
    BY <1>1, <2>1, GrantedIsFixed DEF IInv, PrefixGranted
  <2>4. RefusedForCause'
    BY <1>1, <2>1 DEF IInv, RefusedForCause, RequestEnd, RulesOver, OwnRules, InEnvelope, RuleAt,
                      InSelectedCell, GoverningRule, RangesOver
  <2>5. QED
    BY <2>2, <2>3, <2>4 DEF IInv
<1>3. QED
  BY <1>1, <1>2, PassCellKeeps, PassRangesKeeps, RefuseKeeps, AcceptKeeps DEF Next

-----------------------------------------------------------------------------
(* Theorems *)

\* The scan's loop invariant: everything before the cursor is granted, and a
\* refusal has its cause at the cursor.
THEOREM Invariance == Spec => []IInv
<1>1. QED
  BY InitHolds, NextKeeps, PTL DEF Spec

\* The scan stays inside the record it audits.
THEOREM TypeCorrect == Spec => []TypeOK
<1>1. IInv => TypeOK
  BY DEF IInv
<1>2. QED
  BY <1>1, Invariance, PTL

\* first_unauthorized_byte_with_args passes over no byte the gate would refuse,
\* for every policy whose columns are disjoint.
THEOREM AcceptsOnlyWhatIsGranted == Spec => []AcceptsOnlyGranted
<1>1. IInv => AcceptsOnlyGranted
  BY DEF IInv, PrefixGranted, AcceptedAll, AcceptsOnlyGranted
<1>2. QED
  BY <1>1, Invariance, PTL

\* For every policy at all, overlapping rules included, the audit never refuses
\* a byte of an acquire check_write_with_args granted.
THEOREM RefusesNothingGranted == Spec => []RefusesNoneGranted
<1>1. IInv => RefusesNoneGranted
  <2>1. SUFFICES ASSUME IInv, answer = "refused",
                        NEW offset \in request.offset .. cursor,
                        NEW end \in cursor + 1 .. RequestEnd
                 PROVE  ~Granted(offset, end)
    BY DEF RefusesNoneGranted
  <2>2. /\ request \in Request /\ request.offset \in Nat /\ RequestEnd \in Nat /\ cursor \in Nat
    BY <2>1, RequestFacts DEF IInv, TypeOK
  <2>3. offset \in Nat /\ end \in Nat /\ offset <= cursor /\ cursor < end
    BY <2>2
  <2>4. \/ RulesOver(cursor) # {} /\ ~InSelectedCell
        \/ RulesOver(cursor) = {} /\ RangesOver(cursor) = {}
    BY <2>1 DEF IInv, RefusedForCause
  <2>5. QED
    BY <2>2, <2>3, <2>4, RefusedIsUngranted
<1>2. QED
  BY <1>1, Invariance, PTL

\* The audit decides as the gate does.
THEOREM AuditAlwaysAgrees == Spec => []AuditAgreesWithGate
BY AcceptsOnlyWhatIsGranted, RefusesNothingGranted, PTL DEF AuditAgreesWithGate
=============================================================================
