--------------------------- MODULE FootprintProofs ---------------------------
(***************************************************************************)
(* Proofs about Footprint for every set of accounts, lengths, segments and *)
(* policies the context macro compiles, whatever the handler does.         *)
(***************************************************************************)
EXTENDS Footprint, Integers, WellFoundedInduction, FiniteSetTheorems, TLAPS

-----------------------------------------------------------------------------
(* Least and greatest elements *)

\* A non-empty set of naturals has a least element.
LEMMA LeastElement ==
  ASSUME NEW T, T \subseteq Nat, T # {}
  PROVE  \E x \in T : \A y \in T : x <= y
<1>1. PICK x \in T : \A y \in T : <<y, x>> \notin OpToRel(<, Nat)
  BY NatLessThanWellFounded, WFMin
<1>2. ASSUME NEW y \in T PROVE x <= y
  <2>1. <<y, x>> \notin OpToRel(<, Nat) /\ x \in Nat /\ y \in Nat
    BY <1>1
  <2>2. QED
    BY <2>1 DEF OpToRel
<1>3. QED
  BY <1>2

LEMMA MinFacts ==
  ASSUME NEW T, T \subseteq Nat, T # {}
  PROVE  Min(T) \in T /\ \A y \in T : Min(T) <= y
BY LeastElement DEF Min

\* A non-empty set of naturals with a bound has a greatest element.
LEMMA MaxFacts ==
  ASSUME NEW T, T \subseteq Nat, T # {}, NEW n \in Nat, \A y \in T : y <= n
  PROVE  Max(T) \in T /\ \A y \in T : y <= Max(T)
<1> DEFINE D == {k \in Nat : n - k \in T}
<1>1. D \subseteq Nat /\ D # {}
  <2>1. PICK y \in T : TRUE
    OBVIOUS
  <2>2. n - y \in Nat /\ n - (n - y) = y
    BY <2>1
  <2>3. QED
    BY <2>1, <2>2
<1>2. PICK k \in D : \A j \in D : k <= j
  <2> HIDE DEF D
  <2>1. QED
    BY <1>1, LeastElement
<1>3. \A y \in T : y <= n - k
  <2>1. TAKE y \in T
  <2>2. n - y \in Nat /\ n - (n - y) = y
    OBVIOUS
  <2>3. k <= n - y
    BY <1>2, <2>2
  <2>4. QED
    BY <2>2, <2>3
<1>4. \E x \in T : \A y \in T : x >= y
  BY <1>2, <1>3
<1>5. Max(T) \in T /\ \A y \in T : Max(T) >= y
  BY <1>4 DEF Max
<1>6. QED
  BY <1>5

-----------------------------------------------------------------------------
(* first_gap: a scan over any cover finds a gap where, and only where, a   *)
(* byte of the range lies in no part of the cover.                         *)

Over(r, b) == r.offset <= b /\ b < End(r)
Covered(cover, b) == \E r \in cover : Over(r, b)

\* The ranges of a cover are ranges, and end somewhere.
Ranges(cover) ==
  /\ \A r \in cover : r.offset \in Nat /\ r.size \in Nat
  /\ \E n \in Nat : \A r \in cover : End(r) <= n

Furthest(cover, cursor) ==
  Max({cursor} \cup {End(r) : r \in {c \in cover : c.offset <= cursor /\ cursor < End(c)}})

\* The jump lands past the cursor exactly when something covers it, and on
\* nothing it jumps over.
LEMMA FurthestFacts ==
  ASSUME NEW cover, Ranges(cover), NEW cursor \in Nat
  PROVE  /\ Furthest(cover, cursor) \in Nat /\ cursor <= Furthest(cover, cursor)
         /\ Furthest(cover, cursor) = cursor <=> ~Covered(cover, cursor)
         /\ \A b \in cursor .. Furthest(cover, cursor) - 1 : Covered(cover, b)
<1> DEFINE ends == {End(r) : r \in {c \in cover : c.offset <= cursor /\ cursor < End(c)}}
           T == {cursor} \cup ends
           f == Furthest(cover, cursor)
<1>1. PICK n \in Nat : \A r \in cover : End(r) <= n
  BY DEF Ranges
<1>2. \A r \in cover : r.offset \in Nat /\ End(r) \in Nat
  BY DEF Ranges, End
<1>3. PICK m \in Nat : n <= m /\ cursor <= m
  <2>1. n + cursor \in Nat /\ n <= n + cursor /\ cursor <= n + cursor
    BY <1>1
  <2>2. QED
    BY <2>1
<1>4. T \subseteq Nat /\ T # {} /\ \A y \in T : y <= m
  BY <1>1, <1>2, <1>3
<1>5. f = Max(T)
  BY DEF Furthest
<1>6. f \in T /\ \A y \in T : y <= f
  <2> HIDE DEF T, f
  <2>1. QED
    BY <1>3, <1>4, <1>5, MaxFacts
<1>7. f \in Nat /\ cursor <= f
  BY <1>4, <1>6
<1>8. ASSUME Covered(cover, cursor) PROVE f # cursor
  <2>1. PICK r \in cover : Over(r, cursor)
    BY <1>8 DEF Covered
  <2>2. End(r) \in T /\ cursor < End(r)
    BY <2>1 DEF Over
  <2>3. End(r) <= f /\ End(r) \in Nat
    BY <1>2, <1>6, <2>2
  <2>4. QED
    BY <1>7, <2>2, <2>3
<1>9. ASSUME f # cursor
      PROVE  \E r \in cover : r.offset <= cursor /\ cursor < End(r) /\ f = End(r)
  BY <1>6, <1>9
<1>10. \A b \in cursor .. f - 1 : Covered(cover, b)
  <2>1. TAKE b \in cursor .. f - 1
  <2>2. b \in Nat /\ cursor <= b /\ b < f /\ f # cursor
    BY <1>7
  <2>3. PICK r \in cover : r.offset <= cursor /\ f = End(r)
    BY <1>9, <2>2
  <2>4. QED
    BY <1>2, <2>2, <2>3 DEF Covered, Over
<1>11. f # cursor => Covered(cover, cursor)
  BY <1>9 DEF Covered, Over
<1>12. QED
  BY <1>7, <1>8, <1>10, <1>11

Gaps(cover, start, end) == {b \in Nat : start <= b /\ b < end /\ ~Covered(cover, b)}

\* What the scan answers from each place on.
Answers(cover, end) ==
  [c \in Nat |-> IF Gaps(cover, c, end) = {} THEN {} ELSE {Min(Gaps(cover, c, end))}]

IsScan(g, cover, end) ==
  g = [c \in Nat |-> IF c >= end THEN {}
                     ELSE IF Furthest(cover, c) = c THEN {c} ELSE g[Furthest(cover, c)]]

LEMMA AnswersScan ==
  ASSUME NEW cover, Ranges(cover), NEW end \in Nat
  PROVE  IsScan(Answers(cover, end), cover, end)
<1> DEFINE g == Answers(cover, end)
           F(c) == Furthest(cover, c)
<1>1. ASSUME NEW c \in Nat
      PROVE  g[c] = IF c >= end THEN {} ELSE IF F(c) = c THEN {c} ELSE g[F(c)]
  <2>1. g[c] = IF Gaps(cover, c, end) = {} THEN {} ELSE {Min(Gaps(cover, c, end))}
    BY DEF Answers
  <2>2. CASE c >= end
    <3>1. Gaps(cover, c, end) = {}
      BY <2>2 DEF Gaps
    <3>2. QED
      BY <2>1, <2>2, <3>1
  <2>3. CASE ~(c >= end) /\ F(c) = c
    <3>1. c \in Gaps(cover, c, end) /\ Gaps(cover, c, end) \subseteq Nat
      BY <2>3, FurthestFacts DEF Gaps
    <3>2. \A b \in Gaps(cover, c, end) : c <= b
      BY DEF Gaps
    <3>3. Min(Gaps(cover, c, end)) = c
      BY <3>1, <3>2, MinFacts
    <3>4. QED
      BY <2>1, <2>3, <3>1, <3>3
  <2>4. CASE ~(c >= end) /\ F(c) # c
    <3>1. F(c) \in Nat /\ c <= F(c) /\ \A b \in c .. F(c) - 1 : Covered(cover, b)
      BY FurthestFacts
    <3>2. Gaps(cover, c, end) = Gaps(cover, F(c), end)
      BY <3>1 DEF Gaps
    <3>3. g[F(c)] = g[c]
      BY <2>1, <3>1, <3>2 DEF Answers
    <3>4. QED
      BY <2>4, <3>3
  <2>5. QED
    BY <2>2, <2>3, <2>4
<1>2. g = [c \in Nat |-> g[c]]
  BY DEF Answers
<1>3. QED
  BY <1>1, <1>2 DEF IsScan

\* Nothing else solves the scan's equation, up to the end of the range.
LEMMA ScanUnique ==
  ASSUME NEW cover, Ranges(cover), NEW end \in Nat, NEW h, IsScan(h, cover, end),
         NEW start \in Nat
  PROVE  h[start] = Answers(cover, end)[start]
<1> DEFINE g == Answers(cover, end)
           F(c) == Furthest(cover, c)
           T == {n \in Nat : \E c \in Nat : c + n = end /\ h[c] # g[c]}
<1>1. \A c \in Nat : /\ h[c] = IF c >= end THEN {} ELSE IF F(c) = c THEN {c} ELSE h[F(c)]
                     /\ g[c] = IF c >= end THEN {} ELSE IF F(c) = c THEN {c} ELSE g[F(c)]
  <2>1. IsScan(g, cover, end)
    BY AnswersScan
  <2> HIDE DEF g
  <2>2. \A c \in Nat : h[c] = IF c >= end THEN {} ELSE IF F(c) = c THEN {c} ELSE h[F(c)]
    BY DEF IsScan
  <2>3. \A c \in Nat : g[c] = IF c >= end THEN {} ELSE IF F(c) = c THEN {c} ELSE g[F(c)]
    BY <2>1 DEF IsScan
  <2>4. QED
    BY <2>2, <2>3
<1>2. SUFFICES ASSUME h[start] # g[start] PROVE FALSE
  OBVIOUS
<1> HIDE DEF g
<1>3. ~(start >= end)
  BY <1>1, <1>2
<1>4. end - start \in T
  <2>1. end - start \in Nat /\ start + (end - start) = end
    BY <1>3
  <2>2. QED
    BY <1>2, <2>1
<1>5. PICK n \in T : \A m \in T : n <= m
  <2>1. T \subseteq Nat /\ T # {}
    BY <1>4
  <2> HIDE DEF T
  <2>2. QED
    BY <2>1, LeastElement
<1>6. PICK c \in Nat : c + n = end /\ h[c] # g[c]
  BY <1>5
<1>7. F(c) \in Nat /\ c <= F(c) /\ F(c) # c /\ ~(c >= end) /\ h[F(c)] # g[F(c)]
  BY <1>1, <1>6, FurthestFacts
<1>8. ~(F(c) >= end)
  BY <1>1, <1>7
<1>9. end - F(c) \in Nat /\ F(c) + (end - F(c)) = end /\ end - F(c) < n
  BY <1>5, <1>6, <1>7, <1>8
<1>10. end - F(c) \in T
  BY <1>7, <1>9
<1>11. QED
  BY <1>5, <1>9, <1>10

LEMMA FirstGapFinds ==
  ASSUME NEW cover, Ranges(cover), NEW start \in Nat, NEW end \in Nat
  PROVE  FirstGap(start, end, cover) = {} <=>
           \A b \in Nat : start <= b /\ b < end => Covered(cover, b)
<1>1. \E g : IsScan(g, cover, end)
  BY AnswersScan
<1>2. \E g : IsScan(g, cover, end) /\ FirstGap(start, end, cover) = g[start]
  BY <1>1 DEF FirstGap, IsScan, Furthest
<1>3. FirstGap(start, end, cover) = Answers(cover, end)[start]
  BY <1>2, ScanUnique
<1>4. FirstGap(start, end, cover) = {} <=> Gaps(cover, start, end) = {}
  BY <1>3 DEF Answers
<1>5. QED
  BY <1>4 DEF Gaps
-----------------------------------------------------------------------------
(* resolve_with: the ranges a contract grants for the arguments of an      *)
(* invocation cover the bytes it authorizes, and no others.                *)

Extent == [account_index : Nat, offset : Nat, size : Nat]
Column == [account_index : Nat, base_offset : Nat, stride : Nat, cell_size : Nat,
           count : Nat, argument_index : Nat]

OfAccount(ranges, index) == {r \in ranges : r.account_index = index}

\* The byte lies in the column, or the padding between its cells.
InColumn(rule, index, b) ==
  rule.account_index = index /\ rule.base_offset <= b /\ b < EnvelopeEnd(rule)

LEMMA TimesMonotone ==
  ASSUME NEW a \in Nat, NEW s \in Nat, NEW t \in Nat, s <= t
  PROVE  a * s \in Nat /\ a * t \in Nat /\ a * s <= a * t
<1>1. PICK d \in Nat : t = s + d
  <2>1. t - s \in Nat /\ t = s + (t - s)
    OBVIOUS
  <2>2. QED
    BY <2>1
<1>2. a * t = a * s + a * d
  BY <1>1
<1>3. a * s \in Nat /\ a * d \in Nat
  OBVIOUS
<1>4. QED
  BY <1>2, <1>3

LEMMA ColumnType ==
  ASSUME NEW rule \in Column
  PROVE  /\ EnvelopeEnd(rule) \in Nat /\ rule.base_offset \in Nat
         /\ rule.base_offset <= EnvelopeEnd(rule)
<1>1. /\ rule.base_offset \in Nat /\ rule.stride \in Nat
      /\ rule.cell_size \in Nat /\ rule.count \in Nat
  BY DEF Column
<1>2. PICK last \in Nat : last = IF rule.count = 0 THEN 0 ELSE rule.count - 1
  <2>1. CASE rule.count = 0
    BY <2>1
  <2>2. CASE rule.count # 0
    <3>1. rule.count - 1 \in Nat
      BY <1>1, <2>2
    <3>2. QED
      BY <2>2, <3>1
  <2>3. QED
    BY <2>1, <2>2
<1>3. rule.stride * last \in Nat
  BY <1>1
<1>4. EnvelopeEnd(rule) = rule.base_offset + rule.stride * last + rule.cell_size
  BY <1>2 DEF EnvelopeEnd
<1>5. QED
  BY <1>1, <1>3, <1>4

\* A cell of the column lies in the column.
LEMMA CellInEnvelope ==
  ASSUME NEW rule \in Column, NEW selected \in Nat, selected < rule.count
  PROVE  /\ CellStart(rule, selected) \in Nat /\ CellEnd(rule, selected) \in Nat
         /\ CellEnd(rule, selected) = CellStart(rule, selected) + rule.cell_size
         /\ rule.base_offset <= CellStart(rule, selected)
         /\ CellEnd(rule, selected) <= EnvelopeEnd(rule)
<1>1. /\ rule.base_offset \in Nat /\ rule.stride \in Nat
      /\ rule.cell_size \in Nat /\ rule.count \in Nat
  BY DEF Column
<1>2. PICK last \in Nat : last = rule.count - 1 /\ selected <= last /\ rule.count # 0
  <2>1. rule.count - 1 \in Nat /\ selected <= rule.count - 1 /\ rule.count # 0
    BY <1>1
  <2>2. QED
    BY <2>1
<1>3. PICK near \in Nat, far \in Nat :
        near = rule.stride * selected /\ far = rule.stride * last /\ near <= far
  BY <1>1, <1>2, TimesMonotone
<1>4. CellStart(rule, selected) = rule.base_offset + near
  BY <1>3 DEF CellStart
<1>5. CellEnd(rule, selected) = rule.base_offset + near + rule.cell_size
  BY <1>4 DEF CellEnd
<1>6. EnvelopeEnd(rule) = rule.base_offset + far + rule.cell_size
  BY <1>2, <1>3 DEF EnvelopeEnd
<1>7. QED
  BY <1>1, <1>3, <1>4, <1>5, <1>6

\* Subtracting a column leaves exactly the bytes outside it.
LEMMA SubtractLeaves ==
  ASSUME NEW range \in Extent, NEW rule \in Column
  PROVE  /\ SubtractEnvelope(range, rule) \subseteq Extent
         /\ \A q \in SubtractEnvelope(range, rule) :
              q.account_index = range.account_index /\ End(q) <= End(range)
         /\ \A b \in Nat : Covered(SubtractEnvelope(range, rule), b) <=>
              Over(range, b) /\ ~InColumn(rule, range.account_index, b)
<1> DEFINE S == SubtractEnvelope(range, rule)
           base == rule.base_offset
           env == EnvelopeEnd(rule)
           apart == \/ range.account_index # rule.account_index
                    \/ End(range) <= base \/ range.offset >= env
           before == [range EXCEPT !.size = base - range.offset]
           after == [range EXCEPT !.offset = env, !.size = End(range) - env]
<1>1. /\ range.account_index \in Nat /\ range.offset \in Nat /\ range.size \in Nat
      /\ End(range) \in Nat /\ End(range) = range.offset + range.size
  BY DEF Extent, End
<1>2. base \in Nat /\ env \in Nat /\ base <= env
  BY ColumnType
<1>3. S = IF apart THEN {range}
          ELSE {r \in {before} : range.offset < base} \cup {r \in {after} : End(range) > env}
  BY DEF SubtractEnvelope
<1>4. CASE apart
  <2>1. S = {range}
    BY <1>3, <1>4
  <2>2. \A b \in Nat : Over(range, b) => ~InColumn(rule, range.account_index, b)
    BY <1>1, <1>2, <1>4 DEF Over, InColumn
  <2>3. \A b \in Nat : Covered(S, b) <=> Over(range, b)
    BY <2>1 DEF Covered
  <2>4. QED
    BY <1>1, <2>1, <2>2, <2>3
<1>5. CASE ~apart
  <2>1. /\ range.account_index = rule.account_index
        /\ base < End(range) /\ range.offset < env
    BY <1>1, <1>2, <1>5
  <2>2. range.offset < base =>
          /\ before \in Extent /\ before.account_index = range.account_index
          /\ before.offset = range.offset /\ End(before) = base
    BY <1>1, <1>2 DEF Extent, End
  <2>3. End(range) > env =>
          /\ after \in Extent /\ after.account_index = range.account_index
          /\ after.offset = env /\ End(after) = End(range)
    <3>1. HAVE End(range) > env
    <3>2. End(range) - env \in Nat /\ env + (End(range) - env) = End(range)
      BY <1>1, <1>2, <3>1
    <3>3. after \in Extent
      BY <1>2, <3>2 DEF Extent
    <3>4. /\ after.account_index = range.account_index /\ after.offset = env
          /\ after.size = End(range) - env
      BY DEF Extent
    <3>5. End(after) = End(range)
      BY <3>2, <3>4 DEF End
    <3>6. QED
      BY <3>3, <3>4, <3>5
  <2> HIDE DEF before, after
  <2>4. \A q : q \in S <=> \/ q = before /\ range.offset < base
                           \/ q = after /\ End(range) > env
    BY <1>3, <1>5
  <2> HIDE DEF S, apart
  <2>5. S \subseteq Extent /\ \A q \in S : q.account_index = range.account_index
    BY <2>2, <2>3, <2>4
  <2>6. \A q \in S : End(q) <= End(range)
    BY <1>1, <1>2, <2>1, <2>2, <2>3, <2>4
  <2>7. ASSUME NEW b \in Nat
        PROVE  Covered(S, b) <=> Over(range, b) /\ ~(base <= b /\ b < env)
    <3>1. Covered(S, b) <=> \/ range.offset < base /\ Over(before, b)
                            \/ End(range) > env /\ Over(after, b)
      BY <2>4 DEF Covered
    <3>2. range.offset < base => (Over(before, b) <=> range.offset <= b /\ b < base)
      BY <2>2 DEF Over
    <3>3. End(range) > env => (Over(after, b) <=> env <= b /\ b < End(range))
      BY <2>3 DEF Over
    <3>4. QED
      BY <1>1, <1>2, <2>1, <3>1, <3>2, <3>3 DEF Over
  <2>8. \A b \in Nat : InColumn(rule, range.account_index, b) <=> base <= b /\ b < env
    BY <2>1 DEF InColumn
  <2> USE DEF S
  <2>9. QED
    BY <2>5, <2>6, <2>7, <2>8
<1>6. QED
  BY <1>4, <1>5

\* The static grants with the first columns subtracted, one after the other.
IsStatic(g, policy, n) ==
  g = [k \in 0 .. n |->
         IF k = 0 THEN policy.allows
         ELSE UNION {SubtractEnvelope(r, policy.parametric[k]) : r \in g[k - 1]}]

LEMMA StaticExists ==
  ASSUME NEW policy, NEW n \in Nat
  PROVE  \E g : IsStatic(g, policy, n)
<1> DEFINE T == {m \in Nat : ~\E g : IsStatic(g, policy, m)}
<1>1. SUFFICES ASSUME T # {} PROVE FALSE
  OBVIOUS
<1>2. PICK m \in T : \A l \in T : m <= l
  <2>1. T \subseteq Nat
    OBVIOUS
  <2> HIDE DEF T
  <2>2. QED
    BY <1>1, <2>1, LeastElement
<1>3. CASE m = 0
  <2>1. IsStatic([k \in 0 .. 0 |-> policy.allows], policy, 0)
    BY DEF IsStatic
  <2>2. QED
    BY <1>2, <1>3, <2>1
<1>4. CASE m # 0
  <2>1. m - 1 \in Nat /\ ~(m <= m - 1) /\ m \in Nat
    BY <1>2, <1>4
  <2>2. PICK g : IsStatic(g, policy, m - 1)
    BY <1>2, <2>1
  <2> DEFINE step(s, k) == UNION {SubtractEnvelope(r, policy.parametric[k]) : r \in s}
             h == [k \in 0 .. m |-> IF k = m THEN step(g[m - 1], m) ELSE g[k]]
  <2>3. ASSUME NEW k \in 0 .. m
        PROVE  h[k] = IF k = 0 THEN policy.allows ELSE step(h[k - 1], k)
    <3>1. CASE k = m
      <4>1. k - 1 \in 0 .. m /\ k - 1 # m
        BY <1>4, <2>1, <3>1
      <4>2. h[k - 1] = g[m - 1] /\ h[k] = step(g[m - 1], m)
        BY <2>1, <3>1, <4>1
      <4>3. QED
        BY <1>4, <3>1, <4>2
    <3>2. CASE k # m /\ k # 0
      <4>1. k \in 0 .. m - 1 /\ k - 1 \in 0 .. m /\ k - 1 # m
        BY <2>1, <3>2
      <4>2. h[k - 1] = g[k - 1] /\ h[k] = g[k]
        BY <3>2, <4>1
      <4>3. g[k] = step(g[k - 1], k)
        BY <2>2, <3>2, <4>1 DEF IsStatic
      <4>4. QED
        BY <3>2, <4>2, <4>3
    <3>3. CASE k # m /\ k = 0
      BY <2>1, <2>2, <3>3 DEF IsStatic
    <3>4. QED
      BY <3>1, <3>2, <3>3
  <2>4. h = [k \in 0 .. m |-> h[k]]
    OBVIOUS
  <2> HIDE DEF h
  <2>5. h = [k \in 0 .. m |-> IF k = 0 THEN policy.allows ELSE step(h[k - 1], k)]
    BY <2>3, <2>4
  <2>6. IsStatic(h, policy, m)
    BY <2>5 DEF IsStatic
  <2>7. QED
    BY <1>2, <2>6
<1>5. QED
  BY <1>3, <1>4

\* What the first k columns leave of the static grants.
Left(ranges, policy, k, n) ==
  /\ ranges \subseteq Extent
  /\ \A r \in ranges : End(r) <= n
  /\ \A index, b \in Nat :
       Covered(OfAccount(ranges, index), b) <=>
         /\ Covered(RangesOf(policy, index), b)
         /\ \A j \in 1 .. k : ~InColumn(policy.parametric[j], index, b)

LEMMA ColumnLeaves ==
  ASSUME NEW policy, NEW rule \in Column, NEW k \in Nat, rule = policy.parametric[k + 1],
         NEW ranges, NEW n \in Nat, Left(ranges, policy, k, n)
  PROVE  Left(UNION {SubtractEnvelope(r, rule) : r \in ranges}, policy, k + 1, n)
<1> DEFINE after == UNION {SubtractEnvelope(r, rule) : r \in ranges}
<1>1. /\ ranges \subseteq Extent
      /\ \A r \in ranges : End(r) <= n
      /\ \A index, b \in Nat :
           Covered(OfAccount(ranges, index), b) <=>
             /\ Covered(RangesOf(policy, index), b)
             /\ \A j \in 1 .. k : ~InColumn(policy.parametric[j], index, b)
  BY DEF Left
<1>2. ASSUME NEW q \in after
      PROVE  \E r \in ranges : q \in SubtractEnvelope(r, rule)
  OBVIOUS
<1>3. ASSUME NEW r \in ranges, NEW q \in SubtractEnvelope(r, rule)
      PROVE  q \in after
  OBVIOUS
<1> HIDE DEF after
<1>4. after \subseteq Extent /\ \A q \in after : End(q) <= n
  <2>1. SUFFICES ASSUME NEW q \in after PROVE q \in Extent /\ End(q) <= n
    OBVIOUS
  <2>2. PICK r \in ranges : q \in SubtractEnvelope(r, rule)
    BY <1>2
  <2>3. r \in Extent /\ End(r) <= n /\ q \in Extent /\ End(q) <= End(r)
    BY <1>1, <2>2, SubtractLeaves
  <2>4. End(q) \in Nat /\ End(r) \in Nat
    BY <2>3 DEF Extent, End
  <2>5. QED
    BY <2>3, <2>4
<1>5. ASSUME NEW index \in Nat, NEW b \in Nat
      PROVE  Covered(OfAccount(after, index), b) <=>
               Covered(OfAccount(ranges, index), b) /\ ~InColumn(rule, index, b)
  <2>1. ASSUME Covered(OfAccount(after, index), b)
        PROVE  Covered(OfAccount(ranges, index), b) /\ ~InColumn(rule, index, b)
    <3>1. PICK q \in after : q.account_index = index /\ Over(q, b)
      BY <2>1 DEF Covered, OfAccount
    <3>2. PICK r \in ranges : q \in SubtractEnvelope(r, rule)
      BY <1>2
    <3>3. Covered(SubtractEnvelope(r, rule), b)
      BY <3>1, <3>2 DEF Covered
    <3>4. r.account_index = index /\ Over(r, b) /\ ~InColumn(rule, r.account_index, b)
      BY <1>1, <3>1, <3>2, <3>3, SubtractLeaves
    <3>5. QED
      BY <3>4 DEF Covered, OfAccount
  <2>2. ASSUME Covered(OfAccount(ranges, index), b), ~InColumn(rule, index, b)
        PROVE  Covered(OfAccount(after, index), b)
    <3>1. PICK r \in ranges : r.account_index = index /\ Over(r, b)
      BY <2>2 DEF Covered, OfAccount
    <3>2. Covered(SubtractEnvelope(r, rule), b)
      BY <1>1, <2>2, <3>1, SubtractLeaves
    <3>3. PICK q \in SubtractEnvelope(r, rule) : Over(q, b)
      BY <3>2 DEF Covered
    <3>4. q \in after /\ q.account_index = index
      BY <1>1, <1>3, <3>1, <3>3, SubtractLeaves
    <3>5. QED
      BY <3>3, <3>4 DEF Covered, OfAccount
  <2>3. QED
    BY <2>1, <2>2
<1>6. ASSUME NEW index \in Nat, NEW b \in Nat
      PROVE  (\A j \in 1 .. k + 1 : ~InColumn(policy.parametric[j], index, b)) <=>
               /\ \A j \in 1 .. k : ~InColumn(policy.parametric[j], index, b)
               /\ ~InColumn(rule, index, b)
  <2>1. \A j : j \in 1 .. k + 1 <=> j \in 1 .. k \/ j = k + 1
    OBVIOUS
  <2>2. QED
    BY <2>1
<1>7. Left(after, policy, k + 1, n)
  BY <1>1, <1>4, <1>5, <1>6 DEF Left
<1>8. QED
  BY <1>7 DEF after

LEMMA StaticLeaves ==
  ASSUME NEW policy, WellDeclared(policy), NEW g,
         IsStatic(g, policy, Len(policy.parametric)),
         NEW k \in 0 .. Len(policy.parametric)
  PROVE  Left(g[k], policy, k, U32_MAX + U32_MAX)
<1> DEFINE rules == policy.parametric
           n == Len(rules)
           N == U32_MAX + U32_MAX
           T == {m \in 0 .. n : ~Left(g[m], policy, m, N)}
<1>1. rules \in Seq(Column) /\ n \in Nat /\ N \in Nat
  BY U32Assumption DEF WellDeclared, Column
<1>2. \A m \in 0 .. n : g[m] = IF m = 0 THEN policy.allows
                               ELSE UNION {SubtractEnvelope(r, rules[m]) : r \in g[m - 1]}
  BY DEF IsStatic
<1>3. SUFFICES ASSUME T # {} PROVE FALSE
  OBVIOUS
<1>4. PICK m \in T : \A l \in T : m <= l
  <2>1. T \subseteq Nat
    BY <1>1
  <2> HIDE DEF T
  <2>2. QED
    BY <1>3, <2>1, LeastElement
<1>5. m \in 0 .. n /\ ~Left(g[m], policy, m, N)
  BY <1>4
<1>6. CASE m = 0
  <2>1. g[0] = policy.allows
    BY <1>2, <1>5, <1>6
  <2>2. \A r \in policy.allows : r \in Extent /\ End(r) <= N
    <3>1. TAKE r \in policy.allows
    <3>2. r \in [account_index : Nat, offset : 0 .. U32_MAX, size : 0 .. U32_MAX]
      BY DEF WellDeclared
    <3>3. r \in Extent /\ r.offset \in 0 .. U32_MAX /\ r.size \in 0 .. U32_MAX
      BY <3>2, U32Assumption DEF Extent
    <3>4. QED
      BY <3>3, U32Assumption DEF End
  <2>3. \A index, b \in Nat :
          Covered(OfAccount(policy.allows, index), b) <=>
            /\ Covered(RangesOf(policy, index), b)
            /\ \A j \in 1 .. 0 : ~InColumn(rules[j], index, b)
    <3>1. \A index : OfAccount(policy.allows, index) = RangesOf(policy, index)
      BY DEF OfAccount, RangesOf
    <3>2. 1 .. 0 = {}
      OBVIOUS
    <3>3. QED
      BY <3>1, <3>2
  <2>4. QED
    BY <1>5, <1>6, <2>1, <2>2, <2>3 DEF Left
<1>7. CASE m # 0
  <2>1. m - 1 \in 0 .. n /\ m - 1 \in Nat /\ ~(m <= m - 1) /\ (m - 1) + 1 = m
    BY <1>1, <1>5, <1>7
  <2>2. Left(g[m - 1], policy, m - 1, N)
    BY <1>4, <2>1
  <2>3. rules[m] \in Column
    BY <1>1, <1>5, <1>7
  <2>4. Left(UNION {SubtractEnvelope(r, rules[m]) : r \in g[m - 1]}, policy, (m - 1) + 1, N)
    BY <1>1, <2>1, <2>2, <2>3, ColumnLeaves
  <2>5. QED
    BY <1>2, <1>5, <1>7, <2>1, <2>4
<1>8. QED
  BY <1>6, <1>7

\* The columns of an account that a byte lies in: at most one.
LEMMA OneColumn ==
  ASSUME NEW policy, WellDeclared(policy), NEW index, NEW b \in Nat,
         NEW j \in DOMAIN policy.parametric, InColumn(policy.parametric[j], index, b),
         NEW k \in DOMAIN policy.parametric, InColumn(policy.parametric[k], index, b)
  PROVE  j = k
<1>1. /\ policy.parametric \in Seq(Column)
      /\ \A l, m \in DOMAIN policy.parametric :
           l < m => ~Overlapping(policy.parametric[l], policy.parametric[m])
  BY DEF WellDeclared, Column
<1>2. \A l \in DOMAIN policy.parametric : policy.parametric[l] \in Column /\ l \in Nat
  BY <1>1
<1>3. /\ EnvelopeEnd(policy.parametric[j]) \in Nat /\ policy.parametric[j].base_offset \in Nat
      /\ EnvelopeEnd(policy.parametric[k]) \in Nat /\ policy.parametric[k].base_offset \in Nat
  BY <1>2, ColumnType
<1>4. /\ Overlapping(policy.parametric[j], policy.parametric[k])
      /\ Overlapping(policy.parametric[k], policy.parametric[j])
  BY <1>3 DEF InColumn, Overlapping
<1>5. ~(j < k) /\ ~(k < j)
  BY <1>1, <1>4
<1>6. QED
  BY <1>2, <1>5

\* The cell an invocation selects, as a range.
LEMMA SelectedCovers ==
  ASSUME NEW rule \in Column, NEW selected \in Nat, selected < rule.count
  PROVE  /\ SelectedRange(rule, selected) \in Extent
         /\ SelectedRange(rule, selected).account_index = rule.account_index
         /\ End(SelectedRange(rule, selected)) <= EnvelopeEnd(rule)
         /\ \A b \in Nat : Over(SelectedRange(rule, selected), b) <=>
              CellStart(rule, selected) <= b /\ b < CellEnd(rule, selected)
         /\ \A b \in Nat : Over(SelectedRange(rule, selected), b) =>
              InColumn(rule, rule.account_index, b)
<1> DEFINE r == SelectedRange(rule, selected)
<1>1. /\ CellStart(rule, selected) \in Nat /\ CellEnd(rule, selected) \in Nat
      /\ CellEnd(rule, selected) = CellStart(rule, selected) + rule.cell_size
      /\ rule.base_offset <= CellStart(rule, selected)
      /\ CellEnd(rule, selected) <= EnvelopeEnd(rule)
      /\ EnvelopeEnd(rule) \in Nat /\ rule.base_offset \in Nat
  BY CellInEnvelope, ColumnType
<1>2. rule.account_index \in Nat /\ rule.cell_size \in Nat
  BY DEF Column
<1>3. /\ r \in Extent /\ r.account_index = rule.account_index
      /\ r.offset = CellStart(rule, selected) /\ r.size = rule.cell_size
  BY <1>1, <1>2 DEF SelectedRange, Extent
<1>4. End(r) = CellEnd(rule, selected)
  BY <1>1, <1>3 DEF End
<1> HIDE DEF r
<1>5. \A b \in Nat : Over(r, b) <=> CellStart(rule, selected) <= b /\ b < CellEnd(rule, selected)
  BY <1>3, <1>4 DEF Over
<1>6. \A b \in Nat : Over(r, b) => InColumn(rule, rule.account_index, b)
  BY <1>1, <1>5 DEF InColumn
<1> USE DEF r
<1>7. QED
  BY <1>1, <1>3, <1>4, <1>5, <1>6

LEMMA ResolvedCovers ==
  ASSUME WellDeclared(contract.policy), args \in Seq(Nat), Resolvable(contract.policy, args)
  PROVE  /\ Ranges(ResolvedRanges(contract.policy, args))
         /\ \A index, b \in Nat :
              Covered(OfAccount(ResolvedRanges(contract.policy, args), index), b) <=>
                Authorized(index, b)
<1> DEFINE p == contract.policy
           rules == p.parametric
           n == Len(rules)
           chosen(k) == Selected(rules[k], args)
           cells == {SelectedRange(rules[k], chosen(k)) : k \in DOMAIN rules}
           all == ResolvedRanges(p, args)
<1>1. rules \in Seq(Column) /\ n \in Nat /\ DOMAIN rules = 1 .. n
  BY DEF WellDeclared, Column
<1>2. \A k \in DOMAIN rules :
        /\ rules[k] \in Column /\ SelectorBound(rules[k], args)
        /\ chosen(k) \in Nat /\ chosen(k) < rules[k].count /\ EnvelopeEnd(rules[k]) <= U32_MAX
  <2>1. TAKE k \in DOMAIN rules
  <2>2. rules[k] \in Column
    BY <1>1
  <2>3. /\ SelectorBound(rules[k], args) /\ chosen(k) < rules[k].count
        /\ EnvelopeEnd(rules[k]) <= U32_MAX
    BY DEF Resolvable, ValidRules, ValidRule
  <2>4. chosen(k) \in Nat
    BY <2>3 DEF SelectorBound, Selected
  <2>5. QED
    BY <2>2, <2>3, <2>4
<1>3. PICK g : IsStatic(g, p, n) /\ all = g[n] \cup cells
  <2>1. \E g : IsStatic(g, p, n)
    BY <1>1, StaticExists
  <2>2. QED
    BY <2>1 DEF ResolvedRanges, IsStatic
<1>4. Left(g[n], p, n, U32_MAX + U32_MAX)
  BY <1>1, <1>3, StaticLeaves
<1>5. /\ g[n] \subseteq Extent /\ \A r \in g[n] : End(r) <= U32_MAX + U32_MAX
      /\ \A index, b \in Nat :
           Covered(OfAccount(g[n], index), b) <=>
             /\ Covered(RangesOf(p, index), b)
             /\ \A j \in DOMAIN rules : ~InColumn(rules[j], index, b)
  BY <1>1, <1>4 DEF Left
<1>6. \A k \in DOMAIN rules :
        LET r == SelectedRange(rules[k], chosen(k))
        IN  /\ r \in Extent /\ r.account_index = rules[k].account_index
            /\ End(r) <= EnvelopeEnd(rules[k])
            /\ \A b \in Nat : Over(r, b) <=>
                 CellStart(rules[k], chosen(k)) <= b /\ b < CellEnd(rules[k], chosen(k))
            /\ \A b \in Nat : Over(r, b) => InColumn(rules[k], rules[k].account_index, b)
  BY <1>2, SelectedCovers
<1>7. cells \subseteq Extent /\ \A r \in cells : End(r) <= U32_MAX + U32_MAX
  <2>1. SUFFICES ASSUME NEW k \in DOMAIN rules
                 PROVE  /\ SelectedRange(rules[k], chosen(k)) \in Extent
                        /\ End(SelectedRange(rules[k], chosen(k))) <= U32_MAX + U32_MAX
    OBVIOUS
  <2>2. EnvelopeEnd(rules[k]) \in Nat /\ EnvelopeEnd(rules[k]) <= U32_MAX
    BY <1>2, ColumnType
  <2>3. End(SelectedRange(rules[k], chosen(k))) \in Nat
    BY <1>6 DEF Extent, End
  <2>4. QED
    BY <1>6, <2>2, <2>3, U32Assumption
<1>8. Ranges(all)
  <2>1. all \subseteq Extent /\ \A r \in all : End(r) <= U32_MAX + U32_MAX
    BY <1>3, <1>5, <1>7
  <2>2. U32_MAX + U32_MAX \in Nat
    BY U32Assumption
  <2> HIDE DEF all
  <2>3. QED
    BY <2>1, <2>2 DEF Ranges, Extent
<1>9. ASSUME NEW index \in Nat, NEW b \in Nat
      PROVE  Covered(OfAccount(all, index), b) <=> Authorized(index, b)
  <2> DEFINE columns == {k \in DOMAIN rules : InColumn(rules[k], index, b)}
             inCell(k) == /\ SelectorBound(rules[k], args)
                          /\ b >= CellStart(rules[k], chosen(k))
                          /\ b < CellEnd(rules[k], chosen(k))
  <2>1. Authorized(index, b) <=>
          IF columns = {} THEN Covered(RangesOf(p, index), b) ELSE \A k \in columns : inCell(k)
    BY DEF Authorized, InColumn, Covered, Over
  <2>2. Covered(OfAccount(all, index), b) <=>
          \/ Covered(OfAccount(g[n], index), b)
          \/ Covered(OfAccount(cells, index), b)
    BY <1>3 DEF Covered, OfAccount
  <2>3. Covered(OfAccount(g[n], index), b) <=> Covered(RangesOf(p, index), b) /\ columns = {}
    BY <1>5
  <2>4. Covered(OfAccount(cells, index), b) <=>
          \E k \in DOMAIN rules : rules[k].account_index = index
                                  /\ Over(SelectedRange(rules[k], chosen(k)), b)
    BY <1>6 DEF Covered, OfAccount
  <2>5. ASSUME Covered(OfAccount(cells, index), b)
        PROVE  columns # {} /\ \A k \in columns : inCell(k)
    <3>1. PICK k \in DOMAIN rules : rules[k].account_index = index
                                    /\ Over(SelectedRange(rules[k], chosen(k)), b)
      BY <2>4, <2>5
    <3>2. k \in columns /\ inCell(k)
      BY <1>2, <1>6, <3>1, CellInEnvelope
    <3>3. \A j \in columns : j = k
      BY <3>2, OneColumn
    <3>4. QED
      BY <3>2, <3>3
  <2>6. ASSUME NEW k \in columns, inCell(k)
        PROVE  Covered(OfAccount(cells, index), b)
    <3>1. rules[k].account_index = index /\ k \in DOMAIN rules
      BY DEF InColumn
    <3>2. Over(SelectedRange(rules[k], chosen(k)), b)
      BY <1>2, <1>6, <2>6, <3>1, CellInEnvelope
    <3>3. QED
      BY <2>4, <3>1, <3>2
  <2> HIDE DEF columns, inCell
  <2>7. QED
    BY <2>1, <2>2, <2>3, <2>5, <2>6
<1>10. QED
  BY <1>8, <1>9

-----------------------------------------------------------------------------
(* changed_intervals and verify_contract *)

LEMMA RunType ==
  ASSUME NEW B, B \subseteq Nat, NEW c \in Nat, NEW r \in [offset : B, size : 1 .. c]
  PROVE  r.offset \in Nat /\ r.size \in Nat \ {0}
<1>1. r.offset \in B /\ r.size \in 1 .. c
  OBVIOUS
<1>2. r.offset \in Nat
  BY <1>1
<1>3. r.size \in Nat \ {0}
  BY <1>1
<1>4. QED
  BY <1>2, <1>3

\* The runs of a set of bytes cover the set, and nothing else.
LEMMA RunsCover ==
  ASSUME NEW B, B \subseteq Nat, NEW n \in Nat, \A b \in B : b < n
  PROVE  /\ \A r \in Runs(B) : /\ r.offset \in Nat /\ r.size \in Nat /\ End(r) <= n
                               /\ \A b \in Nat : Over(r, b) => b \in B
         /\ \A b \in B : \E r \in Runs(B) : Over(r, b)
<1>1. IsFiniteSet(B) /\ Cardinality(B) \in Nat
  <2>1. B \subseteq 0 .. n - 1
    OBVIOUS
  <2>2. IsFiniteSet(0 .. n - 1)
    BY FS_Interval
  <2>3. IsFiniteSet(B)
    BY <2>1, <2>2, FS_Subset
  <2>4. QED
    BY <2>3, FS_CardinalityType
<1>2. ASSUME NEW r \in Runs(B)
      PROVE  /\ r.offset \in Nat /\ r.size \in Nat /\ End(r) <= n
             /\ \A b \in Nat : Over(r, b) => b \in B
  <2>0. /\ r \in [offset : B, size : 1 .. Cardinality(B)]
        /\ r.offset .. End(r) - 1 \subseteq B
    BY DEF Runs
  <2>1. /\ r.offset \in Nat /\ r.size \in Nat \ {0} /\ End(r) = r.offset + r.size
        /\ r.offset .. End(r) - 1 \subseteq B
    <3>1. r.offset \in Nat /\ r.size \in Nat \ {0}
      BY <1>1, <2>0, RunType
    <3>2. QED
      BY <2>0, <3>1 DEF End
  <2>2. End(r) \in Nat /\ End(r) - 1 \in r.offset .. End(r) - 1
    BY <2>1
  <2>3. End(r) <= n
    BY <2>1, <2>2
  <2>4. \A b \in Nat : Over(r, b) => b \in r.offset .. End(r) - 1
    BY <2>1, <2>2 DEF Over
  <2>5. QED
    BY <2>1, <2>3, <2>4
<1>3. ASSUME NEW b \in B PROVE \E r \in Runs(B) : Over(r, b)
  <2> DEFINE L == {x \in Nat : x <= b /\ x .. b \subseteq B}
             H == {y \in Nat : b < y /\ y \notin B}
  <2>1. PICK lo \in L : \A x \in L : lo <= x
    <3>1. L \subseteq Nat /\ b \in L
      OBVIOUS
    <3> HIDE DEF L
    <3>2. QED
      BY <3>1, LeastElement
  <2>2. PICK hi \in H : \A y \in H : hi <= y
    <3>1. H \subseteq Nat /\ n \in H
      OBVIOUS
    <3> HIDE DEF H
    <3>2. QED
      BY <3>1, LeastElement
  <2>3. /\ lo \in Nat /\ hi \in Nat /\ b \in Nat /\ lo <= b /\ b < hi
        /\ lo .. b \subseteq B /\ hi \notin B
    BY <2>1, <2>2
  <2>4. lo .. hi - 1 \subseteq B
    <3>1. SUFFICES ASSUME NEW x \in lo .. hi - 1 PROVE x \in B
      OBVIOUS
    <3>2. CASE x <= b
      BY <2>3, <3>2
    <3>3. CASE x > b
      BY <2>2, <2>3, <3>3
    <3>4. QED
      BY <2>3, <3>2, <3>3
  <2>5. lo = 0 \/ lo - 1 \notin B
    <3>1. SUFFICES ASSUME lo # 0, lo - 1 \in B PROVE FALSE
      OBVIOUS
    <3>2. lo - 1 \in L
      BY <2>3, <3>1
    <3>3. QED
      BY <2>1, <2>3, <3>2
  <2>6. hi - lo \in 1 .. Cardinality(B)
    <3>1. Cardinality(lo .. hi - 1) = hi - lo
      BY <2>3, FS_Interval
    <3>2. Cardinality(lo .. hi - 1) <= Cardinality(B)
      BY <1>1, <2>4, FS_Subset
    <3>3. QED
      BY <1>1, <2>3, <3>1, <3>2
  <2> HIDE DEF L, H
  <2> DEFINE r == [offset |-> lo, size |-> hi - lo]
  <2>7. r.offset = lo /\ r.size = hi - lo /\ End(r) = hi
    BY <2>3 DEF End
  <2>8. r \in [offset : B, size : 1 .. Cardinality(B)]
    BY <2>3, <2>6
  <2> HIDE DEF r
  <2>9. r \in Runs(B)
    BY <2>3, <2>4, <2>5, <2>7, <2>8 DEF Runs
  <2>10. Over(r, b)
    BY <2>3, <2>7 DEF Over
  <2>11. QED
    BY <2>9, <2>10
<1>4. QED
  BY <1>2, <1>3

LEMMA MaxOfTwo ==
  ASSUME NEW m \in Nat, NEW n \in Nat
  PROVE  /\ Max({m, n}) \in Nat /\ m <= Max({m, n}) /\ n <= Max({m, n})
         /\ Max({m, n}) \in {m, n}
<1>1. {m, n} \subseteq Nat /\ {m, n} # {} /\ m + n \in Nat /\ \A y \in {m, n} : y <= m + n
  OBVIOUS
<1>2. Max({m, n}) \in {m, n} /\ \A y \in {m, n} : y <= Max({m, n})
  BY <1>1, MaxFacts
<1>3. QED
  BY <1>2

\* A changed byte lies in one snapshot; it differs, or the other has no such byte.
LEMMA ChangedMeans ==
  ASSUME NEW pre \in Seq(Nat), NEW post \in Seq(Nat)
  PROVE  \A b : b \in ChangedBytes(pre, post) <=>
           /\ b \in Nat /\ (b < Len(pre) \/ b < Len(post))
           /\ b >= Len(pre) \/ b >= Len(post) \/ pre[b + 1] # post[b + 1]
<1>1. Len(pre) \in Nat /\ Len(post) \in Nat
  OBVIOUS
<1> DEFINE m == Max({Len(pre), Len(post)})
<1>2. /\ m \in Nat /\ Len(pre) <= m /\ Len(post) <= m
      /\ m = Len(pre) \/ m = Len(post)
  BY <1>1, MaxOfTwo
<1>3. \A b : b \in 0 .. m - 1 <=> b \in Nat /\ (b < Len(pre) \/ b < Len(post))
  <2> HIDE DEF m
  <2>1. QED
    BY <1>1, <1>2
<1>4. QED
  BY <1>3 DEF ChangedBytes

LEMMA ChangedBounded ==
  ASSUME NEW pre \in Seq(Nat), NEW post \in Seq(Nat)
  PROVE  \E n \in Nat : ChangedBytes(pre, post) \subseteq Nat
                        /\ \A b \in ChangedBytes(pre, post) : b < n
<1>1. PICK l \in Nat, m \in Nat : l = Len(pre) /\ m = Len(post)
  OBVIOUS
<1>2. l + m \in Nat /\ \A b \in Nat : b < l \/ b < m => b < l + m
  OBVIOUS
<1>3. \A b \in ChangedBytes(pre, post) : b \in Nat /\ (b < l \/ b < m)
  BY <1>1, ChangedMeans
<1>4. QED
  BY <1>2, <1>3

\* A PASS on a delta: each byte that changed lies in a range the contract grants
\* for the delta's account, and a complete contract grants its balance change.
LEMMA PassMeans ==
  ASSUME NEW authorized, Ranges(authorized), NEW map, Ranges(map.records),
         NEW d, d.account_index \in Nat, d.pre \in Seq(Nat), d.post \in Seq(Nat),
         VerifyContract(contract, authorized, {d}, map) = "Pass"
  PROVE  /\ contract.strict
         /\ \A b \in ChangedBytes(d.pre, d.post) :
              Covered(OfAccount(authorized, d.account_index), b)
         /\ d.lamports_changed => AllowsLamportMutation(contract.policy, d.account_index)
<1> DEFINE index == d.account_index
           changed == ChangedBytes(d.pre, d.post)
           acquired == Acquired(map, index)
<1>1. contract.strict /\ ~Violating(contract, authorized, {d}, map)
  BY DEF VerifyContract
<1>2. ~Untracked(d, map) /\ ~UnauthorizedLamports(d, contract)
  BY <1>1 DEF Violating
<1>3. \A r \in acquired : r \in map.records /\ ~UnauthorizedAcquisition(r, authorized)
                          /\ r.slot = index
  BY <1>1 DEF Violating, Acquired
<1>4. Ranges(acquired) /\ Ranges(OfAccount(authorized, index))
  BY DEF Ranges, Acquired, OfAccount
<1>5. PICK n \in Nat : changed \subseteq Nat /\ \A b \in changed : b < n
  BY ChangedBounded
<1>6. ASSUME NEW b \in changed PROVE Covered(OfAccount(authorized, index), b)
  <2>1. PICK c \in Runs(changed) : Over(c, b)
    BY <1>5, RunsCover
  <2>2. /\ c.offset \in Nat /\ c.size \in Nat /\ End(c) \in Nat /\ b \in Nat
        /\ c \in ChangedIntervals(d.pre, d.post)
    <3>1. c \in ChangedIntervals(d.pre, d.post)
      BY DEF ChangedIntervals
    <3> HIDE DEF changed
    <3>2. c.offset \in Nat /\ c.size \in Nat /\ b \in Nat
      BY <1>5, RunsCover
    <3>3. End(c) \in Nat
      BY <3>2 DEF End
    <3>4. QED
      BY <3>1, <3>2, <3>3
  <2>3. FirstGap(c.offset, End(c), acquired) = {}
    BY <1>2, <2>2 DEF Untracked
  <2>4. Covered(acquired, b)
    BY <1>4, <2>1, <2>2, <2>3, FirstGapFinds DEF Over
  <2>5. PICK r \in acquired : Over(r, b)
    BY <2>4 DEF Covered
  <2>6. r.offset \in Nat /\ End(r) \in Nat
    BY <1>4 DEF Ranges, End
  <2>7. FirstGap(r.offset, End(r), OfAccount(authorized, index)) = {}
    BY <1>3 DEF UnauthorizedAcquisition, OfAccount
  <2>8. QED
    BY <1>4, <2>2, <2>5, <2>6, <2>7, FirstGapFinds DEF Over
<1>7. d.lamports_changed => AllowsLamportMutation(contract.policy, index)
  BY <1>1, <1>2 DEF UnauthorizedLamports, MutationComplete, AllowsLamportMutation
<1>8. QED
  BY <1>1, <1>6, <1>7

-----------------------------------------------------------------------------
(* Authorization, as the policy checks it and as the verifier resolves it *)

\* The ranges say what the contract means, byte by byte.
Faithful(authorized) ==
  /\ Ranges(authorized)
  /\ \A index, b \in Nat : Covered(OfAccount(authorized, index), b) <=> Authorized(index, b)

LEMMA StaticFaithful ==
  ASSUME WellDeclared(contract.policy), contract.policy.parametric = <<>>
  PROVE  Faithful(contract.policy.allows)
<1> DEFINE p == contract.policy
<1>1. Ranges(p.allows)
  <2>1. \A r \in p.allows : r.offset \in 0 .. U32_MAX /\ r.size \in 0 .. U32_MAX
    BY DEF WellDeclared
  <2>2. U32_MAX + U32_MAX \in Nat
    BY U32Assumption
  <2>3. \A r \in p.allows : r.offset \in Nat /\ r.size \in Nat /\ End(r) <= U32_MAX + U32_MAX
    BY <2>1, U32Assumption DEF End
  <2>4. QED
    BY <2>2, <2>3 DEF Ranges
<1>2. \A index : OfAccount(p.allows, index) = RangesOf(p, index)
  BY DEF OfAccount, RangesOf
<1>3. ASSUME NEW index \in Nat, NEW b \in Nat
      PROVE  Authorized(index, b) <=> Covered(RangesOf(p, index), b)
  <2>1. {k \in DOMAIN p.parametric : /\ p.parametric[k].account_index = index
                                     /\ p.parametric[k].base_offset <= b
                                     /\ b < EnvelopeEnd(p.parametric[k])} = {}
    OBVIOUS
  <2>2. QED
    BY <2>1 DEF Authorized, Covered, Over
<1>4. QED
  BY <1>1, <1>2, <1>3 DEF Faithful

LEMMA ResolvedFaithful ==
  ASSUME WellDeclared(contract.policy), args \in Seq(Nat), Resolvable(contract.policy, args)
  PROVE  Faithful(ResolvedRanges(contract.policy, args))
BY ResolvedCovers DEF Faithful

\* What check_write_policy lets through is authorized, byte by byte; without the
\* selector values it lets through nothing more.
LEMMA CheckedIsAuthorized ==
  ASSUME WellDeclared(contract.policy), args \in Seq(Nat), NEW bound \in {args, <<>>},
         NEW index \in Nat, NEW offset \in Nat, NEW size \in Nat,
         CheckWriteWithArgs(contract.policy, index, offset, size, bound),
         NEW b \in Nat, offset <= b, b < offset + size
  PROVE  Authorized(index, b)
<1> DEFINE p == contract.policy
           rules == p.parametric
           governing == Governing(p, index, offset, size)
           columns == {k \in DOMAIN rules : InColumn(rules[k], index, b)}
           inCell(k) == /\ SelectorBound(rules[k], args)
                        /\ b >= CellStart(rules[k], Selected(rules[k], args))
                        /\ b < CellEnd(rules[k], Selected(rules[k], args))
<1>1. Authorized(index, b) <=>
        IF columns = {} THEN Covered(RangesOf(p, index), b) ELSE \A k \in columns : inCell(k)
  BY DEF Authorized, InColumn, Covered, Over
<1>2. rules \in Seq(Column) /\ \A k \in DOMAIN rules : rules[k] \in Column
  <2>1. rules \in Seq(Column)
    BY DEF WellDeclared, Column
  <2>2. QED
    BY <2>1
<1>3. columns \subseteq governing
  <2>1. SUFFICES ASSUME NEW k \in columns PROVE k \in governing
    OBVIOUS
  <2>2. rules[k].base_offset \in Nat /\ EnvelopeEnd(rules[k]) \in Nat
    BY <1>2, ColumnType
  <2>3. EnvelopeOverlaps(rules[k], offset, size)
    BY <2>2 DEF InColumn, EnvelopeOverlaps
  <2>4. QED
    BY <2>3 DEF Governing, InColumn
<1>4. CASE governing = {}
  <2>1. PICK r \in RangesOf(p, index) : Contains(r, offset, size)
    BY <1>4 DEF CheckWriteWithArgs, CheckWrite
  <2>2. r.offset \in 0 .. U32_MAX /\ r.size \in 0 .. U32_MAX
    BY DEF RangesOf, WellDeclared
  <2>3. Over(r, b)
    BY <2>1, <2>2, U32Assumption DEF Contains, Over, End
  <2>4. QED
    BY <1>1, <1>3, <1>4, <2>3 DEF Covered
<1>5. CASE governing # {}
  <2> DEFINE k == Min(governing)
  <2>1. k \in DOMAIN rules /\ rules[k].account_index = index
    <3>1. governing \subseteq DOMAIN rules /\ DOMAIN rules \subseteq Nat
      BY <1>2 DEF Governing
    <3>2. k \in governing
      BY <1>5, <3>1, MinFacts
    <3>3. QED
      BY <3>2 DEF Governing
  <2>2. /\ SelectorBound(rules[k], bound)
        /\ SelectedContains(rules[k], Selected(rules[k], bound), offset, size)
    BY <1>5 DEF CheckWriteWithArgs
  <2>3. bound = args
    BY <2>2 DEF SelectorBound
  <2> DEFINE selected == Selected(rules[k], args)
  <2>4. rules[k] \in Column /\ selected \in Nat /\ selected < rules[k].count
    BY <1>2, <2>1, <2>2, <2>3 DEF SelectorBound, Selected, SelectedContains
  <2> HIDE DEF k, selected
  <2>5. /\ CellStart(rules[k], selected) \in Nat /\ CellEnd(rules[k], selected) \in Nat
        /\ rules[k].base_offset <= CellStart(rules[k], selected)
        /\ CellEnd(rules[k], selected) <= EnvelopeEnd(rules[k])
        /\ EnvelopeEnd(rules[k]) \in Nat /\ rules[k].base_offset \in Nat
    BY <2>4, CellInEnvelope, ColumnType
  <2>6. b >= CellStart(rules[k], selected) /\ b < CellEnd(rules[k], selected)
    BY <2>2, <2>3, <2>5 DEF SelectedContains, selected
  <2>7. inCell(k)
    BY <2>2, <2>3, <2>6 DEF selected
  <2>8. InColumn(rules[k], index, b)
    BY <2>1, <2>5, <2>6 DEF InColumn
  <2>9. k \in columns /\ \A j \in columns : j = k
    BY <2>1, <2>8, OneColumn
  <2> HIDE DEF columns, inCell
  <2>10. QED
    BY <1>1, <2>7, <2>9
<1>6. QED
  BY <1>4, <1>5

-----------------------------------------------------------------------------
(* The state *)

\* A set of bytes, <<address, offset>>, that ends somewhere.
Marks(set) ==
  /\ set \subseteq Address \X Nat
  /\ \E n \in Nat : \A x \in set : x[2] < n

Typed ==
  /\ accounts \in Seq(Address) /\ second \in Seq(Address) /\ args \in Seq(Nat)
  /\ WellDeclared(contract.policy)
  /\ data \in [Address -> Seq(Nat)]
  /\ \A v \in views : \A x \in v.bytes : x \in Address \X Nat /\ x[1] = v.key
  /\ Marks(touched)
  /\ Ranges(emitted.records)

LEMMA EntryType ==
  ASSUME NEW a \in Address
  PROVE  Entry(a) \in Seq(Nat) /\ Len(Entry(a)) = EntryLength[a] /\ EntryLength[a] \in Nat
<1>1. EntryLength[a] \in Nat
  BY FootprintAssumption
<1>2. QED
  BY <1>1 DEF Entry

\* A PASS for one account, whatever map the program emitted.
LEMMA PassIsAuthorized ==
  ASSUME Typed, NEW i \in DOMAIN accounts, "Pass" \in Verdicts(i)
  PROVE  /\ \A b \in Changed(accounts[i]) : Authorized(i - 1, b)
         /\ Moved(accounts[i]) => AllowsLamportMutation(contract.policy, i - 1)
<1> DEFINE d == Delta(i)
           p == contract.policy
<1>1. accounts[i] \in Address /\ i - 1 \in Nat
  BY DEF Typed
<1>2. /\ d.account_index = i - 1 /\ d.account_index \in Nat
      /\ d.pre = Entry(accounts[i]) /\ d.pre \in Seq(Nat)
      /\ d.post = data[accounts[i]] /\ d.post \in Seq(Nat)
      /\ d.lamports_changed = Moved(accounts[i])
  BY <1>1, EntryType DEF Delta, Typed
<1> HIDE DEF d
<1>3. ASSUME NEW authorized, Faithful(authorized),
             VerifyContract(contract, authorized, {d}, emitted) = "Pass"
      PROVE  /\ \A b \in Changed(accounts[i]) : Authorized(i - 1, b)
             /\ Moved(accounts[i]) => AllowsLamportMutation(p, i - 1)
  <2>1. /\ \A b \in ChangedBytes(d.pre, d.post) : Covered(OfAccount(authorized, i - 1), b)
        /\ d.lamports_changed => AllowsLamportMutation(p, i - 1)
    BY <1>2, <1>3, PassMeans DEF Faithful, Typed
  <2>2. \A b \in ChangedBytes(d.pre, d.post) : b \in Nat
    BY <1>2, ChangedMeans
  <2>3. \A b \in ChangedBytes(d.pre, d.post) : Authorized(i - 1, b)
    BY <1>1, <1>3, <2>1, <2>2 DEF Faithful
  <2>4. QED
    BY <1>2, <2>1, <2>3 DEF Changed
<1>4. CASE Verify(contract, {d}, emitted) = "Pass"
  <2>1. /\ p.parametric = <<>>
        /\ VerifyContract(contract, p.allows, {d}, emitted) = "Pass"
    BY <1>4 DEF Verify
  <2>2. Faithful(p.allows)
    BY <2>1, StaticFaithful DEF Typed
  <2>3. QED
    BY <1>3, <2>1, <2>2
<1>5. CASE VerifyInvocation(contract, args, {d}, emitted) = "Pass"
  <2>1. /\ Resolvable(p, args)
        /\ VerifyContract(contract, ResolvedRanges(p, args), {d}, emitted) = "Pass"
    BY <1>5 DEF VerifyInvocation
  <2>2. Faithful(ResolvedRanges(p, args))
    BY <2>1, ResolvedFaithful DEF Typed
  <2>3. QED
    BY <1>3, <2>1, <2>2
<1>6. QED
  BY <1>4, <1>5 DEF Verdicts, d

\* The records of a map say which bytes of each listed account the log names.
LEMMA EncodedMeans ==
  ASSUME Marks(touched), NEW list \in Seq(Address)
  PROVE  /\ Ranges(Encoded(list).records)
         /\ Encoded(list).overflowed = overflow
         /\ \A r \in Encoded(list).records :
              \E i \in DOMAIN list : /\ r.slot = SlotOf(list, list[i])
                                     /\ \A b \in Nat : Over(r, b) => <<list[i], b>> \in touched
         /\ \A i \in DOMAIN list : \A b \in Nat : <<list[i], b>> \in touched =>
              \E r \in Encoded(list).records :
                r.write /\ r.slot = SlotOf(list, list[i]) /\ Over(r, b)
<1> DEFINE listed == {list[k] : k \in DOMAIN list}
           BytesOf(a) == {b[2] : b \in {c \in touched : c[1] = a}}
           Rec(a, r) == [slot |-> SlotOf(list, a), offset |-> r.offset, size |-> r.size,
                         write |-> TRUE]
           records == UNION {{Rec(a, r) : r \in Runs(BytesOf(a))} : a \in listed}
<1>1. Encoded(list).records = records /\ Encoded(list).overflowed = overflow
  BY DEF Encoded
<1>2. PICK n \in Nat : \A x \in touched : x \in Address \X Nat /\ x[2] < n
  BY DEF Marks
<1>3. ASSUME NEW a
      PROVE  /\ BytesOf(a) \subseteq Nat /\ \A b \in BytesOf(a) : b < n
             /\ \A b : b \in BytesOf(a) <=> <<a, b>> \in touched
  BY <1>2
<1>4. ASSUME NEW a
      PROVE  /\ \A r \in Runs(BytesOf(a)) :
                  /\ r.offset \in Nat /\ r.size \in Nat /\ End(r) <= n
                  /\ \A b \in Nat : Over(r, b) => b \in BytesOf(a)
             /\ \A b \in BytesOf(a) : \E r \in Runs(BytesOf(a)) : Over(r, b)
  <2> HIDE DEF BytesOf
  <2>1. QED
    BY <1>2, <1>3, RunsCover
<1>5. \A a, r : /\ Rec(a, r).slot = SlotOf(list, a) /\ Rec(a, r).write
                /\ Rec(a, r).offset = r.offset /\ Rec(a, r).size = r.size
                /\ End(Rec(a, r)) = End(r) /\ \A b : Over(Rec(a, r), b) <=> Over(r, b)
  BY DEF End, Over
<1>6. \A q \in records : \E a \in listed : \E r \in Runs(BytesOf(a)) : q = Rec(a, r)
  OBVIOUS
<1>7. \A a \in listed : \A r \in Runs(BytesOf(a)) : Rec(a, r) \in records
  <2>1. TAKE a \in listed
  <2>2. TAKE r \in Runs(BytesOf(a))
  <2>3. Rec(a, r) \in {Rec(a, s) : s \in Runs(BytesOf(a))}
    OBVIOUS
  <2> HIDE DEF Rec, BytesOf
  <2>4. QED
    BY <2>3
<1>8. \A a : a \in listed <=> \E i \in DOMAIN list : list[i] = a
  OBVIOUS
<1> HIDE DEF listed, BytesOf, Rec, records
<1>9. Ranges(records)
  <2>1. \A q \in records : q.offset \in Nat /\ q.size \in Nat /\ End(q) <= n
    BY <1>4, <1>5, <1>6
  <2>2. QED
    BY <1>2, <2>1 DEF Ranges
<1>10. ASSUME NEW q \in records
       PROVE  \E i \in DOMAIN list : /\ q.slot = SlotOf(list, list[i])
                                     /\ \A b \in Nat : Over(q, b) => <<list[i], b>> \in touched
  <2>1. PICK a \in listed : \E r \in Runs(BytesOf(a)) : q = Rec(a, r)
    BY <1>6
  <2>2. PICK r \in Runs(BytesOf(a)) : q = Rec(a, r)
    BY <2>1
  <2>3. q.slot = SlotOf(list, a) /\ \A b \in Nat : Over(q, b) => <<a, b>> \in touched
    BY <1>3, <1>4, <1>5, <2>2
  <2>4. QED
    BY <1>8, <2>1, <2>3
<1>11. ASSUME NEW i \in DOMAIN list, NEW b \in Nat, <<list[i], b>> \in touched
       PROVE  \E q \in records : q.write /\ q.slot = SlotOf(list, list[i]) /\ Over(q, b)
  <2>1. PICK r \in Runs(BytesOf(list[i])) : Over(r, b)
    BY <1>3, <1>4, <1>11
  <2>2. Rec(list[i], r) \in records
    BY <1>7, <1>8, <2>1
  <2>3. QED
    BY <1>5, <2>1, <2>2
<1>12. QED
  BY <1>1, <1>9, <1>10, <1>11

-----------------------------------------------------------------------------
(* The ambient gate *)

\* The bytes some position of its account authorizes.
Warranted(x) == \E i \in DOMAIN accounts : accounts[i] = x[1] /\ Authorized(i - 1, x[2])

\* bind installed the gate of the contract, with the selector values or without.
GateInstalled ==
  gates = {} \/ \E g : /\ gates = {g} /\ g.id = 1 /\ g.accounts = accounts
                       /\ g.policy = contract.policy /\ g.args \in {args, <<>>}

\* The gate reads the policy as the context does.
LEMMA AmbientReads ==
  ASSUME NEW policy, NEW index, NEW offset, NEW size, NEW bound
  PROVE  /\ Ambient!CheckWriteWithArgs(policy, index, offset, size, bound) <=>
              CheckWriteWithArgs(policy, index, offset, size, bound)
         /\ Ambient!AllowsLamportMutation(policy, index) <=> AllowsLamportMutation(policy, index)
         /\ Ambient!LamportsDeclared(policy) <=> LamportsDeclared(policy)
<1>1. Ambient!Governing(policy, index, offset, size) = Governing(policy, index, offset, size)
  BY DEF Ambient!Governing, Governing, Ambient!EnvelopeOverlaps, EnvelopeOverlaps,
         Ambient!EnvelopeEnd, EnvelopeEnd
<1>2. ASSUME NEW set PROVE Ambient!Min(set) = Min(set)
  BY DEF Ambient!Min, Min
<1>3. Ambient!CheckWrite(policy, index, offset, size) <=> CheckWrite(policy, index, offset, size)
  BY DEF Ambient!CheckWrite, CheckWrite, Ambient!RangesOf, RangesOf, Ambient!Contains, Contains
<1>4. ASSUME NEW rule
      PROVE  /\ Ambient!SelectorBound(rule, bound) <=> SelectorBound(rule, bound)
             /\ Ambient!SelectedContains(rule, Ambient!Selected(rule, bound), offset, size) <=>
                  SelectedContains(rule, Selected(rule, bound), offset, size)
  BY DEF Ambient!SelectorBound, SelectorBound, Ambient!SelectedContains, SelectedContains,
         Ambient!Selected, Selected, Ambient!CellStart, CellStart, Ambient!CellEnd, CellEnd
<1>5. Ambient!CheckWriteWithArgs(policy, index, offset, size, bound) <=>
        CheckWriteWithArgs(policy, index, offset, size, bound)
  BY <1>1, <1>2, <1>3, <1>4 DEF Ambient!CheckWriteWithArgs, CheckWriteWithArgs
<1>6. /\ Ambient!AllowsLamportMutation(policy, index) <=> AllowsLamportMutation(policy, index)
      /\ Ambient!LamportsDeclared(policy) <=> LamportsDeclared(policy)
  BY DEF Ambient!AllowsLamportMutation, AllowsLamportMutation, Ambient!LamportsDeclared,
         LamportsDeclared
<1>7. QED
  BY <1>5, <1>6

\* A byte range the ambient gate lets through is warranted.
LEMMA GateWarrants ==
  ASSUME Typed, GateInstalled, gates # {},
         NEW a, NEW offset \in Nat, NEW size \in Nat, AllowsData(a, offset, size)
  PROVE  \A b \in Nat : offset <= b /\ b < offset + size => Warranted(<<a, b>>)
<1> DEFINE check == [kind |-> "Data", offset |-> offset, size |-> size]
<1>1. PICK g : /\ gates = {g} /\ g.id = 1 /\ g.accounts = accounts
               /\ g.policy = contract.policy /\ g.args \in {args, <<>>}
  BY DEF GateInstalled
<1>2. Ambient!Newest = g
  BY <1>1 DEF Ambient!Newest
<1>3. Ambient!Answer(a, check) = Ambient!Ok
  BY DEF AllowsData, AmbientAllows
<1>4. Ambient!Decision(g, a, check) = Ambient!Ok
  BY <1>1, <1>2, <1>3 DEF Ambient!Answer
<1>5. PICK k \in DOMAIN accounts : accounts[k] = a /\ Ambient!Grants(g, k - 1, check)
  BY <1>1, <1>4 DEF Ambient!Decision, Ambient!Ok, Ambient!Violation, Ambient!LamportKinds
<1>6. CheckWriteWithArgs(contract.policy, k - 1, offset, size, g.args)
  BY <1>1, <1>5, AmbientReads DEF Ambient!Grants
<1>7. k - 1 \in Nat
  BY DEF Typed
<1>8. \A b \in Nat : offset <= b /\ b < offset + size => Authorized(k - 1, b)
  BY <1>1, <1>6, <1>7, CheckedIsAuthorized DEF Typed
<1>9. QED
  BY <1>5, <1>8 DEF Warranted

\* A lamport write it lets through is allowed to some position of its account.
LEMMA GateAllowsLamports ==
  ASSUME GateInstalled, gates # {}, NEW a, AmbientAllows(a, "Lamports", 0, 0)
  PROVE  ~LamportsDeclared(contract.policy)
         \/ \E i \in DOMAIN accounts :
              accounts[i] = a /\ AllowsLamportMutation(contract.policy, i - 1)
<1> DEFINE check == [kind |-> "Lamports", offset |-> 0, size |-> 0]
<1>1. PICK g : /\ gates = {g} /\ g.id = 1 /\ g.accounts = accounts
               /\ g.policy = contract.policy /\ g.args \in {args, <<>>}
  BY DEF GateInstalled
<1>2. Ambient!Newest = g
  BY <1>1 DEF Ambient!Newest
<1>3. Ambient!Answer(a, check) = Ambient!Ok
  BY DEF AmbientAllows
<1>4. Ambient!Decision(g, a, check) = Ambient!Ok
  BY <1>1, <1>2, <1>3 DEF Ambient!Answer
<1>5. SUFFICES ASSUME LamportsDeclared(contract.policy)
               PROVE  \E i \in DOMAIN accounts :
                        accounts[i] = a /\ AllowsLamportMutation(contract.policy, i - 1)
  OBVIOUS
<1>6. PICK k \in DOMAIN accounts : accounts[k] = a /\ Ambient!Grants(g, k - 1, check)
  BY <1>1, <1>4, <1>5, AmbientReads DEF Ambient!Decision, Ambient!Ok, Ambient!Violation
<1>7. QED
  BY <1>1, <1>6, AmbientReads DEF Ambient!Grants

-----------------------------------------------------------------------------
(* What every acquisition does, whichever surface it goes through: at most  *)
(* one view of these bytes more, which the log or the history tells of, and *)
(* which the policy warrants or the history calls ungoverned.               *)

Permits(by, bytes) ==
  contract.strict => ~Governed(by) \/ \A x \in bytes : Warranted(x)

OfOne(a, bytes) == a \in Address /\ Marks(bytes) /\ \A x \in bytes : x[1] = a

Obtains(a, bytes) ==
  /\ UNCHANGED <<accounts, contract, args, gates, second, data, moved, emitted>>
  /\ OfOne(a, bytes)
  /\ \A v \in views' :
       \/ v \in views
       \/ /\ v.key = a /\ v.bytes = bytes
          /\ overflow' = TRUE \/ bytes \subseteq touched' \cup unrecorded'
  /\ touched \subseteq touched' /\ touched' \subseteq touched \cup bytes
  /\ overflow' = overflow \/ overflow' = TRUE
  /\ ungoverned \subseteq ungoverned' /\ unrecorded \subseteq unrecorded'
  /\ contract.strict => \A x \in bytes : x \in ungoverned' \/ Warranted(x)

LEMMA BytesOfOne ==
  ASSUME NEW a \in Address, NEW offset \in Nat, NEW size \in Nat
  PROVE  /\ OfOne(a, Bytes(a, offset, size))
         /\ \A x \in Bytes(a, offset, size) :
              x = <<a, x[2]>> /\ x[2] \in Nat /\ offset <= x[2] /\ x[2] < offset + size
<1>1. \A x \in Bytes(a, offset, size) :
        /\ x \in Address \X Nat /\ x[1] = a /\ x = <<a, x[2]>>
        /\ x[2] \in Nat /\ offset <= x[2] /\ x[2] < offset + size
  BY DEF Bytes
<1>2. offset + size \in Nat
  OBVIOUS
<1>3. Marks(Bytes(a, offset, size))
  BY <1>1, <1>2 DEF Marks
<1>4. QED
  BY <1>1, <1>3 DEF OfOne

LEMMA ContextPermits ==
  ASSUME Typed, NEW ctx \in Contexts, NEW i \in DOMAIN AccountsOf(ctx),
         NEW offset \in Nat, NEW size \in Nat, ContextAllows(ctx, i, offset, size)
  PROVE  /\ AccountsOf(ctx)[i] \in Address
         /\ Permits(ctx, Bytes(AccountsOf(ctx)[i], offset, size))
<1> DEFINE a == AccountsOf(ctx)[i]
<1>1. a \in Address /\ i - 1 \in Nat
  BY DEF Typed, AccountsOf
<1>2. ASSUME contract.strict, Governed(ctx), NEW x \in Bytes(a, offset, size)
      PROVE  Warranted(x)
  <2>1. ctx = "bound"
    BY <1>2 DEF Governed, Contexts
  <2>2. CheckWriteWithArgs(contract.policy, i - 1, offset, size, args)
    BY <1>2, <2>1 DEF ContextAllows
  <2>3. i \in DOMAIN accounts /\ accounts[i] = a
    BY <2>1 DEF AccountsOf
  <2>4. x[1] = a /\ x[2] \in Nat /\ offset <= x[2] /\ x[2] < offset + size
    BY <1>1, <1>2, BytesOfOne DEF OfOne
  <2>5. Authorized(i - 1, x[2])
    BY <1>1, <2>2, <2>4, CheckedIsAuthorized DEF Typed
  <2>6. QED
    BY <2>3, <2>4, <2>5 DEF Warranted
<1>3. QED
  BY <1>1, <1>2 DEF Permits

LEMMA ViewPermits ==
  ASSUME Typed, GateInstalled, NEW a \in Address, NEW offset \in Nat, NEW size \in Nat,
         AllowsData(a, offset, size)
  PROVE  Permits("view", Bytes(a, offset, size))
<1>1. ASSUME Governed("view"), NEW x \in Bytes(a, offset, size)
      PROVE  Warranted(x)
  <2>1. gates # {}
    BY <1>1 DEF Governed
  <2>2. x = <<a, x[2]>> /\ x[2] \in Nat /\ offset <= x[2] /\ x[2] < offset + size
    BY <1>1, BytesOfOne
  <2>3. Warranted(<<a, x[2]>>)
    BY <2>1, <2>2, GateWarrants
  <2>4. QED
    BY <2>2, <2>3
<1>2. QED
  BY <1>1 DEF Permits

LEMMA WholeLength ==
  ASSUME Typed, NEW a \in Address
  PROVE  Len(data[a]) \in Nat /\ Whole(a) = Bytes(a, 0, Len(data[a]))
BY DEF Typed, Whole

LEMMA WholePermits ==
  ASSUME Typed, GateInstalled, NEW a \in Address, AllowsWhole(a)
  PROVE  Permits("view", Whole(a))
<1>1. CASE data[a] = <<>>
  <2>1. Bytes(a, 0, Len(data[a])) = {}
    BY <1>1 DEF Bytes
  <2>2. QED
    BY <2>1 DEF Permits, Whole
<1>2. CASE data[a] # <<>>
  BY <1>2, ViewPermits, WholeLength DEF AllowsWhole
<1>3. QED
  BY <1>1, <1>2

LEMMA LeaseObtains ==
  ASSUME NEW a, NEW bytes, NEW by, Lease(a, bytes, by), OfOne(a, bytes), Permits(by, bytes)
  PROVE  Obtains(a, bytes)
<1> DEFINE v == NewView(a, bytes, by, FALSE, TRUE)
<1>1. /\ UNCHANGED <<accounts, contract, args, gates, second, data, moved, emitted>>
      /\ v.key = a /\ v.bytes = bytes /\ v.by = by /\ v.recorded = TRUE
  BY DEF Lease, NewView, instruction
<1>2. /\ touched \subseteq touched' /\ touched' \subseteq touched \cup bytes
      /\ overflow' = overflow \/ overflow' = TRUE
      /\ overflow' = TRUE \/ bytes \subseteq touched'
  BY DEF Lease, Record
<1>3. /\ views' = views \cup {v} \/ views' = views
      /\ ungoverned' = IF Governed(by) THEN ungoverned ELSE ungoverned \cup bytes
      /\ unrecorded' = unrecorded
  BY <1>1 DEF Lease, Grant
<1> HIDE DEF v
<1>4. QED
  BY <1>1, <1>2, <1>3 DEF Obtains, Permits

LEMMA TakeObtains ==
  ASSUME NEW a, NEW bytes, NEW by, NEW pointer, Take(NewView(a, bytes, by, pointer, FALSE)),
         OfOne(a, bytes), Permits(by, bytes)
  PROVE  Obtains(a, bytes)
<1> DEFINE v == NewView(a, bytes, by, pointer, FALSE)
<1>1. /\ UNCHANGED <<accounts, contract, args, gates, second, data, moved, emitted>>
      /\ UNCHANGED <<touched, overflow>>
      /\ v.key = a /\ v.bytes = bytes /\ v.by = by /\ v.recorded = FALSE
  BY DEF Take, NewView, instruction, log
<1>2. /\ views' = views \cup {v}
      /\ ungoverned' = IF Governed(by) THEN ungoverned ELSE ungoverned \cup bytes
      /\ unrecorded' = unrecorded \cup bytes
  BY <1>1 DEF Take, Grant
<1> HIDE DEF v
<1>3. QED
  BY <1>1, <1>2 DEF Obtains, Permits

LEMMA LoadObtains ==
  ASSUME Typed, NEW a \in Address, NEW by, Load(a, by), Permits(by, Whole(a))
  PROVE  Obtains(a, Whole(a))
<1> DEFINE bytes == Whole(a)
           v == NewView(a, bytes, by, FALSE, TRUE)
<1>1. /\ UNCHANGED <<accounts, contract, args, gates, second, data, moved, emitted>>
      /\ v.key = a /\ v.bytes = bytes /\ v.by = by /\ v.recorded = TRUE
  BY DEF Load, NewView, instruction
<1>2. /\ touched \subseteq touched' /\ touched' \subseteq touched \cup bytes
      /\ overflow' = overflow \/ overflow' = TRUE
      /\ overflow' = TRUE \/ bytes \subseteq touched'
  BY DEF Load, Record
<1>3. /\ views' = views \cup {v}
      /\ ungoverned' = IF Governed(by) THEN ungoverned ELSE ungoverned \cup bytes
      /\ unrecorded' = unrecorded
  BY <1>1 DEF Load, Grant
<1>4. OfOne(a, bytes)
  BY BytesOfOne, WholeLength
<1> HIDE DEF v, bytes
<1>5. Permits(by, bytes)
  BY DEF bytes
<1>6. Obtains(a, bytes)
  BY <1>1, <1>2, <1>3, <1>4, <1>5 DEF Obtains, Permits
<1>7. QED
  BY <1>6 DEF bytes

LEMMA WholeContext ==
  ASSUME Typed, NEW ctx \in Contexts, NEW i \in DOMAIN AccountsOf(ctx), WholeAllowed(ctx, i)
  PROVE  LET a == AccountsOf(ctx)[i]
         IN  a \in Address /\ OfOne(a, Whole(a)) /\ Permits(ctx, Whole(a))
<1> DEFINE a == AccountsOf(ctx)[i]
<1>1. a \in Address
  BY DEF Typed, AccountsOf
<1>2. Len(data[a]) \in Nat /\ Whole(a) = Bytes(a, 0, Len(data[a]))
  BY <1>1, WholeLength
<1>3. ContextAllows(ctx, i, 0, Len(data[a]))
  BY DEF WholeAllowed
<1>4. Permits(ctx, Whole(a))
  BY <1>2, <1>3, ContextPermits
<1>5. OfOne(a, Whole(a))
  BY <1>1, <1>2, BytesOfOne
<1>6. QED
  BY <1>1, <1>4, <1>5

LEMMA SegmentObtains ==
  ASSUME Typed, NEW ctx \in Contexts, NEW i \in DOMAIN AccountsOf(ctx),
         NEW offset \in Nat, NEW size \in Nat, SegmentMut(ctx, i, offset, size)
  PROVE  \E a, bytes : Obtains(a, bytes)
<1> DEFINE a == AccountsOf(ctx)[i]
<1>1. ContextAllows(ctx, i, offset, size) /\ Lease(a, Bytes(a, offset, size), ctx)
  BY DEF SegmentMut
<1>2. a \in Address /\ Permits(ctx, Bytes(a, offset, size))
  BY <1>1, ContextPermits
<1>3. Obtains(a, Bytes(a, offset, size))
  BY <1>1, <1>2, BytesOfOne, LeaseObtains
<1>4. QED
  BY <1>3

LEMMA TailObtains ==
  ASSUME Typed, NEW ctx \in Contexts, NEW i \in DOMAIN AccountsOf(ctx),
         NEW body_end \in Nat, TailSeqMut(ctx, i, body_end)
  PROVE  \E a, bytes : Obtains(a, bytes)
<1> DEFINE a == AccountsOf(ctx)[i]
           size == Len(data[a]) - body_end
<1>1. /\ body_end <= Len(data[a]) /\ ContextAllows(ctx, i, body_end, size)
      /\ Lease(a, Bytes(a, body_end, size), ctx)
  BY DEF TailSeqMut
<1>2. a \in Address
  BY DEF Typed, AccountsOf
<1>3. size \in Nat
  BY <1>1, <1>2, WholeLength
<1> HIDE DEF size
<1>4. Permits(ctx, Bytes(a, body_end, size))
  BY <1>1, <1>3, ContextPermits
<1>5. Obtains(a, Bytes(a, body_end, size))
  BY <1>1, <1>2, <1>3, <1>4, BytesOfOne, LeaseObtains
<1>6. QED
  BY <1>5

LEMMA SplitObtains ==
  ASSUME Typed, NEW ctx \in Contexts, NEW i \in DOMAIN AccountsOf(ctx),
         NEW r \in Nat \X Nat, NEW s \in Nat \X Nat, SplitSegmentsMut(ctx, i, <<r, s>>)
  PROVE  \E a, bytes : Obtains(a, bytes)
<1> DEFINE a == AccountsOf(ctx)[i]
           first == Bytes(a, r[1], r[2])
           other == Bytes(a, s[1], s[2])
<1>1. ContextAllows(ctx, i, r[1], r[2]) /\ ContextAllows(ctx, i, s[1], s[2])
  <2>1. \A k \in {1, 2} : ContextAllows(ctx, i, <<r, s>>[k][1], <<r, s>>[k][2])
    BY DEF SplitSegmentsMut, AllowsEach
  <2>2. <<r, s>>[1] = r /\ <<r, s>>[2] = s
    OBVIOUS
  <2>3. QED
    BY <2>1, <2>2
<1>2. /\ a \in Address /\ OfOne(a, first) /\ OfOne(a, other)
      /\ Permits(ctx, first) /\ Permits(ctx, other)
  BY <1>1, ContextPermits, BytesOfOne
<1>3. IF first \cap other = {}
        THEN Lease(a, first \cup other, ctx)
        ELSE /\ Record(first)
             /\ ungoverned' = IF Governed(ctx) THEN ungoverned ELSE ungoverned \cup first
             /\ UNCHANGED <<instruction, gates, second, data, moved, views, emitted, unrecorded>>
  BY DEF SplitSegmentsMut
<1> HIDE DEF first, other
<1>4. CASE first \cap other = {}
  <2>1. Permits(ctx, first \cup other)
    BY <1>2 DEF Permits
  <2>2. PICK m \in Nat, n \in Nat : (\A x \in first : x[2] < m) /\ (\A x \in other : x[2] < n)
    BY <1>2 DEF OfOne, Marks
  <2>3. m + n \in Nat /\ \A b \in Nat : b < m \/ b < n => b < m + n
    OBVIOUS
  <2>4. \A x \in first \cup other : x \in Address \X Nat /\ x[2] \in Nat /\ x[1] = a
    BY <1>2 DEF OfOne, Marks
  <2>5. \A x \in first \cup other : x[2] < m + n
    BY <2>2, <2>3, <2>4
  <2>6. OfOne(a, first \cup other)
    BY <1>2, <2>3, <2>4, <2>5 DEF OfOne, Marks
  <2>7. Obtains(a, first \cup other)
    BY <1>3, <1>4, <2>1, <2>6, LeaseObtains
  <2>8. QED
    BY <2>7
<1>5. CASE first \cap other # {}
  <2>1. /\ UNCHANGED <<accounts, contract, args, gates, second, data, moved, emitted>>
        /\ UNCHANGED <<views, unrecorded>>
    BY <1>3, <1>5 DEF instruction
  <2>2. /\ touched \subseteq touched' /\ touched' \subseteq touched \cup first
        /\ overflow' = overflow \/ overflow' = TRUE
    BY <1>3, <1>5 DEF Record
  <2>3. Obtains(a, first)
    BY <1>2, <1>3, <1>5, <2>1, <2>2 DEF Obtains, Permits
  <2>4. QED
    BY <2>3
<1>6. QED
  BY <1>4, <1>5

LEMMA AcquireObtains ==
  ASSUME Typed, GateInstalled, Acquire
  PROVE  \E a, bytes : Obtains(a, bytes)
<1>1. \A r \in Segment : r \in Nat \X Nat /\ r[1] \in Nat /\ r[2] \in Nat
  BY FootprintAssumption
<1>2. CASE \E ctx \in Contexts : \E i \in DOMAIN AccountsOf(ctx) :
             \/ LoadMut(ctx, i) \/ ContextRawMut(ctx, i) \/ AsMutPtr(ctx, i)
             \/ \E r \in Segment : SegmentMut(ctx, i, r[1], r[2]) \/ TailSeqMut(ctx, i, r[1])
             \/ \E r, s \in Segment : SplitSegmentsMut(ctx, i, <<r, s>>)
  <2>1. PICK ctx \in Contexts : \E i \in DOMAIN AccountsOf(ctx) :
             \/ LoadMut(ctx, i) \/ ContextRawMut(ctx, i) \/ AsMutPtr(ctx, i)
             \/ \E r \in Segment : SegmentMut(ctx, i, r[1], r[2]) \/ TailSeqMut(ctx, i, r[1])
             \/ \E r, s \in Segment : SplitSegmentsMut(ctx, i, <<r, s>>)
    BY <1>2
  <2>2. PICK i \in DOMAIN AccountsOf(ctx) :
             \/ LoadMut(ctx, i) \/ ContextRawMut(ctx, i) \/ AsMutPtr(ctx, i)
             \/ \E r \in Segment : SegmentMut(ctx, i, r[1], r[2]) \/ TailSeqMut(ctx, i, r[1])
             \/ \E r, s \in Segment : SplitSegmentsMut(ctx, i, <<r, s>>)
    BY <2>1
  <2> DEFINE a == AccountsOf(ctx)[i]
  <2>3. CASE LoadMut(ctx, i)
    <3>1. WholeAllowed(ctx, i) /\ Load(a, ctx)
      BY <2>3 DEF LoadMut
    <3>2. a \in Address /\ Permits(ctx, Whole(a))
      BY <3>1, WholeContext
    <3>3. Obtains(a, Whole(a))
      BY <3>1, <3>2, LoadObtains
    <3>4. QED
      BY <3>3
  <2>4. CASE ContextRawMut(ctx, i)
    <3>1. WholeAllowed(ctx, i) /\ Take(NewView(a, Whole(a), ctx, FALSE, FALSE))
      BY <2>4 DEF ContextRawMut
    <3>2. OfOne(a, Whole(a)) /\ Permits(ctx, Whole(a))
      BY <3>1, WholeContext
    <3>3. Obtains(a, Whole(a))
      BY <3>1, <3>2, TakeObtains
    <3>4. QED
      BY <3>3
  <2>5. CASE AsMutPtr(ctx, i)
    <3>1. WholeAllowed(ctx, i) /\ Take(NewView(a, Whole(a), ctx, TRUE, FALSE))
      BY <2>5 DEF AsMutPtr
    <3>2. OfOne(a, Whole(a)) /\ Permits(ctx, Whole(a))
      BY <3>1, WholeContext
    <3>3. Obtains(a, Whole(a))
      BY <3>1, <3>2, TakeObtains
    <3>4. QED
      BY <3>3
  <2>6. CASE \E r \in Segment : SegmentMut(ctx, i, r[1], r[2]) \/ TailSeqMut(ctx, i, r[1])
    BY <1>1, <2>6, SegmentObtains, TailObtains
  <2>7. CASE \E r, s \in Segment : SplitSegmentsMut(ctx, i, <<r, s>>)
    BY <1>1, <2>7, SplitObtains
  <2>8. QED
    BY <2>2, <2>3, <2>4, <2>5, <2>6, <2>7
<1>3. CASE \E a \in Listed :
             \/ ViewLoadMut(a) \/ TryBorrowMut(a) \/ ViewRawMut(a)
             \/ \E r \in Segment : ViewSegmentMut(a, r[1], r[2])
  <2>1. PICK a \in Listed :
             \/ ViewLoadMut(a) \/ TryBorrowMut(a) \/ ViewRawMut(a)
             \/ \E r \in Segment : ViewSegmentMut(a, r[1], r[2])
    BY <1>3
  <2>2. a \in Address
    BY DEF Listed, Typed
  <2>3. OfOne(a, Whole(a))
    BY <2>2, WholeLength, BytesOfOne
  <2>4. CASE ViewLoadMut(a)
    <3>1. Load(a, "view") /\ AllowsWhole(a)
      BY <2>4 DEF ViewLoadMut, Load
    <3>2. Obtains(a, Whole(a))
      BY <2>2, <3>1, WholePermits, LoadObtains
    <3>3. QED
      BY <3>2
  <2>5. CASE TryBorrowMut(a)
    <3>1. AllowsWhole(a) /\ Take(NewView(a, Whole(a), "view", FALSE, FALSE))
      BY <2>5 DEF TryBorrowMut
    <3>2. Obtains(a, Whole(a))
      BY <2>2, <2>3, <3>1, WholePermits, TakeObtains
    <3>3. QED
      BY <3>2
  <2>6. CASE ViewRawMut(a)
    <3>1. Permits("raw", Whole(a))
      BY DEF Permits, Governed
    <3>2. Obtains(a, Whole(a))
      BY <2>3, <2>6, <3>1, TakeObtains DEF ViewRawMut
    <3>3. QED
      BY <3>2
  <2>7. CASE \E r \in Segment : ViewSegmentMut(a, r[1], r[2])
    <3>1. PICK r \in Segment : ViewSegmentMut(a, r[1], r[2])
      BY <2>7
    <3>2. r[1] \in Nat /\ r[2] \in Nat /\ AllowsData(a, r[1], r[2])
          /\ Lease(a, Bytes(a, r[1], r[2]), "view")
      BY <1>1, <3>1 DEF ViewSegmentMut
    <3>3. Obtains(a, Bytes(a, r[1], r[2]))
      BY <2>2, <3>2, BytesOfOne, ViewPermits, LeaseObtains
    <3>4. QED
      BY <3>3
  <2>8. QED
    BY <2>1, <2>4, <2>5, <2>6, <2>7
<1>4. QED
  BY <1>2, <1>3 DEF Acquire

-----------------------------------------------------------------------------
(* The inductive invariant: every byte a live view covers, and every byte    *)
(* that changed, is in the log or the history tells of it, and is warranted  *)
(* or the history calls it ungoverned.                                       *)

Told(x) == overflow = TRUE \/ x \in touched \cup unrecorded
Answered(x) == contract.strict => x \in ungoverned \/ Warranted(x)
Good(x) == Told(x) /\ Answered(x)

Held == \A v \in views : \A x \in v.bytes : Good(x)
Accounted == \A a \in Address : \A b \in Changed(a) : Good(<<a, b>>)
LogAnswered == \A x \in touched : Answered(x)

MovedAllowed ==
  \A a : <<a, TRUE>> \in moved =>
    \E i \in DOMAIN accounts :
      accounts[i] = a /\ AllowsLamportMutation(contract.policy, i - 1)

FInv ==
  /\ Typed /\ overflow \in BOOLEAN /\ GateInstalled
  /\ MovedAllowed /\ Held /\ Accounted /\ LogAnswered

\* Nothing told or answered is forgotten while the log only grows.
Grows ==
  /\ UNCHANGED <<accounts, contract, args>>
  /\ touched \subseteq touched' /\ (overflow' = overflow \/ overflow' = TRUE)
  /\ ungoverned \subseteq ungoverned' /\ unrecorded \subseteq unrecorded'

LEMMA WarrantStays ==
  ASSUME UNCHANGED <<accounts, contract, args>>
  PROVE  \A x : Warranted(x)' <=> Warranted(x)
BY DEF Warranted, Authorized

LEMMA GoodStays ==
  ASSUME Grows
  PROVE  \A x : (Good(x) => Good(x)') /\ (Answered(x) => Answered(x)')
BY WarrantStays DEF Grows, Good, Told, Answered

LEMMA ChangedStays ==
  ASSUME NEW a, data'[a] = data[a]
  PROVE  Changed(a)' = Changed(a)
BY DEF Changed

LEMMA ObtainsInductive ==
  ASSUME FInv, NEW a, NEW bytes, Obtains(a, bytes)
  PROVE  FInv'
<1>1. Grows
  BY DEF Obtains, Grows
<1>2. /\ UNCHANGED <<accounts, contract, args, gates, second, data, moved, emitted>>
      /\ OfOne(a, bytes)
  BY DEF Obtains
<1>3. \A x : (Good(x) => Good(x)') /\ (Answered(x) => Answered(x)')
  BY <1>1, GoodStays
<1>4. \A x \in bytes : Answered(x)'
  <2>1. \A x \in bytes : contract.strict => x \in ungoverned' \/ Warranted(x)
    BY DEF Obtains
  <2>2. QED
    BY <1>2, <2>1, WarrantStays DEF Answered
<1>5. \A v \in views' :
        \/ v \in views
        \/ v.key = a /\ v.bytes = bytes /\ \A x \in bytes : Told(x)'
  BY DEF Obtains, Told
<1>6. Typed'
  <2>1. \A v \in views' : \A x \in v.bytes : x \in Address \X Nat /\ x[1] = v.key
    BY <1>2, <1>5 DEF FInv, Typed, OfOne, Marks
  <2>2. Marks(touched)'
    <3>1. touched' \subseteq Address \X Nat
      BY <1>2 DEF Obtains, OfOne, Marks, FInv, Typed
    <3>2. PICK m \in Nat, n \in Nat : (\A x \in touched : x[2] < m) /\ (\A x \in bytes : x[2] < n)
      BY <1>2 DEF OfOne, Marks, FInv, Typed
    <3>3. m + n \in Nat /\ \A b \in Nat : b < m \/ b < n => b < m + n
      OBVIOUS
    <3>4. \A x \in touched' : x[2] \in Nat /\ (x[2] < m \/ x[2] < n)
      BY <3>1, <3>2 DEF Obtains
    <3>5. QED
      BY <3>1, <3>3, <3>4 DEF Marks
  <2>3. QED
    BY <1>2, <2>1, <2>2 DEF FInv, Typed
<1>7. overflow' \in BOOLEAN
  BY DEF FInv, Obtains
<1>8. GateInstalled'
  BY <1>2 DEF FInv, GateInstalled
<1>9. MovedAllowed'
  BY <1>2 DEF FInv, MovedAllowed
<1>10. Held'
  <2>1. \A v \in views' : \A x \in v.bytes : Good(x)'
    BY <1>3, <1>4, <1>5 DEF FInv, Held, Good
  <2>2. QED
    BY <2>1 DEF Held
<1>11. Accounted'
  <2>1. \A c \in Address : \A b \in Changed(c)' : Good(<<c, b>>)'
    BY <1>2, <1>3, ChangedStays DEF FInv, Accounted
  <2>2. QED
    BY <2>1 DEF Accounted
<1>12. LogAnswered'
  <2>1. \A x \in touched' : Answered(x)'
    BY <1>3, <1>4 DEF FInv, LogAnswered, Obtains
  <2>2. QED
    BY <2>1 DEF LogAnswered
<1>13. QED
  BY <1>6, <1>7, <1>8, <1>9, <1>10, <1>11, <1>12 DEF FInv

\* A step that leaves bytes, log and history alone.
LEMMA QuietKeeps ==
  ASSUME FInv, views' \subseteq views,
         UNCHANGED <<accounts, contract, args, second, data, touched, overflow,
                     ungoverned, unrecorded>>
  PROVE  /\ overflow' \in BOOLEAN /\ Held' /\ Accounted' /\ LogAnswered'
         /\ Ranges(emitted.records)' => Typed'
<1>1. \A x : (Good(x) => Good(x)') /\ (Answered(x) => Answered(x)')
  BY GoodStays DEF Grows
<1>2. overflow' \in BOOLEAN
  BY DEF FInv
<1>3. Held'
  <2>1. \A v \in views' : \A x \in v.bytes : Good(x)'
    BY <1>1 DEF FInv, Held
  <2>2. QED
    BY <2>1 DEF Held
<1>4. Accounted'
  <2>1. \A c \in Address : \A b \in Changed(c)' : Good(<<c, b>>)'
    BY <1>1, ChangedStays DEF FInv, Accounted
  <2>2. QED
    BY <2>1 DEF Accounted
<1>5. LogAnswered'
  <2>1. \A x \in touched' : Answered(x)'
    BY <1>1 DEF FInv, LogAnswered
  <2>2. QED
    BY <2>1 DEF LogAnswered
<1>6. Ranges(emitted.records)' => Typed'
  BY DEF FInv, Typed, Marks
<1>7. QED
  BY <1>2, <1>3, <1>4, <1>5, <1>6

LEMMA DropViewInductive ==
  ASSUME FInv, NEW v, DropView(v)
  PROVE  FInv'
<1>1. /\ views' \subseteq views
      /\ UNCHANGED <<accounts, contract, args, second, data, touched, overflow,
                     ungoverned, unrecorded>>
      /\ UNCHANGED <<gates, moved, emitted>>
  BY DEF DropView, instruction, log, history
<1>2. /\ overflow' \in BOOLEAN /\ Held' /\ Accounted' /\ LogAnswered'
      /\ Ranges(emitted.records)' => Typed'
  BY <1>1, QuietKeeps
<1>3. Typed'
  BY <1>1, <1>2 DEF FInv, Typed
<1>4. GateInstalled' /\ MovedAllowed'
  BY <1>1 DEF FInv, GateInstalled, MovedAllowed
<1>5. QED
  BY <1>2, <1>3, <1>4 DEF FInv

LEMMA DropGateInductive ==
  ASSUME FInv, DropGate
  PROVE  FInv'
<1>1. /\ views' \subseteq views
      /\ UNCHANGED <<accounts, contract, args, second, data, touched, overflow,
                     ungoverned, unrecorded>>
      /\ UNCHANGED <<moved, emitted>> /\ gates' = {}
  BY DEF DropGate, instruction, log, history
<1>2. /\ overflow' \in BOOLEAN /\ Held' /\ Accounted' /\ LogAnswered'
      /\ Ranges(emitted.records)' => Typed'
  BY <1>1, QuietKeeps
<1>3. Typed'
  BY <1>1, <1>2 DEF FInv, Typed
<1>4. GateInstalled' /\ MovedAllowed'
  BY <1>1 DEF FInv, GateInstalled, MovedAllowed
<1>5. QED
  BY <1>2, <1>3, <1>4 DEF FInv

LEMMA LamportsInductive ==
  ASSUME FInv, NEW a \in Listed, TrySetLamports(a)
  PROVE  FInv'
<1>1. /\ views' \subseteq views
      /\ UNCHANGED <<accounts, contract, args, second, data, touched, overflow,
                     ungoverned, unrecorded>>
      /\ UNCHANGED <<gates, emitted>> /\ moved' = moved \cup {<<a, gates # {}>>}
  BY DEF TrySetLamports, instruction, log, history
<1>2. /\ overflow' \in BOOLEAN /\ Held' /\ Accounted' /\ LogAnswered'
      /\ Ranges(emitted.records)' => Typed'
  BY <1>1, QuietKeeps
<1>3. Typed' /\ GateInstalled'
  BY <1>1, <1>2 DEF FInv, Typed, GateInstalled
<1>4. MovedAllowed'
  <2>1. SUFFICES ASSUME NEW c, <<c, TRUE>> \in moved'
                 PROVE  \E i \in DOMAIN accounts :
                          accounts[i] = c /\ AllowsLamportMutation(contract.policy, i - 1)
    BY <1>1 DEF MovedAllowed
  <2>2. CASE <<c, TRUE>> \in moved
    BY <2>2 DEF FInv, MovedAllowed
  <2>3. CASE <<c, TRUE>> \notin moved
    <3>1. c = a /\ gates # {}
      BY <1>1, <2>1, <2>3
    <3>2. AmbientAllows(a, "Lamports", 0, 0)
      BY DEF TrySetLamports
    <3>3. \/ ~LamportsDeclared(contract.policy)
          \/ \E i \in DOMAIN accounts :
               accounts[i] = a /\ AllowsLamportMutation(contract.policy, i - 1)
      BY <3>1, <3>2, GateAllowsLamports DEF FInv
    <3>4. \E i \in DOMAIN accounts : accounts[i] = a
      BY DEF Listed
    <3>5. QED
      BY <3>1, <3>3, <3>4 DEF AllowsLamportMutation
  <2>4. QED
    BY <2>2, <2>3
<1>5. QED
  BY <1>2, <1>3, <1>4 DEF FInv

LEMMA EmitInductive ==
  ASSUME FInv, NEW ctx, EmitTouchMap(ctx)
  PROVE  FInv'
<1>1. /\ views' \subseteq views
      /\ UNCHANGED <<accounts, contract, args, second, data, touched, overflow,
                     ungoverned, unrecorded>>
      /\ UNCHANGED <<gates, moved>> /\ emitted' = Encoded(AccountsOf(ctx))
  BY DEF EmitTouchMap, instruction, log, history
<1>2. /\ overflow' \in BOOLEAN /\ Held' /\ Accounted' /\ LogAnswered'
      /\ Ranges(emitted.records)' => Typed'
  BY <1>1, QuietKeeps
<1>3. Ranges(emitted'.records)
  <2>1. AccountsOf(ctx) \in Seq(Address) /\ Marks(touched)
    BY DEF FInv, Typed, AccountsOf
  <2>2. QED
    BY <1>1, <2>1, EncodedMeans
<1>4. Typed' /\ GateInstalled' /\ MovedAllowed'
  BY <1>1, <1>2, <1>3 DEF FInv, GateInstalled, MovedAllowed, Ranges
<1>5. QED
  BY <1>2, <1>4 DEF FInv

\* A context built in mid-instruction forgets the log; the history has it all.
LEMMA SecondInductive ==
  ASSUME FInv, NEW k \in DOMAIN accounts, SecondContext(k)
  PROVE  FInv'
<1> DEFINE changed == UNION {{a} \X Changed(a) : a \in Address}
           held == UNION {v.bytes : v \in views}
<1>0. /\ \A a \in Address : \A b \in Changed(a) : <<a, b>> \in changed
      /\ \A v \in views : \A x \in v.bytes : x \in held
  OBVIOUS
<1> HIDE DEF changed, held
<1>1. /\ UNCHANGED <<accounts, contract, args, gates, data, moved, views, emitted, ungoverned>>
      /\ touched' = {} /\ overflow' = FALSE
      /\ second' = SubSeq(accounts, k, Len(accounts))
      /\ held \subseteq unrecorded' /\ changed \subseteq unrecorded'
  BY DEF SecondContext, instruction, ResetLog, changed, held
<1>2. \A x : Answered(x) => Answered(x)'
  BY <1>1, WarrantStays DEF Answered
<1>3. Typed'
  <2>1. second' \in Seq(Address)
    BY <1>1 DEF FInv, Typed
  <2>2. Marks(touched)'
    BY <1>1 DEF Marks
  <2>3. Ranges(emitted.records)'
    BY <1>1 DEF FInv, Typed, Ranges
  <2>4. QED
    BY <1>1, <2>1, <2>2, <2>3 DEF FInv, Typed
<1>4. GateInstalled' /\ MovedAllowed' /\ overflow' \in BOOLEAN
  BY <1>1 DEF FInv, GateInstalled, MovedAllowed
<1>5. Held'
  <2>1. \A v \in views : \A x \in v.bytes : x \in unrecorded'
    BY <1>0, <1>1
  <2>2. \A v \in views' : \A x \in v.bytes : Good(x)'
    BY <1>1, <1>2, <2>1 DEF FInv, Held, Good, Told
  <2>3. QED
    BY <2>2 DEF Held
<1>6. Accounted'
  <2>1. \A a \in Address : \A b \in Changed(a) : <<a, b>> \in unrecorded'
    BY <1>0, <1>1
  <2>2. \A a \in Address : Changed(a)' = Changed(a)
    BY <1>1, ChangedStays
  <2>3. \A a \in Address : \A b \in Changed(a)' : Good(<<a, b>>)'
    BY <1>2, <2>1, <2>2 DEF FInv, Accounted, Good, Told
  <2>4. QED
    BY <2>3 DEF Accounted
<1>7. LogAnswered'
  BY <1>1 DEF LogAnswered
<1>8. QED
  BY <1>3, <1>4, <1>5, <1>6, <1>7 DEF FInv

LEMMA WriteInductive ==
  ASSUME FInv, NEW v \in views, NEW x \in v.bytes, Write(v, x)
  PROVE  FInv'
<1> DEFINE a == v.key
           at == x[2] + 1
<1>1. /\ UNCHANGED <<accounts, contract, args, gates, second, moved, views, emitted>>
      /\ UNCHANGED <<touched, overflow, ungoverned, unrecorded>>
      /\ x[2] < Len(data[a]) /\ data' = [data EXCEPT ![a][at] = 1]
  BY DEF Write, instruction, log, history
<1>2. /\ x \in Address \X Nat /\ x[1] = a /\ a \in Address /\ x[2] \in Nat
      /\ x = <<a, x[2]>>
  BY DEF FInv, Typed
<1>3. data[a] \in Seq(Nat)
  BY <1>2 DEF FInv, Typed
<1>4. /\ data'[a] = [data[a] EXCEPT ![at] = 1] /\ data'[a] \in Seq(Nat)
      /\ Len(data'[a]) = Len(data[a])
      /\ \A c \in Address : c # a => data'[c] = data[c]
  <2>1. at \in 1 .. Len(data[a])
    BY <1>1, <1>2, <1>3
  <2>2. data'[a] = [data[a] EXCEPT ![at] = 1] /\ \A c \in Address : c # a => data'[c] = data[c]
    BY <1>1, <1>2 DEF FInv, Typed
  <2> HIDE DEF at
  <2>3. [data[a] EXCEPT ![at] = 1] \in Seq(Nat) /\ Len([data[a] EXCEPT ![at] = 1]) = Len(data[a])
    BY <1>3, <2>1
  <2>4. QED
    BY <2>2, <2>3 DEF at
<1>5. data' \in [Address -> Seq(Nat)]
  <2>1. \A c \in Address : data'[c] \in Seq(Nat)
    BY <1>4 DEF FInv, Typed
  <2>2. data' = [c \in Address |-> data'[c]]
    BY <1>1 DEF FInv, Typed
  <2>3. QED
    BY <2>1, <2>2
<1>6. \A y : (Good(y) => Good(y)') /\ (Answered(y) => Answered(y)')
  BY <1>1, GoodStays DEF Grows
<1>7. \A b \in Changed(a)' : b \in Changed(a) \/ b = x[2]
  <2>1. SUFFICES ASSUME NEW b \in Changed(a)', b # x[2] PROVE b \in Changed(a)
    OBVIOUS
  <2>2. Entry(a) \in Seq(Nat) /\ data'[a] \in Seq(Nat)
    BY <1>2, <1>4, EntryType
  <2>3. /\ b \in Nat /\ (b < Len(Entry(a)) \/ b < Len(data'[a]))
        /\ b >= Len(Entry(a)) \/ b >= Len(data'[a]) \/ Entry(a)[b + 1] # data'[a][b + 1]
    <3>1. b \in ChangedBytes(Entry(a), data'[a])
      BY DEF Changed
    <3>2. QED
      BY <2>2, <3>1, ChangedMeans
  <2>4. b < Len(data[a]) => data'[a][b + 1] = data[a][b + 1]
    <3>1. b + 1 # at
      BY <1>2, <2>1, <2>3
    <3>2. b < Len(data[a]) => b + 1 \in DOMAIN data[a]
      BY <1>3, <2>3
    <3> HIDE DEF at
    <3>3. QED
      BY <1>4, <3>1, <3>2
  <2>5. b \in ChangedBytes(Entry(a), data[a])
    <3>1. Len(data[a]) \in Nat
      BY <1>3
    <3>2. b >= Len(Entry(a)) \/ b >= Len(data[a]) \/ Entry(a)[b + 1] # data[a][b + 1]
      BY <1>4, <2>3, <2>4, <3>1
    <3>3. QED
      BY <1>3, <1>4, <2>2, <2>3, <3>2, ChangedMeans
  <2>6. QED
    BY <2>5 DEF Changed
<1>8. Accounted'
  <2>1. Good(x)'
    BY <1>6 DEF FInv, Held
  <2>2. \A b \in Changed(a)' : Good(<<a, b>>)'
    BY <1>2, <1>6, <1>7, <2>1 DEF FInv, Accounted
  <2>3. \A c \in Address : c # a => Changed(c)' = Changed(c)
    BY <1>4, ChangedStays
  <2>4. \A c \in Address : \A b \in Changed(c)' : Good(<<c, b>>)'
    BY <1>6, <2>2, <2>3 DEF FInv, Accounted
  <2>5. QED
    BY <2>4 DEF Accounted
<1>9. Held'
  <2>1. \A w \in views' : \A y \in w.bytes : Good(y)'
    BY <1>1, <1>6 DEF FInv, Held
  <2>2. QED
    BY <2>1 DEF Held
<1>10. LogAnswered'
  <2>1. \A y \in touched' : Answered(y)'
    BY <1>1, <1>6 DEF FInv, LogAnswered
  <2>2. QED
    BY <2>1 DEF LogAnswered
<1>11. Typed' /\ GateInstalled' /\ MovedAllowed' /\ overflow' \in BOOLEAN
  BY <1>1, <1>5 DEF FInv, Typed, Marks, Ranges, GateInstalled, MovedAllowed
<1>12. QED
  BY <1>8, <1>9, <1>10, <1>11 DEF FInv

LEMMA MinOfTwo ==
  ASSUME NEW m \in Nat, NEW n \in Nat
  PROVE  Min({m, n}) \in Nat /\ \A b \in Nat : b < Min({m, n}) <=> b < m /\ b < n
<1>1. {m, n} \subseteq Nat /\ {m, n} # {}
  OBVIOUS
<1>2. Min({m, n}) \in {m, n} /\ \A y \in {m, n} : Min({m, n}) <= y
  BY <1>1, MinFacts
<1>3. QED
  BY <1>2

\* A resize takes bytes away or adds them; the others stay as they were.
LEMMA ResizeInductive ==
  ASSUME FInv, NEW a \in Listed, NEW n \in Nat, Resize(a, n)
  PROVE  FInv'
<1> DEFINE old == Len(data[a])
           new == [b \in 1 .. n |-> IF b <= old THEN data[a][b] ELSE 0]
           delta == {b \in {a} \X (0 .. Max({n, old}) - 1) : b[2] >= Min({n, old})}
<1>1. /\ UNCHANGED <<accounts, contract, args, gates, second, moved, views, emitted>>
      /\ UNCHANGED <<touched, overflow>>
      /\ ungoverned' = ungoverned \cup delta /\ unrecorded' = unrecorded \cup delta
  BY DEF Resize, instruction, log
<1>2. a \in Address
  BY DEF Listed, FInv, Typed
<1>3. data[a] \in Seq(Nat) /\ old \in Nat
  BY <1>2 DEF FInv, Typed
<1>4. data' = [data EXCEPT ![a] = new]
  BY DEF Resize
<1>5. data'[a] = new /\ \A c \in Address : c # a => data'[c] = data[c]
  BY <1>2, <1>4 DEF FInv, Typed
<1>6. /\ new \in Seq(Nat) /\ Len(new) = n
      /\ \A b \in Nat : b < n /\ b < old => new[b + 1] = data[a][b + 1]
  <2>1. \A b \in 1 .. n : (IF b <= old THEN data[a][b] ELSE 0) \in Nat
    BY <1>3
  <2>2. new \in [1 .. n -> Nat]
    BY <2>1
  <2>3. new \in Seq(Nat) /\ Len(new) = n
    BY <2>2
  <2>4. \A b \in Nat : b < n /\ b < old => new[b + 1] = data[a][b + 1]
    BY <1>3
  <2>5. QED
    BY <2>3, <2>4
<1> HIDE DEF new
<1>7. data' \in [Address -> Seq(Nat)]
  BY <1>2, <1>4, <1>6 DEF FInv, Typed
<1>8. \A y : (Good(y) => Good(y)') /\ (Answered(y) => Answered(y)')
  BY <1>1, GoodStays DEF Grows
<1>9. \A b \in Nat : (b < n \/ b < old) /\ ~(b < n /\ b < old) => <<a, b>> \in delta
  <2>1. /\ Max({n, old}) \in Nat /\ n <= Max({n, old}) /\ old <= Max({n, old})
        /\ Min({n, old}) \in Nat
        /\ \A b \in Nat : b < Min({n, old}) <=> b < n /\ b < old
    BY <1>3, MaxOfTwo, MinOfTwo
  <2> HIDE DEF old
  <2>2. TAKE b \in Nat
  <2>3. HAVE (b < n \/ b < old) /\ ~(b < n /\ b < old)
  <2>4. old \in Nat
    BY <1>3
  <2>5. b < Max({n, old}) /\ ~(b < Min({n, old}))
    BY <2>1, <2>3, <2>4
  <2>6. b \in 0 .. Max({n, old}) - 1 /\ b >= Min({n, old})
    BY <2>1, <2>5
  <2>7. QED
    BY <2>6
<1> HIDE DEF delta
<1>10. \A b \in Changed(a)' : b \in Changed(a) \/ <<a, b>> \in delta
  <2>1. SUFFICES ASSUME NEW b \in Changed(a)', <<a, b>> \notin delta PROVE b \in Changed(a)
    OBVIOUS
  <2>2. Entry(a) \in Seq(Nat) /\ Len(Entry(a)) \in Nat
    BY <1>2, EntryType
  <2>3. /\ b \in Nat /\ (b < Len(Entry(a)) \/ b < n)
        /\ b >= Len(Entry(a)) \/ b >= n \/ Entry(a)[b + 1] # new[b + 1]
    <3>1. b \in ChangedBytes(Entry(a), new)
      BY <1>5 DEF Changed
    <3>2. QED
      BY <1>6, <2>2, <3>1, ChangedMeans
  <2>4. b < n <=> b < old
    BY <1>9, <2>1, <2>3
  <2>5. /\ b < Len(Entry(a)) \/ b < old
        /\ b >= Len(Entry(a)) \/ b >= old \/ Entry(a)[b + 1] # data[a][b + 1]
    BY <1>3, <1>6, <2>2, <2>3, <2>4
  <2>6. b \in ChangedBytes(Entry(a), data[a])
    BY <1>3, <2>2, <2>3, <2>5, ChangedMeans
  <2>7. QED
    BY <2>6 DEF Changed
<1>11. Accounted'
  <2>1. \A b : <<a, b>> \in delta => Good(<<a, b>>)'
    BY <1>1 DEF Good, Told, Answered
  <2>2. \A b \in Changed(a)' : Good(<<a, b>>)'
    BY <1>2, <1>8, <1>10, <2>1 DEF FInv, Accounted
  <2>3. \A c \in Address : c # a => Changed(c)' = Changed(c)
    BY <1>5, ChangedStays
  <2>4. \A c \in Address : \A b \in Changed(c)' : Good(<<c, b>>)'
    BY <1>8, <2>2, <2>3 DEF FInv, Accounted
  <2>5. QED
    BY <2>4 DEF Accounted
<1>12. Held'
  <2>1. \A w \in views' : \A y \in w.bytes : Good(y)'
    BY <1>1, <1>8 DEF FInv, Held
  <2>2. QED
    BY <2>1 DEF Held
<1>13. LogAnswered'
  <2>1. \A y \in touched' : Answered(y)'
    BY <1>1, <1>8 DEF FInv, LogAnswered
  <2>2. QED
    BY <2>1 DEF LogAnswered
<1>14. Typed' /\ GateInstalled' /\ MovedAllowed' /\ overflow' \in BOOLEAN
  BY <1>1, <1>7 DEF FInv, Typed, Marks, Ranges, GateInstalled, MovedAllowed
<1>15. QED
  BY <1>11, <1>12, <1>13, <1>14 DEF FInv

-----------------------------------------------------------------------------
(* The theorems *)

LEMMA FInvInit == Init => FInv
<1>1. SUFFICES ASSUME Init PROVE FInv
  OBVIOUS
<1>2. PICK invocation \in Invocations :
        /\ accounts = invocation.accounts
        /\ contract = [strict |-> invocation.strict, policy |-> invocation.policy]
        /\ args = invocation.args
        /\ gates = {[id |-> 1, accounts |-> accounts, policy |-> invocation.policy,
                     args |-> GateArgs(invocation)] : x \in {y \in {1} : invocation.strict}}
  BY <1>1 DEF Init
<1>3. /\ second = <<>> /\ data = [a \in Address |-> Entry(a)]
      /\ moved = {} /\ views = {} /\ touched = {} /\ overflow = FALSE
      /\ emitted = NotEmitted
  BY <1>1 DEF Init, NoContext
<1>4. /\ accounts \in Seq(Address) /\ args \in Seq(Nat)
      /\ contract.policy = invocation.policy /\ WellDeclared(contract.policy)
  BY <1>2, FootprintAssumption
<1>5. Typed
  <2>1. data \in [Address -> Seq(Nat)]
    BY <1>3, EntryType
  <2>2. second \in Seq(Address)
    BY <1>3
  <2>3. Ranges(emitted.records)
    BY <1>3 DEF NotEmitted, Ranges
  <2>4. Marks(touched)
    BY <1>3 DEF Marks
  <2>5. QED
    BY <1>3, <1>4, <2>1, <2>2, <2>3, <2>4 DEF Typed
<1>6. GateInstalled
  <2> DEFINE g == [id |-> 1, accounts |-> accounts, policy |-> invocation.policy,
                   args |-> GateArgs(invocation)]
  <2>1. gates = {} \/ gates = {g}
    BY <1>2
  <2>2. /\ g.id = 1 /\ g.accounts = accounts /\ g.policy = contract.policy
        /\ g.args \in {args, <<>>}
    BY <1>2, <1>4 DEF GateArgs
  <2> HIDE DEF g
  <2>3. QED
    BY <2>1, <2>2 DEF GateInstalled
<1>7. \A a \in Address : Changed(a) = {}
  <2>1. TAKE a \in Address
  <2>2. Entry(a) \in Seq(Nat) /\ data[a] = Entry(a)
    BY <1>3, EntryType
  <2>3. \A b : b \notin ChangedBytes(Entry(a), Entry(a))
    BY <2>2, ChangedMeans
  <2>4. QED
    BY <2>2, <2>3 DEF Changed
<1>8. Held /\ Accounted /\ LogAnswered /\ MovedAllowed /\ overflow \in BOOLEAN
  BY <1>3, <1>7 DEF Held, Accounted, LogAnswered, MovedAllowed
<1>9. QED
  BY <1>5, <1>6, <1>8 DEF FInv

LEMMA FInvStep == FInv /\ [Next]_vars => FInv'
<1>1. SUFFICES ASSUME FInv, [Next]_vars PROVE FInv'
  OBVIOUS
<1>2. CASE Acquire
  <2>1. \E a, bytes : Obtains(a, bytes)
    BY <1>1, <1>2, AcquireObtains DEF FInv
  <2>2. QED
    BY <1>1, <2>1, ObtainsInductive
<1>3. CASE \E a \in Listed : TrySetLamports(a) \/ \E n \in Lengths : Resize(a, n)
  <2>1. \A n \in Lengths : n \in Nat
    BY FootprintAssumption
  <2>2. QED
    BY <1>1, <1>3, <2>1, LamportsInductive, ResizeInductive
<1>4. CASE \E v \in views :
             DropView(v) \/ \E b \in v.bytes \cap (Address \X Written) : Write(v, b)
  BY <1>1, <1>4, DropViewInductive, WriteInductive
<1>5. CASE \E ctx \in Contexts : EmitTouchMap(ctx)
  BY <1>1, <1>5, EmitInductive
<1>6. CASE \E k \in DOMAIN accounts : SecondContext(k)
  BY <1>1, <1>6, SecondInductive
<1>7. CASE DropGate
  BY <1>1, <1>7, DropGateInductive
<1>8. CASE UNCHANGED vars
  <2>1. /\ views' \subseteq views
        /\ UNCHANGED <<accounts, contract, args, second, data, touched, overflow,
                       ungoverned, unrecorded>>
        /\ UNCHANGED <<gates, moved, emitted>>
    BY <1>8 DEF vars, log
  <2>2. /\ overflow' \in BOOLEAN /\ Held' /\ Accounted' /\ LogAnswered'
        /\ Ranges(emitted.records)' => Typed'
    BY <1>1, <2>1, QuietKeeps
  <2>3. Typed' /\ GateInstalled' /\ MovedAllowed'
    BY <1>1, <2>1, <2>2 DEF FInv, Typed, GateInstalled, MovedAllowed
  <2>4. QED
    BY <2>2, <2>3 DEF FInv
<1>9. QED
  BY <1>1, <1>2, <1>3, <1>4, <1>5, <1>6, <1>7, <1>8 DEF Next

\* Every byte that changed, and every byte still to be changed through a live
\* view, is accounted for, whatever the surfaces, the resets and the order.
THEOREM FootprintInvariant == Spec => []FInv
<1>1. Init => FInv
  BY FInvInit
<1>2. FInv /\ [Next]_vars => FInv'
  BY FInvStep
<1>3. QED
  BY <1>1, <1>2, PTL DEF Spec

\* Never a false PASS (verify.rs): a PASS on an account means that every byte of
\* it that changed, and its balance if it did, is authorized.
THEOREM PassIsTrue == Spec => []NoFalsePass
<1>1. FInv => NoFalsePass
  BY PassIsAuthorized DEF FInv, NoFalsePass
<1>2. QED
  BY <1>1, FootprintInvariant, PTL

\* The runtime keeps a strict instruction inside its declared write-set.
THEOREM WritesContained == Spec => []Contained
<1>1. FInv => Contained
  BY DEF FInv, Accounted, Good, Answered, Warranted, Contained
<1>2. QED
  BY <1>1, FootprintInvariant, PTL

\* No change escapes the touch log unless it says so.
THEOREM ChangesTracked == Spec => []Tracked
<1>1. FInv => Tracked
  BY DEF FInv, Accounted, Good, Told, Tracked
<1>2. QED
  BY <1>1, FootprintInvariant, PTL

LEMMA SlotIsPosition ==
  ASSUME accounts \in Seq(Address), NoDuplicates, NEW i \in DOMAIN accounts
  PROVE  SlotOf(accounts, accounts[i]) = i - 1
<1> DEFINE at == {k \in DOMAIN accounts : accounts[k] = accounts[i]}
<1>1. at = {i} /\ i \in Nat
  BY DEF NoDuplicates
<1>2. Min(at) \in at
  <2>1. at \subseteq Nat /\ at # {}
    BY <1>1
  <2> HIDE DEF at
  <2>2. QED
    BY <2>1, MinFacts
<1>3. Min(at) = i
  BY <1>1, <1>2
<1>4. QED
  BY <1>3 DEF SlotOf

\* What the honest handler's map says, held against any faithful resolution of
\* the contract, is no violation.
LEMMA HonestPasses ==
  ASSUME FInv, Honest, NoDuplicates, NEW i \in DOMAIN accounts,
         NEW authorized, Faithful(authorized)
  PROVE  VerifyContract(contract, authorized, {Delta(i)}, emitted) # "Violation"
<1> DEFINE d == Delta(i)
<1>1. SUFFICES ASSUME contract.strict, ~IsPartial(emitted),
                      Violating(contract, authorized, {d}, emitted)
               PROVE  FALSE
  BY DEF VerifyContract
<1>2. /\ accounts \in Seq(Address) /\ Marks(touched) /\ Ranges(emitted.records)
      /\ ungoverned = {} /\ unrecorded = {} /\ emitted = Encoded(accounts)
      /\ \A m \in moved : m[2]
  BY DEF FInv, Typed, Honest
<1>3. /\ emitted.overflowed = overflow
      /\ \A r \in emitted.records :
           \E j \in DOMAIN accounts :
             /\ r.slot = SlotOf(accounts, accounts[j])
             /\ \A b \in Nat : Over(r, b) => <<accounts[j], b>> \in touched
      /\ \A j \in DOMAIN accounts : \A b \in Nat : <<accounts[j], b>> \in touched =>
           \E r \in emitted.records :
             r.write /\ r.slot = SlotOf(accounts, accounts[j]) /\ Over(r, b)
  BY <1>2, EncodedMeans
<1>4. overflow # TRUE
  BY <1>1, <1>3 DEF IsPartial
<1>5. \A j \in DOMAIN accounts :
        j - 1 \in Nat /\ accounts[j] \in Address /\ SlotOf(accounts, accounts[j]) = j - 1
  BY <1>2, SlotIsPosition
<1>6. ASSUME NEW j \in DOMAIN accounts, NEW b \in Nat, <<accounts[j], b>> \in touched
      PROVE  Authorized(j - 1, b)
  <2>1. Warranted(<<accounts[j], b>>)
    BY <1>1, <1>2, <1>6 DEF FInv, LogAnswered, Answered
  <2>2. QED
    BY <2>1 DEF Warranted, NoDuplicates
<1>7. /\ d.account_index = i - 1 /\ d.pre = Entry(accounts[i])
      /\ d.post = data[accounts[i]] /\ d.lamports_changed = Moved(accounts[i])
      /\ d.pre \in Seq(Nat) /\ d.post \in Seq(Nat)
  BY <1>5, EntryType DEF Delta, FInv, Typed
<1> HIDE DEF d
<1>8. ~Untracked(d, emitted)
  <2>1. SUFFICES ASSUME NEW c \in ChangedIntervals(d.pre, d.post)
                 PROVE  FirstGap(c.offset, End(c), Acquired(emitted, i - 1)) = {}
    BY <1>7 DEF Untracked
  <2>2. PICK n \in Nat : ChangedBytes(d.pre, d.post) \subseteq Nat
                         /\ \A b \in ChangedBytes(d.pre, d.post) : b < n
    BY <1>7, ChangedBounded
  <2>3. /\ c.offset \in Nat /\ c.size \in Nat /\ End(c) \in Nat
        /\ \A b \in Nat : Over(c, b) => b \in ChangedBytes(d.pre, d.post)
    BY <2>2, RunsCover DEF ChangedIntervals, End
  <2>4. ASSUME NEW b \in Nat, c.offset <= b, b < End(c)
        PROVE  Covered(Acquired(emitted, i - 1), b)
    <3>1. b \in Changed(accounts[i])
      BY <1>7, <2>3, <2>4 DEF Over, Changed
    <3>2. <<accounts[i], b>> \in touched
      BY <1>2, <1>4, <1>5, <3>1 DEF FInv, Accounted, Good, Told
    <3>3. QED
      BY <1>3, <1>5, <3>2 DEF Covered, Acquired
  <2>5. Ranges(Acquired(emitted, i - 1))
    BY <1>2 DEF Ranges, Acquired
  <2>6. QED
    BY <2>3, <2>4, <2>5, FirstGapFinds
<1>9. ~UnauthorizedLamports(d, contract)
  <2>1. SUFFICES ASSUME MutationComplete(contract), Moved(accounts[i])
                 PROVE  i - 1 \in contract.policy.lamports.indices
    BY <1>7 DEF UnauthorizedLamports
  <2>2. <<accounts[i], TRUE>> \in moved
    BY <1>2, <2>1 DEF Moved
  <2>3. AllowsLamportMutation(contract.policy, i - 1)
    BY <2>2 DEF FInv, MovedAllowed, NoDuplicates
  <2>4. QED
    BY <2>1, <2>3 DEF MutationComplete, AllowsLamportMutation
<1>10. ASSUME NEW r \in emitted.records
       PROVE  ~UnauthorizedAcquisition(r, authorized)
  <2>1. PICK j \in DOMAIN accounts :
          /\ r.slot = SlotOf(accounts, accounts[j])
          /\ \A b \in Nat : Over(r, b) => <<accounts[j], b>> \in touched
    BY <1>3
  <2>2. r.slot = j - 1 /\ j - 1 \in Nat
    BY <1>5, <2>1
  <2>3. r.offset \in Nat /\ r.size \in Nat /\ End(r) \in Nat
    BY <1>2 DEF Ranges, End
  <2>4. \A b \in Nat : r.offset <= b /\ b < End(r) => Covered(OfAccount(authorized, j - 1), b)
    BY <1>6, <2>1, <2>2 DEF Over, Faithful
  <2>5. Ranges(OfAccount(authorized, j - 1))
    BY DEF Faithful, Ranges, OfAccount
  <2>6. FirstGap(r.offset, End(r), OfAccount(authorized, j - 1)) = {}
    BY <2>3, <2>4, <2>5, FirstGapFinds
  <2>7. QED
    BY <2>2, <2>6 DEF UnauthorizedAcquisition, OfAccount
<1>11. QED
  BY <1>1, <1>8, <1>9, <1>10 DEF Violating

\* A handler that stayed on recorded surfaces under the bound policy is never
\* accused, however the log joined its records.
THEOREM HonestyPasses == Spec => []HonestNotFlagged
<1>1. ASSUME FInv, Honest, NoDuplicates, NEW i \in DOMAIN accounts
      PROVE  "Violation" \notin Verdicts(i)
  <2>1. Verify(contract, {Delta(i)}, emitted) # "Violation"
    <3>1. CASE contract.policy.parametric = <<>>
      <4>1. Faithful(contract.policy.allows)
        BY <1>1, <3>1, StaticFaithful DEF FInv, Typed
      <4>2. VerifyContract(contract, contract.policy.allows, {Delta(i)}, emitted) # "Violation"
        BY <1>1, <4>1, HonestPasses
      <4>3. QED
        BY <3>1, <4>2 DEF Verify
    <3>2. CASE contract.policy.parametric # <<>>
      BY <3>2 DEF Verify
    <3>3. QED
      BY <3>1, <3>2
  <2>2. VerifyInvocation(contract, args, {Delta(i)}, emitted) # "Violation"
    <3>1. CASE Resolvable(contract.policy, args)
      <4>1. Faithful(ResolvedRanges(contract.policy, args))
        BY <1>1, <3>1, ResolvedFaithful DEF FInv, Typed
      <4>2. VerifyContract(contract, ResolvedRanges(contract.policy, args), {Delta(i)}, emitted)
              # "Violation"
        BY <1>1, <4>1, HonestPasses
      <4>3. QED
        BY <3>1, <4>2 DEF VerifyInvocation
    <3>2. CASE ~Resolvable(contract.policy, args)
      BY <3>2 DEF VerifyInvocation
    <3>3. QED
      BY <3>1, <3>2
  <2>3. QED
    BY <2>1, <2>2 DEF Verdicts
<1>2. FInv => HonestNotFlagged
  BY <1>1 DEF HonestNotFlagged
<1>3. QED
  BY <1>2, FootprintInvariant, PTL
=============================================================================
