--------------------------- MODULE TouchLogProofs ---------------------------
(***************************************************************************)
(* Proofs about TouchLog for every capacity, every set of accounts and     *)
(* every range a program touches: the log loses no byte without saying so, *)
(* invents none, and calls itself partial only when it has to.             *)
(*                                                                         *)
(* Coverage rests on merge_exact alone: a merged record accounts for what  *)
(* either of its parts did and claims no more than both.  That overflow is *)
(* justified rests on what the compaction loop has established half way:   *)
(* as long as nothing was merged, no pair it has passed can be.            *)
(***************************************************************************)
EXTENDS TouchLog, TLAPS

Point == [key : Key, byte : Nat, kind : Kind]

Justified(r, S) == \A b \in r.offset .. End(r) - 1 : Byte(r, b) \in S

EntriesJustified == \A i \in DOMAIN entries : Justified(entries[i], touched)

BorrowTouched == Compacting => Justified(op.borrow, touched)

\* The pairs the compaction has passed in this pass.
Passed(k, l) == k < l /\ (k < op.i \/ (k = op.i /\ l < op.j))

ScanInv ==
  Compacting =>
    /\ ~overflow /\ op.before = MAX_TOUCH_RECORDS
    /\ Len(entries) <= op.before
    /\ op.merged_any => Len(entries) < op.before
    /\ Len(entries) = op.before =>
         /\ \A k \in DOMAIN entries : ~Mergeable(entries[k], op.borrow)
         /\ \A k, l \in DOMAIN entries : Passed(k, l) => ~Mergeable(entries[k], entries[l])

IInv == TypeOK /\ NothingLost /\ EntriesJustified /\ BorrowTouched /\ ScanInv

-----------------------------------------------------------------------------
(* Records *)

LEMMA TouchIsRecord ==
  ASSUME NEW t \in Touch
  PROVE  t \in Record
BY TouchLogAssumption DEF Record

LEMMA RecordFacts ==
  ASSUME NEW r \in Record
  PROVE  /\ r.key \in Key /\ r.offset \in Nat /\ r.size \in Nat /\ r.size <= U32_MAX
         /\ r.kind \in Kind /\ U32_MAX \in Nat
         /\ r = [key |-> r.key, offset |-> r.offset, size |-> r.size, kind |-> r.kind]
BY TouchLogAssumption DEF Record

\* The union of two records that meet: the smaller offset, the larger end.
LEMMA UnionFacts ==
  ASSUME NEW a \in Record, NEW b \in Record
  PROVE  /\ Union(a, b).key = a.key /\ Union(a, b).kind = a.kind
         /\ Union(a, b).offset \in Nat /\ Union(a, b).size \in Nat
         /\ Union(a, b).offset <= a.offset /\ Union(a, b).offset <= b.offset
         /\ Union(a, b).offset \in {a.offset, b.offset}
         /\ End(Union(a, b)) >= End(a) /\ End(Union(a, b)) >= End(b)
         /\ End(Union(a, b)) \in {End(a), End(b)}
         /\ DOMAIN Union(a, b) = {"key", "offset", "size", "kind"}
<1>1. PICK lo \in Nat : lo = IF a.offset < b.offset THEN a.offset ELSE b.offset
  BY RecordFacts
<1>2. PICK hi \in Nat : hi = IF End(a) > End(b) THEN End(a) ELSE End(b)
  BY RecordFacts DEF End
<1>3. PICK size : size = hi - lo
  OBVIOUS
<1>4. Union(a, b) = [a EXCEPT !.offset = lo, !.size = size]
  BY <1>1, <1>2, <1>3 DEF Union
<1>5. Union(a, b) = [key |-> a.key, offset |-> lo, size |-> size, kind |-> a.kind]
  BY <1>4, RecordFacts
<1>6. size \in Nat /\ lo + size = hi
  BY <1>1, <1>2, <1>3, RecordFacts DEF End
<1>7. /\ Union(a, b).key = a.key /\ Union(a, b).kind = a.kind
      /\ Union(a, b).offset = lo /\ Union(a, b).size = size
      /\ DOMAIN Union(a, b) = {"key", "offset", "size", "kind"}
  BY <1>5
<1>8. End(Union(a, b)) = hi
  BY <1>6, <1>7 DEF End
<1>9. /\ lo <= a.offset /\ lo <= b.offset /\ lo \in {a.offset, b.offset}
      /\ hi >= End(a) /\ hi >= End(b) /\ hi \in {End(a), End(b)}
  BY <1>1, <1>2, RecordFacts DEF End
<1>10. QED
  BY <1>1, <1>6, <1>7, <1>8, <1>9

\* merge_exact: the merged record is a record, accounts for whatever either
\* part accounted for, and claims nothing neither part claimed.
LEMMA MergeExact ==
  ASSUME NEW a \in Record, NEW b \in Record, Mergeable(a, b)
  PROVE  /\ Merged(a, b) \in Record
         /\ \A x \in Point : AccountsFor(a, x) \/ AccountsFor(b, x) => AccountsFor(Merged(a, b), x)
         /\ \A S : Justified(a, S) /\ Justified(b, S) => Justified(Merged(a, b), S)
<1>1. a.key = b.key
  BY DEF Mergeable
<1>2. CASE a.kind = b.kind
  <2>1. PICK u : u = Union(a, b)
    OBVIOUS
  <2>2. Merged(a, b) = u
    BY <1>2, <2>1 DEF Merged
  <2>3. b.offset <= End(a) /\ a.offset <= End(b) /\ u.size <= U32_MAX
    BY <1>2, <2>1 DEF Mergeable, SameKindMerge
  <2>4. /\ u.key = a.key /\ u.kind = a.kind /\ u.offset \in Nat /\ u.size \in Nat
        /\ u.offset <= a.offset /\ u.offset <= b.offset /\ u.offset \in {a.offset, b.offset}
        /\ End(u) >= End(a) /\ End(u) >= End(b) /\ End(u) \in {End(a), End(b)}
    BY <2>1, UnionFacts
  <2>5. u \in Record
    <3>1. u = [key |-> u.key, offset |-> u.offset, size |-> u.size, kind |-> u.kind]
      BY <2>1, RecordFacts DEF Union
    <3>2. u.size \in 0 .. U32_MAX /\ u.key \in Key /\ u.kind \in Kind
      BY <2>3, <2>4, RecordFacts
    <3>3. QED
      BY <2>4, <3>1, <3>2 DEF Record
  <2>6. End(u) \in Nat /\ End(a) \in Nat /\ End(b) \in Nat /\ a.offset \in Nat /\ b.offset \in Nat
    BY <2>4, RecordFacts DEF End
  <2>7. ASSUME NEW x \in Point, AccountsFor(a, x) \/ AccountsFor(b, x)
        PROVE  AccountsFor(u, x)
    <3>1. x.byte \in Nat
      BY DEF Point
    <3>2. QED
      BY <1>1, <1>2, <2>4, <2>6, <2>7, <3>1 DEF AccountsFor, Covers
  <2>8. ASSUME NEW S, Justified(a, S), Justified(b, S)
        PROVE  Justified(u, S)
    <3>1. SUFFICES ASSUME NEW n \in u.offset .. End(u) - 1
                   PROVE  Byte(u, n) \in S
      BY DEF Justified
    <3>2. n \in a.offset .. End(a) - 1 \/ n \in b.offset .. End(b) - 1
      BY <2>3, <2>4, <2>6, <3>1
    <3>3. Byte(u, n) = Byte(a, n) /\ Byte(u, n) = Byte(b, n)
      BY <1>1, <1>2, <2>4 DEF Byte
    <3>4. QED
      BY <2>8, <3>2, <3>3 DEF Justified
  <2>9. QED
    BY <2>2, <2>5, <2>7, <2>8
<1>3. CASE a.kind # b.kind
  <2>1. PICK read \in Record, write \in Record :
          /\ read.kind = "Read" /\ write.kind = "Write" /\ Within(read, write)
          /\ Merged(a, b) = write
          /\ (read = a /\ write = b) \/ (read = b /\ write = a)
    <3>1. CASE a.kind = "Write"
      BY <1>3, <3>1 DEF Mergeable, SameKindMerge, Merged
    <3>2. CASE a.kind # "Write"
      BY <1>3, <3>2 DEF Mergeable, SameKindMerge, Merged
    <3>3. QED
      BY <3>1, <3>2
  <2>2. ASSUME NEW x \in Point, AccountsFor(read, x)
        PROVE  AccountsFor(write, x)
    <3>1. x.byte \in Nat
      BY DEF Point
    <3>2. /\ End(read) \in Nat /\ End(write) \in Nat
          /\ read.offset \in Nat /\ write.offset \in Nat
      BY RecordFacts DEF End
    <3>3. read.key = write.key
      BY <1>1, <2>1
    <3>4. QED
      BY <2>1, <2>2, <3>1, <3>2, <3>3 DEF AccountsFor, Covers, Within
  <2>3. QED
    BY <2>1, <2>2
<1>4. QED
  BY <1>2, <1>3

\* Closing up a slot keeps every other record and makes up none.
LEMMA RemoveAtFacts ==
  ASSUME NEW s \in Seq(Record), NEW idx \in 1 .. Len(s)
  PROVE  /\ RemoveAt(s, idx) \in Seq(Record) /\ Len(RemoveAt(s, idx)) = Len(s) - 1
         /\ \A m \in DOMAIN RemoveAt(s, idx) : \E k \in DOMAIN s : RemoveAt(s, idx)[m] = s[k]
         /\ \A k \in DOMAIN s : k # idx => \E m \in DOMAIN RemoveAt(s, idx) : RemoveAt(s, idx)[m] = s[k]
<1>1. PICK n \in Nat : Len(s) = n + 1
  <2>1. Len(s) - 1 \in Nat /\ Len(s) = (Len(s) - 1) + 1
    OBVIOUS
  <2>2. QED
    BY <2>1
<1>2. DOMAIN s = 1 .. n + 1 /\ \A k \in 1 .. n + 1 : s[k] \in Record
  BY <1>1
<1>3. PICK t : t = RemoveAt(s, idx)
  OBVIOUS
<1>4. t = [k \in 1 .. n |-> IF k < idx THEN s[k] ELSE s[k + 1]]
  BY <1>1, <1>3 DEF RemoveAt
<1>5. t \in [1 .. n -> Record]
  BY <1>2, <1>4
<1>6. t \in Seq(Record) /\ Len(t) = n /\ DOMAIN t = 1 .. n
  BY <1>5
<1>7. ASSUME NEW m \in 1 .. n
      PROVE  \E k \in 1 .. n + 1 : t[m] = s[k]
  <2>1. t[m] = IF m < idx THEN s[m] ELSE s[m + 1]
    BY <1>4
  <2>2. QED
    BY <2>1
<1>8. ASSUME NEW k \in 1 .. n + 1, k # idx
      PROVE  \E m \in 1 .. n : t[m] = s[k]
  <2>1. CASE k < idx
    <3>1. k \in 1 .. n /\ t[k] = s[k]
      BY <1>1, <1>4, <2>1
    <3>2. QED
      BY <3>1
  <2>2. CASE k > idx
    <3>1. k - 1 \in 1 .. n /\ ~(k - 1 < idx) /\ (k - 1) + 1 = k
      BY <1>1, <2>2
    <3>2. t[k - 1] = s[k]
      BY <1>4, <3>1
    <3>3. QED
      BY <3>1, <3>2
  <2>3. QED
    BY <1>1, <1>8, <2>1, <2>2
<1>9. t \in Seq(Record) /\ Len(t) = Len(s) - 1
  BY <1>1, <1>6
<1>10. \A m \in DOMAIN t : \E k \in DOMAIN s : t[m] = s[k]
  BY <1>2, <1>6, <1>7
<1>11. \A k \in DOMAIN s : k # idx => \E m \in DOMAIN t : t[m] = s[k]
  BY <1>2, <1>6, <1>8
<1>12. QED
  BY <1>3, <1>9, <1>10, <1>11

-----------------------------------------------------------------------------
(* The state *)

\* What is known of a log and of a compaction under way.
LEMMA LogFacts ==
  ASSUME TypeOK
  PROVE  /\ entries \in Seq(Record) /\ Len(entries) \in Nat
         /\ DOMAIN entries = 1 .. Len(entries)
         /\ \A i \in DOMAIN entries : entries[i] \in Record
         /\ touched \subseteq Point /\ MAX_TOUCH_RECORDS \in Nat
BY TouchLogAssumption DEF TypeOK, Point

LEMMA LoopFacts ==
  ASSUME TypeOK, Compacting
  PROVE  /\ op.i \in Nat /\ op.j \in Nat /\ op.merged_any \in BOOLEAN /\ op.before \in Nat
         /\ op.borrow \in Touch /\ op.borrow \in Record
         /\ 1 <= op.i /\ op.i < op.j /\ op.i <= Len(entries)
         /\ op.before <= MAX_TOUCH_RECORDS
         /\ op = Compact(op.i, op.j, op.merged_any, op.before, op.borrow)
<1>1. op # Idle
  BY DEF Compacting, Idle
<1>2. op \in [step : {"compact"}, i : Nat, j : Nat, merged_any : BOOLEAN,
             before : Nat, borrow : Touch]
  BY <1>1 DEF TypeOK
<1>3. QED
  BY <1>1, <1>2, TouchIsRecord DEF TypeOK, Compact

LEMMA IdleIsNotCompacting == Idle.step # "compact"
BY DEF Idle

LEMMA CompactFields ==
  ASSUME NEW i, NEW j, NEW merged_any, NEW before, NEW borrow
  PROVE  /\ Compact(i, j, merged_any, before, borrow).step = "compact"
         /\ Compact(i, j, merged_any, before, borrow).i = i
         /\ Compact(i, j, merged_any, before, borrow).j = j
         /\ Compact(i, j, merged_any, before, borrow).merged_any = merged_any
         /\ Compact(i, j, merged_any, before, borrow).before = before
         /\ Compact(i, j, merged_any, before, borrow).borrow = borrow
BY DEF Compact

\* The bytes of a touched range: each is accounted for by the range itself.
LEMMA BytesFacts ==
  ASSUME NEW t \in Touch
  PROVE  /\ Bytes(t) \subseteq Point
         /\ \A x \in Bytes(t) : AccountsFor(t, x)
         /\ \A b \in t.offset .. End(t) - 1 : Byte(t, b) \in Bytes(t)
<1>1. /\ t.offset \in Nat /\ t.size \in Nat /\ End(t) \in Nat /\ t.key \in Key /\ t.kind \in Kind
  BY TouchIsRecord, RecordFacts DEF End
<1>2. ASSUME NEW b \in t.offset .. End(t) - 1
      PROVE  Byte(t, b) \in Point /\ AccountsFor(t, Byte(t, b))
  <2>1. b \in Nat /\ t.offset <= b /\ b < End(t)
    BY <1>1
  <2>2. Byte(t, b).key = t.key /\ Byte(t, b).byte = b /\ Byte(t, b).kind = t.kind
    BY DEF Byte
  <2>3. Byte(t, b) \in Point
    BY <1>1, <2>1 DEF Byte, Point
  <2>4. QED
    BY <2>1, <2>2, <2>3 DEF AccountsFor, Covers
<1>3. QED
  BY <1>2 DEF Bytes

\* The invariant in the words a step uses: who accounts for a byte.
Held(x, s) == \E i \in DOMAIN s : AccountsFor(s[i], x)

LEMMA HeldAppend ==
  ASSUME NEW s \in Seq(Record), NEW r \in Record
  PROVE  \A x : Held(x, Append(s, r)) <=> Held(x, s) \/ AccountsFor(r, x)
<1>1. /\ DOMAIN s = 1 .. Len(s) /\ Len(s) \in Nat
      /\ DOMAIN Append(s, r) = 1 .. Len(s) + 1
      /\ Append(s, r)[Len(s) + 1] = r
      /\ \A i \in 1 .. Len(s) : Append(s, r)[i] = s[i]
  OBVIOUS
<1>2. SUFFICES ASSUME NEW x
               PROVE  Held(x, Append(s, r)) <=> Held(x, s) \/ AccountsFor(r, x)
  OBVIOUS
<1>3. ASSUME Held(x, s) \/ AccountsFor(r, x)
      PROVE  Held(x, Append(s, r))
  <2>1. CASE Held(x, s)
    <3>1. PICK i \in 1 .. Len(s) : AccountsFor(s[i], x)
      BY <1>1, <2>1 DEF Held
    <3>2. i \in 1 .. Len(s) + 1 /\ Append(s, r)[i] = s[i]
      BY <1>1
    <3>3. QED
      BY <1>1, <3>1, <3>2 DEF Held
  <2>2. CASE AccountsFor(r, x)
    <3>1. Len(s) + 1 \in 1 .. Len(s) + 1
      BY <1>1
    <3>2. QED
      BY <1>1, <2>2, <3>1 DEF Held
  <2>3. QED
    BY <1>3, <2>1, <2>2
<1>4. ASSUME Held(x, Append(s, r))
      PROVE  Held(x, s) \/ AccountsFor(r, x)
  <2>1. PICK i \in 1 .. Len(s) + 1 : AccountsFor(Append(s, r)[i], x)
    BY <1>1, <1>4 DEF Held
  <2>2. CASE i = Len(s) + 1
    BY <1>1, <2>1, <2>2
  <2>3. CASE i # Len(s) + 1
    <3>1. i \in 1 .. Len(s)
      BY <1>1, <2>3
    <3>2. QED
      BY <1>1, <2>1, <3>1 DEF Held
  <2>4. QED
    BY <2>2, <2>3
<1>5. QED
  BY <1>3, <1>4

\* A record may be replaced by one that accounts for all it did.
LEMMA HeldReplace ==
  ASSUME NEW s \in Seq(Record), NEW i \in DOMAIN s, NEW r \in Record,
         \A x \in Point : AccountsFor(s[i], x) => AccountsFor(r, x)
  PROVE  /\ [s EXCEPT ![i] = r] \in Seq(Record) /\ Len([s EXCEPT ![i] = r]) = Len(s)
         /\ DOMAIN [s EXCEPT ![i] = r] = DOMAIN s
         /\ \A k \in DOMAIN s : [s EXCEPT ![i] = r][k] = IF k = i THEN r ELSE s[k]
         /\ \A x \in Point : Held(x, s) \/ AccountsFor(r, x) => Held(x, [s EXCEPT ![i] = r])
<1>1. PICK t : t = [s EXCEPT ![i] = r]
  OBVIOUS
<1>2. /\ t \in Seq(Record) /\ Len(t) = Len(s) /\ DOMAIN t = DOMAIN s
      /\ \A k \in DOMAIN s : t[k] = IF k = i THEN r ELSE s[k]
  BY <1>1
<1>3. ASSUME NEW x \in Point, Held(x, s) \/ AccountsFor(r, x)
      PROVE  Held(x, t)
  <2>1. CASE AccountsFor(r, x)
    BY <1>2, <2>1 DEF Held
  <2>2. CASE Held(x, s)
    <3>1. PICK k \in DOMAIN s : AccountsFor(s[k], x)
      BY <2>2 DEF Held
    <3>2. AccountsFor(t[k], x)
      BY <1>2, <3>1
    <3>3. QED
      BY <1>2, <3>2 DEF Held
  <2>3. QED
    BY <1>3, <2>1, <2>2
<1>4. QED
  BY <1>1, <1>2, <1>3

\* NothingLost, byte by byte.
LEMMA NothingLostIsHeld ==
  NothingLost <=> (~overflow => \A x \in touched :
                     Held(x, entries) \/ (Compacting /\ AccountsFor(op.borrow, x)))
BY DEF NothingLost, Held

\* A call adds the bytes of its range to the history, and nothing else.
LEMMA TouchedGrows ==
  ASSUME TypeOK, NEW t \in Touch, Calls(t)
  PROVE  /\ touched \subseteq touched' /\ touched' \subseteq Point
         /\ \A x \in touched' : x \in touched \/ AccountsFor(t, x)
         /\ Justified(t, touched')
         /\ \A r : Justified(r, touched) => Justified(r, touched')
         /\ op = Idle /\ ~Compacting
<1>1. touched' = touched \cup Bytes(t) /\ op = Idle
  BY DEF Calls
<1>2. touched \subseteq Point
  BY LogFacts
<1>3. touched \subseteq touched' /\ touched' \subseteq Point
  BY <1>1, <1>2, BytesFacts
<1>4. \A x \in touched' : x \in touched \/ AccountsFor(t, x)
  BY <1>1, BytesFacts
<1>5. Justified(t, touched')
  BY <1>1, BytesFacts DEF Justified
<1>6. ASSUME NEW r, Justified(r, touched)
      PROVE  Justified(r, touched')
  BY <1>3, <1>6 DEF Justified
<1>7. QED
  BY <1>1, <1>3, <1>4, <1>5, <1>6, IdleIsNotCompacting DEF Compacting

-----------------------------------------------------------------------------
(* Every step keeps the invariant *)

LEMMA AgainKeeps ==
  ASSUME IInv, NEW t \in Touch, RecordAgain(t)
  PROVE  IInv'
<1>1. Calls(t) /\ UNCHANGED <<entries, overflow, op>>
  BY DEF RecordAgain
<1>2. PICK i \in DOMAIN entries : entries[i] = t
  BY DEF RecordAgain, Recorded
<1>3. TypeOK'
  BY <1>1, TouchedGrows DEF IInv, TypeOK, Point
<1>4. NothingLost'
  <2>1. ~overflow => \A x \in touched : Held(x, entries)
    BY <1>1, NothingLostIsHeld, TouchedGrows DEF IInv
  <2>2. \A x : AccountsFor(t, x) => Held(x, entries)
    BY <1>2 DEF Held
  <2>3. ~overflow => \A x \in touched' : Held(x, entries)
    BY <1>1, <2>1, <2>2, TouchedGrows DEF IInv
  <2>4. QED
    BY <1>1, <2>3 DEF NothingLost, Held
<1>5. EntriesJustified'
  BY <1>1, TouchedGrows DEF IInv, EntriesJustified
<1>6. BorrowTouched' /\ ScanInv'
  BY <1>1, TouchedGrows DEF IInv, BorrowTouched, ScanInv, Compacting
<1>7. QED
  BY <1>3, <1>4, <1>5, <1>6 DEF IInv

LEMMA NewKeeps ==
  ASSUME IInv, NEW t \in Touch, RecordNew(t)
  PROVE  IInv'
<1>1. Calls(t) /\ ~Full /\ UNCHANGED <<overflow, op>>
  BY DEF RecordNew
<1>2. PICK s \in Seq(Record) : s = Append(entries, t) /\ Len(s) = Len(entries) + 1
  <2>1. PICK s : s = Append(entries, t)
    OBVIOUS
  <2>2. s \in Seq(Record) /\ Len(s) = Len(entries) + 1
    BY <2>1, TouchIsRecord, LogFacts DEF IInv
  <2>3. QED
    BY <2>1, <2>2
<1>3. entries' = s
  BY <1>2 DEF RecordNew
<1>4. TypeOK'
  <2>1. Len(s) <= MAX_TOUCH_RECORDS
    BY <1>1, <1>2, LogFacts DEF IInv, Full
  <2>2. touched' \subseteq Point
    BY <1>1, TouchedGrows DEF IInv
  <2>3. op' = Idle
    BY <1>1 DEF Calls
  <2>4. overflow' \in BOOLEAN
    BY <1>1 DEF IInv, TypeOK
  <2>5. QED
    BY <1>3, <2>1, <2>2, <2>3, <2>4 DEF TypeOK, Point
<1>5. NothingLost'
  <2>1. ~overflow => \A x \in touched : Held(x, entries)
    BY <1>1, NothingLostIsHeld, TouchedGrows DEF IInv
  <2>2. \A x : Held(x, s) <=> Held(x, entries) \/ AccountsFor(t, x)
    BY <1>2, HeldAppend, LogFacts, TouchIsRecord DEF IInv
  <2>3. ~overflow => \A x \in touched' : Held(x, s)
    BY <1>1, <2>1, <2>2, TouchedGrows DEF IInv
  <2>4. QED
    BY <1>1, <1>3, <2>3 DEF NothingLost, Held
<1>6. EntriesJustified'
  <2>1. \A i \in DOMAIN s : s[i] = t \/ \E k \in DOMAIN entries : s[i] = entries[k]
    BY <1>2, LogFacts DEF IInv
  <2>2. \A i \in DOMAIN s : Justified(s[i], touched')
    BY <1>1, <2>1, TouchedGrows DEF IInv, EntriesJustified
  <2>3. QED
    BY <1>3, <2>2 DEF EntriesJustified
<1>7. BorrowTouched' /\ ScanInv'
  BY <1>1, TouchedGrows DEF IInv, BorrowTouched, ScanInv, Compacting
<1>8. QED
  BY <1>4, <1>5, <1>6, <1>7 DEF IInv

LEMMA AbsorbKeeps ==
  ASSUME IInv, NEW t \in Touch, Absorb(t)
  PROVE  IInv'
<1>1. Calls(t) /\ UNCHANGED <<overflow, op>>
  BY DEF Absorb
<1>2. PICK i \in DOMAIN entries : /\ Mergeable(entries[i], t)
                                /\ entries' = [entries EXCEPT ![i] = Merged(entries[i], t)]
  BY DEF Absorb, Absorbers
<1>3. PICK r \in Record : r = Merged(entries[i], t)
  BY <1>2, MergeExact, TouchIsRecord, LogFacts DEF IInv
<1>4. /\ \A x \in Point : AccountsFor(entries[i], x) \/ AccountsFor(t, x) => AccountsFor(r, x)
      /\ Justified(r, touched')
  <2>1. entries[i] \in Record /\ t \in Record
    BY <1>2, TouchIsRecord, LogFacts DEF IInv
  <2>2. Justified(entries[i], touched)
    BY <1>2 DEF IInv, EntriesJustified
  <2>3. Justified(entries[i], touched') /\ Justified(t, touched')
    BY <1>1, <2>2, TouchedGrows DEF IInv
  <2>4. QED
    BY <1>2, <1>3, <2>1, <2>3, MergeExact
<1>5. PICK s \in Seq(Record) :
        /\ s = [entries EXCEPT ![i] = r] /\ Len(s) = Len(entries) /\ DOMAIN s = DOMAIN entries
        /\ \A k \in DOMAIN s : s[k] = IF k = i THEN r ELSE entries[k]
        /\ \A x \in Point : Held(x, entries) \/ AccountsFor(r, x) => Held(x, s)
  BY <1>2, <1>3, <1>4, HeldReplace, LogFacts DEF IInv
<1>6. entries' = s
  BY <1>2, <1>3, <1>5
<1>7. TypeOK'
  BY <1>1, <1>5, <1>6, TouchedGrows DEF IInv, TypeOK, Point
<1>8. NothingLost'
  <2>1. ~overflow => \A x \in touched : Held(x, entries)
    BY <1>1, NothingLostIsHeld, TouchedGrows DEF IInv
  <2>2. ~overflow => \A x \in touched' : Held(x, s)
    BY <1>1, <1>4, <1>5, <2>1, TouchedGrows DEF IInv
  <2>3. QED
    BY <1>1, <1>6, <2>2 DEF NothingLost, Held
<1>9. EntriesJustified'
  <2>1. \A k \in DOMAIN entries : Justified(entries[k], touched)
    BY DEF IInv, EntriesJustified
  <2>2. \A k \in DOMAIN s : Justified(s[k], touched')
    BY <1>1, <1>4, <1>5, <2>1, TouchedGrows DEF IInv
  <2>3. QED
    BY <1>6, <2>2 DEF EntriesJustified
<1>10. BorrowTouched' /\ ScanInv'
  BY <1>1, TouchedGrows DEF IInv, BorrowTouched, ScanInv, Compacting
<1>11. QED
  BY <1>7, <1>8, <1>9, <1>10 DEF IInv

LEMMA DropKeeps ==
  ASSUME IInv, NEW t \in Touch, Drop(t)
  PROVE  IInv'
<1>1. Calls(t) /\ overflow /\ UNCHANGED <<entries, overflow, op>>
  BY DEF Drop
<1>2. TypeOK'
  BY <1>1, TouchedGrows DEF IInv, TypeOK, Point
<1>3. NothingLost'
  BY <1>1 DEF NothingLost
<1>4. EntriesJustified'
  BY <1>1, TouchedGrows DEF IInv, EntriesJustified
<1>5. BorrowTouched' /\ ScanInv'
  BY <1>1, TouchedGrows DEF IInv, BorrowTouched, ScanInv, Compacting
<1>6. QED
  BY <1>2, <1>3, <1>4, <1>5 DEF IInv

LEMMA BeginCompactKeeps ==
  ASSUME IInv, NEW t \in Touch, BeginCompact(t)
  PROVE  IInv'
<1>1. /\ Calls(t) /\ Full /\ ~overflow /\ Absorbers(t) = {}
      /\ op' = Compact(1, 2, FALSE, Len(entries), t) /\ UNCHANGED <<entries, overflow>>
  BY DEF BeginCompact
<1>2. /\ op'.step = "compact" /\ op'.i = 1 /\ op'.j = 2 /\ op'.merged_any = FALSE
      /\ op'.before = Len(entries) /\ op'.borrow = t
  BY <1>1 DEF Compact
<1>3. Len(entries) = MAX_TOUCH_RECORDS /\ Len(entries) \in Nat /\ 1 <= Len(entries)
  BY <1>1, LogFacts, TouchLogAssumption DEF IInv, TypeOK, Full
<1>4. Compacting'
  BY <1>2 DEF Compacting
<1>5. TypeOK'
  <2>1. op' \in [step : {"compact"}, i : Nat, j : Nat, merged_any : BOOLEAN,
                 before : Nat, borrow : Touch]
    BY <1>1, <1>3 DEF Compact
  <2>2. touched' \subseteq Point
    BY <1>1, TouchedGrows DEF IInv
  <2>3. 1 <= op'.i /\ op'.i < op'.j /\ op'.i <= Len(entries') /\ op'.before <= MAX_TOUCH_RECORDS
    <3>1. MAX_TOUCH_RECORDS \in Nat
      BY TouchLogAssumption
    <3>2. entries' = entries
      BY <1>1
    <3>3. QED
      BY <1>2, <1>3, <3>1, <3>2
  <2>4. entries' \in Seq(Record) /\ Len(entries') <= MAX_TOUCH_RECORDS /\ overflow' \in BOOLEAN
    BY <1>1 DEF IInv, TypeOK
  <2>5. QED
    BY <2>1, <2>2, <2>3, <2>4 DEF TypeOK, Point
<1>6. NothingLost'
  <2>1. \A x \in touched : Held(x, entries)
    BY <1>1, NothingLostIsHeld, TouchedGrows DEF IInv
  <2>2. \A x \in touched' : Held(x, entries) \/ AccountsFor(t, x)
    BY <1>1, <2>1, TouchedGrows DEF IInv
  <2>3. QED
    BY <1>1, <1>2, <1>4, <2>2 DEF NothingLost, Held
<1>7. EntriesJustified' /\ BorrowTouched'
  BY <1>1, <1>2, TouchedGrows DEF IInv, EntriesJustified, BorrowTouched
<1>8. ScanInv'
  <2>1. \A k \in DOMAIN entries : ~Mergeable(entries[k], t)
    BY <1>1 DEF Absorbers
  <2>2. \A k, l \in DOMAIN entries : ~Passed(k, l)'
    BY <1>2, LogFacts DEF Passed, IInv
  <2>3. Len(entries) <= Len(entries) /\ overflow' = FALSE /\ entries' = entries
    BY <1>1, <1>3 DEF IInv, TypeOK
  <2>4. QED
    BY <1>2, <1>3, <2>1, <2>2, <2>3 DEF ScanInv
<1>9. QED
  BY <1>5, <1>6, <1>7, <1>8 DEF IInv

\* The two steps of a merge: slot i takes the union, slot j is closed up.
LEMMA MergePairKeeps ==
  ASSUME IInv, MergePair
  PROVE  IInv'
<1>1. /\ Compacting /\ op.j <= Len(entries) /\ Mergeable(entries[op.i], entries[op.j])
      /\ op' = Compact(op.i, op.j, TRUE, op.before, op.borrow) /\ UNCHANGED <<overflow, touched>>
  BY DEF MergePair
<1>2. PICK i \in Nat, j \in Nat : i = op.i /\ j = op.j
  BY <1>1, LoopFacts DEF IInv
<1>3. /\ 1 <= i /\ i < j /\ j <= Len(entries) /\ Len(entries) \in Nat
      /\ i \in DOMAIN entries /\ j \in DOMAIN entries /\ i \in 1 .. Len(entries) - 1
      /\ entries[i] \in Record /\ entries[j] \in Record
  BY <1>1, <1>2, LoopFacts, LogFacts DEF IInv
<1>4. PICK r \in Record : r = Merged(entries[i], entries[j])
  BY <1>1, <1>2, <1>3, MergeExact
<1>5. /\ \A x \in Point : AccountsFor(entries[i], x) \/ AccountsFor(entries[j], x) => AccountsFor(r, x)
      /\ Justified(r, touched)
  BY <1>1, <1>2, <1>3, <1>4, MergeExact DEF IInv, EntriesJustified
<1>6. PICK s \in Seq(Record) :
        /\ s = [entries EXCEPT ![i] = r] /\ Len(s) = Len(entries) /\ DOMAIN s = DOMAIN entries
        /\ \A k \in DOMAIN s : s[k] = IF k = i THEN r ELSE entries[k]
  <2>1. PICK s : s = [entries EXCEPT ![i] = r]
    OBVIOUS
  <2>2. s \in Seq(Record) /\ Len(s) = Len(entries) /\ DOMAIN s = DOMAIN entries
    BY <1>3, <1>4, <2>1, LogFacts DEF IInv
  <2>3. \A k \in DOMAIN s : s[k] = IF k = i THEN r ELSE entries[k]
    BY <1>3, <2>1, <2>2, LogFacts DEF IInv
  <2>4. QED
    BY <2>1, <2>2, <2>3
<1>7. PICK t \in Seq(Record) :
        /\ t = RemoveAt(s, j) /\ Len(t) = Len(entries) - 1
        /\ \A m \in DOMAIN t : \E k \in DOMAIN s : t[m] = s[k]
        /\ \A k \in DOMAIN s : k # j => \E m \in DOMAIN t : t[m] = s[k]
  <2>1. j \in 1 .. Len(s)
    BY <1>2, <1>3, <1>6
  <2>2. PICK t : t = RemoveAt(s, j)
    OBVIOUS
  <2>3. /\ t \in Seq(Record) /\ Len(t) = Len(s) - 1
        /\ \A m \in DOMAIN t : \E k \in DOMAIN s : t[m] = s[k]
        /\ \A k \in DOMAIN s : k # j => \E m \in DOMAIN t : t[m] = s[k]
    <3>1. s \in Seq(Record)
      OBVIOUS
    <3>2. QED
      BY <2>1, <2>2, <3>1, RemoveAtFacts
  <2>4. Len(t) = Len(entries) - 1
    BY <1>6, <2>3
  <2>5. QED
    BY <2>2, <2>3, <2>4
<1>8. entries' = t
  BY <1>2, <1>4, <1>6, <1>7 DEF MergePair
<1>9. /\ op'.step = "compact" /\ op'.i = i /\ op'.j = j /\ op'.merged_any = TRUE
      /\ op'.before = op.before /\ op'.borrow = op.borrow
      /\ op' = Compact(i, j, TRUE, op.before, op.borrow)
  <2>1. op' = Compact(i, j, TRUE, op.before, op.borrow)
    BY <1>1, <1>2
  <2>2. QED
    BY <2>1 DEF Compact
<1>10. TypeOK'
  <2>1. op' \in [step : {"compact"}, i : Nat, j : Nat, merged_any : BOOLEAN,
                 before : Nat, borrow : Touch]
    BY <1>1, <1>9, LoopFacts DEF Compact, IInv
  <2>2. 1 <= op'.i /\ op'.i < op'.j /\ op'.i <= Len(t) /\ op'.before <= MAX_TOUCH_RECORDS
    <3>1. i <= Len(entries) - 1 /\ Len(t) = Len(entries) - 1
      BY <1>3, <1>7
    <3>2. op.before <= MAX_TOUCH_RECORDS
      BY <1>1, LoopFacts DEF IInv
    <3>3. QED
      BY <1>3, <1>9, <3>1, <3>2
  <2>3. Len(t) <= MAX_TOUCH_RECORDS
    BY <1>3, <1>7, LogFacts DEF IInv, TypeOK
  <2>4. QED
    BY <1>1, <1>8, <2>1, <2>2, <2>3 DEF TypeOK, IInv
<1>11. ASSUME NEW x \in Point, Held(x, entries)
       PROVE  Held(x, t)
  <2>1. PICK k \in DOMAIN entries : AccountsFor(entries[k], x)
    BY <1>11 DEF Held
  <2>2. PICK q \in DOMAIN s : q # j /\ AccountsFor(s[q], x)
    <3>1. CASE k = i \/ k = j
      BY <1>3, <1>5, <1>6, <2>1, <3>1
    <3>2. CASE k # i /\ k # j
      BY <1>6, <2>1, <3>2
    <3>3. QED
      BY <3>1, <3>2
  <2>3. QED
    BY <1>7, <2>2 DEF Held
<1>12. NothingLost'
  <2>1. ~overflow => \A x \in touched : Held(x, entries) \/ AccountsFor(op.borrow, x)
    BY NothingLostIsHeld DEF IInv
  <2>2. ~overflow => \A x \in touched : Held(x, t) \/ AccountsFor(op.borrow, x)
    BY <1>11, <2>1, LogFacts DEF IInv
  <2>3. QED
    BY <1>1, <1>8, <1>9, <2>2 DEF NothingLost, Held, Compacting
<1>13. EntriesJustified'
  <2>1. \A k \in DOMAIN s : Justified(s[k], touched)
    BY <1>5, <1>6 DEF IInv, EntriesJustified
  <2>2. \A m \in DOMAIN t : Justified(t[m], touched)
    BY <1>7, <2>1
  <2>3. QED
    BY <1>1, <1>8, <2>2 DEF EntriesJustified
<1>14. BorrowTouched'
  BY <1>1, <1>9 DEF IInv, BorrowTouched
<1>15. ScanInv'
  <2>1. ~overflow /\ op.before = MAX_TOUCH_RECORDS /\ Len(entries) <= op.before
    BY <1>1 DEF IInv, ScanInv
  <2>2. Len(t) < op.before /\ Len(t) # op.before /\ Len(t) <= op.before
    BY <1>3, <1>7, <2>1, LogFacts DEF IInv
  <2>3. QED
    BY <1>1, <1>8, <1>9, <2>1, <2>2 DEF ScanInv
<1>16. QED
  BY <1>10, <1>12, <1>13, <1>14, <1>15 DEF IInv

\* What a step of the loop that moves only its counters leaves to be shown.
LEMMA CountersKeep ==
  ASSUME IInv, Compacting, UNCHANGED <<entries, overflow, touched>>,
         NEW i \in Nat, NEW j \in Nat, NEW m \in BOOLEAN,
         op' = Compact(i, j, m, op.before, op.borrow),
         1 <= i, i < j, i <= Len(entries), m => Len(entries) < op.before,
         Len(entries) = op.before =>
           \A k, l \in DOMAIN entries :
             k < l /\ (k < i \/ (k = i /\ l < j)) => ~Mergeable(entries[k], entries[l])
  PROVE  IInv'
<1>1. /\ op'.step = "compact" /\ op'.i = i /\ op'.j = j /\ op'.merged_any = m
      /\ op'.before = op.before /\ op'.borrow = op.borrow
  BY CompactFields
<1>2. TypeOK'
  <2>1. op' \in [step : {"compact"}, i : Nat, j : Nat, merged_any : BOOLEAN,
                 before : Nat, borrow : Touch]
    BY LoopFacts DEF Compact, IInv
  <2>2. op.before <= MAX_TOUCH_RECORDS
    BY LoopFacts DEF IInv
  <2>3. QED
    BY <1>1, <2>1, <2>2 DEF TypeOK, IInv
<1>3. NothingLost' /\ EntriesJustified' /\ BorrowTouched'
  BY <1>1 DEF IInv, NothingLost, EntriesJustified, BorrowTouched, Compacting
<1>4. ScanInv'
  BY <1>1 DEF IInv, ScanInv, Passed
<1>5. QED
  BY <1>2, <1>3, <1>4 DEF IInv

LEMMA KeepPairKeeps ==
  ASSUME IInv, KeepPair
  PROVE  IInv'
<1>1. /\ Compacting /\ op.j <= Len(entries) /\ ~Mergeable(entries[op.i], entries[op.j])
      /\ op' = Compact(op.i, op.j + 1, op.merged_any, op.before, op.borrow) /\ UNCHANGED <<entries, overflow, touched>>
  BY DEF KeepPair
<1>2. /\ op.i \in Nat /\ op.j \in Nat /\ op.j + 1 \in Nat /\ op.merged_any \in BOOLEAN
      /\ 1 <= op.i /\ op.i < op.j + 1 /\ op.i <= Len(entries)
      /\ op = Compact(op.i, op.j, op.merged_any, op.before, op.borrow)
  BY <1>1, LoopFacts DEF IInv
<1>3. op' = Compact(op.i, op.j + 1, op.merged_any, op.before, op.borrow)
  BY <1>1
<1>4. ASSUME Len(entries) = op.before, NEW k \in DOMAIN entries, NEW l \in DOMAIN entries,
             k < l, k < op.i \/ (k = op.i /\ l < op.j + 1)
      PROVE  ~Mergeable(entries[k], entries[l])
  <2>1. CASE k = op.i /\ l = op.j
    BY <1>1, <2>1
  <2>2. CASE ~(k = op.i /\ l = op.j)
    <3>1. Passed(k, l)
      BY <1>2, <1>4, <2>2, LogFacts DEF Passed, IInv
    <3>2. QED
      BY <1>1, <1>4, <3>1 DEF IInv, ScanInv
  <2>3. QED
    BY <2>1, <2>2
<1>5. op.merged_any => Len(entries) < op.before
  BY <1>1 DEF IInv, ScanInv
<1>6. QED
  BY <1>1, <1>2, <1>3, <1>4, <1>5, CountersKeep

LEMMA NextRowKeeps ==
  ASSUME IInv, NextRow
  PROVE  IInv'
<1>1. /\ Compacting /\ op.j > Len(entries) /\ op.i < Len(entries)
      /\ op' = Compact(op.i + 1, op.i + 2, op.merged_any, op.before, op.borrow)
      /\ UNCHANGED <<entries, overflow, touched>>
  BY DEF NextRow
<1>2. /\ op.i \in Nat /\ op.j \in Nat /\ op.merged_any \in BOOLEAN /\ 1 <= op.i
      /\ op = Compact(op.i, op.j, op.merged_any, op.before, op.borrow)
  BY <1>1, LoopFacts DEF IInv
<1>3. /\ op.i + 1 \in Nat /\ op.i + 2 \in Nat /\ 1 <= op.i + 1 /\ op.i + 1 < op.i + 2
      /\ op.i + 1 <= Len(entries)
  BY <1>1, <1>2, LogFacts DEF IInv
<1>4. op' = Compact(op.i + 1, op.i + 2, op.merged_any, op.before, op.borrow)
  BY <1>1
<1>5. ASSUME Len(entries) = op.before, NEW k \in DOMAIN entries, NEW l \in DOMAIN entries,
             k < l, k < op.i + 1 \/ (k = op.i + 1 /\ l < op.i + 2)
      PROVE  ~Mergeable(entries[k], entries[l])
  <2>1. Passed(k, l)
    BY <1>1, <1>2, <1>5, LogFacts DEF Passed, IInv
  <2>2. QED
    BY <1>1, <1>5, <2>1 DEF IInv, ScanInv
<1>6. op.merged_any => Len(entries) < op.before
  BY <1>1 DEF IInv, ScanInv
<1>7. QED
  BY <1>1, <1>2, <1>3, <1>4, <1>5, <1>6, CountersKeep

LEMMA NextPassKeeps ==
  ASSUME IInv, NextPass
  PROVE  IInv'
<1>1. /\ Compacting /\ op.merged_any
      /\ op' = Compact(1, 2, FALSE, op.before, op.borrow)
      /\ UNCHANGED <<entries, overflow, touched>>
  BY DEF NextPass, PassDone
<1>2. op = Compact(op.i, op.j, op.merged_any, op.before, op.borrow)
  BY <1>1, LoopFacts DEF IInv
<1>3. op' = Compact(1, 2, FALSE, op.before, op.borrow)
  BY <1>1
<1>4. Len(entries) < op.before
  BY <1>1 DEF IInv, ScanInv
<1>5. Len(entries) # op.before /\ 1 <= Len(entries)
  BY <1>1, <1>4, LoopFacts, LogFacts DEF IInv
<1>6. QED
  <2>1. 1 \in Nat /\ 2 \in Nat /\ FALSE \in BOOLEAN /\ 1 < 2 /\ 1 <= 1
    OBVIOUS
  <2>2. QED
    BY <1>1, <1>3, <1>5, <2>1, CountersKeep

LEMMA StoreKeeps ==
  ASSUME IInv, StoreAfterCompact
  PROVE  IInv'
<1>1. /\ Compacting /\ Len(entries) < op.before /\ op' = Idle
      /\ UNCHANGED <<overflow, touched>>
  BY DEF StoreAfterCompact, PassDone
<1>2. op.borrow \in Record /\ op.before \in Nat /\ op.before <= MAX_TOUCH_RECORDS
  BY <1>1, LoopFacts DEF IInv
<1>3. PICK s : s = Append(entries, op.borrow)
  OBVIOUS
<1>4. s \in Seq(Record) /\ Len(s) = Len(entries) + 1
  BY <1>2, <1>3, LogFacts DEF IInv
<1>5. entries' = s
  BY <1>3 DEF StoreAfterCompact
<1>6. TypeOK'
  <2>1. Len(s) <= MAX_TOUCH_RECORDS
    BY <1>1, <1>2, <1>4, LogFacts DEF IInv
  <2>2. QED
    BY <1>1, <1>4, <1>5, <2>1 DEF TypeOK, IInv
<1>7. NothingLost'
  <2>1. ~overflow => \A x \in touched : Held(x, entries) \/ AccountsFor(op.borrow, x)
    BY NothingLostIsHeld DEF IInv
  <2>2. \A x : Held(x, s) <=> Held(x, entries) \/ AccountsFor(op.borrow, x)
    BY <1>2, <1>3, HeldAppend, LogFacts DEF IInv
  <2>3. QED
    BY <1>1, <1>5, <2>1, <2>2 DEF NothingLost, Held
<1>8. EntriesJustified'
  <2>1. \A k \in DOMAIN s : s[k] = op.borrow \/ \E l \in DOMAIN entries : s[k] = entries[l]
    BY <1>2, <1>3, LogFacts DEF IInv
  <2>2. \A k \in DOMAIN s : Justified(s[k], touched)
    BY <1>1, <2>1 DEF IInv, EntriesJustified, BorrowTouched
  <2>3. QED
    BY <1>1, <1>5, <2>2 DEF EntriesJustified
<1>9. BorrowTouched' /\ ScanInv'
  BY <1>1, IdleIsNotCompacting DEF BorrowTouched, ScanInv, Compacting
<1>10. QED
  BY <1>6, <1>7, <1>8, <1>9 DEF IInv

LEMMA OverflowKeeps ==
  ASSUME IInv, Overflow
  PROVE  IInv'
<1>1. overflow' = TRUE /\ op' = Idle /\ UNCHANGED <<entries, touched>>
  BY DEF Overflow
<1>2. QED
  BY <1>1, IdleIsNotCompacting
     DEF IInv, TypeOK, NothingLost, EntriesJustified, BorrowTouched, ScanInv, Compacting

LEMMA FreshLog ==
  ASSUME NEW s, s = <<>>
  PROVE  s \in Seq(Record) /\ Len(s) = 0 /\ DOMAIN s = {} /\ Len(s) <= MAX_TOUCH_RECORDS
<1>1. s \in Seq(Record) /\ Len(s) = 0 /\ DOMAIN s = {}
  OBVIOUS
<1>2. MAX_TOUCH_RECORDS \in Nat
  BY TouchLogAssumption
<1>3. QED
  BY <1>1, <1>2

LEMMA ResetKeeps ==
  ASSUME IInv, Reset
  PROVE  IInv'
<1>1. entries' = <<>> /\ overflow' = FALSE /\ touched' = {} /\ op' = Idle
  BY DEF Reset
<1>2. entries' \in Seq(Record) /\ DOMAIN entries' = {} /\ Len(entries') <= MAX_TOUCH_RECORDS
  BY <1>1, FreshLog
<1>3. TypeOK'
  BY <1>1, <1>2 DEF TypeOK
<1>4. QED
  BY <1>1, <1>2, <1>3, IdleIsNotCompacting
     DEF IInv, NothingLost, EntriesJustified, BorrowTouched, ScanInv, Compacting

LEMMA InitHolds == Init => IInv
<1>1. SUFFICES ASSUME Init PROVE IInv
  OBVIOUS
<1>2. entries \in Seq(Record) /\ DOMAIN entries = {} /\ Len(entries) <= MAX_TOUCH_RECORDS
  BY <1>1, FreshLog DEF Init
<1>3. TypeOK
  BY <1>1, <1>2 DEF TypeOK, Init
<1>4. QED
  BY <1>1, <1>2, <1>3, IdleIsNotCompacting
     DEF Init, IInv, NothingLost, EntriesJustified, BorrowTouched, ScanInv, Compacting

LEMMA NextKeeps == IInv /\ [Next]_vars => IInv'
<1>1. SUFFICES ASSUME IInv, [Next]_vars PROVE IInv'
  OBVIOUS
<1>2. CASE UNCHANGED vars
  BY <1>1, <1>2 DEF vars, IInv, TypeOK, NothingLost, EntriesJustified, BorrowTouched, ScanInv,
              Passed, Compacting
<1>3. ASSUME NEW t \in Touch, Call(t)
      PROVE  IInv'
  BY <1>1, <1>3, AgainKeeps, NewKeeps, AbsorbKeeps, DropKeeps, BeginCompactKeeps DEF Call
<1>4. CASE Loop
  BY <1>1, <1>4, MergePairKeeps, KeepPairKeeps, NextRowKeeps, NextPassKeeps, StoreKeeps, OverflowKeeps
     DEF Loop
<1>5. CASE Reset
  BY <1>1, <1>5, ResetKeeps
<1>6. QED
  BY <1>1, <1>2, <1>3, <1>4, <1>5 DEF Next

-----------------------------------------------------------------------------
(* Theorems *)

\* The inductive invariant: coverage, no invention, and the compaction's
\* progress through the pairs of the pass.
THEOREM Invariance == Spec => []IInv
<1>1. Init => IInv
  BY InitHolds
<1>2. IInv /\ [Next]_vars => IInv'
  BY NextKeeps
<1>3. QED
  BY <1>1, <1>2, PTL DEF Spec

\* touch_log keeps its types and never stores past MAX_TOUCH_RECORDS.
THEOREM TypeCorrect == Spec => []TypeOK
<1>1. IInv => TypeOK
  BY DEF IInv
<1>2. QED
  BY <1>1, Invariance, PTL

\* record and record_under_pressure lose no byte while overflow is clear, for
\* every capacity and every sequence of touches.
THEOREM NothingIsLost == Spec => []NothingLost
<1>1. IInv => NothingLost
  BY DEF IInv
<1>2. QED
  BY <1>1, Invariance, PTL

\* No merge, absorb or compaction claims a byte that was not touched that way.
THEOREM NothingIsInvented == Spec => []NothingInvented
<1>1. IInv => NothingInvented
  BY DEF IInv, EntriesJustified, Justified, NothingInvented
<1>2. QED
  BY <1>1, Invariance, PTL

\* A touch map with its partial flag clear accounts for every byte touched.
THEOREM MapAlwaysHonest == Spec => []MapHonest
<1>1. IInv => MapHonest
  <2>1. SUFFICES ASSUME IInv, op = Idle, ~MapIsPartial, NEW x \in touched
                 PROVE  \E i \in Encoded :
                          /\ AccountsFor(entries[i], x)
                          /\ \E n \in DOMAIN Accounts : n - 1 <= U8_MAX /\ Accounts[n] = x.key
    BY DEF MapHonest
  <2>2. ~overflow /\ Encoded = DOMAIN entries
    BY <2>1 DEF MapIsPartial, Skipped
  <2>3. PICK i \in DOMAIN entries : AccountsFor(entries[i], x)
    BY <2>1, <2>2, IdleIsNotCompacting DEF IInv, NothingLost, Compacting
  <2>4. i \in Encoded /\ Slots(entries[i].key) # {}
    BY <2>2, <2>3 DEF Encoded, Encodable
  <2>5. entries[i].key = x.key
    BY <2>3 DEF AccountsFor, Covers
  <2>6. QED
    BY <2>3, <2>4, <2>5 DEF Slots
<1>2. QED
  BY <1>1, Invariance, PTL

\* compact gives up only at its fixpoint: no two of the records and the
\* incoming range can be merged.
THEOREM OverflowAlwaysJustified == Spec => OverflowJustified
<1>1. ASSUME IInv, [Next]_vars, ~overflow, overflow'
      PROVE  LET all == Append(entries, op.borrow)
             IN  /\ Len(all) > MAX_TOUCH_RECORDS
                 /\ \A i, j \in DOMAIN all : i < j => ~Mergeable(all[i], all[j])
  <2>1. Overflow
    <3>1. CASE UNCHANGED vars
      BY <1>1, <3>1 DEF vars
    <3>2. ASSUME NEW t \in Touch, Call(t)
          PROVE  FALSE
      BY <1>1, <3>2 DEF Call, RecordAgain, RecordNew, Absorb, Drop, BeginCompact
    <3>3. CASE Loop
      BY <1>1, <3>3 DEF Loop, MergePair, KeepPair, NextRow, NextPass, StoreAfterCompact
    <3>4. CASE Reset
      BY <1>1, <3>4 DEF Reset
    <3>5. QED
      BY <1>1, <3>1, <3>2, <3>3, <3>4 DEF Next
  <2>2. /\ Compacting /\ op.j > Len(entries) /\ op.i >= Len(entries)
        /\ Len(entries) >= op.before
    BY <2>1 DEF Overflow, PassDone
  <2>3. /\ Len(entries) \in Nat /\ op.i \in Nat /\ op.j \in Nat /\ op.before \in Nat
        /\ op.i = Len(entries) /\ Len(entries) = op.before /\ op.before = MAX_TOUCH_RECORDS
        /\ op.borrow \in Record /\ entries \in Seq(Record)
        /\ \A k \in DOMAIN entries : ~Mergeable(entries[k], op.borrow)
        /\ \A k, l \in DOMAIN entries : Passed(k, l) => ~Mergeable(entries[k], entries[l])
    BY <1>1, <2>2, LoopFacts, LogFacts DEF IInv, ScanInv
  <2>4. \A k, l \in DOMAIN entries : k < l => Passed(k, l)
    BY <2>2, <2>3, LogFacts, <1>1 DEF Passed, IInv
  <2>5. PICK all : all = Append(entries, op.borrow)
    OBVIOUS
  <2>6. /\ Len(all) = Len(entries) + 1 /\ DOMAIN all = 1 .. Len(entries) + 1
        /\ DOMAIN entries = 1 .. Len(entries)
        /\ all[Len(entries) + 1] = op.borrow
        /\ \A k \in 1 .. Len(entries) : all[k] = entries[k]
    BY <2>3, <2>5
  <2>7. ASSUME NEW k \in DOMAIN all, NEW l \in DOMAIN all, k < l
        PROVE  ~Mergeable(all[k], all[l])
    <3>1. k \in 1 .. Len(entries)
      BY <2>3, <2>6, <2>7
    <3>2. CASE l = Len(entries) + 1
      BY <2>3, <2>6, <3>1, <3>2
    <3>3. CASE l # Len(entries) + 1
      <4>1. l \in 1 .. Len(entries)
        BY <2>3, <2>6, <3>3
      <4>2. QED
        BY <2>3, <2>4, <2>6, <2>7, <3>1, <4>1
    <3>4. QED
      BY <3>2, <3>3
  <2>8. QED
    BY <2>3, <2>5, <2>6, <2>7
<1>2. IInv /\ [Next]_vars => [~overflow /\ overflow' =>
        LET all == Append(entries, op.borrow)
        IN  /\ Len(all) > MAX_TOUCH_RECORDS
            /\ \A i, j \in DOMAIN all : i < j => ~Mergeable(all[i], all[j])]_vars
  BY <1>1
<1>3. QED
  BY <1>2, Invariance, PTL DEF Spec, OverflowJustified
=============================================================================
