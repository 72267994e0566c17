----------------------------- MODULE SortedVec ------------------------------
(***************************************************************************)
(* The sorted vec of hopper-core (collections/sorted_vec.rs): a count and  *)
(* that many elements in ascending order, found by binary search and moved *)
(* up or down by one to make or close a gap.  Elements compare by rank     *)
(* alone: two of one rank can differ in the bytes that Ord ignores (tag).  *)
(*                                                                         *)
(* The buffer is born zeroed and outlives the SortedVec value: each call   *)
(* is made on a vec just parsed from the bytes the previous calls left.    *)
(***************************************************************************)
EXTENDS Naturals, FiniteSets

CONSTANTS
  Rank,       \* ranks of elements
  Tag, Zero,  \* what Ord does not look at, and its zero bytes
  Capacity    \* elements the buffer has room for

\* What the code and these definitions ask of the constants.
SortedVecAssumption ==
  /\ Capacity \in Nat /\ Rank \subseteq Nat
  /\ 0 \in Rank /\ Zero \in Tag

VARIABLES
  len,        \* the header
  elements,   \* index -> element bytes
  reply       \* what the last call returned

vars == <<len, elements, reply>>

Index == 0 .. Capacity - 1
Element == [rank : Rank, tag : Tag]
Blank == [rank |-> 0, tag |-> Zero]

\* The elements held, as a bag.
HeldBag ==
  [e \in {elements[i] : i \in 0 .. len - 1} |->
     Cardinality({i \in 0 .. len - 1 : elements[i] = e})]

Promise == INSTANCE RankedBag WITH bag <- HeldBag

Done(call, x) == Promise!Done(call, x)
Refused(call, why, i) == Promise!Refused(call, why, i)

-----------------------------------------------------------------------------
\* from_bytes accepts the header.
Parses == len <= Capacity

TooSmall(e, r) == e.rank < r

\* The search in a range [lo, hi): where the rank was found, or would go.
Search(r) ==
  LET probe[range \in (0 .. len) \X (0 .. len)] ==
        LET lo == range[1]
            hi == range[2]
            mid == lo + (hi - lo) \div 2
        IN  IF lo >= hi                     THEN [found |-> FALSE, at |-> lo]
            ELSE IF TooSmall(elements[mid], r) THEN probe[<<mid + 1, hi>>]
            ELSE IF elements[mid].rank = r  THEN [found |-> TRUE, at |-> mid]
            ELSE probe[<<lo, mid>>]
  IN  probe[<<0, len>>]

Init == len = 0 /\ elements = [i \in Index |-> Blank] /\ reply = Done("zeroed", 0)

\* The elements with e put in at a place, those from there on one higher.
ShiftedRight(at, e) ==
  [i \in Index |-> IF i < at \/ i > len THEN elements[i]
                   ELSE IF i = at THEN e ELSE elements[i - 1]]

\* The elements without the one at a place, those behind it one lower, the
\* place vacated at the end zeroed.
ShiftedLeft(at) ==
  [i \in Index |-> IF i < at \/ i >= len THEN elements[i]
                   ELSE IF i = len - 1 THEN Blank ELSE elements[i + 1]]

Full == len >= Capacity

Put(at, e, call) ==
  /\ elements' = ShiftedRight(at, e)
  /\ len' = len + 1
  /\ reply' = Done(call, at)

\* A duplicate goes to the place where its equal was found.
Insert(e) ==
  /\ Parses
  /\ IF Full
       THEN reply' = Refused("insert", "full", 0) /\ UNCHANGED <<len, elements>>
       ELSE Put(Search(e.rank).at, e, "insert")

InsertUnique(e) ==
  LET s == Search(e.rank)
  IN  /\ Parses
      /\ IF s.found \/ Full
           THEN /\ reply' = IF s.found THEN Refused("insert_unique", "duplicate", s.at)
                                     ELSE Refused("insert_unique", "full", 0)
                /\ UNCHANGED <<len, elements>>
           ELSE Put(s.at, e, "insert_unique")

Take(at) ==
  /\ elements' = ShiftedLeft(at)
  /\ len' = len - 1
  /\ reply' = Done("remove", elements[at])

Remove(i) ==
  /\ Parses
  /\ IF i < len
       THEN Take(i)
       ELSE reply' = Refused("remove", "index", 0) /\ UNCHANGED <<len, elements>>

RemoveValue(e) ==
  LET s == Search(e.rank)
  IN  /\ Parses
      /\ IF s.found
           THEN Take(s.at)
           ELSE reply' = Refused("remove", "absent", 0) /\ UNCHANGED <<len, elements>>

\* get; min and max are gets of index 0 and of index len - 1.
Get(i) ==
  /\ Parses
  /\ reply' = IF i < len THEN Done("get", elements[i]) ELSE Refused("get", "index", 0)
  /\ UNCHANGED <<len, elements>>

\* binary_search; contains keeps only whether it found one.
BinarySearch(e) ==
  LET s == Search(e.rank)
  IN  /\ Parses
      /\ reply' = IF s.found THEN Done("search", s.at) ELSE Refused("search", "absent", s.at)
      /\ UNCHANGED <<len, elements>>

Next ==
  \/ \E e \in Element : Insert(e) \/ InsertUnique(e) \/ RemoveValue(e) \/ BinarySearch(e)
  \/ \E i \in 0 .. Capacity : Remove(i) \/ Get(i)

Spec == Init /\ [][Next]_vars

-----------------------------------------------------------------------------
(* Properties *)

\* Every variable has its type.
TypeOK == len \in 0 .. Capacity /\ elements \in [Index -> Element]

\* The ranks ascend, whatever duplicates came and went: without it every later
\* binary search may miss an element that is there.
Ascending == \A i \in 1 .. len - 1 : elements[i - 1].rank <= elements[i].rank

\* The sorted vec implements the ranked bag: search finds a rank exactly when an
\* element has it and otherwise says where it goes; no insert or remove loses,
\* duplicates or invents an element.
ImplementsBag == Promise!ASpec
=============================================================================
