----------------------------- MODULE RankedBag ------------------------------
(***************************************************************************)
(* What a sorted vec promises, without array and search: a bag of at most  *)
(* Capacity elements, in which the n-th place belongs to an element of the *)
(* n-th smallest rank; places of equal rank are not told apart.  SortedVec *)
(* implements this.                                                        *)
(***************************************************************************)
EXTENDS Naturals, FiniteSets

CONSTANTS Capacity, Rank, Tag

Multiset == INSTANCE BagsExt

VARIABLES
  bag,     \* the elements held
  reply    \* what the last call returned

avars == <<bag, reply>>

Element == [rank : Rank, tag : Tag]

Done(call, x) == <<call, "Ok", x>>
Refused(call, why, i) == <<call, why, i>>

\* The copies held, each with a number of its own.
Copies == UNION {{<<e, n>> : n \in 1 .. bag[e]} : e \in DOMAIN bag}
Size == Cardinality(Copies)

\* How many of them have a rank that satisfies the test.
Below(r)  == Cardinality({c \in Copies : c[1].rank < r})
UpTo(r)   == Cardinality({c \in Copies : c[1].rank <= r})
Holds(r)  == \E e \in DOMAIN bag : e.rank = r

\* The places that belong to rank r.
Places(r) == Below(r) .. UpTo(r) - 1

AInit == DOMAIN bag = {} /\ reply = Done("zeroed", 0)

AInsert(e) ==
  \/ /\ Size = Capacity
     /\ reply' = Refused("insert", "full", 0) /\ UNCHANGED bag
  \/ /\ Size < Capacity
     /\ bag' = Multiset!BagAdd(bag, e)
     /\ \E i \in Below(e.rank) .. UpTo(e.rank) : reply' = Done("insert", i)

AInsertUnique(e) ==
  IF Holds(e.rank)
    THEN /\ \E i \in Places(e.rank) : reply' = Refused("insert_unique", "duplicate", i)
         /\ UNCHANGED bag
    ELSE IF Size = Capacity
           THEN reply' = Refused("insert_unique", "full", 0) /\ UNCHANGED bag
           ELSE /\ bag' = Multiset!BagAdd(bag, e)
                /\ reply' = Done("insert_unique", Below(e.rank))

\* Element e leaves and is returned.
Leaves(e) == bag' = Multiset!BagRemove(bag, e) /\ reply' = Done("remove", e)

ARemove(i) ==
  IF i < Size
    THEN \E e \in DOMAIN bag : i \in Places(e.rank) /\ Leaves(e)
    ELSE reply' = Refused("remove", "index", 0) /\ UNCHANGED bag

ARemoveValue(e) ==
  IF Holds(e.rank)
    THEN \E x \in DOMAIN bag : x.rank = e.rank /\ Leaves(x)
    ELSE reply' = Refused("remove", "absent", 0) /\ UNCHANGED bag

AGet(i) ==
  /\ IF i < Size
       THEN \E e \in DOMAIN bag : i \in Places(e.rank) /\ reply' = Done("get", e)
       ELSE reply' = Refused("get", "index", 0)
  /\ UNCHANGED bag

\* Where rank e.rank is, or where it would go.
ASearch(e) ==
  /\ IF Holds(e.rank)
       THEN \E i \in Places(e.rank) : reply' = Done("search", i)
       ELSE reply' = Refused("search", "absent", Below(e.rank))
  /\ UNCHANGED bag

ANext ==
  \/ \E e \in Element :
       AInsert(e) \/ AInsertUnique(e) \/ ARemoveValue(e) \/ ASearch(e)
  \/ \E i \in 0 .. Capacity : ARemove(i) \/ AGet(i)

ASpec == AInit /\ [][ANext]_avars
=============================================================================
