----------------------------- MODULE GrowableSeq -----------------------------
(***************************************************************************)
(* The sequence of fixed-width elements at the end of an account: the tail *)
(* Seq<T> of hopper-runtime (tail.rs) and the FixedVec of hopper-core      *)
(* (collections/fixed_vec.rs), which write the same bytes: a count, then   *)
(* the elements.  How many fit follows from the account's length alone,    *)
(* and the program resizes the account between calls, by any number of     *)
(* bytes.                                                                  *)
(*                                                                         *)
(* The bytes outlive the cursor: each call is made on a cursor just opened *)
(* on what the previous calls left.  The bytes of the count stay mapped:   *)
(* no resize cuts into them.                                               *)
(***************************************************************************)
EXTENDS Naturals

CONSTANTS
  Byte, Zero,
  STRIDE,      \* bytes of an element
  MaxLen,      \* bound: the most bytes the account has for elements
  Lengths      \* bound: the bytes it is given for them

\* What the code and these definitions ask of the constants.
GrowableSeqAssumption ==
  /\ STRIDE \in Nat \ {0} /\ MaxLen \in Nat /\ Lengths \subseteq 0 .. MaxLen
  /\ Zero \in Byte

VARIABLES
  len,      \* bytes behind the count
  count,    \* the prefix
  bytes,    \* the elements' bytes, those the account has not now included
  reset,    \* has the program reset the count over live elements? (history)
  reply     \* what the last call returned

vars == <<len, count, bytes, reset, reply>>

Offset == 0 .. MaxLen - 1
Encoding == [0 .. STRIDE - 1 -> Byte]
Place == 0 .. (MaxLen \div STRIDE) - 1

-----------------------------------------------------------------------------
\* A trailing part of an element does not count.
SeqCapacityFor == len \div STRIDE

\* from_region and from_bytes refuse a count that does not fit.
Opens == count <= SeqCapacityFor

At(o) == IF o < len THEN bytes[o] ELSE Zero

Element(i) == [b \in 0 .. STRIDE - 1 |-> At(i * STRIDE + b)]

Encoded(i, v) ==
  [o \in Offset |-> IF o \div STRIDE = i THEN v[o % STRIDE] ELSE bytes[o]]

Promise == INSTANCE SizedList WITH list <- [i \in 1 .. count |-> Element(i - 1)]

Done(call, x) == Promise!Done(call, x)
Refused(call) == Promise!Refused(call)

Reject(call) == reply' = Refused(call) /\ UNCHANGED <<len, count, bytes, reset>>

-----------------------------------------------------------------------------
Init ==
  /\ len \in Lengths /\ count = 0
  /\ bytes = [o \in Offset |-> Zero]
  /\ reset = FALSE /\ reply = Done("zeroed", 0)

\* The element first, the count last.
Push(v) ==
  IF Opens /\ count < SeqCapacityFor
    THEN /\ bytes' = Encoded(count, v)
         /\ count' = count + 1
         /\ reply' = Done("push", count + 1) /\ UNCHANGED <<len, reset>>
    ELSE Reject("push")

Set(i, v) ==
  IF Opens /\ i < count
    THEN bytes' = Encoded(i, v) /\ reply' = Done("set", i) /\ UNCHANGED <<len, count, reset>>
    ELSE Reject("set")

Get(i) ==
  IF Opens /\ i < count
    THEN reply' = Done("get", Element(i)) /\ UNCHANGED <<len, count, bytes, reset>>
    ELSE Reject("get")

Iterate ==
  IF Opens
    THEN /\ reply' = Done("iter", [i \in 1 .. count |-> Element(i - 1)])
         /\ UNCHANGED <<len, count, bytes, reset>>
    ELSE Reject("iter")

\* The last element moves to the gap, and its own bytes become zero.
Without(i) ==
  [o \in Offset |-> IF o \div STRIDE = count - 1 THEN Zero
                    ELSE IF o \div STRIDE = i THEN bytes[(count - 1) * STRIDE + (o % STRIDE)]
                    ELSE bytes[o]]

SwapRemove(i) ==
  IF Opens /\ i < count
    THEN /\ bytes' = Without(i)
         /\ count' = count - 1
         /\ reply' = Done("swap_remove", Element(i)) /\ UNCHANGED <<len, reset>>
    ELSE Reject("swap_remove")

\* The vec of hopper-core also takes the last element off, and all of them.
Pop ==
  IF Opens /\ count > 0
    THEN /\ bytes' = Without(count - 1)
         /\ count' = count - 1
         /\ reply' = Done("pop", Element(count - 1)) /\ UNCHANGED <<len, reset>>
    ELSE Reject("pop")

Clear ==
  IF Opens
    THEN /\ bytes' = [o \in Offset |-> IF o < count * STRIDE THEN Zero ELSE bytes[o]]
         /\ count' = 0
         /\ reply' = Done("clear", 0) /\ UNCHANGED <<len, reset>>
    ELSE Reject("clear")

\* The generated reset of a tail opens no cursor: it zeroes the count of any
\* sequence, one too long for the account included, and leaves the elements.
SeqInit ==
  /\ count' = 0 /\ reset' = (reset \/ count > 0)
  /\ reply' = Done("init", 0) /\ UNCHANGED <<len, bytes>>

\* AccountView::resize: the bytes a growth exposes are zero.
Resize(n) ==
  /\ len' = n
  /\ bytes' = [o \in Offset |-> IF len <= o /\ o < n THEN Zero ELSE bytes[o]]
  /\ reply' = Done("resize", n) /\ UNCHANGED <<count, reset>>

Next ==
  \/ \E v \in Encoding : Push(v)
  \/ \E i \in Place : Get(i) \/ SwapRemove(i) \/ \E v \in Encoding : Set(i, v)
  \/ Pop \/ Iterate \/ Clear \/ SeqInit
  \/ \E n \in Lengths : Resize(n)

Spec == Init /\ [][Next]_vars

-----------------------------------------------------------------------------
(* Properties *)

\* Every variable has its type.
TypeOK ==
  /\ len \in Lengths /\ count \in 0 .. MaxLen \div STRIDE
  /\ bytes \in [Offset -> Byte] /\ reset \in BOOLEAN

\* No byte of a removed element stays behind the last one, where a larger count
\* or a larger account would bring it back (TailSeqMut::swap_remove, "stale
\* bytes never masquerade as a live element after a later grow"), unless the
\* program has reset the count over live elements.
RestIsBlank ==
  ~reset => \A o \in Offset : (count * STRIDE <= o /\ o < len) => bytes[o] = Zero

\* The sequence implements the list: whatever the program does to the length of
\* the account, no element is lost, moved, duplicated or invented but by the
\* call that says so.
ImplementsList == Promise!ASpec
=============================================================================
