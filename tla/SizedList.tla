------------------------------ MODULE SizedList ------------------------------
(***************************************************************************)
(* What a growable sequence in an account promises, without its bytes: a   *)
(* list, and the room the account has for it.  A larger account never      *)
(* changes an element.  A list that no longer fits is closed to every call *)
(* and never lost as a whole: when the account grows again it has the same *)
(* length, and what was cut off reads as zeros.  GrowableSeq implements    *)
(* this.                                                                   *)
(***************************************************************************)
EXTENDS Naturals, Sequences

CONSTANTS
  Byte, Zero,
  STRIDE,      \* bytes of an element
  MaxLen       \* bound: the most bytes the account has for elements

VARIABLES
  list,    \* a sequence of elements, each [0 .. STRIDE - 1 -> Byte]
  len,     \* bytes the account has for elements
  reply    \* what the last call returned

avars == <<list, len, reply>>

Encoding == [0 .. STRIDE - 1 -> Byte]
Place == 0 .. (MaxLen \div STRIDE) - 1

Done(call, x) == <<call, "Ok", x>>
Refused(call) == <<call, "Err">>

Room == len \div STRIDE
Open == Len(list) <= Room
Within(i) == Open /\ i < Len(list)

AInit == list = <<>> /\ len \in 0 .. MaxLen /\ reply = Done("zeroed", 0)

Answer(call, enabled, x) == reply' = IF enabled THEN Done(call, x) ELSE Refused(call)

APush(v) ==
  LET fits == Open /\ Len(list) < Room
  IN  /\ list' = IF fits THEN Append(list, v) ELSE list
      /\ Answer("push", fits, Len(list) + 1) /\ UNCHANGED len

ASet(i, v) ==
  /\ list' = IF Within(i) THEN [list EXCEPT ![i + 1] = v] ELSE list
  /\ Answer("set", Within(i), i) /\ UNCHANGED len

AGet(i) ==
  /\ Answer("get", Within(i), IF Within(i) THEN list[i + 1] ELSE 0)
  /\ UNCHANGED <<list, len>>

AIterate == Answer("iter", Open, list) /\ UNCHANGED <<list, len>>

\* The last element takes the place of the one that goes.
ASwapRemove(i) ==
  LET n == Len(list)
  IN  /\ list' = IF Within(i) THEN SubSeq([list EXCEPT ![i + 1] = list[n]], 1, n - 1) ELSE list
      /\ Answer("swap_remove", Within(i), IF Within(i) THEN list[i + 1] ELSE 0)
      /\ UNCHANGED len

APop ==
  LET n == Len(list)
  IN  /\ list' = IF Within(n - 1) /\ n > 0 THEN SubSeq(list, 1, n - 1) ELSE list
      /\ Answer("pop", Open /\ n > 0, IF Open /\ n > 0 THEN list[n] ELSE 0)
      /\ UNCHANGED len

AClear ==
  /\ list' = IF Open THEN <<>> ELSE list
  /\ Answer("clear", Open, 0) /\ UNCHANGED len

\* Empty again, whatever the room.
AReset == list' = <<>> /\ reply' = Done("init", 0) /\ UNCHANGED len

\* Every byte from n on is gone.
CutAt(n) ==
  [i \in DOMAIN list |->
     [b \in 0 .. STRIDE - 1 |-> IF (i - 1) * STRIDE + b < n THEN list[i][b] ELSE Zero]]

AResize(n) ==
  /\ len' = n /\ list' = CutAt(n)
  /\ reply' = Done("resize", n)

ANext ==
  \/ \E v \in Encoding : APush(v)
  \/ \E i \in Place : AGet(i) \/ ASwapRemove(i) \/ \E v \in Encoding : ASet(i, v)
  \/ APop \/ AIterate \/ AClear \/ AReset
  \/ \E n \in 0 .. MaxLen : AResize(n)

ASpec == AInit /\ [][ANext]_avars
=============================================================================
