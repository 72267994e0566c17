--------------------------- MODULE JournalWindow ---------------------------
(***************************************************************************)
(* What a journal promises: the sequence of the entries still visible,     *)
(* oldest first.  An append to a full journal drops the oldest entry of a  *)
(* circular one and is refused by a strict one.  Journal implements this   *)
(* while its u32 total lasts.                                              *)
(***************************************************************************)
EXTENDS Naturals, Sequences

CONSTANTS Entry, Capacity

VARIABLES
  circular,   \* the mode flag
  window,     \* the visible entries
  reply       \* what the last call returned

avars == <<circular, window, reply>>

Done(call, x) == <<call, "Ok", x>>
Refused(call) == <<call, "Err">>

AInit == circular \in BOOLEAN /\ window = <<>> /\ reply = Done("zeroed", 0)

AReset(mode) == circular' = mode /\ window' = <<>> /\ reply' = Done("init", 0)

AAppend(e) ==
  /\ \/ /\ Len(window) < Capacity
        /\ window' = Append(window, e) /\ reply' = Done("append", 0)
     \/ /\ Len(window) = Capacity /\ circular /\ Capacity > 0
        /\ window' = Append(Tail(window), e) /\ reply' = Done("append", 0)
     \/ /\ Len(window) = Capacity /\ ~(circular /\ Capacity > 0)
        /\ reply' = Refused("append") /\ UNCHANGED window
  /\ UNCHANGED circular

ARead(i) ==
  /\ reply' = IF i < Len(window) THEN Done("read", window[i + 1]) ELSE Refused("read")
  /\ UNCHANGED <<circular, window>>

ANext ==
  \/ \E mode \in BOOLEAN : AReset(mode)
  \/ \E e \in Entry : AAppend(e)
  \/ \E i \in 0 .. Capacity : ARead(i)

ASpec == AInit /\ [][ANext]_avars
=============================================================================
