----------------------------- MODULE DynamicTail -----------------------------
(***************************************************************************)
(* The length-prefixed tail of a dynamic account (hopper-runtime tail.rs,  *)
(* and the accessors the macro dynamic_account generates over it): a       *)
(* bounded string, a bounded vector and raw final bytes, one after the     *)
(* other behind a length prefix.  A setter locates its field by walking    *)
(* the fields before it, moves what lies behind the field and rewrites the *)
(* prefix; tail_write encodes the whole record.  The program resizes the   *)
(* account between calls.                                                  *)
(*                                                                         *)
(* A count prefix is one byte here.  An element is an Option: one byte, or *)
(* a tag and a payload, so a vector has to be walked to find its end.  The *)
(* bytes of the length prefix stay mapped: no resize cuts into them.       *)
(***************************************************************************)
EXTENDS Naturals, Sequences, SequencesExt

CONSTANTS
  Payload,            \* what an element may hold
  StringCap, VecCap,  \* capacities of the bounded fields
  NoteLen,            \* bound: the longest raw final bytes the program stores
  MaxRoom,            \* bound: the most bytes the account has behind the prefix
  Lost                \* no record: the account is fresh, or its tail was overwritten or cut

Byte == 0 .. 255

Element == {<<0>>} \cup {<<1, x>> : x \in Payload}   \* None and Some(x), encoded
Strings(n) == UNION {[1 .. k -> Payload] : k \in 0 .. n}
Vecs == UNION {[1 .. k -> Element] : k \in 0 .. VecCap}
Record == [name : Strings(StringCap), members : Vecs, note : Strings(NoteLen)]

\* What the code and these definitions ask of the constants.
DynamicTailAssumption ==
  /\ Payload \subseteq Byte /\ StringCap \in Byte /\ VecCap \in Byte
  /\ MaxRoom \in Nat /\ NoteLen \in Nat
  /\ Lost \notin Record

VARIABLES
  len,      \* the length prefix
  cells,    \* the bytes behind it, to the end of the account
  stored    \* the record the accepted calls have left, or Lost (history)

vars == <<len, cells, stored>>

Room == Len(cells)

-----------------------------------------------------------------------------
(* The codec.  A decoder answers the position behind what it read, FAIL if *)
(* it refuses.                                                             *)

FAIL == 0

Encoded(r) ==
  <<Len(r.name)>> \o r.name \o <<Len(r.members)>> \o FlattenSeq(r.members) \o r.note

\* tail_payload refuses a prefix longer than the account.
Readable == len <= Room
TailPayload == SubSeq(cells, 1, len)

\* borrow_bounded_str, Option::decode and vec_field_extent, from position p on.
StringEnd(s, p) ==
  IF p <= Len(s) /\ s[p] <= StringCap /\ p + s[p] <= Len(s) THEN p + s[p] + 1 ELSE FAIL

ElementEnd(s, p) ==
  CASE p <= Len(s) /\ s[p] = 0 -> p + 1
    [] p < Len(s) /\ s[p] = 1  -> p + 2
    [] OTHER                   -> FAIL

\* Where the element i of the vector at p ends.
ElementEnds(s, p) ==
  LET end[i \in 0 .. s[p]] ==
        IF i = 0 THEN p + 1
        ELSE IF end[i - 1] = FAIL THEN FAIL ELSE ElementEnd(s, end[i - 1])
  IN  end

VecFieldExtent(s, p) ==
  IF p <= Len(s) /\ s[p] <= VecCap THEN ElementEnds(s, p)[s[p]] ELSE FAIL

\* Where the second and the third field begin.
MembersStart == StringEnd(TailPayload, 1)
NoteStart == IF MembersStart = FAIL THEN FAIL ELSE VecFieldExtent(TailPayload, MembersStart)

Members ==
  LET end == ElementEnds(TailPayload, MembersStart)
  IN  [i \in 1 .. TailPayload[MembersStart] |-> SubSeq(TailPayload, end[i - 1], end[i] - 1)]

Decodes == Readable /\ NoteStart # FAIL

\* tail_read, and the borrowed views.
TailRead ==
  IF Decodes
    THEN [name |-> SubSeq(TailPayload, 2, MembersStart - 1), members |-> Members,
          note |-> SubSeq(TailPayload, NoteStart, len)]
    ELSE Lost

-----------------------------------------------------------------------------
\* What an accepted call makes of the record.
Becomes(r) == stored' = IF stored = Lost THEN Lost ELSE r
Reject == UNCHANGED vars

NewTotal(start, end, new) == len - (end - start) + Len(new)
Fits(start, end, new) == NewTotal(start, end, new) <= Room

\* The bytes of the suffix move first, the field is written into the place this
\* leaves; what lies behind the new payload stays.
ReplaceTailField(start, end, new) ==
  /\ cells' = SubSeq(cells, 1, start - 1) \o new \o SubSeq(cells, end, len)
                \o SubSeq(cells, NewTotal(start, end, new) + 1, Room)
  /\ len' = NewTotal(start, end, new)

\* Initialised by nobody: a zeroed account has a prefix and no field.
Init ==
  /\ len = 0 /\ stored = Lost
  /\ \E n \in 0 .. MaxRoom : cells = [i \in 1 .. n |-> 0]

SetName(s) ==
  LET new == <<Len(s)>> \o s
  IN  IF Len(s) <= StringCap /\ Readable /\ MembersStart # FAIL /\ Fits(1, MembersStart, new)
        THEN ReplaceTailField(1, MembersStart, new) /\ Becomes([stored EXCEPT !.name = s])
        ELSE Reject

Pushable(x) == Decodes /\ Len(Members) < VecCap /\ Fits(NoteStart, NoteStart, x)

\* The slot of the whole vector, one element longer: the new count and the new
\* element are written.
Pushed(x) ==
  <<Len(Members) + 1>> \o SubSeq(cells, MembersStart + 1, NoteStart - 1) \o x

PushMember(x) ==
  IF Pushable(x)
    THEN /\ ReplaceTailField(MembersStart, NoteStart, Pushed(x))
         /\ Becomes([stored EXCEPT !.members = Append(@, x)])
    ELSE Reject

PushUniqueMember(x) == IF Decodes /\ Contains(Members, x) THEN Reject ELSE PushMember(x)

First(list, x) == CHOOSE i \in DOMAIN list : list[i] = x /\ \A j \in 1 .. i - 1 : list[j] # x

\* The later elements move down inside the vector, then what lies behind it.
Shortened(i) ==
  LET end == ElementEnds(TailPayload, MembersStart)
  IN  <<Len(Members) - 1>> \o SubSeq(cells, MembersStart + 1, end[i - 1] - 1)
        \o SubSeq(cells, end[i], NoteStart - 1)

RemoveMember(x) ==
  IF Decodes /\ Contains(Members, x)
    THEN /\ ReplaceTailField(MembersStart, NoteStart, Shortened(First(Members, x)))
         /\ Becomes([stored EXCEPT !.members = RemoveFirst(@, x)])
    ELSE Reject

\* The raw final bytes have no prefix of their own.
SetNote(s) ==
  IF Decodes /\ Fits(NoteStart, len + 1, s)
    THEN ReplaceTailField(NoteStart, len + 1, s) /\ Becomes([stored EXCEPT !.note = s])
    ELSE Reject

\* The bounded fields are encoded into the account before the raw bytes are
\* known to fit, each as far as there is room, and the length goes last.
WrittenBefore(r) ==
  LET name == <<Len(r.name)>> \o r.name
      head == name \o <<Len(r.members)>> \o FlattenSeq(r.members)
  IN  IF Len(name) > Room THEN <<>> ELSE SubSeq(head, 1, Min({Room, Len(head)}))

\* tail_write, tail_write_parts and the commit of an editor, whatever the
\* program made of the record before.  A refusal leaves what was encoded.
TailWrite(r) ==
  LET e == Encoded(r)
      over(new) == new \o SubSeq(cells, Len(new) + 1, Room)
  IN  IF Len(e) <= Room
        THEN cells' = over(e) /\ len' = Len(e) /\ stored' = r
        ELSE /\ cells' = over(WrittenBefore(r)) /\ UNCHANGED len
             /\ stored' = IF Readable /\ SubSeq(cells', 1, len) = TailPayload THEN stored ELSE Lost

\* AccountView::resize.  A payload that is cut does not come back.
Resize(n) ==
  /\ cells' = [i \in 1 .. n |-> IF i <= Room THEN cells[i] ELSE 0]
  /\ stored' = IF n < len THEN Lost ELSE stored
  /\ UNCHANGED len

Next ==
  \/ \E s \in Strings(StringCap + 1) : SetName(s)
  \/ \E x \in Element : PushMember(x) \/ PushUniqueMember(x) \/ RemoveMember(x)
  \/ \E s \in Strings(NoteLen) : SetNote(s)
  \/ \E r \in Record : TailWrite(r)
  \/ \E n \in 0 .. MaxRoom : Resize(n)

Spec == Init /\ [][Next]_vars

-----------------------------------------------------------------------------
(* Properties *)

\* Every variable has its type.
TypeOK ==
  /\ len \in 0 .. MaxRoom /\ cells \in Seq(Byte) /\ Room <= MaxRoom
  /\ stored \in Record \cup {Lost}

\* What the account reads is what the accepted calls made of it, field by
\* field: a setter that moves the later fields leaves them as they were, a
\* setter that is refused leaves everything ("a checked call never leaves the
\* tail half-edited"), and a write that was refused for want of room is healed
\* by the next one that is not.
ReadsBack == stored # Lost => TailRead = stored
=============================================================================
