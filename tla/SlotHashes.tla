----------------------------- MODULE SlotHashes -----------------------------
(***************************************************************************)
(* slot_hash_lookup_with: the search for a slot in the SlotHashes sysvar,  *)
(* window by window, each read a step.  The sysvar does not change while   *)
(* an instruction runs.  It holds `count` entries, newest first, or says   *)
(* so: a read past the entries it has room for fails, and one that ends in *)
(* the room behind the last entry returns zeroes.  A sysvar may be too     *)
(* short for the count itself.  An entry is the slot; the hash returned is *)
(* that of the entry at the place returned.                                *)
(***************************************************************************)
EXTENDS Integers

CONSTANTS
  WINDOW, MAX_ENTRIES,
  Sysvars,     \* records [header, count, room, slots]: whether there is room for a
               \* count, the count, the entries there is room for, and their slots
  Targets      \* slots asked for

Lesser(a, b) == IF a < b THEN a ELSE b

\* The entries the header claims and the sysvar has room for.
Present(s) == Lesser(s.count, s.room)

\* Strictly descending slots: one entry further is at least one slot older.
Descending(s) ==
  \A i, j \in 0 .. Present(s) - 1 : i < j => s.slots[i] - s.slots[j] >= j - i

\* The runtime writes the sysvar; a header may still claim more than there is.
SlotHashesAssumption ==
  /\ WINDOW \in Nat \ {0} /\ MAX_ENTRIES \in Nat /\ Targets \subseteq Nat
  /\ \A s \in Sysvars :
       /\ s.header \in BOOLEAN /\ s.room \in Nat /\ (s.room > 0 => s.header)
       /\ s.count \in Nat /\ s.slots \in [0 .. s.room - 1 -> Nat]
       /\ Descending(s)

VARIABLES
  sysvar, target,
  pc,          \* the read that comes next, or "done"
  lo, hi,      \* the target's entry is between them, if there is one
  newer,       \* the nearest entry read on the newer side
  older,       \* and on the older side, or None
  bisect,      \* whether the next probe halves the range
  reads, verdict

input == <<sysvar, target>>
range == <<lo, hi, newer, older, bisect>>
searchvars == <<input, pc, range, reads, verdict>>

None == [none |-> TRUE]
NoReply == [status |-> "none"]
Status(s) == [status |-> s]
Found(i) == [status |-> "Found", at |-> i]

Unsupported == Status("UnsupportedSysvar")
Failed == Status("Failed")          \* whatever error the reader returned

Slot(i) == sysvar.slots[i]
Readable(n) == n <= sysvar.room

-----------------------------------------------------------------------------
(* One window *)

\* Where a window stops being newer than the target.
Stops(start, width) == {i \in start .. start + width - 1 : Slot(i) <= target}
Stop(start, width) == CHOOSE i \in Stops(start, width) : \A j \in Stops(start, width) : i <= j

MutantTrustsEdge(start, width, newer_before) ==
  IF Stops(start, width) = {} THEN None
  ELSE LET i == Stop(start, width)
       IN  IF Slot(i) = target THEN Found(i) ELSE Status("Skipped")

\* scan: what the window decides, if it does.
Scan(start, width, newer_before) ==
  IF Stops(start, width) = {} THEN None
  ELSE LET i == Stop(start, width)
       IN  IF Slot(i) = target                THEN Found(i)
           ELSE IF i > start \/ newer_before  THEN Status("Skipped")
           ELSE None

-----------------------------------------------------------------------------
Finish(answer) == pc' = "done" /\ verdict' = answer /\ UNCHANGED range

Start(have) ==
  /\ lo' = have /\ hi' = Lesser(Slot(0) - target, sysvar.count - 1)
  /\ newer' = [at |-> have - 1, slot |-> Slot(have - 1)]
  /\ older' = None /\ bisect' = FALSE
  /\ pc' = "probe" /\ UNCHANGED verdict

\* With the count and the newest window read.
Newest ==
  LET have == Lesser(sysvar.count, WINDOW)
      seen == Scan(0, have, TRUE)
  IN  IF sysvar.count = 0 \/ target > Slot(0) THEN Finish(Status("Ahead"))
      ELSE IF seen # None            THEN Finish(seen)
      ELSE IF have = sysvar.count    THEN Finish(Status("TooOld"))
      ELSE Start(have)

ReadHead ==
  /\ pc = "head" /\ reads' = reads + 1
  /\ IF ~Readable(WINDOW) THEN pc' = "count" /\ UNCHANGED <<range, verdict>>
     ELSE IF sysvar.count > MAX_ENTRIES THEN Finish(Unsupported)
     ELSE Newest
  /\ UNCHANGED input

\* A sysvar shorter than a window is read again, the header first, which may not
\* be there either.
ReadCount ==
  /\ pc = "count" /\ reads' = reads + 1
  /\ IF ~sysvar.header \/ sysvar.count > MAX_ENTRIES \/ sysvar.count >= WINDOW
       THEN Finish(Unsupported)
     ELSE IF sysvar.count = 0 THEN Finish(Status("Ahead"))
     ELSE pc' = "short" /\ UNCHANGED <<range, verdict>>
  /\ UNCHANGED input

ReadShort ==
  /\ pc = "short" /\ reads' = reads + 1
  /\ IF Readable(sysvar.count) THEN Newest ELSE Finish(Unsupported)
  /\ UNCHANGED input

Span == hi - lo + 1
Width == Lesser(Span, WINDOW)
HighestStart == hi + 1 - Width

\* Where the target falls if the slots between the two entries are spread evenly.
Guess ==
  newer.at + ((newer.slot - target) * (older.at - newer.at)) \div (newer.slot - older.slot)

\* usize's saturating_sub, clamped into the range.
Centred ==
  LET c == Guess - Width \div 2
  IN  IF c < lo THEN lo ELSE Lesser(c, HighestStart)

ProbeStart ==
  IF older = None THEN HighestStart
  ELSE IF bisect  THEN lo + (Span - Width) \div 2
  ELSE Centred

MutantNeverHalves == FALSE

\* Whether the probe after this one halves the range.
HalvesNext == older # None /\ ~bisect

Narrow(start) ==
  /\ IF Slot(start) < target
       THEN /\ older' = [at |-> start, slot |-> Slot(start)] /\ hi' = start - 1
            /\ UNCHANGED <<lo, newer>>
       ELSE LET end == start + Width - 1
            IN  /\ newer' = [at |-> end, slot |-> Slot(end)] /\ lo' = end + 1
                /\ UNCHANGED <<hi, older>>
  /\ bisect' = HalvesNext
  /\ UNCHANGED <<pc, verdict>>

Probe ==
  /\ pc = "probe" /\ lo <= hi /\ reads' = reads + 1
  /\ LET start == ProbeStart
         seen == Scan(start, Width, start = lo)
     IN  IF ~Readable(start + Width) THEN Finish(Unsupported)
         ELSE IF seen # None         THEN Finish(seen)
         ELSE Narrow(start)
  /\ UNCHANGED input

Exhausted ==
  /\ pc = "probe" /\ lo > hi
  /\ Finish(Status(IF older # None THEN "Skipped" ELSE "TooOld"))
  /\ UNCHANGED <<input, reads>>

\* The reader returns an error instead.
ReaderFails ==
  /\ pc # "done" /\ (pc = "probe" => lo <= hi)
  /\ reads' = reads + 1 /\ Finish(Failed) /\ UNCHANGED input

SearchInit ==
  /\ sysvar \in Sysvars /\ target \in Targets
  /\ pc = "head" /\ reads = 0 /\ verdict = NoReply
  /\ lo = 0 /\ hi = 0 /\ newer = None /\ older = None /\ bisect = FALSE

\* The program asks for another slot; nothing is kept from the last search.
Ask ==
  /\ pc = "done" /\ target' \in Targets /\ UNCHANGED sysvar
  /\ pc' = "head" /\ reads' = 0 /\ verdict' = NoReply
  /\ lo' = 0 /\ hi' = 0 /\ newer' = None /\ older' = None /\ bisect' = FALSE

SearchNext ==
  \/ ReadHead \/ ReadCount \/ ReadShort \/ Probe \/ Exhausted \/ ReaderFails
  \/ Ask

SearchSpec == SearchInit /\ [][SearchNext]_searchvars

-----------------------------------------------------------------------------
Holds(slot) == \E i \in 0 .. Present(sysvar) - 1 : Slot(i) = slot
HoldsNewer == \E i \in 0 .. Present(sysvar) - 1 : Slot(i) > target
HoldsOlder == \E i \in 0 .. Present(sysvar) - 1 : Slot(i) < target

\* What an answer says of the sysvar (SlotHashStatus, ProgramError).
Right(answer) ==
  LET is(status) == answer.status = status
  IN  /\ is("Found")   => answer.at \in 0 .. Present(sysvar) - 1 /\ Slot(answer.at) = target
      /\ is("Skipped") => ~Holds(target) /\ HoldsNewer /\ HoldsOlder
      /\ is("TooOld")  => ~Holds(target) /\ HoldsNewer /\ ~HoldsOlder
      /\ is("Ahead")   => sysvar.header /\ ~Holds(target) /\ ~HoldsNewer
      /\ is("UnsupportedSysvar") =>
           ~sysvar.header \/ sysvar.count > Lesser(MAX_ENTRIES, sysvar.room)
      /\ ~is("none")

\* Whichever windows the search happens to read, its answer is the one the whole
\* list gives, and it refuses only a sysvar without a header or one that its header
\* does not describe (slot_hash_lookup_with).
AnswersExactly == pc = "done" => Right(verdict)

\* The powers of two.
Doubled[n \in Nat] == IF n = 0 THEN 1 ELSE 2 * Doubled[n - 1]

\* Every other probe halves the range, however unevenly the slots are spread: the
\* first read takes the newest window, the second one the window at the bound
\* (slot_hash_lookup_with).
ProbesHalve ==
  pc = "probe" /\ reads > 1 => Span * Doubled[(reads - 2) \div 2] <= sysvar.count
=============================================================================
