------------------------------ MODULE TouchLog ------------------------------
(***************************************************************************)
(* The instruction touch log (segment_borrow.rs, module touch_log): the    *)
(* ranges an instruction has read and written, each once while there is    *)
(* room.  A full log degrades granularity, never coverage: it absorbs the  *)
(* incoming range into a record, or coalesces its own records, and only    *)
(* when neither helps flags itself partial.                                *)
(*                                                                         *)
(* A call that compacts runs its nested loop one comparison a step; every  *)
(* other call is one step.                                                 *)
(***************************************************************************)
EXTENDS Naturals, Sequences

CONSTANTS
  MAX_TOUCH_RECORDS,
  U32_MAX, I32_MAX, U8_MAX,
  Key,         \* account addresses
  Touch,       \* the ranges a program touches: [key, offset, size, kind]
  Accounts     \* the keys of the instruction's account list, in order

Kind == {"Read", "Write"}

ASSUME TouchLogAssumption ==
  /\ MAX_TOUCH_RECORDS \in Nat \ {0} /\ U32_MAX \in Nat /\ I32_MAX \in Nat /\ U8_MAX \in Nat
  /\ Touch \subseteq [key : Key, offset : 0 .. U32_MAX, size : 0 .. U32_MAX, kind : Kind]

VARIABLES
  entries,    \* the records below len
  overflow,   \* the log is partial
  op,         \* the compaction under way
  touched     \* the bytes touched since the last reset (history)

vars == <<entries, overflow, op, touched>>

Record == [key : Key, offset : Nat, size : 0 .. U32_MAX, kind : Kind]

Idle == [step |-> "idle"]
Compact(i, j, merged_any, before, borrow) ==
  [step |-> "compact", i |-> i, j |-> j, merged_any |-> merged_any,
   before |-> before, borrow |-> borrow]

-----------------------------------------------------------------------------
(* merge_exact *)

End(r) == r.offset + r.size

MutantBridgesGaps(a, b) ==
  /\ a.kind = b.kind
  /\ b.offset <= End(a) + 1 /\ a.offset <= End(b) + 1

SameKindMerge(a, b) ==
  /\ a.kind = b.kind
  /\ b.offset <= End(a) /\ a.offset <= End(b)

Union(a, b) ==
  LET offset == IF a.offset < b.offset THEN a.offset ELSE b.offset
      end    == IF End(a) > End(b) THEN End(a) ELSE End(b)
  IN  [a EXCEPT !.offset = offset, !.size = end - offset]

MutantReadAnywhere(read, write) ==
  write.offset <= read.offset /\ read.offset <= End(write)

\* The write claims strictly more than the read it contains.
Within(read, write) ==
  write.offset <= read.offset /\ End(read) <= End(write)

Mergeable(a, b) ==
  /\ a.key = b.key
  /\ \/ SameKindMerge(a, b) /\ Union(a, b).size <= U32_MAX
     \/ a.kind = "Write" /\ b.kind = "Read" /\ Within(b, a)
     \/ a.kind = "Read" /\ b.kind = "Write" /\ Within(a, b)

Merged(a, b) ==
  IF a.kind = b.kind THEN Union(a, b) ELSE IF a.kind = "Write" THEN a ELSE b

-----------------------------------------------------------------------------
(* record *)

Byte(r, b) == [key |-> r.key, byte |-> b, kind |-> r.kind]
Bytes(t) == {Byte(t, b) : b \in t.offset .. End(t) - 1}

Calls(t) == op = Idle /\ touched' = touched \cup Bytes(t)

Recorded(t) == \E i \in DOMAIN entries : entries[i] = t

Full == Len(entries) >= MAX_TOUCH_RECORDS

MutantTriesTheLast(t) == {i \in {Len(entries)} : Mergeable(entries[i], t)}

Absorbers(t) == {i \in DOMAIN entries : Mergeable(entries[i], t)}

Init ==
  /\ entries = <<>> /\ overflow = FALSE
  /\ op = Idle
  /\ touched = {}

RecordAgain(t) ==
  /\ Calls(t) /\ Recorded(t)
  /\ UNCHANGED <<entries, overflow, op>>

RecordNew(t) ==
  /\ Calls(t) /\ ~Recorded(t) /\ ~Full
  /\ entries' = Append(entries, t)
  /\ UNCHANGED <<overflow, op>>

\* The backward scan takes the last record that can absorb the range.
Absorb(t) ==
  /\ Calls(t) /\ ~Recorded(t) /\ Full
  /\ \E i \in Absorbers(t) :
       /\ \A k \in Absorbers(t) : k <= i
       /\ entries' = [entries EXCEPT ![i] = Merged(@, t)]
  /\ UNCHANGED <<overflow, op>>

\* A log that is partial already does not compact again.
Drop(t) ==
  /\ Calls(t) /\ ~Recorded(t) /\ Full /\ Absorbers(t) = {}
  /\ overflow
  /\ UNCHANGED <<entries, overflow, op>>

BeginCompact(t) ==
  /\ Calls(t) /\ ~Recorded(t) /\ Full /\ Absorbers(t) = {}
  /\ ~overflow
  /\ op' = Compact(1, 2, FALSE, Len(entries), t)
  /\ UNCHANGED <<entries, overflow>>

Compacting == op.step = "compact"

MutantKeepsSlot(s, idx) == s

RemoveAt(s, idx) ==
  [k \in 1 .. Len(s) - 1 |-> IF k < idx THEN s[k] ELSE s[k + 1]]

\* The record merged into slot i; slot j is closed up, so j is not advanced.
MergePair ==
  /\ Compacting /\ op.j <= Len(entries)
  /\ Mergeable(entries[op.i], entries[op.j])
  /\ entries' = RemoveAt([entries EXCEPT ![op.i] = Merged(@, entries[op.j])], op.j)
  /\ op' = Compact(op.i, op.j, TRUE, op.before, op.borrow)
  /\ UNCHANGED <<overflow, touched>>

KeepPair ==
  /\ Compacting /\ op.j <= Len(entries)
  /\ ~Mergeable(entries[op.i], entries[op.j])
  /\ op' = Compact(op.i, op.j + 1, op.merged_any, op.before, op.borrow)
  /\ UNCHANGED <<entries, overflow, touched>>

NextRow ==
  /\ Compacting /\ op.j > Len(entries) /\ op.i < Len(entries)
  /\ op' = Compact(op.i + 1, op.i + 2, op.merged_any, op.before, op.borrow)
  /\ UNCHANGED <<entries, overflow, touched>>

PassDone == Compacting /\ op.j > Len(entries) /\ op.i >= Len(entries)

\* A pass that merged something may have made new pairs mergeable.
NextPass ==
  /\ PassDone /\ op.merged_any
  /\ op' = Compact(1, 2, FALSE, op.before, op.borrow)
  /\ UNCHANGED <<entries, overflow, touched>>

StoreAfterCompact ==
  /\ PassDone /\ ~op.merged_any /\ Len(entries) < op.before
  /\ entries' = Append(entries, op.borrow)
  /\ op' = Idle
  /\ UNCHANGED <<overflow, touched>>

Overflow ==
  /\ PassDone /\ ~op.merged_any /\ Len(entries) >= op.before
  /\ overflow' = TRUE
  /\ op' = Idle
  /\ UNCHANGED <<entries, touched>>

\* Context::new.
Reset ==
  /\ op = Idle
  /\ entries' = <<>> /\ overflow' = FALSE /\ touched' = {}
  /\ UNCHANGED op

Call(t) == RecordAgain(t) \/ RecordNew(t) \/ Absorb(t) \/ Drop(t) \/ BeginCompact(t)
Loop == MergePair \/ KeepPair \/ NextRow \/ NextPass \/ StoreAfterCompact \/ Overflow

Next == (\E t \in Touch : Call(t)) \/ Loop \/ Reset

Spec == Init /\ [][Next]_vars

\* A loop that has begun runs on.
FairSpec == Spec /\ WF_vars(Loop)

-----------------------------------------------------------------------------
(* encode_touch_map: the records by account slot, and what was left out *)

Slots(key) == {n \in DOMAIN Accounts : Accounts[n] = key /\ n - 1 <= U8_MAX}

\* position() finds the first slot of the key; a later one names the same key.
Encodable(r) == Slots(r.key) # {} /\ r.offset <= I32_MAX

Encoded == {i \in DOMAIN entries : Encodable(entries[i])}

MutantSilentSkip == FALSE

Skipped == Encoded # DOMAIN entries

MapIsPartial == overflow \/ Skipped

-----------------------------------------------------------------------------
(* Properties *)

\* Every variable has its type and the log never outgrows its array.
TypeOK ==
  /\ entries \in Seq(Record) /\ Len(entries) <= MAX_TOUCH_RECORDS
  /\ overflow \in BOOLEAN
  /\ touched \subseteq [key : Key, byte : Nat, kind : Kind]
  /\ \/ op = Idle
     \/ /\ op \in [step : {"compact"}, i : Nat, j : Nat, merged_any : BOOLEAN,
                   before : Nat, borrow : Touch]
        /\ 1 <= op.i /\ op.i < op.j /\ op.i <= Len(entries) /\ op.before <= MAX_TOUCH_RECORDS

Covers(r, x) == r.key = x.key /\ r.offset <= x.byte /\ x.byte < End(r)

\* A read is accounted for by any record of the byte, a write only by a write.
AccountsFor(r, x) == Covers(r, x) /\ (x.kind = "Write" => r.kind = "Write")

\* Unless the log says it is partial, every byte the instruction touched is in
\* a record, a written byte in a write record, whatever was absorbed and
\* coalesced since (the range being made room for counts as recorded).
NothingLost ==
  ~overflow => \A x \in touched :
    \/ \E i \in DOMAIN entries : AccountsFor(entries[i], x)
    \/ Compacting /\ AccountsFor(op.borrow, x)

\* No record claims a byte the instruction did not touch that way, partial or
\* not: no union bridges a gap and no read widens a write.
NothingInvented ==
  \A i \in DOMAIN entries : \A b \in entries[i].offset .. End(entries[i]) - 1 :
    Byte(entries[i], b) \in touched

\* The log declares itself partial only when its records and the incoming one
\* are more than MAX_TOUCH_RECORDS ranges of which no two can be merged.
OverflowJustified ==
  [][ ~overflow /\ overflow' =>
        LET all == Append(entries, op.borrow)
        IN  /\ Len(all) > MAX_TOUCH_RECORDS
            /\ \A i, j \in DOMAIN all : i < j => ~Mergeable(all[i], all[j]) ]_vars

\* A map with no flag set accounts for every byte touched: what the encoder
\* cannot represent it reports.
MapHonest ==
  op = Idle /\ ~MapIsPartial =>
    \A x \in touched : \E i \in Encoded :
      /\ AccountsFor(entries[i], x)
      /\ \E n \in DOMAIN Accounts : n - 1 <= U8_MAX /\ Accounts[n] = x.key

\* Compaction reaches its fixpoint: every call returns.
CallsReturn == Compacting ~> op = Idle
=============================================================================
