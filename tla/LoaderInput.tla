---------------------------- MODULE LoaderInput ----------------------------
(***************************************************************************)
(* The account section of the input the loader hands a program, and every  *)
(* way the framework reads it: the eager walks of the entrypoints, the     *)
(* pointer table, the lazy context, whose cursor advances while handlers   *)
(* borrow and resize what it gave them, and the checked parsers of off-    *)
(* chain tools, which may get less than the whole input or a wrong table.  *)
(*                                                                         *)
(* A record is canonical, with its data in place, or a duplicate naming an *)
(* earlier slot (from 0).  The first byte of a canonical record is its     *)
(* borrow state, FREE at entry and no legal duplicate's number; later it   *)
(* is whatever borrows are live.  A view is the address of a record.  Of   *)
(* an account only that byte, the length and the baseline are kept.        *)
(***************************************************************************)
EXTENDS Integers, Sequences

CONSTANTS
  ALIGN,             \* a word: what records start at, a length prefix, a duplicate
  HEADER, RESERVE,   \* parts of a canonical record beside its data and one word
  DATA, ID,          \* the instruction data and the program id behind the records
  CLAMP,             \* 254, views materialized at most
  MAX_SLOTS,         \* MAX_SAFE_ACCOUNT_SLOTS
  FREE,              \* NON_DUP_MARKER
  Inputs,            \* what a loader may serialize: sequences of records
  Bounds,            \* MAX of a program's entrypoint
  Lengths            \* what a handler resizes an account to

Canonical(len) == [dup |-> FALSE, len |-> len]
Duplicate(of) == [dup |-> TRUE, of |-> of]

ASSUME LoaderAssumption ==
  /\ ALIGN \in Nat \ {0} /\ FREE \in Nat
  /\ HEADER \in Nat /\ HEADER % ALIGN = 0
  /\ RESERVE \in Nat /\ RESERVE % ALIGN = 0
  /\ DATA \in Nat /\ ID \in Nat
  /\ CLAMP \in Nat /\ MAX_SLOTS \in Nat
  /\ Bounds \subseteq Nat /\ Lengths \subseteq Nat
  /\ Inputs \subseteq Seq({Canonical(n) : n \in Lengths} \cup {Duplicate(m) : m \in 0 .. FREE - 1})

VARIABLES
  input,      \* the records as serialized
  header,     \* [borrow, len, baseline] of each, as it is now
  arm,        \* how the program reads it
  cursor,     \* the next record of a lazy context
  tail,       \* where the instruction data's length is, once found
  views,      \* the accounts handed out, or the slots found
  outcome

parsed == <<cursor, tail, views>>
loader == <<input, header, arm, parsed, outcome>>

NULL == 0
Unread == [way |-> "none"]
Slots == DOMAIN input

Lesser(a, b) == IF a < b THEN a ELSE b
RoundUp(x) == ((x + ALIGN - 1) \div ALIGN) * ALIGN

-----------------------------------------------------------------------------
(* What the loader serialized *)

Width(r) == IF r.dup THEN ALIGN ELSE RoundUp(HEADER + r.len + RESERVE) + ALIGN

\* Where each record starts, and behind the last one the instruction tail.
Starts ==
  LET s[i \in 1 .. Len(input) + 1] ==
        IF i = 1 THEN ALIGN ELSE s[i - 1] + Width(input[i - 1])
  IN  s

TailStart == Starts[Len(input) + 1]
FrameEnd == TailStart + ALIGN + DATA + ID

\* The first k records name earlier slots only.
Sound(k) == \A i \in 1 .. k : input[i].dup => input[i].of < i - 1

\* The record that holds the account of each of the first k slots.
Accounts(k) ==
  LET a[i \in 1 .. k] == IF input[i].dup THEN a[input[i].of + 1] ELSE Starts[i]
  IN  [i \in 1 .. k |-> a[i]]

-----------------------------------------------------------------------------
(* Walks *)

NextRecord(at, len)   == ((at + HEADER + RESERVE + ALIGN + (ALIGN - 1) + len) \div ALIGN) * ALIGN
NonDupStride(at, len) == at + HEADER + RESERVE + ALIGN + RoundUp(len)
AlignedStep(at, len)  ==
  LET end == at + HEADER + len + RESERVE IN end + ((ALIGN - (end % ALIGN)) % ALIGN) + ALIGN

Stride(walk, at, len) ==
  CASE walk = "pointer" -> NextRecord(at, len)
    [] walk = "lazy"    -> NonDupStride(at, len)
    [] walk = "frame"   -> AlignedStep(at, len)

RecordAt(a) == {i \in Slots : Starts[i] = a}
Marker(i) == IF input[i].dup THEN input[i].of ELSE header[i].borrow

Walk(at, seen) ==
  [at |-> at, slot |-> Len(seen), views |-> seen, fresh |-> {}, state |-> "walking"]

\* One record is crossed, at the address the walk is at.
Cross(w, walk, trusting) ==
  IF w.state # "walking" THEN w
  ELSE IF RecordAt(w.at) = {} THEN [w EXCEPT !.state = "lost"]
  ELSE LET i == CHOOSE i \in RecordAt(w.at) : TRUE
       IN  IF Marker(i) = FREE
             THEN [w EXCEPT !.at = Stride(walk, @, header[i].len), !.slot = @ + 1]
           ELSE IF Marker(i) < w.slot \/ trusting
             THEN [w EXCEPT !.at = @ + ALIGN, !.slot = @ + 1]
           ELSE [w EXCEPT !.state = "trapped"]

MutantRecapture(w, i) == {IF Marker(i) = FREE THEN w.at ELSE w.views[Marker(i) + 1]}

\* The records a view is first made of, whose length now is their baseline.
Captured(w, i) == IF Marker(i) = FREE THEN {w.at} ELSE {}

\* A record is crossed and a view of its account made.
Take(w, walk) ==
  LET c == Cross(w, walk, FALSE)
  IN  IF c.state # "walking" THEN c
      ELSE LET i == CHOOSE i \in RecordAt(w.at) : TRUE
           IN  [c EXCEPT
                  !.views = Append(@, IF Marker(i) = FREE THEN w.at ELSE w.views[Marker(i) + 1]),
                  !.fresh = @ \cup Captured(w, i)]

Repeat(Step(_), w, n) ==
  LET turn[k \in 0 .. n] == IF k = 0 THEN w ELSE Step(turn[k - 1]) IN turn[n]

Materialize(stop, max) ==
  Repeat(LAMBDA w : Take(w, "pointer"), Walk(ALIGN, <<>>), Lesser(stop, Lesser(max, CLAMP)))

WithBaselines(addresses) ==
  [i \in Slots |->
     IF Starts[i] \in addresses THEN [header[i] EXCEPT !.baseline = header[i].len] ELSE header[i]]

Trapped(w) ==
  /\ outcome' = w.state
  /\ UNCHANGED <<header, parsed>>

-----------------------------------------------------------------------------
(* The entrypoints *)

Fresh == [i \in Slots |-> [borrow |-> FREE, len |-> IF input[i].dup THEN 0 ELSE input[i].len, baseline |-> 0]]

Enter(how) ==
  /\ outcome = "none"
  /\ arm' = how
  /\ UNCHANGED input

\* The handler gets the first n views of a walk.
HandOut(w, n) ==
  IF w.state # "walking" THEN Trapped(w)
  ELSE /\ views' = SubSeq(w.views, 1, n)
       /\ header' = WithBaselines(w.fresh)
       /\ outcome' = "running"

\* deserialize_accounts: the walk, then on to the tail over what is left, whose
\* markers nobody looks at.  The runtime's entrypoint materializes all it can and
\* shows the handler `max` of them.
ScanArm(max, shown) ==
  LET w == Materialize(Len(input), max)
      t == Repeat(LAMBDA x : Cross(x, "pointer", TRUE), w, Len(input) - w.slot)
  IN  /\ Enter([way |-> "scan", max |-> shown])
      /\ HandOut([w EXCEPT !.state = t.state], Lesser(Len(w.views), shown))
      /\ IF t.state = "walking" THEN tail' = t.at ELSE UNCHANGED tail
      /\ UNCHANGED cursor

\* deserialize_accounts_fast: the tail came in a register.
FastArm(max) ==
  LET w == Materialize(Len(input), max)
  IN  /\ Enter([way |-> "fast", max |-> max])
      /\ HandOut(w, Len(w.views))
      /\ UNCHANGED <<cursor, tail>>

\* hopper_exact_entrypoint: the matched instruction's bound, at most the widest.
ExactArm(bound, widest) ==
  /\ Enter([way |-> "exact", max |-> bound])
  /\ IF Len(input) > bound
       THEN outcome' = "refused" /\ UNCHANGED <<header, views>>
       ELSE LET w == Materialize(Lesser(Len(input), bound), widest) IN HandOut(w, Len(w.views))
  /\ UNCHANGED <<cursor, tail>>

\* deserialize_accounts_0449_into: the runtime's table names the accounts; every
\* one of them gets its baseline, also those past the bound.
TableArm(max) ==
  LET table == Accounts(Len(input))
  IN  /\ Sound(Len(input))
      /\ Enter([way |-> "table", max |-> max])
      /\ views' = SubSeq(table, 1, Lesser(max, Lesser(CLAMP, Len(input))))
      /\ header' = WithBaselines({table[i] : i \in Slots})
      /\ outcome' = "running"
      /\ UNCHANGED <<cursor, tail>>

\* scan_instruction_frame: only the tail is looked for.
FrameArm ==
  LET t == Repeat(LAMBDA x : Cross(x, "frame", FALSE), Walk(ALIGN, <<>>), Len(input))
  IN  /\ Enter([way |-> "frame"])
      /\ IF t.state = "walking"
           THEN tail' = t.at /\ outcome' = "running" /\ UNCHANGED <<header, cursor, views>>
           ELSE Trapped(t)

-----------------------------------------------------------------------------
(* The lazy context *)

LazyArm ==
  /\ Enter([way |-> "lazy"])
  /\ cursor' = ALIGN
  /\ outcome' = "running"
  /\ UNCHANGED <<header, tail, views>>

Lazy == arm.way = "lazy" /\ outcome = "running"

Exposed == Lesser(Len(input), CLAMP)

\* next_account and its kin take one record, skip n, drain_remaining all there
\* are; a skip past the end has taken what there was.
Consume(n) ==
  LET w == Repeat(LAMBDA x : Take(x, "lazy"), Walk(cursor, views),
                  Lesser(n, Exposed - Len(views)))
  IN  /\ Lazy
      /\ Len(views) < Exposed
      /\ IF w.state # "walking" THEN Trapped(w)
         ELSE /\ views' = w.views
              /\ cursor' = w.at
              /\ header' = WithBaselines(w.fresh)
              /\ UNCHANGED <<tail, outcome>>
      /\ UNCHANGED <<input, arm>>

\* instruction_data and program_id: the first call walks from the cursor, past
\* the records the context does not expose too, the later ones remember.
ReadTail ==
  LET t == Repeat(LAMBDA x : Cross(x, "lazy", FALSE),
                  [Walk(cursor, views) EXCEPT !.slot = Len(views)], Len(input) - Len(views))
  IN  /\ Lazy
      /\ tail = NULL
      /\ IF t.state # "walking" THEN Trapped(t)
         ELSE tail' = t.at /\ UNCHANGED <<header, cursor, views, outcome>>
      /\ UNCHANGED <<input, arm>>

\* The handler borrows and resizes the accounts it got.
Held == {i \in Slots : Starts[i] \in {views[k] : k \in DOMAIN views}}

Borrow(i, byte) ==
  /\ Lazy
  /\ header' = [header EXCEPT ![i].borrow = byte]
  /\ UNCHANGED <<input, arm, parsed, outcome>>

Resize(i, len) ==
  /\ Lazy
  /\ header[i].borrow = FREE
  /\ header' = [header EXCEPT ![i].len = len]
  /\ UNCHANGED <<input, arm, parsed, outcome>>

-----------------------------------------------------------------------------
(* The checked parsers of off-chain tools, over the first `room` bytes *)

Within(room) ==
  Repeat(LAMBDA w : LET c == Take(w, "frame")
                    IN  IF c.state = "walking" /\ c.at <= room THEN c
                        ELSE [w EXCEPT !.state = "refused"],
         Walk(ALIGN, <<>>), Len(input))

TableAt(t) == RoundUp(t + ALIGN + DATA + ID)

\* A marker names an earlier slot or the frame is refused; a frame that ends early
\* is, whatever it lacks.
Parse(room) ==
  LET w == Within(room)
      accepts == /\ room >= ALIGN /\ Len(input) <= MAX_SLOTS /\ w.state = "walking"
                 /\ w.at + ALIGN + DATA + ID <= room
  IN  /\ Enter([way |-> "parse", room |-> room])
      /\ IF accepts
           THEN /\ tail' = w.at
                /\ views' = [k \in Slots |-> Repeat(LAMBDA x : Cross(x, "frame", FALSE),
                                                    Walk(ALIGN, <<>>), k - 1).at]
                /\ outcome' = "running"
           ELSE outcome' = "refused" /\ UNCHANGED <<tail, views>>
      /\ UNCHANGED <<header, cursor>>

\* deserialize_accounts_0449_checked: a table that may be wrong, and instruction
\* data that may not be this frame's.
Direct(room, max, own, table) ==
  LET w == Within(room)
      accepts == /\ room >= ALIGN /\ Len(input) <= max /\ w.state = "walking" /\ own
                 /\ TableAt(w.at) + Len(input) * ALIGN <= room
                 /\ table = w.views
  IN  /\ Enter([way |-> "direct", room |-> room, max |-> max, own |-> own, table |-> table])
      /\ IF accepts
           THEN /\ views' = w.views
                /\ header' = WithBaselines(w.fresh)
                /\ outcome' = "running"
           ELSE outcome' = "refused" /\ UNCHANGED <<header, views>>
      /\ UNCHANGED <<cursor, tail>>

\* The right table, or one with an entry that names another place.
Tables ==
  IF ~Sound(Len(input)) THEN {[i \in Slots |-> ALIGN]}
  ELSE LET right == Accounts(Len(input))
       IN  {right} \cup {[right EXCEPT ![i] = a] : i \in Slots, a \in {Starts[i] : i \in Slots} \cup {TailStart}}

Rooms == 0 .. TableAt(TailStart) + Len(input) * ALIGN

-----------------------------------------------------------------------------
(* Specification *)

LoaderInit ==
  /\ input \in Inputs
  /\ header = Fresh
  /\ arm = Unread /\ cursor = NULL /\ tail = NULL /\ views = <<>> /\ outcome = "none"

\* The instruction ends; another gets an input like it.
Return ==
  /\ outcome # "none"
  /\ header' = Fresh
  /\ arm' = Unread /\ cursor' = NULL /\ tail' = NULL /\ views' = <<>> /\ outcome' = "none"
  /\ UNCHANGED input

LoaderNext ==
  \/ \E max \in Bounds : ScanArm(max, max) \/ ScanArm(CLAMP, max) \/ FastArm(max) \/ TableArm(max)
  \/ \E widest \in Bounds : \E bound \in 0 .. Lesser(widest, CLAMP) : ExactArm(bound, widest)
  \/ FrameArm
  \/ LazyArm
  \/ \E n \in 1 .. Exposed : Consume(n)
  \/ ReadTail
  \/ \E i \in Held :
       \/ \E byte \in {0, 1, FREE} : Borrow(i, byte)
       \/ \E len \in Lengths : Resize(i, len)
  \/ \E room \in Rooms : Parse(room)
  \/ \E room \in {FrameEnd, TableAt(TailStart) + Len(input) * ALIGN}, max \in Bounds, own \in BOOLEAN :
       \E table \in Tables : Direct(room, max, own, table)
  \/ Return

LoaderSpec == LoaderInit /\ [][LoaderNext]_loader

-----------------------------------------------------------------------------
(* Properties *)

\* No walk leaves the records or traps on sound input, and wherever it is in a
\* sound frame its place is a record's.
StaysOnRecords ==
  /\ outcome # "lost"
  /\ outcome = "trapped" => ~Sound(Len(input))
  /\ arm.way = "lazy" => cursor = Starts[Len(views) + 1]
  /\ tail # NULL => tail = TailStart

\* Slot for slot the views are the accounts the loader named, the first of them
\* that the arm has room for; a duplicate is a view of the account itself.
ViewsAsSerialized ==
  /\ arm.way # "parse" => Sound(Len(views)) /\ views = Accounts(Len(views))
  /\ outcome = "running" =>
       /\ arm.way \in {"scan", "fast", "table"} =>
            Len(views) = Lesser(Len(input), Lesser(arm.max, CLAMP))
       /\ arm.way \in {"exact", "direct", "parse"} => Len(views) = Len(input)
       /\ arm.way = "parse" => \A i \in Slots : views[i] = Starts[i]

\* An account in hand is measured from its length at entry, whatever it was
\* resized to before its duplicates were reached.
BaselinesAtEntry ==
  arm.way # "parse" => \A i \in Held : header[i].baseline = input[i].len

\* The checked parsers accept what is whole, sound and small enough, and nothing else.
AcceptsWholeFrames ==
  /\ arm.way = "parse" =>
       (outcome = "running" <=>
          Len(input) <= MAX_SLOTS /\ Sound(Len(input)) /\ FrameEnd <= arm.room)
  /\ arm.way = "direct" =>
       (outcome = "running" <=>
          /\ Len(input) <= arm.max /\ Sound(Len(input)) /\ arm.own
          /\ TableAt(TailStart) + Len(input) * ALIGN <= arm.room
          /\ arm.table = Accounts(Len(input)))

\* Whichever way a program reads its input, it gets the accounts and the
\* instruction the loader serialized (deserialize_accounts, deserialize_accounts_
\* 0449, LazyContext, parse_instruction_frame_checked).
InputAsSerialized ==
  StaysOnRecords /\ ViewsAsSerialized /\ BaselinesAtEntry /\ AcceptsWholeFrames
=============================================================================
