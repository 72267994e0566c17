------------------------------ MODULE Footprint ------------------------------
(***************************************************************************)
(* Every way one instruction comes to write account data, through its      *)
(* Context, past it on the AccountView, or by a raw pointer: which policy  *)
(* each is held to, which of them leave a record in the touch log, and     *)
(* what the emitted touch map lets a verifier conclude.                    *)
(*                                                                         *)
(* The contract verified against is the policy `bind` installed, on the    *)
(* context and as the ambient gate.  The gate is what AmbientGates         *)
(* promises.  The log is what TouchLog promises: exactly the bytes         *)
(* recorded, or a partial flag; of its record splits the coarsest is       *)
(* handed on.  Reads leave records too and may be what fills it, so it may *)
(* be full at any time.  An account is borrowed as a whole, and a guard of *)
(* a Context keeps that context engaged.                                   *)
(***************************************************************************)
EXTENDS EffectContract

CONSTANTS
  Address,
  Invocations,    \* [accounts, strict, policy, args]; accounts may repeat
  EntryLength,    \* [Address -> length of the data]
  Segment,        \* <<offset, size>> a program names
  Lengths,        \* bound: the lengths it resizes to
  Written,        \* bound: the offsets it writes
  MaxCalls,       \* bound: acquisitions, resizes and lamport writes of the handler
  U8_MAX

\* Ranges are u32s, and the columns of one account do not overlap: the context
\* macro asserts it of every policy it compiles.
WellDeclared(policy) ==
  /\ \A r \in policy.allows :
       r \in [account_index : Nat, offset : 0 .. U32_MAX, size : 0 .. U32_MAX]
  /\ policy.parametric \in Seq([account_index : Nat, base_offset : Nat, stride : Nat,
                                cell_size : Nat, count : Nat, argument_index : Nat])
  /\ \A j, k \in DOMAIN policy.parametric :
       j < k => ~Overlapping(policy.parametric[j], policy.parametric[k])

ASSUME FootprintAssumption ==
  /\ \A invocation \in Invocations :
       /\ invocation.accounts \in Seq(Address) /\ invocation.args \in Seq(Nat)
       /\ WellDeclared(invocation.policy)
  /\ EntryLength \in [Address -> Nat]
  /\ Segment \subseteq Nat \X Nat /\ Lengths \subseteq Nat /\ MaxCalls \in Nat

VARIABLES
  accounts, contract, args,  \* the instruction
  gates,                     \* the ambient gate, while its guard lives
  second,                    \* the account list of a Context built on the way
  data,                      \* [Address -> bytes]; all zero at entry
  moved,                     \* whose lamports changed, and whether a gate stood
  views,                     \* live mutable views
  calls,                     \* calls made so far, at most MaxCalls
  touched, overflow,         \* the touch log, the write records
  emitted,                   \* the touch map logged last
  ungoverned,                \* bytes handed out under no byte range (history)
  unrecorded                 \* bytes handed out without a record (history)

instruction == <<accounts, contract, args>>
log == <<touched, overflow>>
history == <<ungoverned, unrecorded>>
vars == <<accounts, contract, args, gates, second, data, moved, views, calls, log,
          emitted, ungoverned, unrecorded>>

NoContext == <<>>
NotEmitted == [records |-> {}, overflowed |-> TRUE, skipped |-> TRUE]

Entry(a) == [b \in 1 .. EntryLength[a] |-> 0]
Changed(a) == ChangedBytes(Entry(a), data[a])

Bytes(a, offset, size) == {a} \X (offset .. offset + size - 1)
Whole(a) == Bytes(a, 0, Len(data[a]))

-----------------------------------------------------------------------------
(* Policy and gate *)

Ambient == INSTANCE AmbientGates WITH
  Calls <- {}, DataRequests <- {}, DEPTH <- 1, CAPACITY <- 1, ARG_CAPACITY <- 0,
  UNGUARDED <- FALSE, FRESH_VM <- TRUE, request <- 0, verdict <- 0

AmbientAllows(a, kind, offset, size) ==
  Ambient!Answer(a, [kind |-> kind, offset |-> offset, size |-> size]) = Ambient!Ok

AllowsData(a, offset, size) == AmbientAllows(a, "Data", offset, size)
AllowsWhole(a) == data[a] # <<>> => AllowsData(a, 0, Len(data[a]))

\* check_write_policy.  Context::new installs no policy, bind does.
ContextAllows(ctx, i, offset, size) ==
  (ctx = "bound" /\ contract.strict) =>
     CheckWriteWithArgs(contract.policy, i - 1, offset, size, args)

AccountsOf(ctx) == IF ctx = "bound" THEN accounts ELSE second

-----------------------------------------------------------------------------
(* Views *)

NewView(a, bytes, by, pointer, recorded) ==
  [key |-> a, bytes |-> bytes, by |-> by, pointer |-> pointer, recorded |-> recorded]

Unborrowed(a) == \A v \in views : v.key # a \/ v.pointer

\* No guard of the context is live; none that holds it exclusively is.
Disengaged(ctx) == \A v \in views : v.by = ctx => v.pointer
Shareable(ctx)  == \A v \in views : v.by = ctx => ~v.recorded

Governed(by) == IF by = "bound" THEN contract.strict
                ELSE by = "view" /\ gates # {}

Grant(v) ==
  /\ views' = views \cup {v}
  /\ ungoverned' = IF Governed(v.by) THEN ungoverned ELSE ungoverned \cup v.bytes
  /\ unrecorded' = IF v.recorded THEN unrecorded ELSE unrecorded \cup v.bytes

MutantDropsSilently(bytes) ==
  \/ touched' = touched \cup bytes /\ UNCHANGED overflow
  \/ UNCHANGED log

Record(bytes) ==
  \/ touched' = touched \cup bytes /\ UNCHANGED overflow
  \/ overflow' = TRUE /\ UNCHANGED touched

Call == calls < MaxCalls /\ calls' = calls + 1

\* register_leased_write records the range; the account borrow that follows may
\* still be refused, and the record stays.
Lease(a, bytes, by) ==
  /\ Call /\ Record(bytes)
  /\ IF Unborrowed(a)
       THEN Grant(NewView(a, bytes, by, FALSE, TRUE))
       ELSE /\ ungoverned' = IF Governed(by) THEN ungoverned ELSE ungoverned \cup bytes
            /\ UNCHANGED <<views, unrecorded>>
  /\ UNCHANGED <<instruction, gates, second, data, moved, emitted>>

Take(v) ==
  /\ Call /\ Grant(v)
  /\ UNCHANGED <<instruction, gates, second, data, moved, log, emitted>>

InBounds(a, offset, size) == offset + size <= Len(data[a])

-----------------------------------------------------------------------------
(* Acquisitions through a Context, which each hold the requested range to its *)
(* policy.                                                                  *)

\* segment_mut, segment_mut_const and segment_mut_typed
SegmentMut(ctx, i, offset, size) ==
  LET a == AccountsOf(ctx)[i]
  IN  /\ Disengaged(ctx) /\ ContextAllows(ctx, i, offset, size)
      /\ InBounds(a, offset, size)
      /\ Lease(a, Bytes(a, offset, size), ctx)

MutantChecksFirstRange(ctx, i, ranges) == ContextAllows(ctx, i, ranges[1][1], ranges[1][2])

AllowsEach(ctx, i, ranges) ==
  \A k \in DOMAIN ranges : ContextAllows(ctx, i, ranges[k][1], ranges[k][2])

\* split_segments_mut: overlapping ranges are refused after the first of them
\* was registered, and recorded.
SplitSegmentsMut(ctx, i, ranges) ==
  LET a == AccountsOf(ctx)[i]
      first == Bytes(a, ranges[1][1], ranges[1][2])
      other == Bytes(a, ranges[2][1], ranges[2][2])
  IN  /\ Disengaged(ctx) /\ AllowsEach(ctx, i, ranges)
      /\ ranges[1][2] = ranges[2][2]
      /\ \A k \in DOMAIN ranges : InBounds(a, ranges[k][1], ranges[k][2])
      /\ IF first \cap other = {}
           THEN Lease(a, first \cup other, ctx)
           ELSE /\ Call /\ Record(first)
                /\ ungoverned' = IF Governed(ctx) THEN ungoverned ELSE ungoverned \cup first
                /\ UNCHANGED <<instruction, gates, second, data, moved, views,
                               emitted, unrecorded>>

\* One lease over everything past the fixed head.
TailSeqMut(ctx, i, body_end) ==
  LET a == AccountsOf(ctx)[i]
      size == Len(data[a]) - body_end
  IN  /\ Disengaged(ctx) /\ body_end <= Len(data[a])
      /\ ContextAllows(ctx, i, body_end, size)
      /\ Lease(a, Bytes(a, body_end, size), ctx)

WholeAllowed(ctx, i) == ContextAllows(ctx, i, 0, Len(data[AccountsOf(ctx)[i]]))

\* AccountView::load_mut: the ambient gate again, then the borrow, the header
\* checks and only then the record.
Load(a, by) ==
  /\ Call /\ AllowsWhole(a) /\ Unborrowed(a) /\ data[a] # <<>>
  /\ Record(Whole(a))
  /\ Grant(NewView(a, Whole(a), by, FALSE, TRUE))
  /\ UNCHANGED <<instruction, gates, second, data, moved, emitted>>

LoadMut(ctx, i) ==
  Disengaged(ctx) /\ WholeAllowed(ctx, i) /\ Load(AccountsOf(ctx)[i], ctx)

\* raw_mut takes a borrow, as_mut_ptr does not; neither records.
ContextRawMut(ctx, i) ==
  LET a == AccountsOf(ctx)[i]
  IN  /\ Shareable(ctx) /\ WholeAllowed(ctx, i) /\ Unborrowed(a)
      /\ Take(NewView(a, Whole(a), ctx, FALSE, FALSE))

AsMutPtr(ctx, i) ==
  LET a == AccountsOf(ctx)[i]
  IN  /\ Shareable(ctx) /\ WholeAllowed(ctx, i)
      /\ Take(NewView(a, Whole(a), ctx, TRUE, FALSE))

-----------------------------------------------------------------------------
(* The AccountView surfaces, which the ambient gate governs: segment_mut,   *)
(* load_mut and its compact forms, try_borrow_mut, and the deliberately     *)
(* ungated raw_mut.                                                         *)

ViewSegmentMut(a, offset, size) ==
  /\ AllowsData(a, offset, size) /\ InBounds(a, offset, size)
  /\ Lease(a, Bytes(a, offset, size), "view")

ViewLoadMut(a) == Load(a, "view")

TryBorrowMut(a) ==
  /\ AllowsWhole(a) /\ Unborrowed(a)
  /\ Take(NewView(a, Whole(a), "view", FALSE, FALSE))

ViewRawMut(a) ==
  /\ Unborrowed(a)
  /\ Take(NewView(a, Whole(a), "raw", FALSE, FALSE))

\* AccountView::resize needs no byte range and leaves no record.
Resize(a, n) ==
  LET old == Len(data[a])
      delta == {b \in {a} \X (0 .. Max({n, old}) - 1) : b[2] >= Min({n, old})}
  IN  /\ Call /\ AmbientAllows(a, "Transition", 0, 0)
      /\ Unborrowed(a) /\ n # old
      /\ data' = [data EXCEPT ![a] = [b \in 1 .. n |-> IF b <= old THEN @[b] ELSE 0]]
      /\ ungoverned' = ungoverned \cup delta /\ unrecorded' = unrecorded \cup delta
      /\ UNCHANGED <<instruction, gates, second, moved, views, log, emitted>>

TrySetLamports(a) ==
  /\ Call /\ AmbientAllows(a, "Lamports", 0, 0)
  /\ moved' = moved \cup {<<a, gates # {}>>}
  /\ UNCHANGED <<instruction, gates, second, data, views, log, emitted, history>>

-----------------------------------------------------------------------------
(* The handler *)

Write(v, b) ==
  /\ b[2] < Len(data[v.key])
  /\ data' = [data EXCEPT ![v.key][b[2] + 1] = 1]
  /\ UNCHANGED <<instruction, calls, gates, second, moved, views, log, emitted, history>>

DropView(v) ==
  /\ views' = views \ {v}
  /\ UNCHANGED <<instruction, calls, gates, second, data, moved, log, emitted, history>>

\* The bound context is dropped, and the gate's guard with it.
DropGate ==
  /\ gates # {} /\ gates' = {}
  /\ Disengaged("bound")
  /\ UNCHANGED <<instruction, calls, second, data, moved, views, log, emitted, history>>

ResetLog == touched' = {} /\ overflow' = FALSE

\* Context::new in mid-instruction, over the accounts from k on: it has no
\* policy, and the log forgets what was recorded, live views included.
SecondContext(k) ==
  /\ second = NoContext
  /\ second' = SubSeq(accounts, k, Len(accounts))
  /\ ResetLog
  /\ unrecorded' = unrecorded \cup touched \cup (UNION {v.bytes : v \in views})
                     \cup (UNION {{a} \X Changed(a) : a \in Address})
  /\ UNCHANGED <<instruction, calls, gates, data, moved, views, emitted, ungoverned>>

\* encode_touch_map: an address is reported at the first position it has in the
\* list of the context that encodes.
SlotOf(list, a) == Min({k \in DOMAIN list : list[k] = a}) - 1

Encoded(list) ==
  LET listed == {list[k] : k \in DOMAIN list}
      BytesOf(a) == {b[2] : b \in {c \in touched : c[1] = a}}
  IN  [records |-> UNION {{[slot |-> SlotOf(list, a), offset |-> r.offset, size |-> r.size,
                            write |-> TRUE] : r \in Runs(BytesOf(a))} : a \in listed},
       overflowed |-> overflow,
       skipped |-> \E b \in touched : b[1] \notin listed]

EmitTouchMap(ctx) ==
  /\ emitted = NotEmitted /\ Shareable(ctx)
  /\ emitted' = Encoded(AccountsOf(ctx))
  /\ UNCHANGED <<instruction, calls, gates, second, data, moved, views, log, history>>

-----------------------------------------------------------------------------
\* bind: a policy that declares lamports is installed ambient without the
\* selector values, a data-only one with them.
GateArgs(invocation) ==
  IF LamportsDeclared(invocation.policy) THEN <<>> ELSE invocation.args

Init ==
  /\ \E invocation \in Invocations :
       /\ accounts = invocation.accounts
       /\ contract = [strict |-> invocation.strict, policy |-> invocation.policy]
       /\ args = invocation.args
       /\ gates = {[id |-> 1, accounts |-> accounts, policy |-> invocation.policy,
                    args |-> GateArgs(invocation)] : x \in {y \in {1} : invocation.strict}}
  /\ second = NoContext
  /\ data = [a \in Address |-> Entry(a)]
  /\ moved = {} /\ views = {} /\ calls = 0 /\ touched = {} /\ overflow = FALSE
  /\ emitted = NotEmitted /\ ungoverned = {} /\ unrecorded = {}

Listed == {accounts[i] : i \in DOMAIN accounts}
Contexts == {"bound"} \cup {c \in {"second"} : second # NoContext}

Acquire ==
  \/ \E ctx \in Contexts : \E i \in DOMAIN AccountsOf(ctx) :
       \/ LoadMut(ctx, i) \/ ContextRawMut(ctx, i) \/ AsMutPtr(ctx, i)
       \/ \E r \in Segment : SegmentMut(ctx, i, r[1], r[2]) \/ TailSeqMut(ctx, i, r[1])
       \/ \E r, s \in Segment : SplitSegmentsMut(ctx, i, <<r, s>>)
  \/ \E a \in Listed :
       \/ ViewLoadMut(a) \/ TryBorrowMut(a) \/ ViewRawMut(a)
       \/ \E r \in Segment : ViewSegmentMut(a, r[1], r[2])

Next ==
  \/ Acquire
  \/ \E a \in Listed : TrySetLamports(a) \/ \E n \in Lengths : Resize(a, n)
  \/ \E v \in views : DropView(v) \/ \E b \in v.bytes \cap (Address \X Written) : Write(v, b)
  \/ \E ctx \in Contexts : EmitTouchMap(ctx)
  \/ \E k \in DOMAIN accounts : SecondContext(k)
  \/ DropGate

Spec == Init /\ [][Next]_vars

-----------------------------------------------------------------------------
(* Properties *)

\* What the contract means, byte by byte: a column decides over its envelope by
\* its selected cell alone, elsewhere the static ranges do.
Authorized(index, byte) ==
  LET p == contract.policy
      columns == {k \in DOMAIN p.parametric : /\ p.parametric[k].account_index = index
                                              /\ p.parametric[k].base_offset <= byte
                                              /\ byte < EnvelopeEnd(p.parametric[k])}
  IN  IF columns = {}
        THEN \E r \in RangesOf(p, index) : r.offset <= byte /\ byte < End(r)
        ELSE \A k \in columns :
               LET rule == p.parametric[k]
               IN  SelectorBound(rule, args) /\ byte >= CellStart(rule, Selected(rule, args))
                     /\ byte < CellEnd(rule, Selected(rule, args))

Moved(a) == <<a, TRUE>> \in moved \/ <<a, FALSE>> \in moved

Delta(i) ==
  [account_index |-> i - 1, pre |-> Entry(accounts[i]), post |-> data[accounts[i]],
   lamports_changed |-> Moved(accounts[i])]

Verdicts(i) ==
  {Verify(contract, {Delta(i)}, emitted),
   VerifyInvocation(contract, args, {Delta(i)}, emitted)}

\* Whatever the handler did, recorded or not, governed or not, and whenever it
\* emitted its map: a PASS on an account means that every byte of it that
\* changed, and its balance if it did, is authorized (verify.rs, "never a false
\* PASS").
NoFalsePass ==
  emitted # NotEmitted => \A i \in DOMAIN accounts :
    "Pass" \in Verdicts(i) =>
      /\ \A b \in Changed(accounts[i]) : Authorized(i - 1, b)
      /\ Moved(accounts[i]) => AllowsLamportMutation(contract.policy, i - 1)

\* The handler stayed on recorded surfaces under the bound policy, and the map
\* was emitted after its last acquisition.
Honest ==
  /\ ungoverned = {} /\ unrecorded = {}
  /\ \A m \in moved : m[2]
  /\ emitted = Encoded(accounts)

NoDuplicates == \A i, j \in DOMAIN accounts : accounts[i] = accounts[j] => i = j

\* Such a handler is never accused, although the log joins the ranges it was
\* granted one by one into records no single declared range contains.
HonestNotFlagged ==
  (Honest /\ NoDuplicates) => \A i \in DOMAIN accounts : "Violation" \notin Verdicts(i)

\* Every changed byte was authorized for some position of its account, unless
\* it was handed out by a surface that asks for no byte range.
Contained ==
  contract.strict =>
    \A a \in Address : \A b \in Changed(a) :
      \/ <<a, b>> \in ungoverned
      \/ \E i \in DOMAIN accounts : accounts[i] = a /\ Authorized(i - 1, b)

\* Every changed byte is in the touch log, or the log says it is partial, unless
\* it was handed out by a surface that leaves no record or before a later
\* Context reset the log.
Tracked ==
  \A a \in Address : \A b \in Changed(a) :
    overflow \/ <<a, b>> \in touched \cup unrecorded

\* "the same index a manifest RangeContract and the runtime Context use, so the
\* three join directly" (touch_map.rs:50-52): the previous property, whatever the
\* account list.
SlotsJoinDirectly ==
  Honest => \A i \in DOMAIN accounts : "Violation" \notin Verdicts(i)
=============================================================================
