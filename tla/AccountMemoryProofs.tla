-------------------------- MODULE AccountMemoryProofs --------------------------
(***************************************************************************)
(* Theorems about AccountMemory, for every set of accounts, lengths, gates *)
(* and rents.  They rest on one inductive invariant, MemoryInv: what the   *)
(* effects still to come may be, given what the call checked at its start. *)
(***************************************************************************)
EXTENDS AccountMemory, Integers, SequenceTheorems, TLAPS

-----------------------------------------------------------------------------
(* The inductive invariant *)

Gated == {"set_lamports", "resize", "resize_raw", "close", "zero_data", "zero_init",
          "write_close_sentinel", "write_header"}

PendingEffect ==
  [do : Gated \cup {"native_set_lamports", "system_transfer", "native_resize", "native_close"},
   acct : Account, val : Nat]

Atomic == {"try_set_lamports", "resize", "resize_raw", "close", "close_to",
           "transfer_lamports", "native_transfer", "close_and_transfer",
           "realloc_checked", "resize_with_payer", "zero_account_data"}

\* An effect that cannot be refused any more.
Sure(e) ==
  \/ e.do = "set_lamports" /\ LamportsAllowed(e.acct)
  \/ e.do = "native_set_lamports"
  \/ e.do = "native_resize" /\ CheckResize(e.acct, e.val)

\* What is stored has the type of what it is stored in.
Fitting(effects, a) ==
  \A i \in 1 .. Len(effects) :
    /\ effects[i].do \in {"set_lamports", "native_set_lamports"} => effects[i].val \in Lamports
    /\ effects[i].do = "write_header" => effects[i].val \in Byte
    /\ effects[i].do = "system_transfer" =>
         i = 1 /\ effects[i].acct # a /\ lamports[a] + effects[i].val <= U64_MAX

\* A call that is atomic asked for all but its first effect when it started; an
\* effect that asked for a length comes before any that changes it.
Preflighted(effects) ==
  \A i \in 2 .. Len(effects) :
    /\ Sure(effects[i])
    /\ effects[i].do = "native_resize" =>
         \A j \in 1 .. i - 1 : effects[j].do \in {"native_set_lamports", "system_transfer"}

\* A call of the upper layers has only effects that ask the gate, or that it
\* asked the gate about when it started.
Authorized(effects) ==
  \A i \in 1 .. Len(effects) :
    /\ effects[i].do \in Gated
    /\ effects[i].do = "zero_data" => gate.body[effects[i].acct] # {}
    /\ effects[i].do = "write_header" =>
         /\ len[effects[i].acct] > 0
         /\ \A j \in 1 .. i - 1 : \/ effects[j].do = "set_lamports"
                                  \/ effects[j].do = "resize" /\ effects[j].val > 0

Ready(op, a, effects) ==
  /\ op # "none" /\ a \in Account
  /\ effects \in Seq(PendingEffect) /\ effects # <<>>
  /\ Fitting(effects, a)
  /\ op \in Atomic => Preflighted(effects)
  /\ op \notin Native => Authorized(effects)

Unchanged == <<lamports, len, owner, data>> =
               <<before.lamports, before.len, before.owner, before.data>>

\* The types of the variables calls do not change while they run.
Typed ==
  /\ entry \in Entry /\ gate \in Gate
  /\ lamports \in [Account -> Lamports]
  /\ len \in [Account -> Nat]
  /\ owner \in [Account -> {PROGRAM, SYSTEM}]
  /\ data \in [Account -> [Offset -> Byte]]
  /\ borrow \in [Account -> {"free", "shared", "exclusive"}]
  /\ cut \in [Account -> SUBSET Offset]

Underway ==
  /\ todo = <<>> => call = Nothing /\ before = Nothing
  /\ todo # <<>> => /\ Ready(call.op, call.acct, todo)
                    /\ before # Nothing
                    /\ call.op \in Atomic => Unchanged \/ Sure(todo[1])

MemoryInv == Typed /\ Underway /\ NeverPastReserve /\ NoStaleBytes

-----------------------------------------------------------------------------
(* Constants and operators *)

\* The constants are natural numbers, and the small values are in their sets.
LEMMA Numbers ==
  /\ Capacity \in Nat /\ U64_MAX \in Nat /\ MAX_PERMITTED_DATA_INCREASE \in Nat /\ MaxLen \in Nat
  /\ 0 \in Offset /\ Offset \subseteq Nat /\ Length \subseteq Nat /\ Lamports \subseteq Nat
  /\ 0 \in Byte /\ 2 \in Byte /\ 1 \in Byte /\ CLOSE_SENTINEL \in Byte
BY MemoryAssumption DEF Capacity, Offset, Length, Lamports, Byte, Versions

\* The header fields of the entry the loader mapped.
LEMMA EntryFields ==
  ASSUME Typed, NEW a \in Account
  PROVE  /\ entry[a].len \in Nat /\ entry[a].len <= MaxLen
         /\ entry[a].lamports \in Lamports /\ entry[a].owner \in {PROGRAM, SYSTEM}
<1>1. entry[a] \in Mapped
  BY MemoryAssumption DEF Typed
<1> QED BY <1>1, MemoryAssumption DEF Mapped

\* A stored range changes the bytes of the range of one account.
LEMMA StoredBytes ==
  ASSUME Typed, NEW a \in Account, NEW range, NEW x \in Byte
  PROVE  /\ Stored(a, range, x) \in [Account -> [Offset -> Byte]]
         /\ \A b \in Account : b # a => Stored(a, range, x)[b] = data[b]
         /\ \A i \in Offset : Stored(a, range, x)[a][i] = IF i \in range THEN x ELSE data[a][i]
BY DEF Stored, Typed

\* Storing nothing changes nothing.
LEMMA NothingStored ==
  ASSUME Typed, NEW a \in Account, NEW x \in Byte
  PROVE  Stored(a, {}, x) = data
<1>1. Stored(a, {}, x) \in [Account -> [Offset -> Byte]] /\ data \in [Account -> [Offset -> Byte]]
  BY StoredBytes DEF Typed
<1>2. \A b \in Account : Stored(a, {}, x)[b] = data[b]
  <2> SUFFICES ASSUME NEW b \in Account PROVE Stored(a, {}, x)[b] = data[b]
    OBVIOUS
  <2>1. CASE b # a
    BY <2>1, StoredBytes
  <2>2. CASE b = a
    <3>1. \A i \in Offset : Stored(a, {}, x)[a][i] = data[a][i]
      BY StoredBytes
    <3> QED BY <1>1, <2>2, <3>1
  <2> QED BY <2>1, <2>2
<1> QED BY <1>1, <1>2

\* The effect at the head of a non-empty list, and the list behind it.
LEMMA HeadAndTail ==
  ASSUME NEW X, NEW s \in Seq(X), s # <<>>
  PROVE  /\ s[1] \in X /\ Len(s) \in Nat /\ Len(s) >= 1
         /\ Tail(s) \in Seq(X) /\ Len(Tail(s)) = Len(s) - 1
         /\ \A i \in 1 .. Len(s) - 1 : Tail(s)[i] = s[i + 1]
         /\ (Tail(s) = <<>>) <=> (Len(s) = 1)
<1>1. Len(s) \in Nat /\ Len(s) >= 1
  BY EmptySeq
<1>2. Tail(s) \in Seq(X) /\ Len(Tail(s)) = Len(s) - 1
  BY HeadTailProperties
<1>3. \A i \in 1 .. Len(s) - 1 : Tail(s)[i] = s[i + 1]
  BY <1>2, HeadTailProperties
<1>4. s[1] \in X
  BY <1>1, ElementOfSeq
<1>5. (Tail(s) = <<>>) <=> (Len(Tail(s)) = 0)
  BY <1>2, EmptySeq
<1> QED BY <1>1, <1>2, <1>3, <1>4, <1>5

-----------------------------------------------------------------------------
(* The calls: what each of them starts is ready to run *)

\* Concatenations of short lists, written out.
LEMMA TwoAndOne ==
  ASSUME NEW X, NEW e1 \in X, NEW e2 \in X, NEW e3 \in X
  PROVE  <<e1, e2>> \o <<e3>> = <<e1, e2, e3>>
<1> DEFINE s == <<e1, e2>>
           t == <<e3>>
<1>1. s \in Seq(X) /\ t \in Seq(X) /\ <<e1, e2, e3>> \in Seq(X)
  OBVIOUS
<1>2. Len(s) = 2 /\ Len(t) = 1 /\ Len(<<e1, e2, e3>>) = 3
  OBVIOUS
<1>3. s[1] = e1 /\ s[2] = e2 /\ t[1] = e3
  OBVIOUS
<1> HIDE DEF s, t
<1>c. /\ s \o t \in Seq(X) /\ Len(s \o t) = Len(s) + Len(t)
      /\ \A i \in 1 .. Len(s) + Len(t) : (s \o t)[i] = IF i <= Len(s) THEN s[i] ELSE t[i - Len(s)]
  BY <1>1, ConcatProperties
<1>4. s \o t \in Seq(X) /\ Len(s \o t) = 3
  BY <1>2, <1>c
<1>5. (s \o t)[1] = e1 /\ (s \o t)[2] = e2 /\ (s \o t)[3] = e3
  BY <1>2, <1>3, <1>c
<1>e. \A i \in 1 .. Len(s \o t) : (s \o t)[i] = <<e1, e2, e3>>[i]
  BY <1>4, <1>5
<1>6. s \o t = <<e1, e2, e3>>
  BY <1>1, <1>2, <1>4, <1>e, SeqEqual
<1> QED BY <1>6 DEF s, t

LEMMA OneAndTwo ==
  ASSUME NEW X, NEW e1 \in X, NEW e2 \in X, NEW e3 \in X
  PROVE  <<e1>> \o <<e2, e3>> = <<e1, e2, e3>>
<1> DEFINE s == <<e1>>
           t == <<e2, e3>>
<1>1. s \in Seq(X) /\ t \in Seq(X) /\ <<e1, e2, e3>> \in Seq(X)
  OBVIOUS
<1>2. Len(s) = 1 /\ Len(t) = 2 /\ Len(<<e1, e2, e3>>) = 3
  OBVIOUS
<1>3. s[1] = e1 /\ t[1] = e2 /\ t[2] = e3
  OBVIOUS
<1> HIDE DEF s, t
<1>c. /\ s \o t \in Seq(X) /\ Len(s \o t) = Len(s) + Len(t)
      /\ \A i \in 1 .. Len(s) + Len(t) : (s \o t)[i] = IF i <= Len(s) THEN s[i] ELSE t[i - Len(s)]
  BY <1>1, ConcatProperties
<1>4. s \o t \in Seq(X) /\ Len(s \o t) = 3
  BY <1>2, <1>c
<1>5. (s \o t)[1] = e1 /\ (s \o t)[2] = e2 /\ (s \o t)[3] = e3
  BY <1>2, <1>3, <1>c
<1>e. \A i \in 1 .. Len(s \o t) : (s \o t)[i] = <<e1, e2, e3>>[i]
  BY <1>4, <1>5
<1>6. s \o t = <<e1, e2, e3>>
  BY <1>1, <1>2, <1>4, <1>e, SeqEqual
<1> QED BY <1>6 DEF s, t

LEMMA OneAndOne ==
  ASSUME NEW X, NEW e1 \in X, NEW e2 \in X
  PROVE  <<e1>> \o <<e2>> = <<e1, e2>>
<1> DEFINE s == <<e1>>
           t == <<e2>>
<1>1. s \in Seq(X) /\ t \in Seq(X) /\ <<e1, e2>> \in Seq(X)
  OBVIOUS
<1>2. Len(s) = 1 /\ Len(t) = 1 /\ Len(<<e1, e2>>) = 2
  OBVIOUS
<1>3. s[1] = e1 /\ t[1] = e2
  OBVIOUS
<1> HIDE DEF s, t
<1>c. /\ s \o t \in Seq(X) /\ Len(s \o t) = Len(s) + Len(t)
      /\ \A i \in 1 .. Len(s) + Len(t) : (s \o t)[i] = IF i <= Len(s) THEN s[i] ELSE t[i - Len(s)]
  BY <1>1, ConcatProperties
<1>4. s \o t \in Seq(X) /\ Len(s \o t) = 2
  BY <1>2, <1>c
<1>5. (s \o t)[1] = e1 /\ (s \o t)[2] = e2
  BY <1>2, <1>3, <1>c
<1>e. \A i \in 1 .. Len(s \o t) : (s \o t)[i] = <<e1, e2>>[i]
  BY <1>4, <1>5
<1>6. s \o t = <<e1, e2>>
  BY <1>1, <1>2, <1>4, <1>e, SeqEqual
<1> QED BY <1>6 DEF s, t

-----------------------------------------------------------------------------
(* Starting a call *)

\* A call that starts with effects that are ready keeps the invariant.
LEMMA StartKeeps ==
  ASSUME MemoryInv, NEW op, NEW a \in Account, NEW peer, NEW min, NEW effects,
         Ready(op, a, effects), Start(op, a, peer, min, effects)
  PROVE  MemoryInv'
<1> USE DEF Start, accounts
<1>1. Typed'
  BY DEF MemoryInv, Typed
<1>2. NeverPastReserve' /\ NoStaleBytes'
  BY DEF MemoryInv, NeverPastReserve, NoStaleBytes, Visible
<1>3. call'.op = op /\ call'.acct = a /\ todo' = effects
  OBVIOUS
<1>4. Fitting(effects, a)' /\ (op \in Atomic => Preflighted(effects)') /\ (op \notin Native => Authorized(effects)')
  BY DEF Ready, Fitting, Preflighted, Authorized, Sure, LamportsAllowed, CheckResize, IsWritable, CheckBorrowMut
<1>5. Ready(call.op, call.acct, todo)'
  BY <1>3, <1>4 DEF Ready
<1>6. before' = Snapshot
  OBVIOUS
<1>7. before' # Nothing
  BY <1>6 DEF Snapshot, Nothing
<1>8. Unchanged'
  BY <1>6 DEF Unchanged, Snapshot
<1>9. Underway'
  BY <1>3, <1>5, <1>7, <1>8 DEF Underway, Ready
<1> QED BY <1>1, <1>2, <1>9 DEF MemoryInv

\* A call with one effect checks nothing in advance.
LEMMA ReadyOne ==
  ASSUME NEW op, op # "none", NEW a \in Account, NEW e \in PendingEffect,
         e.do \in {"set_lamports", "native_set_lamports"} => e.val \in Lamports,
         e.do \notin {"write_header", "system_transfer"},
         op \notin Native => e.do \in Gated /\ (e.do = "zero_data" => gate.body[e.acct] # {})
  PROVE  Ready(op, a, <<e>>)
BY DEF Ready, Fitting, Preflighted, Authorized

\* A transfer is ready once both gates and both balances were asked for.
LEMMA TransferReady ==
  ASSUME MemoryInv, NEW from \in Account, NEW to \in Account, NEW amount \in Amount,
         LamportsAllowed(from), LamportsAllowed(to), lamports[from] >= amount, CreditFits(to, amount)
  PROVE  Ready("transfer_lamports", from,
               <<SetLamports(from, lamports[from] - amount), SetLamports(to, lamports[to] + amount)>>)
<1> DEFINE e1 == SetLamports(from, lamports[from] - amount)
           e2 == SetLamports(to, lamports[to] + amount)
<1>1. lamports[from] - amount \in Lamports /\ lamports[to] + amount \in Lamports
  BY MemoryAssumption DEF Lamports, MemoryInv, Typed, CreditFits
<1>2. e1 \in PendingEffect /\ e2 \in PendingEffect
  BY <1>1, Numbers DEF SetLamports, Effect, PendingEffect, Gated
<1>3. e1.do = "set_lamports" /\ e1.acct = from /\ e1.val \in Lamports
      /\ e2.do = "set_lamports" /\ e2.acct = to /\ e2.val \in Lamports
  BY <1>1 DEF SetLamports, Effect
<1> HIDE DEF e1, e2
<1> SUFFICES Ready("transfer_lamports", from, <<e1, e2>>)
  BY DEF e1, e2
<1> QED BY <1>2, <1>3 DEF Ready, Fitting, Preflighted, Authorized, Sure, Gated

\* The calls with one effect keep the invariant.
LEMMA SingleEffectCalls ==
  ASSUME MemoryInv, NEW a \in Account, NEW x \in Nat, NEW n \in Length,
         \/ x \in Amount /\ TrySetLamports(a, x)
         \/ CallResize(a, n) \/ CallResizeRaw(a, n) \/ CallClose(a) \/ ZeroAccountData(a)
  PROVE  MemoryInv'
<1>1. CASE x \in Amount /\ TrySetLamports(a, x)
  <2>1. x \in Lamports
    BY <1>1, MemoryAssumption
  <2> DEFINE e == SetLamports(a, x)
  <2>e. e \in PendingEffect /\ e.do = "set_lamports" /\ e.val \in Lamports
    BY <2>1, Numbers DEF SetLamports, Effect, PendingEffect, Gated
  <2> HIDE DEF e
  <2>f. Ready("try_set_lamports", a, <<SetLamports(a, x)>>)
    BY <2>e, ReadyOne DEF Gated, Native, e
  <2> QED BY <1>1, <2>f, StartKeeps DEF TrySetLamports
<1>2. CASE CallResize(a, n)
  <2> DEFINE e == Resize(a, n)
  <2>e. e \in PendingEffect /\ e.do = "resize"
    BY Numbers DEF Resize, Effect, PendingEffect, Gated
  <2> HIDE DEF e
  <2>f. Ready("resize", a, <<Resize(a, n)>>)
    BY <2>e, ReadyOne DEF Gated, Native, e
  <2> QED BY <1>2, <2>f, StartKeeps DEF CallResize
<1>3. CASE CallResizeRaw(a, n)
  <2> DEFINE e == ResizeRaw(a, n)
  <2>e. e \in PendingEffect /\ e.do = "resize_raw"
    BY Numbers DEF ResizeRaw, Effect, PendingEffect, Gated
  <2> HIDE DEF e
  <2>f. Ready("resize_raw", a, <<ResizeRaw(a, n)>>)
    BY <2>e, ReadyOne DEF Gated, Native, e
  <2> QED BY <1>3, <2>f, StartKeeps DEF CallResizeRaw
<1>4. CASE CallClose(a)
  <2> DEFINE e == Close(a)
  <2>e. e \in PendingEffect /\ e.do = "close"
    BY Numbers DEF Close, Effect, PendingEffect, Gated
  <2> HIDE DEF e
  <2>f. Ready("close", a, <<Close(a)>>)
    BY <2>e, ReadyOne DEF Gated, Native, e
  <2> QED BY <1>4, <2>f, StartKeeps DEF CallClose
<1>5. CASE ZeroAccountData(a)
  <2> DEFINE e == ZeroData(a)
  <2>e. e \in PendingEffect /\ e.do = "zero_data"
    BY Numbers DEF ZeroData, Effect, PendingEffect, Gated
  <2> HIDE DEF e
  <2>f. Ready("zero_account_data", a, <<ZeroData(a)>>)
    BY <2>e, ReadyOne DEF Gated, Native, e
  <2> QED BY <1>5, <2>f, StartKeeps DEF ZeroAccountData
<1> QED BY <1>1, <1>2, <1>3, <1>4, <1>5

\* Each of the other calls keeps it too.
LEMMA TransferLamportsKeeps ==
  ASSUME MemoryInv, NEW from \in Account, NEW to \in Account, NEW amount \in Amount,
         TransferLamports(from, to, amount)
  PROVE  MemoryInv'
BY TransferReady, StartKeeps DEF TransferLamports

\* Two accounts and what moves between them.
LEMMA Moved ==
  ASSUME MemoryInv, NEW from \in Account, NEW to \in Account, NEW amount \in Nat,
         lamports[from] >= amount, CreditFits(to, amount)
  PROVE  lamports[from] - amount \in Lamports /\ lamports[to] + amount \in Lamports
BY MemoryAssumption DEF Lamports, MemoryInv, Typed, CreditFits

LEMMA NativeTransferKeeps ==
  ASSUME MemoryInv, NEW from \in Account, NEW to \in Account, NEW amount \in Amount,
         NativeTransfer(from, to, amount)
  PROVE  MemoryInv'
<1> DEFINE e1 == NativeSetLamports(from, lamports[from] - amount)
           e2 == NativeSetLamports(to, lamports[to] + amount)
<1>1. lamports[from] - amount \in Lamports /\ lamports[to] + amount \in Lamports
  BY Moved, MemoryAssumption, Numbers DEF NativeTransfer, NativeTransferable
<1>2. e1 \in PendingEffect /\ e2 \in PendingEffect
      /\ e1.do = "native_set_lamports" /\ e1.val \in Lamports
      /\ e2.do = "native_set_lamports" /\ e2.val \in Lamports
  BY <1>1, Numbers DEF NativeSetLamports, Effect, PendingEffect
<1>3. Start("native_transfer", from, to, 0, <<e1, e2>>)
  BY DEF NativeTransfer, NativeMove
<1> HIDE DEF e1, e2
<1>4. Ready("native_transfer", from, <<e1, e2>>)
  BY <1>2 DEF Ready, Fitting, Preflighted, Sure, Native
<1> QED BY <1>3, <1>4, StartKeeps

LEMMA CloseToKeeps ==
  ASSUME MemoryInv, NEW a \in Account, NEW dest \in Account, NEW checked \in BOOLEAN,
         CloseTo(a, dest, checked)
  PROVE  MemoryInv'
<1> DEFINE e1 == ZeroData(a)
           e2 == SetLamports(a, 0)
           e3 == SetLamports(dest, lamports[dest] + lamports[a])
<1>1. lamports[a] \in Nat /\ 0 \in Lamports /\ lamports[dest] + lamports[a] \in Lamports
  BY Moved, MemoryAssumption DEF CloseTo, ClosePreflight, MemoryInv, Typed, Lamports, CreditFits
<1>2. /\ e1 \in PendingEffect /\ e1.do = "zero_data" /\ e1.acct = a
      /\ e2 \in PendingEffect /\ e2.do = "set_lamports" /\ e2.acct = a /\ e2.val \in Lamports
      /\ e3 \in PendingEffect /\ e3.do = "set_lamports" /\ e3.acct = dest /\ e3.val \in Lamports
  BY <1>1, Numbers DEF ZeroData, SetLamports, Gated, Effect, PendingEffect
<1>3. Start("close_to", a, dest, 0, <<e1, e2, e3>>)
  BY DEF CloseTo
<1>4. gate.body[a] # {} /\ LamportsAllowed(a) /\ LamportsAllowed(dest)
  BY DEF CloseTo, ClosePreflight, TransitionAllowed
<1> HIDE DEF e1, e2, e3
<1>5. Ready("close_to", a, <<e1, e2, e3>>)
  BY <1>2, <1>4 DEF Ready, Fitting, Preflighted, Authorized, Sure, Gated
<1> QED BY <1>3, <1>5, StartKeeps

LEMMA CloseAndTransferKeeps ==
  ASSUME MemoryInv, NEW a \in Account, NEW dest \in Account, CloseAndTransfer(a, dest)
  PROVE  MemoryInv'
<1> DEFINE e1 == NativeClose(a)
           e2 == NativeSetLamports(dest, lamports[dest] + lamports[a])
<1>1. lamports[dest] + lamports[a] \in Lamports
  BY MemoryAssumption DEF CloseAndTransfer, MemoryInv, Typed, Lamports, CreditFits
<1>2. /\ e1 \in PendingEffect /\ e1.do = "native_close"
      /\ e2 \in PendingEffect /\ e2.do = "native_set_lamports" /\ e2.val \in Lamports
  BY <1>1, Numbers DEF NativeClose, NativeSetLamports, Effect, PendingEffect
<1>3. Start("close_and_transfer", a, dest, 0, <<e1, e2>>)
  BY DEF CloseAndTransfer
<1> HIDE DEF e1, e2
<1>4. Ready("close_and_transfer", a, <<e1, e2>>)
  BY <1>2 DEF Ready, Fitting, Preflighted, Sure, Native
<1> QED BY <1>3, <1>4, StartKeeps

LEMMA ReallocCheckedKeeps ==
  ASSUME MemoryInv, NEW a \in Account, NEW n \in Length, NEW payer \in Account \cup {NoAccount},
         NEW rent \in {LAUNCH_RENT, LIVE_RENT}, ReallocChecked(a, n, payer, rent)
  PROVE  MemoryInv'
<1> DEFINE deficit == Deficit(a, rent[n])
           e1 == NativeSetLamports(payer, lamports[payer] - deficit)
           e2 == NativeSetLamports(a, lamports[a] + deficit)
           e3 == NativeResize(a, n)
<1>1. deficit \in Nat
  BY MemoryAssumption DEF Deficit, MemoryInv, Typed, Lamports
<1>2. e3 \in PendingEffect /\ e3.do = "native_resize" /\ e3.acct = a /\ e3.val = n
  BY Numbers DEF NativeResize, Effect, PendingEffect
<1>3. Start("realloc_checked", a, payer, rent[n],
            (IF deficit > 0 THEN <<e1, e2>> ELSE <<>>) \o <<e3>>) /\ CheckResize(a, n)
  BY DEF ReallocChecked, NativeMove
<1>4. deficit > 0 => payer \in Account /\ lamports[payer] >= deficit /\ CreditFits(a, deficit)
  BY DEF ReallocChecked, NativeTransferable
<1>5. CASE deficit > 0
  <2>1. lamports[payer] - deficit \in Lamports /\ lamports[a] + deficit \in Lamports
    BY <1>1, <1>4, <1>5, Moved
  <2>2. /\ e1 \in PendingEffect /\ e1.do = "native_set_lamports" /\ e1.val \in Lamports
        /\ e2 \in PendingEffect /\ e2.do = "native_set_lamports" /\ e2.val \in Lamports
    BY <1>4, <1>5, <2>1, Numbers DEF NativeSetLamports, Effect, PendingEffect
  <2> HIDE DEF deficit, e1, e2, e3
  <2>3. <<e1, e2>> \o <<e3>> = <<e1, e2, e3>>
    BY <1>2, <2>2, TwoAndOne
  <2>4. Ready("realloc_checked", a, <<e1, e2, e3>>)
    BY <1>2, <1>3, <2>2 DEF Ready, Fitting, Preflighted, Sure, Native
  <2> QED BY <1>3, <1>5, <2>3, <2>4, StartKeeps
<1>6. CASE ~(deficit > 0)
  <2> HIDE DEF deficit, e3
  <2>1. <<>> \o <<e3>> = <<e3>> /\ <<e3>> \in Seq(PendingEffect)
    BY <1>2, ConcatEmptySeq
  <2>2. Ready("realloc_checked", a, <<e3>>)
    BY <1>2, ReadyOne DEF Native
  <2> QED BY <1>3, <1>6, <2>1, <2>2, StartKeeps
<1> QED BY <1>5, <1>6

LEMMA ResizeWithPayerKeeps ==
  ASSUME MemoryInv, NEW a \in Account, NEW n \in Length, NEW payer \in Account,
         ResizeWithPayer(a, n, payer)
  PROVE  MemoryInv'
<1> DEFINE deficit == Deficit(a, LIVE_RENT[n])
           e1 == SystemTransfer(payer, deficit)
           e2 == NativeResize(a, n)
<1>1. /\ deficit \in Nat
      /\ deficit > 0 => lamports[a] + deficit <= U64_MAX
  BY MemoryAssumption DEF Deficit, MemoryInv, Typed, Lamports
<1>2. e2 \in PendingEffect /\ e2.do = "native_resize" /\ e2.acct = a /\ e2.val = n
  BY Numbers DEF NativeResize, Effect, PendingEffect
<1>3. Start("resize_with_payer", a, payer, LIVE_RENT[n],
            (IF deficit > 0 THEN <<e1>> ELSE <<>>) \o <<e2>>) /\ CheckResize(a, n)
  BY DEF ResizeWithPayer
<1>4. deficit > 0 => payer # a
  BY DEF ResizeWithPayer
<1>5. CASE deficit > 0
  <2>1. /\ e1 \in PendingEffect /\ e1.do = "system_transfer"
        /\ e1.acct = payer /\ e1.val = deficit
    BY <1>1, Numbers DEF SystemTransfer, Effect, PendingEffect
  <2> HIDE DEF deficit, e1, e2
  <2>2. <<e1>> \o <<e2>> = <<e1, e2>>
    BY <1>2, <2>1, OneAndOne
  <2>3. Ready("resize_with_payer", a, <<e1, e2>>)
    BY <1>1, <1>2, <1>3, <1>4, <1>5, <2>1 DEF Ready, Fitting, Preflighted, Sure, Native
  <2> QED BY <1>3, <1>5, <2>2, <2>3, StartKeeps
<1>6. CASE ~(deficit > 0)
  <2> HIDE DEF deficit, e2
  <2>1. <<>> \o <<e2>> = <<e2>> /\ <<e2>> \in Seq(PendingEffect)
    BY <1>2, ConcatEmptySeq
  <2>2. Ready("resize_with_payer", a, <<e2>>)
    BY <1>2, ReadyOne DEF Native
  <2> QED BY <1>3, <1>6, <2>1, <2>2, StartKeeps
<1> QED BY <1>5, <1>6

\* A list of effects that are all gated, none of them the last of a close or a
\* migration, is ready in a call that is not atomic.
LEMMA ReadyGated ==
  ASSUME NEW op \in {"safe_close", "safe_realloc"}, NEW a \in Account,
         NEW effects \in Seq(PendingEffect), effects # <<>>,
         \A i \in 1 .. Len(effects) :
           /\ effects[i].do \in Gated \ {"zero_data", "write_header"}
           /\ effects[i].do = "set_lamports" => effects[i].val \in Lamports
  PROVE  Ready(op, a, effects)
<1>1. \A i \in 1 .. Len(effects) : effects[i].do \notin {"native_set_lamports", "system_transfer"}
  BY DEF Gated
<1>2. Fitting(effects, a)
  BY <1>1 DEF Fitting
<1>3. Authorized(effects)
  BY DEF Authorized
<1> QED BY <1>2, <1>3 DEF Ready, Atomic

LEMMA SafeCloseKeeps ==
  ASSUME MemoryInv, NEW a \in Account, NEW dest \in Account,
         NEW checked \in BOOLEAN, NEW sentinel \in BOOLEAN, SafeClose(a, dest, checked, sentinel)
  PROVE  MemoryInv'
<1> DEFINE e1 == SetLamports(dest, lamports[dest] + lamports[a])
           e2 == SetLamports(a, 0)
           e3 == ZeroInit(a)
           e4 == WriteCloseSentinel(a)
           s == <<e1, e2, e3>>
           t == IF sentinel THEN <<e4>> ELSE <<>>
<1>1. 0 \in Lamports /\ lamports[dest] + lamports[a] \in Lamports
  BY MemoryAssumption DEF SafeClose, MemoryInv, Typed, Lamports, CreditFits
<1>2. /\ e1 \in PendingEffect /\ e1.do = "set_lamports" /\ e1.val \in Lamports
      /\ e2 \in PendingEffect /\ e2.do = "set_lamports" /\ e2.val \in Lamports
      /\ e3 \in PendingEffect /\ e3.do = "zero_init"
      /\ e4 \in PendingEffect /\ e4.do = "write_close_sentinel"
  BY <1>1, Numbers DEF SetLamports, ZeroInit, WriteCloseSentinel, Effect, PendingEffect, Gated
<1>3. Start("safe_close", a, dest, 0, s \o t)
  BY DEF SafeClose
<1> DEFINE Plain(e) == /\ e.do \in Gated \ {"zero_data", "write_header"}
                       /\ e.do = "set_lamports" => e.val \in Lamports
<1>5. Plain(e1) /\ Plain(e2) /\ Plain(e3) /\ Plain(e4)
  BY <1>2 DEF Gated
<1> HIDE DEF e1, e2, e3, e4, Plain
<1>6. /\ s \in Seq(PendingEffect) /\ Len(s) = 3
      /\ \A i \in 1 .. 3 : Plain(s[i])
  BY <1>2, <1>5
<1>7. /\ t \in Seq(PendingEffect) /\ Len(t) \in 0 .. 1
      /\ \A i \in 1 .. Len(t) : Plain(t[i])
  BY <1>2, <1>5
<1> HIDE DEF s, t
<1>8. /\ s \o t \in Seq(PendingEffect) /\ Len(s \o t) = Len(s) + Len(t)
      /\ \A i \in 1 .. Len(s) + Len(t) : (s \o t)[i] = IF i <= Len(s) THEN s[i] ELSE t[i - Len(s)]
  BY <1>6, <1>7, ConcatProperties
<1>9. s \o t # <<>> /\ \A i \in 1 .. Len(s \o t) : Plain((s \o t)[i])
  <2>1. s \o t # <<>>
    BY <1>6, <1>7, <1>8, EmptySeq
  <2>2. ASSUME NEW i \in 1 .. Len(s \o t) PROVE Plain((s \o t)[i])
    <3>1. CASE i <= 3
      BY <1>6, <1>7, <1>8, <3>1
    <3>2. CASE ~(i <= 3)
      <4>1. i - 3 \in 1 .. Len(t) /\ (s \o t)[i] = t[i - 3]
        BY <1>6, <1>7, <1>8, <3>2
      <4> QED BY <1>7, <4>1
    <3> QED BY <3>1, <3>2
  <2> QED BY <2>1, <2>2
<1> DEFINE effects == s \o t
<1>10. effects \in Seq(PendingEffect) /\ effects # <<>>
  BY <1>8, <1>9
<1>11. \A i \in 1 .. Len(effects) : Plain(effects[i])
  BY <1>9
<1> HIDE DEF effects
<1>12. Ready("safe_close", a, effects)
  BY <1>10, <1>11, ReadyGated DEF Plain
<1> QED BY <1>3, <1>12, StartKeeps DEF effects

\* What a realloc of hopper-core is going to do.
LEMMA ReallocList ==
  ASSUME MemoryInv, NEW a \in Account, NEW n \in Length, NEW payer \in Account,
         Deficit(a, LIVE_RENT[n]) > 0 => /\ lamports[payer] >= Deficit(a, LIVE_RENT[n])
                                         /\ CreditFits(a, Deficit(a, LIVE_RENT[n])),
         NEW s, s = ReallocEffects(a, n, payer)
  PROVE  /\ s \in Seq(PendingEffect) /\ Len(s) \in {1, 3}
         /\ s[1].do = "resize" /\ s[1].acct = a /\ s[1].val = n
         /\ \A i \in 2 .. Len(s) : s[i].do = "set_lamports" /\ s[i].val \in Lamports
         /\ Len(s) = 1 => Deficit(a, LIVE_RENT[n]) = 0
         /\ Len(s) = 3 => /\ s[2].acct = payer /\ s[2].val = lamports[payer] - Deficit(a, LIVE_RENT[n])
                          /\ s[3].acct = a /\ s[3].val = lamports[a] + Deficit(a, LIVE_RENT[n])
<1> DEFINE deficit == Deficit(a, LIVE_RENT[n])
           e1 == Resize(a, n)
           e2 == SetLamports(payer, lamports[payer] - deficit)
           e3 == SetLamports(a, lamports[a] + deficit)
<1>1. deficit \in Nat
  BY MemoryAssumption DEF Deficit, MemoryInv, Typed, Lamports
<1>2. e1 \in PendingEffect /\ e1.do = "resize" /\ e1.acct = a /\ e1.val = n
  BY Numbers DEF Resize, Effect, PendingEffect, Gated
<1>3. s = <<e1>> \o (IF deficit > 0 THEN <<e2, e3>> ELSE <<>>)
  BY DEF ReallocEffects
<1>4. CASE deficit > 0
  <2>1. lamports[payer] - deficit \in Lamports /\ lamports[a] + deficit \in Lamports
    BY <1>1, <1>4, Moved
  <2>2. /\ e2 \in PendingEffect /\ e2.do = "set_lamports" /\ e2.val \in Lamports
        /\ e2.acct = payer /\ e2.val = lamports[payer] - deficit
        /\ e3 \in PendingEffect /\ e3.do = "set_lamports" /\ e3.val \in Lamports
        /\ e3.acct = a /\ e3.val = lamports[a] + deficit
    BY <2>1, Numbers DEF SetLamports, Effect, PendingEffect, Gated
  <2> HIDE DEF e1, e2, e3
  <2>3. s = <<e1, e2, e3>>
    BY <1>2, <1>3, <1>4, <2>2, OneAndTwo
  <2>4. Len(s) = 3 /\ s[1] = e1 /\ s[2] = e2 /\ s[3] = e3
    BY <2>3
  <2> QED BY <1>2, <2>2, <2>3, <2>4
<1>5. CASE ~(deficit > 0)
  <2>0. deficit = 0
    BY <1>1, <1>5
  <2> HIDE DEF e1
  <2>1. <<e1>> \o <<>> = <<e1>>
    BY <1>2, ConcatEmptySeq
  <2>2. s = <<e1>>
    BY <1>3, <1>5, <2>1
  <2> QED BY <1>2, <2>0, <2>2
<1> QED BY <1>4, <1>5

LEMMA SafeReallocKeeps ==
  ASSUME MemoryInv, NEW a \in Account, NEW n \in Length, NEW min_size, NEW payer \in Account,
         NEW checked \in BOOLEAN, NEW signed \in BOOLEAN,
         SafeRealloc(a, n, min_size, payer, checked, signed)
  PROVE  MemoryInv'
<1> DEFINE s == ReallocEffects(a, n, payer)
<1>1. Start("safe_realloc", a, payer, LIVE_RENT[n], s) /\ Reallocable(a, n, payer, signed)
  BY DEF SafeRealloc
<1> HIDE DEF s
<1>2. /\ s \in Seq(PendingEffect) /\ Len(s) \in {1, 3}
      /\ s[1].do = "resize" /\ s[1].acct = a /\ s[1].val = n
      /\ \A i \in 2 .. Len(s) : s[i].do = "set_lamports" /\ s[i].val \in Lamports
  BY <1>1, ReallocList DEF s, Reallocable
<1>3. s # <<>>
  BY <1>2, EmptySeq
<1>4. \A i \in 1 .. Len(s) : /\ s[i].do \in Gated \ {"zero_data", "write_header"}
                             /\ s[i].do = "set_lamports" => s[i].val \in Lamports
  BY <1>2 DEF Gated
<1>5. Ready("safe_realloc", a, s)
  BY <1>2, <1>3, <1>4, ReadyGated
<1> QED BY <1>1, <1>5, StartKeeps

LEMMA MigrateAppendKeeps ==
  ASSUME MemoryInv, NEW a \in Account, NEW n \in Length, NEW payer \in Account,
         MigrateAppend(a, n, payer)
  PROVE  MemoryInv'
<1> DEFINE s == ReallocEffects(a, n, payer)
           h == WriteHeader(a, 2)
           effects == s \o <<h>>
<1>1. /\ Start("migrate_append", a, payer, LIVE_RENT[n], effects)
      /\ Reallocable(a, n, payer, TRUE) /\ len[a] > 0 /\ n > len[a]
  BY DEF MigrateAppend
<1>2. h \in PendingEffect /\ h.do = "write_header" /\ h.acct = a /\ h.val \in Byte
  BY Numbers DEF WriteHeader, Effect, PendingEffect, Gated
<1> HIDE DEF s, h
<1>3. /\ s \in Seq(PendingEffect) /\ Len(s) \in {1, 3}
      /\ s[1].do = "resize" /\ s[1].acct = a /\ s[1].val = n
      /\ \A i \in 2 .. Len(s) : s[i].do = "set_lamports" /\ s[i].val \in Lamports
  BY <1>1, ReallocList DEF s, Reallocable
<1>4. <<h>> \in Seq(PendingEffect) /\ Len(<<h>>) = 1 /\ <<h>>[1] = h
  BY <1>2
<1>5. /\ effects \in Seq(PendingEffect) /\ Len(effects) = Len(s) + 1
      /\ \A i \in 1 .. Len(s) + 1 : effects[i] = IF i <= Len(s) THEN s[i] ELSE <<h>>[i - Len(s)]
  BY <1>3, <1>4, ConcatProperties
<1> HIDE DEF effects
<1>6. effects # <<>>
  BY <1>3, <1>5, EmptySeq
<1>7. /\ \A i \in 1 .. Len(s) : effects[i] = s[i]
      /\ effects[Len(s) + 1] = h
  BY <1>3, <1>4, <1>5
<1>8. n \in Nat /\ len[a] \in Nat
  BY Numbers DEF MemoryInv, Typed
<1>9. \A i \in 1 .. Len(s) :
        \/ effects[i].do = "set_lamports" /\ effects[i].val \in Lamports
        \/ effects[i].do = "resize" /\ effects[i].val > 0
  BY <1>1, <1>3, <1>7, <1>8
<1>10. Fitting(effects, a)
  BY <1>2, <1>3, <1>5, <1>7, <1>9 DEF Fitting
<1>11. Authorized(effects)
  BY <1>1, <1>2, <1>3, <1>5, <1>7, <1>9 DEF Authorized, Gated
<1>12. Ready("migrate_append", a, effects)
  BY <1>5, <1>6, <1>10, <1>11 DEF Ready, Atomic
<1> QED BY <1>1, <1>12, StartKeeps

\* The two calls that store at once.
LEMMA ZeroBytesKeeps ==
  ASSUME MemoryInv, NEW a \in Account, NEW range, ZeroBytes(a, range)
  PROVE  MemoryInv'
<1> USE DEF ZeroBytes, Idle
<1>1. data' \in [Account -> [Offset -> Byte]]
  BY StoredBytes, Numbers DEF MemoryInv
<1>2. Typed' /\ Underway' /\ NeverPastReserve'
  BY <1>1 DEF MemoryInv, Typed, Underway, NeverPastReserve
<1>3. ASSUME NEW b \in Account, NEW i \in Visible(b)', i \in cut'[b] PROVE data'[b][i] = 0
  <2>1. i \in Visible(b) /\ i \in cut[b] /\ i \in Offset /\ data[b][i] = 0
    BY <1>3 DEF Visible, MemoryInv, NoStaleBytes
  <2> QED BY <2>1, StoredBytes, Numbers DEF MemoryInv
<1> QED BY <1>2, <1>3 DEF MemoryInv, NoStaleBytes

-----------------------------------------------------------------------------
(* Performing an effect *)

\* The effect whose turn it is.
LEMMA NextEffect ==
  ASSUME MemoryInv, todo # <<>>
  PROVE  /\ Next1 \in PendingEffect /\ Next1.acct \in Account /\ Next1.val \in Nat
         /\ call.acct \in Account
         /\ Next1.do \in {"set_lamports", "native_set_lamports"} => Next1.val \in Lamports
         /\ Next1.do = "write_header" => Next1.val \in Byte
         /\ Next1.do = "system_transfer" => /\ Next1.acct # call.acct
                                            /\ lamports[call.acct] + Next1.val <= U64_MAX
<1>1. Ready(call.op, call.acct, todo)
  BY DEF MemoryInv, Underway
<1>2. todo[1] \in PendingEffect /\ 1 \in 1 .. Len(todo)
  BY <1>1, HeadAndTail DEF Ready
<1> QED BY <1>1, <1>2 DEF Ready, Fitting, Next1, PendingEffect

\* What the call still has to do stays ready, whatever effect is performed: no
\* effect that changes a length comes before one that relies on it.
LEMMA AdvanceKeeps ==
  ASSUME MemoryInv, todo # <<>>, Advance, Typed',
         Next1.do \in {"set_lamports", "native_set_lamports", "system_transfer"} => len' = len,
         Next1.do = "resize" /\ Next1.val > 0 =>
           \A b \in Account : len[b] > 0 => len'[b] > 0
  PROVE  Underway'
<1>1. Ready(call.op, call.acct, todo)
  BY DEF MemoryInv, Underway
<1>2. /\ todo[1] \in PendingEffect /\ Len(todo) \in Nat /\ Len(todo) >= 1
      /\ Tail(todo) \in Seq(PendingEffect) /\ Len(Tail(todo)) = Len(todo) - 1
      /\ \A i \in 1 .. Len(todo) - 1 : Tail(todo)[i] = todo[i + 1]
      /\ (Tail(todo) = <<>>) <=> (Len(todo) = 1)
  BY <1>1, HeadAndTail DEF Ready
<1>3. todo' = Tail(todo) /\ entry' = entry /\ borrow' = borrow /\ gate' = gate
  BY DEF Advance
<1>4. CASE Len(todo) = 1
  BY <1>2, <1>3, <1>4 DEF Advance, Underway
<1>5. CASE Len(todo) # 1
  <2>1. call' = call /\ before' = before /\ todo' # <<>> /\ Len(todo') = Len(todo) - 1
    BY <1>2, <1>3, <1>5 DEF Advance
  <2>2. \A i \in 1 .. Len(todo') : todo'[i] = todo[i + 1] /\ i + 1 \in 2 .. Len(todo) /\ i + 1 \in 1 .. Len(todo)
    BY <1>2, <1>3, <2>1
  <2>3. Fitting(todo, call.acct)'
    BY <1>1, <2>1, <2>2 DEF Ready, Fitting
  <2>4. ASSUME call.op \in Atomic, NEW k \in 2 .. Len(todo), NEW e, e = todo[k]
        PROVE  Sure(e)'
    <3>1. Sure(e)
      BY <1>1, <2>4 DEF Ready, Preflighted
    <3>3. CASE e.do = "native_resize"
      <4>1. todo[1].do \in {"native_set_lamports", "system_transfer"}
        BY <1>1, <1>2, <2>4, <3>3 DEF Ready, Preflighted
      <4>2. len' = len
        BY <4>1 DEF Next1
      <4> QED BY <1>3, <3>1, <3>3, <4>2 DEF Sure, CheckResize, IsWritable, CheckBorrowMut
    <3>4. CASE e.do # "native_resize"
      BY <1>3, <3>1, <3>4 DEF Sure, LamportsAllowed
    <3> QED BY <3>3, <3>4
  <2>5. ASSUME call.op \in Atomic, NEW i \in 2 .. Len(todo')
        PROVE  /\ Sure(todo[i])'
               /\ todo'[i].do = "native_resize" =>
                    \A j \in 1 .. i - 1 : todo'[j].do \in {"native_set_lamports", "system_transfer"}
    <3>1. i \in 1 .. Len(todo') /\ i + 1 \in 2 .. Len(todo) /\ todo'[i] = todo[i + 1]
      BY <1>2, <2>1, <2>2, <2>5
    <3>2. PICK e : e = todo[i + 1]
      OBVIOUS
    <3>3. Sure(e)' /\ e = todo'[i]
      BY <2>4, <2>5, <3>1, <3>2
    <3>4. Sure(todo[i])'
      BY <3>3 DEF Sure
    <3>5. ASSUME todo'[i].do = "native_resize", NEW j \in 1 .. i - 1
          PROVE  todo'[j].do \in {"native_set_lamports", "system_transfer"}
      <4>1. todo[i + 1].do = "native_resize" /\ j + 1 \in 1 .. (i + 1) - 1 /\ j \in 1 .. Len(todo')
        BY <1>2, <2>1, <2>5, <3>1, <3>5
      <4>2. todo[j + 1].do \in {"native_set_lamports", "system_transfer"}
        BY <1>1, <2>5, <3>1, <4>1 DEF Ready, Preflighted
      <4> QED BY <2>2, <4>1, <4>2
    <3> QED BY <3>4, <3>5
  <2>6. call.op \in Atomic => Preflighted(todo)'
    BY <2>5 DEF Preflighted
  <2>7. call.op \in Atomic => Sure(todo[1])'
    <3> SUFFICES ASSUME call.op \in Atomic PROVE Sure(todo[1])'
      OBVIOUS
    <3>1. 2 \in 2 .. Len(todo) /\ todo'[1] = todo[2]
      BY <1>2, <1>5, <2>1, <2>2
    <3>2. PICK e : e = todo[2]
      OBVIOUS
    <3>3. Sure(e)' /\ e = todo'[1]
      BY <2>4, <3>1, <3>2
    <3> QED BY <3>3 DEF Sure
  <2>8. ASSUME call.op \notin Native, NEW i \in 1 .. Len(todo')
        PROVE  /\ todo'[i].do \in Gated
               /\ todo'[i].do = "zero_data" => gate'.body[todo'[i].acct] # {}
               /\ todo'[i].do = "write_header" =>
                    /\ len'[todo'[i].acct] > 0
                    /\ \A j \in 1 .. i - 1 : \/ todo'[j].do = "set_lamports"
                                             \/ todo'[j].do = "resize" /\ todo'[j].val > 0
    <3>1. i + 1 \in 1 .. Len(todo) /\ todo'[i] = todo[i + 1] /\ todo[i + 1].acct \in Account
      <4>1. i + 1 \in 1 .. Len(todo) /\ todo'[i] = todo[i + 1]
        BY <2>2, <2>8
      <4>2. todo[i + 1] \in PendingEffect
        BY <1>1, <4>1, ElementOfSeq DEF Ready
      <4> QED BY <4>1, <4>2 DEF PendingEffect
    <3>2. Authorized(todo)
      BY <1>1, <2>8 DEF Ready
    <3>3. ASSUME todo'[i].do = "write_header"
          PROVE  /\ len'[todo'[i].acct] > 0
                 /\ \A j \in 1 .. i - 1 : \/ todo'[j].do = "set_lamports"
                                          \/ todo'[j].do = "resize" /\ todo'[j].val > 0
      <4>0. (i + 1) - 1 = i /\ 1 \in 1 .. i
        BY <2>8
      <4>1. /\ len[todo[i + 1].acct] > 0
            /\ \A j \in 1 .. i : \/ todo[j].do = "set_lamports"
                                 \/ todo[j].do = "resize" /\ todo[j].val > 0
        BY <3>1, <3>2, <3>3, <4>0 DEF Authorized
      <4>2. len'[todo[i + 1].acct] > 0
        <5>1. todo[1].do = "set_lamports" \/ (todo[1].do = "resize" /\ todo[1].val > 0)
          BY <4>0, <4>1
        <5> QED BY <3>1, <4>1, <5>1 DEF Next1
      <4>3. \A j \in 1 .. i - 1 : j + 1 \in 1 .. i /\ j \in 1 .. Len(todo')
        BY <1>2, <2>1
      <4> QED BY <2>2, <3>1, <4>1, <4>2, <4>3
    <3> QED BY <1>3, <3>1, <3>2, <3>3 DEF Authorized
  <2>9. call.op \notin Native => Authorized(todo)'
    BY <2>8 DEF Authorized
  <2>10. Ready(call.op, call.acct, todo)'
    BY <1>1, <1>2, <1>3, <2>1, <2>3, <2>6, <2>9 DEF Ready
  <2> QED BY <2>1, <2>7, <2>10 DEF MemoryInv, Underway
<1> QED BY <1>4, <1>5

\* An effect that stores balances alone.
LEMMA BalancesKeep ==
  ASSUME MemoryInv, todo # <<>>, Advance, lamports' \in [Account -> Lamports],
         UNCHANGED <<len, owner, data, cut>>
  PROVE  MemoryInv'
<1>1. Typed'
  BY DEF Advance, MemoryInv, Typed
<1>2. Underway'
  BY <1>1, AdvanceKeeps
<1>3. NeverPastReserve' /\ NoStaleBytes'
  BY DEF Advance, MemoryInv, NeverPastReserve, NoStaleBytes, Visible
<1> QED BY <1>1, <1>2, <1>3 DEF MemoryInv

\* Each effect keeps the invariant.
LEMMA SetLamportsKeeps ==
  ASSUME MemoryInv, PerformSetLamports
  PROVE  MemoryInv'
<1>0. todo # <<>> /\ Next1.do \in {"set_lamports", "native_set_lamports"}
  BY DEF PerformSetLamports, Doing, Next1
<1>1. Next1.acct \in Account /\ Next1.val \in Lamports
  BY <1>0, NextEffect
<1>2. lamports' \in [Account -> Lamports]
  BY <1>1 DEF PerformSetLamports, MemoryInv, Typed
<1> QED BY <1>0, <1>2, BalancesKeep DEF PerformSetLamports

LEMMA SystemTransferKeeps ==
  ASSUME MemoryInv, PerformSystemTransfer
  PROVE  MemoryInv'
<1> DEFINE payer == Next1.acct
           x == Next1.val
           a == call.acct
<1>1. /\ todo # <<>> /\ payer \in Account /\ x \in Nat /\ a \in Account
      /\ payer # a /\ lamports[a] + x <= U64_MAX
  BY NextEffect DEF PerformSystemTransfer, Doing, Next1
<1>2. lamports[payer] >= x
  BY <1>1 DEF PerformSystemTransfer, Performable, Doing, Next1
<1>3. lamports \in [Account -> Lamports]
  BY DEF MemoryInv, Typed
<1>4. lamports' = [lamports EXCEPT ![payer] = @ - x, ![a] = @ + x]
  BY DEF PerformSystemTransfer
<1> HIDE DEF payer, x, a
<1>5. lamports[payer] - x \in Lamports /\ lamports[a] + x \in Lamports
  BY <1>1, <1>2, <1>3, MemoryAssumption DEF Lamports
<1>6. lamports' \in [Account -> Lamports]
  BY <1>1, <1>3, <1>4, <1>5
<1> QED BY <1>1, <1>6, BalancesKeep DEF PerformSystemTransfer

\* A resize stays inside the reserve, whatever the present length is.
LEMMA ResizeKeeps ==
  ASSUME MemoryInv, PerformResize
  PROVE  MemoryInv'
<1> DEFINE a == Next1.acct
           n == Next1.val
           raw == Next1.do = "resize_raw"
<1>1. todo # <<>> /\ a \in Account /\ n \in Nat
  BY NextEffect DEF PerformResize, Doing
<1>2. /\ data' = IF raw THEN data ELSE Stored(a, ZeroFill(a, n), 0)
      /\ len' = [len EXCEPT ![a] = n]
      /\ cut' = [cut EXCEPT ![a] = IF n < len[a] THEN @ \cup Between(n, len[a])
                                   ELSE IF raw THEN @ \ Between(len[a], n) ELSE @]
      /\ Advance /\ UNCHANGED <<lamports, owner>>
  BY DEF PerformResize
<1>3. n # len[a] => n <= entry[a].len + MAX_PERMITTED_DATA_INCREASE
  BY <1>1 DEF PerformResize, Performable, Doing, Next1, CheckResize
<1>4. Next1.do \in {"resize", "native_resize", "resize_raw"}
  BY DEF PerformResize, Doing, Next1
<1> HIDE DEF a, n, raw
<1>5. /\ len \in [Account -> Nat] /\ data \in [Account -> [Offset -> Byte]]
      /\ cut \in [Account -> SUBSET Offset]
  BY DEF MemoryInv, Typed
<1>6. Between(n, len[a]) \subseteq Offset
  BY DEF Between
<1>7. Typed'
  <2>1. data' \in [Account -> [Offset -> Byte]]
    BY <1>1, <1>2, <1>5, StoredBytes, Numbers DEF MemoryInv
  <2>2. cut' \in [Account -> SUBSET Offset]
    BY <1>1, <1>2, <1>5, <1>6
  <2>3. len' \in [Account -> Nat]
    BY <1>1, <1>2, <1>5
  <2> QED BY <1>2, <2>1, <2>2, <2>3 DEF Advance, MemoryInv, Typed
<1>8. Underway'
  <2>1. Next1.val > 0 => \A b \in Account : len[b] > 0 => len'[b] > 0
    BY <1>1, <1>2, <1>5 DEF n
  <2> QED BY <1>1, <1>2, <1>4, <1>7, <2>1, AdvanceKeeps
<1>9. NeverPastReserve'
  BY <1>1, <1>2, <1>3, <1>5 DEF Advance, MemoryInv, NeverPastReserve
<1>10. ASSUME NEW b \in Account, NEW i \in Visible(b)', i \in cut'[b] PROVE data'[b][i] = 0
  <2>1. i \in Offset /\ i \in Nat /\ i < len'[b]
    BY Numbers DEF Visible
  <2>2. CASE b # a
    <3>1. len'[b] = len[b] /\ cut'[b] = cut[b] /\ data'[b] = data[b]
      BY <1>1, <1>2, <1>5, <2>2, StoredBytes, Numbers DEF MemoryInv
    <3> QED BY <1>10, <2>1, <3>1 DEF MemoryInv, NoStaleBytes, Visible
  <2>3. CASE b = a /\ i < len[a]
    <3>1. i \notin Between(len[a], n) /\ i \notin Between(n, len[a])
      BY <1>1, <1>2, <1>5, <2>1, <2>3 DEF Between
    <3>2. i \in cut[a] /\ data[a][i] = 0
      BY <1>1, <1>2, <1>5, <1>10, <2>1, <2>3, <3>1 DEF MemoryInv, NoStaleBytes, Visible
    <3> QED BY <1>1, <1>2, <2>1, <2>3, <3>2, StoredBytes, Numbers DEF MemoryInv
  <2>4. CASE b = a /\ ~(i < len[a])
    <3>1. i \in Between(len[a], n) /\ ~(n < len[a])
      BY <1>1, <1>2, <1>5, <2>1, <2>4 DEF Between
    <3>2. ~raw
      BY <1>1, <1>2, <1>5, <1>10, <2>4, <3>1
    <3> QED BY <1>1, <1>2, <2>1, <2>4, <3>1, <3>2, StoredBytes, Numbers DEF MemoryInv, ZeroFill
  <2> QED BY <2>2, <2>3, <2>4
<1> QED BY <1>7, <1>8, <1>9, <1>10 DEF MemoryInv, NoStaleBytes

LEMMA CloseKeeps ==
  ASSUME MemoryInv, PerformClose
  PROVE  MemoryInv'
<1> DEFINE a == Next1.acct
<1>1. todo # <<>> /\ a \in Account /\ Next1.do \in {"close", "native_close"}
  BY NextEffect DEF PerformClose, Doing, Next1
<1>2. /\ lamports' = [lamports EXCEPT ![a] = 0]
      /\ data' = Stored(a, Visible(a), 0)
      /\ len' = [len EXCEPT ![a] = 0]
      /\ owner' = [owner EXCEPT ![a] = SYSTEM]
      /\ cut' = [cut EXCEPT ![a] = @ \cup Visible(a)]
      /\ Advance
  BY DEF PerformClose
<1> HIDE DEF a
<1>3. data' \in [Account -> [Offset -> Byte]]
  BY <1>1, <1>2, StoredBytes, Numbers DEF MemoryInv
<1>4. Visible(a) \subseteq Offset /\ 0 \in Lamports
  BY MemoryAssumption DEF Visible, Lamports
<1>5. Typed'
  BY <1>1, <1>2, <1>3, <1>4 DEF Advance, MemoryInv, Typed
<1>6. Underway'
  BY <1>1, <1>2, <1>5, AdvanceKeeps
<1>7. NeverPastReserve'
  <2>1. \A b \in Account : entry[b].len \in Nat
    BY EntryFields DEF MemoryInv
  <2> QED BY <1>1, <1>2, <2>1, MemoryAssumption DEF Advance, MemoryInv, Typed, NeverPastReserve
<1>8. ASSUME NEW b \in Account, NEW i \in Visible(b)', i \in cut'[b] PROVE data'[b][i] = 0
  <2>1. i \in Offset /\ i \in Nat /\ i < len'[b]
    BY Numbers DEF Visible
  <2>2. b # a
    BY <1>1, <1>2, <2>1 DEF MemoryInv, Typed
  <2>3. len'[b] = len[b] /\ cut'[b] = cut[b] /\ data'[b] = data[b]
    BY <1>1, <1>2, <2>2, StoredBytes, Numbers DEF MemoryInv, Typed
  <2> QED BY <1>8, <2>1, <2>3 DEF MemoryInv, NoStaleBytes, Visible
<1> QED BY <1>5, <1>6, <1>7, <1>8 DEF MemoryInv, NoStaleBytes

LEMMA ZeroKeeps ==
  ASSUME MemoryInv, PerformZero
  PROVE  MemoryInv'
<1> DEFINE a == Next1.acct
<1>1. todo # <<>> /\ a \in Account /\ Next1.do \in {"zero_data", "zero_init"}
  BY NextEffect DEF PerformZero, Doing, Next1
<1>2. data' = Stored(a, Visible(a), 0) /\ Advance /\ UNCHANGED <<lamports, len, owner, cut>>
  BY DEF PerformZero
<1> HIDE DEF a
<1>3. Typed'
  BY <1>1, <1>2, StoredBytes, Numbers DEF Advance, MemoryInv, Typed
<1>4. Underway'
  BY <1>1, <1>2, <1>3, AdvanceKeeps
<1>5. NeverPastReserve'
  BY <1>2 DEF Advance, MemoryInv, NeverPastReserve
<1>6. ASSUME NEW b \in Account, NEW i \in Visible(b)', i \in cut'[b] PROVE data'[b][i] = 0
  <2>1. i \in Offset /\ i \in Visible(b) /\ i \in cut[b] /\ data[b][i] = 0
    BY <1>2, <1>6 DEF Visible, MemoryInv, NoStaleBytes
  <2> QED BY <1>1, <1>2, <2>1, StoredBytes, Numbers DEF MemoryInv
<1> QED BY <1>3, <1>4, <1>5, <1>6 DEF MemoryInv, NoStaleBytes

LEMMA SentinelKeeps ==
  ASSUME MemoryInv, PerformSentinel
  PROVE  MemoryInv'
<1> DEFINE a == Next1.acct
           first == Visible(a) \cap {0}
<1>1. todo # <<>> /\ a \in Account /\ Next1.do = "write_close_sentinel"
  BY NextEffect DEF PerformSentinel, Doing, Next1
<1>2. /\ data' = Stored(a, first, CLOSE_SENTINEL) /\ cut' = [cut EXCEPT ![a] = @ \ first]
      /\ Advance /\ UNCHANGED <<lamports, len, owner>>
  BY DEF PerformSentinel
<1> HIDE DEF a, first
<1>3. Typed'
  BY <1>1, <1>2, StoredBytes, Numbers DEF Advance, MemoryInv, Typed
<1>4. Underway'
  BY <1>1, <1>2, <1>3, AdvanceKeeps
<1>5. NeverPastReserve'
  BY <1>2 DEF Advance, MemoryInv, NeverPastReserve
<1>6. ASSUME NEW b \in Account, NEW i \in Visible(b)', i \in cut'[b] PROVE data'[b][i] = 0
  <2>1. i \in Offset /\ i \in Visible(b) /\ i \in cut[b] /\ (b = a => i \notin first)
    BY <1>1, <1>2, <1>6 DEF Visible, MemoryInv, Typed
  <2>2. data[b][i] = 0
    BY <2>1 DEF MemoryInv, NoStaleBytes
  <2> QED BY <1>1, <1>2, <2>1, <2>2, StoredBytes, Numbers DEF MemoryInv
<1> QED BY <1>3, <1>4, <1>5, <1>6 DEF MemoryInv, NoStaleBytes

LEMMA HeaderKeeps ==
  ASSUME MemoryInv, PerformHeader
  PROVE  MemoryInv'
<1> DEFINE a == Next1.acct
           x == Next1.val
           tail == Between(before.len[a], len[a])
<1>1. todo # <<>> /\ a \in Account /\ x \in Byte /\ Next1.do = "write_header"
  BY NextEffect DEF PerformHeader, Doing, Next1
<1>2. /\ data' = [data EXCEPT ![a] = [i \in Offset |-> IF i = 0 THEN x
                                        ELSE IF i \in tail THEN 0 ELSE @[i]]]
      /\ cut' = [cut EXCEPT ![a] = @ \ {0}]
      /\ Advance /\ UNCHANGED <<lamports, len, owner>>
  BY DEF PerformHeader
<1> HIDE DEF a, x, tail
<1>3. /\ data \in [Account -> [Offset -> Byte]] /\ cut \in [Account -> SUBSET Offset]
      /\ len \in [Account -> Nat]
  BY DEF MemoryInv, Typed
<1>4. /\ data' \in [Account -> [Offset -> Byte]]
      /\ \A b \in Account : b # a => data'[b] = data[b]
      /\ \A i \in Offset : data'[a][i] = IF i = 0 THEN x ELSE IF i \in tail THEN 0 ELSE data[a][i]
  BY <1>1, <1>2, <1>3, Numbers
<1>5. Typed'
  BY <1>1, <1>2, <1>4 DEF Advance, MemoryInv, Typed
<1>6. Underway'
  BY <1>1, <1>2, <1>5, AdvanceKeeps
<1>7. NeverPastReserve'
  BY <1>2 DEF Advance, MemoryInv, NeverPastReserve
<1>8. ASSUME NEW b \in Account, NEW i \in Visible(b)', i \in cut'[b] PROVE data'[b][i] = 0
  <2>1. i \in Offset /\ i \in Visible(b) /\ i \in cut[b] /\ (b = a => i # 0)
    BY <1>1, <1>2, <1>3, <1>8 DEF Visible
  <2>2. data[b][i] = 0
    BY <2>1 DEF MemoryInv, NoStaleBytes
  <2> QED BY <1>4, <2>1, <2>2
<1> QED BY <1>5, <1>6, <1>7, <1>8 DEF MemoryInv, NoStaleBytes

\* A refused effect changes no account.
LEMMA FailKeeps ==
  ASSUME MemoryInv, Fail
  PROVE  MemoryInv'
BY DEF Fail, accounts, MemoryInv, Typed, Underway, NeverPastReserve, NoStaleBytes, Visible

-----------------------------------------------------------------------------
(* Between calls *)

\* What the handler does between calls keeps the invariant.
LEMMA HandlerKeeps ==
  ASSUME MemoryInv, Handler
  PROVE  MemoryInv'
<1>1. ASSUME NEW a \in Account, NEW kind \in {"free", "shared", "exclusive"}, Borrowed(a, kind)
      PROVE  MemoryInv'
  BY <1>1 DEF Borrowed, Idle, accounts, MemoryInv, Typed, Underway, NeverPastReserve, NoStaleBytes, Visible
<1>2. ASSUME NEW a \in Account, NEW i \in Offset, WriteThrough(a, i, 1)
      PROVE  MemoryInv'
  <2> USE <1>2 DEF WriteThrough, Idle
  <2>1. Typed' /\ Underway' /\ NeverPastReserve'
    BY StoredBytes, Numbers DEF MemoryInv, Typed, Underway, NeverPastReserve
  <2>2. ASSUME NEW b \in Account, NEW j \in Visible(b)', j \in cut'[b] PROVE data'[b][j] = 0
    <3>1. j \in Offset /\ j \in Visible(b) /\ j \in cut[b] /\ (b = a => j # i)
      BY <2>2 DEF Visible, MemoryInv, Typed
    <3>2. data[b][j] = 0
      BY <3>1 DEF MemoryInv, NoStaleBytes
    <3> QED BY <3>1, <3>2, StoredBytes, Numbers DEF MemoryInv
  <2> QED BY <2>1, <2>2 DEF MemoryInv, NoStaleBytes
<1>3. ASSUME ChangeGate PROVE MemoryInv'
  BY <1>3 DEF ChangeGate, Idle, accounts, MemoryInv, Typed, Underway, NeverPastReserve, NoStaleBytes, Visible
<1> QED BY <1>1, <1>2, <1>3, MemoryAssumption DEF Handler, TryBorrow, TryBorrowMut, DropBorrow

-----------------------------------------------------------------------------
(* The invariant *)

\* The invariant holds of the accounts as the loader maps them.
THEOREM InitMemory == Init => MemoryInv
<1> SUFFICES ASSUME Init PROVE MemoryInv
  OBVIOUS
<1>1. entry \in [Account -> Mapped]
  BY MemoryAssumption DEF Init
<1>2. \A a \in Account : /\ entry[a].lamports \in Lamports /\ entry[a].owner \in {PROGRAM, SYSTEM}
                         /\ entry[a].len \in Nat
  BY <1>1, MemoryAssumption DEF Mapped
<1>3. Typed
  BY <1>2, Numbers DEF Init, Typed
<1>4. Underway
  BY DEF Init, Underway
<1>5. NeverPastReserve
  <2>1. ASSUME NEW a \in Account PROVE len[a] <= entry[a].len + MAX_PERMITTED_DATA_INCREASE
    <3>1. len[a] = entry[a].len
      BY DEF Init
    <3> QED BY <1>2, <3>1, MemoryAssumption
  <2> QED BY <2>1 DEF NeverPastReserve
<1>6. NoStaleBytes
  BY DEF Init, NoStaleBytes
<1> QED BY <1>3, <1>4, <1>5, <1>6 DEF MemoryInv

\* Every call keeps the invariant when it starts.
LEMMA CallsKeep ==
  ASSUME MemoryInv, Calls
  PROVE  MemoryInv'
<1> USE MemoryAssumption
<1>1. ASSUME NEW a \in Account, NEW x \in Amount, TrySetLamports(a, x) PROVE MemoryInv'
  <2>1. x \in Nat /\ 0 \in Length
    BY Numbers DEF Length, Capacity
  <2> QED BY <1>1, <2>1, SingleEffectCalls
<1>2. ASSUME NEW a \in Account, NEW b \in Account, NEW x \in Amount,
             TransferLamports(a, b, x) \/ NativeTransfer(a, b, x)
      PROVE  MemoryInv'
  BY <1>2, TransferLamportsKeeps, NativeTransferKeeps
<1>3. ASSUME NEW a \in Account, NEW n \in Length,
             CallClose(a) \/ ZeroAccountData(a) \/ CallResize(a, n) \/ CallResizeRaw(a, n)
      PROVE  MemoryInv'
  BY <1>3, SingleEffectCalls
<1>4. ASSUME NEW a \in Account, NEW n, NEW m, ZeroAppended(a, n) \/ ZeroRange(a, n, m)
      PROVE  MemoryInv'
  BY <1>4, ZeroBytesKeeps DEF ZeroAppended, ZeroRange
<1>5. ASSUME NEW a \in Account, NEW dest \in Account, NEW checked \in BOOLEAN, NEW sentinel \in BOOLEAN,
             CloseTo(a, dest, checked) \/ CloseAndTransfer(a, dest) \/ SafeClose(a, dest, checked, sentinel)
      PROVE  MemoryInv'
  BY <1>5, CloseToKeeps, CloseAndTransferKeeps, SafeCloseKeeps
<1>6. ASSUME NEW a \in Account, NEW n \in Length, NEW payer \in Account \cup {NoAccount},
             NEW rent \in {LAUNCH_RENT, LIVE_RENT}, ReallocChecked(a, n, payer, rent)
      PROVE  MemoryInv'
  BY <1>6, ReallocCheckedKeeps
<1>7. ASSUME NEW a \in Account, NEW n \in Length, NEW payer \in Account, NEW min_size,
             NEW checked \in BOOLEAN, NEW signed \in BOOLEAN,
             \/ ResizeWithPayer(a, n, payer) \/ MigrateAppend(a, n, payer)
             \/ SafeRealloc(a, n, min_size, payer, checked, signed)
      PROVE  MemoryInv'
  BY <1>7, ResizeWithPayerKeeps, MigrateAppendKeeps, SafeReallocKeeps
<1>8. 0 \in Length
  BY Numbers DEF Length
<1>9. ASSUME NEW a \in Account, NEW n \in Length,
             CallClose(a) \/ ZeroAccountData(a) \/ CallResize(a, n) \/ CallResizeRaw(a, n) \/ ZeroAppended(a, n)
      PROVE  MemoryInv'
  BY <1>3, <1>4, <1>9
<1>10. CASE \E a \in Account, x \in Amount : TrySetLamports(a, x)
  BY <1>1, <1>10
<1>11. CASE \E a, b \in Account, x \in Amount : TransferLamports(a, b, x) \/ NativeTransfer(a, b, x)
  BY <1>2, <1>11
<1>12. ASSUME NEW a \in Stateful, CallClose(a) \/ ZeroAccountData(a) PROVE MemoryInv'
  BY <1>8, <1>9, <1>12
<1>13. ASSUME NEW a \in Stateful, NEW n \in Length,
              CallResize(a, n) \/ CallResizeRaw(a, n) \/ ZeroAppended(a, n)
       PROVE  MemoryInv'
  BY <1>9, <1>13
<1>14. ASSUME NEW a \in Stateful, NEW n \in Length, NEW m \in Length, ZeroRange(a, n, m)
       PROVE  MemoryInv'
  BY <1>4, <1>14
<1>15. ASSUME NEW a \in Stateful, NEW dest \in Account, NEW checked \in BOOLEAN,
              CloseTo(a, dest, checked) \/ CloseAndTransfer(a, dest)
       PROVE  MemoryInv'
  BY <1>5, <1>15
<1>16. ASSUME NEW a \in Stateful, NEW n \in Length, NEW payer \in Account,
              ResizeWithPayer(a, n, payer) \/ MigrateAppend(a, n, payer)
       PROVE  MemoryInv'
  BY <1>7, <1>16
<1>17. ASSUME NEW a \in Stateful, NEW n \in Length, NEW payer \in Account, NEW min_size \in {0, 1},
              NEW checked \in BOOLEAN, NEW signed \in BOOLEAN,
              SafeRealloc(a, n, min_size, payer, checked, signed)
       PROVE  MemoryInv'
  BY <1>7, <1>17
<1> QED BY <1>5, <1>6, <1>10, <1>11, <1>12, <1>13, <1>14, <1>15, <1>16, <1>17 DEF Calls

\* Every step keeps the invariant.
THEOREM NextMemory == MemoryInv /\ [Next]_vars => MemoryInv'
<1> SUFFICES ASSUME MemoryInv, [Next]_vars PROVE MemoryInv'
  OBVIOUS
<1>1. CASE Calls
  BY <1>1, CallsKeep
<1>2. CASE Effects
  BY <1>2, SetLamportsKeeps, SystemTransferKeeps, ResizeKeeps, CloseKeeps, ZeroKeeps,
     SentinelKeeps, HeaderKeeps, FailKeeps DEF Effects
<1>3. CASE Handler
  BY <1>3, HandlerKeeps
<1>4. CASE UNCHANGED vars
  <2> USE <1>4 DEF vars, accounts
  <2>1. Typed' /\ NeverPastReserve' /\ NoStaleBytes'
    BY DEF MemoryInv, Typed, NeverPastReserve, NoStaleBytes, Visible
  <2>2. Underway'
    BY DEF MemoryInv, Underway, Ready, Fitting, Preflighted, Authorized, Sure, Unchanged,
           LamportsAllowed, CheckResize, IsWritable, CheckBorrowMut
  <2> QED BY <2>1, <2>2 DEF MemoryInv
<1> QED BY <1>1, <1>2, <1>3, <1>4 DEF Next

\* The invariant holds throughout an instruction.
THEOREM MemoryInvariant == Spec => []MemoryInv
BY InitMemory, NextMemory, PTL DEF Spec

-----------------------------------------------------------------------------
(* What follows from it *)

\* However often an instruction grows, shrinks and closes an account, its data
\* stays inside the reserve behind it (check_resize).
THEOREM StaysInsideReserve == Spec => []NeverPastReserve
<1>1. MemoryInv => NeverPastReserve
  BY DEF MemoryInv
<1> QED BY <1>1, MemoryInvariant, PTL

\* A byte a shrink cut off comes back zeroed, in every layer (AccountView::resize).
THEOREM StaleBytesStayHidden == Spec => []NoStaleBytes
<1>1. MemoryInv => NoStaleBytes
  BY DEF MemoryInv
<1> QED BY <1>1, MemoryInvariant, PTL

\* Every variable keeps its type: no balance a call computes exceeds a u64, no
\* length the bytes the loader reserved.
THEOREM TypeCorrect == Spec => []TypeOK
<1>1. MemoryInv => TypeOK
  <2> SUFFICES ASSUME MemoryInv PROVE TypeOK
    OBVIOUS
  <2>1. len \in [Account -> Length]
    <3>1. ASSUME NEW a \in Account PROVE len[a] \in Length
      <4>1. len[a] \in Nat /\ entry[a].len \in Nat /\ entry[a].len <= MaxLen
            /\ len[a] <= entry[a].len + MAX_PERMITTED_DATA_INCREASE
        BY EntryFields DEF MemoryInv, Typed, NeverPastReserve
      <4> QED BY <4>1, MemoryAssumption DEF Length, Capacity
    <3> QED BY <3>1 DEF MemoryInv, Typed
  <2>2. (todo = <<>>) <=> (call = Nothing)
    BY DEF MemoryInv, Underway, Ready, Nothing
  <2>3. (todo = <<>>) <=> (before = Nothing)
    BY DEF MemoryInv, Underway
  <2> QED BY <2>1, <2>2, <2>3 DEF MemoryInv, Typed, TypeOK
<1> QED BY <1>1, MemoryInvariant, PTL

\* An effect that is sure is one that is performed.
LEMMA SureIsPerformable ==
  ASSUME NEW e, Sure(e)
  PROVE  Performable(e)
BY DEF Sure, Performable

\* A call starts when none is under way, and its start changes no account but for
\* the two calls that zero a range at once.
LEMMA CallsStartIdle ==
  ASSUME Calls
  PROVE  Idle /\ (UNCHANGED accounts \/ \E a \in Account : \E range : ZeroBytes(a, range))
<1> DEFINE Goal == Idle /\ (UNCHANGED accounts \/ \E a \in Account : \E range : ZeroBytes(a, range))
<1>1. ASSUME NEW a, NEW b, NEW x, \/ TrySetLamports(a, x) \/ TransferLamports(a, b, x)
                                  \/ NativeTransfer(a, b, x)
      PROVE  Goal
  BY <1>1 DEF TrySetLamports, TransferLamports, NativeTransfer, Start
<1>2. ASSUME NEW a, NEW n, \/ CallClose(a) \/ ZeroAccountData(a) \/ CallResize(a, n)
                           \/ CallResizeRaw(a, n)
      PROVE  Goal
  BY <1>2 DEF CallClose, ZeroAccountData, CallResize, CallResizeRaw, Start
<1>3. ASSUME NEW a \in Account, NEW n, NEW m, ZeroAppended(a, n) \/ ZeroRange(a, n, m)
      PROVE  Goal
  <2>1. PICK range : ZeroBytes(a, range)
    BY <1>3 DEF ZeroAppended, ZeroRange
  <2> QED BY <2>1 DEF ZeroBytes
<1>4. ASSUME NEW a, NEW dest, NEW checked, NEW sentinel,
             \/ CloseTo(a, dest, checked) \/ CloseAndTransfer(a, dest)
             \/ SafeClose(a, dest, checked, sentinel)
      PROVE  Goal
  BY <1>4 DEF CloseTo, CloseAndTransfer, SafeClose, Start
<1>5. ASSUME NEW a, NEW n, NEW payer, NEW rent, NEW min_size, NEW checked, NEW signed,
             \/ ReallocChecked(a, n, payer, rent) \/ ResizeWithPayer(a, n, payer)
             \/ MigrateAppend(a, n, payer)
             \/ SafeRealloc(a, n, min_size, payer, checked, signed)
      PROVE  Goal
  BY <1>5 DEF ReallocChecked, ResizeWithPayer, MigrateAppend, SafeRealloc, Start
<1> HIDE DEF Goal
<1>6. Goal
  BY <1>1, <1>2, <1>3, <1>4, <1>5, MemoryAssumption DEF Calls
<1> QED BY <1>6 DEF Goal

\* A call documented to refuse before anything changes leaves everything as it
\* was when it fails: all that could refuse a later effect was asked for first.
THEOREM CallsAreAtomic == Spec => AllOrNothing
<1>1. MemoryInv /\ [Next]_vars =>
        [Failed({"try_set_lamports", "resize", "resize_raw", "close", "close_to",
             "transfer_lamports", "native_transfer", "close_and_transfer",
             "realloc_checked", "resize_with_payer", "zero_account_data"}) => Untouched]_vars
  <2> SUFFICES ASSUME MemoryInv, [Next]_vars, Finished, ~Performable(todo[1]), call.op \in Atomic
               PROVE  Untouched
    BY DEF Failed, Atomic
  <2>1. Unchanged
    BY SureIsPerformable DEF Finished, MemoryInv, Underway
  <2>2. UNCHANGED accounts
    <3>1. CASE Calls
      BY <3>1, CallsStartIdle DEF Finished, Idle
    <3>2. CASE Effects
      BY <3>2 DEF Effects, PerformSetLamports, PerformSystemTransfer, PerformResize, PerformClose,
         PerformZero, PerformSentinel, PerformHeader, Fail, Next1
    <3>3. CASE Handler
      BY <3>3 DEF Finished, Handler, TryBorrow, TryBorrowMut, DropBorrow, Borrowed, WriteThrough,
         ChangeGate, Idle
    <3>4. CASE UNCHANGED vars
      BY <3>4 DEF Finished, vars
    <3> QED BY <3>1, <3>2, <3>3, <3>4 DEF Next
  <2> QED BY <2>1, <2>2 DEF Unchanged, Untouched, accounts
<1> QED BY <1>1, MemoryInvariant, PTL DEF Spec, AllOrNothing

\* What an effect does to the data and the length of an account that is not free.
LEMMA EffectsSpareBorrowed ==
  ASSUME MemoryInv, Effects, NEW b \in Account, borrow[b] # "free"
  PROVE  len'[b] = len[b] /\ data'[b] = data[b]
<1> DEFINE a == Next1.acct
           n == Next1.val
<1>1. /\ len \in [Account -> Nat] /\ data \in [Account -> [Offset -> Byte]]
      /\ todo # <<>> /\ a \in Account /\ n \in Nat
  BY NextEffect DEF MemoryInv, Typed, Effects, PerformSetLamports, PerformSystemTransfer, PerformResize,
     PerformClose, PerformZero, PerformSentinel, PerformHeader, Fail, Doing
<1>2. CASE PerformSetLamports \/ PerformSystemTransfer \/ Fail
  BY <1>2 DEF PerformSetLamports, PerformSystemTransfer, Fail, accounts
<1>3. CASE PerformResize
  <2>1. /\ data' = data \/ data' = Stored(a, ZeroFill(a, n), 0)
        /\ len' = [len EXCEPT ![a] = n]
    BY <1>3 DEF PerformResize
  <2>2. n = len[a] \/ borrow[a] = "free"
    BY <1>3, <1>1 DEF PerformResize, Performable, Doing, Next1, CheckResize, CheckBorrowMut
  <2> HIDE DEF a, n
  <2>3. CASE b # a
    BY <1>1, <2>1, <2>3, StoredBytes, Numbers DEF MemoryInv
  <2>4. CASE b = a
    <3>1. n = len[a] /\ ZeroFill(a, n) = {}
      BY <1>1, <2>2, <2>4, Numbers DEF ZeroFill, Between
    <3>2. data' = data
      BY <1>1, <2>1, <3>1, NothingStored, Numbers DEF MemoryInv
    <3> QED BY <1>1, <2>1, <2>4, <3>1, <3>2
  <2> QED BY <2>3, <2>4
<1>4. CASE PerformClose
  <2>1. data' = Stored(a, Visible(a), 0) /\ len' = [len EXCEPT ![a] = 0]
    BY <1>4 DEF PerformClose
  <2>2. borrow[a] = "free"
    BY <1>4 DEF PerformClose, Performable, Doing, Next1, CheckBorrowMut
  <2> QED BY <1>1, <2>1, <2>2, StoredBytes, Numbers DEF MemoryInv
<1>5. CASE PerformZero
  <2>1. data' = Stored(a, Visible(a), 0) /\ len' = len
    BY <1>5 DEF PerformZero
  <2>2. borrow[a] = "free"
    BY <1>5 DEF PerformZero, Performable, Doing, Next1, CheckBorrowMut, WholeBorrowAllowed
  <2> QED BY <1>1, <2>1, <2>2, StoredBytes, Numbers DEF MemoryInv
<1>6. CASE PerformSentinel
  <2>1. data' = Stored(a, Visible(a) \cap {0}, CLOSE_SENTINEL) /\ len' = len
    BY <1>6 DEF PerformSentinel
  <2>2. borrow[a] = "free"
    BY <1>6 DEF PerformSentinel, Performable, Doing, Next1, CheckBorrowMut, WholeBorrowAllowed
  <2> QED BY <1>1, <2>1, <2>2, StoredBytes, Numbers DEF MemoryInv
<1>7. CASE PerformHeader
  <2>1. borrow[a] = "free" /\ len' = len
    BY <1>7 DEF PerformHeader, Performable, Doing, Next1, CheckBorrowMut, WholeBorrowAllowed
  <2>2. \E bytes : data' = [data EXCEPT ![a] = bytes]
    BY <1>7 DEF PerformHeader
  <2> QED BY <1>1, <2>1, <2>2
<1> QED BY <1>2, <1>3, <1>4, <1>5, <1>6, <1>7 DEF Effects

\* No call, of any layer, changes the length or the bytes of an account whose
\* data is borrowed: every path asks the borrow state itself.
THEOREM BorrowsAreUndisturbed == Spec => ViewsUndisturbed
<1>1. MemoryInv /\ [Next]_vars =>
        [\A a \in Account :
           (borrow[a] # "free" /\ borrow'[a] # "free") =>
             /\ len'[a] = len[a]
             /\ data'[a] = data[a] \/ (borrow[a] = "exclusive" /\ todo = <<>>)]_vars
  <2> SUFFICES ASSUME MemoryInv, [Next]_vars, NEW b \in Account, borrow[b] # "free"
               PROVE  /\ len'[b] = len[b]
                      /\ data'[b] = data[b] \/ (borrow[b] = "exclusive" /\ todo = <<>>)
    OBVIOUS
  <2>1. CASE Calls
    <3>1. UNCHANGED accounts \/ \E a \in Account : \E range : ZeroBytes(a, range)
      BY <2>1, CallsStartIdle
    <3>2. ASSUME NEW a \in Account, NEW range, ZeroBytes(a, range)
          PROVE  len' = len /\ data'[b] = data[b]
      BY <3>2, StoredBytes, Numbers DEF ZeroBytes, CheckBorrowMut, MemoryInv
    <3> QED BY <3>1, <3>2 DEF accounts
  <2>2. CASE Effects
    BY <2>2, EffectsSpareBorrowed
  <2>3. CASE Handler
    <3>1. ASSUME NEW a \in Stateful, NEW i \in Offset, WriteThrough(a, i, 1)
          PROVE  /\ len' = len
                 /\ data'[b] = data[b] \/ (borrow[b] = "exclusive" /\ todo = <<>>)
      BY <3>1, StoredBytes, Numbers, MemoryAssumption DEF WriteThrough, Idle, MemoryInv
    <3> QED BY <2>3, <3>1 DEF Handler, TryBorrow, TryBorrowMut, DropBorrow, Borrowed, ChangeGate, accounts
  <2>4. CASE UNCHANGED vars
    BY <2>4 DEF vars, accounts
  <2> QED BY <2>1, <2>2, <2>3, <2>4 DEF Next
<1> QED BY <1>1, MemoryInvariant, PTL DEF Spec, ViewsUndisturbed

\* What an effect of a call of the upper layers does to an account its gate
\* names no balance of, or gives no byte of.
LEMMA EffectsAreAuthorized ==
  ASSUME MemoryInv, Effects, call.op \notin Native, NEW b \in Account
  PROVE  /\ b \notin gate.lamports => lamports'[b] = lamports[b]
         /\ gate.body[b] = {} => len'[b] = len[b] /\ owner'[b] = owner[b] /\ data'[b] = data[b]
<1> DEFINE a == Next1.acct
<1>1. /\ len \in [Account -> Nat] /\ data \in [Account -> [Offset -> Byte]]
      /\ lamports \in [Account -> Lamports] /\ owner \in [Account -> {PROGRAM, SYSTEM}]
      /\ todo # <<>> /\ a \in Account
  BY NextEffect DEF MemoryInv, Typed, Effects, PerformSetLamports, PerformSystemTransfer, PerformResize,
     PerformClose, PerformZero, PerformSentinel, PerformHeader, Fail, Doing
<1>2. /\ Next1.do \in Gated
      /\ Next1.do = "zero_data" => gate.body[a] # {}
      /\ Next1.do = "write_header" => len[a] > 0
  <2>1. Ready(call.op, call.acct, todo)
    BY <1>1 DEF MemoryInv, Underway
  <2>2. 1 \in 1 .. Len(todo)
    BY <1>1, <2>1, HeadAndTail DEF Ready
  <2> QED BY <2>1, <2>2 DEF Ready, Authorized, Next1
<1>3. ASSUME WholeBorrowAllowed(a), gate.body[a] = {} PROVE Visible(a) = {} /\ len[a] = 0
  <2>1. Visible(a) = {}
    BY <1>3 DEF WholeBorrowAllowed, DataAllowed
  <2> QED BY <1>1, <2>1, Numbers DEF Visible
<1>4. CASE PerformSetLamports
  <2>1. a \in gate.lamports
    BY <1>2, <1>4 DEF PerformSetLamports, Performable, Doing, Next1, LamportsAllowed, Gated
  <2> QED BY <1>1, <1>4, <2>1 DEF PerformSetLamports
<1>5. CASE PerformSystemTransfer
  BY <1>2, <1>5 DEF PerformSystemTransfer, Doing, Next1, Gated
<1>6. CASE PerformResize
  <2>1. gate.body[a] # {}
    BY <1>2, <1>6 DEF PerformResize, Performable, Doing, Next1, TransitionAllowed, Gated
  <2>2. /\ data' = data \/ data' = Stored(a, ZeroFill(a, Next1.val), 0)
        /\ len' = [len EXCEPT ![a] = Next1.val] /\ UNCHANGED <<lamports, owner>>
    BY <1>6 DEF PerformResize
  <2> QED BY <1>1, <2>1, <2>2, StoredBytes, Numbers DEF MemoryInv
<1>7. CASE PerformClose
  <2>1. gate.body[a] # {} /\ a \in gate.lamports
    BY <1>2, <1>7 DEF PerformClose, Performable, Doing, Next1, TransitionAllowed, LamportsAllowed, Gated
  <2>2. /\ lamports' = [lamports EXCEPT ![a] = 0] /\ data' = Stored(a, Visible(a), 0)
        /\ len' = [len EXCEPT ![a] = 0] /\ owner' = [owner EXCEPT ![a] = SYSTEM]
    BY <1>7 DEF PerformClose
  <2> QED BY <1>1, <2>1, <2>2, StoredBytes, Numbers DEF MemoryInv
<1>8. CASE PerformZero
  <2>1. data' = Stored(a, Visible(a), 0) /\ UNCHANGED <<lamports, len, owner>>
    BY <1>8 DEF PerformZero
  <2>2. gate.body[a] = {} => Visible(a) = {}
    BY <1>2, <1>3, <1>8 DEF PerformZero, Performable, Doing, Next1
  <2>3. CASE gate.body[a] = {}
    BY <2>1, <2>2, <2>3, NothingStored, Numbers, <1>1 DEF MemoryInv
  <2>4. CASE gate.body[a] # {}
    BY <1>1, <2>1, <2>4, StoredBytes, Numbers DEF MemoryInv
  <2> QED BY <2>3, <2>4
<1>9. CASE PerformSentinel
  <2>1. /\ data' = Stored(a, Visible(a) \cap {0}, CLOSE_SENTINEL)
        /\ UNCHANGED <<lamports, len, owner>>
    BY <1>9 DEF PerformSentinel
  <2>2. gate.body[a] = {} => Visible(a) \cap {0} = {}
    BY <1>3, <1>9 DEF PerformSentinel, Performable, Doing, Next1
  <2>3. CASE gate.body[a] = {}
    BY <2>1, <2>2, <2>3, NothingStored, Numbers, <1>1 DEF MemoryInv
  <2>4. CASE gate.body[a] # {}
    BY <1>1, <2>1, <2>4, StoredBytes, Numbers DEF MemoryInv
  <2> QED BY <2>3, <2>4
<1>10. CASE PerformHeader
  <2>1. gate.body[a] # {}
    BY <1>1, <1>2, <1>3, <1>10 DEF PerformHeader, Performable, Doing, Next1
  <2>2. (\E bytes : data' = [data EXCEPT ![a] = bytes]) /\ UNCHANGED <<lamports, len, owner>>
    BY <1>10 DEF PerformHeader
  <2> QED BY <1>1, <2>1, <2>2
<1>11. CASE Fail
  BY <1>11 DEF Fail, accounts
<1> QED BY <1>4, <1>5, <1>6, <1>7, <1>8, <1>9, <1>10, <1>11 DEF Effects

\* Under a gate no call of hopper-runtime or hopper-core changes a balance the
\* policy does not name or an account it gives no byte of, the effects that ask
\* no gate themselves included.
THEOREM NothingUndeclared == Spec => UndeclaredUntouched
<1>1. MemoryInv /\ [Next]_vars =>
        [(call # Nothing /\ call.op \notin Native) =>
           \A a \in Account :
             /\ a \notin gate.lamports => lamports'[a] = lamports[a]
             /\ gate.body[a] = {} => len'[a] = len[a] /\ owner'[a] = owner[a] /\ data'[a] = data[a]]_vars
  <2> SUFFICES ASSUME MemoryInv, [Next]_vars, call # Nothing, call.op \notin Native, NEW b \in Account
               PROVE  /\ b \notin gate.lamports => lamports'[b] = lamports[b]
                      /\ gate.body[b] = {} => len'[b] = len[b] /\ owner'[b] = owner[b] /\ data'[b] = data[b]
    OBVIOUS
  <2>1. todo # <<>>
    BY DEF MemoryInv, Underway
  <2>2. ~Calls
    BY <2>1, CallsStartIdle DEF Idle
  <2>3. ~Handler
    BY <2>1 DEF Handler, TryBorrow, TryBorrowMut, DropBorrow, Borrowed, WriteThrough, ChangeGate, Idle
  <2>4. CASE Effects
    BY <2>4, EffectsAreAuthorized
  <2>5. CASE UNCHANGED vars
    BY <2>5 DEF vars, accounts
  <2> QED BY <2>2, <2>3, <2>4, <2>5 DEF Next
<1> QED BY <1>1, MemoryInvariant, PTL DEF Spec, UndeclaredUntouched

-----------------------------------------------------------------------------
(* Where the lamports go.  From the start of a call its effects already say *)
(* what every balance will be: `final`.  A call that moves lamports settles *)
(* its accounts in `final`, and each effect leaves less between the         *)
(* balances and it.                                                         *)

Setter(e) == e.do \in {"set_lamports", "native_set_lamports", "close", "native_close"}

Quiet == {"resize", "resize_raw", "native_resize", "zero_data", "zero_init",
          "write_close_sentinel", "write_header"}

\* e stores the balance of c, in a call about a.
Stores(e, a, c) == IF e.do = "system_transfer" THEN c \in {e.acct, a} ELSE Setter(e) /\ e.acct = c

\* Performing the effects turns the balances `now` into `final`.
Forecast(effects, a, now, final) ==
  /\ \A i \in 1 .. Len(effects) :
       /\ effects[i].do \in {"close", "native_close"} => effects[i].val = 0
       /\ Setter(effects[i]) =>
            \/ final[effects[i].acct] = effects[i].val
            \/ \E j \in i + 1 .. Len(effects) : Stores(effects[j], a, effects[i].acct)
       /\ effects[i].do = "system_transfer" =>
            /\ i = 1 /\ effects[1].acct # a
            /\ final[effects[1].acct] = now[effects[1].acct] - effects[1].val
            /\ final[a] = now[a] + effects[1].val
  /\ \A c \in Account : final[c] = now[c] \/ \E i \in 1 .. Len(effects) : Stores(effects[i], a, c)

Moves    == {"transfer_lamports", "native_transfer"}
Reallocs == {"realloc_checked", "resize_with_payer", "safe_realloc", "migrate_append"}
Closings == {"close_to", "close_and_transfer", "safe_close"}

\* What a call owes its accounts, whose balances were `was`.
Settled(op, a, peer, min, was, final) ==
  /\ op \in Moves \cup Reallocs \cup Closings /\ peer \in Account /\ peer # a =>
       /\ final[a] + final[peer] = was[a] + was[peer]
       /\ \A c \in Account \ {a, peer} : final[c] = was[c]
  /\ op \in Reallocs => final[a] >= min
  /\ op \in Closings \cup {"close"} => final[a] = 0

Settling ==
  (todo # <<>> /\ call.op \in Moves \cup Reallocs \cup Closings \cup {"close"}) =>
    \E final \in [Account -> Int] :
      /\ Forecast(todo, call.acct, lamports, final)
      /\ Settled(call.op, call.acct, call.peer, call.min, before.lamports, final)

\* Performing the first effect of a forecast leaves a forecast of the others.
LEMMA ForecastTail ==
  ASSUME NEW s \in Seq(PendingEffect), s # <<>>, NEW a \in Account,
         NEW was, NEW now, NEW final, Forecast(s, a, was, final),
         \A c \in Account : ~Stores(s[1], a, c) => now[c] = was[c],
         s[1].do \in {"set_lamports", "native_set_lamports"} => now[s[1].acct] = s[1].val,
         s[1].do \in {"close", "native_close"} => now[s[1].acct] = 0,
         s[1].do = "system_transfer" => /\ now[s[1].acct] = was[s[1].acct] - s[1].val
                                        /\ now[a] = was[a] + s[1].val
  PROVE  /\ Forecast(Tail(s), a, now, final)
         /\ Len(s) = 1 => \A c \in Account : final[c] = now[c]
<1>1. /\ Len(s) \in Nat /\ Len(s) >= 1 /\ 1 \in 1 .. Len(s)
      /\ Len(Tail(s)) = Len(s) - 1
      /\ \A i \in 1 .. Len(s) - 1 : Tail(s)[i] = s[i + 1]
  BY HeadAndTail
<1>2. Setter(s[1]) => now[s[1].acct] = s[1].val
  BY <1>1 DEF Forecast, Setter
<1>3. ASSUME NEW c \in Account
      PROVE  final[c] = now[c] \/ \E j \in 2 .. Len(s) : Stores(s[j], a, c)
  <2>1. CASE Stores(s[1], a, c) /\ s[1].do = "system_transfer"
    BY <1>1, <2>1 DEF Forecast, Stores
  <2>2. CASE Stores(s[1], a, c) /\ s[1].do # "system_transfer"
    <3>1. Setter(s[1]) /\ s[1].acct = c
      BY <2>2 DEF Stores
    <3>2. \/ final[s[1].acct] = s[1].val
          \/ \E j \in 1 + 1 .. Len(s) : Stores(s[j], a, s[1].acct)
      BY <1>1, <3>1 DEF Forecast
    <3> QED BY <1>2, <3>1, <3>2
  <2>3. CASE ~Stores(s[1], a, c)
    <3>1. final[c] = was[c] \/ \E j \in 1 .. Len(s) : Stores(s[j], a, c)
      BY DEF Forecast
    <3>2. \A j \in 1 .. Len(s) : j = 1 \/ j \in 2 .. Len(s)
      BY <1>1
    <3> QED BY <2>3, <3>1, <3>2
  <2> QED BY <2>1, <2>2, <2>3
<1>4. \A j \in 2 .. Len(s) : j - 1 \in 1 .. Len(Tail(s)) /\ Tail(s)[j - 1] = s[j]
  BY <1>1
<1>5. ASSUME NEW i \in 1 .. Len(Tail(s))
      PROVE  /\ i + 1 \in 1 .. Len(s) /\ i + 1 # 1 /\ Tail(s)[i] = s[i + 1]
             /\ \A j \in (i + 1) + 1 .. Len(s) : j \in 2 .. Len(s) /\ j - 1 \in i + 1 .. Len(Tail(s))
  BY <1>1
<1>6. ASSUME NEW i \in 1 .. Len(Tail(s))
      PROVE  /\ Tail(s)[i].do \in {"close", "native_close"} => Tail(s)[i].val = 0
             /\ Setter(Tail(s)[i]) =>
                  \/ final[Tail(s)[i].acct] = Tail(s)[i].val
                  \/ \E j \in i + 1 .. Len(Tail(s)) : Stores(Tail(s)[j], a, Tail(s)[i].acct)
             /\ Tail(s)[i].do # "system_transfer"
  <2>1. /\ s[i + 1].do \in {"close", "native_close"} => s[i + 1].val = 0
        /\ s[i + 1].do # "system_transfer"
        /\ Setter(s[i + 1]) =>
             \/ final[s[i + 1].acct] = s[i + 1].val
             \/ \E j \in (i + 1) + 1 .. Len(s) : Stores(s[j], a, s[i + 1].acct)
    BY <1>5 DEF Forecast
  <2> QED BY <1>4, <1>5, <2>1
<1>7. ASSUME NEW c \in Account
      PROVE  final[c] = now[c] \/ \E i \in 1 .. Len(Tail(s)) : Stores(Tail(s)[i], a, c)
  BY <1>3, <1>4
<1>8. Forecast(Tail(s), a, now, final)
  BY <1>6, <1>7 DEF Forecast
<1>9. Len(s) = 1 => \A c \in Account : final[c] = now[c]
  <2>1. Len(s) = 1 => \A j \in 2 .. Len(s) : FALSE
    OBVIOUS
  <2> QED BY <1>3, <2>1
<1> QED BY <1>8, <1>9

\* What performing an effect does to the balances.
LEMMA EffectsStore ==
  ASSUME MemoryInv, Effects, Performable(todo[1])
  PROVE  /\ todo # <<>> /\ Advance
         /\ \A c \in Account : ~Stores(todo[1], call.acct, c) => lamports'[c] = lamports[c]
         /\ todo[1].do \in {"set_lamports", "native_set_lamports"} => lamports'[todo[1].acct] = todo[1].val
         /\ todo[1].do \in {"close", "native_close"} => lamports'[todo[1].acct] = 0
         /\ todo[1].do = "system_transfer" =>
              /\ lamports'[todo[1].acct] = lamports[todo[1].acct] - todo[1].val
              /\ lamports'[call.acct] = lamports[call.acct] + todo[1].val
<1>f. ~Fail
  BY DEF Fail, Next1
<1>0. todo # <<>>
  BY <1>f DEF Effects, Doing, PerformSetLamports, PerformSystemTransfer, PerformResize, PerformClose,
     PerformZero, PerformSentinel, PerformHeader
<1>1. /\ Next1.acct \in Account /\ call.acct \in Account /\ lamports \in [Account -> Lamports]
      /\ Next1.do = "system_transfer" => Next1.acct # call.acct
  BY <1>0, NextEffect DEF MemoryInv, Typed
<1> USE DEF Next1, Doing
<1>2. CASE PerformSetLamports
  BY <1>0, <1>1, <1>2 DEF PerformSetLamports, Stores, Setter
<1>3. CASE PerformSystemTransfer
  BY <1>0, <1>1, <1>3 DEF PerformSystemTransfer, Stores
<1>4. CASE PerformClose
  BY <1>0, <1>1, <1>4 DEF PerformClose, Stores, Setter
<1>5. CASE PerformResize \/ PerformZero \/ PerformSentinel \/ PerformHeader
  BY <1>0, <1>5 DEF PerformResize, PerformZero, PerformSentinel, PerformHeader
<1> QED BY <1>f, <1>0, <1>2, <1>3, <1>4, <1>5 DEF Effects

\* After an effect the forecast is about what is left; the last one leaves the
\* balances that were forecast.
LEMMA EffectForecast ==
  ASSUME MemoryInv, Effects, Performable(todo[1]),
         NEW final, Forecast(todo, call.acct, lamports, final)
  PROVE  /\ Forecast(Tail(todo), call.acct, lamports', final)
         /\ Len(todo) = 1 => \A c \in Account : final[c] = lamports'[c]
<1>1. todo # <<>>
  BY EffectsStore
<1>2. todo \in Seq(PendingEffect) /\ call.acct \in Account
  BY <1>1 DEF MemoryInv, Underway, Ready
<1>3. Forecast(Tail(todo), call.acct, lamports', final)
  BY <1>1, <1>2, EffectsStore, ForecastTail
<1>4. Len(todo) = 1 => \A c \in Account : final[c] = lamports'[c]
  BY <1>1, <1>2, <1>3, EffectsStore, ForecastTail
<1> QED BY <1>3, <1>4

\* An effect brings the balances nearer to what the call settles.
LEMMA EffectsSettle ==
  ASSUME MemoryInv, Settling, Effects
  PROVE  Settling'
<1>1. CASE ~Performable(todo[1])
  <2>1. Fail
    BY <1>1 DEF Effects, Next1, PerformSetLamports, PerformSystemTransfer, PerformResize, PerformClose,
       PerformZero, PerformSentinel, PerformHeader
  <2> QED BY <2>1 DEF Fail, Settling
<1>2. CASE Performable(todo[1])
  <2> SUFFICES ASSUME todo' # <<>>, call'.op \in Moves \cup Reallocs \cup Closings \cup {"close"}
               PROVE  Settling'
    BY DEF Settling
  <2>1. todo # <<>> /\ Advance
    BY <1>2, EffectsStore
  <2>2. todo \in Seq(PendingEffect) /\ call.acct \in Account
    BY <2>1 DEF MemoryInv, Underway, Ready
  <2>3. todo' = Tail(todo) /\ call' = call /\ before' = before
    <3>1. todo' = Tail(todo) /\ Len(todo) # 1
      BY <2>1, <2>2, HeadAndTail DEF Advance
    <3> QED BY <2>1, <3>1 DEF Advance
  <2>4. PICK final \in [Account -> Int] :
          /\ Forecast(todo, call.acct, lamports, final)
          /\ Settled(call.op, call.acct, call.peer, call.min, before.lamports, final)
    BY <2>1, <2>3 DEF Settling
  <2>5. Forecast(Tail(todo), call.acct, lamports', final)
    BY <1>2, <2>4, EffectForecast
  <2> QED BY <2>3, <2>4, <2>5 DEF Settling
<1> QED BY <1>1, <1>2

\* A call ends with an effect.
LEMMA ReturnsByEffect ==
  ASSUME [Next]_vars, Finished
  PROVE  Effects
<1>1. CASE Calls
  BY <1>1, CallsStartIdle DEF Finished, Idle
<1>2. CASE Handler
  BY <1>2 DEF Finished, Handler, TryBorrow, TryBorrowMut, DropBorrow, Borrowed, WriteThrough,
     ChangeGate, Idle
<1>3. CASE UNCHANGED vars
  BY <1>3 DEF Finished, vars
<1> QED BY <1>1, <1>2, <1>3 DEF Next

\* A call that returns Ok leaves the balances it settled.
LEMMA ReturnSettles ==
  ASSUME MemoryInv, Settling, [Next]_vars,
         Returned(Moves \cup Reallocs \cup Closings \cup {"close"})
  PROVE  \E final \in [Account -> Int] :
           /\ \A c \in Account : lamports'[c] = final[c]
           /\ Settled(call.op, call.acct, call.peer, call.min, before.lamports, final)
<1>1. Effects
  BY ReturnsByEffect DEF Returned
<1>2. Performable(todo[1]) /\ todo # <<>> /\ Advance
  BY <1>1, EffectsStore DEF Returned
<1>3. todo \in Seq(PendingEffect) /\ call.acct \in Account
  BY <1>2 DEF MemoryInv, Underway, Ready
<1>4. Len(todo) = 1
  BY <1>2, <1>3, HeadAndTail DEF Advance, Returned, Finished
<1>5. PICK final \in [Account -> Int] :
        /\ Forecast(todo, call.acct, lamports, final)
        /\ Settled(call.op, call.acct, call.peer, call.min, before.lamports, final)
  BY <1>2 DEF Settling, Returned
<1>6. \A c \in Account : final[c] = lamports'[c]
  BY <1>1, <1>2, <1>4, <1>5, EffectForecast
<1> QED BY <1>5, <1>6

\* A call whose effects are forecast to settle it may start.
LEMMA StartSettles ==
  ASSUME NEW op, NEW a, NEW peer, NEW min, NEW effects, Start(op, a, peer, min, effects),
         NEW final \in [Account -> Int], Forecast(effects, a, lamports, final),
         Settled(op, a, peer, min, lamports, final)
  PROVE  Settling'
<1>1. /\ call'.op = op /\ call'.acct = a /\ call'.peer = peer /\ call'.min = min
      /\ todo' = effects /\ before' = Snapshot /\ lamports' = lamports
  BY DEF Start, accounts
<1>2. before'.lamports = lamports
  BY <1>1 DEF Snapshot
<1> QED BY <1>1, <1>2 DEF Settling

\* A call none of whose effects is about balances leaves them alone.
LEMMA QuietSettles ==
  ASSUME MemoryInv, NEW op, NEW a \in Account, NEW peer, NEW min, NEW s \in Seq(PendingEffect),
         Start(op, a, peer, min, s),
         op \in Reallocs, lamports[a] >= min, \A i \in 1 .. Len(s) : s[i].do \in Quiet
  PROVE  Settling'
<1>1. lamports \in [Account -> Int]
  BY MemoryAssumption DEF MemoryInv, Typed, Lamports
<1>2. Forecast(s, a, lamports, lamports)
  BY DEF Forecast, Setter, Quiet
<1>3. Settled(op, a, peer, min, lamports, lamports)
  BY DEF Settled, Reallocs, Closings
<1> QED BY <1>1, <1>2, <1>3, StartSettles

\* The two effects of a call that are about balances, at p and q: the two new
\* balances add up to the old ones, the account of a realloc has its minimum, and
\* that of a close nothing.
PaysOut(op, a, peer, min, s, p, q) ==
  /\ s \in Seq(PendingEffect)
  /\ p \in 1 .. Len(s) /\ q \in 1 .. Len(s) /\ p < q /\ Setter(s[p]) /\ Setter(s[q])
  /\ \A i \in 1 .. Len(s) : /\ s[i].do \in {"close", "native_close"} => s[i].val = 0
                            /\ i # p /\ i # q => s[i].do \in Quiet
  /\ \/ s[p].acct = a /\ s[q].acct = peer
     \/ s[p].acct = peer /\ s[q].acct = a
  /\ peer # a => s[p].val + s[q].val = lamports[a] + lamports[peer]
  /\ op \in Reallocs => s[q].acct = a /\ s[q].val >= min
  /\ op \in Closings \cup {"close"} => /\ peer # a
                                       /\ s[p].acct = a => s[p].val = 0
                                       /\ s[q].acct = a => s[q].val = 0

LEMMA PairSettles ==
  ASSUME MemoryInv, NEW op, NEW a \in Account, NEW peer \in Account, NEW min, NEW s, NEW p, NEW q,
         Start(op, a, peer, min, s), PaysOut(op, a, peer, min, s, p, q)
  PROVE  Settling'
<1> USE DEF PaysOut
<1> DEFINE final == [lamports EXCEPT ![s[p].acct] = s[p].val, ![s[q].acct] = s[q].val]
<1>1. /\ lamports \in [Account -> Int]
      /\ s[p].acct \in Account /\ s[q].acct \in Account /\ s[p].val \in Int /\ s[q].val \in Int
  <2>1. lamports \in [Account -> Int]
    BY MemoryAssumption DEF MemoryInv, Typed, Lamports
  <2>2. s[p] \in PendingEffect /\ s[q] \in PendingEffect
    BY ElementOfSeq
  <2> QED BY <2>1, <2>2 DEF PendingEffect
<1>2. /\ final \in [Account -> Int]
      /\ final[s[q].acct] = s[q].val
      /\ s[p].acct # s[q].acct => final[s[p].acct] = s[p].val
      /\ \A c \in Account : c \notin {s[p].acct, s[q].acct} => final[c] = lamports[c]
  BY <1>1
<1> HIDE DEF final
<1>3. \A c : Stores(s[p], a, c) <=> c = s[p].acct
  BY DEF Stores, Setter
<1>4. \A c : Stores(s[q], a, c) <=> c = s[q].acct
  BY DEF Stores, Setter
<1>5. q \in p + 1 .. Len(s)
  OBVIOUS
<1>6. ASSUME NEW i \in 1 .. Len(s)
      PROVE  /\ s[i].do \in {"close", "native_close"} => s[i].val = 0
             /\ Setter(s[i]) => \/ final[s[i].acct] = s[i].val
                                \/ \E j \in i + 1 .. Len(s) : Stores(s[j], a, s[i].acct)
             /\ s[i].do # "system_transfer"
  <2>1. CASE i = p
    BY <1>2, <1>4, <1>5, <2>1 DEF Setter
  <2>2. CASE i = q
    BY <1>2, <2>2 DEF Setter
  <2>3. CASE i # p /\ i # q
    BY <2>3 DEF Setter, Quiet
  <2> QED BY <2>1, <2>2, <2>3
<1>7. \A c \in Account : final[c] = lamports[c] \/ \E i \in 1 .. Len(s) : Stores(s[i], a, c)
  BY <1>2, <1>3, <1>4
<1>8. Forecast(s, a, lamports, final)
  BY <1>6, <1>7 DEF Forecast
<1>9. peer # a => /\ final[a] + final[peer] = lamports[a] + lamports[peer]
                  /\ \A c \in Account \ {a, peer} : final[c] = lamports[c]
  <2> SUFFICES ASSUME peer # a
               PROVE  /\ final[a] + final[peer] = lamports[a] + lamports[peer]
                      /\ \A c \in Account \ {a, peer} : final[c] = lamports[c]
    OBVIOUS
  <2>1. final[a] + final[peer] = s[p].val + s[q].val
    <3>1. CASE s[p].acct = a /\ s[q].acct = peer
      BY <1>2, <3>1
    <3>2. CASE s[p].acct = peer /\ s[q].acct = a
      BY <1>1, <1>2, <3>2
    <3> QED BY <3>1, <3>2
  <2>2. \A c \in Account \ {a, peer} : final[c] = lamports[c]
    BY <1>2
  <2> QED BY <2>1, <2>2
<1>10. op \in Reallocs => final[a] >= min
  BY <1>2
<1>11. op \in Closings \cup {"close"} => final[a] = 0
  BY <1>2
<1>12. Settled(op, a, peer, min, lamports, final)
  BY <1>9, <1>10, <1>11 DEF Settled
<1> QED BY <1>2, <1>8, <1>12, StartSettles

\* What a call that closes an account leaves in view: nothing but the sentinel.
Blank(a) == \A i \in Visible(a) : data[a][i] = 0 \/ (i = 0 /\ data[a][i] = CLOSE_SENTINEL)

Blanks(e, a) == e.acct = a /\ e.do \in {"zero_data", "zero_init", "close", "native_close"}

SparesBlank == {"zero_data", "zero_init", "close", "native_close", "set_lamports",
                "native_set_lamports", "write_close_sentinel"}

\* A call that closes an account has blanked it or is going to, and none of its
\* effects brings bytes back.
Blanking ==
  (todo # <<>> /\ call.op \in Closings \cup {"close"}) =>
    /\ \A i \in 1 .. Len(todo) : todo[i].do \in SparesBlank
    /\ Blank(call.acct) \/ \E i \in 1 .. Len(todo) : Blanks(todo[i], call.acct)

LEMMA StartBlanks ==
  ASSUME NEW op, NEW a, NEW peer, NEW min, NEW s, Start(op, a, peer, min, s),
         op \in Closings \cup {"close"} =>
           /\ \A i \in 1 .. Len(s) : s[i].do \in SparesBlank
           /\ \E i \in 1 .. Len(s) : Blanks(s[i], a)
  PROVE  Blanking'
<1>1. call'.op = op /\ call'.acct = a /\ todo' = s
  BY DEF Start
<1> QED BY <1>1 DEF Blanking, Blanks

\* An effect of a call that closes an account blanks it or leaves it blank.
LEMMA EffectsBlank ==
  ASSUME MemoryInv, Effects, Performable(todo[1]), NEW a \in Account,
         todo[1].do \in SparesBlank, Blank(a) \/ Blanks(todo[1], a)
  PROVE  Blank(a)'
<1> DEFINE e == todo[1]
<1>f. ~Fail
  BY DEF Fail, Next1
<1>0. todo # <<>>
  BY <1>f DEF Effects, Doing, PerformSetLamports, PerformSystemTransfer, PerformResize, PerformClose,
     PerformZero, PerformSentinel, PerformHeader
<1>1. /\ e.acct \in Account /\ data \in [Account -> [Offset -> Byte]] /\ len \in [Account -> Nat]
      /\ \A i \in Offset : i \in Nat
  BY <1>0, NextEffect, Numbers DEF MemoryInv, Typed, Next1
<1>2. CASE PerformSetLamports
  <2>1. e.do \in {"set_lamports", "native_set_lamports"} /\ data' = data /\ len' = len
    BY <1>2 DEF PerformSetLamports, Doing
  <2>2. Blank(a)
    BY <2>1 DEF Blanks
  <2> QED BY <2>1, <2>2 DEF Blank, Visible
<1>3. CASE PerformClose
  <2>1. data' = Stored(e.acct, Visible(e.acct), 0) /\ len' = [len EXCEPT ![e.acct] = 0]
    BY <1>3 DEF PerformClose, Next1
  <2>2. CASE a = e.acct
    BY <1>1, <2>1, <2>2 DEF Blank, Visible
  <2>3. CASE a # e.acct
    <3>1. data'[a] = data[a] /\ len'[a] = len[a] /\ Blank(a)
      BY <1>1, <2>1, <2>3, StoredBytes, Numbers DEF MemoryInv, Blanks
    <3> QED BY <3>1 DEF Blank, Visible
  <2> QED BY <2>2, <2>3
<1>4. CASE PerformZero
  <2>1. data' = Stored(e.acct, Visible(e.acct), 0) /\ len' = len
    BY <1>4 DEF PerformZero, Next1
  <2>2. CASE a = e.acct
    <3>1. \A i \in Visible(a) : data'[a][i] = 0
      BY <1>1, <2>1, <2>2, StoredBytes, Numbers DEF MemoryInv, Visible
    <3> QED BY <2>1, <3>1 DEF Blank, Visible
  <2>3. CASE a # e.acct
    <3>1. data'[a] = data[a] /\ Blank(a)
      BY <1>1, <2>1, <2>3, StoredBytes, Numbers DEF MemoryInv, Blanks
    <3> QED BY <2>1, <3>1 DEF Blank, Visible
  <2> QED BY <2>2, <2>3
<1>5. CASE PerformSentinel
  <2>1. /\ data' = Stored(e.acct, Visible(e.acct) \cap {0}, CLOSE_SENTINEL) /\ len' = len
        /\ e.do = "write_close_sentinel"
    BY <1>5 DEF PerformSentinel, Next1, Doing
  <2>2. Blank(a)
    BY <2>1 DEF Blanks
  <2>3. ASSUME NEW i \in Visible(a)
        PROVE  data'[a][i] = data[a][i] \/ (i = 0 /\ data'[a][i] = CLOSE_SENTINEL)
    <3>1. i \in Offset
      BY DEF Visible
    <3>2. CASE a = e.acct
      BY <1>1, <2>1, <3>1, <3>2, StoredBytes, Numbers DEF MemoryInv
    <3>3. CASE a # e.acct
      BY <1>1, <2>1, <3>1, <3>3, StoredBytes, Numbers DEF MemoryInv
    <3> QED BY <3>2, <3>3
  <2> QED BY <2>1, <2>2, <2>3 DEF Blank, Visible
<1>6. ~(PerformSystemTransfer \/ PerformResize \/ PerformHeader)
  BY DEF PerformSystemTransfer, PerformResize, PerformHeader, Doing, SparesBlank
<1> QED BY <1>f, <1>2, <1>3, <1>4, <1>5, <1>6 DEF Effects

LEMMA EffectsKeepBlanking ==
  ASSUME MemoryInv, Blanking, Effects
  PROVE  Blanking'
<1>1. CASE ~Performable(todo[1])
  <2>1. Fail
    BY <1>1 DEF Effects, Next1, PerformSetLamports, PerformSystemTransfer, PerformResize, PerformClose,
       PerformZero, PerformSentinel, PerformHeader
  <2> QED BY <2>1 DEF Fail, Blanking
<1>2. CASE Performable(todo[1])
  <2> SUFFICES ASSUME todo' # <<>>, call'.op \in Closings \cup {"close"}
               PROVE  Blanking'
    BY DEF Blanking
  <2>1. todo # <<>> /\ Advance
    BY <1>2, EffectsStore
  <2>2. todo \in Seq(PendingEffect) /\ call.acct \in Account
    BY <2>1 DEF MemoryInv, Underway, Ready
  <2>3. todo' = Tail(todo) /\ call' = call
    <3>1. todo' = Tail(todo) /\ Len(todo) # 1
      BY <2>1, <2>2, HeadAndTail DEF Advance
    <3> QED BY <2>1, <3>1 DEF Advance
  <2>4. /\ 1 \in 1 .. Len(todo)
        /\ \A i \in 1 .. Len(todo') : todo'[i] = todo[i + 1] /\ i + 1 \in 1 .. Len(todo)
        /\ \A i \in 1 .. Len(todo) : i = 1 \/ (i - 1 \in 1 .. Len(todo') /\ todo'[i - 1] = todo[i])
    BY <2>1, <2>2, <2>3, HeadAndTail
  <2>5. /\ \A i \in 1 .. Len(todo) : todo[i].do \in SparesBlank
        /\ Blank(call.acct) \/ \E i \in 1 .. Len(todo) : Blanks(todo[i], call.acct)
    BY <2>1, <2>3 DEF Blanking
  <2>6. Blank(call.acct) \/ Blanks(todo[1], call.acct) => Blank(call.acct)'
    <3>1. \A a \in Account : Blank(a) \/ Blanks(todo[1], a) => Blank(a)'
      BY <1>2, <2>4, <2>5, EffectsBlank
    <3> QED BY <2>2, <2>3, <3>1 DEF Blank, Visible
  <2>7. \A i \in 1 .. Len(todo') : todo'[i].do \in SparesBlank
    BY <2>4, <2>5
  <2>8. Blank(call.acct)' \/ \E i \in 1 .. Len(todo') : Blanks(todo'[i], call'.acct)
    BY <2>3, <2>4, <2>5, <2>6
  <2> QED BY <2>7, <2>8 DEF Blanking, Blanks
<1> QED BY <1>1, <1>2

\* A close starts with nothing to move.
LEMMA CloseSettles ==
  ASSUME MemoryInv, NEW a \in Account, CallClose(a)
  PROVE  Settling' /\ Blanking'
<1> DEFINE e == Close(a)
           final == [lamports EXCEPT ![a] = 0]
<1>1. Start("close", a, NoAccount, 0, <<e>>) /\ e.do = "close" /\ e.acct = a /\ e.val = 0
  BY DEF CallClose, Close, Effect
<1>2. lamports \in [Account -> Int]
  BY MemoryAssumption DEF MemoryInv, Typed, Lamports
<1>3. final \in [Account -> Int] /\ final[a] = 0 /\ \A c \in Account : c # a => final[c] = lamports[c]
  BY <1>2
<1> HIDE DEF e, final
<1>4. Forecast(<<e>>, a, lamports, final)
  BY <1>1, <1>3 DEF Forecast, Stores, Setter
<1>5. Settled("close", a, NoAccount, 0, lamports, final)
  BY <1>3, MemoryAssumption DEF Settled, Reallocs, Closings, Moves
<1>6. Settling'
  BY <1>1, <1>3, <1>4, <1>5, StartSettles
<1>7. /\ \A i \in 1 .. Len(<<e>>) : <<e>>[i].do \in SparesBlank
      /\ \E i \in 1 .. Len(<<e>>) : Blanks(<<e>>[i], a)
  BY <1>1 DEF SparesBlank, Blanks
<1>8. Blanking'
  BY <1>1, <1>7, StartBlanks
<1> QED BY <1>6, <1>8

\* A transfer takes what it gives, in both layers.
LEMMA TransfersSettle ==
  ASSUME MemoryInv, NEW from \in Account, NEW to \in Account, NEW amount \in Amount,
         TransferLamports(from, to, amount) \/ NativeTransfer(from, to, amount)
  PROVE  Settling'
<1>0. /\ lamports[from] - amount \in Lamports /\ lamports[to] + amount \in Lamports
      /\ lamports[from] \in Nat /\ lamports[to] \in Nat /\ amount \in Nat /\ from # to
  <2>1. amount \in Nat /\ lamports[from] >= amount /\ CreditFits(to, amount) /\ from # to
    BY MemoryAssumption, Numbers DEF TransferLamports, NativeTransfer, NativeTransferable
  <2> QED BY <2>1, Moved, Numbers DEF MemoryInv, Typed
<1>1. CASE TransferLamports(from, to, amount)
  <2> DEFINE e1 == SetLamports(from, lamports[from] - amount)
             e2 == SetLamports(to, lamports[to] + amount)
  <2>1. /\ e1 \in PendingEffect /\ e1.do = "set_lamports" /\ e1.acct = from
        /\ e1.val = lamports[from] - amount
        /\ e2 \in PendingEffect /\ e2.do = "set_lamports" /\ e2.acct = to
        /\ e2.val = lamports[to] + amount
    BY <1>0, Numbers DEF SetLamports, Effect, PendingEffect, Gated
  <2>2. Start("transfer_lamports", from, to, 0, <<e1, e2>>)
    BY <1>1 DEF TransferLamports
  <2> HIDE DEF e1, e2
  <2> DEFINE s == <<e1, e2>>
  <2>3. s \in Seq(PendingEffect) /\ Len(s) = 2 /\ s[1] = e1 /\ s[2] = e2
    BY <2>1
  <2> HIDE DEF s
  <2>4. Start("transfer_lamports", from, to, 0, s)
    BY <2>2 DEF s
  <2>5. PaysOut("transfer_lamports", from, to, 0, s, 1, 2)
    BY <1>0, <2>1, <2>3 DEF PaysOut, Setter, Reallocs, Closings
  <2> QED BY <2>4, <2>5, PairSettles
<1>2. CASE NativeTransfer(from, to, amount)
  <2> DEFINE e1 == NativeSetLamports(from, lamports[from] - amount)
             e2 == NativeSetLamports(to, lamports[to] + amount)
  <2>1. /\ e1 \in PendingEffect /\ e1.do = "native_set_lamports" /\ e1.acct = from
        /\ e1.val = lamports[from] - amount
        /\ e2 \in PendingEffect /\ e2.do = "native_set_lamports" /\ e2.acct = to
        /\ e2.val = lamports[to] + amount
    BY <1>0, Numbers DEF NativeSetLamports, Effect, PendingEffect
  <2>2. Start("native_transfer", from, to, 0, <<e1, e2>>)
    BY <1>2 DEF NativeTransfer, NativeMove
  <2> HIDE DEF e1, e2
  <2> DEFINE s == <<e1, e2>>
  <2>3. s \in Seq(PendingEffect) /\ Len(s) = 2 /\ s[1] = e1 /\ s[2] = e2
    BY <2>1
  <2> HIDE DEF s
  <2>4. Start("native_transfer", from, to, 0, s)
    BY <2>2 DEF s
  <2>5. PaysOut("native_transfer", from, to, 0, s, 1, 2)
    BY <1>0, <2>1, <2>3 DEF PaysOut, Setter, Reallocs, Closings
  <2> QED BY <2>4, <2>5, PairSettles
<1> QED BY <1>1, <1>2

\* What a close moves fits in the destination.
LEMMA CloseToSettles ==
  ASSUME MemoryInv, NEW a \in Account, NEW dest \in Account, NEW checked \in BOOLEAN,
         CloseTo(a, dest, checked)
  PROVE  Settling' /\ Blanking'
<1> DEFINE e1 == ZeroData(a)
           e2 == SetLamports(a, 0)
           e3 == SetLamports(dest, lamports[dest] + lamports[a])
<1>0. lamports[a] \in Nat /\ lamports[dest] \in Nat /\ dest # a
  BY Numbers DEF MemoryInv, Typed, CloseTo, ClosePreflight
<1>1. /\ e1 \in PendingEffect /\ e1.do = "zero_data" /\ e1.acct = a
      /\ e2 \in PendingEffect /\ e2.do = "set_lamports" /\ e2.acct = a /\ e2.val = 0
      /\ e3 \in PendingEffect /\ e3.do = "set_lamports" /\ e3.acct = dest
      /\ e3.val = lamports[dest] + lamports[a]
  BY <1>0 DEF ZeroData, SetLamports, Gated, Effect, PendingEffect
<1>2. Start("close_to", a, dest, 0, <<e1, e2, e3>>)
  BY DEF CloseTo
<1> HIDE DEF e1, e2, e3
<1> DEFINE s == <<e1, e2, e3>>
<1>3. s \in Seq(PendingEffect) /\ Len(s) = 3 /\ s[1] = e1 /\ s[2] = e2 /\ s[3] = e3
  BY <1>1
<1>4. Start("close_to", a, dest, 0, s)
  BY <1>2
<1> HIDE DEF s
<1>5. \A i \in 1 .. Len(s) : i # 2 /\ i # 3 => s[i].do \in Quiet
  BY <1>1, <1>3 DEF Quiet
<1>6. Settling'
  <2>1. s[2].val + s[3].val = lamports[a] + lamports[dest]
    BY <1>0, <1>1, <1>3
  <2>2. PaysOut("close_to", a, dest, 0, s, 2, 3)
    BY <1>0, <1>1, <1>3, <1>5, <2>1 DEF PaysOut, Setter, Reallocs
  <2> QED BY <1>4, <2>2, PairSettles
<1>7. \A i \in 1 .. Len(s) : s[i].do \in SparesBlank
  BY <1>1, <1>3 DEF SparesBlank
<1>8. 1 \in 1 .. Len(s) /\ Blanks(s[1], a)
  BY <1>1, <1>3 DEF Blanks
<1>9. Blanking'
  BY <1>4, <1>7, <1>8, StartBlanks
<1> QED BY <1>6, <1>9

LEMMA CloseAndTransferSettles ==
  ASSUME MemoryInv, NEW a \in Account, NEW dest \in Account, CloseAndTransfer(a, dest)
  PROVE  Settling' /\ Blanking'
<1> DEFINE e1 == NativeClose(a)
           e2 == NativeSetLamports(dest, lamports[dest] + lamports[a])
<1>0. lamports[a] \in Nat /\ lamports[dest] \in Nat /\ dest # a
  BY Numbers DEF MemoryInv, Typed, CloseAndTransfer
<1>1. /\ e1 \in PendingEffect /\ e1.do = "native_close" /\ e1.acct = a /\ e1.val = 0
      /\ e2 \in PendingEffect /\ e2.do = "native_set_lamports" /\ e2.acct = dest
      /\ e2.val = lamports[dest] + lamports[a]
  BY <1>0 DEF NativeClose, NativeSetLamports, Effect, PendingEffect
<1>2. Start("close_and_transfer", a, dest, 0, <<e1, e2>>)
  BY DEF CloseAndTransfer
<1> HIDE DEF e1, e2
<1> DEFINE s == <<e1, e2>>
<1>3. s \in Seq(PendingEffect) /\ Len(s) = 2 /\ s[1] = e1 /\ s[2] = e2
  BY <1>1
<1>4. Start("close_and_transfer", a, dest, 0, s)
  BY <1>2
<1> HIDE DEF s
<1>6. Settling'
  <2>1. s[1].val + s[2].val = lamports[a] + lamports[dest]
    BY <1>0, <1>1, <1>3
  <2>2. PaysOut("close_and_transfer", a, dest, 0, s, 1, 2)
    BY <1>0, <1>1, <1>3, <2>1 DEF PaysOut, Setter, Reallocs
  <2> QED BY <1>4, <2>2, PairSettles
<1>7. \A i \in 1 .. Len(s) : s[i].do \in SparesBlank
  BY <1>1, <1>3 DEF SparesBlank
<1>8. 1 \in 1 .. Len(s) /\ Blanks(s[1], a)
  BY <1>1, <1>3 DEF Blanks
<1>9. Blanking'
  BY <1>4, <1>7, <1>8, StartBlanks
<1> QED BY <1>6, <1>9

LEMMA SafeCloseSettles ==
  ASSUME MemoryInv, NEW a \in Account, NEW dest \in Account,
         NEW checked \in BOOLEAN, NEW sentinel \in BOOLEAN, SafeClose(a, dest, checked, sentinel)
  PROVE  Settling' /\ Blanking'
<1> DEFINE e1 == SetLamports(dest, lamports[dest] + lamports[a])
           e2 == SetLamports(a, 0)
           e3 == ZeroInit(a)
           e4 == WriteCloseSentinel(a)
           r == <<e1, e2, e3>>
           t == IF sentinel THEN <<e4>> ELSE <<>>
           s == r \o t
<1>0. lamports[a] \in Nat /\ lamports[dest] \in Nat /\ dest # a
  BY Numbers DEF MemoryInv, Typed, SafeClose
<1>1. /\ e1 \in PendingEffect /\ e1.do = "set_lamports" /\ e1.acct = dest
      /\ e1.val = lamports[dest] + lamports[a]
      /\ e2 \in PendingEffect /\ e2.do = "set_lamports" /\ e2.acct = a /\ e2.val = 0
      /\ e3 \in PendingEffect /\ e3.do = "zero_init" /\ e3.acct = a
      /\ e4 \in PendingEffect /\ e4.do = "write_close_sentinel"
  BY <1>0 DEF SetLamports, ZeroInit, WriteCloseSentinel, Effect, PendingEffect, Gated
<1>2. Start("safe_close", a, dest, 0, s)
  BY DEF SafeClose
<1> HIDE DEF e1, e2, e3, e4
<1>3. r \in Seq(PendingEffect) /\ Len(r) = 3 /\ r[1] = e1 /\ r[2] = e2 /\ r[3] = e3
  BY <1>1
<1>4. /\ t \in Seq(PendingEffect) /\ Len(t) \in 0 .. 1
      /\ \A i \in 1 .. Len(t) : t[i] = e4
  BY <1>1
<1> HIDE DEF r, t
<1>5. /\ s \in Seq(PendingEffect) /\ Len(s) = Len(r) + Len(t)
      /\ \A i \in 1 .. Len(r) + Len(t) : s[i] = IF i <= Len(r) THEN r[i] ELSE t[i - Len(r)]
  BY <1>3, <1>4, ConcatProperties
<1> HIDE DEF s
<1>6. /\ Len(s) \in {3, 4} /\ s[1] = e1 /\ s[2] = e2 /\ s[3] = e3
      /\ \A i \in 1 .. Len(s) : i > 3 => s[i] = e4
  BY <1>3, <1>4, <1>5
<1>7. \A i \in 1 .. Len(s) : i = 1 \/ i = 2 \/ i = 3 \/ i > 3
  BY <1>6
<1>8. \A i \in 1 .. Len(s) : i # 1 /\ i # 2 => s[i].do \in Quiet
  BY <1>1, <1>6, <1>7 DEF Quiet
<1>9. Settling'
  <2>1. s[1].val + s[2].val = lamports[a] + lamports[dest]
    BY <1>0, <1>1, <1>6
  <2>2. PaysOut("safe_close", a, dest, 0, s, 1, 2)
    BY <1>0, <1>1, <1>5, <1>6, <1>7, <1>8, <2>1 DEF PaysOut, Setter, Reallocs
  <2> QED BY <1>2, <2>2, PairSettles
<1>10. \A i \in 1 .. Len(s) : s[i].do \in SparesBlank
  BY <1>1, <1>6, <1>7 DEF SparesBlank
<1>11. 3 \in 1 .. Len(s) /\ Blanks(s[3], a)
  BY <1>1, <1>6 DEF Blanks
<1>12. Blanking'
  BY <1>2, <1>10, <1>11, StartBlanks
<1> QED BY <1>9, <1>12

\* What a realloc lacks to the minimum of its new length.
LEMMA DeficitMakesUp ==
  ASSUME MemoryInv, NEW a \in Account, NEW min \in Nat
  PROVE  /\ Deficit(a, min) \in Nat /\ lamports[a] \in Nat
         /\ Deficit(a, min) > 0 => lamports[a] + Deficit(a, min) = min
         /\ Deficit(a, min) = 0 => lamports[a] >= min
<1>1. lamports[a] \in Nat
  BY MemoryAssumption DEF MemoryInv, Typed, Lamports
<1> QED BY <1>1 DEF Deficit

LEMMA ReallocCheckedSettles ==
  ASSUME MemoryInv, NEW a \in Account, NEW n \in Length, NEW payer \in Account \cup {NoAccount},
         NEW rent \in {LAUNCH_RENT, LIVE_RENT}, ReallocChecked(a, n, payer, rent)
  PROVE  Settling'
<1> DEFINE min == rent[n]
           deficit == Deficit(a, min)
           e1 == NativeSetLamports(payer, lamports[payer] - deficit)
           e2 == NativeSetLamports(a, lamports[a] + deficit)
           e3 == NativeResize(a, n)
<1>0. min \in Nat
  BY MemoryAssumption, Numbers
<1>1. Start("realloc_checked", a, payer, min,
            (IF deficit > 0 THEN <<e1, e2>> ELSE <<>>) \o <<e3>>)
  BY DEF ReallocChecked, NativeMove
<1>2. deficit > 0 => payer \in Account /\ payer # a /\ lamports[payer] >= deficit /\ CreditFits(a, deficit)
  BY DEF ReallocChecked, NativeTransferable
<1>3. e3 \in PendingEffect /\ e3.do = "native_resize"
  BY Numbers DEF NativeResize, Effect, PendingEffect
<1> HIDE DEF min
<1>4. /\ deficit \in Nat /\ lamports[a] \in Nat
      /\ deficit > 0 => lamports[a] + deficit = min
      /\ deficit = 0 => lamports[a] >= min
  BY <1>0, DeficitMakesUp
<1>5. CASE deficit > 0
  <2>1. lamports[payer] - deficit \in Nat /\ lamports[payer] \in Nat
    <3>1. lamports[payer] \in Nat /\ lamports[payer] >= deficit
      BY <1>2, <1>5, MemoryAssumption DEF MemoryInv, Typed, Lamports
    <3> QED BY <1>4, <3>1
  <2>2. /\ e1 \in PendingEffect /\ e1.do = "native_set_lamports" /\ e1.acct = payer
        /\ e1.val = lamports[payer] - deficit
        /\ e2 \in PendingEffect /\ e2.do = "native_set_lamports" /\ e2.acct = a
        /\ e2.val = lamports[a] + deficit
    BY <1>2, <1>4, <1>5, <2>1 DEF NativeSetLamports, Effect, PendingEffect
  <2> HIDE DEF e1, e2, e3, deficit
  <2> DEFINE s == <<e1, e2, e3>>
  <2>3. s \in Seq(PendingEffect) /\ Len(s) = 3 /\ s[1] = e1 /\ s[2] = e2 /\ s[3] = e3
    BY <1>3, <2>2
  <2>4. Start("realloc_checked", a, payer, min, s)
    BY <1>1, <1>3, <1>5, <2>2, TwoAndOne
  <2> HIDE DEF s
  <2>5. s[1].val + s[2].val = lamports[a] + lamports[payer] /\ s[2].val >= min
    BY <1>0, <1>4, <1>5, <2>1, <2>2, <2>3
  <2>6. \A i \in 1 .. Len(s) : i # 1 /\ i # 2 => s[i].do \in Quiet
    BY <1>3, <2>3 DEF Quiet
  <2>7. PaysOut("realloc_checked", a, payer, min, s, 1, 2)
    BY <1>3, <2>2, <2>3, <2>5, <2>6 DEF PaysOut, Setter, Closings
  <2> QED BY <1>2, <1>5, <2>4, <2>7, PairSettles
<1>6. CASE ~(deficit > 0)
  <2>1. lamports[a] >= min
    BY <1>4, <1>6
  <2> HIDE DEF deficit, e3
  <2> DEFINE s == <<e3>>
  <2>2. s \in Seq(PendingEffect) /\ <<>> \o s = s /\ \A i \in 1 .. Len(s) : s[i].do \in Quiet
    BY <1>3, ConcatEmptySeq DEF Quiet
  <2> HIDE DEF s
  <2>3. Start("realloc_checked", a, payer, min, s)
    BY <1>1, <1>6, <2>2 DEF s
  <2> QED BY <2>1, <2>2, <2>3, QuietSettles DEF Reallocs
<1> QED BY <1>5, <1>6

\* The System program takes from the payer what it gives to the account.
LEMMA ResizeWithPayerSettles ==
  ASSUME MemoryInv, NEW a \in Account, NEW n \in Length, NEW payer \in Account,
         ResizeWithPayer(a, n, payer)
  PROVE  Settling'
<1> DEFINE min == LIVE_RENT[n]
           deficit == Deficit(a, min)
           e1 == SystemTransfer(payer, deficit)
           e2 == NativeResize(a, n)
<1>0. min \in Nat
  BY MemoryAssumption, Numbers
<1>1. Start("resize_with_payer", a, payer, min, (IF deficit > 0 THEN <<e1>> ELSE <<>>) \o <<e2>>)
  BY DEF ResizeWithPayer
<1>2. deficit > 0 => payer # a
  BY DEF ResizeWithPayer
<1>3. e2 \in PendingEffect /\ e2.do = "native_resize"
  BY Numbers DEF NativeResize, Effect, PendingEffect
<1> HIDE DEF min
<1>4. /\ deficit \in Nat /\ lamports[a] \in Nat
      /\ deficit > 0 => lamports[a] + deficit = min
      /\ deficit = 0 => lamports[a] >= min
  BY <1>0, DeficitMakesUp
<1>5. CASE deficit > 0
  <2>1. /\ e1 \in PendingEffect /\ e1.do = "system_transfer" /\ e1.acct = payer /\ e1.val = deficit
        /\ lamports \in [Account -> Int] /\ lamports[payer] \in Int
    BY <1>4, MemoryAssumption
       DEF SystemTransfer, Effect, PendingEffect, MemoryInv, Typed, Lamports
  <2> DEFINE final == [lamports EXCEPT ![payer] = @ - deficit, ![a] = @ + deficit]
  <2>2. /\ final \in [Account -> Int]
        /\ final[payer] = lamports[payer] - deficit /\ final[a] = lamports[a] + deficit
        /\ \A c \in Account : c # payer /\ c # a => final[c] = lamports[c]
    BY <1>2, <1>4, <1>5, <2>1
  <2> HIDE DEF e1, e2, deficit, final
  <2> DEFINE s == <<e1, e2>>
  <2>3. Len(s) = 2 /\ s[1] = e1 /\ s[2] = e2
    BY <1>3, <2>1
  <2>4. Start("resize_with_payer", a, payer, min, s)
    BY <1>1, <1>3, <1>5, <2>1, OneAndOne
  <2> HIDE DEF s
  <2>5. Forecast(s, a, lamports, final)
    <3>1. \A c \in Account : final[c] = lamports[c] \/ Stores(s[1], a, c)
      BY <2>1, <2>2, <2>3 DEF Stores
    <3>2. 1 \in 1 .. Len(s) /\ \A i \in 1 .. Len(s) : i = 1 \/ i = 2
      BY <2>3
    <3> QED BY <1>2, <1>3, <1>5, <2>1, <2>2, <2>3, <3>1, <3>2 DEF Forecast, Setter
  <2>6. Settled("resize_with_payer", a, payer, min, lamports, final)
    BY <1>0, <1>2, <1>4, <1>5, <2>1, <2>2 DEF Settled, Closings
  <2> QED BY <2>2, <2>4, <2>5, <2>6, StartSettles
<1>6. CASE ~(deficit > 0)
  <2>1. lamports[a] >= min
    BY <1>4, <1>6
  <2> HIDE DEF deficit, e2
  <2> DEFINE s == <<e2>>
  <2>2. s \in Seq(PendingEffect) /\ <<>> \o s = s /\ \A i \in 1 .. Len(s) : s[i].do \in Quiet
    BY <1>3, ConcatEmptySeq DEF Quiet
  <2> HIDE DEF s
  <2>3. Start("resize_with_payer", a, payer, min, s)
    BY <1>1, <1>6, <2>2 DEF s
  <2> QED BY <2>1, <2>2, <2>3, QuietSettles DEF Reallocs
<1> QED BY <1>5, <1>6

\* A realloc of hopper-core, and whatever quiet effects follow it.
LEMMA CoreReallocSettles ==
  ASSUME MemoryInv, NEW op \in Reallocs, NEW a \in Account, NEW n \in Length, NEW payer \in Account,
         NEW signed, Reallocable(a, n, payer, signed),
         NEW s \in Seq(PendingEffect), Start(op, a, payer, LIVE_RENT[n], s),
         NEW r, r = ReallocEffects(a, n, payer), Len(r) <= Len(s),
         \A i \in 1 .. Len(r) : s[i] = r[i],
         \A i \in 1 .. Len(s) : i > Len(r) => s[i].do \in Quiet
  PROVE  Settling'
<1> DEFINE min == LIVE_RENT[n]
           deficit == Deficit(a, min)
<1>0. min \in Nat
  BY MemoryAssumption, Numbers
<1>1. /\ deficit \in Nat /\ lamports[a] \in Nat /\ lamports[payer] \in Nat
      /\ deficit > 0 => lamports[a] + deficit = min
      /\ deficit = 0 => lamports[a] >= min
  BY <1>0, DeficitMakesUp, Numbers DEF MemoryInv, Typed
<1>2. /\ r \in Seq(PendingEffect) /\ Len(r) \in {1, 3} /\ r[1].do = "resize"
      /\ \A i \in 2 .. Len(r) : r[i].do = "set_lamports" /\ r[i].val \in Lamports
      /\ Len(r) = 1 => deficit = 0
      /\ Len(r) = 3 => /\ r[2].acct = payer /\ r[2].val = lamports[payer] - deficit
                       /\ r[3].acct = a /\ r[3].val = lamports[a] + deficit
  BY ReallocList DEF Reallocable
<1> HIDE DEF min, deficit
<1>3. Start(op, a, payer, min, s) /\ Len(s) \in Nat
  BY DEF min
<1>4. CASE Len(r) = 1
  <2>1. \A i \in 1 .. Len(s) : s[i].do \in Quiet
    <3>1. \A i \in 1 .. Len(s) : i = 1 \/ i > 1
      BY <1>3
    <3> QED BY <1>2, <1>4, <3>1 DEF Quiet
  <2> QED BY <1>1, <1>2, <1>3, <1>4, <2>1, QuietSettles
<1>5. CASE Len(r) = 3
  <2>1. /\ s[1].do = "resize" /\ s[2].do = "set_lamports" /\ s[3].do = "set_lamports"
        /\ s[2].acct = payer /\ s[2].val = lamports[payer] - deficit
        /\ s[3].acct = a /\ s[3].val = lamports[a] + deficit
    BY <1>2, <1>5
  <2>2. s[3].val >= min /\ s[2].val + s[3].val = lamports[a] + lamports[payer]
    BY <1>0, <1>1, <2>1
  <2>3. \A i \in 1 .. Len(s) : i = 1 \/ i = 2 \/ i = 3 \/ i > 3
    BY <1>3
  <2>4. \A i \in 1 .. Len(s) : i # 2 /\ i # 3 => s[i].do \in Quiet
    BY <1>5, <2>1, <2>3 DEF Quiet
  <2>5. \A i \in 1 .. Len(s) : s[i].do \in {"close", "native_close"} => s[i].val = 0
    BY <2>1, <2>4 DEF Quiet
  <2>6. PaysOut(op, a, payer, min, s, 2, 3)
    BY <1>3, <1>5, <2>1, <2>2, <2>4, <2>5 DEF PaysOut, Setter, Reallocs, Closings
  <2> QED BY <1>3, <2>6, PairSettles
<1> QED BY <1>2, <1>4, <1>5

LEMMA SafeReallocSettles ==
  ASSUME MemoryInv, NEW a \in Account, NEW n \in Length, NEW min_size, NEW payer \in Account,
         NEW checked \in BOOLEAN, NEW signed \in BOOLEAN,
         SafeRealloc(a, n, min_size, payer, checked, signed)
  PROVE  Settling'
<1> DEFINE s == ReallocEffects(a, n, payer)
<1>1. Start("safe_realloc", a, payer, LIVE_RENT[n], s) /\ Reallocable(a, n, payer, signed)
  BY DEF SafeRealloc
<1>2. s \in Seq(PendingEffect)
  BY <1>1, ReallocList DEF Reallocable
<1> HIDE DEF s
<1>3. Len(s) <= Len(s) /\ \A i \in 1 .. Len(s) : ~(i > Len(s))
  BY <1>2
<1> QED BY <1>1, <1>2, <1>3, CoreReallocSettles DEF Reallocs, s

LEMMA MigrateAppendSettles ==
  ASSUME MemoryInv, NEW a \in Account, NEW n \in Length, NEW payer \in Account,
         MigrateAppend(a, n, payer)
  PROVE  Settling'
<1> DEFINE r == ReallocEffects(a, n, payer)
           h == WriteHeader(a, 2)
           s == r \o <<h>>
<1>1. Start("migrate_append", a, payer, LIVE_RENT[n], s) /\ Reallocable(a, n, payer, TRUE)
  BY DEF MigrateAppend
<1>2. r \in Seq(PendingEffect) /\ h \in PendingEffect /\ h.do = "write_header"
  <2>1. r \in Seq(PendingEffect)
    BY <1>1, ReallocList DEF Reallocable
  <2>2. h \in PendingEffect /\ h.do = "write_header"
    BY DEF WriteHeader, Effect, PendingEffect, Gated
  <2> QED BY <2>1, <2>2
<1> HIDE DEF r, h
<1>3. <<h>> \in Seq(PendingEffect) /\ Len(<<h>>) = 1 /\ <<h>>[1] = h
  BY <1>2
<1>4. /\ s \in Seq(PendingEffect) /\ Len(s) = Len(r) + 1
      /\ \A i \in 1 .. Len(r) + 1 : s[i] = IF i <= Len(r) THEN r[i] ELSE <<h>>[i - Len(r)]
  BY <1>2, <1>3, ConcatProperties
<1> HIDE DEF s
<1>5. /\ Len(r) <= Len(s) /\ \A i \in 1 .. Len(r) : s[i] = r[i]
      /\ \A i \in 1 .. Len(s) : i > Len(r) => s[i].do \in Quiet
  <2>1. s[Len(r) + 1] = h
    BY <1>2, <1>3, <1>4
  <2>2. \A i \in 1 .. Len(s) : i > Len(r) => i = Len(r) + 1
    BY <1>2, <1>4
  <2> QED BY <1>2, <1>4, <2>1, <2>2 DEF Quiet
<1>6. "migrate_append" \in Reallocs
  BY DEF Reallocs
<1> QED BY <1>1, <1>4, <1>5, <1>6, CoreReallocSettles DEF r

\* What the balances and the bytes of a call have to do with its end.
SettleInv == MemoryInv /\ Settling /\ Blanking

\* A call that names no balance to settle and no account to blank.
LEMMA OtherCallsSettle ==
  ASSUME NEW op, NEW a, NEW peer, NEW min, NEW effects, Start(op, a, peer, min, effects)
  PROVE  /\ op \notin Moves \cup Reallocs \cup Closings \cup {"close"} => Settling'
         /\ op \notin Closings \cup {"close"} => Blanking'
<1>1. call'.op = op
  BY DEF Start
<1> QED BY <1>1 DEF Settling, Blanking

\* Every call starts with its balances settled in what it is about to do.
LEMMA CallsSettle ==
  ASSUME MemoryInv, Calls
  PROVE  Settling' /\ Blanking'
<1> USE MemoryAssumption
<1>1. ASSUME NEW a, NEW x, TrySetLamports(a, x) PROVE Settling' /\ Blanking'
  BY <1>1, OtherCallsSettle DEF TrySetLamports, Moves, Reallocs, Closings
<1>2. ASSUME NEW a \in Account, NEW b \in Account, NEW x \in Amount,
             TransferLamports(a, b, x) \/ NativeTransfer(a, b, x)
      PROVE  Settling' /\ Blanking'
  <2>1. Settling'
    BY <1>2, TransfersSettle
  <2>2. Blanking'
    BY <1>2, OtherCallsSettle DEF TransferLamports, NativeTransfer, Closings
  <2> QED BY <2>1, <2>2
<1>3. ASSUME NEW a \in Account, CallClose(a) PROVE Settling' /\ Blanking'
  BY <1>3, CloseSettles
<1>4. ASSUME NEW a, NEW n, ZeroAccountData(a) \/ CallResize(a, n) \/ CallResizeRaw(a, n) PROVE Settling' /\ Blanking'
  BY <1>4, OtherCallsSettle DEF ZeroAccountData, CallResize, CallResizeRaw, Moves, Reallocs, Closings
<1>5. ASSUME NEW a, NEW n, NEW m, ZeroAppended(a, n) \/ ZeroRange(a, n, m) PROVE Settling' /\ Blanking'
  BY <1>5 DEF ZeroAppended, ZeroRange, ZeroBytes, Idle, Settling, Blanking
<1>6. ASSUME NEW a \in Account, NEW dest \in Account, NEW checked \in BOOLEAN, NEW sentinel \in BOOLEAN,
             CloseTo(a, dest, checked) \/ CloseAndTransfer(a, dest) \/ SafeClose(a, dest, checked, sentinel)
      PROVE  Settling' /\ Blanking'
  BY <1>6, CloseToSettles, CloseAndTransferSettles, SafeCloseSettles
<1>7. ASSUME NEW a \in Account, NEW n \in Length, NEW payer \in Account \cup {NoAccount},
             NEW rent \in {LAUNCH_RENT, LIVE_RENT}, ReallocChecked(a, n, payer, rent)
      PROVE  Settling' /\ Blanking'
  <2>1. Settling'
    BY <1>7, ReallocCheckedSettles
  <2>2. Blanking'
    BY <1>7, OtherCallsSettle DEF ReallocChecked, Closings
  <2> QED BY <2>1, <2>2
<1>8. ASSUME NEW a \in Account, NEW n \in Length, NEW payer \in Account,
             ResizeWithPayer(a, n, payer) \/ MigrateAppend(a, n, payer)
      PROVE  Settling' /\ Blanking'
  <2>1. Settling'
    BY <1>8, ResizeWithPayerSettles, MigrateAppendSettles
  <2>2. Blanking'
    <3>1. CASE ResizeWithPayer(a, n, payer)
      BY <3>1, OtherCallsSettle DEF ResizeWithPayer, Closings
    <3>2. CASE MigrateAppend(a, n, payer)
      BY <3>2, OtherCallsSettle DEF MigrateAppend, Closings
    <3> QED BY <1>8, <3>1, <3>2
  <2> QED BY <2>1, <2>2
<1>9. ASSUME NEW a \in Account, NEW n \in Length, NEW payer \in Account, NEW min_size,
             NEW checked \in BOOLEAN, NEW signed \in BOOLEAN,
             SafeRealloc(a, n, min_size, payer, checked, signed)
      PROVE  Settling' /\ Blanking'
  <2>1. Settling'
    BY <1>9, SafeReallocSettles
  <2>2. Blanking'
    BY <1>9, OtherCallsSettle DEF SafeRealloc, Closings
  <2> QED BY <2>1, <2>2
<1>10. CASE \E a \in Account, x \in Amount : TrySetLamports(a, x)
  BY <1>1, <1>10
<1>11. CASE \E a, b \in Account, x \in Amount : TransferLamports(a, b, x) \/ NativeTransfer(a, b, x)
  BY <1>2, <1>11
<1>12. ASSUME NEW a \in Stateful, CallClose(a) \/ ZeroAccountData(a) PROVE Settling' /\ Blanking'
  BY <1>3, <1>4, <1>12
<1>13. ASSUME NEW a \in Stateful, NEW n \in Length,
              CallResize(a, n) \/ CallResizeRaw(a, n) \/ ZeroAppended(a, n)
       PROVE  Settling' /\ Blanking'
  BY <1>4, <1>5, <1>13
<1>14. ASSUME NEW a \in Stateful, NEW n \in Length, NEW m \in Length, ZeroRange(a, n, m)
       PROVE  Settling' /\ Blanking'
  BY <1>5, <1>14
<1>15. ASSUME NEW a \in Stateful, NEW dest \in Account, NEW checked \in BOOLEAN,
              CloseTo(a, dest, checked) \/ CloseAndTransfer(a, dest)
       PROVE  Settling' /\ Blanking'
  BY <1>6, <1>15
<1>16. ASSUME NEW a \in Stateful, NEW n \in Length, NEW payer \in Account,
              ResizeWithPayer(a, n, payer) \/ MigrateAppend(a, n, payer)
       PROVE  Settling' /\ Blanking'
  BY <1>8, <1>16
<1>17. ASSUME NEW a \in Stateful, NEW n \in Length, NEW payer \in Account, NEW min_size \in {0, 1},
              NEW checked \in BOOLEAN, NEW signed \in BOOLEAN,
              SafeRealloc(a, n, min_size, payer, checked, signed)
       PROVE  Settling' /\ Blanking'
  BY <1>9, <1>17
<1> QED BY <1>6, <1>7, <1>10, <1>11, <1>12, <1>13, <1>14, <1>15, <1>16, <1>17 DEF Calls

\* Every step keeps it.
THEOREM SettleInvariant == Spec => []SettleInv
<1>1. Init => SettleInv
  BY InitMemory DEF Init, SettleInv, Settling, Blanking
<1>2. SettleInv /\ [Next]_vars => SettleInv'
  <2> SUFFICES ASSUME SettleInv, [Next]_vars PROVE Settling' /\ Blanking'
    BY NextMemory DEF SettleInv
  <2>1. CASE Calls
    BY <2>1, CallsSettle DEF SettleInv
  <2>2. CASE Effects
    BY <2>2, EffectsSettle, EffectsKeepBlanking DEF SettleInv
  <2>3. CASE Handler
    BY <2>3 DEF Handler, TryBorrow, TryBorrowMut, DropBorrow, Borrowed, WriteThrough, ChangeGate, Idle,
       Settling, Blanking
  <2>4. CASE UNCHANGED vars
    BY <2>4 DEF vars, accounts, SettleInv, Settling, Blanking, Blank, Visible
  <2> QED BY <2>1, <2>2, <2>3, <2>4 DEF Next
<1> QED BY <1>1, <1>2, PTL DEF Spec

\* No call that moves lamports and returns Ok mints or burns any, whichever path
\* it takes and whoever pays: what one account loses the other gains, and no third
\* one is touched (close_to, batch::transfer_lamports, safe_realloc, ...).
THEOREM NothingMintedOrBurnt == Spec => LamportsConserved
<1> DEFINE Moving == {"close_to", "transfer_lamports", "native_transfer",
              "close_and_transfer", "realloc_checked", "resize_with_payer", "safe_close",
              "safe_realloc", "migrate_append"}
<1>1. SettleInv /\ [Next]_vars =>
        [\A a, b \in Account :
           (call # Nothing /\ Returned(Moving) /\ call.acct = a /\ call.peer = b /\ a # b)
             => Pays(a, b)]_vars
  <2> SUFFICES ASSUME SettleInv, [Next]_vars, NEW a \in Account, NEW b \in Account,
                      Returned(Moving), call.acct = a, call.peer = b, a # b
               PROVE  Pays(a, b)
    OBVIOUS
  <2>1. /\ Returned(Moves \cup Reallocs \cup Closings \cup {"close"})
        /\ call.op \in Moves \cup Reallocs \cup Closings
    BY DEF Returned, Moves, Reallocs, Closings
  <2>2. PICK final \in [Account -> Int] :
          /\ \A c \in Account : lamports'[c] = final[c]
          /\ Settled(call.op, call.acct, call.peer, call.min, before.lamports, final)
    BY <2>1, ReturnSettles DEF SettleInv
  <2> QED BY <2>1, <2>2 DEF Settled, Pays
<1> QED BY <1>1, SettleInvariant, PTL DEF Spec, LamportsConserved

\* A realloc that returns Ok leaves the account exempt, by the rent it was told to
\* use, whatever was resized or paid first.
THEOREM ReallocsLeaveExempt == Spec => ReallocLeavesExempt
<1>1. SettleInv /\ [Next]_vars =>
        [Returned({"realloc_checked", "resize_with_payer", "safe_realloc", "migrate_append"})
           => lamports'[call.acct] >= call.min]_vars
  <2> SUFFICES ASSUME SettleInv, [Next]_vars, Returned(Reallocs)
               PROVE  lamports'[call.acct] >= call.min
    BY DEF Reallocs
  <2>1. Returned(Moves \cup Reallocs \cup Closings \cup {"close"})
    BY DEF Returned
  <2>2. PICK final \in [Account -> Int] :
          /\ \A c \in Account : lamports'[c] = final[c]
          /\ Settled(call.op, call.acct, call.peer, call.min, before.lamports, final)
    BY <2>1, ReturnSettles DEF SettleInv
  <2>3. call.acct \in Account /\ call.op \in Reallocs
    BY DEF Returned, Finished, SettleInv, MemoryInv, Underway, Ready
  <2> QED BY <2>2, <2>3 DEF Settled
<1> QED BY <1>1, SettleInvariant, PTL DEF Spec, ReallocLeavesExempt

\* A close that returns Ok leaves no lamports and no bytes but the sentinel, in
\* all four ways to close an account.
THEOREM ClosesLeaveBlank == Spec => ClosedIsBlank
<1>1. SettleInv /\ [Next]_vars =>
        [Returned({"close", "close_to", "close_and_transfer", "safe_close"})
           => /\ lamports'[call.acct] = 0
              /\ \A i \in Offset : i < len'[call.acct] =>
                   data'[call.acct][i] = 0 \/ (i = 0 /\ data'[call.acct][i] = CLOSE_SENTINEL)]_vars
  <2> SUFFICES ASSUME SettleInv, [Next]_vars, Returned(Closings \cup {"close"})
               PROVE  /\ lamports'[call.acct] = 0
                      /\ \A i \in Offset : i < len'[call.acct] =>
                           data'[call.acct][i] = 0 \/ (i = 0 /\ data'[call.acct][i] = CLOSE_SENTINEL)
    BY DEF Closings, Returned
  <2>1. /\ Returned(Moves \cup Reallocs \cup Closings \cup {"close"})
        /\ todo # <<>> /\ todo' = <<>> /\ Performable(todo[1]) /\ call.op \in Closings \cup {"close"}
    BY DEF Returned, Finished
  <2>2. PICK final \in [Account -> Int] :
          /\ \A c \in Account : lamports'[c] = final[c]
          /\ Settled(call.op, call.acct, call.peer, call.min, before.lamports, final)
    BY <2>1, ReturnSettles DEF SettleInv
  <2>3. call.acct \in Account /\ todo \in Seq(PendingEffect)
    BY <2>1 DEF SettleInv, MemoryInv, Underway, Ready
  <2>4. lamports'[call.acct] = 0
    BY <2>1, <2>2, <2>3 DEF Settled
  <2>5. Effects /\ Advance
    <3>1. Effects
      BY <2>1, ReturnsByEffect DEF Finished
    <3> QED BY <2>1, <3>1, EffectsStore DEF SettleInv
  <2>6. Len(todo) = 1 /\ 1 \in 1 .. Len(todo)
    BY <2>1, <2>3, <2>5, HeadAndTail DEF Advance
  <2>7. todo[1].do \in SparesBlank /\ (Blank(call.acct) \/ Blanks(todo[1], call.acct))
    <3>1. \A i \in 1 .. Len(todo) : i = 1
      BY <2>6
    <3> QED BY <2>1, <2>6, <3>1 DEF SettleInv, Blanking
  <2>8. \A a \in Account : Blank(a) \/ Blanks(todo[1], a) => Blank(a)'
    BY <2>1, <2>5, <2>7, EffectsBlank DEF SettleInv
  <2>9. \A i \in Offset : i < len'[call.acct] =>
          data'[call.acct][i] = 0 \/ (i = 0 /\ data'[call.acct][i] = CLOSE_SENTINEL)
    BY <2>3, <2>7, <2>8 DEF Blank, Visible
  <2> QED BY <2>4, <2>9
<1> QED BY <1>1, SettleInvariant, PTL DEF Spec, ClosedIsBlank
=============================================================================
