---------------------------- MODULE AccountMemory ----------------------------
(***************************************************************************)
(* What one instruction does to the accounts the loader mapped: resizes,   *)
(* closes, lamport moves, zeroing and appending migrations, of all three   *)
(* layers (hopper-native, hopper-runtime, hopper-core), with data borrows  *)
(* live in between and an ambient gate installed.                          *)
(*                                                                         *)
(* A call checks its preconditions and computes every value it is going to *)
(* store, then applies its effects one after the other.  Most effects are  *)
(* fallible again, so a call may stop half way; what it did stays, since   *)
(* the handler may catch the error.  A call its preconditions refuse       *)
(* changes nothing and is no step.  `call` is the call under way, `todo`   *)
(* its effects still to come.                                              *)
(*                                                                         *)
(* The gate is what AmbientGates promises: a verdict that depends on the   *)
(* account and the kind of write alone; without a gate everything is       *)
(* granted.  A borrow is what AccountGuards promises.  The unsafe          *)
(* *_unchecked methods of the native layer are the caller's business.      *)
(***************************************************************************)
EXTENDS Naturals, Sequences

CONSTANTS
  Account,       \* addresses
  Stateful,      \* those whose data the program resizes, borrows and closes
  Entry,         \* what the loader may map: [Account -> header and lamports]
  Gate,          \* [lamports : SUBSET Account, body : [Account -> SUBSET Offset]]
  MAX_PERMITTED_DATA_INCREASE,
  MaxLen,        \* bound: the longest data mapped
  U64_MAX,
  LAUNCH_RENT, LIVE_RENT,   \* [Length -> lamports], the constants and the sysvar
  Amount,        \* the balances and amounts a program names
  PROGRAM, SYSTEM, NoAccount

Capacity == MaxLen + MAX_PERMITTED_DATA_INCREASE
Length == 0 .. Capacity + 1          \* one past what any resize may reach
Offset == 0 .. Capacity              \* offsets of the data, its reserve and one past it
Lamports == 0 .. U64_MAX

\* Byte values: byte 0 of a layout is its version, of a closed account the
\* sentinel.
Versions == {1, 2}
CLOSE_SENTINEL == 3
Byte == {0, CLOSE_SENTINEL} \cup Versions

Mapped == [writable : BOOLEAN, signer : BOOLEAN, owner : {PROGRAM, SYSTEM},
           lamports : Lamports, len : 0 .. MaxLen]

ASSUME MemoryAssumption ==
  /\ Stateful \subseteq Account /\ NoAccount \notin Account
  /\ MAX_PERMITTED_DATA_INCREASE \in Nat /\ MaxLen \in Nat /\ U64_MAX \in Nat
  /\ Entry \subseteq [Account -> Mapped]
  /\ Gate \subseteq [lamports : SUBSET Account, body : [Account -> SUBSET Offset]]
  /\ LAUNCH_RENT \in [Length -> Lamports] /\ LIVE_RENT \in [Length -> Lamports]
  /\ Amount \subseteq Lamports
  /\ PROGRAM # SYSTEM

VARIABLES
  entry,      \* the headers at entry: flags, and the resize baseline `len`
  lamports, len, owner,
  data,       \* [Account -> [Offset -> Byte]], the growth reserve included
  borrow,     \* [Account -> "free", "shared" or "exclusive"]
  gate,       \* the verdicts of the governing gate
  call, todo,
  before,     \* the accounts when the call began (history)
  cut         \* the bytes a shrink cut off and nothing wrote since (history)

accounts == <<lamports, len, owner, data>>
vars == <<entry, accounts, borrow, gate, call, todo, before, cut>>

Snapshot == [lamports |-> lamports, len |-> len, owner |-> owner, data |-> data]
Nothing == [op |-> "none"]

-----------------------------------------------------------------------------
(* Preconditions *)

IsWritable(a) == entry[a].writable
IsSigner(a) == entry[a].signer
OwnedByProgram(a) == owner[a] = PROGRAM

MutantToleratesReaders(a) == borrow[a] # "exclusive"

CheckBorrowMut(a) == borrow[a] = "free"
CheckBorrow(a) == borrow[a] # "exclusive"

LamportsAllowed(a) == a \in gate.lamports

MutantAnyAuthority(a) == gate.body[a] # {} \/ a \in gate.lamports

TransitionAllowed(a) == gate.body[a] # {}
DataAllowed(a, range) == range \subseteq gate.body[a]

Visible(a) == {i \in Offset : i < len[a]}

\* try_borrow_mut: an empty account asks the gate for nothing.
WholeBorrowAllowed(a) == DataAllowed(a, Visible(a)) /\ CheckBorrowMut(a)

MutantFromCurrentLength(a, n) ==
  n # len[a] => /\ IsWritable(a) /\ CheckBorrowMut(a)
                /\ n <= len[a] + MAX_PERMITTED_DATA_INCREASE

CheckResize(a, n) ==
  n # len[a] => /\ IsWritable(a) /\ CheckBorrowMut(a)
                /\ n <= entry[a].len + MAX_PERMITTED_DATA_INCREASE

CreditFits(a, amount) == lamports[a] + amount <= U64_MAX

-----------------------------------------------------------------------------
(* Effects.  The gated ones are hopper-runtime's, the native ones cross no *)
(* gate.                                                                    *)

Effect(do, a, x) == [do |-> do, acct |-> a, val |-> x]

SetLamports(a, x)      == Effect("set_lamports", a, x)
NativeSetLamports(a, x) == Effect("native_set_lamports", a, x)
SystemTransfer(payer, x) == Effect("system_transfer", payer, x)
Resize(a, n)           == Effect("resize", a, n)
ResizeRaw(a, n)        == Effect("resize_raw", a, n)
NativeResize(a, n)     == Effect("native_resize", a, n)
ZeroData(a)            == Effect("zero_data", a, 0)
ZeroInit(a)            == Effect("zero_init", a, 0)
WriteCloseSentinel(a)  == Effect("write_close_sentinel", a, 0)
WriteHeader(a, v)      == Effect("write_header", a, v)
Close(a)               == Effect("close", a, 0)
NativeClose(a)         == Effect("native_close", a, 0)

Next1 == todo[1]
Doing(kinds) == todo # <<>> /\ todo[1].do \in kinds

\* What each effect checks again when its turn comes.
Performable(e) ==
  /\ e.do \in {"set_lamports", "close"} => LamportsAllowed(e.acct)
  /\ e.do \in {"resize", "resize_raw", "close"} => TransitionAllowed(e.acct)
  /\ e.do \in {"resize", "resize_raw", "native_resize"} => CheckResize(e.acct, e.val)
  /\ e.do \in {"close", "native_close"} => IsWritable(e.acct)
  /\ e.do \in {"close", "native_close", "zero_data"} => CheckBorrowMut(e.acct)
  /\ e.do \in {"zero_init", "write_close_sentinel", "write_header"} => WholeBorrowAllowed(e.acct)
  /\ e.do = "system_transfer" => /\ IsSigner(e.acct) /\ lamports[e.acct] >= e.val
                                 /\ IsWritable(e.acct) /\ IsWritable(call.acct)
                                 /\ CheckBorrowMut(e.acct) /\ CheckBorrowMut(call.acct)

\* The bytes of `range` become x.
Stored(a, range, x) == [data EXCEPT ![a] = [i \in Offset |-> IF i \in range THEN x ELSE @[i]]]

Advance ==
  /\ todo' = Tail(todo)
  /\ IF Len(todo) = 1 THEN call' = Nothing /\ before' = Nothing ELSE UNCHANGED <<call, before>>
  /\ UNCHANGED <<entry, borrow, gate>>

PerformSetLamports ==
  /\ Doing({"set_lamports", "native_set_lamports"}) /\ Performable(Next1)
  /\ lamports' = [lamports EXCEPT ![Next1.acct] = Next1.val]
  /\ Advance /\ UNCHANGED <<len, owner, data, cut>>

PerformSystemTransfer ==
  /\ Doing({"system_transfer"}) /\ Performable(Next1)
  /\ lamports' = [lamports EXCEPT ![Next1.acct] = @ - Next1.val, ![call.acct] = @ + Next1.val]
  /\ Advance /\ UNCHANGED <<len, owner, data, cut>>

Between(m, n) == {i \in Offset : m <= i /\ i < n}

MutantZeroFill(a, n) == Between(len[a] + 1, n)

\* resize zeroes what a growth exposes, resize_raw leaves it to the caller.
ZeroFill(a, n) == Between(len[a], n)

PerformResize ==
  /\ Doing({"resize", "native_resize", "resize_raw"}) /\ Performable(Next1)
  /\ LET a == Next1.acct
         n == Next1.val
         raw == Next1.do = "resize_raw"
     IN  /\ data' = IF raw THEN data ELSE Stored(a, ZeroFill(a, n), 0)
         /\ len' = [len EXCEPT ![a] = n]
         /\ cut' = [cut EXCEPT ![a] = IF n < len[a] THEN @ \cup Between(n, len[a])
                                      ELSE IF raw THEN @ \ Between(len[a], n) ELSE @]
  /\ Advance /\ UNCHANGED <<lamports, owner>>

PerformClose ==
  /\ Doing({"close", "native_close"}) /\ Performable(Next1)
  /\ LET a == Next1.acct
     IN  /\ lamports' = [lamports EXCEPT ![a] = 0]
         /\ data' = Stored(a, Visible(a), 0)
         /\ len' = [len EXCEPT ![a] = 0]
         /\ owner' = [owner EXCEPT ![a] = SYSTEM]
         /\ cut' = [cut EXCEPT ![a] = @ \cup Visible(a)]
  /\ Advance

PerformZero ==
  /\ Doing({"zero_data", "zero_init"}) /\ Performable(Next1)
  /\ data' = Stored(Next1.acct, Visible(Next1.acct), 0)
  /\ Advance /\ UNCHANGED <<lamports, len, owner, cut>>

PerformSentinel ==
  /\ Doing({"write_close_sentinel"}) /\ Performable(Next1)
  /\ LET first == Visible(Next1.acct) \cap {0}
     IN  /\ data' = Stored(Next1.acct, first, CLOSE_SENTINEL)
         /\ cut' = [cut EXCEPT ![Next1.acct] = @ \ first]
  /\ Advance /\ UNCHANGED <<lamports, len, owner>>

\* The tail of migrate_append: the new header, and the appended region zeroed
\* once more under the same borrow.
PerformHeader ==
  /\ Doing({"write_header"}) /\ Performable(Next1)
  /\ LET a == Next1.acct
         tail == Between(before.len[a], len[a])
     IN  /\ data' = [data EXCEPT ![a] = [i \in Offset |-> IF i = 0 THEN Next1.val
                                          ELSE IF i \in tail THEN 0 ELSE @[i]]]
         /\ cut' = [cut EXCEPT ![a] = @ \ {0}]
  /\ Advance /\ UNCHANGED <<lamports, len, owner>>

\* An effect is refused: the call returns the error, and nothing is undone.
Fail ==
  /\ todo # <<>> /\ ~Performable(Next1)
  /\ todo' = <<>> /\ call' = Nothing /\ before' = Nothing
  /\ UNCHANGED <<entry, accounts, borrow, gate, cut>>

-----------------------------------------------------------------------------
(* Calls *)

Idle == todo = <<>>

Start(op, a, peer, min, effects) ==
  /\ Idle
  /\ call' = [op |-> op, acct |-> a, peer |-> peer, min |-> min]
  /\ todo' = effects /\ before' = Snapshot
  /\ UNCHANGED <<entry, accounts, borrow, gate, cut>>

\* AccountView::try_set_lamports, resize, resize_raw and close.
TrySetLamports(a, x) == Start("try_set_lamports", a, NoAccount, 0, <<SetLamports(a, x)>>)

CallResize(a, n) == Start("resize", a, NoAccount, 0, <<Resize(a, n)>>)

CallResizeRaw(a, n) == Start("resize_raw", a, NoAccount, 0, <<ResizeRaw(a, n)>>)

CallClose(a) == Start("close", a, NoAccount, 0, <<Close(a)>>)

MutantPreflight(a, dest) ==
  /\ a # dest
  /\ CheckBorrowMut(a) /\ IsWritable(a)
  /\ LamportsAllowed(a)
  /\ CreditFits(dest, lamports[a])

\* close_to_preflighted: everything that may refuse comes before the data is
\* zeroed.
ClosePreflight(a, dest) ==
  /\ a # dest
  /\ CheckBorrowMut(a) /\ IsWritable(a)
  /\ LamportsAllowed(a) /\ LamportsAllowed(dest)
  /\ CreditFits(dest, lamports[a])

MutantReadsBalanceLate(a, dest, checked) ==
  /\ TransitionAllowed(a)
  /\ checked => IsWritable(a) /\ OwnedByProgram(a) /\ IsWritable(dest)
  /\ ClosePreflight(a, dest)
  /\ Start("close_to", a, dest, 0,
           <<ZeroData(a), SetLamports(a, 0), SetLamports(dest, lamports[dest])>>)

\* close_to, and close_to_unchecked, which omits two checks.
CloseTo(a, dest, checked) ==
  /\ TransitionAllowed(a)
  /\ checked => IsWritable(a) /\ OwnedByProgram(a) /\ IsWritable(dest)
  /\ ClosePreflight(a, dest)
  /\ Start("close_to", a, dest, 0,
           <<ZeroData(a), SetLamports(a, 0), SetLamports(dest, lamports[dest] + lamports[a])>>)

\* lamports::transfer_lamports.  A transfer to oneself changes nothing.
TransferLamports(from, to, amount) ==
  /\ LamportsAllowed(from) /\ LamportsAllowed(to)
  /\ IsWritable(from) /\ IsWritable(to)
  /\ from # to
  /\ lamports[from] >= amount /\ CreditFits(to, amount)
  /\ Start("transfer_lamports", from, to, 0,
           <<SetLamports(from, lamports[from] - amount), SetLamports(to, lamports[to] + amount)>>)

\* What batch::transfer_lamports asks.
NativeTransferable(from, to, amount) ==
  /\ IsWritable(from) /\ IsWritable(to)
  /\ lamports[from] >= amount
  /\ from # to => CreditFits(to, amount)

NativeMove(from, to, amount) ==
  <<NativeSetLamports(from, lamports[from] - amount), NativeSetLamports(to, lamports[to] + amount)>>

NativeTransfer(from, to, amount) ==
  /\ NativeTransferable(from, to, amount)
  /\ from # to
  /\ Start("native_transfer", from, to, 0, NativeMove(from, to, amount))

CloseAndTransfer(a, dest) ==
  /\ a # dest
  /\ IsWritable(a) /\ IsWritable(dest)
  /\ CheckBorrowMut(a) /\ CreditFits(dest, lamports[a])
  /\ Start("close_and_transfer", a, dest, 0,
           <<NativeClose(a), NativeSetLamports(dest, lamports[dest] + lamports[a])>>)

Deficit(a, min) == IF lamports[a] < min THEN min - lamports[a] ELSE 0

\* batch::realloc_checked with the constants, realloc_checked_with with the
\* sysvar.
ReallocChecked(a, n, payer, rent) ==
  LET deficit == Deficit(a, rent[n])
  IN  /\ CheckResize(a, n)
      /\ deficit > 0 => /\ payer # NoAccount /\ payer # a
                        /\ NativeTransferable(payer, a, deficit)
      /\ Start("realloc_checked", a, payer, rent[n],
               (IF deficit > 0 THEN NativeMove(payer, a, deficit) ELSE <<>>)
                 \o <<NativeResize(a, n)>>)

\* batch::ResizeWithPayer: the deficit is paid by System CPI.
ResizeWithPayer(a, n, payer) ==
  LET deficit == Deficit(a, LIVE_RENT[n])
  IN  /\ OwnedByProgram(a) /\ IsWritable(a) /\ CheckResize(a, n)
      /\ deficit > 0 => payer # a /\ owner[payer] = SYSTEM /\ len[payer] = 0
      /\ Start("resize_with_payer", a, payer, LIVE_RENT[n],
               (IF deficit > 0 THEN <<SystemTransfer(payer, deficit)>> ELSE <<>>)
                 \o <<NativeResize(a, n)>>)

MutantSentinelOnly(a, dest, checked, sentinel) ==
  /\ checked => IsWritable(a) /\ OwnedByProgram(a) /\ IsWritable(dest)
  /\ a # dest
  /\ WholeBorrowAllowed(a)
  /\ CreditFits(dest, lamports[a])
  /\ Start("safe_close", a, dest, 0,
           <<SetLamports(dest, lamports[dest] + lamports[a]), SetLamports(a, 0)>>
             \o (IF sentinel THEN <<WriteCloseSentinel(a)>> ELSE <<ZeroInit(a)>>))

\* lifecycle::safe_close and its variants: checked or not, with a sentinel or
\* not.  The probing borrow asks the gate for the whole account.
SafeClose(a, dest, checked, sentinel) ==
  /\ checked => IsWritable(a) /\ OwnedByProgram(a) /\ IsWritable(dest)
  /\ a # dest
  /\ WholeBorrowAllowed(a)
  /\ CreditFits(dest, lamports[a])
  /\ Start("safe_close", a, dest, 0,
           <<SetLamports(dest, lamports[dest] + lamports[a]), SetLamports(a, 0), ZeroInit(a)>>
             \o (IF sentinel THEN <<WriteCloseSentinel(a)>> ELSE <<>>))

\* lifecycle::safe_realloc_unchecked.
Reallocable(a, n, payer, signed) ==
  LET deficit == Deficit(a, LIVE_RENT[n])
  IN  /\ deficit > 0 => /\ IsWritable(payer) /\ (signed => IsSigner(payer))
                        /\ lamports[payer] >= deficit
                        /\ CreditFits(a, deficit)
      /\ CheckBorrowMut(a)

MutantRentOfOldLength(a, n, payer) ==
  LET deficit == Deficit(a, LIVE_RENT[len[a]])
  IN  <<Resize(a, n)>> \o
        IF deficit > 0 THEN <<SetLamports(payer, lamports[payer] - deficit),
                              SetLamports(a, lamports[a] + deficit)>>
                       ELSE <<>>

ReallocEffects(a, n, payer) ==
  LET deficit == Deficit(a, LIVE_RENT[n])
  IN  <<Resize(a, n)>> \o
        IF deficit > 0 THEN <<SetLamports(payer, lamports[payer] - deficit),
                              SetLamports(a, lamports[a] + deficit)>>
                       ELSE <<>>

\* safe_realloc, safe_realloc_bounded (min_size > 0) and the unchecked one.
SafeRealloc(a, n, min_size, payer, checked, signed) ==
  /\ n >= min_size
  /\ checked => IsWritable(a) /\ OwnedByProgram(a) /\ signed
  /\ Reallocable(a, n, payer, signed)
  /\ Start("safe_realloc", a, payer, LIVE_RENT[n], ReallocEffects(a, n, payer))

\* migrate::migrate_append, from version 1 of a layout to version 2.
MigrateAppend(a, n, payer) ==
  /\ OwnedByProgram(a) /\ IsWritable(a)
  /\ CheckBorrow(a) /\ len[a] > 0
  /\ data[a][0] = 1
  /\ n > len[a]
  /\ Reallocable(a, n, payer, TRUE)
  /\ Start("migrate_append", a, payer, LIVE_RENT[n],
           ReallocEffects(a, n, payer) \o <<WriteHeader(a, 2)>>)

\* mem::zero_account_data and batch::zero_data; AccountView::zero_range;
\* zero_appended, under the authority that created the bytes.
ZeroAccountData(a) == Start("zero_account_data", a, NoAccount, 0, <<ZeroData(a)>>)

ZeroBytes(a, range) ==
  /\ Idle /\ range # {}
  /\ CheckBorrowMut(a)
  /\ data' = Stored(a, range, 0)
  /\ UNCHANGED <<entry, lamports, len, owner, borrow, gate, call, todo, before, cut>>

ZeroRange(a, start, n) ==
  /\ start + n <= len[a]
  /\ DataAllowed(a, Between(start, start + n))
  /\ ZeroBytes(a, Between(start, start + n))

ZeroAppended(a, previous) ==
  /\ TransitionAllowed(a)
  /\ ZeroBytes(a, Between(previous, len[a]))

-----------------------------------------------------------------------------
(* What the handler does between calls *)

Borrowed(a, kind) ==
  /\ Idle /\ borrow' = [borrow EXCEPT ![a] = kind]
  /\ UNCHANGED <<entry, accounts, gate, call, todo, before, cut>>

TryBorrow(a) == CheckBorrow(a) /\ Borrowed(a, "shared")
TryBorrowMut(a) == WholeBorrowAllowed(a) /\ Borrowed(a, "exclusive")
DropBorrow(a) == borrow[a] # "free" /\ Borrowed(a, "free")

WriteThrough(a, i, x) ==
  /\ Idle /\ borrow[a] = "exclusive" /\ i \in Visible(a)
  /\ data' = Stored(a, {i}, x)
  /\ cut' = [cut EXCEPT ![a] = @ \ {i}]
  /\ UNCHANGED <<entry, lamports, len, owner, borrow, gate, call, todo, before>>

\* A gate is installed, or one goes.
ChangeGate ==
  /\ Idle /\ gate' \in Gate
  /\ UNCHANGED <<entry, accounts, borrow, call, todo, before, cut>>

Init ==
  /\ entry \in Entry /\ gate \in Gate
  /\ lamports = [a \in Account |-> entry[a].lamports]
  /\ len = [a \in Account |-> entry[a].len]
  /\ owner = [a \in Account |-> entry[a].owner]
  /\ data = [a \in Account |-> [i \in Offset |-> IF i < entry[a].len THEN 1 ELSE 0]]
  /\ borrow = [a \in Account |-> "free"]
  /\ call = Nothing /\ todo = <<>> /\ before = Nothing
  /\ cut = [a \in Account |-> {}]

Calls ==
  \/ \E a \in Account, x \in Amount : TrySetLamports(a, x)
  \/ \E a, b \in Account, x \in Amount : TransferLamports(a, b, x) \/ NativeTransfer(a, b, x)
  \/ \E a \in Stateful :
       \/ CallClose(a) \/ ZeroAccountData(a)
       \/ \E n \in Length : CallResize(a, n) \/ CallResizeRaw(a, n) \/ ZeroAppended(a, n)
       \/ \E n \in Length, m \in Length : ZeroRange(a, n, m)
       \/ \E dest \in Account, checked \in BOOLEAN :
            CloseTo(a, dest, checked) \/ CloseAndTransfer(a, dest)
       \/ \E dest \in Account, checked, sentinel \in BOOLEAN : SafeClose(a, dest, checked, sentinel)
       \/ \E n \in Length, payer \in Account \cup {NoAccount} :
            \E rent \in {LAUNCH_RENT, LIVE_RENT} : ReallocChecked(a, n, payer, rent)
       \/ \E n \in Length, payer \in Account :
            \/ ResizeWithPayer(a, n, payer) \/ MigrateAppend(a, n, payer)
            \/ \E min_size \in {0, 1}, checked, signed \in BOOLEAN :
                 SafeRealloc(a, n, min_size, payer, checked, signed)

Effects ==
  \/ PerformSetLamports \/ PerformSystemTransfer \/ PerformResize \/ PerformClose
  \/ PerformZero \/ PerformSentinel \/ PerformHeader \/ Fail

Handler ==
  \/ \E a \in Stateful : TryBorrow(a) \/ TryBorrowMut(a) \/ DropBorrow(a)
  \/ \E a \in Stateful, i \in Offset, x \in {1} : WriteThrough(a, i, x)
  \/ ChangeGate

Next == Calls \/ Effects \/ Handler

Spec == Init /\ [][Next]_vars

-----------------------------------------------------------------------------
(* Properties *)

TypeOK ==
  /\ entry \in Entry /\ gate \in Gate
  /\ lamports \in [Account -> Lamports]
  /\ len \in [Account -> Length]
  /\ owner \in [Account -> {PROGRAM, SYSTEM}]
  /\ data \in [Account -> [Offset -> Byte]]
  /\ borrow \in [Account -> {"free", "shared", "exclusive"}]
  /\ cut \in [Account -> SUBSET Offset]
  /\ (todo = <<>>) <=> (call = Nothing)
  /\ (todo = <<>>) <=> (before = Nothing)

\* However often an instruction grows, shrinks and closes an account, its data
\* stays inside the reserve the loader mapped behind it, which is measured from
\* the length at entry (check_resize).
NeverPastReserve ==
  \A a \in Account : len[a] <= entry[a].len + MAX_PERMITTED_DATA_INCREASE

\* A byte a shrink cut off never comes back into view with its old value, by
\* whatever sequence of resizes, unless resize_raw exposed it (AccountView::
\* resize, "zeroing on growth makes that impossible").
NoStaleBytes ==
  \A a \in Account : \A i \in Visible(a) \cap cut[a] : data[a][i] = 0

\* No call resizes, zeroes, closes or migrates an account while a data borrow
\* of it is live: the borrower's slice stays where it is and keeps its bytes,
\* except for what an exclusive borrower writes itself.
ViewsUndisturbed ==
  [][\A a \in Account :
       (borrow[a] # "free" /\ borrow'[a] # "free") =>
         /\ len'[a] = len[a]
         /\ data'[a] = data[a] \/ (borrow[a] = "exclusive" /\ todo = <<>>)]_vars

Finished == todo # <<>> /\ todo' = <<>>
Returned(ops) == Finished /\ Performable(todo[1]) /\ call.op \in ops
Failed(ops)   == Finished /\ ~Performable(todo[1]) /\ call.op \in ops

Untouched == <<lamports', len', owner', data'>> =
               <<before.lamports, before.len, before.owner, before.data>>

\* A call documented to refuse before anything changes never fails half way: an
\* error, caught by the handler, leaves all accounts as they were.
AllOrNothing ==
  [][Failed({"try_set_lamports", "resize", "resize_raw", "close", "close_to",
             "transfer_lamports", "native_transfer", "close_and_transfer",
             "realloc_checked", "resize_with_payer", "zero_account_data"}) => Untouched]_vars

Pays(from, to) ==
  /\ lamports'[from] + lamports'[to] = before.lamports[from] + before.lamports[to]
  /\ \A a \in Account \ {from, to} : lamports'[a] = before.lamports[a]

\* A call that moves lamports and returns Ok neither mints nor burns any, and no
\* third account is party to it.  A payer that is the account itself is left to
\* safe_realloc's documentation, see PayerIsCharged.
LamportsConserved ==
  [][\A a, b \in Account :
       (call # Nothing /\ Returned({"close_to", "transfer_lamports", "native_transfer",
              "close_and_transfer", "realloc_checked", "resize_with_payer", "safe_close",
              "safe_realloc", "migrate_append"})
          /\ call.acct = a /\ call.peer = b /\ a # b) => Pays(a, b)]_vars

\* A realloc that returns Ok leaves the account with the rent minimum of its new
\* length, by the rent it was told to use.
ReallocLeavesExempt ==
  [][Returned({"realloc_checked", "resize_with_payer", "safe_realloc", "migrate_append"})
       => lamports'[call.acct] >= call.min]_vars

\* A close that returns Ok leaves no lamports and no bytes but the sentinel.
ClosedIsBlank ==
  [][Returned({"close", "close_to", "close_and_transfer", "safe_close"})
       => /\ lamports'[call.acct] = 0
          /\ \A i \in Offset : i < len'[call.acct] =>
               data'[call.acct][i] = 0 \/ (i = 0 /\ data'[call.acct][i] = CLOSE_SENTINEL)]_vars

Native == {"native_transfer", "close_and_transfer", "realloc_checked", "resize_with_payer",
           "zero_account_data"}

\* Under a gate, the calls of hopper-runtime and hopper-core change no balance
\* the policy does not name and no account it gives no data authority over,
\* those effects included that cross no gate of their own.
UndeclaredUntouched ==
  [][(call # Nothing /\ call.op \notin Native) =>
       \A a \in Account :
         /\ a \notin gate.lamports => lamports'[a] = lamports[a]
         /\ gate.body[a] = {} => len'[a] = len[a] /\ owner'[a] = owner[a] /\ data'[a] = data[a]]_vars

\* safe_realloc "transfers lamports from `payer`" (lifecycle.rs:131): what the
\* account gains, the payer loses, whoever the payer is.
PayerIsCharged ==
  [][Returned({"safe_realloc"}) => Pays(call.acct, call.peer)]_vars
=============================================================================
