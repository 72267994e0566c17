----------------------------- MODULE CpiBuilders -----------------------------
(***************************************************************************)
(* The two builders that collect a call's accounts one by one: DynCpi,     *)
(* which hands each account to the runtime once however often it is        *)
(* named, and TokenBatch, which sends several token instructions in one    *)
(* call.  Between a push and the call the handler may borrow what it       *)
(* pushed, or lose the gate's leave to hand it off.                        *)
(*                                                                         *)
(* A batch is pushed to by an encoder, which may be the program's own and  *)
(* emit any number of instructions before it returns, or fails.  Of the    *)
(* data the headers are kept; the bytes of an instruction are its size.    *)
(* The view an encoder pairs with a meta is that of the account it names;  *)
(* a batch with another pair is refused when it is sent (Corresponds).     *)
(***************************************************************************)
EXTENDS Cpi

CONSTANTS
  MAX_ACCTS,         \* of a DynCpi
  DATA, ACCOUNTS,    \* of a TokenBatch
  U8_MAX,
  Sizes              \* of the data of an inner instruction

BuildersAssumption ==
  /\ MAX_ACCTS \in Nat /\ ACCOUNTS \in Nat /\ U8_MAX \in Nat
  /\ Sizes \subseteq Nat
  /\ DATA \in Nat \ {0}   \* asserted by TokenBatch::new

VARIABLES
  pushed,      \* DynCpi: the metas in the order pushed
  infos,       \* DynCpi: one per account, [first, writable, signer]
  batch,       \* TokenBatch: [metas, headers, instructions]
  checkpoint   \* TokenBatch: its lengths when the push under way began

builders == <<pushed, infos, batch, checkpoint>>
bvars == <<cpivars, builders>>

EmptyBatch == [metas |-> <<>>, headers |-> <<>>, instructions |-> 0]
NoPush == [none |-> TRUE]

-----------------------------------------------------------------------------
(* DynCpi *)

MutantLastMetaWins(info, m) == [info EXCEPT !.writable = m.writable, !.signer = m.signer]

MergedInfo(info, m) ==
  [info EXCEPT !.writable = @ \/ m.writable, !.signer = @ \/ m.signer]

InfosWith(m) ==
  LET same == {k \in DOMAIN infos : pushed[infos[k].first].cell = m.cell}
  IN  IF same = {}
        THEN Append(infos, [first |-> Len(pushed) + 1, writable |-> m.writable, signer |-> m.signer])
        ELSE [k \in DOMAIN infos |-> IF k \in same THEN MergedInfo(infos[k], m) ELSE infos[k]]

PushAccount(m) ==
  /\ NoCallee /\ Len(pushed) < MAX_ACCTS
  /\ pushed' = Append(pushed, m) /\ infos' = InfosWith(m)
  /\ UNCHANGED <<cpivars, batch, checkpoint>>

InfoViews == [k \in DOMAIN infos |-> pushed[infos[k].first].cell]

InvokeDyn(seeds) ==
  InvokeDeduped(pushed, InfoViews, seeds, MAX_ACCTS) /\ UNCHANGED builders

NewDyn ==
  /\ NoCallee /\ pushed' = <<>> /\ infos' = <<>>
  /\ UNCHANGED <<cpivars, batch, checkpoint>>

-----------------------------------------------------------------------------
(* TokenBatch *)

\* The sums of the first k of a list of numbers, for every k.
PartialSums(numbers) ==
  LET sum[k \in 0 .. Len(numbers)] == IF k = 0 THEN 0 ELSE sum[k - 1] + numbers[k]
  IN  sum

Counts(headers) == [i \in 1 .. Len(headers) |-> headers[i].count]
Framed(headers) == [i \in 1 .. Len(headers) |-> 2 + headers[i].size]

BatchBytes(headers) == 1 + PartialSums(Framed(headers))[Len(headers)]

Fits(metas, size) ==
  /\ Len(metas) <= U8_MAX /\ size <= U8_MAX
  /\ BatchBytes(batch.headers) + 2 + size <= DATA
  /\ Len(batch.metas) + Len(metas) <= ACCOUNTS

\* push_multisig, until the encoder emits.
BeginPush ==
  /\ NoCallee /\ checkpoint = NoPush
  /\ checkpoint' = [accounts |-> Len(batch.metas), headers |-> Len(batch.headers),
                    instructions |-> batch.instructions]
  /\ UNCHANGED <<cpivars, pushed, infos, batch>>

MutantAliasesPass(metas) == TRUE

\* Only the inner instruction emitted is scanned.
EmitsDistinct(metas) == NoDuplicateWritable(metas, ViewsOf(metas))

\* A refused emit leaves the batch as it was; the encoder may go on.
Emit(metas, size) ==
  /\ checkpoint # NoPush /\ Fits(metas, size) /\ EmitsDistinct(metas)
  /\ batch' = [metas |-> batch.metas \o metas,
               headers |-> Append(batch.headers, [count |-> Len(metas), size |-> size]),
               instructions |-> batch.instructions + 1]
  /\ UNCHANGED <<cpivars, pushed, infos, checkpoint>>

MutantKeepsAccounts(b, mark) ==
  [b EXCEPT !.headers = SubSeq(@, 1, mark.headers), !.instructions = mark.instructions]

CutBack(b, mark) ==
  [metas |-> SubSeq(b.metas, 1, mark.accounts), headers |-> SubSeq(b.headers, 1, mark.headers),
   instructions |-> mark.instructions]

\* The encoder returns, and what it returns decides.
EndPush(ok) ==
  /\ checkpoint # NoPush /\ checkpoint' = NoPush
  /\ batch' = IF ok THEN batch ELSE CutBack(batch, checkpoint)
  /\ UNCHANGED <<cpivars, pushed, infos>>

\* invoke_on
InvokeTokenBatch(seeds) ==
  /\ checkpoint = NoPush /\ batch.instructions # 0
  /\ Covered(batch.metas, ViewsOf(batch.metas), seeds)
  /\ Call("token_batch", batch.metas, ViewsOf(batch.metas))
  /\ UNCHANGED builders

NewBatch ==
  /\ NoCallee /\ checkpoint = NoPush /\ batch' = EmptyBatch
  /\ UNCHANGED <<cpivars, pushed, infos, checkpoint>>

-----------------------------------------------------------------------------
BInit ==
  CInit /\ pushed = <<>> /\ infos = <<>> /\ batch = EmptyBatch /\ checkpoint = NoPush

\* Bound: one builder at a time; neither reads what the other holds.
Unused == batch = EmptyBatch /\ checkpoint = NoPush

BNext ==
  \/ Unused /\ \E m \in Meta : PushAccount(m)
  \/ NewDyn
  \/ \E seeds \in BOOLEAN : InvokeDyn(seeds) \/ InvokeTokenBatch(seeds)
  \/ pushed = <<>> /\ BeginPush
  \/ \E metas \in Metas, size \in Sizes : Emit(metas, size)
  \/ \E ok \in BOOLEAN : EndPush(ok)
  \/ NewBatch
  \/ Unused /\ pushed = <<>> /\ Invoke /\ UNCHANGED builders
  \/ checkpoint = NoPush /\ (CalleeReturns \/ Borrowing \/ ChangeGate) /\ UNCHANGED builders

BSpec == BInit /\ [][BNext]_bvars

-----------------------------------------------------------------------------
(* Properties *)

\* Whatever was pushed, and whatever happened since, a DynCpi is accepted in
\* exactly the states in which the default tier would accept its metas with one
\* view each, and its infos are one per account with the privileges of all its
\* metas ("this path is strict as the default [`invoke_signed`] tier").
DedupAsStrict ==
  /\ \A m \in Meta :
       LET named == {i \in DOMAIN pushed : pushed[i].cell = m.cell}
           info  == {k \in DOMAIN infos : pushed[infos[k].first].cell = m.cell}
       IN  /\ Cardinality(info) = IF named = {} THEN 0 ELSE 1
           /\ \A k \in info : /\ infos[k].writable = \E i \in named : pushed[i].writable
                              /\ infos[k].signer = \E i \in named : pushed[i].signer
  /\ \A seeds \in BOOLEAN :
       Deduped(pushed, InfoViews, seeds) <=> Default(pushed, ViewsOf(pushed), seeds)

\* The inner instruction the i-th account of a batch belongs to.
Counted(k) == PartialSums(Counts(batch.headers))[k]
Inner(i) == CHOOSE k \in DOMAIN batch.headers : Counted(k - 1) < i /\ i <= Counted(k)

\* Between pushes the headers of a batch describe its account list, so that the
\* token program cuts it where the encoders did, however many of them failed
\* half way, and the batch fits its buffers ("Keep the whole push
\* transactional").
HeadersDescribeAccounts ==
  checkpoint = NoPush =>
    /\ Counted(Len(batch.headers)) = Len(batch.metas)
    /\ batch.instructions = Len(batch.headers)
    /\ Len(batch.metas) <= ACCOUNTS /\ BatchBytes(batch.headers) <= DATA

\* A callee gets one account through two writable metas only where its tier
\* waives the refusal, and in a token batch only across inner instructions.
AliasesOnlyWhereWaived ==
  ~NoCallee => \A i, j \in DOMAIN callee.metas : Repeats(callee.metas, i, j) =>
    \/ callee.tier \in {"borrow_checked", "builder", "batch"}
    \/ callee.tier = "token_batch" /\ Inner(i) # Inner(j)
=============================================================================
