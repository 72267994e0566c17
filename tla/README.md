# Hopper: specifications, model checks and proofs

Hopper is a Rust framework for Solana programs whose state is read and written
in place, in the account memory the loader maps. Its core, the subject of this
project, is the machinery that makes such access safe: who may hold a reference
into an account, which bytes an instruction may write, and what it did write.

This directory holds TLA+ modules translated from that code, TLC configurations
that check them on small instances, and TLAPS proofs of the properties that
matter most, for every value of the constants. `PROJECT.json` maps every
definition to the lines it models and lists the runs, the mutants that show each
property can fail, the theorems, the findings and the hazards of the code.

## The system

| Part | Where | State | Operations |
|---|---|---|---|
| Entrypoint and lazy input | `hopper-native` `raw_input.rs`, `lazy.rs`, `entrypoint.rs`; `hopper-runtime` `lib.rs` | the loader's buffer, the account array, a cursor, a memoized tail | walk the records, resolve duplicates, capture resize baselines, find the instruction |
| Borrow byte | `hopper-native` `account_view.rs`, `borrow.rs` | one byte per account header: free, exclusive, or a count of readers | `try_borrow`, `try_borrow_mut`, `check_borrow*`, drop of `Ref`/`RefMut` |
| Host alias registry | `hopper-runtime` `borrow_registry.rs` | a table address -> readers, writer (absent on chain) | `register`, `release`, `can_register` |
| Segment borrow registry | `segment_borrow.rs`, `segment_lease.rs`, `account.rs` | an array of byte ranges, at most `MAX_SEGMENT_BORROWS` | `register`, `release`, `clear`; `segment_ref`, `segment_mut`, `split_segments_mut`; drop of their guards |
| Write policy and ambient gate | `write_policy.rs` | up to `DEPTH` installed policies with the addresses they govern | install, drop or leak of a guard, four kinds of check |
| Touch log and map | `segment_borrow.rs` (`touch_log`), `context.rs` | the ranges touched, at most `MAX_TOUCH_RECORDS`, and a partial flag | `record`, `compact`, `reset`, `encode_touch_map` |
| Touch audit | `write_policy.rs` `first_unauthorized_byte_with_args` | a cursor over one record | the scan |
| Context | `context.rs` | a segment registry, the bound policy and selectors | typed acquires, audit, map emission |
| Effect contract and verifier | `grillo-manifest`, `grillo-verifier` | none | resolve a contract for an invocation, judge snapshots and a touch map |
| Account memory | `account_view.rs`, `account.rs`, `native_boundary.rs`, `batch.rs`, `lifecycle.rs`, `migrate.rs` | length, owner, lamports, data, resize baseline | `resize`, `close`, transfers, reallocs, zeroing, migration |
| CPI tiers | `cpi.rs`, `dyn_cpi.rs`, `token_batch.rs` | the accounts and headers two builders collect | deduplicate metas, check borrows and the gate, invoke |
| Collections | `hopper-core` `collections/` | slabs, slot maps, journals, sorted vecs, rings, packed maps: a header and slots inside account bytes | alloc/free, insert/remove, append/push, read, search |
| Slot hashes | `slot_hashes.rs` | a window and a range of a sysvar | the search for a slot |
| Heap | `entrypoint.rs`, `heap.rs` | a cursor in the heap's first word | `alloc`, `realloc`, `mark`, `release_to` |
| Dynamic tails | `tail.rs`, `fixed_vec.rs`, the accessors `dynamic_account.rs` generates | a count or a length prefix, and what follows it to the end of the account | push, set, get, remove, clear; field setters, whole writes; all between resizes |
| Frame, receipts, migration chain | `hopper-core`, `hopper-runtime` | borrow masks, snapshots, versions | see the sources |
| Domain crates, integrations, tooling | the other crates | | pure arithmetic, byte layout, code generation, host tools |

How the core parts interact, for one typed write through `Context`:

1. the policy (or, outside `Context`, the ambient gate) is asked for the range;
2. the range is registered in the segment registry, which stamps the touch log;
3. the account is borrowed: alias token first, then the borrow byte;
4. dropping the guard gives the account borrow back, then releases the range;
5. at the end of the instruction the log is encoded, or audited against the
   policy.

What is hard here: guards are dropped in any order, or leaked with
`mem::forget`; an acquisition is a sequence of steps each of which may fail and
must undo the earlier ones; two layers (ledger and account borrow, token and
byte) must agree although either may refuse; fixed arrays fill up, and each
has its own answer to that (refuse, absorb, compact, declare itself partial);
counters share their bytes with sentinels; caches (governing gate, callback)
must follow the array they summarise; on hosts, threads share the registry. On
chain everything runs on one thread in a zeroed heap per invocation; there are
no timeouts, no messages and nothing to recover after a crash, since a failed
transaction is rolled back by the chain.

## The modules

| Module | Models | Its correspondence to the code |
|---|---|---|
| `WritePolicy` | the pure checks of a policy | one operator per method of `WriteRange`, `ParametricWriteRange`, `WritePolicy`; end offsets are u64 sums of u32s, so naturals are exact |
| `AmbientGates` | what the gate promises (abstract) | a set of installed gates, the newest survivor decides |
| `GateStore` | `GateStore`, `SbfGateState`, `LamportGateGuard` and the `check_*` funnels | `slots`, `issued`, `installed`, `top_token`, `top_idx`, `checker` are the fields; `InstallGate`, `InstallRefused`, `DropGuard`, `ForgetGuard`, `Check`, `NewInvocation` the operations; permission bits are precomputed at install as in the code, and the promise recomputes them from the policy |
| `AccountGuards` | what whole-account borrows promise (abstract) | a grant only when no live guard of the same account conflicts |
| `AccountBorrow` | borrow byte under alias registry | `borrow_state`, `entries`; `TakeToken`/`NativeBorrow` are the two halves of `try_borrow*`, `NativeRefused`/`DropToken` its rollback, `DropNative`/`DropToken` a drop; every registry call is one step (the spinlock), so threads interleave between them |
| `SegmentAccess` | segment registry and the three acquisition functions | extends `AccountGuards`; `ledger` is the array below `len`, `lease` what a guard releases, `op` the loop under way: `Begin`, `RegisterRange`, `RefuseRange`, `BorrowAccount`, `AccountRefused`, `ReleaseEntry`, `Released` |
| `TouchLog` | the touch log and the encoder's choice | `entries`, `overflow`; `record` is `RecordAgain`, `RecordNew`, `Absorb`, `Drop` or `BeginCompact`; `compact` is `MergePair`, `KeepPair`, `NextRow`, `NextPass`, then `StoreAfterCompact` or `Overflow` |
| `PolicyScan` | the audit scan | one action per way a turn of the outer loop ends |
| `AccountMemory` | what an instruction does to lengths, data, balances and owners, in all three layers | one action per function begins a `call` and computes the effects it will store (`todo`); `Advance` applies the next one, `Fail` is an effect that refuses; the handler borrows, drops borrows, writes and changes the gate in between |
| `EffectContract` | the resolved mutation contract and the verifier's verdict | one operator per stage of `grillo-manifest` and `grillo-verifier` |
| `Footprint` | Context, raw access, ambient gate, touch log and map of one instruction, judged by `EffectContract` | `SegmentMut`, `SplitSegmentsMut`, `TailSeqMut`, `LoadMut`, `TryBorrowMut` and the raw pointers leave views, then `Write`, `DropView`, `Resize`, `TrySetLamports`, `DropGate`, `SecondContext`, `EmitTouchMap`; what each acquire is held to and whether it leaves a record is read off the function it is named for |
| `Cpi`, `CpiBuilders` | the tiers that check a call before the syscall; `DynCpi` and `TokenBatch` | `Cpi` extends `AccountGuards`, `CpiBuilders` extends `Cpi`; the handler's borrows and the gate change between a push and the call; the caller stands still while the callee runs |
| `LoaderInput` | the loader's account section and every walk over it | `input` is what was serialized, `header` what is there now; each entrypoint is one action (it runs before any handler code), the lazy context one action per call, with the handler's borrows and resizes between |
| `SlotHashes` | `slot_hash_lookup_with` | `pc` names the read the search is at; `lo`, `hi`, `newer`, `older`, `bisect` are its locals |
| `BumpAllocator` | the default heap | `word` is the cursor word (zero: a fresh heap); `blocks` and `marks` belong to the program, the allocator reads neither |
| `SlabStore`, `Slab` | the pool of slots a slab promises; `slab.rs` | `count`, `free_head` the header, `allocated` the bitmap, `slots` the bytes of each slot as first word (value or link) and rest |
| `HandleMap`, `SlotMap` | the handles a slot map promises; `slot_map.rs` | `occupied`, `generation`, `element` are the three parts of a slot |
| `JournalWindow`, `Journal`, `RingBuffer` | the last entries, oldest first; `journal.rs`, `ring_buffer.rs` | header fields by name, `slots` by position; the window is read off through `Physical`, as `read` and `get` do |
| `RankedBag`, `SortedVec` | a bag with places by rank; `sorted_vec.rs` | `len`, `elements`; `Search` is the loop of `binary_search`, `ShiftedRight` and `ShiftedLeft` the two moves of the array |
| `BoundedMap`, `PackedMap` | a finite function; `packed_map.rs` | `len`, `entries`; what lies behind the last entry is modelled, since a zero key is a key |
| `SizedList`, `GrowableSeq` | a list in a room that changes; the sequence tail and `fixed_vec.rs` | `len` is what the account has behind the count, `bytes` the elements byte by byte, those past the end included, so a resize may cut through an element; `At` reads what is gone as zero |
| `DynamicTail` | the length-prefixed tail and its generated accessors | `len` the prefix, `cells` the bytes behind it; every setter goes through `ReplaceTailField`, `TailWrite` keeps what a refused write encoded before it failed |
| `*Proofs` | | the theorems of the module they extend |
| `MC*` | | the finite instances |

An MC module may hold several instances that share no variable, with a variable
that says which of them a behaviour is about (`tier` in `MCGateTiers`, `build` in
`MCBorrows` and `MCGuardUsers`, `kind` in `MCCollections`); the others stand still, so
the states add up and do not multiply. It extends the modules whose theorems state
what it checks, so that both are about the same definition, and instantiates the
others.

`SegmentAccess` rests on the promise `AccountGuards` rather than on
`AccountBorrow` itself; the run `borrows` checks, and
`BorrowsImplementPromise` proves, that `AccountBorrow` implements that promise,
so the composition is sound and its state space small. `AccountRefused` needs no
conflict: the account layer may also refuse for capacity. `Cpi` and
`AccountMemory` rest on the same promise, `Cpi`, `AccountMemory` and `Footprint` on
what `AmbientGates` promises (a verdict per account and kind of write; that
`GateStore` keeps it is proved), and `Footprint` on what `TouchLog` promises.
`LoaderInput` hands over the account list, with one header per address, that the
others start from.

A collection is a view built anew over account bytes in each instruction, so
every action of these modules starts from a header that `from_bytes` must
accept again (`Parses`); a header it refused would leave nothing enabled but
refusals, which `AlwaysParses` and the type invariants exclude. Their initial
states are what a zeroed account, or `init` on one, holds.

History variables, which no code has, are `touched` (TouchLog), `orphans`
(SegmentAccess), `answer` (AccountBorrow), `request`/`verdict` (GateStore),
`retired` (SlotMap), `before` and `cut` (AccountMemory: the accounts when the call
began; the bytes a shrink cut off and nothing wrote since), `ungoverned`,
`unrecorded` and `moved` (Footprint: the bytes handed out by surfaces that ask for
no range or leave no record, and the balances written, with or without the gate), `arm` (LoaderInput: how the input was read),
`reads` (SlotHashes), `reset` (GrowableSeq), `stored` (DynamicTail: the record the
accepted calls have left) and `since` (BumpAllocator: the marks a block is younger
than). `reply` in the collections is what the call returned.

## The runs

| Run | Instance | Question |
|---|---|---|
| `gate_store` | on-chain tier: 2 slots, 3 entries, 1 selector, 3 addresses, 6 install calls, at most 4 tokens per invocation; host tier: 3 slots, 3 calls, at most 4 tokens, raw surfaces compiled out | do the caches, the callback and the verdicts stay right under any order of installs, drops, leaks and fresh invocations, three nested gates dropped in every order; is a policy that would be half enforced refused? |
| `borrows` | host: 2 threads, 4 cells (two of one address), 4 guards, 2 registry entries, reader cap 2, count width 3; entrypoint: every input of at most 2 records, those of 3 that begin with an account, and three longer ones, `CLAMP` 3, bounds 1, 3 and 4 | exact counts in both layers and exclusive borrows under interleaving; does every way of reading the input give the same accounts and instruction? |
| `guard_users` | 3 guards, an account of 4 bytes and one of 2; views: 2 registries of 4 entries, batches of at most 3 ranges, raw entries; calls: 2 ways the accounts are mapped, 2 gates, lists of at most 2 metas and 3 views, a `DynCpi` and a batch of 3 accounts | can two views collide, is every entry answered for after failure at any point, leak or drop; may a callee touch what is borrowed or withheld, and do the builders hand over what was pushed? |
| `touch_log` | 3 records, 9 kinds of range over 3 accounts, one of which has no slot a byte can hold | does coalescing lose or invent a byte, is the partial flag justified, does compaction end, is the map honest? |
| `policy_scan` | all pairs out of 27 columns in both orders, 4 families of ranges, 4 selector bindings, 12 requests | does the audit agree with the gate, and end? |
| `account_memory` | a state account and a wallet, 3 ways they enter, 3 gates, lengths to 1, a growth reserve of 1, balances to 4 | what may a sequence of calls, each failing at any effect, expose, disturb, mint, leave half done or touch without authority? |
| `footprint` | 6 invocations (policies, selectors, account lists), a vault of 4 bytes and a mint of 1, 2 calls and the writes through their views | does a PASS hide an unauthorized change, is an honest handler accused, which bytes escape the policy and which the log? |
| `collections` | slab: capacities 0 to 3; slot map: 2 slots, 4 generations, at most 3 retired handles; journal and ring: 3 positions; sorted vec: 3 places, 3 ranks of two elements; packed map: 3 entries, 4 keys; growable sequence: up to 3 elements of 2 bytes; dynamic tail: a string of at most 1, a vector of at most 2 elements of 1 or 2 bytes, raw bytes of at most 1, any room up to 8; slot hashes: every subset of 6 slots and lists of 21 and 22, in windows of 2; heap: 6 bytes, 3 blocks, 2 marks | do the parts agree after any order of calls, does a removed element stay gone, does each container answer as the abstract one, and a tail with what the accepted calls stored, at every length of the account; does the search answer what the list says, in a bounded number of probes; do blocks overlap? |
| `gate_store_inert_doc`, `policy_scan_overlap_doc`, `account_memory_payer_doc`, `footprint_slots_doc` | as above | disagreements of documentation and code, see Findings |

Bounds, and why they are enough:

- `MaxIssued` caps installs between two resets at one (on chain: two) more than
  the slots, so slots are reused after every kind of release; tokens are only
  compared, and a token never recurs before 2^64 installs.
- `NOT_BORROWED = 3` instead of 255 leaves a cap of two readers, `CAPACITY = 2`
  a full registry with the third address, `U16_MAX = 3` a count that two cells
  of one address overflow with four guards. The on-chain tier of `AccountBorrow`
  (`SBF = TRUE`) is covered by its theorems, which hold for both tiers; the run
  takes the host tier, which adds a layer.
- CPI: a callee meets the caller's guards one by one, so one guard at a time
  (`OneBorrow`) shows every conflict; two metas of one account are what the tiers deduplicate,
  refuse or waive; a third view is one more than the metas. One builder is
  filled at a time. A batch of eight data bytes holds two instructions and
  refuses the third.
- Loader input: words of 2 instead of 8 and lengths 0, 1 and 2 leave data that
  fills its word and data that does not; `CLAMP = 3` stands for 254, so four and
  five records go past what is materialized, and bound 4 past the clamp;
  `FREE = 9` is no record's number. The duplicate that names a slot behind it and
  one that names itself are among the inputs.
- Ledgers of four entries fill up, also in the middle of a batch; ranges
  include neighbours, an overlap, one past the account's end and one past u32
  (`U32_MAX = 5`).
- Three touch records with nine ranges reach absorption, bridges found only by a
  later pass, unions that do not fit, overflow and a second account.
- Columns cover stride below, at and above the cell size, counts 0, 1 and 2, and
  overlaps of every kind; accounts are nine bytes.
- Account memory: with one byte at entry and one in reserve every resize is a
  shrink to nothing, a growth into what was cut off, into the reserve, or one
  byte too far; `U64_MAX = 4` lets a credit overflow, balances lie on both sides
  of both rents (the constant of the library and that of the sysvar differ), and
  either account may be source, destination and payer, both at once included.
  Calls are not bounded.
- Footprint: `MaxCalls = 2` acquisitions, resizes or lamport writes, with any
  number of writes through the views they leave; two suffice for a recorded view
  and an unrecorded one over the same bytes, a resize under a recorded range, a
  view kept across a dropped gate or a second Context, and the same account at two
  positions. Writes go to offsets 1 and 2 (`Written`), a selected cell and the padding
  beside it; a written byte differs from the snapshot until a resize clears it; `Lengths = {3}` cuts one declared byte off the vault
  and grows the mint.
- Collections of two to four places are filled, emptied and refilled in every
  order; the initial capacity of a slab ranges from none. `NO_FREE = 7`,
  `GENERATIONS = 4` and `TOTALS = 16` stand for 2^32 - 1 and 2^32. `MaxRetired`
  and `MaxTotal` stop short of the wrap, where the promises end (see Limits).
- Growable sequence: lengths 0 to 6 with elements of two bytes, so half the lengths
  end inside an element, and the account shrinks below and grows back over a list
  of every length. Dynamic tail: a room of 8 holds the largest record, every
  smaller one refuses some; the payload 1 reads as a tag and as a count, so a
  byte left in the wrong place decodes as something.
- Slot hashes: windows of two instead of sixteen entries, lists with every
  pattern of skipped slots up to five, and lists whose slots double, on which a
  guess from the values goes astray; headers that claim two entries more than the
  sysvar has; a sysvar too short for a header.
- Heap: six bytes for blocks of 1 and 3 at alignments 1 and 4 leave
  padding, exhaustion and exact fits; a size of 30 leaves the address space.

The proofs remove these bounds for the properties they cover.

Symmetry is used where elements are interchangeable and no liveness is checked
(guards, threads, registries). Deadlock checking is off for `PolicyScan`, whose
scan ends when it answers, and for `Footprint`, whose instruction ends.

Fairness: `TouchLog` assumes weak fairness of `Loop`, `PolicyScan` of `Next`.
Both are sequential loops without a blocking call, so a loop that has begun runs
on. Nothing is assumed about the program: it may stop calling at any time. The
other modules state no liveness: their operations never wait (the host spinlock
is held for one call at a time).

## The properties

- Gate: `StoreCoherent` (`CachesExact` and `GuardsOwnSlots`),
  `OnlyTheOwnerFrees`, and the refinements `ImplementsPromise` and
  `HostImplementsPromise`: every verdict is the one the newest surviving gate
  gives, and a policy a build would enforce by half is refused. The lamport kinds,
  lamport arithmetic and delegation, are governed only by a policy that declares its
  lamport dimension (see Limits). That the callback follows the gates
  (`CheckerTracksGates`) is proved.
- Borrow: `CountsExact` (`ByteCountsGuards` and `RegistryCountsTokens`) and
  `ImplementsPromise`, the refinement of `AccountGuards`, which implies
  `ExclusiveBorrows`.
- CPI: `CalleeMayTouch` (nothing borrowed or withheld reaches a callee),
  `DedupAsStrict` (a `DynCpi` accepts exactly what the default tier would),
  `HeadersDescribeAccounts` (a batch's headers partition its accounts, after a
  failed encoder too), `AliasesOnlyWhereWaived`.
- Entrypoint: `InputAsSerialized`, that is `StaysOnRecords`, `ViewsAsSerialized`,
  `BaselinesAtEntry` and `AcceptsWholeFrames`.
- Segments: `LedgerConflictFree`, `ViewsDisjoint` (across registries too),
  `LedgerExact` (the ledger is exactly what live guards, the operation under way
  and leaked or raw entries account for).
- Touch log: `NothingLost`, `NothingInvented`, `OverflowJustified`, `MapHonest`,
  `CallsReturn`.
- Audit: `AuditAgreesWithGate` (`AcceptsOnlyGranted`, for disjoint columns, which
  the context macro asserts, and `RefusesNoneGranted`, for all), `ScanEnds`.
- Memory: `NeverPastReserve`, `NoStaleBytes` (what a shrink cut off is zero when it
  is visible again), `ViewsUndisturbed`, `AllOrNothing` (an
  error of a call documented to refuse first leaves every account as it was), `LamportsConserved`, `ReallocLeavesExempt`,
  `ClosedIsBlank`, `UndeclaredUntouched`.
- Footprint: `NoFalsePass` (a PASS means that every byte and balance that changed
  was authorized, whatever the handler wrote, recorded or not), `HonestNotFlagged`
  (a handler that stays on recorded surfaces under the bound policy is never
  accused), `Contained` (a changed byte was authorized, unless a surface that asks
  for no byte range handed it out), `Tracked` (it is in the log or the log says it
  is partial, unless a surface that leaves no record handed it out or a later
  Context reset the log).
- Collections: `WellFormed` (types, bitmap against free list and count, order,
  unique keys, no removed byte left), `RemovedStaysDead`, and the refinements
  `ImplementsHandles` and `ImplementContainers`, which cover every value
  returned. `ImplementContainers` includes `ReadsBack` of the dynamic tail.
  Slot hashes: `AnswersExactly`, `ProbesHalve`. Heap: `BlocksApart`.

## Findings

- `gate_store_inert_doc`: `try_install_lamport_gate` is documented to install
  nothing for a policy without a lamport dimension; it installs a gate that
  governs raw writes and transitions and takes a slot.
- `policy_scan_overlap_doc`: on overlapping hand-built rules the audit jumps past
  a byte an earlier rule governs, contrary to its comment. Rules the macro
  generates are disjoint and not affected (`AcceptsOnlyWhatIsGranted`).
- `account_memory_payer_doc`: `safe_realloc` with the account as its own payer
  stores the account's old balance plus the deficit and so mints it, where the
  doc says the payer is charged; the chain then refuses the transaction.
- `footprint_slots_doc`: the touch map reports an account at its first position
  only, while policies grant per position; a handler that wrote through the
  second position, as it may, is judged a violation, though the verifier's doc
  says the indices join directly.

## Limits

Where documentation promises more than the code keeps at an extreme, or is
imprecise, and no run is spent on it:

- The doc of `try_install_ambient_gate_with_args` says that under a data-only policy
  "writable CPI delegation" is "governed for the guard's lifetime"
  (write_policy.rs:1524-1527). `GateStore::check` lets it pass, for accounts outside
  the write-set too (write_policy.rs:1092-1096), on purpose (the comment above it, the
  test at 2251, DYNAMIC_TAILS.md:340). `Decision` states what the code does; with a
  `Decision` that lets only the kind "Lamports" pass, TLC refutes `ImplementsPromise`
  at the first delegation checked under the data-only policy of `MCGateTiers`.
- `check_borrow` says an account "can be shared-borrowed" (account_view.rs:229)
  at the reader cap too, where `try_borrow` refuses.
- "Generation counters prevent ABA bugs" (slot_map.rs:39) until the u32
  generation wraps: after 2^32 removals from one slot a retired handle is valid
  again. `Collections.cfg` with `MaxRetired = GENERATIONS` shows it.
- The u32 total of a journal wraps as well; the append that wraps it leaves no
  entry visible, and `latest` fails right after a successful append.
  `MCCollections` with `MaxTotal <- 16` shows `ImplementsWindow` fail there.
- A slab of capacity 0 gets 0 instead of `NO_FREE` as its list head, so `alloc`
  answers `InvalidAccountData` where `remaining_capacity` (slab.rs:207-208)
  announces `AccountDataTooSmall`, and `is_full` is false.
- A sorted vec puts a duplicate in front of the equal element the search found,
  not behind it as "(stable)" (sorted_vec.rs:155) suggests. `RankedBag` therefore
  leaves the places of equal elements open.
- The touch log is said to record every mutable data borrow
  (segment_borrow.rs:294-298, context.rs:590-592); the raw
  `AccountView::try_borrow_mut` leaves no record, as account.rs:262-267 says.
  `Tracked` excludes such bytes; `NoFalsePass` holds with them, as the
  verifier compares snapshots.
- Binding a mutation-complete parametric context installs the ambient gate
  without selector arguments (hopper-macros-proc context.rs:5336-5340), although
  write_policy.rs:1521-1524 asks for them; every parametric write through the gate
  is then refused. `GateArgs` models what the macro does.
- `release_to` asks that everything created since the mark be dropped
  (entrypoint.rs:538-542). A block created before the mark that grew in place
  after it reaches past the mark, and the next allocation overlaps it. The model
  counts growing as creating; with a `Resized` that leaves `since` alone TLC
  shows the overlap.
- `hopper_exact_entrypoint!` refuses more accounts than the bound so that no
  handler runs on a truncated list (lib.rs:878-881), but hands over at most 254;
  a bound above that would truncate. `ExactArm` takes bounds up to the clamp.
- `deserialize_accounts` does not look at the markers of duplicates past the
  bound, while `parse_instruction_frame_checked`, said to follow the same rules
  (raw_input.rs:910-913), refuses a bad one there, and reports up to 256
  accounts, of which the entrypoints hand over at most 254.
- `MAX_ENCODED_LEN` is said to let generated helpers "verify the account has
  enough room before invoking `encode`" (tail.rs:56-59). `write_tail` and the
  generated `tail_write_parts` call `encode` on the account first, so a write
  refused with `AccountDataTooSmall` has overwritten the start of the old tail
  under the old length prefix. A handler that returns the error is rolled back;
  one that goes on reads a mixture until a write succeeds. `TailWrite` models
  this, and `stored` is `Lost` from there on; the setters do not have it.
- The reset that is generated for a sequence tail zeroes the count and leaves the
  elements, unlike `swap_remove`, `pop` and `clear`. No call shows them again;
  `RestIsBlank` excludes what such a reset left.

## The proofs

Each component's proofs state an inductive invariant, show that `Init` implies
it, that every action preserves it (one step per action), and that it implies
the properties.

- `GateStoreProofs` (assumes `DEPTH > 0`, well-typed calls): the invariant joins
  `TypeOK`, `CachesExact`, uniqueness and freshness of tokens (`issued` bounds
  every token), `GuardsOwnSlots`, and the tie of `checker` to the live slots.
  Freshness is what makes the new gate the newest. `StoreImplementsPromise` maps
  slots to the set of gates and each action to a step or a stutter.
- `BorrowsProofs`, `AccountBorrow` (finite set of guards, at least two free values of the
  byte): the byte's count and the registry's count are invariants of the set of
  guards by phase; the count stays below the sentinel because a grant stops one
  short of it, and an entry is freed exactly when its last token is.
  `BorrowsAlwaysExclusive` follows from the byte on chain and from the registry
  on hosts, and gives `BorrowsImplementPromise`.
- `BorrowsProofs`, `LoaderInput` (any number of records, any word, header and data
  length): the layout is what two recursive functions give, `Starts` and `Accounts`;
  each has one solution on a sound section (`StartsLaid`, `AccountsNamed`), the three
  stride formulas agree on multiples of a word (`StridesAgree`), and so a walk is, step
  by step, a function of how far it has come (`CrossMany`, `TakeMany`, `WithinMany`),
  up to the first unsound marker. The invariant `LoaderInv` adds what makes that so
  while handlers run: the records behind the cursor of a lazy context may have changed,
  those ahead have the loader's bytes (`Kept`), and a handler reaches only records
  the walk has taken (`HeldTaken`), whose baseline is the length at entry
  (`Measured`). `InputReadAsSerialized` reads the property off it.
- `GuardUserProofs`, views: they are disjoint within one registry because their
  entries are the ledger's, which is conflict-free, and across registries because
  of the account borrow; the invariant ties the two together. `LedgerAlwaysExact`
  counts the copies of each entry: an operation is alone on its registry and so is
  a live guard, so the batch under way, the lease it becomes and the list a release
  works through are the same entries handed on, each counted once (`Balanced`). That
  one registration or one removal moves one count by one is a lemma on bijections
  between the positions that are left (`CountAcross`).
- `GuardUserProofs`, calls: a call is one step, so what it promises is shown of the
  tier's checks, for every state. What lasts is kept by the invariant `CallInv`: the
  infos of a `DynCpi` are merged, one per account, with the strongest flags of the
  metas so far, and so decide as the default tier does on the metas themselves; the
  batch is cut where its headers say, between the steps of a push too, and the
  checkpoint is one of the cuts, so the rollback of a failed encoder ends on one.
- `TouchLogProofs`: each merge preserves exactly the union of bytes by kind;
  during compaction the invariant adds that the pairs already compared in the
  current pass are unmergeable unless something was merged, which is
  what `OverflowJustified` needs at the end.
- `PolicyScanProofs`: all bytes below the cursor are granted (for disjoint
  columns), and no grant crosses the cursor when the scan refuses.
- `AccountMemoryProofs`: the invariant says of a call under way what it asked when
  it began and what is still so when its next effect comes: no handler runs in
  between, and an effect that relies on a length stands before any that changes it.
  `CallsAreAtomic`, `BorrowsAreUndisturbed` and `NothingUndeclared` are action
  properties proved from it: an effect that could refuse stands first, or was asked
  for before.
  Where the lamports go is decided when the call begins: the effects on its list
  already determine every balance it will leave (`Forecast`), those balances satisfy
  what the call owes (`Settled`: the sum of the two parties, a rent minimum, a closed
  account's zero), and performing an effect leaves a forecast of the rest.
  `NothingMintedOrBurnt`, `ReallocsLeaveExempt` and `ClosesLeaveBlank` read it off
  when the list is empty. The sum is stated for two parties that differ, as the
  property is; `account_memory_payer_doc` is the case where they do not.
- `FootprintProofs` (assumes `WellDeclared` policies: ranges in u32 and columns of
  one account that do not overlap, both of which the context macro asserts of what
  it compiles): every byte a live view covers and every byte that changed is *told*
  (in the log, or the log is partial, or a surface without a record handed it out)
  and *answered* (warranted by the policy, or a surface that asks for no range handed
  it out). `FInv` states this of views (`Held`), changes (`Accounted`) and the log
  (`LogAnswered`), with the gate that was installed and the balances written under
  it. It is strong enough because no surface hands out a byte before it was asked
  for, and because what is told or answered stays so until a second Context resets
  the log. From there to the verdict two lemmas on pure operators carry the weight:
  `FirstGapFinds`, that the verifier's search over the touch map's runs finds a
  changed byte no run covers if there is one, and `ResolvedCovers`, that the resolved
  contract (envelopes subtracted, the selected cells added back) covers exactly what
  `check_write_with_args` grants. `PassIsTrue` follows for every handler,
  `HonestyPasses` for one that stays on recorded surfaces.
- `CollectionProofs`, slot map: every retired handle is behind its slot's present
  generation, and a slot has used up no more generations than handles it retired; so
  while `MaxRetired < GENERATIONS` (an assumption of these two theorems, and
  necessary: see Limits) no generation has come round, hence
  `RemovedHandlesStayDead` and `MapImplementsHandles`.
- `CollectionProofs`, slot hashes: in a search the entries before `lo` are newer than
  the target, and `hi` is either the bound the newest slot gives or lies just before
  an entry that was read and is older. With that, `SearchExact` (the property
  `AnswersExactly`) holds for every list and every width of a window. The pace is a
  second invariant over this one (`HalvesPaced`): once an older entry is known, of two
  probes the second bisects, a bisecting probe leaves at most half the range, and no
  probe widens it. The first probe after the newest window ends the range or finds an
  older entry, which is what lets the count start there.
- `CollectionProofs`, heap: blocks in use lie between the scratch and the cursor and
  apart from each other, and a mark that may still be released has every block in use
  that is not younger below it (`MarksAbove`); that is what a release needs, which
  looks at no block.
- `CollectionProofs`, packed map: keys stay unique because an insert of a known key
  overwrites, and a removal moves the last entry over the gap (`MapsKeepUniqueKeys`);
  the map of key to value is then a function of the stored entries, and each call
  changes it at one key (`EntriesImplementMap`).
- `CollectionProofs`, slab: the invariant names the free list, a sequence of slots
  that starts at the head, follows the links and holds exactly the free slots, each
  once (`Threads`). `alloc` takes its head and `free` puts one before it, whatever
  bytes a caller stored in between; count and capacity follow (`SlabRecordsAgree`),
  and that `alloc` fails only when all slots are in use (`SlabImplementsStore`).
- `CollectionProofs`, ring and journal: a position never passes the end by more than
  one turn, so `%` is one conditional subtraction (`ModOnce`, `RingMod`); then a push
  either appends to the window or drops its first entry (`WindowGrows`,
  `WindowSlides`). The journal needs that its total does not come round
  (`TotalLasts`: see Limits).
- `CollectionProofs`, sorted vec: while the ranks ascend, each range the search may
  be left with holds the place, by a least counterexample on its length
  (`ProbesLocate`); so an insert lands where the order is kept, a removal only closes
  a gap, and the ranks ascend again (`SearchesNeverMiss`). The copies in a bag and the
  places of an array that holds them are as many, of whatever ranks (`CopiesCounted`:
  the n-th place that holds an element is its copy n), so a place more adds one copy
  (`OneMore`), a place of a rank lies between the copies below and those up to it
  (`BagPlaces`), and each call is a call on the bag (`ElementsImplementBag`).
- `CollectionProofs`, growable sequence: each byte belongs to one place of one
  element (`ByteFacts`, `OffsetFacts`, from division by an arbitrary width), so a
  write changes one element and a removal two. A resize cuts or blanks bytes, never
  moves one, which is `SequenceImplementsList`; what lies behind the last element is
  zero or unmapped (`RemovedElementsBlank`).
- `CollectionProofs`, dynamic tail (payload bytes, capacities that fit a count byte):
  the invariant `TailHolds` is about bytes, not about reading: the tail holds the
  encoding of the stored record, and nothing else below its length. The codec is one
  half: parts lie one behind the other (`EncodedLies`), the walk over a vector, a
  recursive function, ends each element where it was written (`VecReads`), so the
  bytes read as the record (`TailDecodes`). The splice is the other: a setter that
  changes the length of its field moves what lies behind it and keeps what lies
  before it (`Moving`), and a vector with one element more or less has the bytes that
  were spliced (`FlatAppend`, `FlatWithout`). `TailReadsBack` joins them, for
  refused and half-encoded writes and resizes too.

Only model-checked:

- the liveness properties `CallsReturn` and `ScanEnds`, as liveness is beyond this
  prover;
- `ImplementContainers` and `WellFormed` as conjunctions, which are defined for the one
  instance TLC runs. Each of their conjuncts is a theorem of every instance:
  `TypeCorrect`, `MapAlwaysParses`, `RemovedAlwaysBlank`, `SlabRecordsAgree`,
  `SlabImplementsStore`, `JournalImplementsWindow`, `RingImplementsWindow`,
  `SearchesNeverMiss`, `ElementsImplementBag`, `MapsKeepUniqueKeys`,
  `EntriesImplementMap`, `RemovedElementsBlank`, `SequenceImplementsList`,
  `HeapBlocksApart` and `TailReadsBack`;
- `HostImplementsPromise`, an instance of what is proved of `GateStore`, whose
  theorems hold for both tiers.

Induction over data is possible only indirectly. Where a proof needs it, it takes a
least counterexample of a set of numbers (`LeastElement`), and a recursive function
is unfolded by exhibiting a function that solves its equation (`DoubledIs`,
`StaticExists`, `PartialSumsAre`, `FollowWalks`, `SearchLocates`, `StartsLaid`,
`TakeMany`).

## Not modelled

- The unchecked and raw accesses, whose contract is the caller's; payload
  projection of guards; `borrow_many`; `assign` and `init_layout`.
- The fingerprint compared before a key, an accelerator of the same comparison.
- The byte format of the touch map, of selector payloads and of manifests.
- In `check_lamport_mutation` and its siblings the test for an active gate and
  the check itself are one step. On the global host tier another thread may drop
  the gate in between, in which case the check passes as it would have after it.
- `install_lamport_gate`, the infallible wrapper; the `Context` wrapper of the
  audit, which refuses when no policy is bound or the index exceeds 255.
- On hosts without thread-local storage the touch log is process-global
  (segment_borrow.rs:541), so threads would mix their records.
- CPI: the unchecked tier, the host emulation of the System program, instruction
  and return data, and the privilege check the runtime makes after the tiers.
- Entrypoint: the dispatch the macros generate, the typed layer over the lazy
  context, and a buffer the loader would not produce read by a pointer walk.
- Collections: bytes no earlier call has written (a corrupt header or link); the
  size tests of the constructors; the bit set, one bounds check and one write per
  call. Tails: UTF-8 validation, resizes that cut into the prefix itself, and the
  one-byte header of compact accounts.
- The realloc guard's counter, the migration chain of the runtime, whose edges
  are program code, and receipts and frames: sequential bookkeeping over the
  layers that are modelled.
- The domain crates (full-width arithmetic, beyond a model checker), the builders
  of instructions for other programs (byte layout), the topology planner, and
  the macros, schema and command-line tools, which make up most of the repository's
  lines and keep no state at run time. What the macros emit is modelled where it
  decides something: the binding of policy and gate in `Footprint`, the
  disjointness of generated rules in `PolicyScan`.

## The plan

Done: every component above is model-checked; gate, borrow, input, segments, calls, touch
log, audit, account memory, Context and verifier, slot map, slot hashes, heap, packed
map, slab, ring, journal, sorted vec, growable sequence and dynamic tail have proofs of
every safety property their runs check.

Left, in this order: the frame's borrow mask above `AccountGuards`; the realloc guard
and the migration chain on top of `AccountMemory`.
