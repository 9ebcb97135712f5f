# TLA+ models of the CovenantSQL SQL-chain

This directory holds TLA+ models of `src/sqlchain/chain.go`. That file is the
per-database block chain that the miners of a SQLChain committee run. Each
model is checked with TLC. `PROJECT.json` holds machine-readable versions of
the tables below:

- components;
- runs;
- mutants;
- the definition → source-line map;
- findings;
- hazards.

## 1. The system

A chain (`Chain`, chain.go:96-124) belongs to one miner of a committee of `N`
peers. Time is divided into turns of fixed length (`period`). The block for
turn `h` is produced by the peer whose slot it is. `runtime.go`, which is not
under `src/`, defines that slot as `peers[h mod N]` (spec 4.4).

| part | state | operations | interacts with |
|---|---|---|---|
| runtime clock / rotation (runtime.go, spec 4.4) | `nextTurn`, head state `{Head, Height, node}` | `getNextTurn`, `setNextTurn`, `isMyTurn`, `getHead`, `setHead` | read by both goroutines without a common lock step |
| block index (blockindex.go, spec 4.2) | map hash → `blockNode{parent, height, count}` | `addBlock`, `ancestor`, `ancestorByCount` | pushBlock inserts; FetchBlock and billing read |
| main cycle (chain.go:530-622) | the loop's position, the block being produced | `syncHead`, `runCurrentTurn`, `produceBlock`, advise fan-out, `setNextTurn` | sends on `c.blocks` (unbuffered) and `c.heights` (buffer 1); calls peers' `FetchBlock` and `AdviseNewBlock` |
| ingest loop `processBlocks` (644-739) | the `stash` of future blocks | receive height → spawn `returnStash`; receive block → stash / drop / `CheckAndPushNewBlock` → billing | receives from mainCycle, returnStash goroutines and RPC handlers |
| `CheckAndPushNewBlock` / `pushBlock` (330-398, 831-899) | index, head, bdb, SQL state | idempotent accept, parent check, producer check, replay, persist | ack index |
| billing (981-1064) | none (a pure walk) | aggregate costs over the last `updatePeriod` blocks | triggered from the ingest loop every `updatePeriod` blocks |
| ack index (901-943) | acks per height | AddResponse, VerifyAndPushAckedQuery, register, remove, advance | RPC handlers, pushBlock, runCurrentTurn |
| lifecycle and replay (132-327, 742-773) | ctx, goroutines, bdb | NewChainWithContext replay, Start/sync, Stop | all of the above |
| SQL state (xenomint), transport, crypto, leveldb | external | | |
| `src/unnamed/part_000`, `src/docker-compose.yml` | deployment script, container layout | | |

### What makes it hard

- Two goroutines per miner meet at an unbuffered channel. Several more
  senders also use that channel: RPC handlers and one returnStash goroutine
  per turn.
- Blocks for a later turn are stashed and re-sent later. Blocks for an
  earlier turn are dropped (the fork TODO).
- `nextTurn` is read by the ingest loop while the main cycle advances it.
- A producer builds on whatever head it has when its turn starts.
- The same block can arrive from several paths: its own stash, syncHead,
  and advice.
- Billing is triggered by every successful `CheckAndPushNewBlock`,
  including the idempotent "already applied" one.

## 2. Modules

| module | models |
|---|---|
| `SQLChain` | the chain engine of N miners: mainCycle, processBlocks, CheckAndPushNewBlock, pushBlock, syncHead, advice |
| `BlockLog` | the abstract chain each miner keeps, refined by `SQLChain` |
| `Billing` | the billing walk, against a reference sum |
| `Lifecycle` | Start, sync, Stop and every ctx-cancellation path of one miner |
| `Replay` | persistence, crashes, failed puts and the startup rebuild of one miner |
| `AckIndex` | the ack index of one miner: queries, ack RPCs, the snapshot in produced blocks, advance, and pushBlock's add/remove loops |

### `SQLChain.tla`: the chain engine of N miners

Blocks are abstracted to `[h, parent]`. Each height has exactly one
producer, so a height names the block of that turn, and the parent
height stands for the parent hash. The SQL payload, the hashes and the
signatures are left out.

State, per miner `n`:

| variable | code |
|---|---|
| `nextTurn[n]` | `rt.nextTurn` |
| `head[n]` | `rt.head.Height` (its block is `HeadBlock`) |
| `index[n]` | block index: height → `[parent, count]` |
| `mcPc[n]`, `mcOut[n]` | where mainCycle is; a block it is sending on `c.blocks` |
| `stash[n]` | processBlocks' `stash` |
| `returning[n]` | the stashes being re-sent by returnStash goroutines |
| `heightsBuf[n]` | fill of `c.heights` (capacity 1) |
| `pbCur[n]` | a block being checked |
| `advise` | AdviseNewBlock RPCs in flight |
| `produced` | all blocks ever built |
| `cached[n]` | the index nodes whose block body is in memory (`node.block != nil`) |
| `pbBill[n]` | processBlocks is about to run `billing(head.node)` |
| `billed[n]` | the head counts at which billing ran |
| `billRead[n]` | the heights of the blocks the last billing read |
| `clock` | wall time, in turns |

Actions:

- `SyncHead` and `LoopStart`: mainCycle's loop with syncHead.
- `NextTick` and `TurnDue`: the `nextTick` comparison.
- `ProduceBlock`: the CommitEx returned queries. The empty-commit case is
  `EndTurn` taken directly from `TurnDue`.
- `AdviseNewBlock` and `AdviseDone`: the fan-out and `wg.Wait`.
- `EndTurn` and `Notify`: runCurrentTurn's defer: `pruneBlockCache`,
  `setNextTurn` and the `c.heights` send. `PruneBlockCache` is the two
  loops of chain.go:945-961 as the recursive operators `AtOrBelowCount`
  (walk to the cutoff `head.count - blockCacheTTL`) and `DropBodies`
  (drop bodies until a node has none).
- `ReturnStash` and `RecvHeight`: the heights case.
- `RecvFromMainCycle`, `RecvFromStash`, `RecvAdvised` and `Ingest`: the
  three kinds of sender on `c.blocks`, and the classification by
  `nextTurn`.
- `CheckAndPushNewBlock`: every branch, with `PushBlock` (which keeps the
  new node's body) and the `Billing` trigger folded in, as in the code.
- `RunBilling`: the `billing(head.node)` call that follows on the same
  goroutine. It is a step of its own so that the main cycle's prune can
  come between the push and the walk. `BillingReads` walks back
  `UpdatePeriod` nodes, and `ReadBlock` takes the cached body or, when it
  was pruned, `FetchBlock(node.height)`. `FetchBlock` is the head's
  `Ancestor` read through `FetchBlockByIndexKey` (the bdb get). The
  charges themselves are modelled in Billing.tla.

`Tick` advances the clock. With `Synchronous = TRUE`, time only passes when
every miner has finished the current turn's work (`Quiescent`). This models
a deployment whose network and CPU keep within a turn. With
`Synchronous = FALSE`, steps and ticks interleave freely.

The runtime and the block index are not under `src/`. They are modelled from
the spec and marked `spec_modelled` in the map: `IsMyTurn`, `Producer`,
`HeadBlock`, `HeadCount`, `Ancestor`, and the RPC handler `RecvAdvised`.

`IsMyTurn` is `nextTurn % N = n`. This follows spec 4.4's rule that the
producer of height `h` is `peers[h mod N]`, together with
`CheckAndPushNewBlock`, which expects `(nextTurn-1) % N` for a block of the
turn just ended (chain.go:838). Spec 4.4 also writes the `isMyTurn` formula
with `(nextTurn-1)`. That reading would make every producer's own block fail
the peers' producer check, so we take the code-consistent one.

Under `Lossy = TRUE` there are two kinds of RPC failure:

- `LoseAdvice`: an AdviseNewBlock call fails and the request never reaches
  the peer (chain.go:512-522 only logs the error).
- `SyncAnswers`: syncHead's FetchBlock calls may fail. The peers are asked
  in list order and the first call that succeeds wins, so any peer's answer,
  or none, is possible.

`ChainSeq(n)` reads a miner's index as a sequence of blocks. `Log` is
`INSTANCE BlockLog WITH log <- ChainSeq, made <- produced`, and
`ImplementsBlockLog == Log!Spec` is checked as a PROPERTY.

### `BlockLog.tla`: what the engine promises (abstract specification)

This module has no goroutines, turns, channels or stashes. It has two
actions:

- `Make(b)` makes at most one block per height, on a block that exists.
- `Extend(n, b)` appends to miner `n`'s chain a made block whose parent is
  that chain's last block.

Chains may diverge, but none is ever rewritten. SQLChain refines it:
- `ProduceBlock` is `Make`;
- `CheckAndPushNewBlock`'s `PushBlock` branches are `Extend`;
- every other step is a stuttering step.

### `Billing.tla`: the billing walk as a fold

`BillingOf` folds `AddBlock` over the window of up to `UpdatePeriod` blocks.
`AddBlock` does the query-tx loop and then the failed-request loop, with
the map handling of chain.go:999-1033. A reference (`Charges`, `RefCost`,
`RefIncome`) sums the same charges directly, from spec 4.7, with its own
window and cost. The checked chains are every chain of up to 3 blocks,
each with at most one query tx and one failed request, over 1 user and 2
miners.

### `Lifecycle.tla`: Start, sync, Stop and cancellation of one miner

This module models one miner (peer 0) and its goroutines, each with a
program counter:

- Start (`stPc`): spawn processBlocks, run `sync()`, then spawn mainCycle
  (chain.go:742-748, 625-641).
- mainCycle (`mcPc`): the loop with syncHead, nextTick and runCurrentTurn,
  and its deferred `c.heights` send (607-622, 579-604).
- processBlocks (`pbPc`), with the stash and one `returning` sequence per
  returnStash goroutine (644-739).
- Stop (`stopPc`): cancel, wait for the workers, close (751-773).

Every blocking send is modelled with its `select`:

- The `c.blocks` senders are syncHead, produceBlock and returnStash. They
  all also wait on `ctx.Done`, and each has an `...Abort` action.
- The deferred `c.heights` send at 587 waits on nothing.

Blocks are reduced to their heights. Whether CheckAndPushNewBlock accepts a
block is a free choice here, because SQLChain checks those branches.

The timing regime is the variable `keepsUp`, chosen in `Init` from the
constant `IngestModes`. With `keepsUp`, the clock only ticks in these cases:

- mainCycle sleeps before its target, or is gone, or has not been spawned;
- processBlocks is not checking a block;
- `c.heights` is empty.

That is a deployment whose ingest keeps up with the period. Without
`keepsUp`, ticks and steps interleave freely.

### `Replay.tla`: persistence, crash and restart of one miner

The state splits into two parts:

- durable: the block store `store` (bdb) and the SQL state `applied`, the
  blocks replayed into SQLite;
- memory: `head`, `index`, `up`.

A peer's block takes two steps:

1. `CheckAndPushNewBlock`: already-applied, parent-mismatch, then
   `ReplayBlockWithContext`.
2. `PushBlock`: `bdb.Put` (chain.go:330-352). Under `StoreFaults` the put
   may fail, with nothing changed.
3. `SetHead`: the head swap and the index insert (353-354).

A crash may come between the put and `SetHead`. The block is then
stored, but it is not head, and the restart makes it head. Spec 9 calls
this intended. `HeadIsDurable` exempts exactly this window.

The other actions are:

- `Crash`, bounded by `MaxCrashes`, which loses memory.
- `StartRebuild`, which is NewChainWithContext: `Rebuild` folds
  `RebuildStep` over the stored blocks in BLCK key order, with every branch
  of the loop at 203-244 (genesis check, fast path, `lookupNode`,
  `ErrParentNotFound`).
- `StartGenesis`, for an empty store.

Miners run under `restart: always` (docker-compose.yml:70), so a restart
after a crash is part of normal operation.

### `AckIndex.tla`: the ack index of one miner

Miner 0 serves `Queries` and keeps the ack index. `ackindex.go` and
`runtime.go` are not under `src/`, so the index contracts (bucket = height
of the request timestamp; `acks(h)` = registered acks below `h`;
`advance(m)` drops buckets below `m`) and min-valid-height
(= `head - Q`) follow spec 4.3.

| variable | code |
|---|---|
| `nextTurn`, `head` | `rt.nextTurn`, `rt.head.Height` |
| `reqH[q]`, `respH[q]` | heights of the request and response timestamps |
| `tracked` | queries SQL state tracks until `CommitEx` takes them |
| `resps`, `acks` | responses and registered acks in the index |
| `ackPc[q]` | where `VerifyAndPushAckedQuery` for `q`'s ack is |
| `inbox` | blocks on `c.blocks` or in the stash, in turn order |
| `chain` | blocks pushed |

The actions are:
- `Serve` (`Query`, then the worker's `AddResponse`);
- `CheckAck` (the expiry check on the response timestamp, 904);
- `PushAck` (`pushAckedQuery`: register, which fails without the response);
- `RunCurrentTurn`: `produceBlock` on this miner's turns, or a peer's block
  otherwise, then the deferred `setNextTurn` and `ai.advance`;
- `Ingest`: a block waits while its turn runs, is dropped when past, and
  otherwise goes through the parent check and `pushBlock`.

The RPC goroutine's two steps interleave freely with turns and ingest.
Peers' blocks carry none of this miner's queries. Every block of the
committee is delivered, in turn order.

## 3. Runs

| run | cfg | expect | what it shows |
|---|---|---|---|
| sync | MC_Sync (N=2, 4 turns, UpdatePeriod 3, cache TTL 1) | pass | `Agreement`: with in-turn delivery, no two chains fork. `ProducedEventuallyEverywhere`: every produced block reaches every chain, through stash and returnStash when early. `ImplementsBlockLog`: SQLChain refines BlockLog. `BillingReadsItsWindow`: every billing reads exactly the last UpdatePeriod blocks of its chain, also when bodies were pruned and a turn without a block makes heights and counts differ (about 16k states, 30 s) |
| async_safety | MC_Async (N=2, 3 turns, Lossy, cache TTL 1) | pass | `TypeOK`, `IndexWellFormed`: with arbitrary delays and failing RPCs, every index is a well-linked chain of produced blocks with counts = depth. `BillingReadsItsWindow`: the window is still read exactly when the main cycle prunes bodies between a push and its billing (about 3.5M states, 1 min) |
| double_billing | MC_DoubleBilling (UpdatePeriod=1) | violation | `BillingOncePerPeriod` fails: stash + syncHead deliver the producer's own block twice and billing runs twice |
| billing_costs | MC_Billing | pass | `TypeOK`, `UserCostsCorrect` |
| billing_incomes | MC_BillingIncomes | violation | `MinerIncomesCorrect` fails: a failed request wipes the user's miner map |
| lifecycle | MC_Lifecycle (N=3, 5 turns, both regimes) | pass | `MainCycleNotBlocked`: in both regimes the tick loop is never left blocked on `c.heights` while the chain runs. `StopTerminatesKeepingUp`: when ingest keeps up, Stop returns, also when called during `sync()` |
| stop_hang | MC_StopHang (regime without keepsUp) | violation | `StopTerminates` fails: mainCycle blocks for ever on the unguarded `c.heights` send after processBlocks exited |
| replay_restart | MC_Replay (height 4, 3 crashes, failing puts) | pass | `TypeOK`; `StoreIsChain`: the store is always one linked chain, so the rebuild always takes its fast path; `HeadIsDurable`: the in-memory head and index always equal what a restart rebuilds |
| replay_state | MC_ReplayState (1 crash) | violation | `StateMatchesChain` fails: a crash between replay and `bdb.Put` leaves the SQL state a block ahead, and the block is replayed again after restart |
| ack_index | MC_AckIndex (N=2, TTL 1, 5 turns, 3 queries) | pass | `TypeOK`; `AckInChainOnce`: no ack is in two blocks of the chain. A block made from a snapshot taken before the previous own block was pushed can exist, but by then that earlier block is past and processBlocks drops it (about 5.2M states) |
| ack_window | MC_AckWindow (4 turns, 2 queries) | violation | `AcksWithinWindow` fails: a block carries an ack whose request height is below `head - TTL` |

Every property of a passing run has a mutant in `PROJECT.json` that TLC
finds violating it. A mutant is a plausible bug in the mapped definition,
for example:

- the parent check dropped;
- the head swapped before the put succeeds;
- a block built on the previous height instead of the head;
- the `ctx.Done` check of mainCycle's loop removed;
- a pruned body fetched with the node's count where its height is needed,
  or not fetched at all.

### Bounds

- Three turns give genesis plus up to three blocks, which is enough for:
  - a producer's own turn;
  - a peer's turn before it;
  - a block that is early at one miner and late at another.
- SQLChain runs use `N = 2`. `N = 3` (about 294k states) needs 7.5 minutes
  when the liveness property is checked as well.
- The sync run has four turns, `UpdatePeriod = 3` and `BlockCacheTTL = 1`.
  The code's TTL is at least 30. What matters is that the billing window
  is longer than the cache, which `updatePeriod`, a per-database setting,
  allows. In a synchronous run, billing follows its push before the next
  prune. The window must therefore be two blocks longer than the TTL to
  reach a pruned body, and a fourth turn is needed for a turn without a
  block inside it. In the async run the prune can fall between a push
  and its billing, so `UpdatePeriod = 2` already reaches a pruned body.
- `UpdatePeriod = 2` makes billing fire at count 2 and not at count 1. The
  double-billing run uses 1 so that the first block bills.
- Lifecycle uses `N = 3` and 5 turns, with starts at clock 0 and 2 and next
  turn 1 or 2. These cover the following cases:
  - a start that is on time;
  - a start with turns to catch up;
  - turns of the miner itself and of its peers.
- Replay uses heights up to 4, three crashes and six replays. These allow a
  crash at every step of a 4-block chain, and repeated failed puts of the
  same block.
- AckIndex uses two peers, a TTL of one turn and five turns, so that:
  - the miner has two own turns (2 and 4), with a peer's turn between them;
  - buckets expire inside the run;
  - a second own block can be made before the first one is pushed.
  Three queries let one own turn commit a query while another query's ack
  is in flight. The violation run needs only four turns and two queries.

### Fairness

- SQLChain puts `WF` on each miner's `MainCycle` and `ProcessBlocks`. The
  Go scheduler runs every runnable goroutine.
- Lifecycle puts `WF` on each goroutine and on `StopReturn`.
- Lifecycle also puts `SF` on processBlocks' `ctx.Done` case. Go's `select`
  picks uniformly at random among ready cases, so a case that is ready
  infinitely often is eventually taken. With only `WF`, a `sync()` that
  keeps offering blocks could starve it.
- AckIndex checks only safety, so it assumes no fairness.
- Nobody is forced to call Stop. The clock has no fairness, and message
  loss is never forced.

### Deadlock

- SQLChain, Replay and AckIndex each have a `Done` step, taken only when the bounds of
  the model are reached. Deadlock checking stays on, so any other stop would
  be reported.
- Lifecycle's runs set `CHECK_DEADLOCK FALSE`, because the program really
  stops in the Stop hang.

## 4. Findings

1. **Double billing** (chain.go:851 with 704). The duplicate delivery takes
   the idempotent success path. processBlocks then bills the same head count
   again and submits a second UpdateBilling.
2. **Billing loses miner incomes** (chain.go:1027-1029). The failed-request
   branch assigns a new map to `minersMap[user]` when only the
   `[user][miner]` key is missing.
3. **Stop hangs** (chain.go:587). The deferred `c.heights` send does not
   watch `ctx.Done`.
4. **SQL state ahead of the chain** (chain.go:893 before 349). Replay
   happens before persist, and nothing undoes it after a crash or a failed
   put. The block is replayed again after restart.
5. **Expired acks go into blocks** (chain.go:584 with 453). `ai.advance`
   runs at the end of a turn, while that turn's block is still stashed, so
   it uses the old head. The block is pushed right after and raises
   min-valid-height, but the next `advance` comes a turn later, and
   `ai.acks` does not filter. The next block can therefore carry an ack
   the spec calls expired (spec 3, invariant 5; spec 4.3).

Two further observations are not among the runs:
- **Forks are never resolved** (chain.go:696-697, the fork TODO). With the
  `MC_Async` constants TLC finds two miners on diverging chains when
  `Agreement` is checked.
- **Lost advice is not a checked property.** AdviseNewBlock has no retry
  (chain.go:517). syncHead runs twice per cycle (614, 616), and each run
  asks the peers once. Under loss that is unbounded and unfair, any code
  with bounded retries leaves a miner behind, so a property that a miner
  catches up would fail for that reason alone. Such a property would need
  a fairness assumption on the network that the code does not state.
- **Start may not return** (chain.go:638). `sync()` loops on
  `nextTurn <= height`, and nothing on its path advances `nextTurn`.
  Whether that happens depends on the runtime's initial next turn, which
  `runtime.go` (not under `src/`) sets.

## 5. Not modelled yet, and the plan

- Ack index: the tdb copies of responses and acks, which are only read back
  for logging, and peers' blocks carrying this miner's queries or acks.
- Billing error path: a nil `ub` is dereferenced at 717 when billing fails.
  Billing fails when `pruneBlockCache` evicted a body and the bdb read
  fails; the model's block store never fails a read. The resulting panic
  is a crash at a point where Replay already shows the chain survives.
- The lost billing round (chain.go:703): a crash between the push that
  completes a period and its AddTx loses that period's UpdateBilling,
  because the restart never bills. Spec 4.7 calls billing best-effort, so
  this is by design. Replay, which has crashes, does
  not model billing. SQLChain, which models billing, has no crashes.
- FetchBlockByCount (served to peers by an RPC handler not under `src/`),
  and syncHead's stale-ancestor answer with three miners.
  That case would need `N = 3` with `Lossy`.
- The charges of Billing.tla computed inside SQLChain over block contents. SQLChain checks which blocks a billing reads, and Billing checks what it computes from them.
- SQL state, transport, crypto, leveldb encoding, the deployment script and
  docker-compose stay out, because they are external or pure I/O.
  docker-compose's `restart: always` is used only to justify restarting
  after a crash.
