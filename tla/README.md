# Fuel block committer: TLA+ models and proofs

`fuel-block-committer` moves data of the Fuel chain (L2) to Ethereum (L1). Once
per epoch it posts the hash of a Fuel block to a contract; and it imports Fuel
blocks, bundles and compresses them, cuts the bundles into fragments and submits
the fragments as blobs (to Ethereum or to EigenDA), watches the transactions and
accounts for their cost. One process runs a handful of tasks; each calls its
`run` for ever, sleeping in between, and they share nothing but a PostgreSQL
database. What makes it hard is that every task works with answers of a chain
that moves between two of its calls, that the process may die between a call that
cannot be undone and its record in the database, and that Ethereum drops,
replaces, reverts and reorganises transactions.

Paths below are relative to `src/`; `services` is `packages/services/src`.

## Inventory

| Component | State | Operations | Hard behaviour | Correct when |
|---|---|---|---|---|
| State committer, `services/state_committer/service.rs` | none between runs | `run`: replace a stalled transaction, or submit the oldest free fragments | awaits between check, choice, send and record; lost answers; crash before the record | nothing finalized or under way is sent afresh; one batch at a time; every fragment is delivered |
| State listener, `services/state_listener/service.rs` | none between runs | `run`: ask about every open row, then write all changes and costs | head number older than the receipts; reorgs; competing transactions of one nonce; a replacement recorded meanwhile | finalized means on the chain for good; one outcome per nonce; no row stays open |
| Storage, `packages/adapters/storage/src/postgres.rs`, `mappings/` | all tables | the queries and the updates of every task | states and costs written together; nonce-wide update; widths and decimals of columns | costs charged once; `is_finalized` current; rows read back as written |
| Block committer, `services/block_committer.rs` | none between runs | `run`: post the epoch's block or update the latest submission | nonce read then used after an await; reverted, dropped, replaced or pruned commits | tables agree; epochs in order; a second commit only after the record of the first is missing |
| Ethereum adapter, `packages/adapters/eth/src` | none | `submit`, `submit_state_fragments`, reads, fee history | nonce and fee of a replacement, fee cap, send timeout | replacement keeps the nonce, is dearer and within the cap |
| Block importer, `services/block_importer*` | none between runs | import the missing ranges chunk by chunk | the stream fails in the middle of a range; blocks the node does not have | every available block in the window is stored in the end |
| Block bundler, `services/block_bundler*` | time of the last bundle | wait, or choose a prefix, build and store a bundle | minutes between the read and the insert; size limits, gaps, time limit | bundles are disjoint, cover the blocks, are not larger than they need be |
| State pruner, `services/state_pruner.rs` | none | delete old rows and what hangs on them | rows still in use, also by a run under way | no row refers to a deleted one; what is pruned is forgotten, not miscounted |
| EigenDA committer and listener, `services/*/eigen_service.rs` | none between runs | disperse the next fragment; poll the status of each submission | crash between dispersal and record; statuses written long after they were read | one live submission per fragment; finalized only with a certificate |
| EigenDA adapter, `packages/adapters/eigenda/src` | token buckets | throttle, pad, dispatch, status with retries | tokens taken twice; failed calls count as a failed blob | a fragment is dispersed again only after a failure |
| Fees, cache, fee algorithm, `services/fees*`, `state_committer/fee_algo.rs` | fee cache | fees over ranges of blocks; means; decision | ranges at the edges, eviction during a request, reorgs | a request is covered exactly; means are those of the chain |
| Encoding, `packages/encoding`, `eth/src/blob_encoder.rs` | bits written so far | bundle to blobs and back; fragments and sidecars | field elements, headers, last blob; lost, repeated, mixed blobs | what is decoded is what was encoded, or refused |
| Cost reporter, health reporter, HTTP API | none | answers to requests | pages; a cost that changes after it was reported | complete pages of final costs, which stay while their bundle is stored |
| Connection health, `metrics/src/connection_health_tracker.rs`, the two adapters | a counter and a flag | note an error or a success | concurrent requests noting in any order | a healthy report is backed by the link |
| Process, `committer/src/main.rs`, `setup.rs`, `config.rs` | task handles, cancellation token | start services, stop in order | tasks asleep or running at the stop; panics; failures between two starts | after a clean stop every task has ended and the pool is closed |
| Signers, clock, gauges, simulators, benchmarks | - | - | cryptography, I/O, tools | not the subject of these models |

The tasks interact only through tables. The importer writes `fuel_blocks`; the
bundler reads them and writes `bundles` and `l1_fragments`; the committer reads
fragments and writes `l1_blob_transaction` and `l1_transaction_fragments` (for
EigenDA `eigen_submission`), the listener settles these and writes `bundle_cost`;
the pruner deletes from all of them. Each of them also talks to a node, which sees
the same chain at another time. The block committer has a wallet and tables of
its own, from which the pruner deletes too. The fee cache is shared by the fee algorithm and the fee tracker.

## Modules

| Module | Models |
|---|---|
| `Ethereum` | one account on L1 as a node shows it: `height`, the inclusion of each nonce (`mined`), the node's `mempool`, every transaction ever sent. `MineBlock`, `Reorg`, `Evict`, `EvictQueued`; the node's interface (`Accepts`, `Broadcast`, nonces, receipts, `IsSqueezedOut`). |
| `BlobStorage` | the tables of the blob path with each query and update as an operator; one operation is one database transaction. |
| `StateCommitter` | `run` of the state committer: `CheckNonfinalized`, `HoldOff`, `ReplaceStalled`, `SubmitReady`, `SendAccepted`, `SendTimedOut`, `SendFailed`, `RecordPending`, `RecordFailed`. The local variables of the call are state. |
| `StateListener` | `run` of the listener: `ReadNonFinalizedTxs`, `ReadBlockNumber`, one `QueryRow` or `LookUpInMempool` per call, `ApplyChanges`, `ListenerError`. |
| `BlobPipeline` | both tasks, the chain, new Fuel blocks, the bundler's inserts and crashes; the properties. |
| `FragmentDelivery` | abstract: a batch at a time, reported delivered only when published for good. |
| `BlobInvariant` | the inductive invariants `IInv` (single rows) and `BatchInv` (which fragments the rows carry). |
| `BlockCommitter` | `run` of the block committer with its tables, over an `Ethereum` of its own, and what the pruner deletes of them. |
| `BlockStorage` | blocks, bundles, fragments and their transactions: missing ranges, inserts, the sequence of unbundled blocks, what the pruner deletes of them. |
| `BlockImporter`, `BlockBundler` | their `run`, a step per await; chunks, errors in the stream, the wait, the insert. |
| `DataPipeline` | importer, bundler, pruner and, in one step per transaction, sending, over the same tables, with crashes. |
| `BlockIntake` | abstract: blocks are stored, put once into a bundle with their neighbours, and forgotten only then. |
| `EigenDA` | committer, listener, throttler, disperser and the table `eigen_submission`, with crashes and the pruner. |
| `FeeCache`, `FeeAlgorithm` | the cache with its chunked downloads on a chain that grows and reorganises; means and decision over it. |
| `BundleOptimizer` | the choice of the prefix of blocks for a bundle: `bundler.rs` and `eigen_bundler.rs`. |
| `BlobCodec` | encoder, header, fragments and sidecars, decoder and its validation; fragments and padding for EigenDA. |
| `BlobTxFees` | fees of a blob transaction and its replacements, the cap, what is charged, the percentile a priority asks for. |
| `BundleCosts` | the split of a fee among bundles, the row updates, the cost report, the pruning of cost rows and bundles over the same heights again. |
| `StorageRows` | what six tables keep of a value and give back: widths, decimals, state codes, constraints. |
| `ConnectionHealth` | the health tracker under concurrent requests. |
| `Process` | start, polling, panics, stop. |
| `MCBlobPipeline`, `MCBlockCommitter`, `MCDataPipeline`, `MCParts` | values of the constants for TLC. `MCParts` combines the eight small models that share nothing: its `subject` says which one moves. |
| `EthereumTheorems`, `BlobTheorems`, `BlockCommitterTheorems`, `DataTheorems`, `EigenTheorems`, `CodecTheorems`, `PartTheorems` | the proofs; `PartTheorems` those of the parts in `MCParts` but the codec. |
| `FoldTheorems` | facts the proofs share: recursion, folds and sums, quotients, orders of finite sets. |

Modelling choices, blob path and block committer:

- A transaction hash is the index in `sentTxs`. The rows of the database are a
  state per hash; the links to fragments are what the transaction carries.
- Fees are levels. A replacement doubles the fees, hence is at least one level
  above what it replaces; `MaxFee` is `tx_max_fee`, `MaxFee + 1` any higher price.
  The node refuses a replacement that is not dearer. `BlobTxFees` has the amounts.
- The clock and the fee algorithm decide freely whether a run waits (`HoldOff`).
  A timeout that matters, the one on a send, is `SendTimedOut`: the transaction
  is out, the caller does not know.
- Filling in the nonce of a blob transaction and sending it are one step. No one
  else uses the blob wallet, so only the mempool's contents can change in between.
  The nonce of a commit is read in a step of its own (`ReadNonce`): it is the
  count at the latest block, which a commit still in the mempool does not change.
- A fragment is numbered in the order `oldest_nonfinalized_fragments` returns
  it; `EndHeight` gives its bundle. Bundles may be stored in any order.
- Blocks without a transaction of the account are mined only while an inclusion
  waits for confirmations: otherwise they change nothing a task can see but the
  number, and differences of numbers are all that is used.
- A block once `NumBlocksToFinalize` deep is not reorged. That is the meaning of
  the configuration value and the only assumption on finality.
- A miner may include a transaction that the node has dropped or replaced.
- Reverts, reorgs, drops of executable transactions, lost answers, failing calls
  and crashes are faults, `MaxFaults` per behaviour. A failing send is no fault.
- `UintBits = 16` stands for the 64 bits of a block number: TLC computes with 32.
- The pruner's age of a row in `BlockCommitter` is the order of the sends; it deletes
  at any moment of a run. `untracked` is a history variable: it counts, per epoch,
  the runs that sent it and did not record it and the prunings of its submission.

The data path and EigenDA:

- A block is its height; `SizeBelow` gives the bytes below each height, so any
  sizes. `Unavailable` are heights the node has no compressed block for. A bundle
  is its range of heights and the number of its fragments; the bundler in
  `DataPipeline` takes any non-empty prefix of the sequence it holds, and
  `BundleOptimizer` says which.
- Time is a clock that ticks at any moment, for the pruner's cut-off. The
  accumulation timeout is an action, `AccumulationTimeout`.
- The pruner deletes in one statement, whose parts have no row in common: blob
  transactions, fragments, bundles and blocks are in `BlockStorage` and
  `DataPipeline`, cost rows in `BundleCosts`, commits and their submissions in
  `BlockCommitter`, EigenDA's submissions in `EigenDA` (their fragments stay).
  `BlobPipeline` is without pruning: its properties are about rows that exist.
- Sending in `DataPipeline` is one step per transaction, because that the steps
  between are sound is `BlobPipeline`'s subject.
- The disperser's status of a blob goes forward only; calls may fail, and the
  last retry that fails counts as a failed blob (`GiveUp`). Tokens refill at any
  moment. `SlowPolling` says that polls are so far apart that the limiters are
  full again at each.

The parts in `MCParts`:

- `FeeCache`: the chain's newest block may be replaced, which is what
  "latest" means to the program. Concurrent requests interleave per chunk.
- `BundleOptimizer` takes any compressed sizes that do not shrink when a block is
  added; the optimization may run out of time after every attempt.
- `BlobCodec`: a bit of a bundle is its position, so equal means the same bit.
- `BlobTxFees`, `StorageRows`: numbers are scaled down with their limits;
  `BlobTxFees` and `FeeAlgorithm` round where the code has floats.
- `BundleCosts`: `chargedTxs` and `prunedCost` remember what the pruner deletes, so
  that the sums are over all that was ever paid. Fragments with an old delivery and
  a younger failed transaction stay and may be finalized again (`kept`).
- `ConnectionHealth`: a link goes down, comes back, or is gone for good, from up or
  down.
- `Process` has a phase per call of `main` that may fail. Bounds on numbers in the
  configuration are one flag. The server may end with an error, on which `main`
  returns without stopping the tasks in order (`ServerFails`).

## Runs

`tlc -config X.cfg M` checks run X; the module has the name of the run, or
`MCBlobPipeline` for `MCBlob*`, `MCBlockCommitter` for `MCBlockCommitterLive` and
`MCFinality`, `EigenDA` for `MCEigen*`.

| Run | Checks | Shows |
|---|---|---|
| `MCBlobPipeline` | `FinalizedOnChain`, `OneOpenSubmission`, `OneOutcomePerNonce`, `ChargedOnFinality`, `SettledForever`, `NoFreshResubmission` | tables, chain and both tasks stay consistent at every interleaving (2.3 million states) |
| `MCBlobDelivery` | `NoFragmentFinalizedTwice`, `BundlesFinalized`, `ImplementsDelivery` | the pipeline implements `FragmentDelivery`; transactions across two bundles |
| `MCBlobLiveness` | `FragmentsDelivered` | both fragments of a bundle, sent one after the other, arrive; also when a lost answer is followed by the loss of the untracked transaction |
| `MCBlobSettling` | `OpenRowsSettle` | rows are settled although the window passes the fragment by |
| `MCBlobWindow` | `OnlyFragmentsInWindow`, violated | finding 2 |
| `MCBlockCommitter` | `TablesAgree`, `ResentOnlyIfUntracked`, `PostsOnlyNewerEpochs` | three epochs with reverts, reorgs, lost answers, crashes and a pruning: nothing is sent again but what is on no record (1.7 million states) |
| `MCBlockCommitterLive` | `LatestCommitSurvives`, `LatestEpochSettles` | the last epoch is settled if the chain loses no transaction |
| `MCFinality` | `WaitsForConfirmations`, violated | finding 1 |
| `MCDataPipeline` | `BundlesPartitionBlocks`, `HeldStillFree`, `NothingDangles`, `ImplementsIntake`, `BlocksGetBundled` | importer, bundler and pruner keep the tables together and implement `BlockIntake`; every block that can be bundled is |
| `MCEigenDA` | `FinalizedIsComplete`, `OneLiveSubmission`, `RepeatsAreFaults`, `SettledForever`, `FragmentsDispersed` | the table agrees with the disperser, repetitions have a fault behind them, every fragment gets there |
| `MCEigenThrottle` | `CapacityIsReserved`, violated | finding 3 |
| `MCParts` | fees: `RequestIsCovered`, `StaleOnlyIfReorged`, `NewestAreKept`, `MeansAreTrue`; bundles: `BestTriedIsChosen`, `TrimsNoMoreThanNeeded`; encoding: `DecodesExactly`, `EnoughBlobsForeseen`; `SentFeesAreAccepted`; `CostsAddUp`; `RowsReadBack`; `HealthFollowsLink`; `ShutdownIsClean`, `StopEnds` | each of the small models, over all its inputs |

Bounds, blob path. Three transactions are an original, its replacement and one with
another nonce (an untracked one that the next follows, or a fresh one), which is what
the nonce logic distinguishes. Five blocks with two confirmations let a transaction be
included, reorged and included again, and finalized; two fragments make one
wait for the other; two fees allow a replacement and then the fee cap. Two
faults give every pair (revert after a lost answer, crash after a reorg, ...).
`MCBlobDelivery` has three fragments, one in the first bundle and two in the
second, two per transaction: the first transaction spans the bundles and leaves
the second bundle incomplete. In the liveness runs the bounds on transactions
and blocks must not bind, or the system would stop only because of them:
every attempt needs at most an original and a replacement, a fault costs one
attempt, and each inclusion needs its block, its confirmation and the blocks that
a reorg takes back; the bounds lie above these sums, and a bound that bound
would show as a violation. Deadlock is checked in the runs of the blob
pipeline, where the committer always has a step; the block committer does nothing
once all epochs are settled (`Action::DoNothing`), so its runs do not check it.

Bounds, block committer. Three epochs of two blocks and three commits let an epoch be
sent twice and another follow or pass it; one pruning before, in the middle of or after
a run, of any number of the oldest rows. In `MCBlockCommitterLive` (two epochs) the
bounds must not bind: two faults and a pruning cost a commit each, and one more each
epoch; with the blocks of each.

Bounds, data path. Five heights, of which the node lacks the lowest and the highest, a window
of three and bundles of two bytes make blocks wait behind a hole until the window has
passed it, be imported in front of one, be cut off by the limit, be passed by the
window, and be pruned and imported once more, with a new hole among them; two
transactions let a replacement outlive what it replaced when the pruner runs. A
fault is one of the stream, of the database, or a crash. `MCEigenDA`: two fragments
and three blobs, so that one is dispersed again, and two tries per status. The
models stop when the bounds are reached, so deadlock is not checked there.

Bounds, parts. Each is the least at which its cases differ: a cache of two for
requests of three blocks and downloads of two, on a chain whose first block has low fees; tables of two and of five sizes, with
steps from one to more than the blocks there are; field elements of 16 bits, two per
blob, and bundle lengths of less than a blob, exactly a blob, 15 bytes, for which three
blobs are foreseen and two written, and more, with four of the blobs published
delivered; a fee cap that the third doubling
passes; two bundles, and a third over the heights of the first, that one can be
stored in only when the first is pruned; and each
number of a row at, below and above each limit.

Fairness. Both tasks of the blob path are polled for ever (`schedule_polling`), so
each takes its steps (weak fairness). Strong fairness of `SubmitReady`: a run that
may submit does so in the end, since the accumulation timeout expires and the fee
algorithm accepts any fee once the committer is too far behind. Strong fairness of
`SendAccepted`, resp. `SubmitAccepted`: a call that could succeed does not
fail every time. The chain mines executable transactions of the mempool
successfully and goes on to confirm them (weak fairness), except for the faults.
`EvictQueued`: nodes limit how long a transaction waits behind a nonce gap;
without it an untracked transaction, once lost, would block the wallet for ever,
because the committer never fills a gap. No fairness is needed of replacements.
Importer and bundler are polled, and the accumulation time passes (weak).
EigenDA: the same for committer, listener and disperser; strong fairness of
`WaitForCall`, because tokens come back, and of `CheckStatus`, because a call that
may succeed does not fail for ever. Health: requests are answered and noted.
Process: `main` is not blocked, runs return and sleeps end. Nobody need ever send
the stop signal: `StopEnds` says that a stop, once signalled, comes to an end, and
`ShutdownIsClean` what holds then.

For each property of a passing run PROJECT.json has a change of the model a plausible
bug would make, under which TLC reports the property violated. The changed operators
are in the modules, marked "Mutant of".

## Proofs

The theorem modules prove for every value of the constants that satisfies the
assumptions named in the modules (naturals, ordered bundles, at least one
fragment, blocks of at least a byte, and the like):

| Theorem | States |
|---|---|
| `Invariance` | `Spec => []IInv` |
| `TypeCorrectness` | `Spec => []TypeOK` |
| `FinalizedIsOnChain` | `Spec => []FinalizedOnChain` |
| `NonceHasOneOutcome` | `Spec => []OneOutcomePerNonce` |
| `FeesChargedOnce` | `Spec => []ChargedOnFinality` |
| `SettledRowsStay` | `Spec => SettledForever` |
| `BatchInvariance` | `Spec => []BatchInv` |
| `SubmissionIsAlone` | `Spec => []OneOpenSubmission` |
| `NothingIsSentAfresh` | `Spec => NoFreshResubmission` |
| `FragmentsFinalizedOnce` | `Spec => []NoFragmentFinalizedTwice` |
| `BundlesAreCurrent` | `Spec => []BundlesFinalized` |
| `DeliversFragments` | `Spec => ImplementsDelivery` |
| `CommitterInvariance`, `CommitterTypes` | `CommitterInv` and the types of `BlockCommitter` |
| `SubmissionTablesAgree` | `Spec => []TablesAgree` |
| `EpochsAreResentOnlyIfUntracked` | `Spec => []ResentOnlyIfUntracked` |
| `CommitsGoForward` | `Spec => PostsOnlyNewerEpochs` |
| `CommitsSurvive` | `~ChainFaults => (Spec => []LatestCommitSurvives)` |
| `DataInvariance`, `DataTypes` | `DataInv` and the types of `DataPipeline` |
| `BlocksAreInOneBundle`, `OptimizerHoldsFreeBlocks`, `NoRowDangles` | `BundlesPartitionBlocks`, `HeldStillFree`, `NothingDangles` |
| `ImplementsBlockIntake` | `Spec => ImplementsIntake` |
| `EigenInvariance`, `EigenTypes` | `EigenInv` and the types of `EigenDA` |
| `FinalizedHasCertificate`, `SubmissionIsOnly`, `SettledSubmissionsStay` | `FinalizedIsComplete`, `OneLiveSubmission`, `SettledForever` |
| `RepeatedBlobsAreFaults` | `Spec => []RepeatsAreFaults` |
| `FeeInvariance`, `FeeTypes` | `FeeInv`, `ValuesInv` with the types of `FeeCache` and `FeeAlgorithm` |
| `RequestsAreCovered`, `CacheIsTrue` | `RequestIsCovered`, `StaleOnlyIfReorged` |
| `CacheKeepsNewest`, `AveragesAreTrue` | `NewestAreKept`, `MeansAreTrue` |
| `BlobFeesAreAccepted` | `TxFeesSpec => []SentFeesAreAccepted` |
| `OptimizerInvariance`, `BestTried`, `TrimmedIsLongest` | `OptInv`, `BestTriedIsChosen`, `TrimsNoMoreThanNeeded` |
| `CodecInvariance`, `BlobsForeseenAreEnough`, `WhatIsDecoded` | `CodecInv`, `EnoughBlobsForeseen`, `DecodesExactly` |
| `CostInvariance`, `CostTypes`, `CostsAreExact` | `CostInv`, the types of `BundleCosts`, `CostsAddUp` |
| `RowsInvariance`, `RowsTypes`, `RowsAreReadBack` | `RowsInv`, the types of `StorageRows`, `RowsReadBack` |
| `HealthTypes` | the types of `ConnectionHealth` |
| `ProcessInvariance`, `OrderlyShutdown` | `ProcessInv`, `ShutdownIsClean` |

The type invariants of all models are proved, so no run repeats them.

**Blob path.** None of its properties is inductive, because the listener writes what
it has remembered. `IInv` adds what a run may rely on between its steps: the rows on
its list are open (`ListedOpen`: the committer closes none), the head number it read
is at most `NumBlocksToFinalize` ahead of what is irreversible
(`HeadNotAhead`), so a receipt with enough confirmations is of a block that stays
and what the run decides to finalize is settled (`DecidedFinal`); it decides one
nonce once, and never against a finalized row (`DecidedOnce`). For the
chain: mined nonces are in order and the head is at most `NumBlocksToFinalize`
ahead of the irreversible block (`EthereumInv`).

The argument: the steps of the chain and the sending steps of the committer only
add to what is sent and settled (`Persists`), which keeps the tables' and the
listener's promises (`DbPersists`, `ListenerPersists`); `RecordPendingStep`
and `ApplyChangesStep` treat the two steps that write rows, the latter by the
three ways a row may change (`UpdatedRowCases`); `NextStep` combines them.
The argument bounds nothing: `MaxTxs`, `MaxHeight` and `MaxFaults` are arbitrary.

`BatchInv` is about the committer, which acts on a query it made several steps
ago. While it is busy with a fresh batch no row is open and no live row carries a
fragment of the batch (`FreshBatch`); while it is busy with a replacement every
open row has the nonce and the fragments of what it replaces, and a live row with
one of these fragments has that nonce (`ReplacementBatch`). Both survive whatever
the listener does, because no step but `RecordPending` opens a row
(`OpensNothing`, `BatchStays`). So the row that `RecordPending` adds is alone or
joins its competitors: all open rows share nonce and fragments
(`OneOpenSubmission`), and live rows that share a fragment share the nonce
(`OneNoncePerFragment`). With `OneOutcomePerNonce` no fragment is finalized twice.
`PayloadsFit` says that nothing sent carries a fragment that is not stored and that
cutting a batch to size again changes nothing, which a replacement does. `BundlesFinalized`
needs that a bundle without fragments is not finalized (`UnstoredBundles`).

The refinement (`DeliversFragments`) maps `RecordPending` to `Submit` or a
stutter, `ApplyChanges` to `Deliver`, `GiveUp` or a stutter, `StoreBundle` to
`Store` and every other step to `Publish`. A replacement whose original was
finalized meanwhile puts nothing under way: what it carries is delivered already.

**Block committer.** `CommitterInv` ties what is remembered across awaits to the
tables: the epoch being posted is newer than every recorded one (`PostingIsNewer`),
a commit the node has accepted is not on record until `recording` is done
(`CommitAwaitsRecord`), the transactions read are pending or pruned (`ReadArePending`),
and all commits of an epoch are untracked but one, which is recorded or about to be
(`OneIsTracked`): posting needs an epoch that is not recorded, so before it all are.
`LatestCommitSurvives` needs that the chain loses nothing, and then more than
itself (`SurvivalInv`): at most one transaction is in the mempool and it has the
next nonce (`OneInMempool`), because a nonce that was read is at most the next one
(`NonceWasNext`), so a commit that is gone was outbid or overtaken by a newer one.

**Data path.** `DataInv` is the three table properties with `NothingAhead`: what is
stored, read or about to be imported is no higher than the chain. That the held
sequence stays free rests on two facts: only the bundler inserts bundles, and the
pruner deletes only blocks of bundles. In the refinement an import of a chunk is
`Store`, an insert of a bundle `Bundle`, a pruning `Forget`; the rest stutters.

**EigenDA.** What the listener is going to write is of rows that are still open
(`NewsOfOpenRows`) and is true of the disperser, whose statuses only go forward
(`NewsIsTrue`); what the committer has chosen has no live submission
(`ChosenIsFree`), and the blob it is about to record is new (`RecordIsNew`).

`RepeatsAreFaults` rests on the blobs that are `Lost`: failed, given up, or not in the
table and never to be. All blobs of a fragment but one are (`OneIsNotLost`), and no step
loses one without a fault of its own (`LossesAreFaults`).

**Fee cache.** Cached, fetched and missing heights split the range of the request
(`RangeIsSplit`), chunk after chunk, which needs only that a chunk is an interval
at the start of the missing ones; what is fetched or cached is the chain's fee
unless the block was replaced (`FetchedIsTrue`). That a request of the committer is
for the period the decision is at (`AsksForPeriod`) and holds all its heights makes the
average it takes the chain's. Eviction keeps a height only with all those above it.

**Fees of a transaction.** A sum, a product or a doubling saturates at `U128Max`, so
exact and saturated values differ only where the saturated one is the greatest
number. `tx_max_fee` is smaller than an eighth of that (`BlobTxFeesAssumption`; the
eighth is the step of the projection): a fee that passes the check of the limit was
computed without saturation, and the doubling before it as well. The percentile grows
with the Fuel chain, because `market` remembers the height of the last sending.

**Bundle size.** `OptInv`: each size is still to be tried, or the best proposal is no
dearer, or the smallest misfit is no larger (`CoveredBy`). It survives `save_if_best`
because "no dearer" is transitive, and the dropping of sizes above a misfit because more
blocks are not smaller. Of the sizes settled the proposal is then the best, or the
smallest, whenever the time is over (`CoveredIsBest`), and of all of them if none is
left. At first all sizes are to be tried, which is `generate_attempts`
(`AttemptsAreComplete`: its countdowns meet every size, and removing repetitions loses
none).

**Encoding.** The k-th bit of data has its offset in a blob, two bits reserved per field
element and the header at the start: quotient and remainder by the usable bits
give it (`OffsetByDigits`), it runs on within an element (`OffsetRun`) and jumps the
reserved bits between two (`OffsetJump`). `EncoderInv` says that the bits so far lie at
their offsets in full blobs but the last, `PublishedInv` that each published
blob has its share and that all blobs of a bundle are published together. The
header is read field by field (`ReadField`). The decoder accepts a selection of blobs
only if they are of one bundle, as many as the last one's index says and no two of an
index; a sequence as long as a set that it has all members of has each once
(`EachOnce`), so accepted means complete, in both directions (`ValidIsWhole`,
`WholeIsValid`). The pieces, sorted, are the bundle (`PiecesFlatten`), with EigenDA's
fragments the same and their padding inverted (`PaddedAndBack`).

**Costs.** `CostInv`: a row, stored or pruned, has the sums over all transactions
ever finalized that touch its bundle (`RowsAreSums`); a bundle is inserted once and
its row goes with its last fragment (`TablesAreSound`), so no pruned row comes
back; what is delivered on record is stored (`TxsAreSound`). A row is final once
all fragments of its bundle are delivered, and then only a fragment that the pruner forgot
was delivered can change it (`FinalityIsExact`). What the bundles are charged together is a table summed by rows or by columns
(`SumsSwap`); each share of a transaction loses less than one part in a million of the
fee, and a unit (`SumOfQuotients`). The proof found that bound: an earlier one held for
the run's numbers and not for all. A page of the report is the first bundles of an order
(`LeadingComeFirst`).

**Rows.** The row is the image of the value written last (`RowFor`), and each conversion
has an inverse on the values the columns admit: a number with trailing zeros is its
digits times a positive power of ten.

**Process.** No run begins after the stop but those of services asleep at it
(`RunsAfterStop`), and from the last start on `main` has a handle of all it started
(`HandlesAreComplete`); when it has waited for each, all have ended.

These proofs do not use the library's induction theorems, whose parameter is an
operator, but `InductiveSet` and `InductiveParts` of `FoldTheorems`, which say the same
of a set: the set of numbers, or of parts of a finite set, for which the claim holds.
With them `Recursion` gives each function defined by recursion the values its
definition says, and the sums of the community modules their laws.

Only model-checked is what is beyond the prover, liveness: `FragmentsDelivered`,
`OpenRowsSettle`, `LatestEpochSettles`, `BlocksGetBundled`, `FragmentsDispersed`,
`HealthFollowsLink` and `StopEnds`.

## Findings

1. `services/block_committer.rs:146` writes `!tx_response.confirmations(n) < m`. On a
   `u64` the `!` complements the bits, so the condition holds only for counts near
   2^64: a commit is marked finalized as soon as it is in a block, while
   `committer/src/config.rs:318` says "Number of L1 blocks to wait before finalizing a
   transaction." A reorg after that goes unnoticed.
2. `services/state_committer/service.rs:330`: a replacement carries the fragments of
   what it replaces, also when the lookback window has moved past them;
   `committer/src/config.rs:411` says only blocks in the window are submitted to L1.
3. `packages/adapters/eigenda/src/throttler.rs:71` takes the tokens it checks for, and
   the submission then waits for them again, while `connector.rs:61` says of that
   wait that it resolves immediately. Each fragment costs twice its capacity, and a
   committer polled faster than the limiters refill (`SlowPolling = FALSE`) may
   spend them on checks alone; `FragmentsDispersed` is checked for slow polls.

Met while modelling, without a run of their own:

- `EigenBundler::advance` reports more to do each time, so the loop around it always
  uses up its time limit (which `setup.rs` sets to 0).
- An optimizer out of time may store a bundle over `max_fragments_per_bundle` though
  a shorter prefix fits that was not tried; `BestTriedIsChosen` compares with those that were.
- `config.rs:400` lists an attempt of 1 block after the first pass; `generate_attempts`
  makes it only in a later pass.
- The last fragment of a bundle for EigenDA has its own length as `total_bytes` and
  what it lacks as `unused_bytes`, so `utilization` is 0 when it is less than half full.
- A block larger than the accumulation limit, or one whose compressed data the node
  never has, stops all bundling above it until the window passes it.
- The pruner's choice by age (`postgres.rs:1226`) leaves nothing dangling, but with a
  retention shorter than the life of a fragment it deletes undelivered ones, and a
  finalized transaction may go before a younger failed one of the same fragment,
  which then is sent again; its fee is charged too, to a cost that was reported.
  Of EigenDA it deletes submissions only.
- With a retention shorter than an epoch lasts the pruner deletes the latest submission
  (`postgres.rs:1307`), and `decide_action` posts the epoch again.
- A panicked task goes unnoticed until the stop; then `shut_down` returns at its
  handle and the pool is not closed. A sleeping task is not woken by the stop: it
  sleeps out its interval, which for the pruner may be hours, and runs once more.
- `healthy` loads counter and flag one after the other, so a concurrent change can
  make it answer from two moments.
- With a blob key and a DA layer both configured, services are Ethereum's, but the
  last finalization time is read from EigenDA's table.
- The encoder asserts that a header has at most as many bits as a field element has for
  data (`packages/encoding/src/blob/encoder/storage.rs:58`). With exactly as many, data
  would start in the reserved bits of the second element; the proofs assume fewer
  (`HeaderAssumption`), and the header of version 1 has 87 of 254.
- `_update_tx_state` and `_set_submission_completed` are not used by the program.

## Not modelled

Signing, KZG commitments, the compression of a bundle (a monotone table of sizes
stands for it; a bundle encoded with `CompressionLevel::Disabled` is not one the
repository's decoder can read), the requests to nodes and disperser, parsing of the
configuration, routing of HTTP requests, gauges and counters, the status report,
the wallet balances, simulators, benchmarks and end-to-end tests. A change of the
blob wallet's key: the nonce-wide update (`postgres.rs:886`) does not look at the
account, and no model has two of them. Memory exhaustion and slow queries.

## Plan

The order in which the project was built is that of the tables above: the blob path
with its proofs, the block committer, the data path, EigenDA, and then the parts.
What is left, in order of worth:

1. The data path composed with the whole blob path instead of `Send` and `Settle`.
2. A refinement of an abstract delivery by `EigenDA`, as `FragmentDelivery` is for blobs.
3. Two wallets in `Ethereum`, for a change of the blob key.
4. The status report over the tables of `BlockCommitter`, and the gauges that read
   the same tables, if they are ever acted upon.
