---------------------------- MODULE BlockStorage ----------------------------
(***************************************************************************)
(* The Fuel chain as its client shows it, and the tables between it and    *)
(* the data availability layer: fuel_blocks, bundles, l1_fragments and     *)
(* l1_blob_transaction with its links.  A bundle is named by its range of  *)
(* heights; n is the number of fragments stored with it.  Every operator   *)
(* on the tables is one query or one database transaction.                 *)
(***************************************************************************)
EXTENDS Integers, FiniteSets

CONSTANTS
  MaxHeight,        \* bound on the Fuel chain
  SizeBelow,        \* bytes of all compressed blocks below a height
  Unavailable,      \* heights the Fuel node has no compressed block for
  LookbackWindow,   \* block_height_lookback
  BytesToAccumulate \* also the most bytes read for one bundle

Heights == 0..MaxHeight

\* No compressed block is empty, so SizeBelow grows with every height.
ASSUME BlockStorageAssumption ==
  /\ MaxHeight \in Nat
  /\ SizeBelow \in [0..(MaxHeight + 1) -> Nat]
  /\ \A g, h \in 0..(MaxHeight + 1) : g < h => SizeBelow[g] < SizeBelow[h]
  /\ Unavailable \subseteq Heights
  /\ LookbackWindow \in Nat
  /\ BytesToAccumulate \in Nat \ {0}

VARIABLES
  fuelHeight,  \* latest_height of the Fuel chain
  blocks,      \* heights in fuel_blocks
  bundles,     \* rows of bundles: [lo, hi, n]
  fragments,   \* rows of l1_fragments: [bundle, idx]
  txs          \* rows of l1_blob_transaction: [id, carries, created, state]

tableVars == <<blocks, bundles, fragments, txs>>

\* The lower end of the window.
SeenUpTo(height) == IF height > LookbackWindow THEN height - LookbackWindow ELSE 0

Covers(b) == b.lo..b.hi
Bundled   == UNION {Covers(b) : b \in bundles}

StorageInit ==
  /\ fuelHeight = 0
  /\ blocks = {}
  /\ bundles = {}
  /\ fragments = {}
  /\ txs = {}

-----------------------------------------------------------------------------
(* fuel_blocks.                                                            *)

\* The heights that are missing, as maximal ranges.
MissingBlocks(from, to) ==
  LET missing == (from..to) \ blocks
  IN  {r \in [lo : missing, hi : missing] :
         /\ r.lo..r.hi \subseteq missing
         /\ r.lo <= r.hi
         /\ r.lo - 1 \notin missing
         /\ r.hi + 1 \notin missing}

\* The height is the primary key: a block that is there already fails the insert.
InsertBlocks(lo, hi) ==
  /\ lo..hi \cap blocks = {}
  /\ blocks' = blocks \cup lo..hi
  /\ UNCHANGED <<bundles, fragments, txs>>

-----------------------------------------------------------------------------
(* bundles.                                                                *)

\* Bytes of a range of blocks.
CumulativeSize(lo, hi) == SizeBelow[hi + 1] - SizeBelow[lo]

\* Mutant of Unbundled: blocks that are in a bundle already are not left out.
StoredInWindow(from) == {h \in blocks : h >= from}

Unbundled(from) == {h \in blocks : h >= from /\ h \notin Bundled}

\* Mutant of LowestSequence: a hole in the heights does not end the sequence.
LowestBlocks(from) ==
  LET bytes[h \in -1..MaxHeight] ==
        IF h = -1 THEN 0
        ELSE bytes[h - 1] + (IF h \in Unbundled(from) THEN CumulativeSize(h, h) ELSE 0)
  IN  {h \in Unbundled(from) : bytes[h] <= BytesToAccumulate}

\* Blocks are read in order until the next would exceed the limit, and cut at the
\* first hole.  Empty when the first block alone exceeds the limit.
LowestSequence(from) ==
  {h \in Unbundled(from) :
     \E lo \in Unbundled(from) :
       /\ \A l \in Unbundled(from) : lo <= l
       /\ lo..h \subseteq Unbundled(from)
       /\ CumulativeSize(lo, h) <= BytesToAccumulate}

\* The bundle and all its fragments in one database transaction.
InsertBundleAndFragments(lo, hi, n) ==
  LET b == [lo |-> lo, hi |-> hi, n |-> n]
  IN  /\ bundles' = bundles \cup {b}
      /\ fragments' = fragments \cup {[bundle |-> b, idx |-> i] : i \in 0..(n - 1)}
      /\ UNCHANGED <<blocks, txs>>

-----------------------------------------------------------------------------
(* Fragments and the transactions that carry them.                         *)

TxsIn(state)  == {t \in txs : t.state = state}
CarriedBy(T)  == UNION {t.carries : t \in T}

\* Fragments in the window all of whose transactions failed.
NonfinalizedFragments(from) ==
  {f \in fragments : f.bundle.hi >= from
                       /\ f \notin CarriedBy(TxsIn("Pending") \cup TxsIn("Finalized"))}

RecordPendingTx(id, F, at) ==
  /\ txs' = txs \cup {[id |-> id, carries |-> F, created |-> at, state |-> "Pending"]}
  /\ UNCHANGED <<blocks, bundles, fragments>>

\* The transactions of one nonce: the winners are finalized, the others fail.
SettlePending(winners) ==
  /\ txs' = {IF t.state # "Pending" THEN t
             ELSE [t EXCEPT !.state = IF t \in winners THEN "Finalized" ELSE "Failed"] : t \in txs}
  /\ UNCHANGED <<blocks, bundles, fragments>>

-----------------------------------------------------------------------------
(* prune_entries_older_than.                                               *)

TxsBefore(date) == {t \in txs : t.created < date}

\* Mutant of PrunedFragments: younger transactions of the fragment are not looked at.
FragmentsOfOldTxs(date) == CarriedBy(TxsBefore(date)) \cap fragments

\* Carried by a transaction that goes and by none that stays.
PrunedFragments(date) ==
  (CarriedBy(TxsBefore(date)) \ CarriedBy(txs \ TxsBefore(date))) \cap fragments

\* Bundles that lose their last fragment.
PrunedBundles(date) ==
  {b \in bundles :
     /\ \E f \in PrunedFragments(date) : f.bundle = b
     /\ \A f \in fragments : f.bundle = b => f \in PrunedFragments(date)}

\* One statement, so every part of it sees the tables as they were.  What it deletes
\* of other tables: BundleCosts, BlockCommitter and EigenDA, each its own.
PruneEntriesOlderThan(date) ==
  /\ txs' = txs \ TxsBefore(date)
  /\ fragments' = fragments \ PrunedFragments(date)
  /\ bundles' = bundles \ PrunedBundles(date)
  /\ blocks' = blocks \ UNION {Covers(b) : b \in PrunedBundles(date)}
=============================================================================
