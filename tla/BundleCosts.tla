----------------------------- MODULE BundleCosts -----------------------------
(***************************************************************************)
(* The amounts of the table bundle_cost: how the fee of a finalized        *)
(* transaction is split among the bundles whose fragments it carries       *)
(* (process_cost_updates and update_bundle_cost of postgres.rs), what the  *)
(* pruner leaves of the table, and what the cost reporter answers from it. *)
(* That a fee is charged once, when its transaction is finalized, is       *)
(* BlobStorage's and StateListener's part.                                 *)
(***************************************************************************)
EXTENDS Naturals, FiniteSets, FiniteSetsExt, Functions

CONSTANTS
  Fragments,      \* a function from fragments to [bundle, total, unused]
  BundleHeights,  \* a function from bundles to [start, end]
  TotalFees,      \* the fees a transaction may be charged
  PpmOfFee,       \* PPM, scaled down
  MaxPerTx,       \* fragments in one transaction
  MaxFinalTxs,    \* bound: transactions ever finalized
  RequestLimit    \* cost_request_limit

Bundles == {Fragments[f].bundle : f \in DOMAIN Fragments}

ASSUME CostAssumption ==
  /\ IsFiniteSet(DOMAIN Fragments)
  /\ \A f \in DOMAIN Fragments :
       Fragments[f].bundle \in Nat /\ Fragments[f].total \in Nat /\ Fragments[f].unused \in 0..Fragments[f].total
  /\ \A b \in Bundles :
       /\ BundleHeights[b].start \in Nat /\ BundleHeights[b].end \in Nat
       /\ BundleHeights[b].start <= BundleHeights[b].end
  /\ TotalFees \subseteq Nat /\ PpmOfFee \in Nat \ {0} /\ MaxPerTx \in Nat \ {0}
  /\ MaxFinalTxs \in Nat /\ RequestLimit \in Nat

VARIABLES
  inserted,         \* history: the bundles ever inserted
  storedFragments,  \* l1_fragments; the table bundles has those with a fragment here
  finalizedTxs,     \* finalized transactions on record: [fragments, total_fee, da_block_height]
  chargedTxs,       \* history: all that were ever finalized
  bundleCost,       \* the table: a function from some bundles to their row
  prunedCost        \* history: the rows the pruner has deleted

costVars == <<inserted, storedFragments, finalizedTxs, chargedTxs, bundleCost, prunedCost>>

FragmentsOf(txs) == UNION {t.fragments : t \in txs}

Delivered == FragmentsOf(finalizedTxs)

BundlesOf(fragments) == {Fragments[f].bundle : f \in fragments}

Stored == BundlesOf(storedFragments)

Tip(txs) == Max({t.da_block_height : t \in txs} \union {0})

\* The rows of two tables, those of the first where both have one.
BothRows(table, rest) ==
  [b \in DOMAIN table \union DOMAIN rest |-> IF b \in DOMAIN table THEN table[b] ELSE rest[b]]

CostRow == [cost : Nat, size : Nat, da_block_height : Nat, is_finalized : BOOLEAN]

CostTypeOK ==
  /\ inserted \subseteq Bundles
  /\ storedFragments \subseteq DOMAIN Fragments
  /\ finalizedTxs \subseteq chargedTxs
  /\ FragmentsOf(chargedTxs) \subseteq DOMAIN Fragments
  /\ DOMAIN bundleCost \subseteq Stored
  /\ \A b \in DOMAIN bundleCost : bundleCost[b] \in CostRow
  /\ DOMAIN prunedCost \subseteq inserted
  /\ \A b \in DOMAIN prunedCost : prunedCost[b] \in CostRow

CostInit ==
  /\ inserted = {} /\ storedFragments = {}
  /\ finalizedTxs = {} /\ chargedTxs = {}
  /\ bundleCost = <<>> /\ prunedCost = <<>>

-----------------------------------------------------------------------------

Of(tx, b) == {f \in tx.fragments : Fragments[f].bundle = b}

Used == [f \in DOMAIN Fragments |-> Fragments[f].total - Fragments[f].unused]

UsedBytes(fragments) == SumFunctionOnSet(Used, fragments)

\* The share of the fee, by the number of fragments, rounded down twice.
CostContribution(tx, b) ==
  LET fraction_in_ppm == (Cardinality(Of(tx, b)) * PpmOfFee) \div Cardinality(tx.fragments)
  IN  (fraction_in_ppm * tx.total_fee) \div PpmOfFee

\* Mutant of SizeContribution: a bundle is given the size of the whole transaction.
SizeOfTx(tx, b) == UsedBytes(tx.fragments)

SizeContribution(tx, b) == UsedBytes(Of(tx, b))

\* What the transactions of one run of the listener add to each bundle.
BundleUpdates(txs) ==
  LET touching(b) == {t \in txs : Of(t, b) # {}}
  IN  [b \in {b \in Bundles : touching(b) # {}} |->
         [cost            |-> SumFunction([t \in touching(b) |-> CostContribution(t, b)]),
          size            |-> SumFunction([t \in touching(b) |-> SizeContribution(t, b)]),
          da_block_height |-> Tip(touching(b))]]

\* The upsert: amounts add up, the height is that of the update.
UpdateBundleCost(b, update, delivered) ==
  LET old == IF b \in DOMAIN bundleCost THEN bundleCost[b] ELSE [cost |-> 0, size |-> 0]
  IN  [cost            |-> old.cost + update.cost,
       size            |-> old.size + update.size,
       da_block_height |-> update.da_block_height,
       is_finalized    |-> \A f \in storedFragments : Fragments[f].bundle = b => f \in delivered]

\* External: the transactions the listener may find finalized.  They are in
\* later blocks than those before, because one submission is under way at a time.
NewlyFinal ==
  [fragments       : UNION {kSubset(n, storedFragments \ Delivered) : n \in 1..MaxPerTx},
   total_fee       : TotalFees,
   da_block_height : Tip(chargedTxs) + 1 .. Tip(chargedTxs) + 2]

\* A run with one such transaction or two.
FinalizeAndCharge ==
  \E t, u \in NewlyFinal :
    /\ t = u \/ (t.fragments \cap u.fragments = {} /\ t.da_block_height < u.da_block_height)
    /\ finalizedTxs' = finalizedTxs \union {t, u}
    /\ chargedTxs' = chargedTxs \union {t, u}
    /\ Cardinality(chargedTxs') <= MaxFinalTxs
    /\ LET updates == BundleUpdates({t, u})
       IN  bundleCost' = [b \in DOMAIN bundleCost \union DOMAIN updates |->
                            IF b \in DOMAIN updates THEN UpdateBundleCost(b, updates[b], Delivered') ELSE bundleCost[b]]
    /\ UNCHANGED <<inserted, storedFragments, prunedCost>>

Precedes(b, c) == BundleHeights[b].end < BundleHeights[c].start

\* Ids come from a sequence, and the bundler takes blocks that no stored bundle has
\* (BundlesPartitionBlocks of DataPipeline): heights whose bundle was pruned may be
\* in a bundle again.
InsertBundleAndFragments(b) ==
  /\ \A c \in inserted : c < b
  /\ \A c \in Stored : Precedes(b, c) \/ Precedes(c, b)
  /\ inserted' = inserted \union {b}
  /\ storedFragments' = storedFragments \union {f \in DOMAIN Fragments : Fragments[f].bundle = b}
  /\ UNCHANGED <<finalizedTxs, chargedTxs, bundleCost, prunedCost>>

\* Fragments without a transaction left go, and cost rows with the last fragment
\* of their bundle.  A younger transaction that failed, recorded before the next one
\* was sent, `kept` those of the last transaction pruned; `unsent` are fragments that
\* only old transactions carried and none of them delivered.
PruneEntriesOlderThan(date, kept, unsent) ==
  LET old == {t \in finalizedTxs : t.da_block_height <= date}
      freed == (FragmentsOf(old) \ FragmentsOf(finalizedTxs \ old)) \ FragmentsOf(kept)
      remaining == (storedFragments \ freed) \ unsent
      gone == DOMAIN bundleCost \ BundlesOf(remaining)
  IN  /\ kept \subseteq {t \in old : t.da_block_height = Tip(old)}
      /\ finalizedTxs' = finalizedTxs \ old
      /\ storedFragments' = remaining
      /\ bundleCost' = [b \in DOMAIN bundleCost \ gone |-> bundleCost[b]]
      /\ prunedCost' = BothRows(prunedCost, [b \in gone |-> bundleCost[b]])
      /\ UNCHANGED <<inserted, chargedTxs>>

CostNext ==
  \/ FinalizeAndCharge
  \/ \E b \in Bundles : InsertBundleAndFragments(b)
  \/ \E date \in 0..Tip(finalizedTxs), kept \in SUBSET finalizedTxs,
        unsent \in SUBSET (storedFragments \ Delivered) : PruneEntriesOlderThan(date, kept, unsent)

CostSpec == CostInit /\ [][CostNext]_costVars

-----------------------------------------------------------------------------
(* The cost reporter.                                                      *)

Finalized == {b \in DOMAIN bundleCost : bundleCost[b].is_finalized}

Start(b) == BundleHeights[b].start

\* ORDER BY start_height and LIMIT: the bundles with fewer than limit before them, or
\* after them.
FirstOf(limit, bundles) == {b \in bundles : Cardinality({c \in bundles : Start(c) < Start(b)}) < limit}

LastOf(limit, bundles) == {b \in bundles : Cardinality({c \in bundles : Start(c) > Start(b)}) < limit}

FinalizedCosts(from, limit) == FirstOf(limit, {b \in Finalized : BundleHeights[b].end >= from})

LatestCosts(limit) == LastOf(limit, Finalized)

\* The answer is the bundles, or "refused".
GetCosts(from, limit) == IF limit > RequestLimit THEN "refused" ELSE FinalizedCosts(from, limit)

GetLatestCosts(limit) == IF limit > RequestLimit THEN "refused" ELSE LatestCosts(limit)

-----------------------------------------------------------------------------

\* For each bundle of a transaction less than one part in PPM of its fee, and
\* one unit, is lost: this is that loss, PPM times.
RoundingOf(tx) == Cardinality({b \in Bundles : Of(tx, b) # {}}) * (tx.total_fee + PpmOfFee)

\* All rows there ever were, those of pruned bundles as they were last.
Ledger == BothRows(bundleCost, prunedCost)

Paid == SumFunction([t \in chargedTxs |-> t.total_fee])

Charged == SumFunction([b \in DOMAIN Ledger |-> Ledger[b].cost])

AmountsAddUp ==
  /\ Charged <= Paid
  /\ PpmOfFee * Paid <= PpmOfFee * Charged + SumFunction([t \in chargedTxs |-> RoundingOf(t)])

RowsAreExact ==
  \A b \in DOMAIN Ledger :
    LET txs == {t \in chargedTxs : Of(t, b) # {}}
    IN  /\ Ledger[b].size = SumFunction([t \in txs |-> UsedBytes(Of(t, b))])
        /\ Ledger[b].da_block_height = Tip(txs)

\* A row is final if all fragments of its bundle are delivered, and only if each of
\* them was or is gone.
FinalityIsExact ==
  \A b \in DOMAIN bundleCost :
    LET fragments == {f \in DOMAIN Fragments : Fragments[f].bundle = b}
    IN  /\ fragments \subseteq Delivered => bundleCost[b].is_finalized
        /\ bundleCost[b].is_finalized => fragments \cap storedFragments \subseteq FragmentsOf(chargedTxs)

\* A page of the costs has all there are from its height on, or as many as were asked
\* for and none of those after it is before one of them, so that the next page, from
\* one height past the last, goes on without a gap.  The latest costs likewise.
PagesAreComplete ==
  \A limit \in 1..RequestLimit :
    /\ \A from \in UNION {{Start(b), BundleHeights[b].end, BundleHeights[b].end + 1} : b \in Bundles} :
         LET page == GetCosts(from, limit)
             asked == {b \in Finalized : BundleHeights[b].end >= from}
         IN  /\ page \subseteq asked
             /\ page = asked \/ (Cardinality(page) = limit /\ \A b \in page, c \in asked \ page : Precedes(b, c))
    /\ LET page == GetLatestCosts(limit)
       IN  /\ page \subseteq Finalized
           /\ page = Finalized \/ (Cardinality(page) = limit /\ \A b \in page, c \in Finalized \ page : Precedes(c, b))

\* A reported row stays as it is until its bundle is pruned, unless a fragment of the
\* bundle is finalized that had been before.
ReportedStays ==
  \A b \in Finalized :
    \/ b \in DOMAIN bundleCost' /\ bundleCost'[b] = bundleCost[b]
    \/ b \notin Stored'
    \/ \E t \in chargedTxs' \ chargedTxs : Of(t, b) \cap FragmentsOf(chargedTxs) # {}

\* The fees paid are split among the bundles without charging more than was
\* paid and losing no more than the rounding, also when a transaction spans
\* bundles, a bundle takes several transactions, or fragments are finalized
\* again after the pruner forgot that they were.  The size and the height in
\* a row are exact, it is final once the bundle is delivered, the pages of
\* the report are complete, and a reported cost stays while the bundle does.
CostsAddUp ==
  /\ [](AmountsAddUp /\ RowsAreExact /\ FinalityIsExact /\ PagesAreComplete)
  /\ [][ReportedStays]_costVars
=============================================================================
