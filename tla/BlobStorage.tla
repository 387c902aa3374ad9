---------------------------- MODULE BlobStorage -----------------------------
(***************************************************************************)
(* The tables behind the blob submission: l1_fragments with the end height *)
(* of their bundle, l1_blob_transaction with l1_transaction_fragments, and *)
(* bundle_cost.  The links of a row are the fragments of the transaction   *)
(* it records.  Every operation is one database transaction.               *)
(***************************************************************************)
EXTENDS Ethereum

CONSTANTS
  NumFragments,   \* fragments are 1..NumFragments, oldest first
  MaxBlobsPerTx,  \* blobs a transaction may carry (6 in the code)
  EndHeight       \* end_height of the fragment's bundle; it names the bundle

Fragments == 1..NumFragments

ASSUME StorageAssumption ==
  /\ NumFragments \in Nat \ {0}
  /\ MaxBlobsPerTx \in Nat \ {0}
  /\ Payload = Fragments
  /\ EndHeight \in [Fragments -> Nat]
  /\ \A f, g \in Fragments : f < g => EndHeight[f] <= EndHeight[g]

VARIABLES
  fragments,    \* rows of l1_fragments
  row,          \* state of the row of a transaction, or "absent"
  charged,      \* how often the fee of a transaction went into bundle_cost
  isFinalized   \* bundle_cost.is_finalized

dbVars == <<fragments, row, charged, isFinalized>>

OpenStates == {"Pending", "IncludedInBlock"}
TxStates   == OpenStates \cup {"Finalized", "Failed"}
Bundles    == {EndHeight[f] : f \in Fragments}
Change     == [tx : TxHashes, state : TxStates]

FragmentsOf(t) == IF t \in Sent THEN sentTxs[t].payload ELSE {}
InState(s)     == {t \in TxHashes : row[t] = s}

\* Mutant of OpenTxs: everything that is not finalized.
UnfinalizedTxs == InState("Pending") \cup InState("IncludedInBlock") \cup InState("Failed")

OpenTxs        == InState("Pending") \cup InState("IncludedInBlock")
LiveTxs        == OpenTxs \cup InState("Finalized")

StorageInit ==
  /\ fragments = {}
  /\ row = [t \in TxHashes |-> "absent"]
  /\ charged = [t \in TxHashes |-> 0]
  /\ isFinalized = [b \in Bundles |-> FALSE]

StorageTypeOK ==
  /\ fragments \in SUBSET Fragments
  /\ row \in [TxHashes -> TxStates \cup {"absent"}]
  /\ charged \in [TxHashes -> Nat]
  /\ isFinalized \in [Bundles -> BOOLEAN]

-----------------------------------------------------------------------------
(* Queries.                                                                *)

\* Mutant of HasNonfinalizedTxs: transactions in a block are not waited for.
HasPendingTxs == InState("Pending") # {}

HasNonfinalizedTxs == OpenTxs # {}

\* The pending row created last; rows are created in the order of their hash.
LatestPending ==
  CHOOSE t \in InState("Pending") : \A u \in InState("Pending") : u <= t

\* Mutant of NonfinalizedFragments: finalized transactions are not looked at.
UnsubmittedFragments(startingHeight) ==
  {f \in fragments : EndHeight[f] >= startingHeight
                       /\ \A t \in OpenTxs : f \notin FragmentsOf(t)}

\* Fragments in the window that no live transaction carries.
NonfinalizedFragments(startingHeight) ==
  {f \in fragments : EndHeight[f] >= startingHeight
                       /\ \A t \in LiveTxs : f \notin FragmentsOf(t)}

OldestOf(S) ==
  {f \in S : Cardinality({g \in S : g < f}) < MaxBlobsPerTx}

-----------------------------------------------------------------------------
(* Updates.                                                                *)

\* The bundler stores a bundle with all its fragments.  A gap in the stored blocks
\* may be filled, and bundled, later than what follows it.
InsertBundleAndFragments(b) ==
  /\ b \in Bundles
  /\ \A f \in fragments : EndHeight[f] # b
  /\ fragments' = fragments \cup {f \in Fragments : EndHeight[f] = b}
  /\ UNCHANGED <<row, charged, isFinalized>>

RecordPendingTx(t) ==
  /\ row' = [row EXCEPT ![t] = "Pending"]
  /\ UNCHANGED <<fragments, charged, isFinalized>>

\* Mutant of UpdatedRow: the other rows of the nonce are left alone.
UpdatedSingly(selective, noncewide) ==
  [t \in TxHashes |->
     IF \E c \in noncewide \cup selective : c.tx = t
     THEN (CHOOSE c \in noncewide \cup selective : c.tx = t).state
     ELSE row[t]]

\* Selective changes first; then a noncewide change fails every row with the
\* nonce before it sets its own.
UpdatedRow(selective, noncewide) ==
  [t \in TxHashes |->
     IF \E c \in noncewide : c.tx = t
     THEN (CHOOSE c \in noncewide : c.tx = t).state
     ELSE IF row[t] # "absent" /\ \E c \in noncewide : Nonce(c.tx) = Nonce(t)
     THEN "Failed"
     ELSE IF \E c \in selective : c.tx = t
     THEN (CHOOSE c \in selective : c.tx = t).state
     ELSE row[t]]

\* A bundle is finalized when each of its fragments has a finalized transaction.
BundleComplete(b, state) ==
  \A f \in fragments : EndHeight[f] = b =>
    \E t \in TxHashes : state[t] = "Finalized" /\ f \in FragmentsOf(t)

BundlesOf(txs) == {EndHeight[f] : f \in UNION {FragmentsOf(t) : t \in txs}}

Charge(costs) == [t \in TxHashes |-> IF t \in costs THEN charged[t] + 1 ELSE charged[t]]

\* Mutant of UpdateCosts: the costs are written before the states.
UpdateCostsFirst(costs, state) ==
  /\ charged' = Charge(costs)
  /\ isFinalized' = [b \in Bundles |-> IF b \in BundlesOf(costs) THEN BundleComplete(b, row)
                                       ELSE isFinalized[b]]

\* is_finalized is computed again for the bundles of what is charged.
UpdateCosts(costs, state) ==
  /\ charged' = Charge(costs)
  /\ isFinalized' = [b \in Bundles |-> IF b \in BundlesOf(costs) THEN BundleComplete(b, state)
                                       ELSE isFinalized[b]]

\* States change first, then the costs, in one database transaction.
UpdateTxStatesAndCosts(selective, noncewide, costs) ==
  /\ row' = UpdatedRow(selective, noncewide)
  /\ UpdateCosts(costs, UpdatedRow(selective, noncewide))
  /\ UNCHANGED fragments
=============================================================================
