---------------------------- MODULE BlobPipeline ----------------------------
(***************************************************************************)
(* The submission of state fragments as blobs: the state committer and the *)
(* state listener run as independent tasks of one process over the same    *)
(* tables, against the chain.  The Fuel chain grows and the bundler stores *)
(* bundles meanwhile; a crash stops both tasks wherever they are.          *)
(***************************************************************************)
EXTENDS StateCommitter, StateListener

vars == <<l1Vars, dbVars, fuelHeight, committerVars, listenerVars>>

Init ==
  /\ EthereumInit
  /\ StorageInit
  /\ CommitterInit
  /\ ListenerInit

-----------------------------------------------------------------------------

NewFuelBlock ==
  /\ fuelHeight < MaxFuelHeight
  /\ fuelHeight' = fuelHeight + 1
  /\ UNCHANGED <<l1Vars, dbVars, committerVars, listenerVars>>

StoreBundle ==
  \E b \in Bundles :
    /\ b <= fuelHeight
    /\ InsertBundleAndFragments(b)
    /\ UNCHANGED <<l1Vars, fuelHeight, committerVars, listenerVars>>

\* The process dies and starts again with empty memory.
Crash ==
  /\ committerAt # "idle" \/ listenerAt # "idle"
  /\ Fault
  /\ CommitterReset
  /\ ListenerReset
  /\ UNCHANGED <<fuelHeight, dbVars, height, irreversible, mined, mempool, sentTxs>>

OffChain == <<dbVars, fuelHeight, committerVars, listenerVars>>

Next ==
  \/ CommitterNext /\ UNCHANGED listenerVars
  \/ ListenerNext /\ UNCHANGED <<fuelHeight, committerVars>>
  \/ ChainNext /\ UNCHANGED OffChain
  \/ NewFuelBlock
  \/ StoreBundle
  \/ Crash

Spec == Init /\ [][Next]_vars

\* Both tasks are polled for ever.  The accumulation timeout expires and fees are
\* acceptable once the committer is too far behind, so a run that may submit is
\* not put off for ever; nor is a send that some fee below the cap would get through.
\* The chain mines what is executable, goes on to confirm it, and a node does not
\* queue a transaction behind a nonce gap for ever.
Fairness ==
  /\ WF_vars(CommitterNext /\ UNCHANGED listenerVars)
  /\ SF_vars(SubmitReady /\ UNCHANGED listenerVars)
  /\ SF_vars(SendAccepted /\ UNCHANGED listenerVars)
  /\ WF_vars(ListenerNext /\ UNCHANGED <<fuelHeight, committerVars>>)
  /\ WF_vars(\E k \in 1..MaxTxsPerBlock : MineBlock(k) /\ faults' = faults /\ UNCHANGED OffChain)
  /\ WF_vars(MineBlock(0) /\ UNCHANGED OffChain)
  /\ WF_vars(EvictQueued /\ UNCHANGED OffChain)

FairSpec == Spec /\ Fairness

-----------------------------------------------------------------------------
(* Safety.                                                                 *)

\* The variables have their types.
TypeOK ==
  /\ EthereumTypeOK
  /\ StorageTypeOK
  /\ CommitterTypeOK
  /\ ListenerTypeOK

\* What the listener calls finalized is on the chain, successful, and in a block
\* that no reorg removes, however stale the block number was that it compared
\* with (state_listener: the number is read before the receipts).
FinalizedOnChain == \A t \in InState("Finalized") : Settled(t)

\* All open rows compete for one nonce with the same fragments: a fresh
\* transaction is never sent while another is undecided.
OneOpenSubmission ==
  \A t, u \in OpenTxs : Nonce(t) = Nonce(u) /\ FragmentsOf(t) = FragmentsOf(u)

\* A nonce settles one way: no two of its rows are in a block or finalized, whatever
\* mix of receipts and dropped transactions one run of the listener sees.
OneOutcomePerNonce ==
  \A t, u \in InState("IncludedInBlock") \cup InState("Finalized") : Nonce(t) = Nonce(u) => t = u

\* No fragment is finalized by two transactions, so none is paid for twice.
NoFragmentFinalizedTwice ==
  \A t, u \in InState("Finalized") : FragmentsOf(t) \cap FragmentsOf(u) # {} => t = u

\* A fee goes into bundle_cost exactly once, with the step that finalizes the
\* transaction, however often the listener looks at it.
ChargedOnFinality ==
  \A t \in TxHashes : charged[t] = IF row[t] = "Finalized" THEN 1 ELSE 0

\* bundle_cost.is_finalized is current for every stored bundle, also when a
\* transaction carries fragments of two bundles.
BundlesFinalized ==
  \A b \in {EndHeight[f] : f \in fragments} : isFinalized[b] <=> BundleComplete(b, row)

\* A finalized row stays finalized, whatever the listener still learns about
\* the other transactions of its nonce; a failed row is never revived.
SettledForever ==
  [][\A t \in TxHashes : row[t] \in {"Finalized", "Failed"} => row'[t] = row[t]]_vars

\* A fresh transaction never carries a fragment that is finalized or under way.
NoFreshResubmission ==
  [][previousTx = 0 /\ sentTxs' # sentTxs =>
       \A t \in LiveTxs : toSubmit \cap FragmentsOf(t) = {}]_vars

\* What config.rs says of block_height_lookback: only blocks within the window are
\* submitted to L1.
OnlyFragmentsInWindow ==
  [][committerAt # "sending" /\ committerAt' = "sending" =>
       \A f \in toSubmit' : EndHeight[f] >= StartingHeight]_vars

-----------------------------------------------------------------------------
(* Liveness, once the environment stops failing.                           *)

DeliveredFragments == UNION {FragmentsOf(t) : t \in InState("Finalized")}

\* A stored fragment is finalized in the end, unless the lookback window passes
\* it by: drops, reorgs, reverts, lost answers and crashes only delay it.
FragmentsDelivered ==
  \A f \in Fragments :
    f \in fragments ~> f \in DeliveredFragments \/ EndHeight[f] < StartingHeight

\* No row stays open: the listener settles whatever it is still asking about.
OpenRowsSettle ==
  \A t \in TxHashes : row[t] \in OpenStates ~> row[t] \in {"Finalized", "Failed"}

-----------------------------------------------------------------------------
(* What the pipeline promises: batches of fragments delivered one by one.  *)

InFlightFragments == (UNION {FragmentsOf(t) : t \in OpenTxs}) \ DeliveredFragments

PublishedFragments ==
  UNION {FragmentsOf(mined[i].tx) :
           i \in {j \in 1..Len(mined) : mined[j].succeeded /\ mined[j].block <= irreversible}}

Delivery == INSTANCE FragmentDelivery WITH
  stored    <- fragments,
  inFlight  <- InFlightFragments,
  published <- PublishedFragments,
  delivered <- DeliveredFragments

\* The pipeline implements FragmentDelivery: a fragment is reported delivered
\* only when it is on L1 for good, and one batch is in flight at a time.
ImplementsDelivery == Delivery!Spec
=============================================================================
