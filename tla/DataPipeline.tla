---------------------------- MODULE DataPipeline ----------------------------
(***************************************************************************)
(* The way of a Fuel block through the database: the importer copies it,   *)
(* the bundler puts it into a bundle, the state committer and listener     *)
(* send and settle its fragments, and the pruner deletes what is old.  All *)
(* are tasks of one process over the same tables, and nothing but the      *)
(* tables holds them together.  Sending is BlobPipeline, here in one step  *)
(* per transaction.                                                        *)
(***************************************************************************)
EXTENDS BlockImporter, BlockBundler

CONSTANTS
  Retention,  \* state_pruner_retention, in ticks of the clock
  MaxTime,    \* bound on the clock
  MaxTxs,     \* bound on the transactions ever sent
  MaxFaults   \* bound on errors and crashes

ASSUME PipelineAssumption ==
  /\ Retention \in Nat
  /\ MaxTime \in Nat
  /\ MaxTxs \in Nat
  /\ MaxFaults \in Nat

VARIABLES
  now,    \* the clock
  sent,   \* number of transactions sent
  faults  \* number of errors and crashes

vars == <<fuelHeight, tableVars, importerVars, bundlerVars, now, sent, faults>>

worldVars == <<now, sent, faults>>

Init ==
  /\ StorageInit
  /\ ImporterInit
  /\ BundlerInit
  /\ now = 0
  /\ sent = 0
  /\ faults = 0

-----------------------------------------------------------------------------
(* The Fuel chain and the clock.                                           *)

NewFuelBlock ==
  /\ fuelHeight < MaxHeight
  /\ fuelHeight' = fuelHeight + 1
  /\ UNCHANGED <<tableVars, importerVars, bundlerVars, worldVars>>

Tick ==
  /\ now < MaxTime
  /\ now' = now + 1
  /\ UNCHANGED <<fuelHeight, tableVars, importerVars, bundlerVars, sent, faults>>

-----------------------------------------------------------------------------
(* Sending, at the grain of one database write.                            *)

Fresh == NonfinalizedFragments(SeenUpTo(fuelHeight))

SentBefore(f, g) ==
  \/ f.bundle.lo < g.bundle.lo
  \/ f.bundle.lo = g.bundle.lo /\ f.idx < g.idx

\* The state committer sends the oldest fragments when no transaction is open.
Send ==
  /\ sent < MaxTxs
  /\ TxsIn("Pending") = {}
  /\ \E F \in SUBSET Fresh \ {{}} :
       /\ \A f \in F, g \in Fresh : SentBefore(g, f) => g \in F
       /\ RecordPendingTx(sent, F, now)
  /\ sent' = sent + 1
  /\ UNCHANGED <<fuelHeight, importerVars, bundlerVars, now, faults>>

\* A replacement carries what the stalled transaction does.
Replace ==
  /\ sent < MaxTxs
  /\ \E t \in TxsIn("Pending") : RecordPendingTx(sent, t.carries, now)
  /\ sent' = sent + 1
  /\ UNCHANGED <<fuelHeight, importerVars, bundlerVars, now, faults>>

\* The state listener settles the open transactions: one of them is finalized, or none.
Settle ==
  /\ TxsIn("Pending") # {}
  /\ \/ \E t \in TxsIn("Pending") : SettlePending({t})
     \/ SettlePending({})
  /\ UNCHANGED <<fuelHeight, importerVars, bundlerVars, worldVars>>

-----------------------------------------------------------------------------
(* The pruner.                                                             *)

Prune ==
  /\ TxsBefore(now - Retention) # {}
  /\ PruneEntriesOlderThan(now - Retention)
  /\ UNCHANGED <<fuelHeight, importerVars, bundlerVars, worldVars>>

-----------------------------------------------------------------------------
(* Errors and crashes.                                                     *)

Fault ==
  /\ faults < MaxFaults
  /\ faults' = faults + 1

\* The Fuel node's stream fails at some block, or the insert of the first chunk does.
ImporterError ==
  /\ \E h \in Heights : StreamError(h)
  /\ Fault
  /\ UNCHANGED <<bundlerVars, now, sent>>

\* Any database call of a run fails.
BundlerError ==
  /\ bundlerAt # "idle"
  /\ Fault
  /\ BundlerReset
  /\ UNCHANGED <<timedOut, fuelHeight, tableVars, importerVars, now, sent>>

\* The process starts again with empty memory, and with it the accumulation time.
Crash ==
  /\ importerAt # "idle" \/ bundlerAt # "idle"
  /\ Fault
  /\ ImporterReset
  /\ BundlerReset
  /\ timedOut' = FALSE
  /\ UNCHANGED <<fuelHeight, tableVars, now, sent>>

-----------------------------------------------------------------------------

RunImporter == ImporterStep /\ UNCHANGED <<bundlerVars, worldVars>>
RunBundler  == BundlerStep /\ UNCHANGED <<importerVars, worldVars>>
TimeOut     == AccumulationTimeout /\ UNCHANGED <<importerVars, worldVars>>

Next ==
  \/ NewFuelBlock
  \/ Tick
  \/ RunImporter
  \/ RunBundler
  \/ TimeOut
  \/ Send
  \/ Replace
  \/ Settle
  \/ Prune
  \/ ImporterError
  \/ BundlerError
  \/ Crash

Spec == Init /\ [][Next]_vars

\* Importer and bundler are polled for ever, and time passes.
Fairness ==
  /\ WF_vars(RunImporter)
  /\ WF_vars(RunBundler)
  /\ WF_vars(TimeOut)

FairSpec == Spec /\ Fairness

-----------------------------------------------------------------------------
(* Safety.                                                                 *)

BundleRows   == [lo : Heights, hi : Heights, n : FragmentCounts]
FragmentRows == {f \in [bundle : BundleRows, idx : Nat] : f.idx < f.bundle.n}
TxRows       == [id : 0..MaxTxs, carries : SUBSET FragmentRows, created : 0..MaxTime,
                 state : {"Pending", "Finalized", "Failed"}]

\* The variables have their types.
TypeOK ==
  /\ fuelHeight \in Heights
  /\ blocks \subseteq Heights
  /\ bundles \subseteq BundleRows
  /\ fragments \subseteq FragmentRows
  /\ txs \subseteq TxRows
  /\ importerAt \in {"idle", "started", "importing"}
  /\ chainSeen \in Heights
  /\ ranges \subseteq [lo : Heights, hi : Heights]
  /\ bundlerAt \in {"idle", "counting", "reading", "optimizing"}
  /\ startingHeight \in Heights
  /\ totalUnbundled \in 0..(MaxHeight + 1)
  /\ oldest \subseteq Heights
  /\ timedOut \in BOOLEAN
  /\ now \in 0..MaxTime
  /\ sent \in 0..MaxTxs
  /\ faults \in 0..MaxFaults

\* No block is in two bundles and every block of a bundle is stored, though the
\* blocks are read long before the bundle is inserted, and the pruner and the
\* importer delete and insert blocks meanwhile.
BundlesPartitionBlocks ==
  /\ Bundled \subseteq blocks
  /\ \A b, c \in bundles : Covers(b) \cap Covers(c) # {} => b = c

\* The sequence the optimizer holds is an unbroken run of stored blocks that are
\* still in no bundle when the optimizer is done with it.
HeldStillFree ==
  bundlerAt = "optimizing" =>
    /\ oldest # {}
    /\ oldest \subseteq blocks \ Bundled
    /\ \E lo, hi \in Heights : oldest = lo..hi

\* Pruning leaves no dangling rows: what a remembered transaction carries is there,
\* a fragment has its bundle, and a bundle has a fragment.
NothingDangles ==
  /\ CarriedBy(txs) \subseteq fragments
  /\ {f.bundle : f \in fragments} = bundles

-----------------------------------------------------------------------------
(* Liveness, once errors and crashes stop.                                 *)

\* A block the importer cannot get, or the bundler cannot read, stops all after it.
Stuck(g) == g \in Unavailable \/ CumulativeSize(g, g) > BytesToAccumulate

\* Heights of the window that are in no bundle, though nothing in the window stops them.
Waiting ==
  {h \in SeenUpTo(fuelHeight)..fuelHeight :
     h \notin Bundled /\ \A g \in SeenUpTo(fuelHeight)..h : ~Stuck(g)}

\* Every block ends up in a bundle, however a run of the importer or the bundler was
\* cut off: whenever the chain stands still for long enough, nothing is waiting.
BlocksGetBundled == []<>(Waiting = {})

-----------------------------------------------------------------------------
(* What importing, bundling and pruning promise together.                  *)

Intake == INSTANCE BlockIntake WITH
  height  <- fuelHeight,
  stored  <- blocks,
  bundled <- Bundled

\* The tasks implement BlockIntake: no block is stored or bundled twice, and none
\* is forgotten before it is bundled.
ImplementsIntake == Intake!Spec
=============================================================================
