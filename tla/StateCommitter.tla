--------------------------- MODULE StateCommitter ---------------------------
(***************************************************************************)
(* The Ethereum state committer: one `run` reads the database, decides,    *)
(* sends a blob transaction and records it.  Each await on another party   *)
(* is a step, so the listener, the chain and a crash come in between.  The *)
(* clock and the fee algorithm decide freely whether to wait; an error     *)
(* returned by a read ends the run like a decision to wait.                *)
(***************************************************************************)
EXTENDS BlobStorage

CONSTANTS
  LookbackWindow,  \* config: block_height_lookback
  MaxFuelHeight    \* bound: height of the last Fuel block

ASSUME CommitterAssumption == LookbackWindow \in Nat /\ MaxFuelHeight \in Nat

VARIABLES
  fuelHeight,    \* latest height of the Fuel chain
  committerAt,   \* where `run` is
  previousTx,    \* the transaction being replaced, 0 for none
  toSubmit,      \* the fragments being submitted
  submittedTx    \* the accepted transaction not yet recorded, 0 for none

committerVars == <<committerAt, previousTx, toSubmit, submittedTx>>

CommitterInit ==
  /\ fuelHeight = 0
  /\ committerAt = "idle"
  /\ previousTx = 0
  /\ toSubmit = {}
  /\ submittedTx = 0

CommitterTypeOK ==
  /\ fuelHeight \in 0..MaxFuelHeight
  /\ committerAt \in {"idle", "stalled", "ready", "sending", "recording"}
  /\ previousTx \in 0..Len(sentTxs)
  /\ toSubmit \in SUBSET Fragments
  /\ submittedTx \in 0..Len(sentTxs)

\* The locals of a run are gone when it returns.
CommitterReset ==
  committerAt' = "idle" /\ previousTx' = 0 /\ toSubmit' = {} /\ submittedTx' = 0

-----------------------------------------------------------------------------
(* The adapter: submit_state_fragments.                                    *)

\* previous is 0 for a fresh transaction.  A replacement keeps the nonce.
BlobTx(frags, previous, fee) ==
  [nonce   |-> IF previous = 0 THEN PendingNonce ELSE Nonce(previous),
   payload |-> frags,
   fee     |-> fee]

\* The market sets the fee, but a replacement at least doubles what it replaces:
\* one level more.
MinimumFee(previous) == IF previous = 0 THEN 0 ELSE sentTxs[previous].fee + 1

\* A transaction dearer than tx_max_fee is not sent.
Sendable(frags, previous, fee) ==
  /\ fee >= MinimumFee(previous)
  /\ fee <= MaxFee
  /\ Accepts(BlobTx(frags, previous, fee))

\* The market asks for MaxFee + 1 when it is above the cap.
SubmitStateFragments(frags, previous) ==
  \E fee \in 0..(MaxFee + 1) :
    /\ Sendable(frags, previous, fee)
    /\ Broadcast(BlobTx(frags, previous, fee))

-----------------------------------------------------------------------------
(* The steps of a run.                                                     *)

\* run: which branch to take.
CheckNonfinalized ==
  /\ committerAt = "idle"
  /\ committerAt' = IF HasNonfinalizedTxs THEN "stalled" ELSE "ready"
  /\ UNCHANGED <<fuelHeight, previousTx, toSubmit, submittedTx, dbVars, l1Vars>>

\* Nothing to submit, nothing pending, a timeout not yet expired, too high
\* fees, or a failed read.
HoldOff ==
  /\ committerAt \in {"stalled", "ready"}
  /\ CommitterReset
  /\ UNCHANGED <<fuelHeight, dbVars, l1Vars>>

\* resubmit_fragments_if_stalled: the latest pending transaction is replaced.
ReplaceStalled ==
  /\ committerAt = "stalled"
  /\ InState("Pending") # {}
  /\ previousTx' = LatestPending
  /\ toSubmit' = OldestOf(FragmentsOf(LatestPending))
  /\ committerAt' = "sending"
  /\ UNCHANGED <<fuelHeight, submittedTx, dbVars, l1Vars>>

StartingHeight == IF fuelHeight > LookbackWindow THEN fuelHeight - LookbackWindow ELSE 0

\* submit_fragments_if_ready: the oldest fragments nobody carries.
SubmitReady ==
  LET next == OldestOf(NonfinalizedFragments(StartingHeight))
  IN  /\ committerAt = "ready"
      /\ next # {}
      /\ toSubmit' = next
      /\ committerAt' = "sending"
      /\ UNCHANGED <<fuelHeight, previousTx, submittedTx, dbVars, l1Vars>>

\* The node accepts the transaction and the committer learns its hash.
SendAccepted ==
  /\ committerAt = "sending"
  /\ SubmitStateFragments(toSubmit, previousTx)
  /\ committerAt' = "recording"
  /\ submittedTx' = Len(sentTxs) + 1
  /\ UNCHANGED <<fuelHeight, previousTx, toSubmit, dbVars, faults>>

\* The node accepts the transaction, but the answer is late: the run ends with
\* an error and the transaction is never recorded.
SendTimedOut ==
  /\ committerAt = "sending"
  /\ SubmitStateFragments(toSubmit, previousTx)
  /\ Fault
  /\ CommitterReset
  /\ UNCHANGED <<fuelHeight, dbVars>>

\* The market is above the cap, the node refuses the transaction, or a call fails.
SendFailed ==
  /\ committerAt = "sending"
  /\ CommitterReset
  /\ UNCHANGED <<fuelHeight, dbVars, l1Vars>>

RecordPending ==
  /\ committerAt = "recording"
  /\ RecordPendingTx(submittedTx)
  /\ CommitterReset
  /\ UNCHANGED <<fuelHeight, l1Vars>>

\* The insert fails: the transaction stays untracked.
RecordFailed ==
  /\ committerAt = "recording"
  /\ Fault
  /\ CommitterReset
  /\ UNCHANGED <<fuelHeight, dbVars, height, irreversible, mined, mempool, sentTxs>>

CommitterNext ==
  \/ CheckNonfinalized
  \/ HoldOff
  \/ ReplaceStalled
  \/ SubmitReady
  \/ SendAccepted
  \/ SendTimedOut
  \/ SendFailed
  \/ RecordPending
  \/ RecordFailed
=============================================================================
