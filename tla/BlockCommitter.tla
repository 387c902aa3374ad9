--------------------------- MODULE BlockCommitter ---------------------------
(***************************************************************************)
(* The block committer: once per epoch it posts the hash of the Fuel block *)
(* at the epoch's start to the L1 contract, and until the transaction of   *)
(* the latest submission is settled it asks the node about it.  It is the  *)
(* only sender from the main wallet; in its tables the state pruner        *)
(* deletes rows by their age, whatever the committer is doing.             *)
(***************************************************************************)
EXTENDS Ethereum

CONSTANTS
  CommitInterval,  \* blocks per commit interval, read from the contract
  MaxFuelHeight,   \* bound: height of the last Fuel block
  MaxPrunings,     \* bound: prunings that delete something
  UintBits         \* width of the integers block numbers are compared in

Heights == 0..MaxFuelHeight

ASSUME BlockCommitterAssumption ==
  /\ CommitInterval \in Nat \ {0}
  /\ MaxFuelHeight \in Nat
  /\ MaxPrunings \in Nat
  /\ UintBits \in Nat
  /\ MaxHeight < 2^UintBits /\ NumBlocksToFinalize < 2^UintBits
  /\ Payload = Heights

VARIABLES
  fuelHeight,    \* latest height of the Fuel chain
  submission,    \* l1_fuel_block_submission: is a height submitted, and completed
  row,           \* l1_transaction: the state of a transaction, or "absent"
  at,            \* where `run` is
  epoch,         \* the height being posted or updated
  nonce,         \* the nonce read for the commit, 0 for none
  submittedTx,   \* the accepted transaction not yet recorded, 0 for none
  toUpdate,      \* pending transactions read and not yet looked at
  blockNumber,   \* the head number read by this run
  prunings,      \* prunings so far
  untracked      \* history: how often the tables lost, or never got, a commit of a height

tableVars == <<submission, row>>
localVars == <<at, epoch, nonce, submittedTx, toUpdate, blockNumber>>
historyVars == <<prunings, untracked>>
vars == <<l1Vars, fuelHeight, tableVars, localVars, historyVars>>

Init ==
  /\ EthereumInit
  /\ fuelHeight = 0
  /\ submission = [h \in Heights |-> "absent"]
  /\ row = [t \in TxHashes |-> "absent"]
  /\ at = "idle" /\ epoch = 0 /\ nonce = 0 /\ submittedTx = 0
  /\ toUpdate = {} /\ blockNumber = 0
  /\ prunings = 0
  /\ untracked = [h \in Heights |-> 0]

Reset ==
  /\ at' = "idle" /\ epoch' = 0 /\ nonce' = 0 /\ submittedTx' = 0
  /\ toUpdate' = {} /\ blockNumber' = 0

\* The epoch at hand was sent, and the run ends without a record of it.
LeaveUntracked ==
  /\ untracked' = [untracked EXCEPT ![epoch] = @ + 1]
  /\ UNCHANGED prunings

-----------------------------------------------------------------------------
(* Deciding what to do.                                                    *)

Submitted == {h \in Heights : submission[h] # "absent"}
LatestSubmission == CHOOSE h \in Submitted : \A g \in Submitted : g <= h

CurrentEpoch == fuelHeight - (fuelHeight % CommitInterval)

\* Mutants of Stale: the current epoch counts as stale; the oldest submission
\* decides.
StaleAtEpoch == \A h \in Submitted : h <= CurrentEpoch
StaleOldest == Submitted = {} \/ \E h \in Submitted : h < CurrentEpoch

\* decide_action: every submission, hence the latest, is of an earlier epoch.
Stale == \A h \in Submitted : h < CurrentEpoch

Post ==
  /\ at = "idle" /\ Stale
  /\ at' = "posting"
  /\ epoch' = CurrentEpoch
  /\ UNCHANGED <<l1Vars, fuelHeight, tableVars, historyVars, nonce, submittedTx, toUpdate, blockNumber>>

\* The pending transactions of the latest submission only.
UpdateTx ==
  /\ at = "idle" /\ ~Stale
  /\ submission[LatestSubmission] = "open"
  /\ at' = "listed"
  /\ epoch' = LatestSubmission
  /\ toUpdate' = {t \in TxHashes : row[t] = "Pending" /\ LatestSubmission \in sentTxs[t].payload}
  /\ UNCHANGED <<l1Vars, fuelHeight, tableVars, historyVars, nonce, submittedTx, blockNumber>>

-----------------------------------------------------------------------------
(* Posting.                                                                *)

\* The commit takes the nonce of the latest block, also when an older commit with
\* that nonce is still pending.
ReadNonce ==
  /\ at = "posting"
  /\ nonce' = LatestNonce
  /\ at' = "sending"
  /\ UNCHANGED <<l1Vars, fuelHeight, tableVars, historyVars, epoch, submittedTx, toUpdate, blockNumber>>

\* The market sets the fee.
CommitTx(fee) == [nonce |-> nonce, payload |-> {epoch}, fee |-> fee]

SubmitAccepted ==
  /\ at = "sending"
  /\ \E fee \in 0..MaxFee : Broadcast(CommitTx(fee))
  /\ at' = "recording"
  /\ submittedTx' = Len(sentTxs) + 1
  /\ UNCHANGED <<fuelHeight, tableVars, historyVars, epoch, nonce, toUpdate, blockNumber, faults>>

\* The node accepts, but the answer is late: the run ends with an error.
SubmitTimedOut ==
  /\ at = "sending"
  /\ \E fee \in 0..MaxFee : Broadcast(CommitTx(fee))
  /\ Fault
  /\ Reset /\ LeaveUntracked
  /\ UNCHANGED <<fuelHeight, tableVars>>

\* The node refuses the commit, or the call fails.
SubmitFailed ==
  /\ at = "sending"
  /\ Reset
  /\ UNCHANGED <<fuelHeight, tableVars, historyVars, l1Vars>>

RecordBlockSubmission ==
  /\ at = "recording"
  /\ submission' = [submission EXCEPT ![epoch] = "open"]
  /\ row' = [row EXCEPT ![submittedTx] = "Pending"]
  /\ Reset
  /\ UNCHANGED <<l1Vars, fuelHeight, historyVars>>

\* The insert fails: the commit stays untracked.
RecordFailed ==
  /\ at = "recording"
  /\ Fault
  /\ Reset /\ LeaveUntracked
  /\ UNCHANGED <<fuelHeight, tableVars, height, irreversible, mined, mempool, sentTxs>>

-----------------------------------------------------------------------------
(* Updating.                                                               *)

ReadBlockNumber ==
  /\ at = "listed"
  /\ blockNumber' = height
  /\ at' = "querying"
  /\ UNCHANGED <<l1Vars, fuelHeight, tableVars, historyVars, epoch, nonce, submittedTx, toUpdate>>

\* `!` on a u64 flips its bits.
BitNot(x) == 2^UintBits - 1 - x

Confirmations(receipt) ==
  IF receipt.succeeded /\ blockNumber > receipt.block THEN blockNumber - receipt.block ELSE 0

NotFinalized(receipt) == BitNot(Confirmations(receipt)) < NumBlocksToFinalize

\* Mutant of UpdateBlockSubmissionTx: a failure does not complete the submission.
CompleteOnSuccess(t, state) ==
  /\ row' = [row EXCEPT ![t] = state]
  /\ submission' = [h \in Heights |-> IF h \in sentTxs[t].payload /\ state = "Finalized"
                                      THEN "completed" ELSE submission[h]]

\* Any final state completes the submission, "Failed" included.
UpdateBlockSubmissionTx(t, state) ==
  /\ row' = [row EXCEPT ![t] = state]
  /\ submission' = [h \in Heights |-> IF h \in sentTxs[t].payload THEN "completed"
                                      ELSE submission[h]]

\* Included, and reverted or final as far as the check can tell.
HasOutcome(t) ==
  LET receipt == mined[Nonce(t)]
  IN  Included(t) /\ (receipt.succeeded => ~NotFinalized(receipt))

\* One receipt and the write it leads to; the write does not depend on anything
\* the chain does in between.
QueryTx(t) ==
  /\ at = "querying"
  /\ toUpdate' = toUpdate \ {t}
  /\ \/ ~HasOutcome(t) /\ UNCHANGED tableVars
     \/ /\ HasOutcome(t) /\ row[t] # "absent"
        /\ UpdateBlockSubmissionTx(t, IF mined[Nonce(t)].succeeded THEN "Finalized" ELSE "Failed")
  /\ UNCHANGED <<l1Vars, fuelHeight, historyVars, at, epoch, nonce, submittedTx, blockNumber>>

\* A row that the pruner has deleted since it was read cannot be updated: the run
\* ends with an error.
QueryPruned(t) ==
  /\ at = "querying"
  /\ HasOutcome(t) /\ row[t] = "absent"
  /\ Reset
  /\ UNCHANGED <<l1Vars, fuelHeight, tableVars, historyVars>>

UpdateDone ==
  /\ at = "querying" /\ toUpdate = {}
  /\ Reset
  /\ UNCHANGED <<l1Vars, fuelHeight, tableVars, historyVars>>

\* Any other call fails, or the process dies anywhere in a run.
Abort ==
  /\ at # "idle"
  /\ Fault
  /\ Reset
  /\ IF at = "recording" THEN LeaveUntracked ELSE UNCHANGED historyVars
  /\ UNCHANGED <<fuelHeight, tableVars, height, irreversible, mined, mempool, sentTxs>>

-----------------------------------------------------------------------------
(* Pruning: prune_entries_older_than deletes the rows of l1_transaction    *)
(* that are older than the retention, pending ones too, and the            *)
(* submissions that have none left.  Rows are created in the order of the  *)
(* sends, as one run is under way at a time.                               *)

TxsBefore(date) == {t \in 1..date : row[t] # "absent"}

PrunedSubmissions(txs) ==
  {h \in Heights : /\ \E t \in txs : h \in sentTxs[t].payload
                   /\ \A t \in Sent \ txs : row[t] # "absent" => h \notin sentTxs[t].payload}

PruneEntriesOlderThan(date) ==
  LET txs == TxsBefore(date)
      gone == PrunedSubmissions(txs)
  IN  /\ prunings < MaxPrunings /\ txs # {}
      /\ prunings' = prunings + 1
      /\ row' = [t \in TxHashes |-> IF t \in txs THEN "absent" ELSE row[t]]
      /\ submission' = [h \in Heights |-> IF h \in gone THEN "absent" ELSE submission[h]]
      /\ untracked' = [h \in Heights |-> IF h \in gone THEN untracked[h] + 1 ELSE untracked[h]]
      /\ UNCHANGED <<l1Vars, fuelHeight, localVars>>

-----------------------------------------------------------------------------

Run ==
  \/ Post \/ UpdateTx
  \/ ReadNonce \/ SubmitAccepted \/ SubmitTimedOut \/ SubmitFailed
  \/ RecordBlockSubmission \/ RecordFailed
  \/ ReadBlockNumber \/ (\E t \in toUpdate : QueryTx(t) \/ QueryPruned(t)) \/ UpdateDone
  \/ Abort

NewFuelBlock ==
  /\ fuelHeight < MaxFuelHeight
  /\ fuelHeight' = fuelHeight + 1
  /\ UNCHANGED <<l1Vars, tableVars, localVars, historyVars>>

OffChain == <<fuelHeight, tableVars, localVars, historyVars>>

Next ==
  \/ Run
  \/ NewFuelBlock
  \/ \E date \in Sent : PruneEntriesOlderThan(date)
  \/ ChainNext /\ UNCHANGED OffChain

Spec == Init /\ [][Next]_vars

\* The task is polled for ever and a send does not fail every time; the chain mines
\* what is executable and goes on.
Fairness ==
  /\ WF_vars(Run)
  /\ SF_vars(SubmitAccepted)
  /\ WF_vars(\E k \in 1..MaxTxsPerBlock : MineBlock(k) /\ faults' = faults /\ UNCHANGED OffChain)
  /\ WF_vars(MineBlock(0) /\ UNCHANGED OffChain)

FairSpec == Spec /\ Fairness

-----------------------------------------------------------------------------
(* Properties.                                                             *)

\* The variables have their types.
TypeOK ==
  /\ EthereumTypeOK
  /\ fuelHeight \in Heights
  /\ submission \in [Heights -> {"absent", "open", "completed"}]
  /\ row \in [TxHashes -> {"absent", "Pending", "Finalized", "Failed"}]
  /\ at \in {"idle", "posting", "sending", "recording", "listed", "querying"}
  /\ epoch \in Heights
  /\ nonce \in Nat
  /\ submittedTx \in 0..Len(sentTxs)
  /\ toUpdate \in SUBSET TxHashes
  /\ blockNumber \in 0..MaxHeight
  /\ prunings \in 0..MaxPrunings
  /\ untracked \in [Heights -> Nat]

\* The two tables agree: a submission has exactly one transaction on record, and
\* it is completed exactly when that transaction is settled.
TablesAgree ==
  \A h \in Heights :
    LET rows == {t \in Sent : row[t] # "absent" /\ h \in sentTxs[t].payload}
    IN  /\ submission[h] = "absent" => rows = {}
        /\ submission[h] # "absent" =>
             \E t \in rows : rows = {t} /\ (submission[h] = "open" <=> row[t] = "Pending")

\* An epoch is sent to L1 again only after a run sent it and ended before it was on
\* record, or after the pruner deleted its submission, and once for each such event
\* of that epoch: neither a revert nor a reorg nor a lost transaction has it resent.
ResentOnlyIfUntracked ==
  \A h \in Heights : Cardinality({t \in Sent : sentTxs[t].payload = {h}}) <= 1 + untracked[h]

\* What is posted is newer than every recorded submission.
PostsOnlyNewerEpochs ==
  [][\A h \in Submitted : Len(sentTxs') > Len(sentTxs) =>
       \A g \in sentTxs'[Len(sentTxs')].payload : g > h]_vars

\* While no transaction is lost, the recorded commit of the latest submission is
\* pending or mined, unless an unrecorded commit of a newer epoch took its nonce.
LatestCommitSurvives ==
  Submitted # {} =>
    \E t \in Sent :
      /\ row[t] # "absent" /\ sentTxs[t].payload = {LatestSubmission}
      /\ \/ t \in mempool \/ Included(t)
         \/ \E u \in Sent : /\ u > t /\ Nonce(u) = Nonce(t)
                            /\ \A g \in sentTxs[u].payload : g > LatestSubmission

\* While no transaction is lost, the last epoch is settled, reverts and lost
\* answers notwithstanding.
LatestEpochSettles ==
  LET last == MaxFuelHeight - (MaxFuelHeight % CommitInterval)
  IN  fuelHeight = MaxFuelHeight ~> submission[last] = "completed"

\* What config.rs says of num_blocks_to_finalize_tx: the number of L1 blocks to
\* wait before finalizing a transaction.
WaitsForConfirmations ==
  [][\A t \in TxHashes : row[t] # "Finalized" /\ row'[t] = "Finalized" =>
       height - mined[Nonce(t)].block >= NumBlocksToFinalize]_vars
=============================================================================
