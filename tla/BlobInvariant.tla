--------------------------- MODULE BlobInvariant ----------------------------
(***************************************************************************)
(* The inductive invariant behind the safety properties of BlobPipeline:   *)
(* what each run of the committer and of the listener may rely on between  *)
(* two of its steps, while the chain and the other task go on.  IInv is    *)
(* about single rows; BatchInv, inductive together with it, about which    *)
(* fragments the rows carry.                                               *)
(***************************************************************************)
EXTENDS BlobPipeline

\* Only broadcast transactions have a row.
RowsSent == \A t \in TxHashes : row[t] # "absent" => t \in Sent

\* A transaction that is being recorded is sent and has no row yet.
RecordingFresh ==
  committerAt = "recording" => /\ submittedTx \in Sent
                               /\ row[submittedTx] = "absent"

\* While the listener runs nobody else closes a row: what it has read is open.
ListedOpen ==
  /\ \A w \in worklist \cup asking : w.tx \in OpenTxs
  /\ \A c \in selective \cup noncewide : c.tx \in OpenTxs

\* The head number of a run is not ahead of what is irreversible by more than
\* the confirmations asked for.
HeadNotAhead == listenerAt = "querying" => blockNumber <= irreversible + NumBlocksToFinalize

\* A row that a run decides to finalize is settled, and stays so until it is written.
DecidedFinal == \A c \in noncewide : c.state = "Finalized" => Settled(c.tx)

\* Selective changes finalize nothing.
SelectiveModest == \A c \in selective : c.state \in {"Failed", "Pending"}

\* A run decides one nonce once, and not against a finalized row.
DecidedOnce ==
  /\ \A c \in noncewide : Nonce(c.tx) \in skipNonces
  /\ \A c, d \in noncewide : Nonce(c.tx) = Nonce(d.tx) => c = d
  /\ \A c \in noncewide : \A t \in InState("Finalized") : Nonce(t) # Nonce(c.tx)

DbInv ==
  StorageTypeOK /\ RowsSent /\ FinalizedOnChain /\ OneOutcomePerNonce /\ ChargedOnFinality

CommitterInv == CommitterTypeOK /\ RecordingFresh

ListenerInv ==
  /\ ListenerTypeOK
  /\ ListedOpen /\ HeadNotAhead /\ DecidedFinal /\ SelectiveModest /\ DecidedOnce

IInv == EthereumInv /\ DbInv /\ CommitterInv /\ ListenerInv

-----------------------------------------------------------------------------
(* Batches.                                                                *)

Busy == committerAt \in {"sending", "recording"}

\* What was sent is stored and fits into one transaction.
PayloadsFit ==
  \A t \in Sent : FragmentsOf(t) \subseteq fragments /\ OldestOf(FragmentsOf(t)) = FragmentsOf(t)

\* Live transactions that share a fragment compete for one nonce.
OneNoncePerFragment ==
  \A t, u \in LiveTxs : FragmentsOf(t) \cap FragmentsOf(u) # {} => Nonce(t) = Nonce(u)

\* Nothing is being replaced before a run has decided to.
NoPrevious == ~Busy => previousTx = 0

\* A run that found no open row still finds none: the listener opens no row.
ReadyAlone == committerAt = "ready" => OpenTxs = {}

BatchFits == Busy => toSubmit \subseteq fragments /\ OldestOf(toSubmit) = toSubmit

\* A fresh batch is alone and shares nothing with what is live.
FreshBatch ==
  Busy /\ previousTx = 0 =>
    OpenTxs = {} /\ \A t \in LiveTxs : toSubmit \cap FragmentsOf(t) = {}

\* A replacement carries what all open rows carry, with their nonce.
ReplacementBatch ==
  Busy /\ previousTx # 0 =>
    /\ previousTx \in Sent
    /\ \A t \in OpenTxs : Nonce(t) = Nonce(previousTx) /\ FragmentsOf(t) = toSubmit
    /\ \A t \in LiveTxs : toSubmit \cap FragmentsOf(t) # {} => Nonce(t) = Nonce(previousTx)

\* The transaction being recorded is the one that was to be sent.
RecordedBatch ==
  committerAt = "recording" =>
    /\ FragmentsOf(submittedTx) = toSubmit
    /\ previousTx # 0 => Nonce(submittedTx) = Nonce(previousTx)

TableBatches == OneOpenSubmission /\ OneNoncePerFragment

CommitterBatch ==
  NoPrevious /\ ReadyAlone /\ BatchFits /\ FreshBatch /\ ReplacementBatch /\ RecordedBatch

\* A bundle that is not stored has no cost.
UnstoredBundles ==
  \A b \in Bundles : (\A f \in fragments : EndHeight[f] # b) => ~isFinalized[b]

BatchInv ==
  PayloadsFit /\ TableBatches /\ CommitterBatch /\ UnstoredBundles /\ BundlesFinalized
=============================================================================
