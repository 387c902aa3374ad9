---------------------------- MODULE BlobTheorems ----------------------------
(***************************************************************************)
(* What holds of the blob submission for every value of the constants.     *)
(* IInv is inductive: the chain and the sending steps of the committer     *)
(* leave the tables and the listener's memory alone and keep what is       *)
(* settled settled; only RecordPending and ApplyChanges write rows.        *)
(***************************************************************************)
EXTENDS BlobInvariant, EthereumTheorems

-----------------------------------------------------------------------------
(* What the environment may do to the tables and to a run of the listener. *)

\* Steps that only add transactions and confirmations.
Persists ==
  /\ EthereumInv'
  /\ Sent \subseteq Sent'
  /\ irreversible' >= irreversible
  /\ \A t \in Sent : sentTxs'[t] = sentTxs[t] /\ (Settled(t) => Settled(t)')

\* The numbers that bound the run are naturals.
LEMMA Numbers ==
  ASSUME IInv
  PROVE  /\ height \in 0..MaxHeight /\ irreversible \in 0..height /\ blockNumber \in 0..MaxHeight
         /\ MaxHeight \in Nat /\ NumBlocksToFinalize \in Nat
         /\ Len(sentTxs) \in 0..MaxTxs /\ MaxTxs \in Nat
         /\ Len(mined) \in Nat
<1>1. Len(sentTxs) \in Nat /\ Len(mined) \in Nat
  BY LenProperties DEF IInv, EthereumInv, EthereumTypeOK
<1> QED BY <1>1, EthereumAssumption
        DEF IInv, EthereumInv, EthereumTypeOK, ListenerInv, ListenerTypeOK

\* Rows in any state are rows of sent transactions.
LEMMA RowsAreSent ==
  ASSUME IInv
  PROVE  /\ OpenTxs \subseteq Sent
         /\ \A s \in TxStates : InState(s) \subseteq Sent
  BY DEF IInv, DbInv, RowsSent, OpenTxs, InState, TxStates, OpenStates

\* A sent transaction is a request with a nonce and a payload.
LEMMA SentIsRequest ==
  ASSUME IInv, NEW t \in Sent
  PROVE  sentTxs[t] \in TxRequest /\ Nonce(t) \in Nat \ {0}
<1>1. sentTxs[t] \in TxRequest
  BY ElementOfSeq DEF IInv, EthereumInv, EthereumTypeOK, Sent
<1> QED BY <1>1 DEF TxRequest, Nonce

\* Steps of the chain and of the committer keep what the tables promise.
LEMMA DbPersists ==
  ASSUME IInv, Persists, UNCHANGED dbVars
  PROVE  DbInv'
<1>1. UNCHANGED <<fragments, row, charged, isFinalized>>
  BY DEF dbVars
<1>2. StorageTypeOK' /\ RowsSent' /\ ChargedOnFinality'
  BY <1>1 DEF IInv, DbInv, StorageTypeOK, RowsSent, ChargedOnFinality, Persists
<1>3. \A s : InState(s)' = InState(s)
  BY <1>1 DEF InState
<1>4. FinalizedOnChain'
  <2>1. InState("Finalized") \subseteq Sent
    BY RowsAreSent DEF TxStates
  <2> QED BY <1>3, <2>1 DEF IInv, DbInv, FinalizedOnChain, Persists
<1>5. OneOutcomePerNonce'
  <2>1. InState("Finalized") \subseteq Sent /\ InState("IncludedInBlock") \subseteq Sent
    BY RowsAreSent DEF TxStates, OpenStates
  <2>2. \A t \in Sent : Nonce(t)' = Nonce(t)
    BY DEF Persists, Nonce
  <2> QED BY <1>3, <2>1, <2>2 DEF IInv, DbInv, OneOutcomePerNonce
<1> QED BY <1>2, <1>4, <1>5 DEF DbInv

\* What a run of the listener remembers outlives steps of the chain and the committer.
LEMMA ListenerPersists ==
  ASSUME IInv, Persists, UNCHANGED <<dbVars, listenerVars>>
  PROVE  ListenerInv'
<1>1. /\ UNCHANGED <<fragments, row, charged, isFinalized>>
      /\ UNCHANGED <<listenerAt, worklist, blockNumber, asking, skipNonces, selective, noncewide>>
  BY DEF dbVars, listenerVars
<1>2. OpenTxs' = OpenTxs /\ InState("Finalized")' = InState("Finalized")
  BY <1>1 DEF OpenTxs, InState
<1>3. ListenerTypeOK' /\ ListedOpen' /\ SelectiveModest'
  BY <1>1, <1>2 DEF IInv, ListenerInv, ListenerTypeOK, ListedOpen, SelectiveModest
<1>4. HeadNotAhead'
  <2>1. irreversible' \in Nat
    BY DEF Persists, EthereumInv, EthereumTypeOK
  <2> QED BY <1>1, <2>1, Numbers DEF IInv, ListenerInv, HeadNotAhead, Persists
<1>5. \A c \in noncewide : c.tx \in Sent
  BY RowsAreSent DEF IInv, ListenerInv, ListedOpen
<1>6. DecidedFinal'
  BY <1>1, <1>5 DEF IInv, ListenerInv, DecidedFinal, Persists
<1>7. DecidedOnce'
  <2>1. \A t \in Sent : Nonce(t)' = Nonce(t)
    BY DEF Persists, Nonce
  <2>2. InState("Finalized") \subseteq Sent
    BY RowsAreSent DEF TxStates
  <2> QED BY <1>1, <1>2, <1>5, <2>1, <2>2 DEF IInv, ListenerInv, DecidedOnce
<1> QED BY <1>3, <1>4, <1>6, <1>7 DEF ListenerInv

\* A listener that has just started or given up knows nothing.
LEMMA ListenerResets ==
  ASSUME ListenerReset, Persists
  PROVE  ListenerInv'
<1>1. 0 \in 0..MaxHeight
  BY EthereumAssumption
<1> QED BY <1>1 DEF ListenerReset, ListenerInv, ListenerTypeOK, ListedOpen, HeadNotAhead,
                    DecidedFinal, SelectiveModest, DecidedOnce

\* Neither has a committer.
LEMMA CommitterResets ==
  ASSUME IInv, CommitterReset, Persists, fuelHeight' \in 0..MaxFuelHeight
  PROVE  CommitterInv'
<1>1. Len(sentTxs') \in Nat
  BY LenProperties DEF Persists, EthereumInv, EthereumTypeOK
<1> QED BY <1>1 DEF CommitterReset, CommitterInv, CommitterTypeOK, RecordingFresh

\* The committer's memory outlives steps of the others.
LEMMA CommitterPersists ==
  ASSUME IInv, Persists, UNCHANGED <<row, committerVars>>, fuelHeight' \in 0..MaxFuelHeight
  PROVE  CommitterInv'
<1>1. UNCHANGED <<committerAt, previousTx, toSubmit, submittedTx>>
  BY DEF committerVars
<1>2. Len(sentTxs') \in Nat /\ Len(sentTxs) \in Nat /\ Len(sentTxs) <= Len(sentTxs')
  <2>1. Len(sentTxs') \in Nat
    BY LenProperties DEF Persists, EthereumInv, EthereumTypeOK
  <2>2. Len(sentTxs) \in Nat
    BY Numbers
  <2>3. CASE Len(sentTxs) = 0
    BY <2>1, <2>3
  <2>4. CASE Len(sentTxs) # 0
    <3>1. Len(sentTxs) \in Sent
      BY <2>2, <2>4 DEF Sent
    <3>2. Len(sentTxs) \in Sent'
      BY <3>1 DEF Persists
    <3> QED BY <3>2, <2>1, <2>2 DEF Sent
  <2> QED BY <2>1, <2>2, <2>3, <2>4
<1> QED BY <1>1, <1>2 DEF IInv, CommitterInv, CommitterTypeOK, RecordingFresh, Persists

\* A step that only loses time, or the process.
LEMMA FaultPersists ==
  ASSUME IInv, UNCHANGED faults \/ Fault,
         UNCHANGED <<height, irreversible, mined, mempool, sentTxs>>
  PROVE  Persists
<1>1. irreversible \in Nat
  BY Numbers
<1> QED BY <1>1, FaultStep, EthereumAssumption DEF IInv, Persists

\* The chain only adds confirmations to what is settled.
LEMMA ChainPersists ==
  ASSUME IInv, ChainNext
  PROVE  Persists
  BY ChainStep, EthereumAssumption DEF IInv, Persists, Sent

-----------------------------------------------------------------------------
(* The committer.                                                          *)

\* The row that resubmit_fragments_if_stalled replaces is one of a sent transaction.
LEMMA LatestPendingIsSent ==
  ASSUME IInv, InState("Pending") # {}
  PROVE  LatestPending \in Sent /\ FragmentsOf(LatestPending) \subseteq Fragments
<1>1. InState("Pending") \in SUBSET (1..MaxTxs) /\ MaxTxs \in Nat
  BY EthereumAssumption DEF InState, TxHashes
<1>2. \E t \in InState("Pending") : \A u \in InState("Pending") : u <= t
  BY <1>1, GreatestElement
<1>3. LatestPending \in InState("Pending")
  BY <1>2 DEF LatestPending
<1>4. LatestPending \in Sent
  BY <1>3, RowsAreSent DEF TxStates, OpenStates
<1>5. sentTxs[LatestPending] \in TxRequest
  BY <1>4, SentIsRequest
<1> QED BY <1>4, <1>5, StorageAssumption DEF FragmentsOf, TxRequest

\* What the committer sends is a well-formed request below the fee cap.
LEMMA BlobTxIsRequest ==
  ASSUME IInv, NEW fee \in 0..(MaxFee + 1), Sendable(toSubmit, previousTx, fee)
  PROVE  BlobTx(toSubmit, previousTx, fee) \in TxRequest
<1>1. fee \in 0..MaxFee
  BY EthereumAssumption DEF Sendable
<1>2. toSubmit \in SUBSET Payload /\ previousTx \in 0..Len(sentTxs) /\ Len(sentTxs) \in Nat
  BY StorageAssumption, Numbers DEF IInv, CommitterInv, CommitterTypeOK
<1>3. CASE previousTx = 0
  <2>1. PendingNonce \in Nat \ {0}
    BY PendingNonceFree, EthereumAssumption, Numbers DEF IInv, EthereumInv
  <2> QED BY <1>1, <1>2, <1>3, <2>1 DEF BlobTx, TxRequest
<1>4. CASE previousTx # 0
  <2>1. Nonce(previousTx) \in Nat \ {0}
    BY <1>2, <1>4, SentIsRequest DEF Sent
  <2> QED BY <1>1, <1>2, <1>4, <2>1 DEF BlobTx, TxRequest
<1> QED BY <1>3, <1>4

\* Sending adds one transaction and disturbs nothing that is settled.
LEMMA SendPersists ==
  ASSUME IInv, SubmitStateFragments(toSubmit, previousTx), UNCHANGED faults \/ Fault
  PROVE  /\ Persists
         /\ Sent' = Sent \cup {Len(sentTxs) + 1}
         /\ Len(sentTxs') = Len(sentTxs) + 1 /\ Len(sentTxs) + 1 \in TxHashes
<1>1. PICK fee \in 0..(MaxFee + 1) :
        /\ Sendable(toSubmit, previousTx, fee)
        /\ Broadcast(BlobTx(toSubmit, previousTx, fee))
  BY DEF SubmitStateFragments
<1>2. BlobTx(toSubmit, previousTx, fee) \in TxRequest
  BY <1>1, BlobTxIsRequest
<1>3. irreversible \in Nat
  BY Numbers
<1> HIDE DEF BlobTx
<1> QED BY <1>1, <1>2, <1>3, BroadcastStep, EthereumAssumption DEF IInv, Persists

\* A new row is pending, so it settles nothing.
LEMMA RecordPendingStep ==
  ASSUME IInv, RecordPending, UNCHANGED listenerVars
  PROVE  IInv' /\ Persists /\ \A t \in TxHashes : row[t] # "absent" => row'[t] = row[t]
<1>1. /\ row' = [row EXCEPT ![submittedTx] = "Pending"]
      /\ UNCHANGED <<fragments, charged, isFinalized, fuelHeight, l1Vars>>
      /\ CommitterReset
      /\ submittedTx \in Sent /\ row[submittedTx] = "absent"
      /\ row \in [TxHashes -> TxStates \cup {"absent"}]
      /\ Sent \subseteq TxHashes
  <2>1. Sent \subseteq TxHashes
    BY Numbers DEF Sent, TxHashes
  <2> QED BY <2>1 DEF RecordPending, RecordPendingTx, IInv, CommitterInv, RecordingFresh,
                      DbInv, StorageTypeOK
<1>2. Persists
  BY <1>1, FaultPersists DEF l1Vars
<1>3. \A t \in TxHashes : row'[t] = IF t = submittedTx THEN "Pending" ELSE row[t]
  BY <1>1
<1>4. /\ InState("Finalized")' = InState("Finalized")
      /\ InState("IncludedInBlock")' = InState("IncludedInBlock")
      /\ OpenTxs \subseteq OpenTxs'
  BY <1>1, <1>3 DEF InState, OpenTxs
<1>5. /\ UNCHANGED <<height, irreversible, mined, mempool, sentTxs, faults>> /\ Sent' = Sent
      /\ UNCHANGED <<listenerAt, worklist, blockNumber, asking, skipNonces, selective, noncewide>>
  BY <1>1 DEF l1Vars, Sent, listenerVars
<1>6. DbInv'
  <2>1. StorageTypeOK'
    <3>1. row' \in [TxHashes -> TxStates \cup {"absent"}]
      BY <1>1 DEF TxStates, OpenStates
    <3> QED BY <1>1, <3>1 DEF IInv, DbInv, StorageTypeOK
  <2>2. RowsSent'
    BY <1>1, <1>3, <1>5 DEF IInv, DbInv, RowsSent
  <2>3. FinalizedOnChain' /\ OneOutcomePerNonce'
    BY <1>4, <1>5 DEF IInv, DbInv, FinalizedOnChain, OneOutcomePerNonce, Settled, Included, Nonce
  <2>4. ChargedOnFinality'
    BY <1>1, <1>3 DEF IInv, DbInv, ChargedOnFinality
  <2> QED BY <2>1, <2>2, <2>3, <2>4 DEF DbInv
<1>7. CommitterInv'
  BY <1>1, <1>2, CommitterResets DEF IInv, CommitterInv, CommitterTypeOK
<1>8. ListenerInv'
  BY <1>4, <1>5 DEF IInv, ListenerInv, ListenerTypeOK, ListedOpen, HeadNotAhead, DecidedFinal,
                    SelectiveModest, DecidedOnce, Settled, Included, Nonce
<1> QED BY <1>2, <1>3, <1>1, <1>6, <1>7, <1>8 DEF IInv, Persists

\* Every other step of the committer leaves the tables alone.
LEMMA CommitterQuietStep ==
  ASSUME IInv, CommitterNext, ~RecordPending, UNCHANGED listenerVars
  PROVE  IInv' /\ UNCHANGED dbVars /\ Persists
<1>1. SUFFICES Persists /\ UNCHANGED dbVars /\ CommitterInv'
  BY DbPersists, ListenerPersists DEF IInv, Persists
<1>2. Len(sentTxs) \in Nat
  BY Numbers
<1>3. fuelHeight \in 0..MaxFuelHeight
  BY DEF IInv, CommitterInv, CommitterTypeOK
<1>4. CASE CheckNonfinalized
  BY <1>4, FaultPersists
     DEF CheckNonfinalized, l1Vars, IInv, CommitterInv, CommitterTypeOK, RecordingFresh
<1>5. CASE HoldOff
  BY <1>5, <1>3, FaultPersists, CommitterResets DEF HoldOff, l1Vars
<1>6. CASE ReplaceStalled
  <2>1. LatestPending \in 0..Len(sentTxs) /\ OldestOf(FragmentsOf(LatestPending)) \subseteq Fragments
    BY <1>2, <1>6, LatestPendingIsSent DEF ReplaceStalled, Sent, OldestOf
  <2>2. Persists
    BY <1>6, FaultPersists DEF ReplaceStalled, l1Vars
  <2> QED BY <1>6, <2>1, <2>2
          DEF ReplaceStalled, l1Vars, IInv, CommitterInv, CommitterTypeOK, RecordingFresh
<1>7. CASE SubmitReady
  <2>1. OldestOf(NonfinalizedFragments(StartingHeight)) \subseteq Fragments
    BY DEF OldestOf, NonfinalizedFragments, IInv, DbInv, StorageTypeOK
  <2>2. Persists
    BY <1>7, FaultPersists DEF SubmitReady, l1Vars
  <2> QED BY <1>7, <2>1, <2>2
          DEF SubmitReady, l1Vars, IInv, CommitterInv, CommitterTypeOK, RecordingFresh
<1>8. CASE SendAccepted
  <2>1. /\ Persists
        /\ Sent' = Sent \cup {Len(sentTxs) + 1}
        /\ Len(sentTxs') = Len(sentTxs) + 1 /\ Len(sentTxs) + 1 \in TxHashes
    BY <1>8, SendPersists DEF SendAccepted
  <2>2. Len(sentTxs) + 1 \notin Sent
    BY <1>2 DEF Sent
  <2>3. row[Len(sentTxs) + 1] = "absent"
    BY <2>1, <2>2 DEF IInv, DbInv, RowsSent
  <2> QED BY <1>2, <1>8, <2>1, <2>3
          DEF SendAccepted, dbVars, IInv, CommitterInv, CommitterTypeOK, RecordingFresh
<1>9. CASE SendTimedOut
  BY <1>3, <1>9, SendPersists, CommitterResets DEF SendTimedOut
<1>10. CASE SendFailed
  BY <1>3, <1>10, FaultPersists, CommitterResets DEF SendFailed, l1Vars
<1>11. CASE RecordFailed
  BY <1>3, <1>11, FaultPersists, CommitterResets DEF RecordFailed
<1> QED BY <1>4, <1>5, <1>6, <1>7, <1>8, <1>9, <1>10, <1>11 DEF CommitterNext

-----------------------------------------------------------------------------
(* The listener.                                                           *)

\* What is mined was sent.
LEMMA MinedIsInclusion ==
  ASSUME IInv, NEW n \in 1..Len(mined)
  PROVE  /\ mined[n].tx \in Sent
         /\ mined[n].block \in 1..height
         /\ mined[n].succeeded \in BOOLEAN
<1>1. mined[n] \in Inclusion(Sent, 1..height)
  BY ElementOfSeq DEF IInv, EthereumInv, EthereumTypeOK
<1> QED BY <1>1 DEF Inclusion

\* A receipt with enough confirmations, counted from the head number read before
\* it, is in a block that no reorg removes.
LEMMA ConfirmedIsIrreversible ==
  ASSUME IInv, listenerAt = "querying", NEW block \in 1..height, Confirmed(block)
  PROVE  block <= irreversible
<1>1. blockNumber <= irreversible + NumBlocksToFinalize
  BY DEF IInv, ListenerInv, HeadNotAhead
<1>2. height <= irreversible + NumBlocksToFinalize
  BY DEF IInv, EthereumInv, IrreversibleLag
<1> QED BY <1>1, <1>2, Numbers DEF Confirmed

\* What a receipt leads to: at most one change, of the row itself.
LEMMA ReceiptChangesSound ==
  ASSUME IInv, listenerAt = "querying", NEW w \in worklist, Included(w.tx)
  PROVE  \A c \in ReceiptChanges(w) :
           /\ c \in Change /\ c = [tx |-> w.tx, state |-> c.state]
           /\ c.state = "Finalized" => Settled(w.tx)
           /\ \A d \in ReceiptChanges(w) : c = d
<1>1. w.tx \in TxHashes
  BY DEF IInv, ListenerInv, ListenerTypeOK, Listed
<1> DEFINE receipt == mined[Nonce(w.tx)]
<1>2. receipt.block \in 1..height
  BY MinedIsInclusion DEF Included
<1>3. CASE ~receipt.succeeded
  BY <1>1, <1>3 DEF ReceiptChanges, Change, TxStates
<1>4. CASE receipt.succeeded /\ Confirmed(receipt.block)
  <2>1. Settled(w.tx)
    BY <1>2, <1>4, ConfirmedIsIrreversible DEF Settled
  <2>2. ReceiptChanges(w) = {[tx |-> w.tx, state |-> "Finalized"]}
    BY <1>4 DEF ReceiptChanges
  <2> QED BY <1>1, <2>1, <2>2 DEF Change, TxStates
<1>5. CASE receipt.succeeded /\ ~Confirmed(receipt.block)
  <2>1. ReceiptChanges(w) \subseteq {[tx |-> w.tx, state |-> "IncludedInBlock"]}
    BY <1>5 DEF ReceiptChanges
  <2> QED BY <1>1, <2>1 DEF Change, TxStates, OpenStates
<1> QED BY <1>3, <1>4, <1>5

\* A dropped transaction leads to failures only.
LEMMA SqueezedOutChangesSound ==
  ASSUME IInv, NEW w \in asking
  PROVE  \A c \in SqueezedOutChanges(w) :
           c \in Change /\ c.tx = w.tx /\ c.state \in {"Failed", "Pending"}
<1>1. w.tx \in TxHashes
  BY DEF IInv, ListenerInv, ListenerTypeOK, Listed
<1> QED BY <1>1 DEF SqueezedOutChanges, Change, TxStates, OpenStates

\* Processing one receipt keeps what a run of the listener relies on.
LEMMA ReceiptStep ==
  ASSUME IInv, NEW w \in worklist, Receipt(w)
  PROVE  ListenerInv'
<1>1. /\ listenerAt = "querying"
      /\ worklist' = worklist \ {w}
      /\ Nonce(w.tx) \notin skipNonces
      /\ Included(w.tx)
      /\ skipNonces' = skipNonces \cup {Nonce(w.tx)}
      /\ noncewide' = noncewide \cup ReceiptChanges(w)
      /\ UNCHANGED <<listenerAt, blockNumber, asking, selective>>
      /\ UNCHANGED <<fragments, row, charged, isFinalized>>
      /\ UNCHANGED <<height, irreversible, mined, mempool, sentTxs, faults>>
  BY DEF Receipt, Take, dbVars, l1Vars
<1>2. w.tx \in OpenTxs /\ w.tx \in Sent
  BY RowsAreSent DEF IInv, ListenerInv, ListedOpen
<1>3. Nonce(w.tx) \in Nat \ {0}
  BY <1>2, SentIsRequest
<1>4. \A c \in ReceiptChanges(w) :
        /\ c \in Change /\ c.tx = w.tx
        /\ c.state = "Finalized" => Settled(w.tx)
        /\ \A d \in ReceiptChanges(w) : c = d
  BY <1>1, ReceiptChangesSound
<1>5. \A t \in InState("Finalized") : Nonce(t) # Nonce(w.tx)
  <2>1. ASSUME NEW t \in InState("Finalized"), Nonce(t) = Nonce(w.tx) PROVE FALSE
    <3>1. Included(t)
      BY DEF IInv, DbInv, FinalizedOnChain, Settled
    <3>2. t = w.tx
      BY <1>1, <2>1, <3>1 DEF Included
    <3> QED BY <1>2, <3>2 DEF OpenTxs, InState
  <2> QED BY <2>1
<1>6. ListenerTypeOK'
  BY <1>1, <1>3, <1>4 DEF IInv, ListenerInv, ListenerTypeOK
<1>7. OpenTxs' = OpenTxs /\ InState("Finalized")' = InState("Finalized")
      /\ \A t : Nonce(t)' = Nonce(t) /\ (Settled(t) => Settled(t)')
  BY <1>1 DEF OpenTxs, InState, Nonce, Settled, Included
<1>8. ListedOpen' /\ HeadNotAhead' /\ SelectiveModest'
  BY <1>1, <1>2, <1>4, <1>7 DEF IInv, ListenerInv, ListedOpen, HeadNotAhead, SelectiveModest
<1>9. DecidedFinal'
  BY <1>1, <1>4, <1>7 DEF IInv, ListenerInv, DecidedFinal
<1>10. DecidedOnce'
  <2>1. \A c \in noncewide : Nonce(c.tx) # Nonce(w.tx)
    BY <1>1 DEF IInv, ListenerInv, DecidedOnce
  <2>2. \A c, d \in noncewide' : Nonce(c.tx) = Nonce(d.tx) => c = d
    BY <1>1, <1>4, <2>1 DEF IInv, ListenerInv, DecidedOnce
  <2> QED BY <1>1, <1>4, <1>5, <1>7, <2>2 DEF IInv, ListenerInv, DecidedOnce
<1> QED BY <1>6, <1>8, <1>9, <1>10 DEF ListenerInv

\* The steps of a run before it writes.
LEMMA ListenerQuietStep ==
  ASSUME IInv, ListenerNext, ~ApplyChanges, UNCHANGED <<fuelHeight, committerVars>>
  PROVE  IInv' /\ UNCHANGED dbVars /\ Persists
<1>1. UNCHANGED dbVars /\ UNCHANGED <<height, irreversible, mined, mempool, sentTxs>>
      /\ (UNCHANGED faults \/ Fault)
  BY DEF ListenerNext, ReadNonFinalizedTxs, ReadBlockNumber, QueryRow, SkipSettledNonce, NoReceipt,
         Receipt, LookUpInMempool, ListenerError, l1Vars
<1>2. Persists
  BY <1>1, FaultPersists
<1>3. DbInv' /\ CommitterInv'
  BY <1>1, <1>2, DbPersists, CommitterPersists DEF dbVars, IInv, CommitterInv, CommitterTypeOK
<1>4. /\ UNCHANGED <<fragments, row, charged, isFinalized>>
      /\ OpenTxs' = OpenTxs /\ InState("Finalized")' = InState("Finalized")
      /\ \A t : Nonce(t)' = Nonce(t) /\ (Settled(t) => Settled(t)')
  BY <1>1 DEF dbVars, OpenTxs, InState, Nonce, Settled, Included
<1>5. ListenerInv'
  <2>1. CASE ReadNonFinalizedTxs
    <3>1. \A t \in OpenTxs : [tx |-> t, state |-> row[t]] \in Listed
      BY DEF OpenTxs, InState, Listed, OpenStates
    <3>2. worklist' \subseteq Listed /\ \A w \in worklist' : w.tx \in OpenTxs
      BY <2>1, <3>1 DEF ReadNonFinalizedTxs
    <3> QED BY <1>4, <2>1, <3>2 DEF ReadNonFinalizedTxs, IInv, ListenerInv, ListenerTypeOK,
               ListedOpen, HeadNotAhead, DecidedFinal, SelectiveModest, DecidedOnce
  <2>2. CASE ReadBlockNumber
    <3>1. blockNumber' = height /\ irreversible' = irreversible
      BY <2>2 DEF ReadBlockNumber, l1Vars
    <3>2. HeadNotAhead' /\ blockNumber' \in 0..MaxHeight
      BY <3>1, Numbers DEF HeadNotAhead, IInv, EthereumInv, IrreversibleLag
    <3> QED BY <1>4, <2>2, <3>2 DEF ReadBlockNumber, IInv, ListenerInv, ListenerTypeOK,
               ListedOpen, DecidedFinal, SelectiveModest, DecidedOnce
  <2>3. ASSUME NEW w \in worklist, SkipSettledNonce(w) \/ NoReceipt(w)
        PROVE  ListenerInv'
    <3>1. /\ worklist' \subseteq worklist /\ asking' \subseteq asking \cup {w}
          /\ UNCHANGED <<listenerAt, blockNumber, skipNonces, selective, noncewide>>
          /\ UNCHANGED irreversible
      BY <2>3, <1>1 DEF SkipSettledNonce, NoReceipt, Take
    <3> QED BY <1>4, <3>1 DEF IInv, ListenerInv, ListenerTypeOK, ListedOpen, HeadNotAhead,
               DecidedFinal, SelectiveModest, DecidedOnce
  <2>4. ASSUME NEW w \in worklist, Receipt(w) PROVE ListenerInv'
    BY <2>4, ReceiptStep
  <2>5. ASSUME NEW w \in asking, LookUpInMempool(w) PROVE ListenerInv'
    <3>1. /\ asking' \subseteq asking
          /\ selective' = selective \cup SqueezedOutChanges(w)
          /\ UNCHANGED <<listenerAt, worklist, blockNumber, skipNonces, noncewide>>
          /\ UNCHANGED irreversible
      BY <2>5, <1>1 DEF LookUpInMempool
    <3>2. w.tx \in OpenTxs
      BY DEF IInv, ListenerInv, ListedOpen
    <3>3. \A c \in SqueezedOutChanges(w) :
            c \in Change /\ c.tx \in OpenTxs /\ c.state \in {"Failed", "Pending"}
      BY <3>2, SqueezedOutChangesSound
    <3> QED BY <1>4, <3>1, <3>3 DEF IInv, ListenerInv, ListenerTypeOK, ListedOpen, HeadNotAhead,
               DecidedFinal, SelectiveModest, DecidedOnce
  <2>6. CASE ListenerError
    BY <2>6, <1>2, ListenerResets DEF ListenerError
  <2> QED BY <2>1, <2>2, <2>3, <2>4, <2>5, <2>6 DEF ListenerNext, QueryRow
<1> QED BY <1>1, <1>2, <1>3, <1>5 DEF IInv, Persists

\* What the write does to one row: the change decided for its nonce, or a selective
\* change that settles nothing, or nothing.
LEMMA UpdatedRowCases ==
  ASSUME IInv, NEW sel \in SUBSET selective, NEW t \in TxHashes
  PROVE  LET new == UpdatedRow(sel, noncewide)[t]
         IN  \/ \E c \in noncewide : c.tx = t /\ new = c.state
             \/ /\ \A c \in noncewide : c.tx # t
                /\ \E c \in noncewide : Nonce(c.tx) = Nonce(t)
                /\ new = IF row[t] = "absent" THEN "absent" ELSE "Failed"
             \/ /\ \A c \in noncewide : c.tx # t /\ Nonce(c.tx) # Nonce(t)
                /\ t \in OpenTxs /\ new \in {"Failed", "Pending"}
             \/ /\ \A c \in noncewide : c.tx # t /\ Nonce(c.tx) # Nonce(t)
                /\ new = row[t]
<1> DEFINE new == UpdatedRow(sel, noncewide)[t]
<1>1. CASE \E c \in noncewide : c.tx = t
  <2>1. new = (CHOOSE c \in noncewide : c.tx = t).state
    BY <1>1 DEF UpdatedRow
  <2>2. (CHOOSE c \in noncewide : c.tx = t) \in noncewide /\ (CHOOSE c \in noncewide : c.tx = t).tx = t
    BY <1>1
  <2> QED BY <2>1, <2>2
<1>2. ASSUME \A c \in noncewide : c.tx # t, NEW c \in sel, c.tx = t
      PROVE  /\ t \in OpenTxs /\ row[t] # "absent"
             /\ (CHOOSE d \in sel : d.tx = t).state \in {"Failed", "Pending"}
  <2>1. t \in OpenTxs
    BY <1>2 DEF IInv, ListenerInv, ListedOpen
  <2>2. (CHOOSE d \in sel : d.tx = t) \in sel
    BY <1>2
  <2> QED BY <2>1, <2>2 DEF IInv, ListenerInv, SelectiveModest, OpenTxs, InState
<1>3. CASE (\A c \in noncewide : c.tx # t) /\ \E c \in noncewide : Nonce(c.tx) = Nonce(t)
  <2>1. CASE row[t] # "absent"
    BY <1>3, <2>1 DEF UpdatedRow
  <2>2. CASE row[t] = "absent"
    <3>1. \A c \in sel : c.tx # t
      BY <1>2, <1>3, <2>2
    <3> QED BY <1>3, <2>2, <3>1 DEF UpdatedRow
  <2> QED BY <2>1, <2>2
<1>4. CASE \A c \in noncewide : c.tx # t /\ Nonce(c.tx) # Nonce(t)
  <2>1. CASE \E c \in sel : c.tx = t
    <3>1. new = (CHOOSE c \in sel : c.tx = t).state
      BY <1>4, <2>1 DEF UpdatedRow
    <3> QED BY <1>2, <1>4, <2>1, <3>1
  <2>2. CASE \A c \in sel : c.tx # t
    BY <1>4, <2>2 DEF UpdatedRow
  <2> QED BY <2>1, <2>2
<1> QED BY <1>1, <1>3, <1>4

\* The write of a run keeps what the tables promise, reopens nothing, and finalizes
\* what the receipts say.
LEMMA ApplyChangesStep ==
  ASSUME IInv, ApplyChanges, UNCHANGED <<fuelHeight, committerVars>>
  PROVE  /\ IInv' /\ Persists
         /\ \A t \in TxHashes : row[t] \in {"Finalized", "Failed"} => row'[t] = row[t]
         /\ OpenTxs' \subseteq OpenTxs
         /\ FinalizedIn(noncewide) \subseteq OpenTxs
         /\ \A t \in TxHashes : row'[t] = "Finalized" <=>
              row[t] = "Finalized" \/ t \in FinalizedIn(noncewide)
<1> DEFINE sel == {c \in selective : Nonce(c.tx) \notin skipNonces}
<1>1. /\ row' = UpdatedRow(sel, noncewide)
      /\ charged' = Charge(FinalizedIn(noncewide))
      /\ isFinalized' = [b \in Bundles |->
           IF b \in BundlesOf(FinalizedIn(noncewide))
           THEN BundleComplete(b, UpdatedRow(sel, noncewide)) ELSE isFinalized[b]]
      /\ ListenerReset
      /\ UNCHANGED fragments /\ UNCHANGED l1Vars
  BY DEF ApplyChanges, UpdateTxStatesAndCosts, UpdateCosts
<1>2. Persists
  BY <1>1, FaultPersists DEF l1Vars
<1>3. \A t \in TxHashes :
        \/ \E c \in noncewide : c.tx = t /\ row'[t] = c.state
        \/ /\ \A c \in noncewide : c.tx # t
           /\ \E c \in noncewide : Nonce(c.tx) = Nonce(t)
           /\ row'[t] = IF row[t] = "absent" THEN "absent" ELSE "Failed"
        \/ /\ \A c \in noncewide : c.tx # t /\ Nonce(c.tx) # Nonce(t)
           /\ t \in OpenTxs /\ row'[t] \in {"Failed", "Pending"}
        \/ /\ \A c \in noncewide : c.tx # t /\ Nonce(c.tx) # Nonce(t)
           /\ row'[t] = row[t]
  <2>1. sel \in SUBSET selective
    OBVIOUS
  <2> HIDE DEF sel
  <2> QED BY <1>1, <2>1, UpdatedRowCases
<1>4. /\ \A c \in noncewide : c.tx \in OpenTxs /\ c \in Change
      /\ \A c, d \in noncewide : Nonce(c.tx) = Nonce(d.tx) => c = d
      /\ \A c \in noncewide : \A t \in InState("Finalized") : Nonce(t) # Nonce(c.tx)
      /\ \A c \in noncewide : c.state = "Finalized" => Settled(c.tx)
      /\ row \in [TxHashes -> TxStates \cup {"absent"}]
  BY DEF IInv, ListenerInv, ListenerTypeOK, ListedOpen, DecidedOnce, DecidedFinal, DbInv, StorageTypeOK
<1>5. \A t \in TxHashes : row[t] \in {"Finalized", "Failed"} => row'[t] = row[t]
  <2>1. ASSUME NEW t \in TxHashes, row[t] \in {"Finalized", "Failed"} PROVE row'[t] = row[t]
    <3>1. \A c \in noncewide : c.tx # t
      BY <1>4, <2>1 DEF OpenTxs, InState
    <3>2. t \notin OpenTxs
      BY <2>1 DEF OpenTxs, InState
    <3>3. CASE row[t] = "Finalized"
      <4>1. \A c \in noncewide : Nonce(c.tx) # Nonce(t)
        BY <1>4, <3>3 DEF InState
      <4> QED BY <1>3, <3>1, <3>2, <4>1
    <3>4. CASE row[t] = "Failed"
      BY <1>3, <3>1, <3>2, <3>4
    <3> QED BY <2>1, <3>3, <3>4
  <2> QED BY <2>1
<1>6. \A t \in TxHashes : row'[t] = "absent" <=> row[t] = "absent"
  <2>1. \A c \in noncewide : c.state # "absent" /\ row[c.tx] # "absent"
    BY <1>4 DEF Change, TxStates, OpenStates, OpenTxs, InState
  <2>2. \A t \in OpenTxs : row[t] # "absent"
    BY DEF OpenTxs, InState
  <2> QED BY <1>3, <2>1, <2>2
<1>7. \A t : Nonce(t)' = Nonce(t) /\ (Settled(t) => Settled(t)')
  BY <1>1 DEF l1Vars, Nonce, Settled, Included
\* Who is finalized by this write, and who was before.
<1>8. \A t \in TxHashes : row'[t] = "Finalized" <=>
        row[t] = "Finalized" \/ t \in FinalizedIn(noncewide)
  <2>1. ASSUME NEW t \in TxHashes, t \in FinalizedIn(noncewide) PROVE row'[t] = "Finalized"
    <3>1. PICK c \in noncewide : c.tx = t /\ c.state = "Finalized"
      BY <2>1 DEF FinalizedIn
    <3>2. \A d \in noncewide : d.tx = t => d = c
      BY <1>4, <3>1
    <3> QED BY <1>3, <3>1, <3>2
  <2>2. ASSUME NEW t \in TxHashes, row'[t] = "Finalized", row[t] # "Finalized"
        PROVE  t \in FinalizedIn(noncewide)
    BY <1>3, <2>2 DEF FinalizedIn
  <2> QED BY <1>5, <2>1, <2>2
<1>9. StorageTypeOK'
  <2>1. row' \in [TxHashes -> TxStates \cup {"absent"}]
    <3>1. \A t \in TxHashes : row'[t] \in TxStates \cup {"absent"}
      BY <1>3, <1>4 DEF Change, TxStates, OpenStates
    <3>2. row' = [t \in TxHashes |-> row'[t]]
      BY <1>1 DEF UpdatedRow
    <3> QED BY <3>1, <3>2
  <2>2. charged' \in [TxHashes -> Nat]
    BY <1>1 DEF Charge, IInv, DbInv, StorageTypeOK
  <2>3. isFinalized' \in [Bundles -> BOOLEAN]
    BY <1>1 DEF BundleComplete, IInv, DbInv, StorageTypeOK
  <2> QED BY <1>1, <2>1, <2>2, <2>3 DEF IInv, DbInv, StorageTypeOK
<1>10. RowsSent'
  BY <1>1, <1>6 DEF l1Vars, Sent, IInv, DbInv, RowsSent
<1>11. FinalizedOnChain'
  <2>1. ASSUME NEW t \in InState("Finalized")' PROVE Settled(t)'
    <3>1. t \in TxHashes /\ row'[t] = "Finalized"
      BY <2>1 DEF InState
    <3>2. Settled(t)
      BY <1>4, <1>8, <3>1 DEF FinalizedIn, IInv, DbInv, FinalizedOnChain, InState
    <3> QED BY <1>7, <3>2
  <2> QED BY <2>1 DEF FinalizedOnChain
<1>12. OneOutcomePerNonce'
  <2> DEFINE Out(t) == row[t] \in {"IncludedInBlock", "Finalized"}
  <2>1. SUFFICES ASSUME NEW t \in TxHashes, NEW u \in TxHashes, Out(t)', Out(u)',
                        Nonce(t) = Nonce(u)
                 PROVE  t = u
    BY <1>7 DEF OneOutcomePerNonce, InState
  <2>2. CASE \E c \in noncewide : Nonce(c.tx) = Nonce(t)
    <3>1. (\E c \in noncewide : c.tx = t) /\ (\E c \in noncewide : c.tx = u)
      BY <1>3, <2>1, <2>2
    <3> QED BY <1>4, <2>1, <3>1
  <2>3. CASE \A c \in noncewide : Nonce(c.tx) # Nonce(t)
    <3>1. row'[t] = row[t] /\ row'[u] = row[u]
      BY <1>3, <2>1, <2>3
    <3> QED BY <2>1, <3>1 DEF IInv, DbInv, OneOutcomePerNonce, InState
  <2> QED BY <2>2, <2>3
<1>13. ChargedOnFinality'
  <2>1. ASSUME NEW t \in TxHashes PROVE charged'[t] = IF row'[t] = "Finalized" THEN 1 ELSE 0
    <3>1. charged'[t] = IF t \in FinalizedIn(noncewide) THEN charged[t] + 1 ELSE charged[t]
      BY <1>1 DEF Charge
    <3>2. t \in FinalizedIn(noncewide) => row[t] # "Finalized"
      BY <1>4 DEF FinalizedIn, OpenTxs, InState
    <3>3. charged[t] = IF row[t] = "Finalized" THEN 1 ELSE 0
      BY DEF IInv, DbInv, ChargedOnFinality
    <3> QED BY <1>8, <3>1, <3>2, <3>3
  <2> QED BY <2>1 DEF ChargedOnFinality
<1>14. CommitterInv'
  <2>1. UNCHANGED <<fuelHeight, committerAt, previousTx, toSubmit, submittedTx, sentTxs>> /\ Sent' = Sent
    BY <1>1 DEF committerVars, l1Vars, Sent
  <2>2. RecordingFresh'
    <3>1. Sent \subseteq TxHashes
      BY Numbers DEF Sent, TxHashes
    <3> QED BY <1>6, <2>1, <3>1 DEF IInv, CommitterInv, RecordingFresh
  <2> QED BY <2>1, <2>2 DEF IInv, CommitterInv, CommitterTypeOK
<1>15. FinalizedIn(noncewide) \subseteq OpenTxs
  BY <1>4 DEF FinalizedIn
<1>16. OpenTxs' \subseteq OpenTxs
  <2>1. ASSUME NEW t \in TxHashes, row'[t] \in {"Pending", "IncludedInBlock"}
        PROVE  t \in OpenTxs
    <3>1. CASE row[t] \in {"Pending", "IncludedInBlock"}
      BY <3>1 DEF OpenTxs, InState
    <3>2. CASE row[t] \notin {"Pending", "IncludedInBlock"}
      BY <1>3, <1>4, <2>1, <3>2
    <3> QED BY <3>1, <3>2
  <2> QED BY <2>1 DEF OpenTxs, InState
<1> QED BY <1>1, <1>2, <1>5, <1>8, <1>9, <1>10, <1>11, <1>12, <1>13, <1>14, <1>15, <1>16,
           ListenerResets
        DEF IInv, DbInv, Persists

-----------------------------------------------------------------------------
(* The theorems.                                                           *)

\* The empty tables and the empty memory satisfy the invariant.
LEMMA InitIInv == Init => IInv
<1>1. SUFFICES ASSUME Init PROVE IInv
  OBVIOUS
<1>2. EthereumInv
  BY <1>1, EthereumInitInv, EthereumAssumption DEF Init
<1>3. \A s \in TxStates : InState(s) = {}
  BY <1>1 DEF Init, StorageInit, InState, TxStates, OpenStates
<1>4. DbInv
  BY <1>1, <1>3 DEF Init, StorageInit, DbInv, StorageTypeOK, RowsSent, FinalizedOnChain,
                    OneOutcomePerNonce, ChargedOnFinality, TxStates, OpenStates
<1>5. CommitterInv
  <2>1. Len(sentTxs) \in Nat
    BY <1>2, LenProperties DEF EthereumInv, EthereumTypeOK
  <2> QED BY <1>1, <2>1, CommitterAssumption
          DEF Init, CommitterInit, CommitterInv, CommitterTypeOK, RecordingFresh
<1>6. ListenerInv
  BY <1>1, EthereumAssumption
     DEF Init, ListenerInit, ListenerInv, ListenerTypeOK, ListedOpen, HeadNotAhead, DecidedFinal,
         SelectiveModest, DecidedOnce
<1> QED BY <1>2, <1>4, <1>5, <1>6 DEF IInv

\* Every step preserves the invariant, only adds to what is sent and settled, and
\* leaves settled rows alone.
LEMMA NextStep ==
  ASSUME IInv, [Next]_vars
  PROVE  IInv' /\ Persists /\ \A t \in TxHashes : row[t] \in {"Finalized", "Failed"} => row'[t] = row[t]
<1>1. fuelHeight \in 0..MaxFuelHeight
  BY DEF IInv, CommitterInv, CommitterTypeOK
<1>2. CASE CommitterNext /\ UNCHANGED listenerVars
  BY <1>2, CommitterQuietStep, RecordPendingStep DEF dbVars
<1>3. CASE ListenerNext /\ UNCHANGED <<fuelHeight, committerVars>>
  BY <1>3, ListenerQuietStep, ApplyChangesStep DEF dbVars
<1>4. CASE ChainNext /\ UNCHANGED OffChain
  <2>1. Persists /\ UNCHANGED <<dbVars, fuelHeight, committerVars, listenerVars>>
    BY <1>4, ChainPersists DEF OffChain
  <2> QED BY <1>1, <2>1, DbPersists, ListenerPersists, CommitterPersists DEF IInv, Persists, dbVars
<1>5. CASE NewFuelBlock
  <2>1. /\ Persists /\ UNCHANGED <<dbVars, committerVars, listenerVars>>
        /\ fuelHeight' \in 0..MaxFuelHeight
    BY <1>1, <1>5, FaultPersists, CommitterAssumption DEF NewFuelBlock, l1Vars
  <2> QED BY <2>1, DbPersists, ListenerPersists, CommitterPersists DEF IInv, Persists, dbVars
<1>6. CASE StoreBundle
  <2>1. /\ Persists /\ UNCHANGED <<row, charged, isFinalized, fuelHeight, committerVars, listenerVars>>
        /\ UNCHANGED l1Vars
        /\ \E b \in Bundles : fragments' = fragments \cup {f \in Fragments : EndHeight[f] = b}
    BY <1>6, FaultPersists DEF StoreBundle, InsertBundleAndFragments, l1Vars
  <2>2. DbInv'
    BY <2>1 DEF l1Vars, IInv, DbInv, StorageTypeOK, RowsSent, FinalizedOnChain, OneOutcomePerNonce,
                ChargedOnFinality, InState, Settled, Included, Nonce, Sent
  <2>3. CommitterInv'
    BY <1>1, <2>1, CommitterPersists
  <2>4. ListenerInv'
    BY <2>1 DEF l1Vars, listenerVars, IInv, ListenerInv, ListenerTypeOK, ListedOpen, HeadNotAhead,
                DecidedFinal, SelectiveModest, DecidedOnce, OpenTxs, InState, Settled, Included, Nonce
  <2> QED BY <2>1, <2>2, <2>3, <2>4 DEF IInv, Persists
<1>7. CASE Crash
  <2>1. /\ Persists /\ UNCHANGED <<dbVars, fuelHeight>>
        /\ CommitterReset /\ ListenerReset
    BY <1>7, FaultPersists DEF Crash
  <2> QED BY <1>1, <2>1, DbPersists, ListenerResets, CommitterResets DEF IInv, Persists, dbVars
<1>8. CASE UNCHANGED vars
  <2>1. Persists /\ UNCHANGED <<dbVars, fuelHeight, committerVars, listenerVars>>
    BY <1>8, FaultPersists DEF vars, l1Vars
  <2> QED BY <1>1, <2>1, DbPersists, ListenerPersists, CommitterPersists DEF IInv, Persists, dbVars
<1> QED BY <1>2, <1>3, <1>4, <1>5, <1>6, <1>7, <1>8 DEF Next

\* The inductive invariant: what each task relies on holds in every state, whatever
\* the other task, the chain and crashes do between two of its steps.
THEOREM Invariance == Spec => []IInv
<1>1. Init => IInv
  BY InitIInv
<1>2. IInv /\ [Next]_vars => IInv'
  BY NextStep
<1> QED BY <1>1, <1>2, PTL DEF Spec

\* The types of the tables, of the chain and of both runs' memory.
THEOREM TypeCorrectness == Spec => []TypeOK
<1>1. IInv => TypeOK
  BY DEF IInv, EthereumInv, DbInv, CommitterInv, ListenerInv, TypeOK
<1> QED BY <1>1, Invariance, PTL

\* A row is finalized only for a successful transaction in an irreversible block.
THEOREM FinalizedIsOnChain == Spec => []FinalizedOnChain
<1>1. IInv => FinalizedOnChain
  BY DEF IInv, DbInv
<1> QED BY <1>1, Invariance, PTL

\* Of the transactions competing for a nonce at most one is in a block or finalized.
THEOREM NonceHasOneOutcome == Spec => []OneOutcomePerNonce
<1>1. IInv => OneOutcomePerNonce
  BY DEF IInv, DbInv
<1> QED BY <1>1, Invariance, PTL

\* The fee of a transaction is charged when it is finalized, once.
THEOREM FeesChargedOnce == Spec => []ChargedOnFinality
<1>1. IInv => ChargedOnFinality
  BY DEF IInv, DbInv
<1> QED BY <1>1, Invariance, PTL

\* No step changes a row that is finalized or failed.
THEOREM SettledRowsStay == Spec => SettledForever
<1>1. IInv /\ [Next]_vars =>
        [\A t \in TxHashes : row[t] \in {"Finalized", "Failed"} => row'[t] = row[t]]_vars
  BY NextStep
<1> QED BY <1>1, Invariance, PTL DEF Spec, SettledForever

-----------------------------------------------------------------------------
(* Which fragments the rows carry: one batch is under way at a time,       *)
(* nothing finalized or under way is sent afresh, no fragment is finalized *)
(* twice, and the finality of bundles is on record.  Only the three steps  *)
(* of the committer that choose, send and record a batch need an argument: *)
(* no other step opens a row.                                              *)

-----------------------------------------------------------------------------
(* Batches fit.                                                            *)

\* What is cut to the size of a transaction has that size.
LEMMA OldestFits ==
  ASSUME NEW S \in SUBSET Fragments
  PROVE  OldestOf(OldestOf(S)) = OldestOf(S)
<1>1. SUFFICES ASSUME NEW f \in OldestOf(S)
               PROVE  Cardinality({g \in OldestOf(S) : g < f}) < MaxBlobsPerTx
  BY DEF OldestOf
<1>2. IsFiniteSet({g \in S : g < f})
  <2>1. IsFiniteSet(Fragments)
    BY FS_Interval, StorageAssumption DEF Fragments
  <2> QED BY <2>1, FS_Subset
<1>3. {g \in OldestOf(S) : g < f} \subseteq {g \in S : g < f}
  BY DEF OldestOf
<1>4. /\ Cardinality({g \in S : g < f}) \in Nat
      /\ Cardinality({g \in OldestOf(S) : g < f}) \in Nat
      /\ Cardinality({g \in OldestOf(S) : g < f}) <= Cardinality({g \in S : g < f})
  BY <1>2, <1>3, FS_Subset, FS_CardinalityType
<1>5. Cardinality({g \in S : g < f}) < MaxBlobsPerTx
  BY <1>1 DEF OldestOf
<1> QED BY <1>4, <1>5, StorageAssumption

-----------------------------------------------------------------------------
(* Steps that open no row.                                                 *)

\* What the other steps may do to the tables.
OpensNothing ==
  /\ Sent \subseteq Sent' /\ \A t \in Sent : sentTxs'[t] = sentTxs[t]
  /\ OpenTxs' \subseteq OpenTxs
  /\ LiveTxs' \subseteq LiveTxs
  /\ fragments \subseteq fragments'

\* Live rows are rows of sent transactions.
LEMMA LiveAreSent ==
  ASSUME IInv
  PROVE  OpenTxs \subseteq LiveTxs /\ LiveTxs \subseteq Sent
  BY RowsAreSent DEF LiveTxs, TxStates

\* A sent transaction does not change.
LEMMA SentStays ==
  ASSUME OpensNothing, NEW t \in Sent
  PROVE  FragmentsOf(t)' = FragmentsOf(t) /\ Nonce(t)' = Nonce(t)
  BY DEF OpensNothing, FragmentsOf, Nonce

\* No two open rows differ, and no two live ones share a fragment, that did not before.
LEMMA TablesKeepBatches ==
  ASSUME IInv, TableBatches, OpensNothing
  PROVE  TableBatches'
<1>1. OneOpenSubmission'
  BY LiveAreSent, SentStays DEF TableBatches, OneOpenSubmission, OpensNothing
<1>2. OneNoncePerFragment'
  BY LiveAreSent, SentStays DEF TableBatches, OneNoncePerFragment, OpensNothing
<1> QED BY <1>1, <1>2 DEF TableBatches

\* The batch the committer is busy with stays sound through such steps.
LEMMA BatchStays ==
  ASSUME IInv, CommitterBatch, OpensNothing, UNCHANGED <<previousTx, toSubmit>>, Busy' = Busy
  PROVE  BatchFits' /\ FreshBatch' /\ ReplacementBatch'
<1>1. BatchFits'
  BY DEF CommitterBatch, BatchFits, OpensNothing, OldestOf
<1>2. FreshBatch'
  BY LiveAreSent, SentStays DEF CommitterBatch, FreshBatch, OpensNothing
<1>3. ReplacementBatch'
  <2>1. SUFFICES ASSUME Busy, previousTx # 0 PROVE ReplacementBatch'
    BY DEF ReplacementBatch
  <2>2. /\ previousTx \in Sent
        /\ \A t \in OpenTxs : Nonce(t) = Nonce(previousTx) /\ FragmentsOf(t) = toSubmit
        /\ \A t \in LiveTxs : toSubmit \cap FragmentsOf(t) # {} => Nonce(t) = Nonce(previousTx)
    BY <2>1 DEF CommitterBatch, ReplacementBatch
  <2>3. previousTx' = previousTx /\ toSubmit' = toSubmit /\ Nonce(previousTx)' = Nonce(previousTx)
    BY <2>2, SentStays
  <2>4. previousTx' \in Sent'
    BY <2>2 DEF OpensNothing
  <2>5. \A t \in OpenTxs' : Nonce(t)' = Nonce(previousTx)' /\ FragmentsOf(t)' = toSubmit'
    BY <2>2, <2>3, LiveAreSent, SentStays DEF OpensNothing
  <2>6. \A t \in LiveTxs' :
          toSubmit' \cap FragmentsOf(t)' # {} => Nonce(t)' = Nonce(previousTx)'
    BY <2>2, <2>3, LiveAreSent, SentStays DEF OpensNothing
  <2> QED BY <2>4, <2>5, <2>6 DEF ReplacementBatch
<1> QED BY <1>1, <1>2, <1>3

\* The committer's view of the tables outlives steps of the others.
LEMMA CommitterKeepsBatch ==
  ASSUME IInv, CommitterBatch, OpensNothing, UNCHANGED committerVars
  PROVE  CommitterBatch'
<1>1. UNCHANGED <<committerAt, previousTx, toSubmit, submittedTx>> /\ Busy' = Busy
  BY DEF committerVars, Busy
<1>2. NoPrevious' /\ ReadyAlone'
  BY <1>1 DEF CommitterBatch, NoPrevious, ReadyAlone, OpensNothing
<1>3. BatchFits' /\ FreshBatch' /\ ReplacementBatch'
  BY <1>1, BatchStays
<1>4. RecordedBatch'
  <2>1. SUFFICES ASSUME committerAt = "recording" PROVE RecordedBatch'
    BY <1>1 DEF RecordedBatch
  <2>2. submittedTx \in Sent
    BY <2>1 DEF IInv, CommitterInv, RecordingFresh
  <2>3. previousTx # 0 => previousTx \in Sent
    BY <2>1 DEF CommitterBatch, ReplacementBatch, Busy
  <2>4. /\ FragmentsOf(submittedTx) = toSubmit
        /\ previousTx # 0 => Nonce(submittedTx) = Nonce(previousTx)
    BY <2>1 DEF CommitterBatch, RecordedBatch
  <2>5. /\ FragmentsOf(submittedTx)' = FragmentsOf(submittedTx)
        /\ Nonce(submittedTx)' = Nonce(submittedTx)
    BY <1>1, <2>2, SentStays DEF FragmentsOf, Nonce
  <2>6. previousTx # 0 => Nonce(previousTx)' = Nonce(previousTx)
    BY <1>1, <2>3, SentStays DEF Nonce
  <2> QED BY <1>1, <2>4, <2>5, <2>6 DEF RecordedBatch
<1> QED BY <1>2, <1>3, <1>4 DEF CommitterBatch

\* An idle committer has no batch.
LEMMA IdleHasNoBatch ==
  ASSUME CommitterReset
  PROVE  CommitterBatch'
  BY DEF CommitterReset, CommitterBatch, NoPrevious, ReadyAlone, BatchFits, FreshBatch,
         ReplacementBatch, RecordedBatch, Busy

\* A step that changes neither what is sent nor the tables keeps the batches.
LEMMA QuietKeepsBatches ==
  ASSUME IInv, BatchInv, UNCHANGED <<sentTxs, dbVars>>, CommitterBatch'
  PROVE  BatchInv'
<1>1. UNCHANGED <<sentTxs, fragments, row, charged, isFinalized>> /\ Sent' = Sent
  BY DEF dbVars, Sent
<1>2. \A t : FragmentsOf(t)' = FragmentsOf(t) /\ Nonce(t)' = Nonce(t)
  BY <1>1 DEF FragmentsOf, Nonce
<1>3. /\ \A s : InState(s)' = InState(s)
      /\ OpenTxs' = OpenTxs /\ LiveTxs' = LiveTxs
  BY <1>1 DEF InState, OpenTxs, LiveTxs
<1>4. PayloadsFit'
  BY <1>1, <1>2 DEF BatchInv, PayloadsFit, OldestOf
<1>5. TableBatches'
  BY <1>2, <1>3 DEF BatchInv, TableBatches, OneOpenSubmission, OneNoncePerFragment
<1>6. UnstoredBundles'
  BY <1>1 DEF BatchInv, UnstoredBundles
<1>7. BundlesFinalized'
  BY <1>1, <1>2 DEF BatchInv, BundlesFinalized, BundleComplete
<1> QED BY <1>4, <1>5, <1>6, <1>7 DEF BatchInv

\* Such a step opens no row.
LEMMA QuietOpensNothing ==
  ASSUME UNCHANGED <<sentTxs, dbVars>>
  PROVE  OpensNothing
  BY DEF OpensNothing, dbVars, Sent, OpenTxs, LiveTxs, InState

\* The committer goes on as it was, or starts anew.
LEMMA QuietStep ==
  ASSUME IInv, BatchInv, UNCHANGED <<sentTxs, dbVars>>, UNCHANGED committerVars \/ CommitterReset
  PROVE  BatchInv'
<1>1. CommitterBatch'
  BY QuietOpensNothing, CommitterKeepsBatch, IdleHasNoBatch DEF BatchInv
<1> QED BY <1>1, QuietKeepsBatches

-----------------------------------------------------------------------------
(* The committer's steps.                                                  *)

\* The committer goes for a fresh submission only when no row is open.
LEMMA CheckNonfinalizedBatch ==
  ASSUME IInv, BatchInv, CheckNonfinalized
  PROVE  BatchInv'
<1>1. UNCHANGED <<sentTxs, dbVars>> /\ OpenTxs' = OpenTxs /\ previousTx' = previousTx
  BY DEF CheckNonfinalized, l1Vars, dbVars, OpenTxs, InState
<1>2. /\ previousTx = 0 /\ ~Busy'
      /\ committerAt' = "ready" => OpenTxs = {}
  BY DEF CheckNonfinalized, BatchInv, CommitterBatch, NoPrevious, Busy, HasNonfinalizedTxs
<1>3. CommitterBatch'
  BY <1>1, <1>2 DEF CommitterBatch, NoPrevious, ReadyAlone, BatchFits, FreshBatch,
                    ReplacementBatch, RecordedBatch, Busy
<1> QED BY <1>1, <1>3, QuietKeepsBatches

\* All open rows carry what the replaced transaction carries.
LEMMA ReplaceStalledBatch ==
  ASSUME IInv, BatchInv, ReplaceStalled
  PROVE  BatchInv'
<1>1. UNCHANGED <<sentTxs, dbVars>> /\ Sent' = Sent
  BY DEF ReplaceStalled, l1Vars, Sent
<1>2. OpenTxs' = OpenTxs /\ LiveTxs' = LiveTxs
  BY <1>1 DEF dbVars, OpenTxs, LiveTxs, InState
<1>3. \A t : FragmentsOf(t)' = FragmentsOf(t) /\ Nonce(t)' = Nonce(t)
  BY <1>1 DEF FragmentsOf, Nonce, Sent
<1> DEFINE p == LatestPending
<1>4. p \in OpenTxs /\ p \in LiveTxs /\ p \in Sent /\ p # 0
  <2>1. \E t \in InState("Pending") : \A u \in InState("Pending") : u <= t
    <3>1. InState("Pending") \in SUBSET (1..MaxTxs) /\ MaxTxs \in Nat
      BY EthereumAssumption DEF InState, TxHashes
    <3> QED BY <3>1, GreatestElement DEF ReplaceStalled
  <2>2. p \in InState("Pending")
    BY <2>1 DEF LatestPending
  <2> QED BY <2>2, LiveAreSent DEF OpenTxs, Sent
<1>5. /\ committerAt' = "sending" /\ previousTx' = p
      /\ toSubmit' = FragmentsOf(p)
      /\ FragmentsOf(p) \subseteq fragments /\ OldestOf(FragmentsOf(p)) = FragmentsOf(p)
  BY <1>4 DEF ReplaceStalled, BatchInv, PayloadsFit
<1>6. NoPrevious' /\ ReadyAlone' /\ RecordedBatch' /\ FreshBatch'
  BY <1>4, <1>5 DEF NoPrevious, ReadyAlone, RecordedBatch, FreshBatch, Busy
<1>7. BatchFits'
  BY <1>1, <1>5 DEF BatchFits, OldestOf, dbVars
<1>8. ReplacementBatch'
  <2>1. \A t \in OpenTxs : Nonce(t) = Nonce(p) /\ FragmentsOf(t) = FragmentsOf(p)
    BY <1>4 DEF BatchInv, TableBatches, OneOpenSubmission
  <2>2. \A t \in LiveTxs : FragmentsOf(p) \cap FragmentsOf(t) # {} => Nonce(t) = Nonce(p)
    BY <1>4 DEF BatchInv, TableBatches, OneNoncePerFragment
  <2>3. Nonce(previousTx)' = Nonce(p)
    BY <1>3, <1>5 DEF Nonce
  <2> HIDE DEF p
  <2> QED BY <1>1, <1>2, <1>3, <1>4, <1>5, <2>1, <2>2, <2>3 DEF ReplacementBatch
<1>9. CommitterBatch'
  BY <1>6, <1>7, <1>8 DEF CommitterBatch
<1> QED BY <1>1, <1>9, QuietKeepsBatches

\* The query skips what live transactions carry.
LEMMA SubmitReadyBatch ==
  ASSUME IInv, BatchInv, SubmitReady
  PROVE  BatchInv'
<1>1. UNCHANGED <<sentTxs, dbVars>> /\ OpenTxs' = OpenTxs /\ LiveTxs' = LiveTxs
  BY DEF SubmitReady, l1Vars, dbVars, OpenTxs, LiveTxs, InState
<1>2. \A t : FragmentsOf(t)' = FragmentsOf(t)
  BY <1>1 DEF FragmentsOf, Sent
<1> DEFINE free == NonfinalizedFragments(StartingHeight)
<1>3. /\ committerAt = "ready" /\ committerAt' = "sending"
      /\ previousTx' = previousTx /\ previousTx = 0
      /\ toSubmit' = OldestOf(free)
      /\ OpenTxs = {}
  BY DEF SubmitReady, BatchInv, CommitterBatch, NoPrevious, ReadyAlone, Busy
<1>4. /\ free \subseteq fragments /\ fragments \subseteq Fragments
      /\ \A t \in LiveTxs : free \cap FragmentsOf(t) = {}
  BY DEF NonfinalizedFragments, IInv, DbInv, StorageTypeOK
<1> HIDE DEF free
<1>5. OldestOf(free) \subseteq free /\ OldestOf(OldestOf(free)) = OldestOf(free)
  BY <1>4, OldestFits DEF OldestOf
<1>6. NoPrevious' /\ ReadyAlone' /\ RecordedBatch' /\ ReplacementBatch'
  BY <1>3 DEF NoPrevious, ReadyAlone, RecordedBatch, ReplacementBatch, Busy
<1>7. BatchFits'
  BY <1>1, <1>3, <1>4, <1>5 DEF BatchFits, OldestOf, dbVars
<1>8. FreshBatch'
  BY <1>1, <1>2, <1>3, <1>4, <1>5 DEF FreshBatch
<1>9. CommitterBatch'
  BY <1>6, <1>7, <1>8 DEF CommitterBatch
<1> QED BY <1>1, <1>9, QuietKeepsBatches

\* The transaction that is sent carries the batch, with the nonce it replaces.
LEMMA SendAdds ==
  ASSUME IInv, SubmitStateFragments(toSubmit, previousTx), UNCHANGED faults \/ Fault
  PROVE  /\ Sent' = Sent \cup {Len(sentTxs) + 1}
         /\ \A t \in Sent : sentTxs'[t] = sentTxs[t]
         /\ sentTxs'[Len(sentTxs) + 1].payload = toSubmit
         /\ previousTx # 0 => sentTxs'[Len(sentTxs) + 1].nonce = Nonce(previousTx)
<1>1. PICK fee \in 0..(MaxFee + 1) :
        /\ Sendable(toSubmit, previousTx, fee)
        /\ Broadcast(BlobTx(toSubmit, previousTx, fee))
  BY DEF SubmitStateFragments
<1> DEFINE tx == BlobTx(toSubmit, previousTx, fee)
<1>2. tx \in TxRequest /\ tx.payload = toSubmit /\ (previousTx # 0 => tx.nonce = Nonce(previousTx))
  BY <1>1, BlobTxIsRequest DEF BlobTx
<1> HIDE DEF tx
<1> QED BY <1>1, <1>2, BroadcastStep, EthereumAssumption DEF IInv, tx

\* What is sent has no row yet, so the tables' batches are what they were.
LEMMA SendKeepsBatches ==
  ASSUME IInv, BatchInv, committerAt = "sending", UNCHANGED dbVars,
         SubmitStateFragments(toSubmit, previousTx), UNCHANGED faults \/ Fault
  PROVE  /\ OpensNothing
         /\ PayloadsFit' /\ TableBatches' /\ UnstoredBundles' /\ BundlesFinalized'
<1>1. PICK n :
        /\ Sent' = Sent \cup {n}
        /\ \A t \in Sent : sentTxs'[t] = sentTxs[t]
        /\ sentTxs'[n].payload = toSubmit
  BY SendAdds
<1>2. UNCHANGED <<fragments, row, charged, isFinalized>>
  BY DEF dbVars
<1>3. /\ \A s : InState(s)' = InState(s)
      /\ OpenTxs' = OpenTxs /\ LiveTxs' = LiveTxs
  BY <1>2 DEF InState, OpenTxs, LiveTxs
<1>4. OpensNothing
  BY <1>1, <1>2, <1>3 DEF OpensNothing
<1>5. PayloadsFit'
  <2>1. toSubmit \subseteq fragments /\ OldestOf(toSubmit) = toSubmit
    BY DEF BatchInv, CommitterBatch, BatchFits, Busy
  <2>2. FragmentsOf(n)' = toSubmit
    BY <1>1 DEF FragmentsOf
  <2>3. ASSUME NEW t \in Sent'
        PROVE  FragmentsOf(t)' \subseteq fragments' /\ OldestOf(FragmentsOf(t))' = FragmentsOf(t)'
    <3>1. CASE t \in Sent
      <4>1. FragmentsOf(t)' = FragmentsOf(t)
        BY <1>4, <3>1, SentStays
      <4> QED BY <1>2, <3>1, <4>1 DEF BatchInv, PayloadsFit, OldestOf
    <3>2. CASE t = n
      BY <1>2, <2>1, <2>2, <3>2 DEF OldestOf
    <3> QED BY <1>1, <3>1, <3>2
  <2> QED BY <2>3 DEF PayloadsFit, OldestOf
<1>6. TableBatches'
  BY <1>4, TablesKeepBatches DEF BatchInv
<1>7. UnstoredBundles'
  BY <1>2 DEF BatchInv, UnstoredBundles
<1>8. BundlesFinalized'
  <2>1. \A t \in TxHashes : row[t] = "Finalized" => t \in Sent
    BY DEF IInv, DbInv, RowsSent
  <2>2. \A t \in TxHashes : row[t] = "Finalized" => FragmentsOf(t)' = FragmentsOf(t)
    BY <1>4, <2>1, SentStays
  <2>3. \A b : BundleComplete(b, row)' <=> BundleComplete(b, row)
    BY <1>2, <2>2 DEF BundleComplete
  <2> QED BY <1>2, <2>3 DEF BatchInv, BundlesFinalized
<1> QED BY <1>4, <1>5, <1>6, <1>7, <1>8

\* The transaction to be recorded is the batch, and competes for the nonce it replaces.
LEMMA SendAcceptedBatch ==
  ASSUME IInv, BatchInv, SendAccepted
  PROVE  BatchInv'
<1> DEFINE n == Len(sentTxs) + 1
<1>1. /\ committerAt = "sending" /\ committerAt' = "recording" /\ submittedTx' = n
      /\ UNCHANGED <<previousTx, toSubmit, dbVars>> /\ Busy' = Busy
      /\ SubmitStateFragments(toSubmit, previousTx) /\ UNCHANGED faults
  BY DEF SendAccepted, Busy
<1>2. /\ OpensNothing
      /\ PayloadsFit' /\ TableBatches' /\ UnstoredBundles' /\ BundlesFinalized'
  BY <1>1, SendKeepsBatches
<1>3. BatchFits' /\ FreshBatch' /\ ReplacementBatch'
  BY <1>1, <1>2, BatchStays DEF BatchInv
<1>4. NoPrevious' /\ ReadyAlone'
  BY <1>1 DEF NoPrevious, ReadyAlone, Busy
<1>5. RecordedBatch'
  <2>1. /\ Sent' = Sent \cup {n} /\ sentTxs'[n].payload = toSubmit
        /\ previousTx # 0 => sentTxs'[n].nonce = Nonce(previousTx)
    BY <1>1, SendAdds
  <2> HIDE DEF n
  <2>2. FragmentsOf(submittedTx)' = toSubmit'
    BY <1>1, <2>1 DEF FragmentsOf
  <2>3. previousTx # 0 => Nonce(previousTx)' = Nonce(previousTx)
    <3>1. previousTx # 0 => previousTx \in Sent
      BY <1>1 DEF BatchInv, CommitterBatch, ReplacementBatch, Busy
    <3> QED BY <1>1, <1>2, <3>1, SentStays DEF Nonce
  <2>4. previousTx # 0 => Nonce(submittedTx)' = Nonce(previousTx)'
    BY <1>1, <2>1, <2>3 DEF Nonce
  <2> QED BY <1>1, <2>2, <2>4 DEF RecordedBatch
<1> QED BY <1>2, <1>3, <1>4, <1>5 DEF BatchInv, CommitterBatch

\* A transaction that is sent and never recorded has no row.
LEMMA SendTimedOutBatch ==
  ASSUME IInv, BatchInv, SendTimedOut
  PROVE  BatchInv'
<1>1. PayloadsFit' /\ TableBatches' /\ UnstoredBundles' /\ BundlesFinalized'
  BY SendKeepsBatches DEF SendTimedOut
<1>2. CommitterBatch'
  BY IdleHasNoBatch DEF SendTimedOut
<1> QED BY <1>1, <1>2 DEF BatchInv

\* The new row joins the batch it belongs to: it is alone, or replaces one.
LEMMA RecordPendingBatch ==
  ASSUME IInv, BatchInv, RecordPending
  PROVE  BatchInv'
<1> DEFINE s == submittedTx
<1>1. /\ row' = [row EXCEPT ![s] = "Pending"]
      /\ UNCHANGED <<fragments, charged, isFinalized, sentTxs>> /\ Sent' = Sent
      /\ CommitterReset /\ committerAt = "recording" /\ Busy
      /\ s \in Sent /\ row[s] = "absent"
  BY DEF RecordPending, RecordPendingTx, l1Vars, Sent, Busy, IInv, CommitterInv, RecordingFresh
<1>2. s \in TxHashes /\ row \in [TxHashes -> TxStates \cup {"absent"}]
  BY <1>1, Numbers DEF Sent, TxHashes, IInv, DbInv, StorageTypeOK
<1>3. \A t : FragmentsOf(t)' = FragmentsOf(t) /\ Nonce(t)' = Nonce(t)
  BY <1>1 DEF FragmentsOf, Nonce
<1>4. /\ FragmentsOf(s) = toSubmit
      /\ previousTx # 0 => Nonce(s) = Nonce(previousTx)
  BY <1>1 DEF BatchInv, CommitterBatch, RecordedBatch
<1> HIDE DEF s
<1>5. \A t \in TxHashes : row'[t] = IF t = s THEN "Pending" ELSE row[t]
  BY <1>1, <1>2
<1>6. OpenTxs' = OpenTxs \cup {s} /\ LiveTxs' = LiveTxs \cup {s}
      /\ InState("Finalized")' = InState("Finalized")
  BY <1>1, <1>2, <1>5 DEF OpenTxs, LiveTxs, InState
<1>7. PayloadsFit'
  BY <1>1, <1>3 DEF BatchInv, PayloadsFit, OldestOf
<1>8. \A t \in OpenTxs : Nonce(t) = Nonce(s) /\ FragmentsOf(t) = FragmentsOf(s)
  BY <1>1, <1>4 DEF BatchInv, CommitterBatch, FreshBatch, ReplacementBatch
<1>9. \A t \in LiveTxs : FragmentsOf(s) \cap FragmentsOf(t) # {} => Nonce(t) = Nonce(s)
  BY <1>1, <1>4 DEF BatchInv, CommitterBatch, FreshBatch, ReplacementBatch
<1>10. OneOpenSubmission'
  BY <1>3, <1>6, <1>8 DEF BatchInv, TableBatches, OneOpenSubmission
<1>11. OneNoncePerFragment'
  BY <1>3, <1>6, <1>9 DEF BatchInv, TableBatches, OneNoncePerFragment
<1>12. UnstoredBundles'
  BY <1>1 DEF BatchInv, UnstoredBundles
<1>13. BundlesFinalized'
  <2>1. \A t \in TxHashes : row'[t] = "Finalized" <=> row[t] = "Finalized"
    BY <1>1, <1>5
  <2>2. \A b : BundleComplete(b, row)' <=> BundleComplete(b, row)
    BY <1>1, <1>3, <2>1 DEF BundleComplete
  <2> QED BY <1>1, <2>2 DEF BatchInv, BundlesFinalized
<1>14. CommitterBatch'
  BY <1>1, IdleHasNoBatch
<1> QED BY <1>7, <1>10, <1>11, <1>12, <1>13, <1>14 DEF BatchInv, TableBatches

-----------------------------------------------------------------------------
(* The listener's write.                                                   *)

\* A write settles rows: it opens none, and the bundles of what it finalizes are
\* looked at again.
LEMMA ApplyChangesBatch ==
  ASSUME IInv, BatchInv, ApplyChanges, UNCHANGED <<fuelHeight, committerVars>>
  PROVE  BatchInv'
<1> DEFINE costs == FinalizedIn(noncewide)
           sel   == {c \in selective : Nonce(c.tx) \notin skipNonces}
<1>1. /\ row' = UpdatedRow(sel, noncewide)
      /\ isFinalized' = [b \in Bundles |->
           IF b \in BundlesOf(costs)
           THEN BundleComplete(b, UpdatedRow(sel, noncewide)) ELSE isFinalized[b]]
      /\ UNCHANGED <<fragments, sentTxs>>
  BY DEF ApplyChanges, UpdateTxStatesAndCosts, UpdateCosts, l1Vars
<1>2. /\ OpenTxs' \subseteq OpenTxs /\ costs \subseteq OpenTxs
      /\ \A t \in TxHashes : row'[t] = "Finalized" <=> row[t] = "Finalized" \/ t \in costs
  BY ApplyChangesStep
<1>3. Sent' = Sent /\ \A t : FragmentsOf(t)' = FragmentsOf(t) /\ Nonce(t)' = Nonce(t)
  BY <1>1 DEF Sent, FragmentsOf, Nonce
<1>4. fragments \subseteq Fragments
  BY DEF IInv, DbInv, StorageTypeOK
<1>5. \A t \in costs : FragmentsOf(t) \subseteq fragments
  BY <1>2, LiveAreSent DEF BatchInv, PayloadsFit
<1> HIDE DEF costs, sel
<1>6. LiveTxs' \subseteq LiveTxs
  <2>1. \A t \in InState("Finalized")' : t \in LiveTxs
    BY <1>2 DEF LiveTxs, InState
  <2> QED BY <1>2, <2>1 DEF LiveTxs
<1>7. OpensNothing
  BY <1>1, <1>2, <1>3, <1>6 DEF OpensNothing
<1>8. PayloadsFit'
  BY <1>1, <1>3 DEF BatchInv, PayloadsFit, OldestOf
<1>9. TableBatches' /\ CommitterBatch'
  BY <1>7, TablesKeepBatches, CommitterKeepsBatch DEF BatchInv
<1>10. UnstoredBundles'
  <2>1. ASSUME NEW b \in Bundles, \A f \in fragments : EndHeight[f] # b
        PROVE  ~isFinalized'[b]
    <3>1. b \notin BundlesOf(costs)
      BY <1>5, <2>1 DEF BundlesOf
    <3> QED BY <1>1, <2>1, <3>1 DEF BatchInv, UnstoredBundles
  <2> QED BY <1>1, <2>1 DEF UnstoredBundles
<1>11. BundlesFinalized'
  <2>1. ASSUME NEW b \in {EndHeight[f] : f \in fragments}
        PROVE  isFinalized'[b] <=> BundleComplete(b, row)'
    <3>1. b \in Bundles
      BY <1>4 DEF Bundles
    <3>2. BundleComplete(b, row)' <=>
            \A f \in fragments : EndHeight[f] = b =>
              \E t \in TxHashes : row'[t] = "Finalized" /\ f \in FragmentsOf(t)
      BY <1>1, <1>3 DEF BundleComplete
    <3>3. CASE b \in BundlesOf(costs)
      BY <1>1, <3>1, <3>2, <3>3 DEF BundleComplete
    <3>4. CASE b \notin BundlesOf(costs)
      <4>1. isFinalized'[b] <=> BundleComplete(b, row)
        BY <1>1, <3>1, <3>4 DEF BatchInv, BundlesFinalized
      <4>2. ASSUME NEW f \in fragments, EndHeight[f] = b, NEW t \in TxHashes, f \in FragmentsOf(t)
            PROVE  row'[t] = "Finalized" <=> row[t] = "Finalized"
        <5>1. t \notin costs
          BY <3>4, <4>2 DEF BundlesOf
        <5> QED BY <1>2, <5>1
      <4> QED BY <3>2, <4>1, <4>2 DEF BundleComplete
    <3> QED BY <3>3, <3>4
  <2> QED BY <1>1, <2>1 DEF BundlesFinalized
<1> QED BY <1>8, <1>9, <1>10, <1>11 DEF BatchInv

-----------------------------------------------------------------------------
(* The bundler.                                                            *)

\* A bundle that arrives is not finalized: nothing sent carries its fragments.
LEMMA StoreBundleBatch ==
  ASSUME IInv, BatchInv, StoreBundle
  PROVE  BatchInv' /\ UNCHANGED sentTxs
<1>1. PICK b \in Bundles :
        /\ \A f \in fragments : EndHeight[f] # b
        /\ fragments' = fragments \cup {f \in Fragments : EndHeight[f] = b}
        /\ UNCHANGED <<row, charged, isFinalized, sentTxs, committerVars>>
  BY DEF StoreBundle, InsertBundleAndFragments, l1Vars
<1>2. /\ Sent' = Sent /\ OpenTxs' = OpenTxs /\ LiveTxs' = LiveTxs
      /\ \A t : FragmentsOf(t)' = FragmentsOf(t)
  BY <1>1 DEF Sent, OpenTxs, LiveTxs, InState, FragmentsOf
<1>3. OpensNothing
  BY <1>1, <1>2 DEF OpensNothing
<1>4. PayloadsFit'
  BY <1>1, <1>2 DEF BatchInv, PayloadsFit, OldestOf
<1>5. TableBatches' /\ CommitterBatch'
  BY <1>1, <1>3, TablesKeepBatches, CommitterKeepsBatch DEF BatchInv
<1>6. UnstoredBundles'
  BY <1>1 DEF BatchInv, UnstoredBundles
<1>7. BundlesFinalized'
  <2>1. ASSUME NEW c \in {EndHeight[f] : f \in fragments'}
        PROVE  isFinalized[c] <=> BundleComplete(c, row)'
    <3>1. BundleComplete(c, row)' <=>
            \A f \in fragments' : EndHeight[f] = c =>
              \E t \in TxHashes : row[t] = "Finalized" /\ f \in FragmentsOf(t)
      BY <1>1, <1>2 DEF BundleComplete
    <3>2. CASE c = b
      <4>1. PICK f \in fragments' : EndHeight[f] = b
        BY <2>1, <3>2
      <4>2. f \notin fragments
        BY <1>1, <4>1
      <4>3. \A t \in TxHashes : row[t] = "Finalized" => FragmentsOf(t) \subseteq fragments
        BY DEF IInv, DbInv, RowsSent, BatchInv, PayloadsFit
      <4>4. ~BundleComplete(c, row)'
        BY <3>1, <3>2, <4>1, <4>2, <4>3
      <4>5. ~isFinalized[b]
        BY <1>1 DEF BatchInv, UnstoredBundles
      <4> QED BY <3>2, <4>4, <4>5
    <3>3. CASE c # b
      <4>1. \A f : f \in fragments' /\ EndHeight[f] = c <=> f \in fragments /\ EndHeight[f] = c
        BY <1>1, <3>3
      <4>2. c \in {EndHeight[f] : f \in fragments}
        BY <2>1, <4>1
      <4> QED BY <3>1, <4>1, <4>2 DEF BatchInv, BundlesFinalized, BundleComplete
    <3> QED BY <3>2, <3>3
  <2> QED BY <1>1, <2>1 DEF BundlesFinalized
<1> QED BY <1>1, <1>4, <1>5, <1>6, <1>7 DEF BatchInv

-----------------------------------------------------------------------------
(* The theorems.                                                           *)

\* Nothing is stored, sent or under way at the start.
LEMMA InitBatchInv == Init => BatchInv
<1>1. SUFFICES ASSUME Init PROVE BatchInv
  OBVIOUS
<1>2. /\ Sent = {} /\ fragments = {} /\ ~Busy /\ previousTx = 0 /\ committerAt = "idle"
      /\ isFinalized = [b \in Bundles |-> FALSE]
  BY <1>1 DEF Init, EthereumInit, Sent, StorageInit, CommitterInit, Busy
<1>3. OpenTxs = {} /\ LiveTxs = {}
  BY <1>1 DEF Init, StorageInit, OpenTxs, LiveTxs, InState
<1> QED BY <1>2, <1>3
        DEF BatchInv, PayloadsFit, TableBatches, OneOpenSubmission, OneNoncePerFragment,
            CommitterBatch, NoPrevious, ReadyAlone, BatchFits, FreshBatch, ReplacementBatch,
            RecordedBatch, UnstoredBundles, BundlesFinalized

\* Every step keeps the batches, and sends afresh only what is free.
LEMMA BatchStep ==
  ASSUME IInv, BatchInv, [Next]_vars
  PROVE  /\ BatchInv'
         /\ previousTx = 0 /\ sentTxs' # sentTxs =>
              \A t \in LiveTxs : toSubmit \cap FragmentsOf(t) = {}
<1>1. CASE CommitterNext
  <2>1. CASE CheckNonfinalized
    BY <2>1, CheckNonfinalizedBatch DEF CheckNonfinalized, l1Vars
  <2>2. CASE HoldOff
    BY <2>2, QuietStep DEF HoldOff, l1Vars
  <2>3. CASE ReplaceStalled
    BY <2>3, ReplaceStalledBatch DEF ReplaceStalled, l1Vars
  <2>4. CASE SubmitReady
    BY <2>4, SubmitReadyBatch DEF SubmitReady, l1Vars
  <2>5. CASE SendAccepted \/ SendTimedOut
    <3>1. previousTx = 0 => \A t \in LiveTxs : toSubmit \cap FragmentsOf(t) = {}
      BY <2>5 DEF SendAccepted, SendTimedOut, BatchInv, CommitterBatch, FreshBatch, Busy
    <3> QED BY <2>5, <3>1, SendAcceptedBatch, SendTimedOutBatch
  <2>6. CASE SendFailed
    BY <2>6, QuietStep DEF SendFailed, l1Vars
  <2>7. CASE RecordPending
    BY <2>7, RecordPendingBatch DEF RecordPending, l1Vars
  <2>8. CASE RecordFailed
    BY <2>8, QuietStep DEF RecordFailed
  <2> QED BY <1>1, <2>1, <2>2, <2>3, <2>4, <2>5, <2>6, <2>7, <2>8 DEF CommitterNext
<1>2. CASE ListenerNext /\ UNCHANGED <<fuelHeight, committerVars>>
  <2>1. UNCHANGED sentTxs
    BY <1>2 DEF ListenerNext, ReadNonFinalizedTxs, ReadBlockNumber, QueryRow, SkipSettledNonce,
                NoReceipt, Receipt, LookUpInMempool, ApplyChanges, ListenerError, l1Vars
  <2>2. CASE ApplyChanges
    BY <1>2, <2>1, <2>2, ApplyChangesBatch
  <2>3. CASE ~ApplyChanges
    <3>1. UNCHANGED dbVars
      BY <1>2, <2>3, ListenerQuietStep
    <3> QED BY <1>2, <2>1, <3>1, QuietStep
  <2> QED BY <2>2, <2>3
<1>3. CASE ChainNext /\ UNCHANGED OffChain
  <2>1. UNCHANGED <<sentTxs, dbVars, committerVars>>
    BY <1>3, ChainStep, EthereumAssumption DEF IInv, OffChain
  <2> QED BY <2>1, QuietStep
<1>4. CASE NewFuelBlock
  BY <1>4, QuietStep DEF NewFuelBlock, l1Vars
<1>5. CASE StoreBundle
  BY <1>5, StoreBundleBatch
<1>6. CASE Crash
  BY <1>6, QuietStep DEF Crash
<1>7. CASE UNCHANGED vars
  BY <1>7, QuietStep DEF vars, l1Vars
<1> QED BY <1>1, <1>2, <1>3, <1>4, <1>5, <1>6, <1>7 DEF Next

\* What each task relies on about the batches holds in every state.
THEOREM BatchInvariance == Spec => []BatchInv
<1>1. Init => BatchInv
  BY InitBatchInv
<1>2. IInv /\ BatchInv /\ [Next]_vars => BatchInv'
  BY BatchStep
<1> QED BY <1>1, <1>2, Invariance, PTL DEF Spec

\* One submission is under way at a time: all open rows share nonce and fragments.
THEOREM SubmissionIsAlone == Spec => []OneOpenSubmission
<1>1. BatchInv => OneOpenSubmission
  BY DEF BatchInv, TableBatches
<1> QED BY <1>1, BatchInvariance, PTL

\* No fragment is finalized, and paid for, by two transactions.
THEOREM FragmentsFinalizedOnce == Spec => []NoFragmentFinalizedTwice
<1>1. IInv /\ BatchInv => NoFragmentFinalizedTwice
  BY DEF IInv, DbInv, OneOutcomePerNonce, BatchInv, TableBatches, OneNoncePerFragment, LiveTxs,
         NoFragmentFinalizedTwice
<1> QED BY <1>1, Invariance, BatchInvariance, PTL

\* bundle_cost.is_finalized says of every stored bundle whether it is complete.
THEOREM BundlesAreCurrent == Spec => []BundlesFinalized
<1>1. BatchInv => BundlesFinalized
  BY DEF BatchInv
<1> QED BY <1>1, BatchInvariance, PTL

\* What is finalized or under way is never sent under a fresh nonce.
THEOREM NothingIsSentAfresh == Spec => NoFreshResubmission
<1>1. IInv /\ BatchInv /\ [Next]_vars =>
        [previousTx = 0 /\ sentTxs' # sentTxs =>
           \A t \in LiveTxs : toSubmit \cap FragmentsOf(t) = {}]_vars
  BY BatchStep
<1> QED BY <1>1, Invariance, BatchInvariance, PTL DEF Spec, NoFreshResubmission

-----------------------------------------------------------------------------
(* The blob submission implements FragmentDelivery: rows, nonces,          *)
(* replacements and receipts come down to one batch of fragments at a time *)
(* that is under way, given up or delivered, and to a set of published     *)
(* fragments that only grows.                                              *)

\* Steps that neither open nor settle a row leave the tables and what is sent behind
\* them as they are.
SameRows ==
  /\ UNCHANGED <<fragments, row>>
  /\ Sent \subseteq Sent' /\ \A t \in Sent : sentTxs'[t] = sentTxs[t]

\* What is published is what settled transactions carry.
LEMMA PublishedIsSettled ==
  ASSUME IInv
  PROVE  PublishedFragments = UNION {FragmentsOf(t) : t \in {u \in Sent : Settled(u)}}
<1>1. ASSUME NEW i \in 1..Len(mined), mined[i].succeeded, mined[i].block <= irreversible
      PROVE  mined[i].tx \in Sent /\ Settled(mined[i].tx)
  <2>1. mined[i].tx \in Sent
    BY MinedIsInclusion
  <2>2. Nonce(mined[i].tx) = i
    BY DEF IInv, EthereumInv, MinedInOrder
  <2> QED BY <1>1, <2>1, <2>2 DEF Settled, Included
<1>2. ASSUME NEW t \in Sent, Settled(t)
      PROVE  \E i \in 1..Len(mined) :
               mined[i].tx = t /\ mined[i].succeeded /\ mined[i].block <= irreversible
  BY <1>2 DEF Settled, Included
<1> QED BY <1>1, <1>2 DEF PublishedFragments

\* Only stored fragments are published.
LEMMA PublishedIsStored == IInv /\ BatchInv => PublishedFragments \subseteq fragments
  BY PublishedIsSettled DEF BatchInv, PayloadsFit

\* No reorg takes back what is published.
LEMMA PublishedGrows ==
  ASSUME IInv, Persists
  PROVE  PublishedFragments \subseteq PublishedFragments'
<1>1. SUFFICES ASSUME NEW t \in Sent, Settled(t), NEW f \in FragmentsOf(t)
               PROVE  f \in PublishedFragments'
  BY PublishedIsSettled
<1>2. Settled(t)' /\ FragmentsOf(t)' = FragmentsOf(t)
  BY <1>1 DEF Persists, FragmentsOf
<1> DEFINE i == Nonce(t)'
<1>3. /\ i \in 1..Len(mined') /\ mined'[i].tx = t
      /\ mined'[i].succeeded /\ mined'[i].block <= irreversible'
  BY <1>2 DEF Settled, Included
<1> HIDE DEF i
<1> QED BY <1>1, <1>2, <1>3 DEF PublishedFragments

\* Without a new chain nothing new is published.
LEMMA PublishedStays ==
  ASSUME UNCHANGED <<irreversible, mined, sentTxs>>
  PROVE  PublishedFragments' = PublishedFragments
<1>1. \A t : FragmentsOf(t)' = FragmentsOf(t)
  BY DEF FragmentsOf, Sent
<1> QED BY <1>1 DEF PublishedFragments

\* Steps that leave the rows alone publish at most.
LEMMA PublishStep ==
  ASSUME IInv, BatchInv, IInv', BatchInv', Persists, SameRows
  PROVE  Delivery!Publish
<1>1. OpenTxs' = OpenTxs /\ InState("Finalized")' = InState("Finalized")
      /\ fragments' = fragments
  BY DEF SameRows, OpenTxs, InState
<1>2. \A t \in OpenTxs \cup InState("Finalized") : FragmentsOf(t)' = FragmentsOf(t)
  BY LiveAreSent DEF SameRows, FragmentsOf, LiveTxs
<1>3. DeliveredFragments' = DeliveredFragments
  BY <1>1, <1>2 DEF DeliveredFragments
<1>4. InFlightFragments' = InFlightFragments
  BY <1>1, <1>2, <1>3 DEF InFlightFragments
<1>5. PublishedFragments \subseteq PublishedFragments' /\ PublishedFragments' \subseteq fragments'
  <2>1. PublishedFragments \subseteq PublishedFragments'
    BY PublishedGrows
  <2>2. PublishedFragments' \subseteq fragments'
    <3>1. IInv' /\ BatchInv' => (PublishedFragments \subseteq fragments)'
      BY PublishedIsStored, PTL
    <3> QED BY <3>1
  <2> QED BY <2>1, <2>2
<1>6. PublishedFragments' = PublishedFragments \cup PublishedFragments'
      /\ PublishedFragments' \in SUBSET fragments
  BY <1>1, <1>5
<1> QED BY <1>1, <1>3, <1>4, <1>6 DEF Delivery!Publish

\* A stored bundle is more to deliver.
LEMMA StoreStep ==
  ASSUME IInv, StoreBundle
  PROVE  Delivery!Store
<1>1. PICK b \in Bundles :
        /\ \A f \in fragments : EndHeight[f] # b
        /\ fragments' = fragments \cup {f \in Fragments : EndHeight[f] = b}
        /\ UNCHANGED <<row, irreversible, mined, sentTxs>>
  BY DEF StoreBundle, InsertBundleAndFragments, l1Vars
<1>2. \A t : FragmentsOf(t)' = FragmentsOf(t)
  BY <1>1 DEF FragmentsOf, Sent
<1>3. OpenTxs' = OpenTxs /\ InState("Finalized")' = InState("Finalized")
  BY <1>1 DEF OpenTxs, InState
<1>4. DeliveredFragments' = DeliveredFragments
  BY <1>2, <1>3 DEF DeliveredFragments
<1>5. InFlightFragments' = InFlightFragments
  BY <1>2, <1>3, <1>4 DEF InFlightFragments
<1>6. {f \in Fragments : EndHeight[f] = b} \in SUBSET (Fragments \ fragments)
  BY <1>1
<1> QED BY <1>1, <1>4, <1>5, <1>6, PublishedStays DEF Delivery!Store

\* Recording a fresh transaction puts a batch under way; a replacement carries the
\* batch that is under way, or one that was given up meanwhile.
LEMMA SubmitStep ==
  ASSUME IInv, BatchInv, BatchInv', RecordPending
  PROVE  Delivery!Submit \/ UNCHANGED Delivery!deliveryVars
<1>1. PICK s \in Sent :
        /\ row' = [row EXCEPT ![s] = "Pending"] /\ row[s] = "absent"
        /\ UNCHANGED <<fragments, irreversible, mined, sentTxs>>
  BY DEF RecordPending, RecordPendingTx, l1Vars, IInv, CommitterInv, RecordingFresh
<1>2. s \in TxHashes /\ row \in [TxHashes -> TxStates \cup {"absent"}]
  BY Numbers DEF Sent, TxHashes, IInv, DbInv, StorageTypeOK
<1>3. Sent' = Sent /\ \A t : FragmentsOf(t)' = FragmentsOf(t)
  BY <1>1 DEF FragmentsOf, Sent
<1>4. OpenTxs' = OpenTxs \cup {s} /\ InState("Finalized")' = InState("Finalized")
  BY <1>1, <1>2 DEF OpenTxs, InState
<1>5. DeliveredFragments' = DeliveredFragments
  BY <1>3, <1>4 DEF DeliveredFragments
<1>6. InFlightFragments' =
        (UNION {FragmentsOf(t) : t \in OpenTxs \cup {s}}) \ DeliveredFragments
  BY <1>3, <1>4, <1>5 DEF InFlightFragments
<1>7. PublishedFragments' = PublishedFragments
  BY <1>1, PublishedStays
<1>8. CASE OpenTxs = {}
  <2>1. InFlightFragments = {} /\ InFlightFragments' = FragmentsOf(s) \ DeliveredFragments
    <3>1. UNION {FragmentsOf(t) : t \in OpenTxs} = {}
      BY <1>8
    <3>2. UNION {FragmentsOf(t) : t \in OpenTxs \cup {s}} = FragmentsOf(s)
      BY <1>8
    <3> QED BY <1>6, <3>1, <3>2 DEF InFlightFragments
  <2>2. FragmentsOf(s) \subseteq fragments
    BY DEF BatchInv, PayloadsFit
  <2> QED BY <1>1, <1>5, <1>7, <2>1, <2>2 DEF Delivery!Submit
<1>9. CASE OpenTxs # {}
  <2>1. \A t \in OpenTxs : FragmentsOf(t) = FragmentsOf(s)
    BY <1>3, <1>4 DEF BatchInv, TableBatches, OneOpenSubmission
  <2>2. InFlightFragments' = InFlightFragments
    BY <1>6, <1>9, <2>1 DEF InFlightFragments
  <2> QED BY <1>1, <1>5, <1>7, <2>2 DEF Delivery!deliveryVars
<1> QED BY <1>8, <1>9

\* A write that finalizes delivers the batch, which is published; any other keeps it
\* under way or gives it up.
LEMMA DeliverStep ==
  ASSUME IInv, BatchInv, ApplyChanges, UNCHANGED <<fuelHeight, committerVars>>
  PROVE  Delivery!Deliver \/ Delivery!GiveUp \/ UNCHANGED Delivery!deliveryVars
<1> DEFINE costs == FinalizedIn(noncewide)
<1>1. UNCHANGED <<fragments, irreversible, mined, sentTxs>>
  BY DEF ApplyChanges, UpdateTxStatesAndCosts, l1Vars
<1>2. /\ OpenTxs' \subseteq OpenTxs /\ costs \subseteq OpenTxs
      /\ \A t \in TxHashes : row'[t] = "Finalized" <=> row[t] = "Finalized" \/ t \in costs
  BY ApplyChangesStep
<1>3. \A t \in costs : Settled(t)
  BY DEF IInv, ListenerInv, DecidedFinal, FinalizedIn
<1> HIDE DEF costs
<1>4. \A t : FragmentsOf(t)' = FragmentsOf(t)
  BY <1>1 DEF FragmentsOf, Sent
<1>5. PublishedFragments' = PublishedFragments
  BY <1>1, PublishedStays
<1>6. InState("Finalized")' = InState("Finalized") \cup costs
  BY <1>2 DEF InState, OpenTxs
<1>7. DeliveredFragments' = DeliveredFragments \cup UNION {FragmentsOf(t) : t \in costs}
  BY <1>4, <1>6 DEF DeliveredFragments
<1>8. InFlightFragments' = (UNION {FragmentsOf(t) : t \in OpenTxs'}) \ DeliveredFragments'
  BY <1>4 DEF InFlightFragments
<1>9. \A t, u \in OpenTxs : FragmentsOf(t) = FragmentsOf(u)
  BY DEF BatchInv, TableBatches, OneOpenSubmission
<1>10. CASE costs # {}
  <2>1. PICK t \in costs : TRUE
    BY <1>10
  <2>2. \A u \in OpenTxs : FragmentsOf(u) = FragmentsOf(t)
    BY <1>2, <1>9
  <2>3. InFlightFragments = FragmentsOf(t) \ DeliveredFragments
    <3>1. t \in OpenTxs
      BY <1>2
    <3>2. UNION {FragmentsOf(u) : u \in OpenTxs} = FragmentsOf(t)
      BY <2>2, <3>1
    <3> QED BY <3>2 DEF InFlightFragments
  <2>4. DeliveredFragments' = DeliveredFragments \cup FragmentsOf(t)
    BY <1>2, <1>7, <2>2
  <2>5. InFlightFragments' = {}
    <3>1. UNION {FragmentsOf(u) : u \in OpenTxs'} \subseteq FragmentsOf(t)
      BY <1>2, <2>2
    <3> QED BY <1>8, <2>4, <3>1
  <2>6. FragmentsOf(t) \subseteq PublishedFragments
    BY <1>2, <1>3, LiveAreSent, PublishedIsSettled
  <2> QED BY <1>1, <1>5, <2>3, <2>4, <2>5, <2>6 DEF Delivery!Deliver
<1>11. CASE costs = {}
  <2>1. DeliveredFragments' = DeliveredFragments
    BY <1>7, <1>11
  <2>2. CASE OpenTxs' = {}
    BY <1>1, <1>5, <1>8, <2>1, <2>2 DEF Delivery!GiveUp
  <2>3. CASE OpenTxs' # {}
    <3>1. InFlightFragments' = InFlightFragments
      BY <1>2, <1>8, <1>9, <2>1, <2>3 DEF InFlightFragments
    <3> QED BY <1>1, <1>5, <2>1, <3>1 DEF Delivery!deliveryVars
  <2> QED BY <2>2, <2>3
<1> QED BY <1>10, <1>11

-----------------------------------------------------------------------------

\* Nothing is stored, under way, published or delivered at the start.
LEMMA InitDelivery == Init => Delivery!Init
<1>1. SUFFICES ASSUME Init PROVE Delivery!Init
  OBVIOUS
<1>2. fragments = {} /\ OpenTxs = {} /\ InState("Finalized") = {} /\ mined = <<>>
  BY <1>1 DEF Init, StorageInit, EthereumInit, OpenTxs, InState
<1> QED BY <1>2 DEF Delivery!Init, InFlightFragments, DeliveredFragments, PublishedFragments

\* Every step is a step of the abstract specification, or none.
LEMMA DeliveryStep ==
  ASSUME IInv, BatchInv, [Next]_vars
  PROVE  [Delivery!Next]_Delivery!deliveryVars
<1>1. IInv' /\ BatchInv' /\ Persists
  BY NextStep, BatchStep
<1>2. CASE StoreBundle
  BY <1>2, StoreStep DEF Delivery!Next
<1>3. CASE RecordPending
  BY <1>1, <1>3, SubmitStep DEF Delivery!Next
<1>4. CASE ApplyChanges /\ UNCHANGED <<fuelHeight, committerVars>>
  BY <1>4, DeliverStep DEF Delivery!Next
<1>5. CASE ~StoreBundle /\ ~RecordPending
           /\ ~(ApplyChanges /\ UNCHANGED <<fuelHeight, committerVars>>)
  <2>1. UNCHANGED <<fragments, row>>
    <3>1. CASE CommitterNext /\ UNCHANGED listenerVars
      BY <1>5, <3>1, CommitterQuietStep DEF dbVars
    <3>2. CASE ListenerNext /\ UNCHANGED <<fuelHeight, committerVars>>
      BY <1>5, <3>2, ListenerQuietStep DEF dbVars
    <3>3. CASE ChainNext /\ UNCHANGED OffChain
      BY <3>3 DEF OffChain, dbVars
    <3>4. CASE NewFuelBlock \/ Crash \/ UNCHANGED vars
      BY <3>4 DEF NewFuelBlock, Crash, vars, dbVars
    <3> QED BY <1>5, <3>1, <3>2, <3>3, <3>4 DEF Next
  <2>2. SameRows
    BY <1>1, <2>1 DEF SameRows, Persists
  <2> QED BY <1>1, <2>2, PublishStep DEF Delivery!Next
<1> QED BY <1>2, <1>3, <1>4, <1>5

\* The blob submission delivers fragments batch by batch, as FragmentDelivery says.
THEOREM DeliversFragments == Spec => ImplementsDelivery
<1>1. Init => Delivery!Init
  BY InitDelivery
<1>2. IInv /\ BatchInv /\ [Next]_vars => [Delivery!Next]_Delivery!deliveryVars
  BY DeliveryStep
<1> QED BY <1>1, <1>2, Invariance, BatchInvariance, PTL DEF Spec, ImplementsDelivery, Delivery!Spec
=============================================================================
