----------------------- MODULE BlockCommitterTheorems -----------------------
(***************************************************************************)
(* What holds of the block committer for every value of the constants.     *)
(* CommitterInv is inductive: until an epoch is recorded it stays newer    *)
(* than every recorded one, an accepted commit stays unrecorded until the  *)
(* step that records it, and all commits of an epoch but the recorded one  *)
(* are counted in untracked.  SurvivalInv adds the node's mempool, for a   *)
(* chain that loses nothing.                                               *)
(***************************************************************************)
EXTENDS BlockCommitter, EthereumTheorems

Posting == {"posting", "sending", "recording"}

CommitsOf(h) == {t \in Sent : sentTxs[t].payload = {h}}

OneBlockEach == \A t \in Sent : \E h \in Heights : sentTxs[t].payload = {h}

RecordsAreSent == \A t \in TxHashes : row[t] # "absent" => t \in Sent

PostingIsNewer == at \in Posting => \A h \in Submitted : h < epoch

NonceIsPositive == at = "sending" => nonce # 0

CommitAwaitsRecord ==
  at = "recording" =>
    /\ submittedTx \in Sent
    /\ sentTxs[submittedTx].payload = {epoch}
    /\ row[submittedTx] = "absent"

\* Nobody settles a row that was read, but the pruner may delete it.
ReadArePending == \A t \in toUpdate : row[t] \in {"Pending", "absent"}

\* All commits of an epoch are untracked but one, which is recorded or about to be.
OneIsTracked ==
  \A h \in Heights :
    \/ Cardinality(CommitsOf(h)) <= untracked[h]
    \/ /\ Cardinality(CommitsOf(h)) <= untracked[h] + 1
       /\ submission[h] # "absent" \/ (at = "recording" /\ epoch = h)

CommitterInv ==
  /\ EthereumInv
  /\ TypeOK
  /\ OneBlockEach
  /\ RecordsAreSent
  /\ PostingIsNewer
  /\ NonceIsPositive
  /\ CommitAwaitsRecord
  /\ ReadArePending
  /\ OneIsTracked
  /\ TablesAgree

\* No transaction waits behind a nonce that is not there.
OneInMempool ==
  /\ \A t \in mempool : Nonce(t) = Len(mined) + 1
  /\ \A t, u \in mempool : t = u

Superseded(t, h) ==
  \E u \in Sent : u > t /\ Nonce(u) = Nonce(t) /\ \A g \in sentTxs[u].payload : g > h

RecordsSurvive ==
  \A t \in Sent, h \in Heights :
    row[t] # "absent" /\ sentTxs[t].payload = {h}
      => t \in mempool \/ Included(t) \/ Superseded(t, h)

CommitIsThere == at = "recording" => submittedTx \in mempool \/ Included(submittedTx)

NonceWasNext == at = "sending" => nonce <= Len(mined) + 1

SurvivalInv ==
  /\ OneInMempool
  /\ RecordsSurvive
  /\ CommitIsThere
  /\ NonceWasNext

-----------------------------------------------------------------------------
(* Arithmetic and counting.                                                *)

\* The epoch's start is a height of the chain.
LEMMA EpochIsHeight == fuelHeight \in Heights => CurrentEpoch \in Heights
<1>1. SUFFICES ASSUME fuelHeight \in Heights PROVE CurrentEpoch \in Heights
  OBVIOUS
<1>2. CommitInterval \in Nat \ {0} /\ fuelHeight \in Nat
  BY <1>1, BlockCommitterAssumption DEF Heights
<1>3. fuelHeight % CommitInterval \in 0..(CommitInterval - 1)
  BY <1>2
<1>4. fuelHeight % CommitInterval <= fuelHeight
  BY <1>2, <1>3
<1> QED BY <1>1, <1>2, <1>3, <1>4, BlockCommitterAssumption DEF CurrentEpoch, Heights

\* A non-empty set of heights has a greatest member.
LEMMA GreatestHeight ==
  ASSUME NEW S \in SUBSET Heights, S # {}
  PROVE  \E h \in S : \A g \in S : g <= h
<1> DEFINE Raised == {h + 1 : h \in S}
<1>1. \A h \in S : h \in 0..MaxFuelHeight /\ h + 1 \in 1..(MaxFuelHeight + 1)
  BY BlockCommitterAssumption DEF Heights
<1>2. Raised \in SUBSET (1..(MaxFuelHeight + 1)) /\ Raised # {}
  BY <1>1
<1>3. PICK x \in Raised : \A y \in Raised : y <= x
  <2>1. MaxFuelHeight + 1 \in Nat
    BY BlockCommitterAssumption
  <2> HIDE DEF Raised
  <2> QED BY <1>2, <2>1, GreatestElement
<1>4. PICK h \in S : x = h + 1
  OBVIOUS
<1>5. \A g \in S : g + 1 <= h + 1
  BY <1>3, <1>4
<1> QED BY <1>1, <1>5

\* The latest submission is one of the recorded ones.
LEMMA LatestIsSubmitted ==
  Submitted # {} => LatestSubmission \in Submitted /\ \A g \in Submitted : g <= LatestSubmission
<1>1. SUFFICES ASSUME Submitted # {}
               PROVE  LatestSubmission \in Submitted /\ \A g \in Submitted : g <= LatestSubmission
  OBVIOUS
<1>2. \E h \in Submitted : \A g \in Submitted : g <= h
  BY <1>1, GreatestHeight DEF Submitted
<1> QED BY <1>2 DEF LatestSubmission

\* The commits of a height are finitely many.
LEMMA CommitsAreFinite ==
  ASSUME TypeOK, NEW h
  PROVE  IsFiniteSet(CommitsOf(h)) /\ Cardinality(CommitsOf(h)) \in Nat
<1>1. Len(sentTxs) \in Nat
  BY LenProperties DEF TypeOK, EthereumTypeOK
<1>2. IsFiniteSet(Sent)
  BY <1>1, FS_Interval DEF Sent
<1>3. IsFiniteSet(CommitsOf(h))
  BY <1>2, FS_Subset DEF CommitsOf
<1> QED BY <1>3, FS_CardinalityType

\* Every commit sent has a row in the model.
LEMMA SentHaveHashes == TypeOK => Sent \subseteq TxHashes
<1>1. SUFFICES ASSUME TypeOK, NEW t \in Sent PROVE t \in TxHashes
  OBVIOUS
<1>2. Len(sentTxs) \in Nat /\ Len(sentTxs) <= MaxTxs /\ MaxTxs \in Nat
  BY <1>1, LenProperties, EthereumAssumption DEF TypeOK, EthereumTypeOK
<1> QED BY <1>1, <1>2 DEF Sent, TxHashes

-----------------------------------------------------------------------------
(* The steps.                                                              *)

\* A fresh process and empty tables.
LEMMA InitCommitter == Init => CommitterInv
<1>1. SUFFICES ASSUME Init PROVE CommitterInv
  OBVIOUS
<1>2. EthereumInv /\ sentTxs = <<>> /\ Sent = {}
  <2>1. sentTxs = <<>> /\ Len(sentTxs) = 0
    BY <1>1, EmptySeq DEF Init, EthereumInit
  <2> QED BY <1>1, <2>1, EthereumInitInv, EthereumAssumption DEF Init, Sent
<1>3. TypeOK
  <2>1. 0 \in Heights /\ 0 \in 0..Len(sentTxs) /\ 0 \in 0..MaxHeight /\ 0 \in 0..MaxPrunings
    BY <1>2, EmptySeq, BlockCommitterAssumption, EthereumAssumption DEF Heights
  <2> QED BY <1>1, <1>2, <2>1 DEF Init, TypeOK, EthereumInv
<1>4. \A h \in Heights : CommitsOf(h) = {} /\ Cardinality(CommitsOf(h)) = 0 /\ untracked[h] = 0
  BY <1>1, <1>2, FS_EmptySet DEF CommitsOf, Init, EthereumInit
<1>5. OneIsTracked
  BY <1>4 DEF OneIsTracked
<1> QED BY <1>1, <1>2, <1>3, <1>5
        DEF CommitterInv, Init, OneBlockEach, RecordsAreSent, PostingIsNewer, Posting, NonceIsPositive,
            CommitAwaitsRecord, ReadArePending, TablesAgree

\* The steps of a run leave the history alone or count the epoch at hand.
Counts == UNCHANGED historyVars \/ LeaveUntracked

\* What was counted stays counted.
LEMMA CountsGrow ==
  ASSUME TypeOK, Counts
  PROVE  /\ prunings' \in 0..MaxPrunings /\ untracked' \in [Heights -> Nat]
         /\ \A h \in Heights : untracked'[h] >= untracked[h]
         /\ LeaveUntracked => untracked'[epoch] = untracked[epoch] + 1
BY DEF TypeOK, Counts, LeaveUntracked, historyVars

\* Steps that neither send nor write a row.  A run that ends before it records what
\* it sent leaves it untracked.
LEMMA QuietStep ==
  ASSUME CommitterInv, EthereumInv', TypeOK', UNCHANGED <<tableVars, sentTxs>>, Counts,
         at = "recording" =>
           \/ at' = "recording" /\ UNCHANGED <<epoch, submittedTx>>
           \/ LeaveUntracked,
         at' = "recording" => at = "recording" /\ UNCHANGED <<epoch, submittedTx>>,
         at' \in Posting => \/ at \in Posting /\ epoch' = epoch
                            \/ \A h \in Submitted : h < epoch',
         at' = "sending" => nonce' # 0,
         \A t \in toUpdate' : t \in toUpdate \/ row[t] = "Pending"
  PROVE  CommitterInv'
<1>1. Sent' = Sent /\ Submitted' = Submitted /\ \A h : CommitsOf(h)' = CommitsOf(h)
  BY DEF Sent, Submitted, CommitsOf, tableVars
<1>2. /\ untracked \in [Heights -> Nat] /\ untracked' \in [Heights -> Nat] /\ epoch \in Heights
      /\ \A h \in Heights : untracked'[h] >= untracked[h]
      /\ LeaveUntracked => untracked'[epoch] = untracked[epoch] + 1
  BY CountsGrow DEF CommitterInv, TypeOK
<1>3. \A h : Cardinality(CommitsOf(h)) \in Nat
  BY CommitsAreFinite DEF CommitterInv
<1>4. OneIsTracked'
  <2>1. SUFFICES ASSUME NEW h \in Heights
                 PROVE  \/ Cardinality(CommitsOf(h)) <= untracked'[h]
                        \/ /\ Cardinality(CommitsOf(h)) <= untracked'[h] + 1
                           /\ submission[h] # "absent" \/ (at' = "recording" /\ epoch' = h)
    BY <1>1 DEF OneIsTracked, tableVars
  <2> DEFINE count == Cardinality(CommitsOf(h))
  <2>2. count \in Nat /\ untracked[h] \in Nat /\ untracked'[h] \in Nat /\ untracked'[h] >= untracked[h]
    BY <1>2, <1>3
  <2>3. CASE count <= untracked[h]
    BY <2>2, <2>3
  <2>4. CASE count <= untracked[h] + 1 /\ submission[h] # "absent"
    BY <2>2, <2>4
  <2>5. CASE count <= untracked[h] + 1 /\ at = "recording" /\ epoch = h
    <3>1. CASE LeaveUntracked
      BY <1>2, <2>2, <2>5, <3>1
    <3>2. CASE at' = "recording" /\ epoch' = epoch
      BY <2>2, <2>5, <3>2
    <3> QED BY <2>5, <3>1, <3>2
  <2> QED BY <2>3, <2>4, <2>5 DEF CommitterInv, OneIsTracked
<1>5. TablesAgree' /\ OneBlockEach' /\ RecordsAreSent'
  BY <1>1 DEF CommitterInv, TablesAgree, OneBlockEach, RecordsAreSent, tableVars
<1>6. PostingIsNewer'
  BY <1>1 DEF CommitterInv, PostingIsNewer
<1>7. CommitAwaitsRecord' /\ ReadArePending' /\ NonceIsPositive'
  BY <1>1 DEF CommitterInv, CommitAwaitsRecord, ReadArePending, NonceIsPositive, tableVars
<1> QED BY <1>4, <1>5, <1>6, <1>7 DEF CommitterInv

\* What the run of Post, UpdateTx and the reads leave and set.
LEMMA DecideStep ==
  ASSUME CommitterInv, Post \/ UpdateTx
  PROVE  CommitterInv'
<1>1. /\ UNCHANGED <<l1Vars, tableVars, historyVars, fuelHeight, nonce, submittedTx, blockNumber>>
      /\ at = "idle"
  BY DEF Post, UpdateTx
<1>2. EthereumInv'
  BY <1>1, FaultStep, EthereumAssumption DEF CommitterInv, l1Vars
<1>3. CASE Post
  <2>1. /\ at' = "posting" /\ epoch' = CurrentEpoch /\ toUpdate' = toUpdate
        /\ \A h \in Submitted : h < epoch'
    BY <1>3 DEF Post, Stale
  <2>2. epoch' \in Heights
    BY <2>1, EpochIsHeight DEF CommitterInv, TypeOK
  <2>3. TypeOK'
    BY <1>1, <1>2, <2>1, <2>2 DEF CommitterInv, TypeOK, EthereumInv, l1Vars, tableVars, historyVars
  <2> QED BY <1>1, <1>2, <2>1, <2>3, QuietStep DEF l1Vars, Posting, Counts
<1>4. CASE UpdateTx
  <2>1. /\ at' = "listed" /\ epoch' = LatestSubmission
        /\ toUpdate' \subseteq {t \in TxHashes : row[t] = "Pending"}
    BY <1>4 DEF UpdateTx
  <2>2. Submitted # {}
    BY <1>4 DEF UpdateTx, Stale
  <2>3. epoch' \in Heights
    BY <2>1, <2>2, LatestIsSubmitted DEF Submitted
  <2>4. TypeOK'
    BY <1>1, <1>2, <2>1, <2>3 DEF CommitterInv, TypeOK, EthereumInv, l1Vars, tableVars, historyVars
  <2> QED BY <1>1, <1>2, <2>1, <2>4, QuietStep DEF l1Vars, Posting, Counts
<1> QED BY <1>3, <1>4

\* The reads of the node.
LEMMA ReadStep ==
  ASSUME CommitterInv, ReadNonce \/ ReadBlockNumber
  PROVE  CommitterInv'
<1>1. /\ UNCHANGED <<l1Vars, tableVars, historyVars, fuelHeight, epoch, submittedTx, toUpdate>>
      /\ at \in {"posting", "listed"} /\ at' \in {"sending", "querying"}
      /\ at' = "sending" => at = "posting" /\ nonce' = Len(mined) + 1
      /\ nonce' \in {nonce, Len(mined) + 1} /\ blockNumber' \in {blockNumber, height}
  BY DEF ReadNonce, ReadBlockNumber, LatestNonce
<1>2. EthereumInv'
  BY <1>1, FaultStep, EthereumAssumption DEF CommitterInv, l1Vars
<1>3. Len(mined) \in Nat /\ Len(mined) + 1 \in Nat /\ Len(mined) + 1 # 0
  BY LenProperties DEF CommitterInv, EthereumInv, EthereumTypeOK
<1>4. TypeOK'
  BY <1>1, <1>2, <1>3 DEF CommitterInv, TypeOK, EthereumInv, EthereumTypeOK, l1Vars, tableVars, historyVars
<1> QED BY <1>1, <1>2, <1>3, <1>4, QuietStep DEF l1Vars, Posting, Counts

\* The ends of a run that write nothing.
LEMMA EndStep ==
  ASSUME CommitterInv,
         SubmitFailed \/ RecordFailed \/ (\E t \in toUpdate : QueryPruned(t)) \/ UpdateDone \/ Abort
  PROVE  CommitterInv'
<1>1. /\ UNCHANGED <<fuelHeight, tableVars, height, irreversible, mined, mempool, sentTxs>>
      /\ UNCHANGED faults \/ Fault
      /\ Reset
      /\ Counts
      /\ at = "recording" => LeaveUntracked
  BY DEF SubmitFailed, RecordFailed, QueryPruned, UpdateDone, Abort, Counts, l1Vars
<1>2. EthereumInv'
  BY <1>1, FaultStep, EthereumAssumption DEF CommitterInv
<1>3. 0 \in Heights /\ 0 \in 0..Len(sentTxs) /\ 0 \in 0..MaxHeight
  <2>1. Len(sentTxs) \in Nat
    BY LenProperties DEF CommitterInv, TypeOK, EthereumTypeOK
  <2> QED BY <2>1, BlockCommitterAssumption, EthereumAssumption DEF Heights
<1>4. TypeOK'
  <2>1. prunings' \in 0..MaxPrunings /\ untracked' \in [Heights -> Nat]
    BY <1>1, CountsGrow DEF CommitterInv
  <2> QED BY <1>1, <1>2, <1>3, <2>1 DEF CommitterInv, TypeOK, EthereumInv, tableVars, Reset
<1> QED BY <1>1, <1>2, <1>4, QuietStep DEF Posting, Reset

\* The world moves on, or nothing happens.
LEMMA WorldStep ==
  ASSUME CommitterInv, NewFuelBlock \/ (ChainNext /\ UNCHANGED OffChain) \/ UNCHANGED vars
  PROVE  CommitterInv'
<1>1. /\ UNCHANGED <<tableVars, localVars, historyVars, sentTxs>>
      /\ UNCHANGED l1Vars \/ ChainNext
      /\ fuelHeight' \in Heights
  <2>1. CASE NewFuelBlock
    <3>1. fuelHeight' \in Heights
      BY <2>1, BlockCommitterAssumption DEF NewFuelBlock, CommitterInv, TypeOK, Heights
    <3> QED BY <2>1, <3>1 DEF NewFuelBlock, l1Vars
  <2>2. CASE ChainNext /\ UNCHANGED OffChain
    BY <2>2, ChainStep, EthereumAssumption DEF OffChain, CommitterInv, TypeOK
  <2>3. CASE UNCHANGED vars
    BY <2>3 DEF vars, l1Vars, CommitterInv, TypeOK
  <2> QED BY <2>1, <2>2, <2>3
<1>2. EthereumInv'
  <2>1. CASE UNCHANGED l1Vars
    BY <2>1, FaultStep, EthereumAssumption DEF CommitterInv, l1Vars
  <2>2. CASE ChainNext
    BY <2>2, ChainStep, EthereumAssumption DEF CommitterInv
  <2> QED BY <1>1, <2>1, <2>2
<1>3. TypeOK'
  BY <1>1, <1>2 DEF CommitterInv, TypeOK, EthereumInv, tableVars, localVars, historyVars
<1> QED BY <1>1, <1>2, <1>3, QuietStep DEF localVars, CommitterInv, NonceIsPositive, Counts

\* A commit reaches the node, with or without an answer.
LEMMA SendStep ==
  ASSUME CommitterInv, SubmitAccepted \/ SubmitTimedOut
  PROVE  CommitterInv'
<1> DEFINE new == Len(sentTxs) + 1
<1>1. PICK fee \in 0..MaxFee : Broadcast(CommitTx(fee))
  BY DEF SubmitAccepted, SubmitTimedOut
<1>2. /\ at = "sending" /\ UNCHANGED <<fuelHeight, tableVars>>
      /\ \/ /\ at' = "recording" /\ submittedTx' = new
            /\ UNCHANGED <<epoch, nonce, toUpdate, blockNumber, historyVars, faults>>
         \/ Reset /\ LeaveUntracked /\ Fault
  BY DEF SubmitAccepted, SubmitTimedOut
<1>3. CommitTx(fee) \in TxRequest /\ CommitTx(fee).payload = {epoch}
  BY <1>2, BlockCommitterAssumption DEF CommitTx, TxRequest, CommitterInv, TypeOK, NonceIsPositive
<1>4. UNCHANGED faults \/ Fault
  BY <1>2
<1>5. /\ EthereumInv'
      /\ Len(sentTxs') = new /\ new \in TxHashes
      /\ Sent' = Sent \cup {new}
      /\ \A t \in Sent : sentTxs'[t] = sentTxs[t]
      /\ sentTxs'[new].payload = {epoch}
  <2> HIDE DEF new
  <2>1. new = Len(sentTxs) + 1
    BY DEF new
  <2> QED BY <1>1, <1>3, <1>4, <2>1, BroadcastStep, EthereumAssumption DEF CommitterInv
<1>6. new \notin Sent /\ Len(sentTxs) \in Nat
  <2>1. Len(sentTxs) \in Nat
    BY LenProperties DEF CommitterInv, TypeOK, EthereumTypeOK
  <2> QED BY <2>1 DEF Sent
<1>7. row[new] = "absent"
  BY <1>5, <1>6 DEF CommitterInv, RecordsAreSent
<1>8. \A h \in Submitted : h < epoch
  BY <1>2 DEF CommitterInv, PostingIsNewer, Posting
<1>9. submission[epoch] = "absent" /\ epoch \in Heights
  BY <1>8 DEF Submitted, CommitterInv, TypeOK, Heights
<1> HIDE DEF new
<1>10. TypeOK'
  <2>1. submittedTx' \in 0..Len(sentTxs')
    BY <1>2, <1>5, <1>6 DEF Reset
  <2>2. epoch' \in Heights /\ nonce' \in Nat /\ toUpdate' \in SUBSET TxHashes /\ blockNumber' \in 0..MaxHeight
    BY <1>2, BlockCommitterAssumption, EthereumAssumption DEF Reset, CommitterInv, TypeOK, Heights
  <2>3. at' \in {"idle", "recording"}
    BY <1>2 DEF Reset
  <2>4. prunings' \in 0..MaxPrunings /\ untracked' \in [Heights -> Nat]
    BY <1>2, CountsGrow DEF CommitterInv, Counts
  <2> QED BY <1>2, <1>5, <2>1, <2>2, <2>3, <2>4 DEF CommitterInv, TypeOK, EthereumInv, tableVars
<1>11. OneBlockEach' /\ RecordsAreSent'
  BY <1>2, <1>5, <1>9 DEF CommitterInv, OneBlockEach, RecordsAreSent, tableVars
<1>12. TablesAgree'
  BY <1>2, <1>5, <1>7 DEF CommitterInv, TablesAgree, tableVars
<1>13. /\ PostingIsNewer' /\ NonceIsPositive' /\ CommitAwaitsRecord' /\ ReadArePending'
  <2>1. Submitted' = Submitted
    BY <1>2 DEF Submitted, tableVars
  <2>2. PostingIsNewer'
    BY <1>2, <1>8, <2>1 DEF PostingIsNewer, Reset, Posting
  <2>3. CommitAwaitsRecord'
    BY <1>2, <1>5, <1>7 DEF CommitAwaitsRecord, Reset, tableVars
  <2>4. ReadArePending' /\ NonceIsPositive'
    BY <1>2 DEF ReadArePending, NonceIsPositive, Reset, CommitterInv, tableVars
  <2> QED BY <2>2, <2>3, <2>4
<1>14. OneIsTracked'
  <2>1. SUFFICES ASSUME NEW h \in Heights
                 PROVE  \/ Cardinality(CommitsOf(h)') <= untracked'[h]
                        \/ /\ Cardinality(CommitsOf(h)') <= untracked'[h] + 1
                           /\ submission'[h] # "absent" \/ (at' = "recording" /\ epoch' = h)
    BY DEF OneIsTracked
  <2>2. IsFiniteSet(CommitsOf(h)) /\ Cardinality(CommitsOf(h)) \in Nat
    BY CommitsAreFinite DEF CommitterInv
  <2>3. /\ untracked[h] \in Nat /\ untracked'[h] \in Nat /\ untracked'[h] >= untracked[h]
        /\ LeaveUntracked => untracked'[epoch] = untracked[epoch] + 1
        /\ UNCHANGED historyVars => untracked'[h] = untracked[h]
    BY <1>2, CountsGrow DEF CommitterInv, TypeOK, Counts, historyVars
  <2>4. CASE h = epoch
    <3>1. CommitsOf(h)' = CommitsOf(h) \cup {new} /\ new \notin CommitsOf(h)
      BY <1>5, <1>6, <2>4 DEF CommitsOf
    <3>2. Cardinality(CommitsOf(h)') = Cardinality(CommitsOf(h)) + 1
      BY <2>2, <3>1, FS_AddElement
    <3>3. Cardinality(CommitsOf(h)) <= untracked[h]
      BY <1>2, <1>9, <2>4 DEF CommitterInv, OneIsTracked
    <3>4. CASE UNCHANGED historyVars /\ at' = "recording" /\ epoch' = epoch
      BY <2>2, <2>3, <2>4, <3>2, <3>3, <3>4
    <3>5. CASE LeaveUntracked
      BY <2>2, <2>3, <2>4, <3>2, <3>3, <3>5
    <3> QED BY <1>2, <3>4, <3>5
  <2>5. CASE h # epoch
    <3>1. CommitsOf(h)' = CommitsOf(h)
      BY <1>5, <1>6, <2>5 DEF CommitsOf
    <3>2. \/ Cardinality(CommitsOf(h)) <= untracked[h]
          \/ Cardinality(CommitsOf(h)) <= untracked[h] + 1 /\ submission'[h] # "absent"
      BY <1>2, <2>5 DEF CommitterInv, OneIsTracked, tableVars
    <3> QED BY <2>2, <2>3, <3>1, <3>2
  <2> QED BY <2>4, <2>5
<1> QED BY <1>5, <1>10, <1>11, <1>12, <1>13, <1>14 DEF CommitterInv

\* The commit and its epoch are recorded together.
LEMMA RecordStep ==
  ASSUME CommitterInv, RecordBlockSubmission
  PROVE  CommitterInv'
<1>1. /\ at = "recording" /\ at' = "idle"
      /\ submission' = [submission EXCEPT ![epoch] = "open"]
      /\ row' = [row EXCEPT ![submittedTx] = "Pending"]
      /\ Reset /\ UNCHANGED <<l1Vars, fuelHeight, historyVars>>
  BY DEF RecordBlockSubmission, Reset
<1>2. /\ submittedTx \in Sent /\ sentTxs[submittedTx].payload = {epoch}
      /\ row[submittedTx] = "absent" /\ epoch \in Heights
  BY <1>1 DEF CommitterInv, CommitAwaitsRecord, TypeOK
<1>3. EthereumInv' /\ Sent' = Sent
  BY <1>1, FaultStep, EthereumAssumption DEF CommitterInv, l1Vars
<1>4. Sent \subseteq TxHashes /\ Len(sentTxs) \in Nat
  <2>1. Len(sentTxs) \in Nat /\ Len(sentTxs) <= MaxTxs /\ MaxTxs \in Nat
    BY LenProperties, EthereumAssumption DEF CommitterInv, TypeOK, EthereumTypeOK
  <2> QED BY <2>1 DEF Sent, TxHashes
<1>5. submission[epoch] = "absent"
  BY <1>1, <1>2 DEF CommitterInv, PostingIsNewer, Posting, Submitted, Heights
<1>6. TypeOK'
  <2>1. 0 \in Heights /\ 0 \in 0..Len(sentTxs) /\ 0 \in 0..MaxHeight
    BY <1>4, BlockCommitterAssumption, EthereumAssumption DEF Heights
  <2> QED BY <1>1, <1>2, <1>3, <2>1 DEF CommitterInv, TypeOK, EthereumInv, Reset, l1Vars, historyVars
<1>7. OneBlockEach' /\ RecordsAreSent'
  BY <1>1, <1>2, <1>3, <1>4 DEF CommitterInv, OneBlockEach, RecordsAreSent, TypeOK, l1Vars
<1>8. PostingIsNewer' /\ NonceIsPositive' /\ CommitAwaitsRecord' /\ ReadArePending'
  BY <1>1 DEF PostingIsNewer, Posting, NonceIsPositive, CommitAwaitsRecord, ReadArePending, Reset
<1>9. OneIsTracked'
  <2>1. \A h : CommitsOf(h)' = CommitsOf(h)
    BY <1>1, <1>3 DEF CommitsOf, l1Vars
  <2>2. submission'[epoch] = "open" /\ \A h \in Heights : submission[h] # "absent" => submission'[h] # "absent"
    BY <1>1, <1>2 DEF CommitterInv, TypeOK
  <2> QED BY <1>1, <2>1, <2>2 DEF CommitterInv, OneIsTracked, historyVars
<1>10. TablesAgree'
  <2>1. SUFFICES ASSUME NEW h \in Heights
                 PROVE  LET rows == {t \in Sent : row'[t] # "absent" /\ h \in sentTxs[t].payload}
                        IN  /\ submission'[h] = "absent" => rows = {}
                            /\ submission'[h] # "absent" =>
                                 \E t \in rows : rows = {t} /\ (submission'[h] = "open" <=> row'[t] = "Pending")
    BY <1>1, <1>3 DEF TablesAgree, l1Vars
  <2> DEFINE old == {t \in Sent : row[t] # "absent" /\ h \in sentTxs[t].payload}
             rows == {t \in Sent : row'[t] # "absent" /\ h \in sentTxs[t].payload}
  <2>2. \A t \in Sent : t # submittedTx => row'[t] = row[t]
    BY <1>1, <1>4 DEF CommitterInv, TypeOK
  <2>3. row'[submittedTx] = "Pending"
    BY <1>1, <1>2, <1>4 DEF CommitterInv, TypeOK
  <2>4. CASE h = epoch
    <3>1. old = {}
      BY <1>5, <2>4 DEF CommitterInv, TablesAgree
    <3>2. rows = {submittedTx}
      BY <1>2, <2>2, <2>3, <2>4, <3>1
    <3>3. submission'[h] = "open"
      BY <1>1, <1>2, <2>4 DEF CommitterInv, TypeOK
    <3> QED BY <2>3, <3>2, <3>3
  <2>5. CASE h # epoch
    <3>1. rows = old /\ submittedTx \notin rows
      BY <1>2, <2>2, <2>5
    <3>2. submission'[h] = submission[h]
      BY <1>1, <2>5 DEF CommitterInv, TypeOK
    <3>3. /\ submission[h] = "absent" => old = {}
          /\ submission[h] # "absent" =>
               \E t \in old : old = {t} /\ (submission[h] = "open" <=> row[t] = "Pending")
      BY DEF CommitterInv, TablesAgree
    <3> QED BY <2>2, <3>1, <3>2, <3>3
  <2> QED BY <2>4, <2>5
<1> QED BY <1>3, <1>6, <1>7, <1>8, <1>9, <1>10 DEF CommitterInv

\* A receipt settles a pending row, and with it the submission of its epoch.
LEMMA QueryStep ==
  ASSUME CommitterInv, NEW t \in toUpdate, QueryTx(t)
  PROVE  CommitterInv'
<1>1. /\ at = "querying" /\ toUpdate' \subseteq toUpdate
      /\ UNCHANGED <<l1Vars, fuelHeight, historyVars, at, epoch, nonce, submittedTx, blockNumber>>
      /\ \/ UNCHANGED tableVars
         \/ /\ row[t] # "absent"
            /\ \E state \in {"Finalized", "Failed"} : UpdateBlockSubmissionTx(t, state)
  BY DEF QueryTx
<1>2. EthereumInv' /\ Sent' = Sent
  BY <1>1, FaultStep, EthereumAssumption DEF CommitterInv, l1Vars
<1>3. CASE UNCHANGED tableVars
  <2>1. TypeOK'
    BY <1>1, <1>2, <1>3 DEF CommitterInv, TypeOK, EthereumInv, l1Vars, tableVars, historyVars
  <2> QED BY <1>1, <1>2, <1>3, <2>1, QuietStep DEF l1Vars, CommitterInv, NonceIsPositive, Counts
<1>4. CASE /\ row[t] # "absent"
           /\ \E state \in {"Finalized", "Failed"} : UpdateBlockSubmissionTx(t, state)
  <2>1. t \in TxHashes /\ row[t] = "Pending" /\ t \in Sent
    BY <1>4 DEF CommitterInv, TypeOK, ReadArePending, RecordsAreSent
  <2>2. PICK e \in Heights : sentTxs[t].payload = {e}
    BY <2>1 DEF CommitterInv, OneBlockEach
  <2>3. PICK state \in {"Finalized", "Failed"} :
          /\ row' = [row EXCEPT ![t] = state]
          /\ submission' = [h \in Heights |-> IF h = e THEN "completed" ELSE submission[h]]
    BY <1>4, <2>2 DEF UpdateBlockSubmissionTx
  <2>4. TypeOK'
    BY <1>1, <1>2, <2>1, <2>3 DEF CommitterInv, TypeOK, EthereumInv, l1Vars, historyVars
  <2>5. OneBlockEach' /\ RecordsAreSent'
    BY <1>1, <1>2, <2>1, <2>3 DEF CommitterInv, OneBlockEach, RecordsAreSent, TypeOK, l1Vars
  <2>6. PostingIsNewer' /\ NonceIsPositive' /\ CommitAwaitsRecord'
    BY <1>1 DEF PostingIsNewer, Posting, NonceIsPositive, CommitAwaitsRecord
  <2>7. ReadArePending'
    <3>1. toUpdate' = toUpdate \ {t}
      BY DEF QueryTx
    <3> QED BY <2>1, <2>3, <3>1 DEF CommitterInv, ReadArePending, TypeOK
  <2>8. submission[e] # "absent"
    BY <2>1, <2>2 DEF CommitterInv, TablesAgree
  <2>9. OneIsTracked'
    <3>1. \A h : CommitsOf(h)' = CommitsOf(h)
      BY <1>1, <1>2 DEF CommitsOf, l1Vars
    <3>2. \A h \in Heights : submission[h] # "absent" => submission'[h] # "absent"
      BY <2>3
    <3> QED BY <1>1, <3>1, <3>2 DEF CommitterInv, OneIsTracked, historyVars
  <2>10. TablesAgree'
    <3>1. SUFFICES ASSUME NEW h \in Heights
                   PROVE  LET rows == {u \in Sent : row'[u] # "absent" /\ h \in sentTxs[u].payload}
                          IN  /\ submission'[h] = "absent" => rows = {}
                              /\ submission'[h] # "absent" =>
                                   \E u \in rows : rows = {u} /\ (submission'[h] = "open" <=> row'[u] = "Pending")
      BY <1>1, <1>2 DEF TablesAgree, l1Vars
    <3> DEFINE old == {u \in Sent : row[u] # "absent" /\ h \in sentTxs[u].payload}
               rows == {u \in Sent : row'[u] # "absent" /\ h \in sentTxs[u].payload}
    <3>2. \A u \in Sent : u # t => row'[u] = row[u]
      BY <2>3
    <3>3. row'[t] = state
      BY <2>1, <2>3 DEF CommitterInv, TypeOK
    <3>4. rows = old
      BY <2>1, <3>2, <3>3
    <3>5. /\ submission[h] = "absent" => old = {}
          /\ submission[h] # "absent" =>
               \E u \in old : old = {u} /\ (submission[h] = "open" <=> row[u] = "Pending")
      BY DEF CommitterInv, TablesAgree
    <3>6. CASE h = e
      <4>1. t \in old /\ old = {t}
        BY <2>1, <2>2, <2>8, <3>5, <3>6
      <4>2. submission'[h] = "completed"
        BY <2>3, <3>6
      <4> QED BY <3>3, <3>4, <4>1, <4>2
    <3>7. CASE h # e
      <4>1. t \notin old
        BY <2>2, <3>7
      <4>2. submission'[h] = submission[h]
        BY <2>3, <3>7
      <4> QED BY <3>2, <3>4, <3>5, <4>1, <4>2
    <3> QED BY <3>6, <3>7
  <2> QED BY <1>2, <2>4, <2>5, <2>6, <2>7, <2>9, <2>10 DEF CommitterInv
<1> QED BY <1>1, <1>3, <1>4

\* The pruner takes old rows, and the submissions that have none left.
LEMMA PruneStep ==
  ASSUME CommitterInv, NEW date \in Sent, PruneEntriesOlderThan(date)
  PROVE  CommitterInv'
<1> DEFINE txs == TxsBefore(date)
           gone == PrunedSubmissions(txs)
<1>1. /\ UNCHANGED <<l1Vars, fuelHeight, localVars>>
      /\ prunings < MaxPrunings /\ prunings' = prunings + 1
      /\ row' = [t \in TxHashes |-> IF t \in txs THEN "absent" ELSE row[t]]
      /\ submission' = [h \in Heights |-> IF h \in gone THEN "absent" ELSE submission[h]]
      /\ untracked' = [h \in Heights |-> IF h \in gone THEN untracked[h] + 1 ELSE untracked[h]]
  BY DEF PruneEntriesOlderThan
<1>2. EthereumInv' /\ Sent' = Sent /\ Submitted' \subseteq Submitted /\ \A h : CommitsOf(h)' = CommitsOf(h)
  <2>1. EthereumInv' /\ Sent' = Sent
    BY <1>1, FaultStep, EthereumAssumption DEF CommitterInv, l1Vars
  <2> QED BY <1>1, <2>1 DEF Submitted, CommitsOf, l1Vars
<1>3. txs \subseteq Sent
  <2>1. \A t \in 1..date : t \in Sent
    <3>1. Len(sentTxs) \in Nat
      BY LenProperties DEF CommitterInv, TypeOK, EthereumTypeOK
    <3> QED BY <3>1 DEF Sent
  <2> QED BY <2>1 DEF TxsBefore
<1> HIDE DEF txs
<1>4. TypeOK'
  <2>1. prunings' \in 0..MaxPrunings
    BY <1>1, BlockCommitterAssumption DEF CommitterInv, TypeOK
  <2>2. untracked' \in [Heights -> Nat] /\ submission' \in [Heights -> {"absent", "open", "completed"}]
    BY <1>1 DEF CommitterInv, TypeOK
  <2> QED BY <1>1, <1>2, <2>1, <2>2 DEF CommitterInv, TypeOK, EthereumInv, l1Vars, localVars
<1>5. \A t \in TxHashes : row'[t] # "absent" => row[t] # "absent"
  BY <1>1
<1>6. OneBlockEach' /\ RecordsAreSent' /\ PostingIsNewer' /\ NonceIsPositive'
  BY <1>1, <1>2, <1>5
     DEF CommitterInv, OneBlockEach, RecordsAreSent, PostingIsNewer, NonceIsPositive, l1Vars, localVars
<1>7. CommitAwaitsRecord'
  <2>1. ASSUME at = "recording" PROVE row'[submittedTx] = "absent"
    BY <1>5, <2>1, SentHaveHashes DEF CommitterInv, CommitAwaitsRecord
  <2> QED BY <1>1, <1>2, <2>1 DEF CommitterInv, CommitAwaitsRecord, l1Vars, localVars
<1>8. ReadArePending'
  BY <1>1 DEF CommitterInv, ReadArePending, TypeOK, localVars
<1>9. OneIsTracked'
  <2>1. SUFFICES ASSUME NEW h \in Heights
                 PROVE  \/ Cardinality(CommitsOf(h)) <= untracked'[h]
                        \/ /\ Cardinality(CommitsOf(h)) <= untracked'[h] + 1
                           /\ submission'[h] # "absent" \/ (at = "recording" /\ epoch = h)
    BY <1>1, <1>2 DEF OneIsTracked, localVars
  <2> DEFINE count == Cardinality(CommitsOf(h))
  <2>2. count \in Nat /\ untracked[h] \in Nat
    BY CommitsAreFinite DEF CommitterInv, TypeOK
  <2>3. \/ count <= untracked[h]
        \/ /\ count <= untracked[h] + 1
           /\ submission[h] # "absent" \/ (at = "recording" /\ epoch = h)
    BY DEF CommitterInv, OneIsTracked
  <2>4. CASE h \in gone
    <3>1. untracked'[h] = untracked[h] + 1
      BY <1>1, <2>4
    <3> QED BY <2>2, <2>3, <3>1
  <2>5. CASE h \notin gone
    <3>1. untracked'[h] = untracked[h] /\ submission'[h] = submission[h]
      BY <1>1, <2>5
    <3> QED BY <2>3, <3>1
  <2> QED BY <2>4, <2>5
<1>10. TablesAgree'
  <2>1. SUFFICES ASSUME NEW h \in Heights
                 PROVE  LET rows == {t \in Sent : row'[t] # "absent" /\ h \in sentTxs[t].payload}
                        IN  /\ submission'[h] = "absent" => rows = {}
                            /\ submission'[h] # "absent" =>
                                 \E t \in rows : rows = {t} /\ (submission'[h] = "open" <=> row'[t] = "Pending")
    BY <1>1, <1>2 DEF TablesAgree, l1Vars
  <2> DEFINE old == {t \in Sent : row[t] # "absent" /\ h \in sentTxs[t].payload}
             rows == {t \in Sent : row'[t] # "absent" /\ h \in sentTxs[t].payload}
  <2>2. /\ submission[h] = "absent" => old = {}
        /\ submission[h] # "absent" =>
             \E t \in old : old = {t} /\ (submission[h] = "open" <=> row[t] = "Pending")
    BY DEF CommitterInv, TablesAgree
  <2>3. \A t \in Sent : t \in TxHashes
    BY SentHaveHashes DEF CommitterInv
  <2>4. rows = old \ txs /\ \A t \in rows : row'[t] = row[t]
    BY <1>1, <2>3
  <2>5. \A t \in txs : row[t] # "absent"
    BY DEF txs, TxsBefore
  <2>6. h \in gone <=> old \cap txs # {} /\ old \subseteq txs
    BY <1>3, <2>5 DEF PrunedSubmissions
  <2>7. submission'[h] = IF h \in gone THEN "absent" ELSE submission[h]
    BY <1>1
  <2> QED BY <2>2, <2>4, <2>6, <2>7
<1> QED BY <1>2, <1>4, <1>6, <1>7, <1>8, <1>9, <1>10 DEF CommitterInv

\* Every step keeps the invariant.
LEMMA NextCommitter == CommitterInv /\ [Next]_vars => CommitterInv'
<1>1. SUFFICES ASSUME CommitterInv, [Next]_vars PROVE CommitterInv'
  OBVIOUS
<1>2. CASE Run
  <2>1. CASE \E t \in toUpdate : QueryTx(t)
    BY <1>1, <2>1, QueryStep
  <2> QED BY <1>1, <1>2, <2>1, DecideStep, ReadStep, EndStep, SendStep, RecordStep DEF Run
<1>3. CASE \E date \in Sent : PruneEntriesOlderThan(date)
  BY <1>1, <1>3, PruneStep
<1>4. CASE NewFuelBlock \/ (ChainNext /\ UNCHANGED OffChain) \/ UNCHANGED vars
  BY <1>1, <1>4, WorldStep
<1> QED BY <1>1, <1>2, <1>3, <1>4 DEF Next

-----------------------------------------------------------------------------
(* The theorems.                                                           *)

\* The inductive invariant of the block committer.
THEOREM CommitterInvariance == Spec => []CommitterInv
<1>1. Init => CommitterInv
  BY InitCommitter
<1>2. CommitterInv /\ [Next]_vars => CommitterInv'
  BY NextCommitter
<1> QED BY <1>1, <1>2, PTL DEF Spec

\* The committer's variables have their types.
THEOREM CommitterTypes == Spec => []TypeOK
<1>1. CommitterInv => TypeOK
  BY DEF CommitterInv
<1> QED BY <1>1, CommitterInvariance, PTL

\* l1_fuel_block_submission and l1_transaction agree: update_block_submission_tx and
\* record_block_submission change both at once, and no epoch is recorded twice.
THEOREM SubmissionTablesAgree == Spec => []TablesAgree
<1>1. CommitterInv => TablesAgree
  BY DEF CommitterInv
<1> QED BY <1>1, CommitterInvariance, PTL

\* The commit of an epoch is sent again only after submit_block sent it and ended
\* without a record of it (a lost answer, a failed insert, a crash), or after the pruner
\* deleted its submission, and once for each such event.
THEOREM EpochsAreResentOnlyIfUntracked == Spec => []ResentOnlyIfUntracked
<1>1. CommitterInv => ResentOnlyIfUntracked
  <2>1. SUFFICES ASSUME CommitterInv, NEW h \in Heights
                 PROVE  Cardinality(CommitsOf(h)) <= 1 + untracked[h]
    BY DEF ResentOnlyIfUntracked, CommitsOf
  <2>2. Cardinality(CommitsOf(h)) \in Nat /\ untracked[h] \in Nat
    BY <2>1, CommitsAreFinite DEF CommitterInv, TypeOK
  <2>3. Cardinality(CommitsOf(h)) <= untracked[h] \/ Cardinality(CommitsOf(h)) <= untracked[h] + 1
    BY <2>1 DEF CommitterInv, OneIsTracked
  <2> QED BY <2>2, <2>3
<1> QED BY <1>1, CommitterInvariance, PTL

\* The committer never goes back to an epoch that is recorded, or before one.
THEOREM CommitsGoForward == Spec => PostsOnlyNewerEpochs
<1>1. CommitterInv /\ [Next]_vars =>
        [\A h \in Submitted : Len(sentTxs') > Len(sentTxs) =>
           \A g \in sentTxs'[Len(sentTxs')].payload : g > h]_vars
  <2>1. SUFFICES ASSUME CommitterInv, [Next]_vars, NEW h \in Submitted, Len(sentTxs') > Len(sentTxs)
                 PROVE  \A g \in sentTxs'[Len(sentTxs')].payload : g > h
    OBVIOUS
  <2>2. Len(sentTxs) \in Nat
    BY <2>1, LenProperties DEF CommitterInv, TypeOK, EthereumTypeOK
  <2>3. sentTxs' # sentTxs
    BY <2>1, <2>2
  <2>4. SubmitAccepted \/ SubmitTimedOut
    <3>1. ChainNext => UNCHANGED sentTxs
      BY DEF ChainNext, MineBlock, Reorg, Evict, EvictQueued
    <3> QED BY <2>1, <2>3, <3>1
            DEF Next, Run, Post, UpdateTx, ReadNonce, SubmitFailed, RecordBlockSubmission, RecordFailed,
                ReadBlockNumber, QueryTx, QueryPruned, UpdateDone, Abort, NewFuelBlock,
                PruneEntriesOlderThan, l1Vars, vars
  <2>5. PICK fee \in 0..MaxFee : Broadcast(CommitTx(fee))
    BY <2>4 DEF SubmitAccepted, SubmitTimedOut
  <2>6. at = "sending"
    BY <2>4 DEF SubmitAccepted, SubmitTimedOut
  <2>7. sentTxs' = Append(sentTxs, CommitTx(fee)) /\ sentTxs \in Seq(TxRequest) /\ CommitTx(fee) \in TxRequest
    BY <2>1, <2>5, <2>6, BlockCommitterAssumption
       DEF Broadcast, CommitTx, TxRequest, CommitterInv, TypeOK, EthereumTypeOK, NonceIsPositive
  <2>8. sentTxs'[Len(sentTxs')] = CommitTx(fee)
    BY <2>7, AppendProperties
  <2>9. sentTxs'[Len(sentTxs')].payload = {epoch}
    BY <2>8 DEF CommitTx
  <2>10. h < epoch
    BY <2>1, <2>6 DEF CommitterInv, PostingIsNewer, Posting
  <2> QED BY <2>1, <2>9, <2>10 DEF CommitterInv, TypeOK, Heights, Submitted
<1> QED BY <1>1, CommitterInvariance, PTL DEF Spec, PostsOnlyNewerEpochs

-----------------------------------------------------------------------------
(* A chain that loses nothing.                                             *)

\* Steps that leave chain and node alone and record nothing new.
LEMMA QuietSurvival ==
  ASSUME CommitterInv, SurvivalInv, UNCHANGED <<mined, mempool, sentTxs>>,
         \A t \in Sent : row'[t] # "absent" => row[t] # "absent",
         at' = "recording" => at = "recording" /\ UNCHANGED submittedTx,
         at' = "sending" => nonce' <= Len(mined) + 1
  PROVE  SurvivalInv'
<1>1. Sent' = Sent /\ \A t : Nonce(t)' = Nonce(t) /\ Included(t)' = Included(t)
  BY DEF Sent, Nonce, Included
<1>2. \A t, h : Superseded(t, h)' = Superseded(t, h)
  BY <1>1 DEF Superseded
<1> QED BY <1>1, <1>2 DEF SurvivalInv, OneInMempool, RecordsSurvive, CommitIsThere, NonceWasNext

\* A block takes the one transaction of the mempool, or none.
LEMMA MineSurvival ==
  ASSUME CommitterInv, SurvivalInv, ChainFaults = FALSE, NEW k \in Nat, MineBlock(k), UNCHANGED OffChain
  PROVE  SurvivalInv'
<1>1. PICK batch \in [1..k -> Inclusion(Sent, {height + 1})] :
        /\ \A i \in 1..k : Nonce(batch[i].tx) = Len(mined) + i /\ batch[i].tx \in mempool
        /\ mined' = mined \o batch
        /\ mempool' = {t \in mempool : Nonce(t) > Len(mined) + k}
        /\ UNCHANGED sentTxs
  BY DEF MineBlock
<1>2. /\ batch \in Seq(Inclusion(Sent, {height + 1})) /\ Len(batch) = k
      /\ mined \in Seq(Inclusion(Sent, 1..height)) /\ Len(mined) \in Nat
  <2>1. batch \in Seq(Inclusion(Sent, {height + 1})) /\ Len(batch) = k
    BY FunctionIsSeq
  <2>2. mined \in Seq(Inclusion(Sent, 1..height)) /\ Len(mined) \in Nat
    BY LenProperties DEF CommitterInv, EthereumInv, EthereumTypeOK
  <2> QED BY <2>1, <2>2
<1>3. k \in {0, 1}
  <2>1. ASSUME k > 1 PROVE FALSE
    <3>1. 1 \in 1..k /\ 2 \in 1..k
      BY <2>1
    <3>2. batch[1].tx = batch[2].tx
      BY <1>1, <3>1 DEF SurvivalInv, OneInMempool
    <3>3. Len(mined) + 1 = Len(mined) + 2
      BY <1>1, <3>1, <3>2
    <3> QED BY <1>2, <3>3
  <2> QED BY <2>1
<1>4. /\ Len(mined') = Len(mined) + k
      /\ \A n \in 1..Len(mined) : mined'[n] = mined[n]
      /\ k = 1 => mined'[Len(mined) + 1] = batch[1]
  <2> DEFINE both == Inclusion(Sent, {height + 1}) \cup Inclusion(Sent, 1..height)
  <2>1. mined \in Seq(both) /\ batch \in Seq(both)
    BY <1>2, SeqMonotonic
  <2>2. /\ Len(mined \o batch) = Len(mined) + k
        /\ \A i \in 1..(Len(mined) + k) :
             (mined \o batch)[i] = IF i <= Len(mined) THEN mined[i] ELSE batch[i - Len(mined)]
    <3> HIDE DEF both
    <3> QED BY <1>2, <2>1, ConcatProperties
  <2>3. \A n \in 1..Len(mined) : n \in 1..(Len(mined) + k) /\ n <= Len(mined)
    BY <1>2
  <2>4. k = 1 => /\ Len(mined) + 1 \in 1..(Len(mined) + k) /\ ~(Len(mined) + 1 <= Len(mined))
                 /\ (Len(mined) + 1) - Len(mined) = 1
    BY <1>2
  <2> QED BY <1>1, <2>2, <2>3, <2>4
<1>5. Sent' = Sent /\ \A t : Nonce(t)' = Nonce(t) /\ (Included(t) => Included(t)')
  <2>1. Sent' = Sent /\ \A t : Nonce(t)' = Nonce(t)
    BY <1>1 DEF Sent, Nonce
  <2>2. \A t : Nonce(t) \in 1..Len(mined) => Nonce(t) \in 1..Len(mined')
    BY <1>2, <1>3, <1>4
  <2> QED BY <1>4, <2>1, <2>2 DEF Included
<1>6. \A t, h : Superseded(t, h)' = Superseded(t, h)
  BY <1>1, <1>5 DEF Superseded
<1>7. \A t \in mempool : t \in mempool' \/ Included(t)'
  <2>1. CASE k = 0
    BY <1>1, <1>2, <2>1 DEF SurvivalInv, OneInMempool
  <2>2. CASE k = 1
    <3>1. SUFFICES ASSUME NEW t \in mempool PROVE Included(t)'
      OBVIOUS
    <3>2. 1 \in 1..k /\ t = batch[1].tx /\ Nonce(t) = Len(mined) + 1
      BY <1>1, <2>2 DEF SurvivalInv, OneInMempool
    <3>3. Len(mined) + 1 \in 1..Len(mined')
      BY <1>2, <1>4, <2>2
    <3> QED BY <1>4, <1>5, <2>2, <3>2, <3>3 DEF Included
  <2> QED BY <1>3, <2>1, <2>2
<1>8. OneInMempool'
  <2>1. CASE k = 0
    BY <1>1, <1>2, <1>4, <1>5, <2>1 DEF SurvivalInv, OneInMempool
  <2>2. CASE k = 1
    <3>1. mempool' = {}
      BY <1>1, <1>2, <2>2 DEF SurvivalInv, OneInMempool
    <3> QED BY <3>1 DEF OneInMempool
  <2> QED BY <1>3, <2>1, <2>2
<1>9. RecordsSurvive' /\ CommitIsThere'
  BY <1>1, <1>5, <1>6, <1>7
     DEF SurvivalInv, RecordsSurvive, CommitIsThere, OffChain, tableVars, localVars
<1>10. NonceWasNext'
  BY <1>2, <1>3, <1>4 DEF SurvivalInv, NonceWasNext, OffChain, localVars, CommitterInv, TypeOK
<1> QED BY <1>8, <1>9, <1>10 DEF SurvivalInv

\* Nothing else happens to such a chain.
LEMMA ChainSurvival ==
  ASSUME CommitterInv, SurvivalInv, ChainFaults = FALSE, ChainNext, UNCHANGED OffChain
  PROVE  SurvivalInv'
<1>1. ~Reorg /\ ~Evict
  BY DEF Reorg, Evict, ChainFault
<1>2. ~EvictQueued
  <2>1. SUFFICES ASSUME NEW t \in mempool, NonceGap(t) PROVE FALSE
    BY DEF EvictQueued
  <2>2. Len(mined) \in Nat /\ Nonce(t) = Len(mined) + 1
    BY LenProperties DEF SurvivalInv, OneInMempool, CommitterInv, EthereumInv, EthereumTypeOK
  <2>3. (Len(mined) + 1)..(Nonce(t) - 1) = {}
    BY <2>2
  <2> QED BY <2>1, <2>3 DEF NonceGap
<1>3. PICK k \in 0..MaxTxsPerBlock : MineBlock(k)
  BY <1>1, <1>2 DEF ChainNext
<1>4. k \in Nat
  BY EthereumAssumption
<1> QED BY <1>3, <1>4, MineSurvival

\* A commit takes the place only of one for an older epoch.
LEMMA SendSurvival ==
  ASSUME CommitterInv, CommitterInv', SurvivalInv, SubmitAccepted \/ SubmitTimedOut
  PROVE  SurvivalInv'
<1> DEFINE new == Len(sentTxs) + 1
<1>1. PICK fee \in 0..MaxFee : Broadcast(CommitTx(fee))
  BY DEF SubmitAccepted, SubmitTimedOut
<1>2. /\ at = "sending" /\ at' \in {"idle", "recording"} /\ UNCHANGED tableVars
      /\ at' = "recording" => submittedTx' = new
  BY DEF SubmitAccepted, SubmitTimedOut, Reset
<1>3. /\ sentTxs' = Append(sentTxs, CommitTx(fee)) /\ UNCHANGED mined
      /\ mempool' = {u \in mempool : Nonce(u) # nonce} \cup {new}
      /\ nonce > Len(mined)
  BY <1>1 DEF Broadcast, Accepts, CommitTx
<1>4. /\ sentTxs \in Seq(TxRequest) /\ CommitTx(fee) \in TxRequest /\ Len(sentTxs) \in Nat
      /\ Len(mined) \in Nat /\ mempool \subseteq Sent /\ epoch \in Heights
  <2>1. CommitTx(fee) \in TxRequest /\ epoch \in Heights
    BY <1>2, BlockCommitterAssumption DEF CommitTx, TxRequest, CommitterInv, TypeOK, NonceIsPositive
  <2> QED BY <2>1, LenProperties DEF CommitterInv, EthereumInv, EthereumTypeOK
<1>5. /\ Len(sentTxs') = new /\ sentTxs'[new] = CommitTx(fee)
      /\ \A t \in 1..Len(sentTxs) : sentTxs'[t] = sentTxs[t]
  BY <1>3, <1>4, AppendProperties
<1>6. Sent' = Sent \cup {new} /\ \A t \in Sent : t < new
  BY <1>4, <1>5 DEF Sent
<1>7. /\ \A t \in Sent : Nonce(t)' = Nonce(t) /\ Included(t)' = Included(t) /\ sentTxs'[t] = sentTxs[t]
      /\ sentTxs'[new].nonce = nonce /\ sentTxs'[new].payload = {epoch}
  <2>1. \A t \in Sent : sentTxs'[t] = sentTxs[t]
    BY <1>5 DEF Sent
  <2>2. \A t \in Sent : Nonce(t)' = Nonce(t) /\ Included(t)' = Included(t)
    BY <1>3, <2>1 DEF Nonce, Included
  <2> QED BY <1>5, <2>1, <2>2 DEF CommitTx
<1>8. nonce = Len(mined) + 1
  <2>1. nonce <= Len(mined) + 1 /\ nonce \in Nat
    BY <1>2 DEF SurvivalInv, NonceWasNext, CommitterInv, TypeOK
  <2> QED BY <1>3, <1>4, <2>1
<1>9. mempool' = {new}
  BY <1>3, <1>8 DEF SurvivalInv, OneInMempool
<1> HIDE DEF new
<1>10. OneInMempool'
  BY <1>3, <1>7, <1>8, <1>9 DEF OneInMempool, Nonce
<1>11. CommitIsThere' /\ NonceWasNext'
  BY <1>2, <1>9 DEF CommitIsThere, NonceWasNext
<1>12. RecordsSurvive'
  <2>1. SUFFICES ASSUME NEW t \in Sent', NEW h \in Heights,
                        row'[t] # "absent", sentTxs'[t].payload = {h}
                 PROVE  (t \in mempool \/ Included(t) \/ Superseded(t, h))'
    BY DEF RecordsSurvive
  <2>2. CASE t = new
    BY <1>9, <2>2
  <2>3. CASE t \in Sent
    <3>1. row[t] # "absent" /\ sentTxs[t].payload = {h}
      BY <1>2, <1>7, <2>1, <2>3 DEF tableVars
    <3>2. CASE Included(t)
      BY <1>7, <2>3, <3>2
    <3>3. CASE Superseded(t, h)
      BY <1>6, <1>7, <2>3, <3>3 DEF Superseded
    <3>4. CASE t \in mempool
      <4>1. Nonce(t) = nonce
        BY <1>8, <3>4 DEF SurvivalInv, OneInMempool
      <4>2. h < epoch
        <5>1. submission[h] # "absent"
          BY <2>3, <3>1 DEF CommitterInv, TablesAgree
        <5> QED BY <1>2, <5>1 DEF CommitterInv, PostingIsNewer, Posting, Submitted
      <4>3. epoch > h /\ new > t
        BY <1>4, <1>6, <2>3, <4>2 DEF Heights, Sent
      <4>4. new \in Sent' /\ sentTxs'[new].nonce = Nonce(t)'
        BY <1>6, <1>7, <2>3, <4>1
      <4> QED BY <1>7, <4>3, <4>4 DEF Superseded, Nonce
    <3> QED BY <2>3, <3>1, <3>2, <3>3, <3>4 DEF SurvivalInv, RecordsSurvive
  <2> QED BY <1>6, <2>1, <2>2, <2>3
<1> QED BY <1>10, <1>11, <1>12 DEF SurvivalInv

\* What is recorded has just been sent.
LEMMA RecordSurvival ==
  ASSUME CommitterInv, SurvivalInv, RecordBlockSubmission
  PROVE  SurvivalInv'
<1>1. /\ at = "recording" /\ at' = "idle" /\ row' = [row EXCEPT ![submittedTx] = "Pending"]
      /\ UNCHANGED <<mined, mempool, sentTxs>>
  BY DEF RecordBlockSubmission, Reset, l1Vars
<1>2. Sent' = Sent /\ \A t : Nonce(t)' = Nonce(t) /\ Included(t)' = Included(t)
  BY <1>1 DEF Sent, Nonce, Included
<1>3. \A t, h : Superseded(t, h)' = Superseded(t, h)
  BY <1>1, <1>2 DEF Superseded
<1>4. \A t \in Sent : t # submittedTx /\ row'[t] # "absent" => row[t] # "absent"
  BY <1>1 DEF CommitterInv, TypeOK
<1>5. submittedTx \in mempool \/ Included(submittedTx)
  BY <1>1 DEF SurvivalInv, CommitIsThere
<1>6. RecordsSurvive'
  BY <1>1, <1>2, <1>3, <1>4, <1>5 DEF SurvivalInv, RecordsSurvive
<1> QED BY <1>1, <1>2, <1>6 DEF SurvivalInv, OneInMempool, CommitIsThere, NonceWasNext

\* Every other step of the committer.
LEMMA RestSurvival ==
  ASSUME CommitterInv, SurvivalInv,
         \/ Post \/ UpdateTx \/ ReadNonce \/ SubmitFailed \/ RecordFailed
         \/ ReadBlockNumber \/ (\E t \in toUpdate : QueryTx(t) \/ QueryPruned(t)) \/ UpdateDone \/ Abort
         \/ NewFuelBlock \/ (\E date \in Sent : PruneEntriesOlderThan(date)) \/ UNCHANGED vars
  PROVE  SurvivalInv'
<1>1. UNCHANGED <<mined, mempool, sentTxs>>
  BY DEF Post, UpdateTx, ReadNonce, SubmitFailed, RecordFailed, ReadBlockNumber, QueryTx, QueryPruned,
         UpdateDone, Abort, NewFuelBlock, PruneEntriesOlderThan, l1Vars, vars
<1>2. at' = "recording" => at = "recording" /\ UNCHANGED submittedTx
  BY DEF Post, UpdateTx, ReadNonce, SubmitFailed, RecordFailed, ReadBlockNumber, QueryTx, QueryPruned,
         UpdateDone, Abort, NewFuelBlock, PruneEntriesOlderThan, localVars, vars, Reset
<1>3. at' = "sending" => nonce' <= Len(mined) + 1
  <2>1. Len(mined) + 1 \in Nat
    BY LenProperties DEF CommitterInv, EthereumInv, EthereumTypeOK
  <2>2. ReadNonce => nonce' <= Len(mined) + 1
    BY <2>1 DEF ReadNonce, LatestNonce
  <2>3. at' = "sending" /\ ~ReadNonce => at = "sending" /\ nonce' = nonce
    BY DEF Post, UpdateTx, SubmitFailed, RecordFailed, ReadBlockNumber, QueryTx, QueryPruned,
           UpdateDone, Abort, NewFuelBlock, PruneEntriesOlderThan, localVars, vars, Reset
  <2> QED BY <2>2, <2>3 DEF SurvivalInv, NonceWasNext
<1>4. \A t \in Sent : row'[t] # "absent" => row[t] # "absent"
  <2>1. CASE UNCHANGED row
    BY <2>1
  <2>2. CASE \E t \in toUpdate : QueryTx(t)
    <3>1. PICK t \in toUpdate : QueryTx(t)
      BY <2>2
    <3>2. \/ UNCHANGED row
          \/ row[t] # "absent" /\ \E state \in {"Finalized", "Failed"} : row' = [row EXCEPT ![t] = state]
      BY <3>1 DEF QueryTx, UpdateBlockSubmissionTx, tableVars
    <3>4. CASE UNCHANGED row
      BY <3>4
    <3>5. ASSUME row[t] # "absent",
                 NEW state \in {"Finalized", "Failed"}, row' = [row EXCEPT ![t] = state],
                 NEW u \in Sent, row'[u] # "absent"
          PROVE  row[u] # "absent"
      BY <3>5, SentHaveHashes DEF CommitterInv, TypeOK
    <3> QED BY <3>2, <3>4, <3>5
  <2>3. CASE \E date \in Sent : PruneEntriesOlderThan(date)
    BY <2>3, SentHaveHashes DEF PruneEntriesOlderThan, CommitterInv
  <2> QED BY <2>1, <2>2, <2>3
          DEF Post, UpdateTx, ReadNonce, SubmitFailed, RecordFailed, ReadBlockNumber, QueryPruned,
              UpdateDone, Abort, NewFuelBlock, vars, tableVars
<1> QED BY <1>1, <1>2, <1>3, <1>4, QuietSurvival

\* While the chain neither reorgs nor loses a transaction, the commit on record for
\* the latest epoch is with the node or mined, unless a newer commit took its nonce:
\* submit_block sends with the nonce of the latest block.
THEOREM CommitsSurvive ==
  ASSUME ChainFaults = FALSE
  PROVE  Spec => []LatestCommitSurvives
<1>1. Init => SurvivalInv
  BY DEF Init, EthereumInit, SurvivalInv, OneInMempool, RecordsSurvive, CommitIsThere, NonceWasNext, Sent
<1>2. CommitterInv /\ CommitterInv' /\ SurvivalInv /\ [Next]_vars => SurvivalInv'
  BY ChainSurvival, SendSurvival, RecordSurvival, RestSurvival DEF Next, Run
<1>3. CommitterInv /\ SurvivalInv => LatestCommitSurvives
  <2>1. SUFFICES ASSUME CommitterInv, SurvivalInv, Submitted # {}
                 PROVE  \E t \in Sent :
                          /\ row[t] # "absent" /\ sentTxs[t].payload = {LatestSubmission}
                          /\ t \in mempool \/ Included(t) \/ Superseded(t, LatestSubmission)
    BY DEF LatestCommitSurvives, Superseded
  <2>2. LatestSubmission \in Heights /\ submission[LatestSubmission] # "absent"
    BY <2>1, LatestIsSubmitted DEF Submitted
  <2>3. PICK t \in Sent : row[t] # "absent" /\ LatestSubmission \in sentTxs[t].payload
    BY <2>1, <2>2 DEF CommitterInv, TablesAgree
  <2>4. sentTxs[t].payload = {LatestSubmission}
    BY <2>1, <2>3 DEF CommitterInv, OneBlockEach
  <2> QED BY <2>1, <2>2, <2>3, <2>4 DEF SurvivalInv, RecordsSurvive
<1> QED BY <1>1, <1>2, <1>3, CommitterInvariance, PTL DEF Spec
=============================================================================
