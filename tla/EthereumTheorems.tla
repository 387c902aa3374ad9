-------------------------- MODULE EthereumTheorems --------------------------
(***************************************************************************)
(* Facts about the chain and the node's interface, for every value of the  *)
(* constants: what the committers' invariants need to know of a step of    *)
(* the chain and of a broadcast.                                           *)
(***************************************************************************)
EXTENDS Ethereum, TLAPS, FiniteSetTheorems, SequenceTheorems, WellFoundedInduction

\* A non-empty set of naturals has a least element.
LEMMA LeastElement ==
  ASSUME NEW T \in SUBSET Nat, T # {}
  PROVE  \E x \in T : \A y \in T : x <= y
<1>1. \E x \in T : \A y \in T : <<y, x>> \notin OpToRel(<, Nat)
  BY WFMin, NatLessThanWellFounded
<1>2. PICK x \in T : \A y \in T : <<y, x>> \notin OpToRel(<, Nat)
  BY <1>1
<1>3. \A y \in T : ~(y < x)
  BY <1>2 DEF OpToRel
<1> QED BY <1>3

\* A non-empty set of positive naturals up to n has a greatest element.
LEMMA GreatestElement ==
  ASSUME NEW n \in Nat, NEW T \in SUBSET (1..n), T # {}
  PROVE  \E x \in T : \A y \in T : y <= x
<1> DEFINE U == {k \in 0..n : n - k \in T}
<1>1. U \in SUBSET Nat /\ U # {}
  <2>1. PICK x \in T : TRUE
    OBVIOUS
  <2>2. n - x \in U
    <3>1. x \in 1..n /\ n - (n - x) = x
      BY <2>1
    <3> QED BY <3>1, <2>1
  <2>3. U \in SUBSET Nat
    OBVIOUS
  <2> QED BY <2>2, <2>3
<1>2. PICK k \in U : \A j \in U : k <= j
  <2> HIDE DEF U
  <2> QED BY <1>1, LeastElement
<1>3. ASSUME NEW y \in T PROVE y <= n - k
  <2>1. y \in 1..n /\ n - y \in 0..n /\ n - (n - y) = y
    OBVIOUS
  <2>2. n - y \in U
    BY <2>1
  <2> QED BY <1>2, <2>1, <2>2
<1> QED BY <1>3, <1>2

\* A function on 1..n is a sequence of length n.
LEMMA FunctionIsSeq ==
  ASSUME NEW S, NEW n \in Nat, NEW f \in [1..n -> S]
  PROVE  f \in Seq(S) /\ Len(f) = n
<1>1. f \in Seq(S)
  OBVIOUS
<1>2. Len(f) \in Nat /\ DOMAIN f = 1..Len(f)
  BY <1>1, LenProperties
<1>3. 1..Len(f) = 1..n
  BY <1>2
<1> QED BY <1>1, <1>2, <1>3

\* There is a free nonce for the next transaction: the node counts the pending
\* transactions up to the first gap.
LEMMA PendingNonceFree ==
  ASSUME EthereumTypeOK, EthereumAssumption
  PROVE  /\ PendingNonce \in (Len(mined) + 1)..(Len(mined) + MaxTxs + 1)
         /\ \A u \in mempool : Nonce(u) # PendingNonce
<1> DEFINE first == Len(mined) + 1
           last == Len(mined) + MaxTxs + 1
           taken == {Nonce(u) : u \in mempool}
           free == {n \in first..last : n \notin taken}
<1>1. Len(mined) \in Nat /\ MaxTxs \in Nat /\ Len(sentTxs) \in 0..MaxTxs
  BY LenProperties DEF EthereumTypeOK, EthereumAssumption
<1>2. IsFiniteSet(mempool) /\ Cardinality(mempool) <= Len(sentTxs)
  <2>1. IsFiniteSet(Sent) /\ Cardinality(Sent) = Len(sentTxs)
    <3>1. /\ IsFiniteSet(1..Len(sentTxs))
          /\ Cardinality(1..Len(sentTxs)) = IF 1 > Len(sentTxs) THEN 0 ELSE Len(sentTxs) - 1 + 1
      <4>1. 1 \in Int /\ Len(sentTxs) \in Int
        BY <1>1
      <4> QED BY <4>1, FS_Interval
    <3> QED BY <3>1, <1>1 DEF Sent
  <2>2. mempool \in SUBSET Sent
    BY DEF EthereumTypeOK
  <2>3. Cardinality(mempool) <= Cardinality(Sent) /\ IsFiniteSet(mempool)
    BY <2>1, <2>2, FS_Subset
  <2> QED BY <2>1, <2>3
<1>3. IsFiniteSet(taken) /\ Cardinality(taken) <= Cardinality(mempool)
  <2> DEFINE f == [u \in mempool |-> Nonce(u)]
  <2>1. f \in Surjection(mempool, taken)
    BY DEF Surjection
  <2> HIDE DEF f, taken
  <2> QED BY <2>1, <1>2, FS_Surjection
<1>4. free # {}
  <2>1. SUFFICES ASSUME free = {} PROVE FALSE
    OBVIOUS
  <2>2. first..last \in SUBSET taken
    BY <2>1
  <2>3. Cardinality(first..last) = MaxTxs + 1
    <3>1. first \in Int /\ last \in Int /\ ~(first > last) /\ last - first + 1 = MaxTxs + 1
      BY <1>1
    <3> HIDE DEF first, last
    <3>2. Cardinality(first..last) = IF first > last THEN 0 ELSE last - first + 1
      BY <3>1, FS_Interval
    <3> QED BY <3>1, <3>2
  <2>4. Cardinality(first..last) <= Cardinality(taken)
    <3> HIDE DEF first, last, taken
    <3> QED BY <2>2, <1>3, FS_Subset
  <2>5. Cardinality(taken) \in Nat /\ Cardinality(mempool) \in Nat
    BY <1>2, <1>3, FS_CardinalityType
  <2> HIDE DEF first, last, taken
  <2> QED BY <2>3, <2>4, <2>5, <1>1, <1>2, <1>3
<1>5. PICK n \in free : \A m \in free : n <= m
  <2>1. free \in SUBSET Nat
    BY <1>1
  <2> HIDE DEF free
  <2> QED BY <2>1, <1>4, LeastElement
<1>6. \A m \in (Len(mined) + 1)..(n - 1) : \E u \in mempool : Nonce(u) = m
  <2>1. ASSUME NEW m \in (Len(mined) + 1)..(n - 1) PROVE m \in taken
    <3>1. m \in first..last /\ ~(n <= m)
      BY <1>1, <1>5
    <3> QED BY <3>1, <1>5
  <2> QED BY <2>1
<1>7. n \in first..last /\ \A u \in mempool : Nonce(u) # n
  BY <1>5
<1> QED BY <1>6, <1>7 DEF PendingNonce

-----------------------------------------------------------------------------
(* Steps of the chain.  What is settled stays settled, whatever reorgs.    *)

\* A new block keeps nonces in order and adds confirmations.
LEMMA MineBlockStep ==
  ASSUME EthereumInv, NEW k \in Nat, MineBlock(k), EthereumAssumption
  PROVE  EthereumInv' /\ irreversible' >= irreversible /\ \A t : Settled(t) => Settled(t)'
<1>1. PICK batch \in [1..k -> Inclusion(Sent, {height + 1})] :
        /\ height < MaxHeight
        /\ \A i \in 1..k : Nonce(batch[i].tx) = Len(mined) + i
        /\ IF \A i \in 1..k : batch[i].tx \in mempool /\ batch[i].succeeded
           THEN UNCHANGED faults ELSE Fault
        /\ height' = height + 1
        /\ irreversible' = IF height + 1 - NumBlocksToFinalize > irreversible
                           THEN height + 1 - NumBlocksToFinalize ELSE irreversible
        /\ mined' = mined \o batch
        /\ mempool' = {t \in mempool : Nonce(t) > Len(mined) + k}
        /\ UNCHANGED sentTxs
  BY DEF MineBlock
<1>2. /\ height \in Nat /\ irreversible \in 0..height /\ NumBlocksToFinalize \in Nat
      /\ MaxHeight \in Nat /\ MaxFaults \in Nat /\ faults \in 0..MaxFaults
      /\ height <= irreversible + NumBlocksToFinalize
  BY DEF EthereumInv, EthereumTypeOK, EthereumAssumption, IrreversibleLag
<1>3. /\ height' \in 0..MaxHeight /\ irreversible' \in 0..height'
      /\ irreversible' >= irreversible /\ IrreversibleLag'
  BY <1>1, <1>2 DEF IrreversibleLag
<1>4. /\ mined \in Seq(Inclusion(Sent, 1..(height + 1)))
      /\ batch \in Seq(Inclusion(Sent, 1..(height + 1)))
      /\ Len(batch) = k
  <2>1. mined \in Seq(Inclusion(Sent, 1..height))
    BY DEF EthereumInv, EthereumTypeOK
  <2>2. 1..height \subseteq 1..(height + 1) /\ {height + 1} \subseteq 1..(height + 1)
    BY <1>2
  <2>3. /\ Inclusion(Sent, 1..height) \subseteq Inclusion(Sent, 1..(height + 1))
        /\ Inclusion(Sent, {height + 1}) \subseteq Inclusion(Sent, 1..(height + 1))
    BY <2>2 DEF Inclusion
  <2>4. mined \in Seq(Inclusion(Sent, 1..(height + 1)))
    BY <2>1, <2>3, SeqMonotonic
  <2>5. batch \in Seq(Inclusion(Sent, {height + 1})) /\ Len(batch) = k
    BY FunctionIsSeq
  <2>6. batch \in Seq(Inclusion(Sent, 1..(height + 1)))
    BY <2>5, <2>3, SeqMonotonic
  <2> QED BY <2>4, <2>5, <2>6
<1>5. /\ mined' \in Seq(Inclusion(Sent, 1..(height + 1)))
      /\ Len(mined') = Len(mined) + k /\ Len(mined) \in Nat
      /\ \A i \in 1..(Len(mined) + k) :
           mined'[i] = IF i <= Len(mined) THEN mined[i] ELSE batch[i - Len(mined)]
  BY <1>1, <1>4, ConcatProperties, LenProperties
<1>6. faults' \in 0..MaxFaults
  BY <1>1, <1>2 DEF Fault
<1>7. EthereumTypeOK'
  <2>1. Sent' = Sent /\ sentTxs' = sentTxs
    BY <1>1 DEF Sent
  <2>2. mempool' \in SUBSET Sent
    BY <1>1 DEF EthereumInv, EthereumTypeOK
  <2> QED BY <1>1, <1>3, <1>5, <1>6, <2>1, <2>2 DEF EthereumInv, EthereumTypeOK
<1>8. MinedInOrder'
  <2>1. ASSUME NEW i \in 1..Len(mined') PROVE (Nonce(mined[i].tx) = i)'
    <3>1. CASE i <= Len(mined)
      <4>1. i \in 1..Len(mined) /\ mined'[i] = mined[i]
        BY <1>5, <2>1, <3>1
      <4> QED BY <4>1, <1>1 DEF EthereumInv, MinedInOrder, Nonce
    <3>2. CASE i > Len(mined)
      <4>1. /\ i - Len(mined) \in 1..k /\ mined'[i] = batch[i - Len(mined)]
            /\ Len(mined) + (i - Len(mined)) = i
        BY <1>5, <2>1, <3>2
      <4> QED BY <4>1, <1>1 DEF Nonce
    <3> QED BY <3>1, <3>2, <1>5
  <2> QED BY <2>1 DEF MinedInOrder
<1>9. ASSUME NEW t, Settled(t) PROVE Settled(t)'
  <2>1. Nonce(t) \in 1..Len(mined) /\ Nonce(t)' = Nonce(t)
    BY <1>9, <1>1 DEF Settled, Included, Nonce
  <2>2. Nonce(t) \in 1..Len(mined') /\ mined'[Nonce(t)] = mined[Nonce(t)]
    BY <1>5, <2>1
  <2>3. mined[Nonce(t)].block \in Nat
    <3>1. mined[Nonce(t)] \in Inclusion(Sent, 1..(height + 1))
      BY <1>4, <2>1, ElementOfSeq
    <3> QED BY <3>1, <1>2 DEF Inclusion
  <2> QED BY <1>9, <1>2, <1>3, <2>1, <2>2, <2>3 DEF Settled, Included
<1> QED BY <1>3, <1>7, <1>8, <1>9 DEF EthereumInv

\* A reorg removes nothing that is settled.
LEMMA ReorgStep ==
  ASSUME EthereumInv, Reorg, EthereumAssumption
  PROVE  EthereumInv' /\ irreversible' = irreversible /\ \A t : Settled(t) => Settled(t)'
<1>1. PICK h \in irreversible..(height - 1), k \in 0..Len(mined) :
        /\ \A i \in 1..Len(mined) : mined[i].block <= h <=> i <= k
        /\ Fault
        /\ height' = h
        /\ mined' = SubSeq(mined, 1, k)
        /\ \E back \in SUBSET {mined[i].tx : i \in (k + 1)..Len(mined)} :
             mempool' = mempool \cup back
        /\ UNCHANGED <<irreversible, sentTxs>>
  BY DEF Reorg, ChainFault
<1>2. /\ height \in 0..MaxHeight /\ irreversible \in 0..height /\ NumBlocksToFinalize \in Nat
      /\ MaxHeight \in Nat /\ MaxFaults \in Nat /\ faults \in 0..MaxFaults
      /\ height <= irreversible + NumBlocksToFinalize
      /\ mined \in Seq(Inclusion(Sent, 1..height)) /\ Len(mined) \in Nat
  BY LenProperties DEF EthereumInv, EthereumTypeOK, EthereumAssumption, IrreversibleLag
<1>3. height' \in 0..MaxHeight /\ irreversible' \in 0..height' /\ IrreversibleLag'
  BY <1>1, <1>2 DEF IrreversibleLag
<1>4. \A i \in 1..Len(mined) : mined[i] \in Inclusion(Sent, 1..height)
  BY <1>2, ElementOfSeq
<1>5. /\ mined' \in Seq(Inclusion(Sent, 1..h))
      /\ Len(mined') = k
      /\ \A i \in 1..k : mined'[i] = mined[i]
  <2>1. \A i \in 1..k : mined[i] \in Inclusion(Sent, 1..h)
    <3>1. ASSUME NEW i \in 1..k PROVE mined[i] \in Inclusion(Sent, 1..h)
      <4>1. i \in 1..Len(mined) /\ i <= k
        BY <1>1, <1>2
      <4>2. mined[i].block <= h /\ mined[i] \in Inclusion(Sent, 1..height)
        BY <4>1, <1>1, <1>4
      <4> QED BY <4>2, <1>1, <1>2 DEF Inclusion
    <3> QED BY <3>1
  <2>2. k \in Int /\ 1 \in Int /\ k - 1 + 1 = k
    BY <1>2
  <2>3. /\ SubSeq(mined, 1, k) \in Seq(Inclusion(Sent, 1..h))
        /\ Len(SubSeq(mined, 1, k)) = IF 1 <= k THEN k - 1 + 1 ELSE 0
        /\ \A i \in 1..(k - 1 + 1) : SubSeq(mined, 1, k)[i] = mined[1 + i - 1]
    <3> HIDE DEF Inclusion
    <3> QED BY <2>1, <2>2, SubSeqProperties
  <2>4. Len(SubSeq(mined, 1, k)) = k
    BY <2>3, <1>2
  <2>5. \A i \in 1..k : SubSeq(mined, 1, k)[i] = mined[i]
    BY <2>3, <1>2
  <2> QED BY <2>3, <2>4, <2>5, <1>1
<1>6. Sent' = Sent /\ sentTxs' = sentTxs
  BY <1>1 DEF Sent
<1>7. mempool' \in SUBSET Sent
  <2>1. ASSUME NEW i \in (k + 1)..Len(mined) PROVE mined[i].tx \in Sent
    <3>1. i \in 1..Len(mined)
      BY <1>2
    <3> QED BY <3>1, <1>4 DEF Inclusion
  <2> QED BY <2>1, <1>1 DEF EthereumInv, EthereumTypeOK
<1>8. EthereumTypeOK'
  <2>1. faults' \in 0..MaxFaults
    BY <1>1, <1>2 DEF Fault
  <2> QED BY <1>1, <1>3, <1>5, <1>6, <1>7, <2>1 DEF EthereumInv, EthereumTypeOK
<1>9. MinedInOrder'
  <2>1. ASSUME NEW i \in 1..Len(mined') PROVE (Nonce(mined[i].tx) = i)'
    <3>1. i \in 1..Len(mined) /\ mined'[i] = mined[i]
      BY <1>2, <1>5
    <3> QED BY <3>1, <1>6 DEF EthereumInv, MinedInOrder, Nonce
  <2> QED BY <2>1 DEF MinedInOrder
<1>10. ASSUME NEW t, Settled(t) PROVE Settled(t)'
  <2>1. Nonce(t) \in 1..Len(mined) /\ Nonce(t)' = Nonce(t)
    BY <1>10, <1>6 DEF Settled, Included, Nonce
  <2>2. mined[Nonce(t)].block \in Nat
    BY <1>4, <2>1, <1>2 DEF Inclusion
  <2>3. mined[Nonce(t)].block <= h
    BY <1>10, <1>1, <1>2, <2>2 DEF Settled
  <2>4. Nonce(t) \in 1..k
    BY <2>1, <2>3, <1>1, <1>2
  <2> QED BY <1>10, <1>1, <1>5, <2>1, <2>4 DEF Settled, Included
<1> QED BY <1>1, <1>3, <1>8, <1>9, <1>10 DEF EthereumInv

\* Forgetting transactions changes nothing that is mined.
LEMMA MempoolStep ==
  ASSUME EthereumInv, Evict \/ EvictQueued, EthereumAssumption
  PROVE  EthereumInv' /\ irreversible' = irreversible /\ \A t : Settled(t) => Settled(t)'
<1>1. /\ UNCHANGED <<height, irreversible, mined, sentTxs>>
      /\ mempool' \in SUBSET mempool
      /\ UNCHANGED faults \/ Fault
  BY DEF Evict, EvictQueued, ChainFault
<1>2. faults' \in 0..MaxFaults
  BY <1>1 DEF Fault, EthereumInv, EthereumTypeOK, EthereumAssumption
<1>3. EthereumTypeOK'
  BY <1>1, <1>2 DEF EthereumInv, EthereumTypeOK, Sent
<1>4. MinedInOrder' /\ IrreversibleLag'
  BY <1>1 DEF EthereumInv, MinedInOrder, IrreversibleLag, Nonce
<1> QED BY <1>1, <1>3, <1>4 DEF EthereumInv, Settled, Included, Nonce

\* A step of the chain keeps the node's view consistent and what is settled settled.
LEMMA ChainStep ==
  ASSUME EthereumInv, ChainNext, EthereumAssumption
  PROVE  /\ EthereumInv'
         /\ UNCHANGED sentTxs
         /\ irreversible' >= irreversible
         /\ \A t : Settled(t) => Settled(t)'
<1>1. irreversible \in Nat
  BY DEF EthereumInv, EthereumTypeOK
<1>2. UNCHANGED sentTxs
  BY DEF ChainNext, MineBlock, Reorg, Evict, EvictQueued
<1>3. CASE \E k \in 0..MaxTxsPerBlock : MineBlock(k)
  <2>1. \A k \in 0..MaxTxsPerBlock : k \in Nat
    BY DEF EthereumAssumption
  <2> QED BY <1>2, <1>3, <2>1, MineBlockStep
<1>4. CASE Reorg
  BY <1>1, <1>2, <1>4, ReorgStep
<1>5. CASE Evict \/ EvictQueued
  BY <1>1, <1>2, <1>5, MempoolStep
<1> QED BY <1>3, <1>4, <1>5 DEF ChainNext

-----------------------------------------------------------------------------
(* Steps of the committer.                                                 *)

\* A broadcast adds a transaction and changes none.
LEMMA BroadcastStep ==
  ASSUME EthereumInv, EthereumAssumption, NEW tx \in TxRequest, Broadcast(tx),
         UNCHANGED faults \/ Fault
  PROVE  /\ EthereumInv'
         /\ irreversible' = irreversible
         /\ Len(sentTxs') = Len(sentTxs) + 1 /\ Len(sentTxs) + 1 \in TxHashes
         /\ Sent' = Sent \cup {Len(sentTxs) + 1}
         /\ \A t \in Sent : sentTxs'[t] = sentTxs[t]
         /\ sentTxs'[Len(sentTxs) + 1] = tx
         /\ \A t \in Sent : Settled(t) => Settled(t)'
<1>1. /\ sentTxs' = Append(sentTxs, tx)
      /\ mempool' = {u \in mempool : Nonce(u) # tx.nonce} \cup {Len(sentTxs) + 1}
      /\ UNCHANGED <<height, irreversible, mined>>
      /\ Len(sentTxs) < MaxTxs
  BY DEF Broadcast, Accepts
<1>2. /\ sentTxs \in Seq(TxRequest) /\ Len(sentTxs) \in Nat /\ MaxTxs \in Nat
      /\ mined \in Seq(Inclusion(Sent, 1..height)) /\ mempool \in SUBSET Sent
  BY LenProperties DEF EthereumInv, EthereumTypeOK, EthereumAssumption
<1>3. /\ sentTxs' \in Seq(TxRequest)
      /\ Len(sentTxs') = Len(sentTxs) + 1
      /\ \A t \in 1..Len(sentTxs) : sentTxs'[t] = sentTxs[t]
      /\ sentTxs'[Len(sentTxs) + 1] = tx
  BY <1>1, <1>2, AppendProperties
<1>4. Sent' = Sent \cup {Len(sentTxs) + 1} /\ Len(sentTxs) + 1 \in TxHashes
  BY <1>1, <1>2, <1>3 DEF Sent, TxHashes
<1>5. faults' \in 0..MaxFaults
  BY DEF Fault, EthereumInv, EthereumTypeOK, EthereumAssumption
<1>6. mined' \in Seq(Inclusion(Sent', 1..height'))
  <2>1. Inclusion(Sent, 1..height) \subseteq Inclusion(Sent', 1..height')
    BY <1>1, <1>4 DEF Inclusion
  <2> QED BY <1>1, <1>2, <2>1, SeqMonotonic
<1>7. EthereumTypeOK'
  BY <1>1, <1>2, <1>3, <1>4, <1>5, <1>6 DEF EthereumInv, EthereumTypeOK
<1>8. \A i \in 1..Len(mined) : mined[i].tx \in Sent
  <2>1. \A i \in 1..Len(mined) : mined[i] \in Inclusion(Sent, 1..height)
    BY <1>2, ElementOfSeq
  <2> QED BY <2>1 DEF Inclusion
<1>9. MinedInOrder' /\ IrreversibleLag'
  BY <1>1, <1>3, <1>8 DEF EthereumInv, MinedInOrder, IrreversibleLag, Nonce, Sent
<1>10. \A t \in Sent : Settled(t) => Settled(t)'
  BY <1>1, <1>3 DEF Settled, Included, Nonce, Sent
<1> QED BY <1>1, <1>3, <1>4, <1>7, <1>9, <1>10 DEF EthereumInv, Sent

\* Nothing but a fault happens to the chain.
LEMMA FaultStep ==
  ASSUME EthereumInv, EthereumAssumption, UNCHANGED faults \/ Fault,
         UNCHANGED <<height, irreversible, mined, mempool, sentTxs>>
  PROVE  EthereumInv' /\ Sent' = Sent /\ \A t : Settled(t) <=> Settled(t)'
<1>1. faults' \in 0..MaxFaults
  BY DEF Fault, EthereumInv, EthereumTypeOK, EthereumAssumption
<1>2. Sent' = Sent
  BY DEF Sent
<1> QED BY <1>1, <1>2 DEF EthereumInv, EthereumTypeOK, MinedInOrder, IrreversibleLag, Nonce,
                          Settled, Included

\* An account that has sent nothing.
LEMMA EthereumInitInv == EthereumAssumption /\ EthereumInit => EthereumInv
<1>1. SUFFICES ASSUME EthereumAssumption, EthereumInit PROVE EthereumInv
  OBVIOUS
<1>2. mined = <<>> /\ sentTxs = <<>> /\ Len(mined) = 0 /\ Len(sentTxs) = 0
  <2>1. Len(<<>>) = 0
    BY EmptySeq
  <2> QED BY <1>1, <2>1 DEF EthereumInit
<1>3. mined \in Seq(Inclusion(Sent, 1..height)) /\ sentTxs \in Seq(TxRequest)
  BY <1>2, EmptySeq
<1> QED BY <1>1, <1>2, <1>3 DEF EthereumInit, EthereumAssumption, EthereumInv, EthereumTypeOK,
                                MinedInOrder, IrreversibleLag
=============================================================================
