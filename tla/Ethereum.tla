------------------------------ MODULE Ethereum ------------------------------
(***************************************************************************)
(* The L1 chain as the committer sees it through one node: a head number,  *)
(* one account (one mined transaction per nonce) and the node's mempool.   *)
(* The main wallet, which posts block commitments, and the blob wallet are *)
(* different accounts, so each committer has an Ethereum of its own.  The  *)
(* chain is external; the adapter's reads are at the end.                  *)
(*                                                                         *)
(* Nothing about the network is assumed beyond what the committer relies   *)
(* on: nonces are mined in order, a nonce is mined once on a chain, and a  *)
(* block that once had NumBlocksToFinalize confirmations is not reorged.   *)
(* A miner may know a transaction this node has replaced or dropped.       *)
(***************************************************************************)
EXTENDS Integers, Sequences, FiniteSets

CONSTANTS
  Payload,              \* what a transaction carries is a subset of this
  NumBlocksToFinalize,  \* config: num_blocks_to_finalize_tx
  MaxFee,               \* highest fee level the adapter or the market allows
  MaxTxs,               \* bound: transactions ever broadcast
  MaxHeight,            \* bound: number of the last block
  MaxTxsPerBlock,       \* bound: the account's transactions in one block
  MaxFaults,            \* bound: faults of the network and the process
  ChainFaults           \* whether the chain reorgs and transactions get lost

ASSUME EthereumAssumption ==
  /\ NumBlocksToFinalize \in Nat
  /\ MaxFee \in Nat
  /\ MaxTxs \in Nat
  /\ MaxHeight \in Nat
  /\ MaxTxsPerBlock \in Nat
  /\ MaxFaults \in Nat
  /\ ChainFaults \in BOOLEAN

VARIABLES
  height,        \* number of the head block
  irreversible,  \* highest block that ever had NumBlocksToFinalize confirmations
  mined,         \* mined[n] is the inclusion of the transaction with nonce n
  mempool,       \* the node's pending and queued transactions
  sentTxs,       \* every transaction ever broadcast; its hash is its index
  faults         \* faults so far

l1Vars == <<height, irreversible, mined, mempool, sentTxs, faults>>

TxHashes  == 1..MaxTxs
Sent      == 1..Len(sentTxs)
Nonce(t)  == sentTxs[t].nonce

TxRequest == [nonce : Nat \ {0}, payload : SUBSET Payload, fee : 0..MaxFee]
Inclusion(txs, blocks) == [tx : txs, block : blocks, succeeded : BOOLEAN]

\* A fault of the environment: at most MaxFaults in a behaviour.
Fault == faults < MaxFaults /\ faults' = faults + 1
ChainFault == ChainFaults /\ Fault

Included(t) == Nonce(t) \in 1..Len(mined) /\ mined[Nonce(t)].tx = t

\* Included, successful and in a block that no reorg removes.
Settled(t) ==
  /\ Included(t)
  /\ mined[Nonce(t)].succeeded
  /\ mined[Nonce(t)].block <= irreversible

\* The transaction cannot be executed before a lower nonce shows up.
NonceGap(t) ==
  \E n \in (Len(mined) + 1)..(Nonce(t) - 1) : \A u \in mempool : Nonce(u) # n

EthereumInit ==
  /\ height = 0
  /\ irreversible = 0
  /\ mined = <<>>
  /\ mempool = {}
  /\ sentTxs = <<>>
  /\ faults = 0

EthereumTypeOK ==
  /\ height \in 0..MaxHeight
  /\ irreversible \in 0..height
  /\ mined \in Seq(Inclusion(Sent, 1..height))
  /\ mempool \in SUBSET Sent
  /\ sentTxs \in Seq(TxRequest)
  /\ Len(sentTxs) <= MaxTxs
  /\ faults \in 0..MaxFaults

\* The chain keeps its transactions in nonce order, and blocks become irreversible
\* with the confirmations the committer waits for.
MinedInOrder == \A i \in 1..Len(mined) : Nonce(mined[i].tx) = i
IrreversibleLag == height <= irreversible + NumBlocksToFinalize

EthereumInv == EthereumTypeOK /\ MinedInOrder /\ IrreversibleLag

-----------------------------------------------------------------------------
(* The chain.                                                              *)

\* A block with the next k nonces of the account.  Blocks without any are counted
\* only while an inclusion waits for confirmations: the others change nothing.
\* Whatever this node no longer holds, and a transaction that reverts, is a fault.
\* A transaction whose nonce is taken leaves the mempool.
MineBlock(k) ==
  \E batch \in [1..k -> Inclusion(Sent, {height + 1})] :
    /\ height < MaxHeight
    /\ k = 0 => \E i \in 1..Len(mined) : mined[i].block > height - NumBlocksToFinalize
    /\ \A i \in 1..k : Nonce(batch[i].tx) = Len(mined) + i
    /\ ChainFaults \/ \A i \in 1..k : batch[i].tx \in mempool
    /\ IF \A i \in 1..k : batch[i].tx \in mempool /\ batch[i].succeeded
       THEN UNCHANGED faults ELSE Fault
    /\ height' = height + 1
    /\ irreversible' = IF height + 1 - NumBlocksToFinalize > irreversible
                       THEN height + 1 - NumBlocksToFinalize ELSE irreversible
    /\ mined' = mined \o batch
    /\ mempool' = {t \in mempool : Nonce(t) > Len(mined) + k}
    /\ UNCHANGED sentTxs

\* The blocks after block h leave the canonical chain.  Their transactions
\* return to the mempool, or do not.
Reorg ==
  \E h \in irreversible..(height - 1) :
    \E k \in 0..Len(mined) :
      /\ \A i \in 1..Len(mined) : mined[i].block <= h <=> i <= k
      /\ ChainFault
      /\ height' = h
      /\ mined' = SubSeq(mined, 1, k)
      /\ \E back \in SUBSET {mined[i].tx : i \in (k + 1)..Len(mined)} :
           mempool' = mempool \cup back
      /\ UNCHANGED <<irreversible, sentTxs>>

\* The node drops an executable transaction.
Evict ==
  \E t \in mempool :
    /\ ~NonceGap(t)
    /\ ChainFault
    /\ mempool' = mempool \ {t}
    /\ UNCHANGED <<height, irreversible, mined, sentTxs>>

\* A node keeps a transaction behind a nonce gap for a limited time only.
EvictQueued ==
  \E t \in mempool :
    /\ NonceGap(t)
    /\ mempool' = mempool \ {t}
    /\ UNCHANGED <<height, irreversible, mined, sentTxs, faults>>

ChainNext ==
  \/ \E k \in 0..MaxTxsPerBlock : MineBlock(k)
  \/ Reorg
  \/ Evict
  \/ EvictQueued

-----------------------------------------------------------------------------
(* The node's interface.                                                   *)

\* A used nonce is refused, and a replacement that is not dearer than what it
\* replaces.
Accepts(tx) ==
  /\ Len(sentTxs) < MaxTxs
  /\ tx.nonce > Len(mined)
  /\ \A u \in mempool : Nonce(u) = tx.nonce => tx.fee > sentTxs[u].fee

\* The node accepts the transaction: it takes the place of one with its nonce.
Broadcast(tx) ==
  /\ Accepts(tx)
  /\ sentTxs' = Append(sentTxs, tx)
  /\ mempool' = {u \in mempool : Nonce(u) # tx.nonce} \cup {Len(sentTxs) + 1}
  /\ UNCHANGED <<height, irreversible, mined>>

\* Transaction count at the latest and at the pending block; nonces start at 1.
LatestNonce == Len(mined) + 1

PendingNonce ==
  CHOOSE n \in (Len(mined) + 1)..(Len(mined) + MaxTxs + 1) :
    /\ \A u \in mempool : Nonce(u) # n
    /\ \A m \in (Len(mined) + 1)..(n - 1) : \E u \in mempool : Nonce(u) = m

\* get_transaction_by_hash finds nothing.
IsSqueezedOut(t) == t \notin mempool /\ ~Included(t)
=============================================================================
