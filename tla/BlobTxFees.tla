----------------------------- MODULE BlobTxFees -----------------------------
(***************************************************************************)
(* The fees of a blob transaction: what the Ethereum adapter offers, from  *)
(* the node's fee history and the transaction it replaces, when it refuses *)
(* to send, and what a mined transaction is then charged (estimation.rs,   *)
(* submit_state_fragments and convert_to_tx_response of connection.rs);    *)
(* and how urgent the state committer says the fragments are.              *)
(*                                                                         *)
(* Fees are u128 and saturate; U128Max is scaled down, and so are the gas  *)
(* amounts.  StateCommitter abstracts all of this to levels that double.   *)
(***************************************************************************)
EXTENDS Naturals, FiniteSets, FiniteSetsExt

CONSTANTS
  U128Max,
  TxMaxFee,        \* tx_config.tx_max_fee
  GasLimit,        \* gas of the transaction itself
  BlobGas,         \* DATA_GAS_PER_BLOB
  MaxBlobs,
  BaseFees,        \* base fees of the node's latest block
  BlobBaseFees,    \* blob base fees of the node's latest block
  Rewards,         \* rewards per block of the fee history
  HistoryLengths,  \* blocks in the fee history
  MinPriorityFee,  \* EIP1559_MIN_PRIORITY_FEE
  PriceHorizons,   \* <<FEE_HORIZON, BLOB_FEE_HORIZON>>
  L2Heights,       \* heights of the Fuel chain
  OldestBlocks,    \* oldest_block_in_bundle of the fragments sent
  MaxL2Behind,     \* max_l2_blocks_behind
  MinPercentile, MaxPercentile  \* min_reward_perc, max_reward_perc

\* The limit is configured as a u64: far from where a u128 saturates.
ASSUME BlobTxFeesAssumption ==
  /\ U128Max \in Nat /\ TxMaxFee \in Nat /\ 8 * TxMaxFee < U128Max
  /\ GasLimit \in Nat \ {0} /\ BlobGas \in Nat \ {0} /\ MaxBlobs \in 1..6
  /\ BaseFees \union BlobBaseFees \union Rewards \subseteq 0..U128Max
  /\ HistoryLengths \subseteq Nat /\ MinPriorityFee \in Nat \ {0}
  /\ PriceHorizons[1] \in Nat /\ PriceHorizons[2] \in Nat
  /\ L2Heights \subseteq Nat /\ OldestBlocks \in (SUBSET Nat) \ {{}} /\ MaxL2Behind \in Nat \ {0}
  \* Checked by AcceptablePriorityFeePercentages::new.
  /\ MinPercentile \in 1..100 /\ MaxPercentile \in MinPercentile..100

VARIABLES
  sent,      \* the transaction accepted by the node last, or NoTx
  replacedTx,  \* the one it replaced, or NoTx
  market,    \* the fees, and the Fuel chain's height, of the moment it was sent
  charged    \* what it was charged when it was mined, or 0

txFeeVars == <<sent, replacedTx, market, charged>>

NoTx == [normal |-> 0, priority |-> 0, blob |-> 0, blobs |-> 0, percentile |-> 0]

TxFeesTypeOK ==
  /\ {sent, replacedTx} \subseteq [normal : 0..U128Max, priority : 0..U128Max, blob : 0..U128Max,
                                  blobs : 0..MaxBlobs, percentile : 0..MaxPercentile]
  /\ market \in [normal : BaseFees \union {0}, blob : BlobBaseFees \union {0}, l2_height : L2Heights \union {0}]
  /\ charged \in Nat

TxFeesInit ==
  /\ sent = NoTx /\ replacedTx = NoTx
  /\ market = [normal |-> 0, blob |-> 0, l2_height |-> 0]
  /\ charged = 0

-----------------------------------------------------------------------------
(* MaxTxFeesPerGas.                                                        *)

Saturated(n) == IF n > U128Max THEN U128Max ELSE n

Larger(m, n) == IF m > n THEN m ELSE n

Normalized(fees) == [fees EXCEPT !.normal = Larger(fees.normal, fees.priority)]

DoubleFees(fees) ==
  [normal   |-> Saturated(2 * fees.normal),
   priority |-> Saturated(2 * fees.priority),
   blob     |-> Saturated(2 * fees.blob)]

\* Mutant of RetainMax: the tip of a replacement is not raised.
RetainMaxOfGas(fees, previous) ==
  [normal   |-> Larger(fees.normal, previous.normal),
   priority |-> fees.priority,
   blob     |-> Larger(fees.blob, previous.blob)]

RetainMax(fees, previous) ==
  [normal   |-> Larger(fees.normal, previous.normal),
   priority |-> Larger(fees.priority, previous.priority),
   blob     |-> Larger(fees.blob, previous.blob)]

\* An eighth more for each block to come.
AtHorizon(fee, horizon) ==
  LET after[block \in 0..horizon] == IF block = 0 THEN fee ELSE Saturated(9 * after[block - 1]) \div 8
  IN  after[horizon]

Projected(fees) ==
  [normal   |-> Saturated(AtHorizon(fees.normal, PriceHorizons[1]) + fees.priority),
   priority |-> fees.priority,
   blob     |-> AtHorizon(fees.blob, PriceHorizons[2])]

\* The median of the rewards paid, the mean of the middle two if they are even.
EstimatePriorityFee(rewards) ==
  LET paid   == {b \in DOMAIN rewards : rewards[b] > 0}
      n      == Cardinality(paid)
      nth(k) == Min({rewards[b] : b \in {c \in paid : Cardinality({d \in paid : rewards[d] <= rewards[c]}) >= k}})
  IN  IF n = 0 THEN MinPriorityFee
      ELSE Larger(MinPriorityFee,
                  IF n % 2 = 0 THEN (nth(n \div 2) + nth(n \div 2 + 1)) \div 2
                  ELSE nth(n \div 2 + 1))

\* current_fees: the rewards are those of the percentile the priority asks for.
CurrentFees(history) ==
  [normal   |-> history.base,
   priority |-> EstimatePriorityFee(history.rewards),
   blob     |-> history.blob]

FeeHistories ==
  [base : BaseFees, blob : BlobBaseFees, rewards : UNION {[1..n -> Rewards] : n \in HistoryLengths}]

-----------------------------------------------------------------------------
(* The priority.  Fractions are rounded down, where the code has floats.   *)

OldestL2Block == Min(OldestBlocks)

L2BlocksBehind(l2_height) == IF l2_height > OldestL2Block THEN l2_height - OldestL2Block ELSE 0

DeterminePriority(l2_height) ==
  LET percentage == (L2BlocksBehind(l2_height) * 100) \div MaxL2Behind
  IN  IF percentage > 100 THEN 100 ELSE percentage

\* Priority::new: any other number is an error.
IsPriority(percent) == percent \in 0..100

\* The percentile of the rewards to ask the node for.
Apply(priority) ==
  LET raised == MinPercentile + ((MaxPercentile - MinPercentile) * priority) \div 100
  IN  IF raised > MaxPercentile THEN MaxPercentile ELSE raised

-----------------------------------------------------------------------------
(* submit_state_fragments.                                                 *)

\* get_max_fee, in saturating arithmetic.
MaxFee(fees, blobs) ==
  Saturated(Saturated(fees.normal * GasLimit)
            + Saturated(Saturated(fees.blob * blobs) * BlobGas))

SubmitWith(fees, history, blobs, l2_height, previous) ==
  /\ IsPriority(DeterminePriority(l2_height))
  /\ MaxFee(fees, blobs) <= TxMaxFee
  /\ sent' = [normal |-> fees.normal, priority |-> fees.priority, blob |-> fees.blob,
              blobs |-> blobs, percentile |-> Apply(DeterminePriority(l2_height))]
  /\ replacedTx' = previous
  /\ market' = [normal |-> history.base, blob |-> history.blob, l2_height |-> l2_height]
  /\ charged' = 0

\* Each behaviour follows one nonce.
SubmitFresh ==
  /\ sent = NoTx
  /\ \E history \in FeeHistories, blobs \in 1..MaxBlobs, l2_height \in L2Heights :
       SubmitWith(Normalized(Projected(CurrentFees(history))), history, blobs, l2_height, NoTx)

\* With the same fragments; the Fuel chain has not shrunk.
Replace ==
  /\ sent # NoTx /\ charged = 0
  /\ \E history \in FeeHistories, l2_height \in {h \in L2Heights : h >= market.l2_height} :
       SubmitWith(Normalized(RetainMax(Projected(CurrentFees(history)), DoubleFees(sent))),
                  history, sent.blobs, l2_height, sent)

\* External: a block takes it, at prices no higher than it offers.
\* convert_to_tx_response adds the fees of its receipt up.
Mine ==
  /\ sent # NoTx /\ charged = 0
  /\ \E gas_used \in {1, GasLimit}, gas_price \in {0, 1, sent.normal}, blob_price \in {0, 1, sent.blob} :
       /\ gas_price <= sent.normal /\ blob_price <= sent.blob
       /\ charged' = Saturated(Saturated(gas_used * gas_price) + Saturated(sent.blobs * BlobGas * blob_price))
  /\ UNCHANGED <<sent, replacedTx, market>>

TxFeesNext == SubmitFresh \/ Replace \/ Mine

TxFeesSpec == TxFeesInit /\ [][TxFeesNext]_txFeeVars

-----------------------------------------------------------------------------
(* What is sent is what the node and the chain take: it pays the current   *)
(* prices and the tip, tips no more than it pays, and a replacement offers *)
(* at least twice the transaction it replaces in each of the three fees,   *)
(* which a node's blob pool insists on.  In exact arithmetic it can never  *)
(* be charged more than tx_fees.max, through any series of replacements.   *)
(* The percentile asked for is one the configuration allows, and falls in  *)
(* no replacement.                                                         *)
SentFeesAreAccepted ==
  sent # NoTx =>
    /\ sent.normal >= market.normal + MinPriorityFee /\ sent.blob >= market.blob
    /\ sent.normal >= sent.priority
    /\ \A kind \in {"normal", "priority", "blob"} : sent[kind] >= 2 * replacedTx[kind]
    /\ sent.normal * GasLimit + sent.blob * sent.blobs * BlobGas <= TxMaxFee
    /\ charged <= TxMaxFee
    /\ sent.percentile \in MinPercentile..MaxPercentile /\ sent.percentile >= replacedTx.percentile
=============================================================================
