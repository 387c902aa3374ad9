---------------------------- MODULE FeeAlgorithm ----------------------------
(***************************************************************************)
(* Whether the state committer sends now: the averages of the fees over a  *)
(* short and a long period, asked for one after the other, and a           *)
(* multiplier that grows with the number of L2 blocks the submission is    *)
(* behind.  The metrics tracker shares the fee cache.  Amounts never come  *)
(* near the ends of u128, so saturating operations are the plain ones;     *)
(* multipliers are in parts per PpmScale.                                  *)
(***************************************************************************)
EXTENDS FeeCache

CONSTANTS
  ShortPeriod, LongPeriod,
  MaxBlocksBehind,      \* max_l2_blocks_behind
  StartPpm, EndPpm,     \* the multiplier range
  PpmScale,             \* 1 000 000 in the code
  AlwaysAcceptable,     \* always_acceptable_fee
  DataGasPerBlob, IntrinsicGas,
  NumBlobs              \* blobs the submission may have

ASSUME FeeAlgorithmAssumption ==
  /\ {ShortPeriod, LongPeriod, MaxBlocksBehind, StartPpm, PpmScale} \subseteq Nat \ {0}
  /\ {EndPpm, AlwaysAcceptable, DataGasPerBlob, IntrinsicGas} \subseteq Nat
  /\ StartPpm <= EndPpm
  /\ NumBlobs \subseteq Nat \ {0}

VARIABLES
  phase,   \* "idle", or the average the committer asks for next
  task,    \* [blobs, behind, at]: what is to be decided, at which L1 height
  mean,    \* averages it got: of the short and of the long period
  verdict  \* of the last decision: "none", "send" or "wait"

algoVars == <<phase, task, mean, verdict>>
feeVars  == <<chainVars, cacheVars, algoVars>>

-----------------------------------------------------------------------------

SaturatingSub(a, b) == IF a > b THEN a - b ELSE 0

FirstOfLastN(height, n) == SaturatingSub(height, n - 1)

Period(p) == IF p = "short" THEN ShortPeriod ELSE LongPeriod

\* The fold starts from Fees::default(), which is 1.
Total(values) == 1 + SumFunction(values)

\* Mutant of Mean: the divisor is the period, not the number of blocks there are.
MeanOverPeriod(fees) ==
  [base   |-> Total([h \in DOMAIN fees |-> fees[h].base]) \div LongPeriod,
   reward |-> Total([h \in DOMAIN fees |-> fees[h].reward]) \div LongPeriod,
   blob   |-> Total([h \in DOMAIN fees |-> fees[h].blob]) \div LongPeriod]

Mean(fees) ==
  LET count == Cardinality(DOMAIN fees)
  IN  [base   |-> Total([h \in DOMAIN fees |-> fees[h].base]) \div count,
       reward |-> Total([h \in DOMAIN fees |-> fees[h].reward]) \div count,
       blob   |-> Total([h \in DOMAIN fees |-> fees[h].blob]) \div count]

BlobTxFee(blobs, fee) ==
  IntrinsicGas * fee.base + fee.blob * blobs * DataGasPerBlob + fee.reward * IntrinsicGas

TooFarBehind(behind) == behind > MaxBlocksBehind

\* Linear in the blocks behind, from StartPpm to EndPpm.
Multiplier(behind) ==
  LET grown == StartPpm + ((EndPpm - StartPpm) * behind) \div MaxBlocksBehind
  IN  IF grown < EndPpm THEN grown ELSE EndPpm

MaxUpperFee(fee, behind) == (fee * Multiplier(behind)) \div PpmScale

FeesAcceptable(short, long, blobs, behind) ==
  \/ TooFarBehind(behind)
  \/ BlobTxFee(blobs, short) <= AlwaysAcceptable
  \/ BlobTxFee(blobs, short) <= MaxUpperFee(BlobTxFee(blobs, long), behind)

-----------------------------------------------------------------------------

NoMean == [base |-> 0, reward |-> 0, blob |-> 0]

AlgoInit ==
  /\ phase = "idle"
  /\ task = [blobs |-> 0, behind |-> 0, at |-> 0]
  /\ mean = [short |-> NoMean, long |-> NoMean]
  /\ verdict = "none"

\* The height is read, and a submission too far behind goes out without a look at fees.
BeginDecision ==
  /\ phase = "idle"
  /\ \E blobs \in NumBlobs, behind \in 0..(MaxBlocksBehind + 1) :
       /\ task' = [blobs |-> blobs, behind |-> behind, at |-> l1Height]
       /\ IF TooFarBehind(behind)
            THEN verdict' = "send" /\ UNCHANGED phase
            ELSE phase' = "short" /\ UNCHANGED verdict
  /\ UNCHANGED mean
  /\ UNCHANGED <<chainVars, cacheVars>>

AskFees ==
  /\ phase # "idle"
  /\ StartRequest(phase, FirstOfLastN(task.at, Period(phase)), task.at)
  /\ UNCHANGED algoVars

TrackFees == StartRequest("tracker", l1Height, l1Height) /\ UNCHANGED algoVars

FetchFees == Download /\ UNCHANGED algoVars

\* The error ends the decision; the next run starts again.
FetchFailed ==
  /\ DownloadFailed
  /\ phase' = IF request.who = phase THEN "idle" ELSE phase
  /\ UNCHANGED <<task, mean, verdict>>

EndTracking == request.who = "tracker" /\ EndRequest /\ UNCHANGED algoVars

TakeShort ==
  /\ request.who = "short"
  /\ EndRequest
  /\ mean' = [mean EXCEPT !.short = Mean(Answer)]
  /\ phase' = "long"
  /\ UNCHANGED <<task, verdict>>

\* The code compares with AlwaysAcceptable after it has both averages.
TakeLong ==
  /\ request.who = "long"
  /\ EndRequest
  /\ mean' = [mean EXCEPT !.long = Mean(Answer)]
  /\ verdict' = IF FeesAcceptable(mean.short, Mean(Answer), task.blobs, task.behind)
                  THEN "send" ELSE "wait"
  /\ phase' = "idle"
  /\ UNCHANGED task

FeeNext ==
  \/ ChainNext /\ UNCHANGED algoVars
  \/ BeginDecision
  \/ AskFees
  \/ TrackFees
  \/ FetchFees
  \/ FetchFailed
  \/ EndTracking
  \/ TakeShort
  \/ TakeLong

FeeSpec == FeeInit /\ AlgoInit /\ [][FeeNext]_feeVars

-----------------------------------------------------------------------------

FeeTypeOK ==
  /\ FeeCacheTypeOK
  /\ phase \in {"idle", "short", "long"}
  /\ task \in [blobs : {0} \cup NumBlobs, behind : 0..(MaxBlocksBehind + 1), at : 0..l1Height]
  /\ mean \in [{"short", "long"} -> [base : Nat, reward : Nat, blob : Nat]]
  /\ verdict \in {"none", "send", "wait"}

IsMeanOf(taken, values) ==
  /\ taken * Cardinality(DOMAIN values) <= SumFunction(values) + 1
  /\ SumFunction(values) < (taken + 1) * Cardinality(DOMAIN values)

\* An average taken is that of the chain's blocks in the period, at most one too high
\* (the fold starts from 1), whatever the cache held and however the chain moved
\* between the downloads, unless one of the blocks was replaced.
MeansAreTrue ==
  [][\A p \in {"short", "long"} :
       LET blocks == FirstOfLastN(task.at, Period(p))..task.at
       IN  mean'[p] # mean[p] /\ blocks \cap replaced = {} =>
             /\ IsMeanOf(mean'[p].base, [h \in blocks |-> feeAt[h].base])
             /\ IsMeanOf(mean'[p].reward, [h \in blocks |-> feeAt[h].reward])
             /\ IsMeanOf(mean'[p].blob, [h \in blocks |-> feeAt[h].blob])]_mean
=============================================================================
