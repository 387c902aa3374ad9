------------------------------- MODULE MCParts -------------------------------
(***************************************************************************)
(* The parts that are checked on their own, with constants small enough    *)
(* for TLC.  They share nothing, so each behaviour is one of a single part *)
(* and the others stay as they began.                                      *)
(***************************************************************************)
EXTENDS FeeAlgorithm, BundleOptimizer, BlobCodec, BlobTxFees, BundleCosts,
        StorageRows, ConnectionHealth, Process

VARIABLE subject

vars == <<subject, feeVars, optVars, codecVars, txFeeVars, costVars, rowVars, healthVars, processVars>>

\* One initial state is enough for a part that does not move.  The L1 chain begins
\* with a block of low fees.
AtRest ==
  /\ feeAt[0].base = 1
  /\ subject # "rows" => table = "fuel_blocks"
  /\ subject # "health" => adapter = "eth"
  /\ subject # "process" => config = [main |-> "key1", blob |-> "none", da_layer |-> FALSE, in_range |-> TRUE]

Init ==
  /\ subject \in {"fees", "optimizer", "codec", "tx fees", "costs", "rows", "health", "process"}
  /\ FeeInit /\ AlgoInit
  /\ OptInit
  /\ CodecInit
  /\ TxFeesInit
  /\ CostInit
  /\ RowsInit
  /\ HealthInit
  /\ ProcessInit
  /\ AtRest

Next ==
  /\ UNCHANGED subject
  /\ \/ /\ subject = "fees" /\ FeeNext
        /\ UNCHANGED <<optVars, codecVars, txFeeVars, costVars, rowVars, healthVars, processVars>>
     \/ /\ subject = "optimizer" /\ OptNext
        /\ UNCHANGED <<feeVars, codecVars, txFeeVars, costVars, rowVars, healthVars, processVars>>
     \/ /\ subject = "codec" /\ CodecNext
        /\ UNCHANGED <<feeVars, optVars, txFeeVars, costVars, rowVars, healthVars, processVars>>
     \/ /\ subject = "tx fees" /\ TxFeesNext
        /\ UNCHANGED <<feeVars, optVars, codecVars, costVars, rowVars, healthVars, processVars>>
     \/ /\ subject = "costs" /\ CostNext
        /\ UNCHANGED <<feeVars, optVars, codecVars, txFeeVars, rowVars, healthVars, processVars>>
     \/ /\ subject = "rows" /\ RowsNext
        /\ UNCHANGED <<feeVars, optVars, codecVars, txFeeVars, costVars, healthVars, processVars>>
     \/ /\ subject = "health" /\ HealthNext
        /\ UNCHANGED <<feeVars, optVars, codecVars, txFeeVars, costVars, rowVars, processVars>>
     \/ /\ subject = "process" /\ ProcessNext
        /\ UNCHANGED <<feeVars, optVars, codecVars, txFeeVars, costVars, rowVars, healthVars>>

\* HealthFairness and ProcessFairness, where these parts are the subject.
Fairness ==
  /\ \A r \in Requesters :
       /\ WF_healthVars(subject = "health" /\ Answered(r))
       /\ WF_healthVars(subject = "health" /\ Note(r))
  /\ WF_processVars(subject = "process" /\ Main)
  /\ \A s \in Services :
       /\ WF_processVars(subject = "process" /\ RunEnds(s))
       /\ WF_processVars(subject = "process" /\ SleepEnds(s))

Spec == Init /\ [][Next]_vars /\ Fairness

-----------------------------------------------------------------------------

MCFees == {[base |-> 1, reward |-> 1, blob |-> 1], [base |-> 4, reward |-> 3, blob |-> 5]}

\* Sizes that never shrink when a block is added.
MCSizes == UNION {{s \in [1..n -> 1..7] : \A k \in 2..n : s[k - 1] <= s[k]} : n \in {2, 5}}

MCHorizons == <<2, 2>>

\* The third bundle has the heights of the first, once that is pruned.
MCFragments ==
  LET fragment(b, unused) == [bundle |-> b, total |-> 4, unused |-> unused]
  IN  "f1" :> fragment(1, 0) @@ "f2" :> fragment(1, 3) @@ "f3" :> fragment(2, 1) @@ "f4" :> fragment(3, 2)

MCBundleHeights == <<[start |-> 1, end |-> 2], [start |-> 3, end |-> 4], [start |-> 1, end |-> 2]>>
=============================================================================
