---------------------------- MODULE BlockBundler ----------------------------
(***************************************************************************)
(* The block bundler.  A run reads the chain height once and then, until   *)
(* nothing is left or it is better to wait, counts the unbundled blocks,   *)
(* reads the lowest sequence of them, spends up to the optimization time   *)
(* on the choice of a prefix, and stores it as a bundle.  The choice       *)
(* itself is in BundleOptimizer.                                           *)
(***************************************************************************)
EXTENDS BlockStorage

CONSTANTS
  BlocksToAccumulate,
  FragmentCounts  \* numbers of fragments a bundle may be encoded into

ASSUME BundlerAssumption ==
  /\ BlocksToAccumulate \in Nat \ {0}
  /\ FragmentCounts \subseteq Nat \ {0}

VARIABLES
  bundlerAt,       \* where `run` is
  startingHeight,  \* lower end of the window, read once per run
  totalUnbundled,  \* the count of unbundled blocks
  oldest,          \* the sequence handed to the optimizer
  timedOut         \* accumulation_time_limit has passed since the last bundle

bundlerVars == <<bundlerAt, startingHeight, totalUnbundled, oldest, timedOut>>

BundlerReset ==
  /\ bundlerAt' = "idle"
  /\ startingHeight' = 0
  /\ totalUnbundled' = 0
  /\ oldest' = {}

BundlerInit ==
  /\ bundlerAt = "idle"
  /\ startingHeight = 0
  /\ totalUnbundled = 0
  /\ oldest = {}
  /\ timedOut = FALSE

First(S) == CHOOSE h \in S : \A g \in S : h <= g

SizeOf(S) == CumulativeSize(First(S), First(S) + Cardinality(S) - 1)

\* Mutant of ShouldWait: the time limit is not looked at.
WaitsForThresholds(blocksRead, totalAvailable) ==
  /\ SizeOf(blocksRead) < BytesToAccumulate
  /\ totalAvailable < BlocksToAccumulate
  /\ ~(totalAvailable > Cardinality(blocksRead))

\* The blocks read are everything there is, they are few, and there is time.
ShouldWait(blocksRead, totalAvailable) ==
  /\ SizeOf(blocksRead) < BytesToAccumulate
  /\ totalAvailable < BlocksToAccumulate
  /\ ~(totalAvailable > Cardinality(blocksRead))
  /\ ~timedOut

-----------------------------------------------------------------------------

GetStartingHeight ==
  /\ bundlerAt = "idle"
  /\ bundlerAt' = "counting"
  /\ startingHeight' = SeenUpTo(fuelHeight)
  /\ UNCHANGED <<totalUnbundled, oldest, timedOut, fuelHeight, tableVars>>

CountUnbundled ==
  /\ bundlerAt = "counting"
  /\ Unbundled(startingHeight) # {}
  /\ bundlerAt' = "reading"
  /\ totalUnbundled' = Cardinality(Unbundled(startingHeight))
  /\ UNCHANGED <<startingHeight, oldest, timedOut, fuelHeight, tableVars>>

\* Not in one transaction with the count.
TakeSequence ==
  /\ bundlerAt = "reading"
  /\ LowestSequence(startingHeight) # {}
  /\ ~ShouldWait(LowestSequence(startingHeight), totalUnbundled)
  /\ bundlerAt' = "optimizing"
  /\ oldest' = LowestSequence(startingHeight)
  /\ UNCHANGED <<startingHeight, totalUnbundled, timedOut, fuelHeight, tableVars>>

\* Nothing to bundle, or nothing yet.
EndRun ==
  /\ \/ bundlerAt = "counting" /\ Unbundled(startingHeight) = {}
     \/ bundlerAt = "reading" /\ LowestSequence(startingHeight) = {}
     \/ /\ bundlerAt = "reading"
        /\ LowestSequence(startingHeight) # {}
        /\ ShouldWait(LowestSequence(startingHeight), totalUnbundled)
  /\ BundlerReset
  /\ UNCHANGED <<timedOut, fuelHeight, tableVars>>

\* The optimizer proposes some non-empty prefix of the sequence.
InsertBundle ==
  /\ bundlerAt = "optimizing"
  /\ \E last \in oldest, n \in FragmentCounts :
       InsertBundleAndFragments(First(oldest), last, n)
  /\ timedOut' = FALSE
  /\ bundlerAt' = "counting"
  /\ totalUnbundled' = 0
  /\ oldest' = {}
  /\ UNCHANGED <<startingHeight, fuelHeight>>

AccumulationTimeout ==
  /\ ~timedOut
  /\ timedOut' = TRUE
  /\ UNCHANGED <<bundlerAt, startingHeight, totalUnbundled, oldest, fuelHeight, tableVars>>

BundlerStep ==
  \/ GetStartingHeight
  \/ CountUnbundled
  \/ TakeSequence
  \/ EndRun
  \/ InsertBundle
=============================================================================
