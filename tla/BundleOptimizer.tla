-------------------------- MODULE BundleOptimizer ---------------------------
(***************************************************************************)
(* How many of the available blocks go into the next bundle.  The bundler  *)
(* for Ethereum tries prefixes of the blocks, from large steps to small    *)
(* ones, a few at a time, until all are tried or the time is over; the one *)
(* for EigenDA drops blocks from the end until the rest fits.              *)
(*                                                                         *)
(* Blocks are equally large before compression, so the gas per             *)
(* uncompressed byte of two prefixes compares as gas per block does.       *)
(***************************************************************************)
EXTENDS Integers, FiniteSets, Sequences, SequencesExt

CONSTANTS
  CompressedSizes,   \* functions that give the compressed size of each prefix
  BytesPerFragment,
  MaxFragments,      \* max_fragments_per_bundle
  Steps,             \* initial steps to choose from
  Concurrency        \* max_bundles_per_optimization_run, to choose from

ASSUME OptimizerAssumption ==
  /\ \A s \in CompressedSizes :
       /\ s \in Seq(Nat \ {0}) \ {<<>>}
       /\ \A k \in 2..Len(s) : s[k - 1] <= s[k]
  /\ BytesPerFragment \in Nat \ {0}
  /\ MaxFragments \in Nat \ {0}
  /\ Steps \subseteq Nat \ {0}
  /\ Concurrency \subseteq Nat \ {0}

None == 0

VARIABLES
  stage,       \* "idle", "optimizing", "trimming", "finishing", "done" or "failed"
  size,        \* compressed size of every prefix of the available blocks
  concurrency, \* prefixes tried in one advance
  sizesToTry,  \* sizes_to_try
  attempts,    \* attempts_made
  best,        \* best_valid_proposal, as a number of blocks
  invalid,     \* smallest_invalid_proposal
  limit,       \* max_blocks_in_bundle
  bundle       \* the outcome: [blocks, optimal]

optVars == <<stage, size, concurrency, sizesToTry, attempts, best, invalid, limit, bundle>>

NoBundle == [blocks |-> None, optimal |-> FALSE]

Blocks == Len(size)

NumFragments(k) == (size[k] + BytesPerFragment - 1) \div BytesPerFragment

\* Gas is proportional to the number of fragments.
CreateProposal(k) == [blocks |-> k, fragments |-> NumFragments(k)]

Fits(k) == CreateProposal(k).fragments <= MaxFragments

\* gas_per_uncompressed_byte is less.
Cheaper(k, l) ==
  LET p == CreateProposal(k)  q == CreateProposal(l)
  IN  p.fragments * q.blocks < q.fragments * p.blocks

OptInit ==
  /\ stage = "idle"
  /\ size = <<>>
  /\ concurrency = 1
  /\ sizesToTry = <<>>
  /\ attempts = 0
  /\ best = None
  /\ invalid = None
  /\ limit = 0
  /\ bundle = NoBundle

-----------------------------------------------------------------------------
(* The bundler for Ethereum.                                               *)

\* 1..n downwards in steps.
Countdown(n, step) ==
  [i \in 1..((n + step - 1) \div step) |-> n - (i - 1) * step]

\* The countdowns in steps of the initial step and of its halves, down to 1.
AllSizes(n, step) ==
  LET from[s \in 0..n] == IF s = 0 THEN <<>> ELSE Countdown(n, s) \o from[s \div 2]
  IN  from[IF step < n THEN step ELSE n]

GenerateAttempts(n, step) ==
  LET all == AllSizes(n, step)
      unique[i \in 0..Len(all)] ==
        LET before == IF i = 0 THEN <<>> ELSE unique[i - 1]
        IN  IF i = 0 \/ all[i] \in ToSet(before) THEN before ELSE Append(before, all[i])
  IN  unique[Len(all)]

\* save_if_best_so_far, on the fields it changes.
Save(found, k) ==
  IF Fits(k)
    THEN [found EXCEPT !.best = IF @ = None \/ Cheaper(k, @) THEN k ELSE @]
    ELSE [found EXCEPT
            !.invalid = IF @ = None \/ size[k] < size[@] THEN k ELSE @,
            !.limit   = IF k - 1 < @ THEN (IF k > 1 THEN k - 1 ELSE 1) ELSE @]

\* The sizes to try that are at most n, in their order.
AtMost(n) ==
  LET kept[i \in 0..Len(sizesToTry)] ==
        IF i = 0 THEN <<>>
        ELSE IF sizesToTry[i] <= n THEN Append(kept[i - 1], sizesToTry[i]) ELSE kept[i - 1]
  IN  kept[Len(sizesToTry)]

\* Mutant of Retained: a size that failed may be tried again, one above it may not.
RetainedBelow == AtMost(limit - 1)

Retained == AtMost(limit)

Advance(num) ==
  LET count == IF num < Len(Retained) THEN num ELSE Len(Retained)
      saved[i \in 0..count] ==
        IF i = 0 THEN [best |-> best, invalid |-> invalid, limit |-> limit]
                 ELSE Save(saved[i - 1], Retained[i])
      found == saved[count]
  IN  /\ sizesToTry' = SubSeq(Retained, count + 1, Len(Retained))
      /\ attempts' = attempts + count
      /\ best' = found.best
      /\ invalid' = found.invalid
      /\ limit' = found.limit

StartOptimizing ==
  /\ stage = "idle"
  /\ \E s \in CompressedSizes, step \in Steps, c \in Concurrency :
       /\ size' = s
       /\ concurrency' = c
       /\ sizesToTry' = GenerateAttempts(Len(s), step)
       /\ limit' = Len(s)
  /\ stage' = "optimizing"
  /\ UNCHANGED <<attempts, best, invalid, bundle>>

\* The loop of find_optimal_bundle: on, unless nothing is left or the time is over.
Optimize ==
  /\ stage = "optimizing"
  /\ Advance(concurrency)
  /\ \/ sizesToTry' # <<>> /\ UNCHANGED stage
     \/ stage' = "finishing"
  /\ UNCHANGED <<size, concurrency, bundle>>

\* One more attempt if there is no valid proposal.
LastAttempt ==
  /\ stage = "finishing"
  /\ best = None
  /\ Retained # <<>>
  /\ Advance(1)
  /\ bundle' = [blocks  |-> IF best' # None THEN best' ELSE invalid',
                optimal |-> sizesToTry' = <<>>]
  /\ stage' = "done"
  /\ UNCHANGED <<size, concurrency>>

Finish ==
  /\ stage = "finishing"
  /\ best # None \/ Retained = <<>>
  /\ sizesToTry' = IF best = None THEN Retained ELSE sizesToTry
  /\ bundle' = [blocks  |-> IF best # None THEN best ELSE invalid,
                optimal |-> sizesToTry' = <<>>]
  /\ stage' = "done"
  /\ UNCHANGED <<size, concurrency, attempts, best, invalid, limit>>

-----------------------------------------------------------------------------
(* The bundler for EigenDA.                                                *)

StartTrimming ==
  /\ stage = "idle"
  /\ \E s \in CompressedSizes : size' = s /\ limit' = Len(s)
  /\ stage' = "trimming"
  /\ UNCHANGED <<concurrency, sizesToTry, attempts, best, invalid, bundle>>

\* Mutant of DropBlock: half of the blocks are dropped at once.
DropHalf ==
  /\ stage = "trimming"
  /\ ~Fits(limit)
  /\ IF limit = 1 THEN stage' = "failed" /\ UNCHANGED limit
                  ELSE limit' = limit \div 2 /\ UNCHANGED stage
  /\ UNCHANGED <<size, concurrency, sizesToTry, attempts, best, invalid, bundle>>

\* The last block is dropped; a single block that does not fit is an error.
DropBlock ==
  /\ stage = "trimming"
  /\ ~Fits(limit)
  /\ IF limit = 1 THEN stage' = "failed" /\ UNCHANGED limit
                  ELSE limit' = limit - 1 /\ UNCHANGED stage
  /\ UNCHANGED <<size, concurrency, sizesToTry, attempts, best, invalid, bundle>>

\* advance reports that there is more to do until the time is over, and finds the same.
FinishTrimmed ==
  /\ stage = "trimming"
  /\ Fits(limit)
  /\ bundle' = [blocks |-> limit, optimal |-> TRUE]
  /\ stage' = "done"
  /\ UNCHANGED <<size, concurrency, sizesToTry, attempts, best, invalid, limit>>

OptNext ==
  \/ StartOptimizing
  \/ Optimize
  \/ LastAttempt
  \/ Finish
  \/ StartTrimming
  \/ DropBlock
  \/ FinishTrimmed

OptSpec == OptInit /\ [][OptNext]_optVars

-----------------------------------------------------------------------------

OptTypeOK ==
  /\ stage \in {"idle", "optimizing", "trimming", "finishing", "done", "failed"}
  /\ size \in Seq(Nat)
  /\ sizesToTry \in Seq(1..Blocks)
  /\ {best, invalid, limit, bundle.blocks} \subseteq 0..Blocks
  /\ attempts \in Nat

\* The sizes that were tried, or left out as larger than one that did not fit.
Settled == (1..Blocks) \ Range(sizesToTry)

\* Also if the time was over before all sizes were tried: the bundle is the cheapest
\* per byte of those settled that fit, and it exceeds the limit of fragments only if
\* none of them fits.  All are settled for a bundle known to be optimal, so that one
\* exceeds the limit only if the first block alone does.
BestTriedIsChosen ==
  stage = "done" /\ attempts > 0 =>
    /\ bundle.blocks # None
    /\ \/ Fits(bundle.blocks) /\ \A k \in Settled : Fits(k) => ~Cheaper(k, bundle.blocks)
       \/ \A k \in Settled : ~Fits(k) /\ size[bundle.blocks] <= size[k]
    /\ bundle.optimal => Settled = 1..Blocks

\* Without attempts the bundle is for EigenDA: the longest prefix that fits; trimming
\* fails only if no prefix fits.
TrimsNoMoreThanNeeded ==
  /\ stage = "done" /\ attempts = 0 =>
       Fits(bundle.blocks) /\ \A k \in (bundle.blocks + 1)..Blocks : ~Fits(k)
  /\ stage = "failed" => \A k \in 1..Blocks : ~Fits(k)
=============================================================================
