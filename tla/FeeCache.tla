------------------------------ MODULE FeeCache ------------------------------
(***************************************************************************)
(* The fees of past L1 blocks: the provider asks the node in chunks, and   *)
(* the cache in front of it asks only for the heights it does not have.    *)
(* The cache is locked for the whole of a request, the chain is not: it    *)
(* may grow, or replace its newest block, between two chunks.              *)
(***************************************************************************)
EXTENDS Integers, FiniteSets, FiniteSetsExt

CONSTANTS
  CacheLimit,  \* entries the cache may keep
  RpcLimit,    \* blocks in one request to the node
  Fee,         \* fees a block may have: [base, reward, blob]
  MaxL1Height, \* bound on the L1 chain
  MaxReorgs    \* bound on its reorganizations

ASSUME FeeCacheAssumption ==
  /\ CacheLimit \in Nat
  /\ RpcLimit \in Nat \ {0}
  /\ Fee \subseteq [base : Nat, reward : Nat, blob : Nat]
  /\ MaxL1Height \in Nat
  /\ MaxReorgs \in Nat

L1Heights == 0..MaxL1Height
Callers   == {"short", "long", "tracker"}
Nobody    == "nobody"

VARIABLES
  l1Height,  \* newest block of the L1 chain
  feeAt,     \* fees of its blocks, by height
  cache,     \* fees by height, as they were when they were downloaded
  request,   \* the request that holds the lock: [who, lo, hi]
  todo,      \* heights it must still download
  fetched,   \* what it has downloaded
  replaced,  \* heights cached or fetched whose block was replaced since
  reorgs     \* number of reorganizations

chainVars == <<l1Height, feeAt, reorgs>>
cacheVars == <<cache, request, todo, fetched, replaced>>

Unlocked == [who |-> Nobody, lo |-> 0, hi |-> 0]

FeeInit ==
  /\ l1Height = 0
  /\ feeAt \in [{0} -> Fee]
  /\ cache = <<>>
  /\ request = Unlocked
  /\ todo = {}
  /\ fetched = <<>>
  /\ replaced = {}
  /\ reorgs = 0

\* Two functions as one, the second prevailing.
Merged(old, new) ==
  [h \in DOMAIN old \cup DOMAIN new |-> IF h \in DOMAIN new THEN new[h] ELSE old[h]]

Part(f, S) == [h \in DOMAIN f \cap S |-> f[h]]

-----------------------------------------------------------------------------
(* The node and the provider.                                              *)

\* Fees of the blocks of a range and, last, the one expected for the next block.
FeeHistory(lo, hi) ==
  [h \in lo..(hi + 1) |-> IF h <= l1Height THEN feeAt[h] ELSE feeAt[l1Height]]

\* Mutant of UnpackFeeHistory: the fees are put at the heights before theirs.
ShiftedByOne(history) ==
  [h \in DOMAIN history \ {Max(DOMAIN history)} |-> history[h + 1]]

UnpackFeeHistory(history) == Part(history, DOMAIN history \ {Max(DOMAIN history)})

\* The first chunk of the first range of heights to download.
FirstChunk ==
  {h \in todo : /\ h < Min(todo) + RpcLimit
                /\ Min(todo)..h \subseteq todo}

-----------------------------------------------------------------------------
(* The cache.                                                              *)

\* Mutant of DetectMissingRanges: the gaps between cached heights are not seen.
MissingAtEnds(available, lo, hi) ==
  IF available = {} THEN lo..hi
  ELSE lo..(Min(available) - 1) \cup (Max(available) + 1)..hi

\* The heights in the missing ranges: before the first available height, between two
\* neighbours, and after the last.
DetectMissingRanges(available, lo, hi) ==
  IF available = {} THEN lo..hi
  ELSE lo..(Min(available) - 1) \cup (Max(available) + 1)..hi
         \cup UNION {(prev + 1)..(Min({c \in available : c > prev}) - 1) :
                       prev \in available \ {Max(available)}}

\* Mutant of Evicted: the newest entries go.
EvictedHighest(f) ==
  Part(f, {g \in DOMAIN f : Cardinality({k \in DOMAIN f : k <= g}) <= CacheLimit})

\* pop_first until the limit holds: the highest entries stay.
Evicted(f) ==
  Part(f, {g \in DOMAIN f : Cardinality({k \in DOMAIN f : k >= g}) <= CacheLimit})

\* The answer of a request whose downloads are complete.
Answer == Merged(Part(cache, request.lo..request.hi), fetched)

\* A request takes the lock, once nobody has it, and sees what is missing.
StartRequest(who, lo, hi) ==
  /\ request = Unlocked
  /\ request' = [who |-> who, lo |-> lo, hi |-> hi]
  /\ todo' = DetectMissingRanges(DOMAIN cache \cap lo..hi, lo, hi)
  /\ UNCHANGED <<cache, fetched, replaced>>
  /\ UNCHANGED chainVars

Download ==
  /\ todo # {}
  /\ fetched' = Merged(fetched, UnpackFeeHistory(FeeHistory(Min(FirstChunk), Max(FirstChunk))))
  /\ todo' = todo \ FirstChunk
  /\ UNCHANGED <<cache, request, replaced>>
  /\ UNCHANGED chainVars

\* An error of the node: nothing is kept of what was downloaded.
DownloadFailed ==
  /\ todo # {}
  /\ todo' = {}
  /\ fetched' = <<>>
  /\ request' = Unlocked
  /\ replaced' = replaced \cap DOMAIN cache
  /\ UNCHANGED cache
  /\ UNCHANGED chainVars

\* The cache is updated and the lock released.
EndRequest ==
  /\ request # Unlocked
  /\ todo = {}
  /\ cache' = Evicted(Merged(cache, fetched))
  /\ replaced' = replaced \cap DOMAIN cache'
  /\ request' = Unlocked
  /\ fetched' = <<>>
  /\ UNCHANGED todo
  /\ UNCHANGED chainVars

-----------------------------------------------------------------------------
(* The chain.                                                              *)

NewL1Block ==
  /\ l1Height < MaxL1Height
  /\ l1Height' = l1Height + 1
  /\ \E f \in Fee : feeAt' = Merged(feeAt, [h \in {l1Height + 1} |-> f])
  /\ UNCHANGED reorgs
  /\ UNCHANGED cacheVars

\* The newest block is replaced.
Reorg ==
  /\ reorgs < MaxReorgs
  /\ \E f \in Fee : feeAt' = [feeAt EXCEPT ![l1Height] = f]
  /\ replaced' = replaced \cup ({l1Height} \cap (DOMAIN cache \cup DOMAIN fetched))
  /\ reorgs' = reorgs + 1
  /\ UNCHANGED <<l1Height, cache, request, todo, fetched>>

ChainNext == NewL1Block \/ Reorg

-----------------------------------------------------------------------------

FeeCacheTypeOK ==
  /\ l1Height \in L1Heights
  /\ feeAt \in [0..l1Height -> Fee]
  /\ DOMAIN cache \subseteq 0..l1Height
  /\ \A h \in DOMAIN cache : cache[h] \in Fee
  /\ Cardinality(DOMAIN cache) <= CacheLimit
  /\ request \in [who : Callers \cup {Nobody}, lo : L1Heights, hi : 0..l1Height]
  /\ todo \subseteq request.lo..request.hi
  /\ reorgs \in 0..MaxReorgs

\* Cached pieces, fetched pieces and heights still to fetch make up exactly the range
\* asked for, with nothing downloaded twice.
RequestIsCovered ==
  request # Unlocked =>
    /\ DOMAIN Answer \cup todo = request.lo..request.hi
    /\ todo \cap DOMAIN Answer = {}
    /\ DOMAIN fetched \cap DOMAIN cache = {}

\* A cached fee is the chain's, unless a reorganization replaced the block since it
\* was downloaded: then it stays wrong for as long as it is cached.
StaleOnlyIfReorged ==
  \A h \in DOMAIN cache : h \in replaced \/ cache[h] = feeAt[h]

\* Of what was cached or asked for, the newest heights are kept: a download never
\* pushes out a higher height for a lower one.
NewestAreKept ==
  [][\A h \in DOMAIN cache \cup DOMAIN fetched :
       h \notin DOMAIN cache' /\ cache' # cache
         => \A g \in DOMAIN cache' : h < g]_cache
=============================================================================
