---------------------------- MODULE DataTheorems ----------------------------
(***************************************************************************)
(* What holds of importing, bundling, sending and pruning for every value  *)
(* of the constants.  The tables are safe on their own; what the bundler   *)
(* holds stays free because only the bundler bundles, and because the      *)
(* pruner deletes blocks only together with their bundle.                  *)
(***************************************************************************)
EXTENDS DataPipeline, FiniteSetTheorems, WellFoundedInduction, TLAPS

\* The importer never runs ahead of the chain.
NothingAhead ==
  /\ blocks \subseteq 0..fuelHeight
  /\ chainSeen <= fuelHeight
  /\ \A r \in ranges : r.hi <= chainSeen

\* The inductive invariant.
DataInv ==
  /\ TypeOK
  /\ BundlesPartitionBlocks
  /\ HeldStillFree
  /\ NothingDangles
  /\ NothingAhead

-----------------------------------------------------------------------------
(* Heights.                                                                *)

\* A set of naturals with a member has a least one.
LEMMA LeastMember ==
  ASSUME NEW S, S \subseteq Nat, S # {}
  PROVE  \E l \in S : \A m \in S : l <= m
<1> DEFINE R == {p \in Nat \X Nat : p[1] < p[2]}
<1>1. IsWellFoundedOn(R, Nat)
  <2>1. R = OpToRel(<, Nat)
    BY DEF OpToRel
  <2> QED BY <2>1, NatLessThanWellFounded
<1>2. \A l, m \in Nat : <<m, l>> \in R <=> m < l
  OBVIOUS
<1> HIDE DEF R
<1>3. \E l \in S : \A m \in S : ~ (<<m, l>> \in R)
  BY <1>1, WFMin
<1>4. PICK l \in S : \A m \in S : ~ (<<m, l>> \in R)
  BY <1>3
<1>5. \A m \in S : l <= m
  <2>1. SUFFICES ASSUME NEW m \in S PROVE l <= m
    OBVIOUS
  <2>2. l \in Nat /\ m \in Nat /\ ~(m < l)
    BY <1>2, <1>4
  <2> QED BY <2>2
<1> QED BY <1>5

\* A set of naturals below a bound with a member has a greatest one.
LEMMA GreatestMember ==
  ASSUME NEW n \in Nat, NEW S, S \subseteq 0..n, S # {}
  PROVE  \E g \in S : \A m \in S : m <= g
<1> DEFINE Distance == {d \in Nat : n - d \in S}
<1>1. Distance \subseteq Nat /\ Distance # {}
  <2>1. PICK m : m \in S
    OBVIOUS
  <2>2. n - m \in Nat /\ n - (n - m) = m
    BY <2>1
  <2> QED BY <2>1, <2>2
<1>2. PICK d \in Distance : \A e \in Distance : d <= e
  BY <1>1, LeastMember
<1>3. \A m \in S : n - m \in Distance /\ m \in Int
  <2>1. SUFFICES ASSUME NEW m \in S PROVE n - m \in Distance /\ m \in Int
    OBVIOUS
  <2>2. n - m \in Nat /\ n - (n - m) = m
    OBVIOUS
  <2> QED BY <2>2
<1>4. n - d \in S /\ d \in Nat
  BY <1>2
<1> QED BY <1>2, <1>3, <1>4

\* A set of heights that holds every height between its least and any other is an
\* interval.
LEMMA IsInterval ==
  ASSUME NEW S, S \subseteq Heights, NEW l \in S, \A h \in S : l <= h /\ l..h \subseteq S
  PROVE  \E hi \in Heights : S = l..hi
<1>1. PICK g \in S : \A m \in S : m <= g
  BY GreatestMember, BlockStorageAssumption DEF Heights
<1>2. l..g \subseteq S /\ l \in Nat /\ g \in Heights
  BY DEF Heights
<1>3. \A m \in S : m \in l..g
  BY <1>1, <1>2 DEF Heights
<1> QED BY <1>2, <1>3

\* More blocks are more bytes.
LEMMA SizesGrow ==
  ASSUME NEW lo \in Heights, NEW g \in Heights, NEW h \in Heights, g <= h
  PROVE  CumulativeSize(lo, g) <= CumulativeSize(lo, h)
<1>1. /\ {lo, g + 1, h + 1} \subseteq 0..(MaxHeight + 1)
      /\ g = h \/ g + 1 < h + 1
  BY BlockStorageAssumption DEF Heights
<1>2. SizeBelow[g + 1] <= SizeBelow[h + 1] /\ {SizeBelow[lo], SizeBelow[g + 1], SizeBelow[h + 1]} \subseteq Nat
  BY <1>1, BlockStorageAssumption
<1> QED BY <1>2 DEF CumulativeSize

\* The lower end of the window is a height.
LEMMA WindowStart ==
  ASSUME NEW height \in Heights
  PROVE  SeenUpTo(height) \in Heights
BY BlockStorageAssumption DEF SeenUpTo, Heights

\* What the bundler reads is an unbroken run of stored, unbundled blocks.
LEMMA SequenceIsFree ==
  ASSUME TypeOK, NEW from \in Heights, LowestSequence(from) # {}
  PROVE  /\ LowestSequence(from) \subseteq blocks \ Bundled
         /\ \E lo, hi \in Heights : LowestSequence(from) = lo..hi
<1> DEFINE S == LowestSequence(from)
<1>1. S \subseteq Unbundled(from) /\ Unbundled(from) \subseteq Heights
  BY DEF LowestSequence, Unbundled, TypeOK
<1>2. PICK h \in S, l \in Unbundled(from) :
        (\A m \in Unbundled(from) : l <= m) /\ l..h \subseteq Unbundled(from) /\ CumulativeSize(l, h) <= BytesToAccumulate
  BY DEF LowestSequence
<1>3. \A g \in S : l..g \subseteq Unbundled(from) /\ CumulativeSize(l, g) <= BytesToAccumulate
  <2>1. SUFFICES ASSUME NEW g \in S
                 PROVE  l..g \subseteq Unbundled(from) /\ CumulativeSize(l, g) <= BytesToAccumulate
    OBVIOUS
  <2>2. PICK k \in Unbundled(from) :
          (\A m \in Unbundled(from) : k <= m) /\ k..g \subseteq Unbundled(from) /\ CumulativeSize(k, g) <= BytesToAccumulate
    BY DEF LowestSequence
  <2>3. k = l
    BY <1>1, <1>2, <2>2 DEF Heights
  <2> QED BY <2>2, <2>3
<1>4. \A g \in S : l <= g /\ l..g \subseteq S
  <2>1. SUFFICES ASSUME NEW g \in S, NEW m \in l..g
                 PROVE  l <= g /\ m \in S
    BY <1>1, <1>2
  <2>2. l <= g /\ m \in Unbundled(from) /\ l..m \subseteq Unbundled(from)
    BY <1>1, <1>2, <1>3 DEF Heights
  <2>3. CumulativeSize(l, m) <= CumulativeSize(l, g) /\ {CumulativeSize(l, m), CumulativeSize(l, g)} \subseteq Int
    <3>1. {l, m, g} \subseteq Heights /\ m <= g
      BY <1>1, <2>2 DEF Heights
    <3>2. CumulativeSize(l, m) <= CumulativeSize(l, g)
      BY <3>1, SizesGrow
    <3>3. \A h2 \in Heights : h2 \in 0..(MaxHeight + 1) /\ h2 + 1 \in 0..(MaxHeight + 1)
      BY BlockStorageAssumption DEF Heights
    <3>4. \A i \in {l, m + 1, g + 1} : SizeBelow[i] \in Nat
      BY <3>1, <3>3, BlockStorageAssumption
    <3> QED BY <3>2, <3>4 DEF CumulativeSize
  <2>4. CumulativeSize(l, m) <= BytesToAccumulate
    BY <1>3, <2>3, BlockStorageAssumption
  <2> QED BY <1>2, <2>2, <2>4 DEF LowestSequence
<1>5. l \in S
  BY <1>1, <1>2, <1>4 DEF Heights
<1>6. \E hi \in Heights : S = l..hi
  BY <1>1, <1>4, <1>5, IsInterval
<1> QED BY <1>1, <1>2, <1>6 DEF Unbundled

-----------------------------------------------------------------------------
(* Steps that leave the tables alone.                                      *)

\* Nothing is stored, read or held at the start.
LEMMA InitData == Init => DataInv
<1>1. SUFFICES ASSUME Init PROVE DataInv
  OBVIOUS
<1>2. /\ fuelHeight = 0 /\ blocks = {} /\ bundles = {} /\ fragments = {} /\ txs = {}
      /\ importerAt = "idle" /\ chainSeen = 0 /\ ranges = {}
      /\ bundlerAt = "idle" /\ startingHeight = 0 /\ totalUnbundled = 0 /\ oldest = {} /\ timedOut = FALSE
      /\ now = 0 /\ sent = 0 /\ faults = 0
  BY <1>1 DEF Init, StorageInit, ImporterInit, BundlerInit
<1>3. TypeOK
  <2>1. 0 \in Heights /\ 0 \in 0..(MaxHeight + 1) /\ 0 \in 0..MaxTime /\ 0 \in 0..MaxTxs /\ 0 \in 0..MaxFaults
    BY BlockStorageAssumption, PipelineAssumption DEF Heights
  <2> QED BY <1>2, <2>1 DEF TypeOK
<1>4. BundlesPartitionBlocks /\ HeldStillFree /\ NothingAhead
  <2>1. Bundled = {}
    BY <1>2, Zenon DEF Bundled
  <2>2. BundlesPartitionBlocks
    BY <1>2, <2>1 DEF BundlesPartitionBlocks
  <2> QED BY <1>2, <2>2 DEF HeldStillFree, NothingAhead
<1>5. NothingDangles
  <2>1. CarriedBy(txs) = {} /\ {f.bundle : f \in fragments} = {}
    BY <1>2, Zenon DEF CarriedBy
  <2> QED BY <1>2, <2>1 DEF NothingDangles
<1> QED BY <1>3, <1>4, <1>5 DEF DataInv

\* What the tables promise does not depend on anything else.
LEMMA TablesStay ==
  ASSUME DataInv, UNCHANGED tableVars
  PROVE  BundlesPartitionBlocks' /\ NothingDangles' /\ Bundled' = Bundled
BY DEF DataInv, tableVars, BundlesPartitionBlocks, NothingDangles, Bundled, CarriedBy

\* The chain, the clock and the time limit disturb nobody.
LEMMA WorldStep ==
  ASSUME DataInv, NewFuelBlock \/ Tick \/ TimeOut \/ UNCHANGED vars
  PROVE  DataInv'
<1>1. UNCHANGED <<tableVars, importerVars, bundlerAt, oldest>> /\ fuelHeight <= fuelHeight'
  BY BlockStorageAssumption
     DEF DataInv, TypeOK, Heights, NewFuelBlock, Tick, TimeOut, AccumulationTimeout, vars, bundlerVars
<1>2. TypeOK'
  <2>1. CASE NewFuelBlock
    <3>1. fuelHeight' \in Heights
      BY <2>1, BlockStorageAssumption DEF NewFuelBlock, DataInv, TypeOK, Heights
    <3> QED BY <2>1, <3>1 DEF NewFuelBlock, DataInv, TypeOK, worldVars, tableVars, importerVars, bundlerVars
  <2>2. CASE Tick
    <3>1. now' \in 0..MaxTime
      BY <2>2, PipelineAssumption DEF Tick, DataInv, TypeOK
    <3> QED BY <2>2, <3>1 DEF Tick, DataInv, TypeOK, tableVars, importerVars, bundlerVars
  <2>3. CASE TimeOut \/ UNCHANGED vars
    BY <2>3 DEF TimeOut, AccumulationTimeout, vars, DataInv, TypeOK, worldVars, tableVars, importerVars, bundlerVars
  <2> QED BY <2>1, <2>2, <2>3
<1>3. HeldStillFree'
  BY <1>1, TablesStay DEF DataInv, HeldStillFree, tableVars
<1>4. NothingAhead'
  BY <1>1, <1>2, BlockStorageAssumption DEF DataInv, TypeOK, NothingAhead, Heights, tableVars, importerVars
<1> QED BY <1>1, <1>2, <1>3, <1>4, TablesStay DEF DataInv

\* The importer reads the height of the chain and lists what is missing up to it.
LEMMA ImporterReads ==
  ASSUME DataInv, ReadLatestHeight \/ ListMissing \/ ImporterDone, UNCHANGED <<bundlerVars, worldVars>>
  PROVE  DataInv'
<1>1. UNCHANGED <<fuelHeight, tableVars, bundlerVars, worldVars>>
  BY DEF ReadLatestHeight, ListMissing, ImporterDone
<1>2. /\ importerAt' \in {"idle", "started", "importing"}
      /\ chainSeen' \in Heights /\ chainSeen' <= fuelHeight
      /\ ranges' \subseteq [lo : Heights, hi : Heights]
      /\ \A r \in ranges' : r.hi <= chainSeen'
  <2>1. CASE ReadLatestHeight
    BY <2>1, BlockStorageAssumption DEF ReadLatestHeight, DataInv, TypeOK, NothingAhead, Heights
  <2>2. CASE ListMissing
    <3>1. MissingBlocks(SeenUpTo(chainSeen), chainSeen) \subseteq [lo : 0..chainSeen, hi : 0..chainSeen]
      <4>1. SeenUpTo(chainSeen)..chainSeen \subseteq 0..chainSeen
        BY WindowStart, BlockStorageAssumption DEF DataInv, TypeOK, Heights
      <4> QED BY <4>1 DEF MissingBlocks
    <3>2. chainSeen \in Heights /\ 0..chainSeen \subseteq Heights /\ chainSeen <= fuelHeight
      BY BlockStorageAssumption DEF DataInv, TypeOK, Heights, NothingAhead
    <3> QED BY <2>2, <3>1, <3>2 DEF ListMissing
  <2>3. CASE ImporterDone
    BY <2>3, BlockStorageAssumption DEF ImporterDone, ImporterReset, DataInv, TypeOK, Heights
  <2> QED BY <2>1, <2>2, <2>3
<1>3. TypeOK'
  BY <1>1, <1>2 DEF DataInv, TypeOK, tableVars, bundlerVars, worldVars
<1>4. HeldStillFree' /\ NothingAhead'
  BY <1>1, <1>2, TablesStay DEF DataInv, HeldStillFree, NothingAhead, tableVars, bundlerVars
<1> QED BY <1>1, <1>3, <1>4, TablesStay DEF DataInv

\* The bundler counts and waits, holding nothing.
LEMMA BundlerReads ==
  ASSUME DataInv, GetStartingHeight \/ CountUnbundled \/ EndRun, UNCHANGED <<importerVars, worldVars>>
  PROVE  DataInv'
<1>1. UNCHANGED <<fuelHeight, tableVars, importerVars, worldVars, timedOut>> /\ bundlerAt' # "optimizing"
  BY DEF GetStartingHeight, CountUnbundled, EndRun, BundlerReset
<1>2. /\ bundlerAt' \in {"idle", "counting", "reading", "optimizing"}
      /\ startingHeight' \in Heights
      /\ totalUnbundled' \in 0..(MaxHeight + 1)
      /\ oldest' \subseteq Heights
  <2>1. CASE GetStartingHeight
    BY <2>1, WindowStart DEF GetStartingHeight, DataInv, TypeOK
  <2>2. CASE CountUnbundled
    <3>1. Cardinality(Unbundled(startingHeight)) \in 0..(MaxHeight + 1)
      <4>1. IsFiniteSet(Heights) /\ Cardinality(Heights) = MaxHeight + 1
        <5>1. 0 \in Int /\ MaxHeight \in Int /\ ~(0 > MaxHeight)
          BY BlockStorageAssumption
        <5> QED BY <5>1, FS_Interval DEF Heights
      <4>2. Unbundled(startingHeight) \in SUBSET Heights
        BY DEF Unbundled, DataInv, TypeOK
      <4>3. IsFiniteSet(Unbundled(startingHeight)) /\ Cardinality(Unbundled(startingHeight)) <= MaxHeight + 1
        BY <4>1, <4>2, FS_Subset
      <4>4. Cardinality(Unbundled(startingHeight)) \in Nat
        BY <4>3, FS_CardinalityType
      <4> QED BY <4>3, <4>4, BlockStorageAssumption
    <3> QED BY <2>2, <3>1 DEF CountUnbundled, DataInv, TypeOK
  <2>3. CASE EndRun
    BY <2>3, BlockStorageAssumption DEF EndRun, BundlerReset, Heights
  <2> QED BY <2>1, <2>2, <2>3
<1>3. TypeOK'
  BY <1>1, <1>2 DEF DataInv, TypeOK, tableVars, importerVars, worldVars
<1>4. HeldStillFree' /\ NothingAhead'
  BY <1>1 DEF DataInv, HeldStillFree, NothingAhead, tableVars, importerVars
<1> QED BY <1>1, <1>3, <1>4, TablesStay DEF DataInv

\* What the optimizer is given is free and unbroken.
LEMMA TakeStep ==
  ASSUME DataInv, TakeSequence, UNCHANGED <<importerVars, worldVars>>
  PROVE  DataInv'
<1>1. /\ UNCHANGED <<fuelHeight, tableVars, importerVars, worldVars, timedOut, startingHeight, totalUnbundled>>
      /\ bundlerAt' = "optimizing" /\ oldest' = LowestSequence(startingHeight)
      /\ LowestSequence(startingHeight) # {}
  BY DEF TakeSequence
<1>2. /\ oldest' # {} /\ oldest' \subseteq blocks \ Bundled
      /\ \E lo, hi \in Heights : oldest' = lo..hi
  BY <1>1, SequenceIsFree DEF DataInv, TypeOK
<1>3. TypeOK'
  BY <1>1, <1>2 DEF DataInv, TypeOK, tableVars, importerVars, worldVars
<1>4. HeldStillFree'
  BY <1>1, <1>2, TablesStay DEF HeldStillFree, tableVars
<1>5. NothingAhead'
  BY <1>1 DEF DataInv, NothingAhead, tableVars, importerVars
<1> QED BY <1>1, <1>3, <1>4, <1>5, TablesStay DEF DataInv

\* An error or a restart loses what a run held, and nothing else.
LEMMA ResetStep ==
  ASSUME DataInv, BundlerError \/ Crash
  PROVE  DataInv'
<1>1. UNCHANGED <<fuelHeight, tableVars, now, sent>> /\ faults' \in 0..MaxFaults
  BY PipelineAssumption DEF BundlerError, Crash, Fault, DataInv, TypeOK
<1>2. /\ bundlerAt' = "idle" /\ startingHeight' = 0 /\ totalUnbundled' = 0 /\ oldest' = {}
      /\ timedOut' \in BOOLEAN
  BY DEF BundlerError, Crash, BundlerReset, DataInv, TypeOK
<1>3. \/ UNCHANGED importerVars
      \/ importerAt' = "idle" /\ chainSeen' = 0 /\ ranges' = {}
  BY DEF BundlerError, Crash, ImporterReset
<1>4. TypeOK'
  BY <1>1, <1>2, <1>3, BlockStorageAssumption DEF DataInv, TypeOK, Heights, tableVars, importerVars
<1>5. HeldStillFree' /\ NothingAhead'
  BY <1>1, <1>2, <1>3 DEF DataInv, TypeOK, HeldStillFree, NothingAhead, Heights, tableVars, importerVars
<1> QED BY <1>1, <1>4, <1>5, TablesStay DEF DataInv

-----------------------------------------------------------------------------
(* Steps that write to the tables.                                         *)

\* Blocks are added up to the height the run saw, and none is there already.
LEMMA ImportStep ==
  ASSUME DataInv, NEW r \in ranges, NEW last \in Int, last <= r.hi,
         InsertBlocks(r.lo, last),
         importerAt' \in {"idle", "started", "importing"}, chainSeen' \in Heights, chainSeen' <= chainSeen,
         ranges' \subseteq [lo : Heights, hi : Heights], \A q \in ranges' : q.hi <= chainSeen',
         faults' \in 0..MaxFaults, UNCHANGED <<fuelHeight, bundlerVars, now, sent>>
  PROVE  DataInv'
<1>1. r.lo..last \subseteq 0..fuelHeight /\ 0..fuelHeight \subseteq Heights
  <2>1. r.lo \in 0..MaxHeight /\ r.hi \in 0..MaxHeight /\ r.hi <= chainSeen
    BY DEF DataInv, TypeOK, NothingAhead, Heights
  <2>2. chainSeen \in Nat /\ fuelHeight \in 0..MaxHeight /\ chainSeen <= fuelHeight
    BY DEF DataInv, TypeOK, NothingAhead, Heights
  <2>3. \A h \in r.lo..last : h \in 0..fuelHeight
    BY <2>1, <2>2
  <2>4. 0..fuelHeight \subseteq Heights
    BY <2>2, BlockStorageAssumption DEF Heights
  <2> QED BY <2>3, <2>4
<1>2. blocks' = blocks \cup r.lo..last /\ UNCHANGED <<bundles, fragments, txs>>
  BY DEF InsertBlocks
<1>3. blocks' \subseteq Heights /\ blocks' \subseteq 0..fuelHeight
  BY <1>1, <1>2 DEF DataInv, TypeOK, NothingAhead
<1>4. TypeOK'
  BY <1>2, <1>3 DEF DataInv, TypeOK, bundlerVars
<1>5. BundlesPartitionBlocks' /\ NothingDangles' /\ Bundled' = Bundled
  BY <1>2 DEF DataInv, BundlesPartitionBlocks, NothingDangles, Bundled, CarriedBy
<1>6. HeldStillFree'
  BY <1>2, <1>5 DEF DataInv, HeldStillFree, bundlerVars
<1>7. NothingAhead'
  <2>1. chainSeen' \in Nat /\ chainSeen \in Nat /\ fuelHeight \in Nat /\ chainSeen <= fuelHeight
    BY BlockStorageAssumption DEF DataInv, TypeOK, NothingAhead, Heights
  <2>2. chainSeen' <= fuelHeight'
    BY <2>1
  <2> QED BY <1>3, <2>2 DEF NothingAhead
<1> QED BY <1>4, <1>5, <1>6, <1>7 DEF DataInv

\* A chunk is part of a missing range.
LEMMA ChunkStep ==
  ASSUME DataInv, ImportChunk, UNCHANGED <<bundlerVars, worldVars>>
  PROVE  DataInv'
<1>0. PICK r \in ranges : \E last \in ChunkOf(r) :
        InsertBlocks(r.lo, last) /\ ranges' = (ranges \ {r}) \cup AfterChunk(r, last)
  BY DEF ImportChunk
<1>1. PICK last \in ChunkOf(r) :
        InsertBlocks(r.lo, last) /\ ranges' = (ranges \ {r}) \cup AfterChunk(r, last)
  BY <1>0
<1>2. UNCHANGED <<importerAt, chainSeen, fuelHeight>>
  BY DEF ImportChunk
<1>3. r.lo \in Heights /\ r.hi \in Heights /\ last \in r.lo..r.hi /\ r.hi <= chainSeen
  BY <1>1 DEF ChunkOf, DataInv, TypeOK, NothingAhead
<1>4. AfterChunk(r, last) \subseteq [lo : Heights, hi : Heights] /\ \A q \in AfterChunk(r, last) : q.hi = r.hi
  BY <1>3, BlockStorageAssumption DEF AfterChunk, Heights
<1>5. /\ importerAt' \in {"idle", "started", "importing"} /\ chainSeen' \in Heights /\ chainSeen' <= chainSeen
      /\ ranges' \subseteq [lo : Heights, hi : Heights]
  BY <1>1, <1>2, <1>4 DEF DataInv, TypeOK, Heights
<1>6. \A q \in ranges' : q.hi <= chainSeen'
  BY <1>1, <1>2, <1>3, <1>4 DEF DataInv, NothingAhead
<1>7. faults' \in 0..MaxFaults /\ UNCHANGED <<fuelHeight, bundlerVars, now, sent>>
  BY <1>2 DEF DataInv, TypeOK, worldVars
<1>8. last \in Int /\ last <= r.hi
  BY <1>3 DEF Heights
<1> QED BY <1>1, <1>5, <1>6, <1>7, <1>8, ImportStep

\* So is what came before an error.
LEMMA StreamErrorStep ==
  ASSUME DataInv, NEW h, StreamError(h), faults' \in 0..MaxFaults, UNCHANGED <<bundlerVars, now, sent>>
  PROVE  DataInv'
<1>1. PICK r \in ranges : h \in ChunkOf(r) /\ InsertBlocks(r.lo, h - 1)
  BY DEF StreamError
<1>2. importerAt' = "idle" /\ chainSeen' = 0 /\ ranges' = {} /\ UNCHANGED fuelHeight
  BY DEF StreamError, ImporterReset
<1>3. h - 1 \in Int /\ h - 1 <= r.hi
  BY <1>1 DEF ChunkOf, DataInv, TypeOK, Heights
<1>4. chainSeen' \in Heights /\ chainSeen' <= chainSeen
  BY <1>2, BlockStorageAssumption DEF DataInv, TypeOK, Heights
<1> QED BY <1>1, <1>2, <1>3, <1>4, ImportStep

\* A prefix of what the optimizer holds is an interval of free blocks.
LEMMA BundleIsFree ==
  ASSUME DataInv, bundlerAt = "optimizing", NEW last \in oldest
  PROVE  /\ First(oldest) \in Heights /\ last \in Heights /\ First(oldest) <= last
         /\ First(oldest)..last \subseteq oldest
         /\ oldest \subseteq blocks \ Bundled
<1>1. PICK lo \in Heights, hi \in Heights : oldest = lo..hi
  BY DEF DataInv, HeldStillFree
<1>2. lo \in oldest /\ \A h \in oldest : lo <= h
  BY <1>1 DEF Heights
<1>3. First(oldest) \in oldest /\ \A h \in oldest : First(oldest) <= h
  BY <1>2 DEF First
<1> QED BY <1>1, <1>2, <1>3, BlockStorageAssumption DEF DataInv, HeldStillFree, Heights

\* The tables after the insert of a bundle.
LEMMA BundleStored ==
  ASSUME DataInv, NEW lo \in Heights, NEW hi \in Heights, NEW n \in FragmentCounts,
         lo <= hi, lo..hi \subseteq blocks \ Bundled, InsertBundleAndFragments(lo, hi, n)
  PROVE  /\ bundles' \subseteq BundleRows /\ fragments' \subseteq FragmentRows
         /\ BundlesPartitionBlocks' /\ NothingDangles'
         /\ Bundled' = Bundled \cup lo..hi
         /\ UNCHANGED <<blocks, txs>>
<1> DEFINE b == [lo |-> lo, hi |-> hi, n |-> n]
           F == {[bundle |-> b, idx |-> i] : i \in 0..(n - 1)}
<1>1. bundles' = bundles \cup {b} /\ fragments' = fragments \cup F /\ UNCHANGED <<blocks, txs>>
  BY DEF InsertBundleAndFragments
<1>2. n \in Nat \ {0} /\ 0 \in 0..(n - 1) /\ b \in BundleRows
  <2>1. n \in Nat \ {0}
    BY BundlerAssumption
  <2> QED BY <2>1 DEF BundleRows
<1>3. F \subseteq FragmentRows
  BY <1>2 DEF FragmentRows
<1>4. Covers(b) = lo..hi
  BY DEF Covers
<1>5. Bundled' = Bundled \cup lo..hi
  <2>1. Bundled' = UNION {Covers(c) : c \in bundles \cup {b}}
    BY <1>1 DEF Bundled
  <2>2. UNION {Covers(c) : c \in bundles \cup {b}} = (UNION {Covers(c) : c \in bundles}) \cup Covers(b)
    OBVIOUS
  <2> QED BY <1>4, <2>1, <2>2 DEF Bundled
<1>6. BundlesPartitionBlocks'
  <2>1. \A c \in bundles : Covers(c) \subseteq Bundled
    BY Zenon DEF Bundled
  <2>2. \A c \in bundles : Covers(c) \cap Covers(b) = {}
    BY <1>4, <2>1
  <2>3. Bundled' \subseteq blocks'
    BY <1>1, <1>5 DEF DataInv, BundlesPartitionBlocks
  <2>4. \A c, d \in bundles' : Covers(c) \cap Covers(d) # {} => c = d
    BY <1>1, <2>2 DEF DataInv, BundlesPartitionBlocks
  <2> QED BY <2>3, <2>4 DEF BundlesPartitionBlocks
<1>7. NothingDangles'
  <2>1. CarriedBy(txs)' \subseteq fragments'
    BY <1>1 DEF CarriedBy, DataInv, NothingDangles
  <2>2. {f.bundle : f \in F} = {b}
    <3>1. \A i \in 0..(n - 1) : [bundle |-> b, idx |-> i] \in F
      OBVIOUS
    <3>2. [bundle |-> b, idx |-> 0] \in F
      BY <1>2, <3>1
    <3>3. \A f \in F : f.bundle = b
      OBVIOUS
    <3>4. PICK f \in F : f.bundle = b
      BY <3>2, <3>3
    <3> HIDE DEF F, b
    <3> QED BY <3>3, <3>4
  <2>3. {f.bundle : f \in fragments'} = {f.bundle : f \in fragments} \cup {f.bundle : f \in F}
    BY <1>1
  <2> QED BY <1>1, <2>1, <2>2, <2>3 DEF DataInv, NothingDangles
<1> QED BY <1>1, <1>2, <1>3, <1>5, <1>6, <1>7 DEF DataInv, TypeOK

\* The bundler stores a bundle of blocks nobody has bundled meanwhile.
LEMMA BundleStep ==
  ASSUME DataInv, InsertBundle, UNCHANGED <<importerVars, worldVars>>
  PROVE  DataInv'
<1>1. PICK last \in oldest, n \in FragmentCounts : InsertBundleAndFragments(First(oldest), last, n)
  BY DEF InsertBundle
<1>2. /\ bundlerAt = "optimizing" /\ bundlerAt' = "counting" /\ timedOut' = FALSE
      /\ totalUnbundled' = 0 /\ oldest' = {}
      /\ UNCHANGED <<startingHeight, fuelHeight, importerVars, worldVars>>
  BY DEF InsertBundle
<1>3. /\ bundles' \subseteq BundleRows /\ fragments' \subseteq FragmentRows
      /\ BundlesPartitionBlocks' /\ NothingDangles'
      /\ UNCHANGED <<blocks, txs>>
  BY <1>1, <1>2, BundleIsFree, BundleStored
<1>4. TypeOK'
  <2>1. totalUnbundled' \in 0..(MaxHeight + 1)
    BY <1>2, BlockStorageAssumption
  <2> QED BY <1>2, <1>3, <2>1 DEF DataInv, TypeOK, importerVars, worldVars
<1>5. HeldStillFree' /\ NothingAhead'
  BY <1>2, <1>3 DEF DataInv, HeldStillFree, NothingAhead, importerVars
<1> QED BY <1>3, <1>4, <1>5 DEF DataInv

\* What a transaction carries is there: a stored, unbundled or younger fragment.
LEMMA TxsStep ==
  ASSUME DataInv, UNCHANGED <<fuelHeight, blocks, bundles, fragments, importerVars, bundlerVars, now, faults>>,
         sent' \in 0..MaxTxs, txs' \subseteq TxRows, CarriedBy(txs') \subseteq fragments
  PROVE  DataInv'
<1>1. TypeOK'
  BY DEF DataInv, TypeOK, importerVars, bundlerVars
<1>2. BundlesPartitionBlocks' /\ HeldStillFree' /\ NothingAhead'
  BY DEF DataInv, BundlesPartitionBlocks, HeldStillFree, NothingAhead, Bundled, importerVars, bundlerVars
<1>3. NothingDangles'
  BY DEF DataInv, NothingDangles, CarriedBy
<1> QED BY <1>1, <1>2, <1>3 DEF DataInv

\* A transaction with fragments that are stored is recorded.
LEMMA RecordStep ==
  ASSUME DataInv, NEW F \in SUBSET fragments, sent < MaxTxs, RecordPendingTx(sent, F, now), sent' = sent + 1,
         UNCHANGED <<fuelHeight, importerVars, bundlerVars, now, faults>>
  PROVE  DataInv'
<1> DEFINE t == [id |-> sent, carries |-> F, created |-> now, state |-> "Pending"]
<1>1. txs' = txs \cup {t} /\ UNCHANGED <<blocks, bundles, fragments>>
  BY DEF RecordPendingTx
<1>2. sent \in 0..MaxTxs /\ sent' \in 0..MaxTxs
  BY PipelineAssumption DEF DataInv, TypeOK
<1>3. t \in TxRows
  BY <1>2 DEF DataInv, TypeOK, TxRows
<1>4. t.carries = F
  OBVIOUS
<1> HIDE DEF t
<1>5. CarriedBy(txs') \subseteq fragments
  BY <1>1, <1>4 DEF CarriedBy, DataInv, NothingDangles
<1> QED BY <1>1, <1>2, <1>3, <1>5, TxsStep DEF DataInv, TypeOK

\* Sending, replacing and settling transactions.
LEMMA SendingStep ==
  ASSUME DataInv, Send \/ Replace \/ Settle
  PROVE  DataInv'
<1>1. CASE Send
  <2>1. PICK F \in SUBSET Fresh : RecordPendingTx(sent, F, now)
    BY <1>1 DEF Send
  <2>2. F \in SUBSET fragments
    BY DEF Fresh, NonfinalizedFragments
  <2> QED BY <1>1, <2>1, <2>2, RecordStep DEF Send
<1>2. CASE Replace
  <2>1. PICK t \in txs : RecordPendingTx(sent, t.carries, now)
    BY <1>2 DEF Replace, TxsIn
  <2>2. t.carries \in SUBSET fragments
    BY DEF DataInv, NothingDangles, CarriedBy
  <2> QED BY <1>2, <2>1, <2>2, RecordStep DEF Replace
<1>3. CASE Settle
  <2>1. PICK W : SettlePending(W)
    BY <1>3 DEF Settle
  <2> DEFINE Settled(t) == IF t.state # "Pending" THEN t
                           ELSE [t EXCEPT !.state = IF t \in W THEN "Finalized" ELSE "Failed"]
  <2>2. txs' = {Settled(t) : t \in txs} /\ UNCHANGED <<blocks, bundles, fragments>>
    BY <2>1 DEF SettlePending
  <2>3. \A t \in txs : Settled(t) \in TxRows /\ Settled(t).carries = t.carries
    BY DEF DataInv, TypeOK, TxRows
  <2> HIDE DEF Settled
  <2>4. txs' \subseteq TxRows
    BY <2>2, <2>3
  <2>5. CarriedBy(txs') \subseteq fragments
    BY <2>2, <2>3 DEF CarriedBy, DataInv, NothingDangles
  <2>6. UNCHANGED <<fuelHeight, importerVars, bundlerVars, now, sent, faults>>
    BY <1>3 DEF Settle, worldVars
  <2> QED BY <2>2, <2>4, <2>5, <2>6, TxsStep DEF DataInv, TypeOK
<1> QED BY <1>1, <1>2, <1>3

\* Only blocks of bundles that go are deleted, and the others keep theirs.
LEMMA PrunedCovers ==
  ASSUME DataInv, NEW date, PruneEntriesOlderThan(date)
  PROVE  /\ blocks' = blocks \ UNION {Covers(b) : b \in PrunedBundles(date)}
         /\ Bundled' = Bundled \ UNION {Covers(b) : b \in PrunedBundles(date)}
         /\ BundlesPartitionBlocks'
<1> DEFINE Gone == PrunedBundles(date)
           Deleted == UNION {Covers(b) : b \in Gone}
<1>1. blocks' = blocks \ Deleted /\ bundles' = bundles \ Gone /\ Gone \subseteq bundles
  BY DEF PruneEntriesOlderThan, PrunedBundles
<1> HIDE DEF Gone
<1>2. \A b \in bundles \ Gone : Covers(b) \cap Deleted = {}
  BY <1>1 DEF DataInv, BundlesPartitionBlocks
<1>3. Bundled' = Bundled \ Deleted
  <2>1. \A h : h \in Bundled <=> \E b \in bundles : h \in Covers(b)
    BY DEF Bundled
  <2>2. \A h : h \in Bundled' <=> \E b \in bundles \ Gone : h \in Covers(b)
    BY <1>1 DEF Bundled
  <2>3. \A h : h \in Deleted <=> \E b \in Gone : h \in Covers(b)
    OBVIOUS
  <2> HIDE DEF Deleted
  <2> QED BY <1>1, <1>2, <2>1, <2>2, <2>3
<1>4. BundlesPartitionBlocks'
  BY <1>1, <1>3 DEF DataInv, BundlesPartitionBlocks
<1> QED BY <1>1, <1>3, <1>4 DEF Gone

\* A fragment goes with the last transaction that carries it, a bundle with its last
\* fragment.
LEMMA PrunedRows ==
  ASSUME DataInv, NEW date, PruneEntriesOlderThan(date)
  PROVE  /\ txs' \subseteq txs /\ fragments' \subseteq fragments /\ bundles' \subseteq bundles
         /\ NothingDangles'
<1>1. /\ txs' = txs \ TxsBefore(date)
      /\ fragments' = fragments \ PrunedFragments(date)
      /\ bundles' = bundles \ PrunedBundles(date)
  BY DEF PruneEntriesOlderThan
<1>2. CarriedBy(txs)' \subseteq fragments'
  <2>1. CarriedBy(txs)' = CarriedBy(txs \ TxsBefore(date))
    BY <1>1 DEF CarriedBy
  <2>2. CarriedBy(txs \ TxsBefore(date)) \subseteq fragments
    BY DEF CarriedBy, DataInv, NothingDangles
  <2> QED BY <1>1, <2>1, <2>2 DEF PrunedFragments
<1>3. \A f \in fragments' : f.bundle \in bundles'
  <2>1. \A f \in fragments : f.bundle \in bundles
    BY DEF DataInv, NothingDangles
  <2> QED BY <1>1, <2>1 DEF PrunedBundles
<1>4. \A b \in bundles' : \E f \in fragments' : f.bundle = b
  <2>1. \A b \in bundles : \E f \in fragments : f.bundle = b
    BY DEF DataInv, NothingDangles
  <2> QED BY <1>1, <2>1 DEF PrunedBundles
<1>5. {f.bundle : f \in fragments'} = bundles'
  BY <1>3, <1>4
<1> QED BY <1>1, <1>2, <1>5 DEF NothingDangles

\* Pruning takes nothing the bundler holds.
LEMMA PruneStep ==
  ASSUME DataInv, Prune
  PROVE  DataInv'
<1>1. PICK date : PruneEntriesOlderThan(date)
  BY DEF Prune
<1>2. UNCHANGED <<fuelHeight, importerVars, bundlerVars, worldVars>>
  BY DEF Prune
<1>3. /\ txs' \subseteq txs /\ fragments' \subseteq fragments /\ bundles' \subseteq bundles
      /\ NothingDangles' /\ BundlesPartitionBlocks'
      /\ blocks' \subseteq blocks
      /\ blocks \ Bundled \subseteq blocks' \ Bundled'
  <2>1. UNION {Covers(b) : b \in PrunedBundles(date)} \subseteq Bundled
    BY DEF PrunedBundles, Bundled
  <2> QED BY <1>1, <2>1, PrunedCovers, PrunedRows
<1>4. TypeOK'
  BY <1>2, <1>3 DEF DataInv, TypeOK, importerVars, bundlerVars, worldVars
<1>5. HeldStillFree' /\ NothingAhead'
  BY <1>2, <1>3 DEF DataInv, HeldStillFree, NothingAhead, importerVars, bundlerVars
<1> QED BY <1>3, <1>4, <1>5 DEF DataInv

-----------------------------------------------------------------------------
(* The theorems.                                                           *)

\* Every step preserves the invariant.
LEMMA DataStep ==
  ASSUME DataInv, [Next]_vars
  PROVE  DataInv'
<1>1. CASE RunImporter
  <2>1. CASE \E h \in Unavailable : StreamError(h)
    <3>1. faults' \in 0..MaxFaults /\ UNCHANGED <<bundlerVars, now, sent>>
      BY <1>1 DEF RunImporter, worldVars, DataInv, TypeOK
    <3> QED BY <2>1, <3>1, StreamErrorStep
  <2>2. CASE ReadLatestHeight \/ ListMissing \/ ImporterDone \/ ImportChunk
    BY <1>1, <2>2, ImporterReads, ChunkStep DEF RunImporter
  <2> QED BY <1>1, <2>1, <2>2 DEF RunImporter, ImporterStep
<1>2. CASE RunBundler
  BY <1>2, BundlerReads, TakeStep, BundleStep DEF RunBundler, BundlerStep
<1>3. CASE ImporterError
  <2>1. faults' \in 0..MaxFaults /\ UNCHANGED <<bundlerVars, now, sent>>
    BY <1>3, PipelineAssumption DEF ImporterError, Fault, DataInv, TypeOK
  <2> QED BY <1>3, <2>1, StreamErrorStep DEF ImporterError
<1>4. CASE NewFuelBlock \/ Tick \/ TimeOut \/ UNCHANGED vars
  BY <1>4, WorldStep
<1>5. CASE Send \/ Replace \/ Settle
  BY <1>5, SendingStep
<1>6. CASE Prune
  BY <1>6, PruneStep
<1>7. CASE BundlerError \/ Crash
  BY <1>7, ResetStep
<1> QED BY <1>1, <1>2, <1>3, <1>4, <1>5, <1>6, <1>7 DEF Next

\* The inductive invariant: what the tables promise and what the bundler holds, with
\* all tasks, errors and restarts interleaved at will.
THEOREM DataInvariance == Spec => []DataInv
<1>1. Init => DataInv
  BY InitData
<1>2. DataInv /\ [Next]_vars => DataInv'
  BY DataStep
<1> QED BY <1>1, <1>2, PTL DEF Spec

\* The types of the tables and of the runs' memory.
THEOREM DataTypes == Spec => []TypeOK
<1>1. DataInv => TypeOK
  BY DEF DataInv
<1> QED BY <1>1, DataInvariance, PTL

\* Every block of a bundle is stored, and no block is in two bundles.
THEOREM BlocksAreInOneBundle == Spec => []BundlesPartitionBlocks
<1>1. DataInv => BundlesPartitionBlocks
  BY DEF DataInv
<1> QED BY <1>1, DataInvariance, PTL

\* What the optimizer works on stays unbroken, stored and unbundled.
THEOREM OptimizerHoldsFreeBlocks == Spec => []HeldStillFree
<1>1. DataInv => HeldStillFree
  BY DEF DataInv
<1> QED BY <1>1, DataInvariance, PTL

\* No row refers to one that pruning has deleted.
THEOREM NoRowDangles == Spec => []NothingDangles
<1>1. DataInv => NothingDangles
  BY DEF DataInv
<1> QED BY <1>1, DataInvariance, PTL

-----------------------------------------------------------------------------
(* Implementing BlockIntake.                                               *)

\* Nothing is stored or bundled at the start.
LEMMA InitIntake == Init => Intake!Init
<1>1. SUFFICES ASSUME Init PROVE Intake!Init
  OBVIOUS
<1>2. fuelHeight = 0 /\ blocks = {} /\ Bundled = {}
  BY <1>1 DEF Init, StorageInit, Bundled
<1> QED BY <1>2 DEF Intake!Init

\* Blocks of a missing range are stored.
LEMMA StoreIntake ==
  ASSUME DataInv, NEW r \in ranges, NEW last \in Int, last <= r.hi, InsertBlocks(r.lo, last),
         UNCHANGED fuelHeight
  PROVE  [Intake!Next]_Intake!intakeVars
<1>1. blocks' = blocks \cup r.lo..last /\ Bundled' = Bundled /\ r.lo..last \cap blocks = {}
  BY DEF InsertBlocks, Bundled
<1>2. r.lo \in Nat /\ r.hi \in Nat /\ r.hi <= fuelHeight /\ fuelHeight \in Nat
  <2>1. r.lo \in Nat /\ r.hi \in Nat /\ r.hi <= chainSeen /\ chainSeen \in Nat /\ fuelHeight \in Nat /\ chainSeen <= fuelHeight
    BY DEF DataInv, TypeOK, NothingAhead, Heights
  <2> QED BY <2>1
<1>3. CASE r.lo <= last
  <2>1. r.lo \in 0..fuelHeight /\ last \in 0..fuelHeight
    BY <1>2, <1>3
  <2>2. Intake!Store
    BY <1>1, <2>1 DEF Intake!Store
  <2> QED BY <2>2 DEF Intake!Next
<1>4. CASE ~(r.lo <= last)
  <2>1. r.lo..last = {}
    BY <1>2, <1>4
  <2> QED BY <1>1, <2>1 DEF Intake!intakeVars
<1> QED BY <1>3, <1>4

\* Every step is a step of the abstract specification, or none.
LEMMA IntakeStep ==
  ASSUME DataInv, [Next]_vars
  PROVE  [Intake!Next]_Intake!intakeVars
<1>1. CASE NewFuelBlock
  <2>1. fuelHeight' = fuelHeight + 1 /\ blocks' = blocks /\ Bundled' = Bundled
    BY <1>1 DEF NewFuelBlock, tableVars, Bundled
  <2> QED BY <2>1 DEF Intake!Next, Intake!Grow
<1>2. CASE ImportChunk /\ RunImporter
  <2>1. PICK r \in ranges : \E last \in ChunkOf(r) : InsertBlocks(r.lo, last)
    BY <1>2 DEF ImportChunk
  <2>2. PICK last \in ChunkOf(r) : InsertBlocks(r.lo, last)
    BY <2>1
  <2>3. last \in Int /\ last <= r.hi
    BY DEF ChunkOf, DataInv, TypeOK, Heights
  <2> QED BY <1>2, <2>2, <2>3, StoreIntake DEF ImportChunk
<1>3. CASE \E h \in Heights : StreamError(h)
  <2>1. PICK h \in Heights : StreamError(h)
    BY <1>3
  <2>2. PICK r \in ranges : h \in ChunkOf(r) /\ InsertBlocks(r.lo, h - 1)
    BY <2>1 DEF StreamError
  <2>3. h - 1 \in Int /\ h - 1 <= r.hi
    BY <2>2 DEF ChunkOf, DataInv, TypeOK, Heights
  <2> QED BY <2>1, <2>2, <2>3, StoreIntake DEF StreamError
<1>4. CASE InsertBundle
  <2>1. PICK last \in oldest, n \in FragmentCounts : InsertBundleAndFragments(First(oldest), last, n)
    BY <1>4 DEF InsertBundle
  <2>2. /\ Bundled' = Bundled \cup First(oldest)..last /\ blocks' = blocks /\ fuelHeight' = fuelHeight
        /\ First(oldest) <= last /\ First(oldest)..last \subseteq blocks \ Bundled
        /\ First(oldest) \in Heights /\ last \in Heights
    BY <1>4, <2>1, BundleIsFree, BundleStored DEF InsertBundle
  <2>3. {First(oldest), last} \subseteq 0..fuelHeight
    <3>1. {First(oldest), last} \subseteq First(oldest)..last
      BY <2>2 DEF Heights
    <3> QED BY <2>2, <3>1 DEF DataInv, NothingAhead
  <2>4. Intake!Bundle
    BY <2>2, <2>3 DEF Intake!Bundle
  <2> QED BY <2>4 DEF Intake!Next
<1>5. CASE Prune
  <2>1. PICK date : PruneEntriesOlderThan(date)
    BY <1>5 DEF Prune
  <2>2. UNION {Covers(b) : b \in PrunedBundles(date)} \in SUBSET Bundled
    BY DEF PrunedBundles, Bundled
  <2>3. PICK S \in SUBSET Bundled : blocks' = blocks \ S /\ Bundled' = Bundled \ S
    BY <2>1, <2>2, PrunedCovers
  <2>4. Intake!Forget
    BY <1>5, <2>3 DEF Intake!Forget, Prune
  <2> QED BY <2>4 DEF Intake!Next
<1>6. CASE UNCHANGED <<fuelHeight, blocks, bundles>>
  BY <1>6 DEF Intake!intakeVars, Bundled
<1>7. CASE RunImporter /\ ~ImportChunk
  <2>1. CASE \E h \in Unavailable : StreamError(h)
    BY <1>3, <2>1, BlockStorageAssumption
  <2>2. CASE ReadLatestHeight \/ ListMissing \/ ImporterDone
    BY <1>6, <2>2 DEF ReadLatestHeight, ListMissing, ImporterDone, tableVars
  <2> QED BY <1>7, <2>1, <2>2 DEF RunImporter, ImporterStep
<1>8. CASE RunBundler
  <2>1. CASE GetStartingHeight \/ CountUnbundled \/ TakeSequence \/ EndRun
    BY <1>6, <2>1 DEF GetStartingHeight, CountUnbundled, TakeSequence, EndRun, tableVars
  <2> QED BY <1>4, <1>8, <2>1 DEF RunBundler, BundlerStep
<1>9. CASE Send \/ Replace \/ Settle
  BY <1>6, <1>9 DEF Send, Replace, Settle, RecordPendingTx, SettlePending
<1>10. CASE ImporterError
  BY <1>3, <1>10 DEF ImporterError
<1>11. CASE Tick \/ TimeOut \/ BundlerError \/ Crash \/ UNCHANGED vars
  BY <1>6, <1>11 DEF Tick, TimeOut, AccumulationTimeout, BundlerError, Crash, vars, tableVars
<1> QED BY <1>1, <1>2, <1>5, <1>7, <1>8, <1>9, <1>10, <1>11 DEF Next

\* Importer, bundler and pruner store, bundle and forget blocks as BlockIntake says.
THEOREM ImplementsBlockIntake == Spec => ImplementsIntake
<1>1. Init => Intake!Init
  BY InitIntake
<1>2. DataInv /\ [Next]_vars => [Intake!Next]_Intake!intakeVars
  BY IntakeStep
<1> QED BY <1>1, <1>2, DataInvariance, PTL DEF Spec, ImplementsIntake, Intake!Spec
=============================================================================
