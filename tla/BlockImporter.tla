---------------------------- MODULE BlockImporter ---------------------------
(***************************************************************************)
(* The block importer.  A run reads the height of the chain, then the      *)
(* ranges of heights missing from the window, and copies range by range in *)
(* chunks; the stream of blocks may end in an error at any of them.        *)
(***************************************************************************)
EXTENDS BlockStorage

CONSTANTS
  MaxBlocksPerChunk,  \* max_blocks of the importer
  MaxChunkSize        \* max_size of the importer, in bytes

ASSUME ImporterAssumption ==
  /\ MaxBlocksPerChunk \in Nat
  /\ MaxChunkSize \in Nat

VARIABLES
  importerAt,  \* where `run` is
  chainSeen,   \* the chain height the run read
  ranges       \* ranges not imported yet

importerVars == <<importerAt, chainSeen, ranges>>

ImporterReset ==
  /\ importerAt' = "idle"
  /\ chainSeen' = 0
  /\ ranges' = {}

ImporterInit ==
  /\ importerAt = "idle"
  /\ chainSeen = 0
  /\ ranges = {}

\* A chunk takes blocks while they fit, and always at least one.
FitsChunk(lo, h) ==
  \/ h = lo
  \/ /\ h - lo + 1 <= MaxBlocksPerChunk
     /\ CumulativeSize(lo, h) <= MaxChunkSize

ChunkOf(r) == {h \in r.lo..r.hi : FitsChunk(r.lo, h)}

\* The block that did not fit goes first into the next chunk.
AfterChunk(r, last) == IF last < r.hi THEN {[lo |-> last + 1, hi |-> r.hi]} ELSE {}

-----------------------------------------------------------------------------

ReadLatestHeight ==
  /\ importerAt = "idle"
  /\ importerAt' = "started"
  /\ chainSeen' = fuelHeight
  /\ UNCHANGED <<ranges, fuelHeight, tableVars>>

ListMissing ==
  /\ importerAt = "started"
  /\ importerAt' = "importing"
  /\ ranges' = MissingBlocks(SeenUpTo(chainSeen), chainSeen)
  /\ UNCHANGED <<chainSeen, fuelHeight, tableVars>>

Lowest(r) == \A s \in ranges : r.lo <= s.lo

\* The next chunk of the lowest range is read to its end and stored.
ImportChunk ==
  /\ importerAt = "importing"
  /\ \E r \in ranges :
       /\ Lowest(r)
       /\ \E last \in ChunkOf(r) :
            /\ \A h \in ChunkOf(r) : h <= last
            /\ r.lo..last \cap Unavailable = {}
            /\ InsertBlocks(r.lo, last)
            /\ ranges' = (ranges \ {r}) \cup AfterChunk(r, last)
  /\ UNCHANGED <<importerAt, chainSeen, fuelHeight>>

\* The block at some height of the chunk is an error: the blocks before it are
\* stored and the run ends.  With none before it, the run just ends; so does one
\* whose insert fails.
StreamError(h) ==
  /\ importerAt = "importing"
  /\ \E r \in ranges :
       /\ Lowest(r)
       /\ h \in ChunkOf(r)
       /\ r.lo..(h - 1) \cap Unavailable = {}
       /\ InsertBlocks(r.lo, h - 1)
  /\ ImporterReset
  /\ UNCHANGED fuelHeight

ImporterDone ==
  /\ importerAt = "importing"
  /\ ranges = {}
  /\ ImporterReset
  /\ UNCHANGED <<fuelHeight, tableVars>>

\* Steps of a run the environment does not disturb; a missing block is no accident.
ImporterStep ==
  \/ ReadLatestHeight
  \/ ListMissing
  \/ ImportChunk
  \/ \E h \in Unavailable : StreamError(h)
  \/ ImporterDone
=============================================================================
