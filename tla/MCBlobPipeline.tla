--------------------------- MODULE MCBlobPipeline ---------------------------
(* BlobPipeline with constants small enough for TLC.                       *)
EXTENDS BlobPipeline

MCFragments == 1..NumFragments

\* Every bundle has one fragment.
MCEndHeight == [f \in Fragments |-> f]

\* All fragments are of one bundle.
MCOneBundle == [f \in Fragments |-> 1]

\* One fragment in the first bundle, the others in the second: a transaction may
\* carry fragments of both and leave one of the second for later.
MCTwoBundles == [f \in Fragments |-> IF f = 1 THEN 1 ELSE 2]
=============================================================================
