--------------------------- MODULE MCDataPipeline ---------------------------
(* DataPipeline with constants small enough for TLC.                       *)
EXTENDS DataPipeline

\* Blocks of one byte.
MCSmallBlocks == [h \in 0..(MaxHeight + 1) |-> h]
=============================================================================
