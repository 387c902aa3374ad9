-------------------------- MODULE MCBlockCommitter --------------------------
(* BlockCommitter with constants small enough for TLC.                     *)
EXTENDS BlockCommitter

MCHeights == 0..MaxFuelHeight
=============================================================================
