----------------------------- MODULE BlockIntake ----------------------------
(***************************************************************************)
(* What importing, bundling and pruning promise together: the blocks of    *)
(* the Fuel chain are copied into the database, and each stored block is   *)
(* put into exactly one bundle, as part of an uninterrupted run of blocks  *)
(* nobody has bundled yet.  Bundled blocks may be forgotten; a block that  *)
(* is stored and not bundled never is.                                     *)
(***************************************************************************)
EXTENDS Naturals

VARIABLES
  height,   \* the newest height of the Fuel chain
  stored,   \* heights in the database
  bundled   \* heights in a bundle

intakeVars == <<height, stored, bundled>>

Init ==
  /\ height = 0
  /\ stored = {}
  /\ bundled = {}

Grow ==
  /\ height' = height + 1
  /\ UNCHANGED <<stored, bundled>>

Store ==
  /\ \E lo, hi \in 0..height :
       /\ lo..hi \cap stored = {}
       /\ stored' = stored \cup lo..hi
  /\ UNCHANGED <<height, bundled>>

Bundle ==
  /\ \E lo, hi \in 0..height :
       /\ lo <= hi
       /\ lo..hi \subseteq stored \ bundled
       /\ bundled' = bundled \cup lo..hi
  /\ UNCHANGED <<height, stored>>

Forget ==
  /\ \E S \in SUBSET bundled :
       /\ stored' = stored \ S
       /\ bundled' = bundled \ S
  /\ UNCHANGED height

Next == Grow \/ Store \/ Bundle \/ Forget

Spec == Init /\ [][Next]_intakeVars
=============================================================================
