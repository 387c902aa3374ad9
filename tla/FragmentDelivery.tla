-------------------------- MODULE FragmentDelivery --------------------------
(***************************************************************************)
(* What the blob submission promises to its users: of the stored           *)
(* fragments one batch at a time is under way; a batch is reported         *)
(* delivered only when all of it is published for good, and a delivered    *)
(* fragment is never reported lost nor put under way again.                *)
(***************************************************************************)
CONSTANT Fragments

VARIABLES
  stored,     \* fragments to be delivered
  inFlight,   \* the batch under way
  published,  \* fragments on L1 in a block that is not reorged any more
  delivered   \* fragments reported as finalized

deliveryVars == <<stored, inFlight, published, delivered>>

Init ==
  /\ stored = {}
  /\ inFlight = {}
  /\ published = {}
  /\ delivered = {}

Store ==
  /\ \E S \in SUBSET (Fragments \ stored) : stored' = stored \cup S
  /\ UNCHANGED <<inFlight, published, delivered>>

Submit ==
  /\ inFlight = {}
  /\ inFlight' \in SUBSET (stored \ delivered)
  /\ UNCHANGED <<stored, published, delivered>>

GiveUp ==
  /\ inFlight' = {}
  /\ UNCHANGED <<stored, published, delivered>>

Publish ==
  /\ \E S \in SUBSET stored : published' = published \cup S
  /\ UNCHANGED <<stored, inFlight, delivered>>

Deliver ==
  /\ inFlight \subseteq published
  /\ delivered' = delivered \cup inFlight
  /\ inFlight' = {}
  /\ UNCHANGED <<stored, published>>

Next == Store \/ Submit \/ GiveUp \/ Publish \/ Deliver

Spec == Init /\ [][Next]_deliveryVars
=============================================================================
