---------------------------- MODULE StateListener ---------------------------
(***************************************************************************)
(* The Ethereum state listener: one `run` reads the non-finalized rows,    *)
(* then the block number, then asks the node about each transaction in an  *)
(* unspecified order, and applies all changes in one database transaction. *)
(* The chain moves between any two of its calls.                           *)
(***************************************************************************)
EXTENDS BlobStorage

VARIABLES
  listenerAt,    \* where `run` is
  worklist,      \* rows read and not yet looked at, with the state read
  blockNumber,   \* the head number read by this run
  asking,        \* the rows (at most one) without receipt whose mempool entry is looked up
  skipNonces,    \* nonces a receipt was found for
  selective,     \* changes of single rows
  noncewide      \* changes that fail the other rows of the nonce

listenerVars ==
  <<listenerAt, worklist, blockNumber, asking, skipNonces, selective, noncewide>>

Listed == [tx : TxHashes, state : OpenStates]

ListenerInit ==
  /\ listenerAt = "idle"
  /\ worklist = {}
  /\ blockNumber = 0
  /\ asking = {}
  /\ skipNonces = {}
  /\ selective = {}
  /\ noncewide = {}

ListenerTypeOK ==
  /\ listenerAt \in {"idle", "listed", "querying"}
  /\ worklist \in SUBSET Listed
  /\ blockNumber \in 0..MaxHeight
  /\ asking \in SUBSET Listed
  /\ skipNonces \in SUBSET (Nat \ {0})
  /\ selective \in SUBSET Change
  /\ noncewide \in SUBSET Change

ListenerReset ==
  /\ listenerAt' = "idle"
  /\ worklist' = {}
  /\ blockNumber' = 0
  /\ asking' = {}
  /\ skipNonces' = {}
  /\ selective' = {}
  /\ noncewide' = {}

-----------------------------------------------------------------------------

\* run: nothing happens when every row is settled.
ReadNonFinalizedTxs ==
  /\ listenerAt = "idle"
  /\ OpenTxs # {}
  /\ worklist' = {[tx |-> t, state |-> row[t]] : t \in OpenTxs}
  /\ listenerAt' = "listed"
  /\ UNCHANGED <<blockNumber, asking, skipNonces, selective, noncewide, dbVars, l1Vars>>

\* The head number is read before any receipt.
ReadBlockNumber ==
  /\ listenerAt = "listed"
  /\ blockNumber' = height
  /\ listenerAt' = "querying"
  /\ UNCHANGED <<worklist, asking, skipNonces, selective, noncewide, dbVars, l1Vars>>

\* The next row is taken from the list.
Take(w) ==
  /\ listenerAt = "querying"
  /\ asking = {}
  /\ worklist' = worklist \ {w}

SkipSettledNonce(w) ==
  /\ Take(w)
  /\ Nonce(w.tx) \in skipNonces
  /\ UNCHANGED <<listenerAt, blockNumber, asking, skipNonces, selective, noncewide,
                 dbVars, l1Vars>>

\* No receipt: the node is asked for the transaction itself in the next step.
NoReceipt(w) ==
  /\ Take(w)
  /\ Nonce(w.tx) \notin skipNonces
  /\ ~Included(w.tx)
  /\ asking' = {w}
  /\ UNCHANGED <<listenerAt, blockNumber, skipNonces, selective, noncewide, dbVars, l1Vars>>

\* Mutant of Confirmed: the block of the transaction counts as a confirmation.
ConfirmedEarly(block) ==
  (IF blockNumber >= block THEN blockNumber - block + 1 ELSE 0) >= NumBlocksToFinalize

Confirmed(block) ==
  (IF blockNumber > block THEN blockNumber - block ELSE 0) >= NumBlocksToFinalize

\* Mutants of ReceiptChanges: a reverted transaction counts as a success, or is
\* left alone.
RevertIsSuccess(w) ==
  IF Confirmed(mined[Nonce(w.tx)].block) THEN {[tx |-> w.tx, state |-> "Finalized"]}
  ELSE IF w.state = "Pending" THEN {[tx |-> w.tx, state |-> "IncludedInBlock"]}
  ELSE {}

RevertIsIgnored(w) ==
  IF ~mined[Nonce(w.tx)].succeeded THEN {} ELSE RevertIsSuccess(w)

\* What a receipt of a transaction in the list calls for.
ReceiptChanges(w) ==
  LET receipt == mined[Nonce(w.tx)]
      to(s)   == {[tx |-> w.tx, state |-> s]}
  IN  IF ~receipt.succeeded THEN to("Failed")
      ELSE IF Confirmed(receipt.block) THEN to("Finalized")
      ELSE IF w.state = "Pending" THEN to("IncludedInBlock")
      ELSE {}

Receipt(w) ==
  /\ Take(w)
  /\ Nonce(w.tx) \notin skipNonces
  /\ Included(w.tx)
  /\ skipNonces' = skipNonces \cup {Nonce(w.tx)}
  /\ noncewide' = noncewide \cup ReceiptChanges(w)
  /\ UNCHANGED <<listenerAt, blockNumber, asking, selective, dbVars, l1Vars>>

\* Mutants of SqueezedOutChanges: a transaction that was in a block is taken for
\* mined; a pending one is never found dropped.
DroppedWhilePending(w) ==
  IF w.state = "Pending" /\ IsSqueezedOut(w.tx) THEN {[tx |-> w.tx, state |-> "Failed"]}
  ELSE {}

DroppedFromBlock(w) ==
  IF w.state = "Pending" THEN {}
  ELSE {[tx |-> w.tx, state |-> IF IsSqueezedOut(w.tx) THEN "Failed" ELSE "Pending"]}

\* Dropped transactions fail; one that was in a block is pending again.
SqueezedOutChanges(w) ==
  IF IsSqueezedOut(w.tx) THEN {[tx |-> w.tx, state |-> "Failed"]}
  ELSE IF w.state = "IncludedInBlock" THEN {[tx |-> w.tx, state |-> "Pending"]}
  ELSE {}

LookUpInMempool(w) ==
  /\ listenerAt = "querying"
  /\ asking' = asking \ {w}
  /\ selective' = selective \cup SqueezedOutChanges(w)
  /\ UNCHANGED <<listenerAt, worklist, blockNumber, skipNonces, noncewide, dbVars, l1Vars>>

\* Mutant of FinalizedIn: a transaction is charged as soon as it is in a block.
SucceededIn(changes) == {c.tx : c \in {d \in changes : d.state # "Failed"}}

FinalizedIn(changes) == {c.tx : c \in {d \in changes : d.state = "Finalized"}}

\* Selective changes of a nonce that has a receipt are dropped; the rest is
\* written at once, with the costs of what is finalized.
ApplyChanges ==
  /\ listenerAt = "querying"
  /\ worklist = {} /\ asking = {}
  /\ UpdateTxStatesAndCosts(
       {c \in selective : Nonce(c.tx) \notin skipNonces},
       noncewide,
       FinalizedIn(noncewide))
  /\ ListenerReset
  /\ UNCHANGED l1Vars

\* Any failing call ends the run; nothing is written.
ListenerError ==
  /\ listenerAt # "idle"
  /\ Fault
  /\ ListenerReset
  /\ UNCHANGED <<dbVars, height, irreversible, mined, mempool, sentTxs>>

QueryRow(w) == SkipSettledNonce(w) \/ NoReceipt(w) \/ Receipt(w)

ListenerNext ==
  \/ ReadNonFinalizedTxs
  \/ ReadBlockNumber
  \/ \E w \in worklist : QueryRow(w)
  \/ \E w \in asking : LookUpInMempool(w)
  \/ ApplyChanges
  \/ ListenerError
=============================================================================
