----------------------------- MODULE StorageRows -----------------------------
(***************************************************************************)
(* What a row of the database keeps of a value of the program, and what is *)
(* read back from it: the conversions of mappings/tables.rs with the       *)
(* numbers they go through (NonNegative, L1Height, BigDecimal), the two    *)
(* updates of a transaction's state, and the CHECK constraints of the      *)
(* migrations, which are the only ones a state machine can break.          *)
(*                                                                         *)
(* The widths are scaled down, in their order.  A conversion that may fail *)
(* is the set of its results, empty if it does.                            *)
(***************************************************************************)
EXTENDS Integers, FiniteSets

CONSTANTS
  I32Max, U32Max, I64Max, U64Max, DecimalMax,  \* DecimalMax stands for u128::MAX
  TrailingZeros,  \* how many zeros the database may take off the digits of a decimal
  Amounts,   \* fees, costs
  Numbers,   \* values tried for fields of type u32
  Times      \* times of finalization

ASSUME RowsAssumption ==
  /\ I32Max \in Nat \ {0} /\ U32Max = 2 * I32Max + 1
  /\ I64Max \in Nat /\ I64Max > U32Max /\ U64Max = 2 * I64Max + 1 /\ DecimalMax > U64Max
  /\ DecimalMax \in Nat /\ TrailingZeros \in Nat
  /\ Amounts \subseteq 0..DecimalMax /\ Numbers \subseteq 0..U32Max /\ Times \subseteq Nat

VARIABLES
  table,    \* the table the row is in
  written,  \* the value the program has stored, as last changed
  row,      \* what the database has
  refused   \* a constraint has refused a write

rowVars == <<table, written, row, refused>>

Tables == {"l1_transaction", "l1_blob_transaction", "l1_fuel_block_submission",
           "l1_fragments", "fuel_blocks", "bundle_cost"}

TxTables == {"l1_transaction", "l1_blob_transaction"}

Null == -1

NoRow == {}

RowsTypeOK ==
  /\ table \in Tables /\ refused \in BOOLEAN
  /\ Cardinality(row) <= 1 /\ Cardinality(written) <= 1
  /\ row = NoRow <=> written = {}

RowsInit ==
  /\ table \in Tables
  /\ written = {} /\ row = NoRow
  /\ refused = FALSE

-----------------------------------------------------------------------------
(* Numbers.                                                                *)

\* NonNegative::try_from, with as_u32, as_u64 after it.
NonNegative(n) == {m \in {n} : m >= 0}

\* try_into of a signed number, for u32 and u64.
TryIntoU32(n) == {m \in {n} : m \in 0..U32Max}
TryIntoU64(n) == {m \in {n} : m \in 0..U64Max}

\* `as u32`: the low bits.
AsU32(n) == {n % (U32Max + 1)}

\* L1Height from a u64, in an i64; the largest i64 is refused as well.
L1Height(n) == {m \in {n} : m < I64Max}

SaturatedAmount(n) == IF n > DecimalMax THEN DecimalMax ELSE n

\* BigDecimal: digits times ten to the power of -scale.  The program writes a
\* scale of 0; what the database returns may have trailing zeros taken off the
\* digits, which makes the scale negative.
U128ToBigDecimal(n) == [digits |-> n, scale |-> 0]

TenTo[k \in 0..TrailingZeros] == IF k = 0 THEN 1 ELSE 10 * TenTo[k - 1]

Returned(d) ==
  {d} \union {[digits |-> d.digits \div TenTo[k], scale |-> -k] :
                k \in {k \in 1..TrailingZeros : d.digits # 0 /\ d.digits % TenTo[k] = 0}}

\* Mutant of BigDecimalToU128: the scale is not looked at.
DigitsOnly(d) == {d.digits}

BigDecimalToU128(d) ==
  IF d.scale > 0 THEN {}
  ELSE {SaturatedAmount(digits * SaturatedAmount(TenTo[-d.scale])) : digits \in {n \in {d.digits} : n <= DecimalMax}}

\* Every reading must succeed; Null is none of the amounts.
AmountRead(d) ==
  UNION {LET amount == BigDecimalToU128(e) IN IF amount = {} THEN {Null} ELSE amount : e \in Returned(d)}

-----------------------------------------------------------------------------
(* Transaction states: L1TxState and its codes, parse_state.               *)

States == [kind : {"Pending", "IncludedInBlock", "Failed"}, at : {Null}]
            \union [kind : {"Finalized"}, at : Times]

StateCode(s) ==
  CASE s.kind = "Pending" -> 0 [] s.kind = "Finalized" -> 1
    [] s.kind = "Failed"  -> 2 [] s.kind = "IncludedInBlock" -> 3

FinalizedAt(s) == IF s.kind = "Finalized" THEN s.at ELSE Null

\* BlockSubmissionTx: there is no code 3 here.
ParseCommitState(r) ==
  {s \in States : StateCode(s) = r.state /\ s.kind # "IncludedInBlock" /\ s.at \in {Null, r.finalized_at}}

ParseBlobState(r) ==
  {s \in States : StateCode(s) = r.state /\ s.at \in {Null, r.finalized_at}}

\* External: the constraints of the migrations.
Accepted(t, r) ==
  t \in TxTables =>
    /\ r.state \in IF t = "l1_transaction" THEN 0..2 ELSE 0..3
    /\ r.state = 1 => r.finalized_at # Null

-----------------------------------------------------------------------------
(* Rows from values, and values from rows.                                 *)

BlobTxRow(tx) ==
  [id           |-> tx.id,
   nonce        |-> tx.nonce,
   max_fee      |-> U128ToBigDecimal(tx.max_fee),
   priority_fee |-> U128ToBigDecimal(tx.priority_fee),
   blob_fee     |-> U128ToBigDecimal(tx.blob_fee),
   state        |-> StateCode(tx.state),
   finalized_at |-> FinalizedAt(tx.state)]

ReadBlobTx(r) ==
  [id : TryIntoU64(r.id), nonce : AsU32(r.nonce),
   max_fee : AmountRead(r.max_fee), priority_fee : AmountRead(r.priority_fee), blob_fee : AmountRead(r.blob_fee),
   state : ParseBlobState(r)]

CommitTxRow(tx) ==
  [id           |-> tx.id,
   nonce        |-> tx.nonce,
   max_fee      |-> U128ToBigDecimal(tx.max_fee),
   priority_fee |-> U128ToBigDecimal(tx.priority_fee),
   state        |-> StateCode(tx.state),
   finalized_at |-> FinalizedAt(tx.state)]

ReadCommitTx(r) ==
  [id : NonNegative(r.id), nonce : AsU32(r.nonce),
   max_fee : AmountRead(r.max_fee), priority_fee : AmountRead(r.priority_fee),
   state : ParseCommitState(r)]

ReadSubmission(r) ==
  [id : NonNegative(r.id), block_height : TryIntoU32(r.block_height), completed : {r.completed}]

ReadFragment(r) ==
  [id : NonNegative(r.id), bundle_id : NonNegative(r.bundle_id), idx : NonNegative(r.idx),
   unused_bytes : UNION {TryIntoU32(n) : n \in NonNegative(r.unused_bytes)},
   total_bytes : (UNION {TryIntoU32(n) : n \in NonNegative(r.total_bytes)}) \ {0}]

ReadBlock(r) == [height : TryIntoU32(r.height)]

ReadBundleCost(r) ==
  [id : TryIntoU64(r.id), cost : AmountRead(r.cost), size : TryIntoU64(r.size),
   da_block_height : TryIntoU64(r.da_block_height)]

Read(r) ==
  CASE table = "l1_transaction"           -> ReadCommitTx(r)
    [] table = "l1_blob_transaction"      -> ReadBlobTx(r)
    [] table = "l1_fuel_block_submission" -> ReadSubmission(r)
    [] table = "l1_fragments"             -> ReadFragment(r)
    [] table = "fuel_blocks"              -> ReadBlock(r)
    [] table = "bundle_cost"              -> ReadBundleCost(r)

-----------------------------------------------------------------------------

Store(t, value, r) ==
  /\ table = t /\ UNCHANGED table
  /\ IF Accepted(t, r) THEN written' = {value} /\ row' = {r} /\ UNCHANGED refused
                       ELSE refused' = TRUE /\ UNCHANGED <<written, row>>

\* The database numbers the rows.
Ids == {1, I32Max}

Pending == [kind |-> "Pending", at |-> Null]

RecordTx ==
  /\ row = NoRow
  /\ \/ \E tx \in [id : Ids, nonce : Numbers, max_fee : Amounts, priority_fee : Amounts, blob_fee : Amounts, state : {Pending}] :
          Store("l1_blob_transaction", tx, BlobTxRow(tx))
     \/ \E tx \in [id : Ids, nonce : Numbers, max_fee : Amounts, priority_fee : Amounts, state : {Pending}] :
          Store("l1_transaction", tx, CommitTxRow(tx))

\* The listener writes any state to a blob transaction, the block committer
\* marks a commit as finalized or failed.  Both columns are written.
UpdateTxState ==
  \E s \in States, tx \in written, r \in row :
    LET changed == [r EXCEPT !.state = StateCode(s), !.finalized_at = FinalizedAt(s)]
    IN  \/ Store("l1_blob_transaction", [tx EXCEPT !.state = s], changed)
        \/ /\ s.kind \in {"Finalized", "Failed"}
           /\ Store("l1_transaction", [tx EXCEPT !.state = s], changed)

RecordSubmission ==
  /\ row = NoRow
  /\ \E s \in [id : Ids, block_height : Numbers, completed : {FALSE}] :
       Store("l1_fuel_block_submission", s, s)

CompleteSubmission ==
  \E s \in written, r \in row :
    Store("l1_fuel_block_submission", [s EXCEPT !.completed = TRUE], [r EXCEPT !.completed = TRUE])

RecordFragment ==
  /\ row = NoRow
  /\ \E f \in [id : Ids, bundle_id : Ids, idx : {0, 1}, unused_bytes : Numbers, total_bytes : Numbers \ {0}] :
       Store("l1_fragments", f, f)

RecordBlock ==
  /\ row = NoRow
  /\ \E b \in [height : Numbers] : Store("fuel_blocks", b, b)

\* The height is that of a receipt, no higher than a head that passed L1Height;
\* another transaction of the bundle adds to cost and size.
ChargeBundle ==
  \E cost \in Amounts, size \in Numbers, da_block_height \in L1Height(U32Max) \union L1Height(I64Max - 1) :
    LET next(old) == [id |-> old.id, cost |-> old.cost + cost, size |-> old.size + size, da_block_height |-> da_block_height]
        fresh     == [id |-> I32Max, cost |-> 0, size |-> 0, da_block_height |-> 0]
    IN  \E old \in IF written = {} THEN {fresh} ELSE {w \in written : table = "bundle_cost"} :
          /\ table = "bundle_cost" => next(old).cost <= DecimalMax /\ next(old).size <= I64Max
          /\ Store("bundle_cost", next(old), [next(old) EXCEPT !.cost = U128ToBigDecimal(@)])

RowsNext ==
  \/ RecordTx \/ UpdateTxState
  \/ RecordSubmission \/ CompleteSubmission
  \/ RecordFragment \/ RecordBlock \/ ChargeBundle

RowsSpec == RowsInit /\ [][RowsNext]_rowVars

-----------------------------------------------------------------------------
(* What was stored is read back, whatever the widths of the columns and    *)
(* whichever form the database gives a decimal, after any series of        *)
(* updates of the state: no reading fails or yields another value, and no  *)
(* write the program makes is refused by a constraint.                     *)
RowsReadBack ==
  /\ \A r \in row : Read(r) = written
  /\ ~refused
=============================================================================
