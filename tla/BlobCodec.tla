----------------------------- MODULE BlobCodec ------------------------------
(***************************************************************************)
(* Bundles as blobs and back.  The encoder writes the bits of a bundle     *)
(* into blobs, leaving out the first two bits of every field element and   *)
(* the room of a header; what gets to the decoder may be any blobs of any  *)
(* bundles, in any order.                                                  *)
(*                                                                         *)
(* The codec only moves bits, so a bit of a bundle is its position in it.  *)
(* A blob is its header and the bits at its offsets, 0 where there is no   *)
(* data.                                                                   *)
(***************************************************************************)
EXTENDS Integers, FiniteSets, Sequences, SequencesExt, Functions

CONSTANTS
  BitsPerFE,      \* bits of a field element, 256
  FEsPerBlob,     \* field elements of a blob, 4096
  VersionBits, BundleIdBits, NumBitsBits, IdxBits, \* widths of a header's fields: 16, 32, 21, 17
  BitsPerByte,    \* 8
  ProofSize,      \* length of a commitment, and of a proof: 48 bytes
  BytesPerSymbol, \* BYTES_PER_SYMBOL of EigenDA, 32
  FragmentSize,   \* fragment_size of EigenDA
  BundleLengths,  \* lengths in bytes that a bundle may have
  BundleIds,      \* bundles there are
  MaxDelivered    \* bound on the blobs that are delivered

ASSUME CodecAssumption ==
  /\ BitsPerFE \in Nat
  /\ FEsPerBlob \in Nat \ {0}
  /\ {VersionBits, BundleIdBits, NumBitsBits, IdxBits} \subseteq Nat \ {0}
  /\ BitsPerByte \in Nat \ {0}
  /\ ProofSize \in Nat
  /\ BytesPerSymbol \in Nat \ {0, 1}
  /\ FragmentSize \in Nat \ {0}
  /\ BundleLengths \subseteq Nat \ {0}
  /\ MaxDelivered \in Nat

BitsPerBlob == FEsPerBlob * BitsPerFE

\* USABLE_BITS_PER_FIELD_ELEMENT.
UsableBits == BitsPerFE - 2

\* V1_SIZE_BITS.
HeaderBits == VersionBits + BundleIdBits + NumBitsBits + 1 + IdxBits

DataBitsPerBlob == FEsPerBlob * UsableBits - HeaderBits

\* Mutant of BlobsNeeded: rounded down.
WholeBlobs(numBytes) == numBytes \div (DataBitsPerBlob \div BitsPerByte)

\* The number of blobs foreseen: as many whole bytes go into each as there is room for.
BlobsNeeded(numBytes) ==
  LET bytesPerBlob == DataBitsPerBlob \div BitsPerByte
  IN  (numBytes + bytesPerBlob - 1) \div bytesPerBlob

TwoTo[n \in 0..HeaderBits] == IF n = 0 THEN 1 ELSE 2 * TwoTo[n - 1]

\* A header fits into the first field element of a blob and leaves a bit of it for data
\* (the code asserts the former only; without the latter data would go into the reserved
\* bits of the second element), there is room for a byte of data, and the fields are wide
\* enough for what is put into them.
ASSUME HeaderAssumption ==
  /\ HeaderBits < UsableBits
  /\ BitsPerByte <= DataBitsPerBlob /\ BitsPerBlob % BitsPerByte = 0
  /\ BitsPerBlob < TwoTo[NumBitsBits]
  /\ BundleIds \subseteq 1..(TwoTo[BundleIdBits] - 1)
  /\ \A numBytes \in BundleLengths : BlobsNeeded(numBytes) <= TwoTo[IdxBits]

VARIABLES
  length,     \* length in bits of every encoded bundle, 0 before
  encoding,   \* the bundle being encoded, or NoBundleId
  ingested,   \* bits of it already ingested
  bitCounter, \* bit_counter of the storage
  storage,    \* its blobs so far: bits by offset
  published,  \* finished blobs: [id, numBits, isLast, idx, bits]
  delivered   \* blobs in the order in which the decoder gets them

codecVars == <<length, encoding, ingested, bitCounter, storage, published, delivered>>

NoBundleId == 0

CodecInit ==
  /\ length = [b \in BundleIds |-> 0]
  /\ encoding = NoBundleId
  /\ ingested = 0
  /\ bitCounter = 0
  /\ storage = <<>>
  /\ published = {}
  /\ delivered = <<>>

-----------------------------------------------------------------------------
(* The encoder.                                                            *)

EmptyBlob == [offset \in 0..(BitsPerBlob - 1) |-> 0]

StartEncoding ==
  /\ encoding = NoBundleId
  /\ \E b \in BundleIds, numBytes \in BundleLengths :
       /\ length[b] = 0
       /\ encoding' = b
       /\ length' = [length EXCEPT ![b] = numBytes * BitsPerByte]
  /\ ingested' = 0
  /\ bitCounter' = 0
  /\ storage' = <<>>
  /\ UNCHANGED <<published, delivered>>

\* Where the next data goes: after the reserved bits and the header, if at a start.
NextFree ==
  IF bitCounter % BitsPerBlob = 0 THEN bitCounter + 2 + HeaderBits
  ELSE IF bitCounter % BitsPerFE = 0 THEN bitCounter + 2
  ELSE bitCounter

\* Fills up one field element, in a new blob if the last one is full.
Ingest ==
  LET blobs  == IF bitCounter % BitsPerBlob = 0 THEN Append(storage, EmptyBlob) ELSE storage
      space  == BitsPerFE - (NextFree % BitsPerFE)
      left   == length[encoding] - ingested
      amount == IF space < left THEN space ELSE left
      start  == NextFree % BitsPerBlob
  IN  /\ encoding # NoBundleId
      /\ left > 0
      /\ storage' = [blobs EXCEPT ![Len(blobs)] =
                      [offset \in DOMAIN @ |->
                         IF offset \in start..(start + amount - 1)
                           THEN ingested + 1 + (offset - start) ELSE @[offset]]]
      /\ bitCounter' = NextFree + amount
      /\ ingested' = ingested + amount
      /\ UNCHANGED <<length, encoding, published, delivered>>

\* Mutant of NumBits: a last blob that is full counts as empty.
RemainderOnly(isLast) == IF ~isLast THEN BitsPerBlob ELSE bitCounter % BitsPerBlob

NumBits(isLast) ==
  IF ~isLast \/ bitCounter % BitsPerBlob = 0 THEN BitsPerBlob ELSE bitCounter % BitsPerBlob

Finalize ==
  /\ encoding # NoBundleId
  /\ ingested = length[encoding]
  /\ published' = published \cup
       {[id |-> encoding, numBits |-> NumBits(i = Len(storage)), isLast |-> i = Len(storage),
         idx |-> i - 1, bits |-> storage[i]] : i \in DOMAIN storage}
  /\ encoding' = NoBundleId
  /\ UNCHANGED <<length, ingested, bitCounter, storage, delivered>>

-----------------------------------------------------------------------------
(* The header, as the number its bits make: each field has its low bits    *)
(* written, one after the other.                                           *)

LowBits(n, width) == n % TwoTo[width]

EncodeHeader(blob) ==
  LET push(number, n, width) == number * TwoTo[width] + LowBits(n, width)
      version == 1
  IN  push(push(push(push(push(0, version, VersionBits), blob.id, BundleIdBits),
                     blob.numBits, NumBitsBits), IF blob.isLast THEN 1 ELSE 0, 1), blob.idx, IdxBits)

\* The fields, or none if the version is another one.
DecodeHeader(number) ==
  LET field(width, after) == LowBits(number \div TwoTo[after], width)
  IN  IF field(VersionBits, HeaderBits - VersionBits) # 1 THEN {}
      ELSE {[id      |-> field(BundleIdBits, NumBitsBits + 1 + IdxBits),
             numBits |-> field(NumBitsBits, 1 + IdxBits),
             isLast  |-> field(1, IdxBits) = 1,
             idx     |-> field(IdxBits, 0)]}

-----------------------------------------------------------------------------
(* Fragments, as they are stored until they are submitted.                 *)

\* External: a KZG commitment and a proof, by marks no data has.
Commitment == [i \in 1..ProofSize |-> -1]
Proof      == [i \in 1..ProofSize |-> -2]

\* A blob, its commitment and its proof one after the other.  Its own header tells
\* how much of it is used; the rest is counted in whole bytes.
FragmentOf(blob) ==
  LET used_bits == (CHOOSE h \in DecodeHeader(EncodeHeader(blob)) : TRUE).numBits
  IN  [header       |-> EncodeHeader(blob),
       data         |-> [i \in 1..BitsPerBlob |-> blob.bits[i - 1]] \o Commitment \o Proof,
       unused_bytes |-> (BitsPerBlob - used_bits) \div BitsPerByte,
       total_bytes  |-> BitsPerBlob \div BitsPerByte]

\* What a blob transaction carries of it, cut at the same places.
SidecarOf(fragment) ==
  LET from(start, len) == SubSeq(fragment.data, start + 1, start + len)
  IN  [header     |-> fragment.header,
       bits       |-> [offset \in 0..(BitsPerBlob - 1) |-> from(0, BitsPerBlob)[offset + 1]],
       commitment |-> from(BitsPerBlob, ProofSize),
       proof      |-> from(BitsPerBlob + ProofSize, ProofSize)]

\* Cuts data into pieces of n, the last one as long as what is left.
Chunks(data, n) ==
  LET end(i) == IF i * n < Len(data) THEN i * n ELSE Len(data)
  IN  [i \in 1..((Len(data) + n - 1) \div n) |-> SubSeq(data, (i - 1) * n + 1, end(i))]

\* The fragments of a bundle for EigenDA.  The last one's total is its own length, and
\* what it lacks to a whole one, which may be more, is unused.
CreateFragments(data) ==
  [i \in DOMAIN Chunks(data, FragmentSize) |->
     LET chunk == Chunks(data, FragmentSize)[i]
     IN  [data |-> chunk, unused_bytes |-> FragmentSize - Len(chunk), total_bytes |-> Len(chunk)]]

\* Before it is dispersed: before each BytesPerSymbol - 1 bytes a zero byte.
PadEmptyBytes(data) ==
  LET symbols == (Len(data) + BytesPerSymbol - 2) \div (BytesPerSymbol - 1)
  IN  [i \in 1..(Len(data) + symbols) |->
         IF (i - 1) % BytesPerSymbol = 0 THEN 0 ELSE data[i - 1 - (i - 1) \div BytesPerSymbol]]

\* And back, as whoever retrieves it does.
RemoveEmptyBytes(padded) ==
  LET symbols == (Len(padded) + BytesPerSymbol - 1) \div BytesPerSymbol
  IN  [i \in 1..(Len(padded) - symbols) |-> padded[i + 1 + (i - 1) \div (BytesPerSymbol - 1)]]

-----------------------------------------------------------------------------
(* The decoder.                                                            *)

\* One bundle, one blob marked as last, which has the highest index, no index missing
\* and none twice.
Valid(blobs) ==
  LET all     == ToSet(blobs)
      highest == CHOOSE i \in {b.idx : b \in all} : \A b \in all : b.idx <= i
  IN  /\ blobs # <<>>
      /\ Cardinality({b.id : b \in all}) = 1
      /\ \E i \in DOMAIN blobs :
           /\ blobs[i].idx = highest
           /\ \A j \in DOMAIN blobs : blobs[j].isLast <=> j = i
      /\ 0..highest \subseteq {b.idx : b \in all}
      /\ \A i, j \in DOMAIN blobs : blobs[i].idx = blobs[j].idx => i = j

\* Where the k-th bit of the data in a blob is, after the header and the bits that are
\* reserved at the start of each field element.
Offset(k) ==
  LET usable == HeaderBits + k - 1
  IN  (usable \div UsableBits) * BitsPerFE + 2 + (usable % UsableBits)

\* How many bits of data there are among the first bits of a blob.
DataBits(numBits) ==
  LET inLast == numBits % BitsPerFE
  IN  (numBits \div BitsPerFE) * UsableBits + (IF inLast > 2 THEN inLast - 2 ELSE 0) - HeaderBits

DataOf(blob) == [k \in 1..DataBits(blob.numBits) |-> blob.bits[Offset(k)]]

\* Blobs are sorted by index and their data is strung together.
Decoded(blobs) ==
  FlattenSeq([i \in DOMAIN blobs |->
                DataOf(blobs[CHOOSE j \in DOMAIN blobs : blobs[j].idx = i - 1])])

Deliver ==
  /\ encoding = NoBundleId
  /\ Len(delivered) < MaxDelivered
  /\ \E blob \in published :
       LET sidecar == SidecarOf(FragmentOf(blob))
       IN  \E header \in DecodeHeader(sidecar.header) :
             delivered' = Append(delivered, [id |-> header.id, numBits |-> header.numBits, isLast |-> header.isLast,
                                             idx |-> header.idx, bits |-> sidecar.bits])
  /\ UNCHANGED <<length, encoding, ingested, bitCounter, storage, published>>

CodecNext == StartEncoding \/ Ingest \/ Finalize \/ Deliver

CodecSpec == CodecInit /\ [][CodecNext]_codecVars

-----------------------------------------------------------------------------

CodecTypeOK ==
  /\ length \in [BundleIds -> Nat]
  /\ encoding \in BundleIds \cup {NoBundleId}
  /\ bitCounter \in 0..(BitsPerBlob * Len(storage))
  /\ \A i \in DOMAIN storage : storage[i] \in [0..(BitsPerBlob - 1) -> Nat]
  /\ Cardinality({<<b.id, b.idx>> : b \in published}) = Cardinality(published)

BlobsOf(b) == {blob \in published : blob.id = b}

\* The decoder accepts exactly the complete sets of blobs of one bundle, each once, in
\* any order; and what it returns is the bundle, not a bit more or less or out of place.
\* Loss, repetition and a blob of another bundle are all noticed.  In a fragment that
\* EigenDA gets each symbol begins with a zero byte, and without these the fragments are
\* the data.
DecodesExactly ==
  LET whole == {b \in BundleIds : /\ BlobsOf(b) # {}
                                  /\ ToSet(delivered) = BlobsOf(b)
                                  /\ Len(delivered) = Cardinality(BlobsOf(b))}
  IN  /\ Valid(delivered) <=> whole # {}
      /\ \A b \in whole : Decoded(delivered) = [i \in 1..length[b] |-> i]
      /\ \A b \in BundleIds :
           LET data      == [i \in 1..(length[b] \div BitsPerByte) |-> i]
               fragments == CreateFragments(data)
               dispersed == [k \in DOMAIN fragments |-> PadEmptyBytes(fragments[k].data)]
           IN  /\ \A k \in DOMAIN fragments : \A i \in DOMAIN dispersed[k] :
                    i % BytesPerSymbol = 1 => dispersed[k][i] = 0
               /\ FlattenSeq([k \in DOMAIN fragments |-> RemoveEmptyBytes(dispersed[k])]) = data

\* The number of blobs that the bundler foresees, and pays for, is never too small (it
\* may be one too large: it counts whole bytes per blob, the encoder fills all bits).
\* The bytes counted as used, on which costs are reported, are room for the data of
\* the bundle, and only its last fragment has others, but not all of them.
EnoughBlobsForeseen ==
  \A b \in BundleIds :
    LET used == [blob \in BlobsOf(b) |-> FragmentOf(blob).total_bytes - FragmentOf(blob).unused_bytes]
    IN  /\ Cardinality(BlobsOf(b)) <= BlobsNeeded(length[b] \div BitsPerByte)
        /\ BlobsOf(b) # {} =>
             SumFunction(used) * BitsPerByte >= length[b] + HeaderBits * Cardinality(BlobsOf(b))
        /\ \A blob \in BlobsOf(b) :
             used[blob] > 0 /\ (FragmentOf(blob).unused_bytes > 0 => blob.isLast)
=============================================================================
