---------------------------- MODULE CodecTheorems ---------------------------
(***************************************************************************)
(* What holds of the codec of blobs for every value of the constants: the  *)
(* bits that are written are the bits that are read.                       *)
(***************************************************************************)
EXTENDS BlobCodec, FoldTheorems, SequenceTheorems

-----------------------------------------------------------------------------
(* The codec.  The k-th bit of data in a blob has its offset, which grows  *)
(* with k and by steps of one within a field element.                      *)

\* The sizes of field elements, blobs and the header.
LEMMA Sizes ==
  /\ UsableBits \in Nat \ {0} /\ BitsPerFE = UsableBits + 2 /\ BitsPerFE \in Nat \ {0}
  /\ FEsPerBlob \in Nat \ {0}
  /\ HeaderBits \in Nat \ {0} /\ HeaderBits < UsableBits
  /\ BitsPerBlob = FEsPerBlob * BitsPerFE /\ BitsPerBlob \in Nat \ {0}
  /\ FEsPerBlob * UsableBits \in Nat
  /\ DataBitsPerBlob = FEsPerBlob * UsableBits - HeaderBits /\ DataBitsPerBlob \in Nat \ {0}
  /\ BitsPerByte \in Nat \ {0}
<1>1. /\ HeaderBits \in Nat \ {0} /\ BitsPerFE \in Nat /\ FEsPerBlob \in Nat \ {0} /\ BitsPerByte \in Nat \ {0}
  BY CodecAssumption DEF HeaderBits
<1>2. UsableBits \in Nat \ {0} /\ BitsPerFE = UsableBits + 2 /\ BitsPerFE \in Nat \ {0} /\ HeaderBits < UsableBits
  BY <1>1, HeaderAssumption DEF UsableBits
<1>3. FEsPerBlob * UsableBits \in Nat /\ FEsPerBlob * BitsPerFE \in Nat
  BY <1>1, <1>2, ProductGrows
<1>4. FEsPerBlob * BitsPerFE # 0
  <2>1. 1 * BitsPerFE <= FEsPerBlob * BitsPerFE
    BY <1>1, <1>2, ProductGrows
  <2> QED BY <1>2, <2>1
<1>5. DataBitsPerBlob = FEsPerBlob * UsableBits - HeaderBits
  BY DEF DataBitsPerBlob
<1>6. DataBitsPerBlob \in Nat \ {0}
  <2>1. BitsPerByte <= DataBitsPerBlob
    BY HeaderAssumption
  <2> QED BY <1>1, <1>3, <1>5, <2>1
<1> QED BY <1>1, <1>2, <1>3, <1>4, <1>5, <1>6 DEF BitsPerBlob

\* An offset by the digits of the bits used before it.
LEMMA OffsetByDigits ==
  ASSUME NEW k \in Nat \ {0}, NEW q \in Nat, NEW r \in 0..(UsableBits - 1), HeaderBits + k - 1 = q * UsableBits + r
  PROVE  Offset(k) = q * BitsPerFE + 2 + r /\ Offset(k) \in Nat
<1>1. (q * UsableBits + r) \div UsableBits = q /\ (q * UsableBits + r) % UsableBits = r
  BY Sizes, Digits
<1>2. q * BitsPerFE \in Nat
  BY Sizes, ProductGrows
<1>3. Offset(k) = q * BitsPerFE + 2 + r
  BY <1>1 DEF Offset
<1> QED BY <1>2, <1>3, Sizes

\* In whole field elements and what is over.
Element(k) == (HeaderBits + k - 1) \div UsableBits

Over(k) == (HeaderBits + k - 1) % UsableBits

LEMMA OffsetDigits ==
  ASSUME NEW k \in Nat \ {0}
  PROVE  /\ Element(k) \in Nat /\ Over(k) \in 0..(UsableBits - 1)
         /\ HeaderBits + k - 1 = Element(k) * UsableBits + Over(k)
         /\ Offset(k) = Element(k) * BitsPerFE + 2 + Over(k)
         /\ Offset(k) \in Nat /\ Element(k) * BitsPerFE \in Nat /\ Element(k) * UsableBits \in Nat
<1>1. HeaderBits + k - 1 \in Nat
  BY Sizes
<1>2. /\ Element(k) \in Nat /\ Over(k) \in 0..(UsableBits - 1)
      /\ HeaderBits + k - 1 = Element(k) * UsableBits + Over(k)
  BY <1>1, Sizes, HasDigits DEF Element, Over
<1>3. Element(k) * BitsPerFE \in Nat /\ Element(k) * UsableBits \in Nat
  BY <1>2, Sizes, ProductGrows
<1> QED BY <1>2, <1>3, OffsetByDigits

\* The bits of data are in field elements of the blob.
LEMMA ElementInBlob ==
  ASSUME NEW k \in 1..DataBitsPerBlob
  PROVE  /\ Element(k) + 1 <= FEsPerBlob
         /\ (Element(k) + 1) * UsableBits <= FEsPerBlob * UsableBits
         /\ (Element(k) + 1) * BitsPerFE <= BitsPerBlob
         /\ (Element(k) + 1) * UsableBits = Element(k) * UsableBits + UsableBits
         /\ (Element(k) + 1) * BitsPerFE = Element(k) * BitsPerFE + BitsPerFE
<1>1. k \in Nat \ {0}
  BY Sizes
<1>2. Element(k) \in Nat /\ HeaderBits + k - 1 = Element(k) * UsableBits + Over(k) /\ Over(k) \in 0..(UsableBits - 1)
      /\ Element(k) * UsableBits \in Nat
  BY <1>1, OffsetDigits
<1>3. Element(k) * UsableBits < FEsPerBlob * UsableBits
  BY <1>1, <1>2, Sizes
<1>4. Element(k) + 1 <= FEsPerBlob
  <2>1. SUFFICES ASSUME FEsPerBlob <= Element(k) PROVE FALSE
    BY <1>2, Sizes
  <2>2. FEsPerBlob * UsableBits <= Element(k) * UsableBits
    BY <1>2, <2>1, Sizes, ProductGrows
  <2> QED BY <1>2, <1>3, <2>2, Sizes
<1>5. Element(k) + 1 \in Nat
  BY <1>2
<1>6. (Element(k) + 1) * UsableBits <= FEsPerBlob * UsableBits /\ (Element(k) + 1) * BitsPerFE <= FEsPerBlob * BitsPerFE
  BY <1>4, <1>5, Sizes, ProductGrows
<1>7. /\ (Element(k) + 1) * UsableBits = Element(k) * UsableBits + UsableBits
      /\ (Element(k) + 1) * BitsPerFE = Element(k) * BitsPerFE + BitsPerFE
  BY <1>2, Sizes
<1> QED BY <1>4, <1>6, <1>7, Sizes

\* The offsets lie in the blob, behind what is reserved at its start.
LEMMA OffsetInBlob ==
  ASSUME NEW k \in 1..DataBitsPerBlob
  PROVE  Offset(k) \in 2..(BitsPerBlob - 1) /\ HeaderBits + k <= Offset(k) + 1
<1>1. k \in Nat \ {0}
  BY Sizes
<1>2. /\ Element(k) \in Nat /\ Over(k) \in 0..(UsableBits - 1)
      /\ Offset(k) = Element(k) * BitsPerFE + 2 + Over(k)
      /\ Element(k) * BitsPerFE \in Nat /\ Element(k) * UsableBits \in Nat
      /\ HeaderBits + k - 1 = Element(k) * UsableBits + Over(k)
  BY <1>1, OffsetDigits
<1>3. Element(k) * BitsPerFE + BitsPerFE <= BitsPerBlob
  BY ElementInBlob
<1>4. Element(k) * UsableBits <= Element(k) * BitsPerFE
  BY <1>2, Sizes, ProductGrows
<1> QED BY <1>1, <1>2, <1>3, <1>4, Sizes

\* Counting the bits of data up to an offset, and over whole blobs.
LEMMA DataBitsToOffset ==
  ASSUME NEW k \in Nat \ {0}
  PROVE  DataBits(Offset(k) + 1) = k
<1> DEFINE e == Element(k)
           r == Over(k)
<1>1. /\ e \in Nat /\ r \in 0..(UsableBits - 1) /\ Offset(k) = e * BitsPerFE + 2 + r
      /\ e * BitsPerFE \in Nat /\ e * UsableBits \in Nat /\ HeaderBits + k - 1 = e * UsableBits + r
  BY OffsetDigits
<1> HIDE DEF e, r
<1>2. CASE r < UsableBits - 1
  <2>1. r + 3 \in 0..(BitsPerFE - 1) /\ Offset(k) + 1 = e * BitsPerFE + (r + 3)
    BY <1>1, <1>2, Sizes
  <2>2. (Offset(k) + 1) \div BitsPerFE = e /\ (Offset(k) + 1) % BitsPerFE = r + 3
    <3> DEFINE s == r + 3
    <3>1. s \in 0..(BitsPerFE - 1) /\ Offset(k) + 1 = e * BitsPerFE + s
      BY <2>1
    <3> HIDE DEF s
    <3>2. (e * BitsPerFE + s) \div BitsPerFE = e /\ (e * BitsPerFE + s) % BitsPerFE = s
      BY <1>1, <3>1, Sizes, Digits
    <3>3. (Offset(k) + 1) \div BitsPerFE = e /\ (Offset(k) + 1) % BitsPerFE = s
      BY <3>1, <3>2
    <3> QED BY <3>3 DEF s
  <2> QED BY <1>1, <2>2, Sizes DEF DataBits
<1>3. CASE r = UsableBits - 1
  <2>1. Offset(k) + 1 = (e + 1) * BitsPerFE + 0 /\ e + 1 \in Nat /\ 0 \in 0..(BitsPerFE - 1)
        /\ (e + 1) * UsableBits = e * UsableBits + UsableBits
    BY <1>1, <1>3, Sizes
  <2>2. (Offset(k) + 1) \div BitsPerFE = e + 1 /\ (Offset(k) + 1) % BitsPerFE = 0
    <3> DEFINE s == e + 1
    <3>1. s \in Nat /\ Offset(k) + 1 = s * BitsPerFE + 0
      BY <2>1
    <3> HIDE DEF s
    <3>2. (s * BitsPerFE + 0) \div BitsPerFE = s /\ (s * BitsPerFE + 0) % BitsPerFE = 0
      BY <2>1, <3>1, Sizes, Digits
    <3>3. (Offset(k) + 1) \div BitsPerFE = s /\ (Offset(k) + 1) % BitsPerFE = 0
      BY <3>1, <3>2
    <3> QED BY <3>3 DEF s
  <2> QED BY <1>1, <1>3, <2>1, <2>2, Sizes DEF DataBits
<1> QED BY <1>1, <1>2, <1>3, Sizes

LEMMA LastOffset == Offset(DataBitsPerBlob) + 1 = BitsPerBlob
<1>1. /\ FEsPerBlob - 1 \in Nat /\ UsableBits - 1 \in 0..(UsableBits - 1)
      /\ HeaderBits + DataBitsPerBlob - 1 = (FEsPerBlob - 1) * UsableBits + (UsableBits - 1)
      /\ (FEsPerBlob - 1) * BitsPerFE + BitsPerFE = BitsPerBlob
      /\ (FEsPerBlob - 1) * BitsPerFE \in Nat
  BY Sizes
<1>2. Offset(DataBitsPerBlob) = (FEsPerBlob - 1) * BitsPerFE + 2 + (UsableBits - 1)
  <2> DEFINE q == FEsPerBlob - 1
             r == UsableBits - 1
  <2>1. q \in Nat /\ r \in 0..(UsableBits - 1) /\ HeaderBits + DataBitsPerBlob - 1 = q * UsableBits + r
    BY <1>1
  <2> HIDE DEF q, r
  <2>2. Offset(DataBitsPerBlob) = q * BitsPerFE + 2 + r
    BY <2>1, Sizes, OffsetByDigits
  <2> QED BY <2>2 DEF q, r
<1> QED BY <1>1, <1>2, Sizes

\* Only the last bit of data is at the end of the blob.
LEMMA OnlyLastEnds ==
  ASSUME NEW k \in 1..DataBitsPerBlob
  PROVE  Offset(k) + 1 = BitsPerBlob <=> k = DataBitsPerBlob
<1>1. DataBits(Offset(k) + 1) = k /\ DataBits(Offset(DataBitsPerBlob) + 1) = DataBitsPerBlob
  BY Sizes, DataBitsToOffset
<1> QED BY <1>1, LastOffset

\* Within a field element the offsets run on.
LEMMA OffsetRun ==
  ASSUME NEW k \in Nat \ {0}, NEW j \in Nat, Over(k) + j < UsableBits
  PROVE  Offset(k + j) = Offset(k) + j /\ Over(k + j) = Over(k) + j /\ Element(k + j) = Element(k)
<1> DEFINE e == Element(k)
           r == Over(k) + j
           l == k + j
<1>0. /\ e \in Nat /\ Over(k) \in 0..(UsableBits - 1) /\ Offset(k) = e * BitsPerFE + 2 + Over(k)
      /\ HeaderBits + k - 1 = e * UsableBits + Over(k) /\ e * BitsPerFE \in Nat /\ e * UsableBits \in Nat
  BY OffsetDigits
<1>1. /\ e \in Nat /\ r \in 0..(UsableBits - 1) /\ Offset(k) + j = e * BitsPerFE + 2 + r /\ l \in Nat \ {0}
      /\ HeaderBits + l - 1 = e * UsableBits + r
  <2> HIDE DEF e
  <2> QED BY <1>0, Sizes
<1> HIDE DEF e, r, l
<1>2. Offset(l) = e * BitsPerFE + 2 + r
  BY <1>1, OffsetByDigits
<1>3. (e * UsableBits + r) \div UsableBits = e /\ (e * UsableBits + r) % UsableBits = r
  <2>1. e \in Nat /\ UsableBits \in Nat \ {0} /\ r \in 0..(UsableBits - 1)
    BY <1>1, Sizes
  <2> HIDE DEF UsableBits
  <2> QED BY <2>1, Digits
<1>4. Over(l) = r /\ Element(l) = e
  BY <1>1, <1>3 DEF Over, Element
<1> QED BY <1>1, <1>2, <1>4 DEF e, r, l

\* From the end of one field element they go on behind the bits reserved in the next.
LEMMA OffsetJump ==
  ASSUME NEW k \in Nat \ {0}, Over(k) = UsableBits - 1
  PROVE  Offset(k + 1) = Offset(k) + 3 /\ Over(k + 1) = 0 /\ Offset(k) + 1 = (Element(k) + 1) * BitsPerFE
<1> DEFINE e == Element(k) + 1
           l == k + 1
<1>0. /\ Element(k) \in Nat /\ Offset(k) = Element(k) * BitsPerFE + 2 + Over(k)
      /\ HeaderBits + k - 1 = Element(k) * UsableBits + Over(k)
      /\ Element(k) * BitsPerFE \in Nat /\ Element(k) * UsableBits \in Nat
  BY OffsetDigits
<1>1. /\ e \in Nat /\ 0 \in 0..(UsableBits - 1) /\ Offset(k) + 1 = e * BitsPerFE /\ l \in Nat \ {0}
      /\ HeaderBits + l - 1 = e * UsableBits /\ e * BitsPerFE \in Nat /\ e * UsableBits \in Nat
  <2>1. e * BitsPerFE = Element(k) * BitsPerFE + BitsPerFE /\ e * UsableBits = Element(k) * UsableBits + UsableBits
    BY <1>0, Sizes
  <2> HIDE DEF e
  <2>2. e * BitsPerFE \in Nat /\ Offset(k) + 1 = e * BitsPerFE /\ HeaderBits + l - 1 = e * UsableBits + 0
    BY <1>0, <2>1, Sizes
  <2>3. e \in Nat /\ 0 \in 0..(UsableBits - 1) /\ l \in Nat \ {0} /\ e * UsableBits \in Nat
    <3>1. e \in Nat
      BY <1>0 DEF e
    <3> QED BY <3>1, Sizes, Multiples
  <2>4. HeaderBits + l - 1 = e * UsableBits
    BY <2>2, <2>3
  <2> QED BY <2>2, <2>3, <2>4
<1> HIDE DEF e, l
<1>2. Offset(l) = e * BitsPerFE + 2 + 0
  <2>1. HeaderBits + l - 1 = e * UsableBits + 0
    BY <1>1
  <2> QED BY <1>1, <2>1, OffsetByDigits
<1>3. (e * UsableBits) % UsableBits = 0
  BY <1>1, Sizes, Multiples
<1>4. Over(l) = 0
  BY <1>1, <1>3 DEF Over
<1>5. Offset(k) \in Nat
  BY OffsetDigits
<1>6. Offset(l) = Offset(k) + 3
  BY <1>1, <1>2, <1>5
<1> QED BY <1>1, <1>4, <1>6 DEF e, l

\* The first bit of data comes after the header.
LEMMA FirstOffset == Offset(1) = 2 + HeaderBits /\ Over(1) = HeaderBits
<1>1. HeaderBits + 1 - 1 = 0 * UsableBits + HeaderBits /\ HeaderBits \in 0..(UsableBits - 1)
  BY Sizes
<1>2. Offset(1) = 0 * BitsPerFE + 2 + HeaderBits
  BY <1>1, OffsetByDigits, Sizes
<1>3. (0 * UsableBits + HeaderBits) % UsableBits = HeaderBits
  BY <1>1, Digits, Sizes
<1> QED BY <1>1, <1>2, <1>3, Sizes DEF Over

\* Later bits of data have greater offsets.
LEMMA OffsetGrows ==
  ASSUME NEW k \in Nat \ {0}, NEW l \in Nat \ {0}, k < l
  PROVE  Offset(k) < Offset(l)
<1> DEFINE d == Element(k)
           e == Element(l)
<1>1. /\ d \in Nat /\ Over(k) \in 0..(UsableBits - 1) /\ Offset(k) = d * BitsPerFE + 2 + Over(k)
      /\ HeaderBits + k - 1 = d * UsableBits + Over(k) /\ d * BitsPerFE \in Nat
  BY OffsetDigits
<1>2. /\ e \in Nat /\ Over(l) \in 0..(UsableBits - 1) /\ Offset(l) = e * BitsPerFE + 2 + Over(l)
      /\ HeaderBits + l - 1 = e * UsableBits + Over(l) /\ e * BitsPerFE \in Nat
  BY OffsetDigits
<1>3. d <= e
  <2>1. HeaderBits + k - 1 \in Nat /\ HeaderBits + l - 1 \in Nat /\ HeaderBits + k - 1 <= HeaderBits + l - 1
    BY Sizes
  <2> QED BY <2>1, Sizes, QuotientGrows DEF Element
<1> HIDE DEF d, e
<1>4. CASE d = e
  BY <1>1, <1>2, <1>4, Sizes
<1>5. CASE d < e
  <2>1. (d + 1) * BitsPerFE <= e * BitsPerFE
    BY <1>1, <1>2, <1>5, Sizes, ProductGrows
  <2>2. (d + 1) * BitsPerFE = d * BitsPerFE + BitsPerFE
    BY <1>1, Sizes
  <2> QED BY <1>1, <1>2, <2>1, <2>2, Sizes
<1> QED BY <1>1, <1>2, <1>3, <1>4, <1>5

-----------------------------------------------------------------------------
(* The encoder.                                                            *)

\* A position in the storage, within its blob and within its field element.
LEMMA Position ==
  ASSUME NEW m \in Nat, NEW x \in 0..(BitsPerBlob - 1), NEW e \in Nat, NEW r \in 0..(BitsPerFE - 1),
         x = e * BitsPerFE + r
  PROVE  /\ m * BitsPerBlob \in Nat /\ (m * BitsPerBlob + x) % BitsPerBlob = x
         /\ (m * BitsPerBlob + x) % BitsPerFE = r
<1>0. BitsPerBlob \in Nat \ {0}
  BY Sizes
<1>1. m * BitsPerBlob \in Nat /\ (m * BitsPerBlob + x) % BitsPerBlob = x
  <2>1. m * BitsPerBlob \in Nat
    BY <1>0, Multiples
  <2>2. (m * BitsPerBlob + x) \div BitsPerBlob = m /\ (m * BitsPerBlob + x) % BitsPerBlob = x
    BY <1>0, Digits
  <2> QED BY <2>1, <2>2
<1> DEFINE q == m * FEsPerBlob + e
<1>2. q \in Nat /\ m * FEsPerBlob \in Nat
  <2>1. m * FEsPerBlob \in Nat
    BY Sizes, ProductGrows
  <2> QED BY <2>1
<1>3. m * BitsPerBlob + x = q * BitsPerFE + r
  <2>1. m * BitsPerBlob = (m * FEsPerBlob) * BitsPerFE
    BY Sizes
  <2> DEFINE f == m * FEsPerBlob
  <2>2. (f + e) * BitsPerFE = f * BitsPerFE + e * BitsPerFE /\ f * BitsPerFE \in Nat /\ e * BitsPerFE \in Nat
    <3>1. f \in Nat
      BY <1>2
    <3> HIDE DEF f
    <3> QED BY <3>1, Sizes, Multiples
  <2>3. m * BitsPerBlob = f * BitsPerFE
    BY <2>1
  <2>4. q = f + e
    OBVIOUS
  <2> HIDE DEF f, q
  <2> QED BY <2>2, <2>3, <2>4
<1> HIDE DEF q
<1>4. (q * BitsPerFE + r) % BitsPerFE = r
  BY <1>2, Sizes, Digits
<1> QED BY <1>1, <1>3, <1>4

LEMMA OffsetPosition ==
  ASSUME NEW m \in Nat, NEW k \in 1..DataBitsPerBlob
  PROVE  /\ m * BitsPerBlob \in Nat /\ (m * BitsPerBlob + Offset(k)) % BitsPerBlob = Offset(k)
         /\ (m * BitsPerBlob + Offset(k)) % BitsPerFE = 2 + Over(k)
<1>1. k \in Nat \ {0}
  BY Sizes
<1>2. /\ Element(k) \in Nat /\ Over(k) \in 0..(UsableBits - 1)
      /\ Offset(k) = Element(k) * BitsPerFE + 2 + Over(k)
      /\ Element(k) * BitsPerFE \in Nat
  BY <1>1, OffsetDigits
<1>3. Offset(k) \in 0..(BitsPerBlob - 1)
  BY OffsetInBlob, Sizes
<1> DEFINE r == 2 + Over(k)
           x == Offset(k)
<1>4. r \in 0..(BitsPerFE - 1) /\ x = Element(k) * BitsPerFE + r /\ x \in 0..(BitsPerBlob - 1)
  BY <1>2, <1>3, Sizes
<1> HIDE DEF r, x
<1>5. /\ m * BitsPerBlob \in Nat /\ (m * BitsPerBlob + x) % BitsPerBlob = x
      /\ (m * BitsPerBlob + x) % BitsPerFE = r
  BY <1>2, <1>4, Position
<1> QED BY <1>5 DEF r, x

\* Behind a full field element is the end of the blob or the next element.
LEMMA FullPosition ==
  ASSUME NEW m \in Nat, NEW k \in 1..DataBitsPerBlob, Over(k) = UsableBits - 1
  PROVE  LET next == m * BitsPerBlob + Offset(k) + 1
         IN  /\ k = DataBitsPerBlob => next = (m + 1) * BitsPerBlob /\ next % BitsPerBlob = 0
             /\ k < DataBitsPerBlob => /\ next % BitsPerBlob # 0 /\ next % BitsPerFE = 0
                                       /\ next + 2 = m * BitsPerBlob + Offset(k + 1)
<1> DEFINE next == m * BitsPerBlob + Offset(k) + 1
<1>1. k \in Nat \ {0} /\ Offset(k) \in 0..(BitsPerBlob - 1) /\ m * BitsPerBlob \in Nat
  BY Sizes, OffsetInBlob, Multiples
<1>2. ASSUME k = DataBitsPerBlob PROVE next = (m + 1) * BitsPerBlob /\ next % BitsPerBlob = 0
  <2>1. next = m * BitsPerBlob + BitsPerBlob
    BY <1>1, <1>2, LastOffset, Sizes
  <2>2. (m + 1) * BitsPerBlob = m * BitsPerBlob + BitsPerBlob
    BY Sizes
  <2>3. ((m + 1) * BitsPerBlob) % BitsPerBlob = 0
    <3>1. m + 1 \in Nat
      OBVIOUS
    <3> QED BY <3>1, Sizes, Multiples
  <2> QED BY <2>1, <2>2, <2>3
<1>3. ASSUME k < DataBitsPerBlob
      PROVE  next % BitsPerBlob # 0 /\ next % BitsPerFE = 0 /\ next + 2 = m * BitsPerBlob + Offset(k + 1)
  <2> DEFINE x == Offset(k) + 1
             e == Element(k) + 1
             r == 0
  <2>1. Offset(k + 1) = Offset(k) + 3 /\ x = e * BitsPerFE
    BY <1>1, OffsetJump
  <2>2. Offset(k) + 1 # BitsPerBlob
    BY <1>3, OnlyLastEnds, Sizes
  <2>3. x \in 0..(BitsPerBlob - 1) /\ x # 0
    BY <1>1, <2>2, Sizes
  <2>4. e \in Nat /\ r \in 0..(BitsPerFE - 1)
    BY <1>1, OffsetDigits, Sizes
  <2>5. x = e * BitsPerFE + r
    BY <2>1, <2>3
  <2> HIDE DEF x, e, r
  <2>6. (m * BitsPerBlob + x) % BitsPerBlob = x /\ (m * BitsPerBlob + x) % BitsPerFE = r
    BY <2>3, <2>4, <2>5, Position
  <2>7. next = m * BitsPerBlob + x
    BY <1>1 DEF x
  <2>8. next % BitsPerBlob = x /\ next % BitsPerFE = r
    BY <2>6, <2>7
  <2>9. next + 2 = m * BitsPerBlob + Offset(k + 1)
    BY <1>1, <2>1
  <2> HIDE DEF next
  <2> QED BY <2>3, <2>8, <2>9 DEF r
<1> QED BY <1>2, <1>3

BlobBits == [0..(BitsPerBlob - 1) -> Nat]

StorageInv ==
  /\ length \in [BundleIds -> Nat]
  /\ \A b \in BundleIds : length[b] = 0 \/ \E numBytes \in BundleLengths : length[b] = numBytes * BitsPerByte
  /\ encoding \in BundleIds \cup {NoBundleId}
  /\ storage \in Seq(BlobBits)
  /\ bitCounter \in 0..(BitsPerBlob * Len(storage))

\* The first bits of a bundle are in the blobs, one blob after the other.
Stored(blobs, count) ==
  \A i \in 1..Len(blobs), k \in 1..DataBitsPerBlob :
    (i - 1) * DataBitsPerBlob + k <= count => blobs[i][Offset(k)] = (i - 1) * DataBitsPerBlob + k

\* The last bit so far is the k-th one of the last of so many blobs.
StoredUpTo(blobs, k) ==
  /\ ingested = (blobs - 1) * DataBitsPerBlob + k
  /\ bitCounter = (blobs - 1) * BitsPerBlob + Offset(k) + 1
  /\ ingested < length[encoding] => Over(k) = UsableBits - 1

EncoderInv ==
  encoding # NoBundleId =>
    /\ length[encoding] > 0 /\ ingested \in 0..length[encoding]
    /\ storage = <<>> => ingested = 0 /\ bitCounter = 0
    /\ storage # <<>> => \E k \in 1..DataBitsPerBlob : StoredUpTo(Len(storage), k)
    /\ Stored(storage, ingested)

\* The blobs the next bits go into, the last one with room for them.
Blobs == IF bitCounter % BitsPerBlob = 0 THEN Append(storage, EmptyBlob) ELSE storage

\* The next bit is the k-th one of the last of these blobs.
NextBit(k) ==
  /\ ingested = (Len(Blobs) - 1) * DataBitsPerBlob + k - 1
  /\ NextFree = (Len(Blobs) - 1) * BitsPerBlob + Offset(k)

LEMMA NewBlob ==
  ASSUME StorageInv, Stored(storage, ingested), ingested = Len(storage) * DataBitsPerBlob
  PROVE  LET blobs == Append(storage, EmptyBlob)
         IN  blobs \in Seq(BlobBits) /\ Len(blobs) = Len(storage) + 1 /\ Stored(blobs, ingested)
<1> DEFINE blobs == Append(storage, EmptyBlob)
           n == Len(storage)
<1>1. storage \in Seq(BlobBits) /\ n \in Nat
  BY DEF StorageInv
<1>2. EmptyBlob \in BlobBits
  BY DEF EmptyBlob, BlobBits
<1>3. blobs \in Seq(BlobBits) /\ Len(blobs) = n + 1 /\ \A i \in 1..n : blobs[i] = storage[i]
  BY <1>1, <1>2
<1>4. ASSUME NEW i \in 1..Len(blobs), NEW k \in 1..DataBitsPerBlob, (i - 1) * DataBitsPerBlob + k <= ingested
      PROVE  blobs[i][Offset(k)] = (i - 1) * DataBitsPerBlob + k
  <2>1. i # n + 1
    <3>1. SUFFICES ASSUME i = n + 1 PROVE FALSE
      OBVIOUS
    <3>2. n * DataBitsPerBlob \in Nat
      BY <1>1, Sizes, Multiples
    <3>3. i - 1 = n
      BY <1>1, <3>1
    <3>4. n * DataBitsPerBlob + k <= n * DataBitsPerBlob /\ k > 0
      BY <1>4, <3>3
    <3> HIDE DEF n
    <3> QED BY <3>2, <3>4, Sizes
  <2>2. i \in 1..n
    <3> HIDE DEF n, blobs
    <3> QED BY <1>1, <1>3, <2>1
  <2> QED BY <1>3, <1>4, <2>2 DEF Stored
<1>5. Stored(blobs, ingested)
  <2> HIDE DEF blobs
  <2> QED BY <1>4 DEF Stored
<1> QED BY <1>3, <1>5

LEMMA NextSpot ==
  ASSUME StorageInv, EncoderInv, encoding # NoBundleId, ingested < length[encoding]
  PROVE  /\ Blobs \in Seq(BlobBits) /\ Len(Blobs) \in Nat \ {0} /\ Stored(Blobs, ingested)
         /\ \E k \in 1..DataBitsPerBlob : NextBit(k)
<1> DEFINE n == Len(storage)
<1>1. storage \in Seq(BlobBits) /\ n \in Nat /\ Stored(storage, ingested)
  BY DEF StorageInv, EncoderInv
<1>2. CASE storage = <<>>
  <2>1. ingested = 0 /\ bitCounter = 0 /\ n = 0
    BY <1>2 DEF EncoderInv
  <2>2. 0 % BitsPerBlob = 0 /\ 0 * DataBitsPerBlob = 0 /\ 0 * BitsPerBlob = 0
    BY Sizes, Multiples
  <2>3. Blobs = Append(storage, EmptyBlob)
    BY <2>1, <2>2 DEF Blobs
  <2>4. Blobs \in Seq(BlobBits) /\ Len(Blobs) = 1 /\ Stored(Blobs, ingested)
    BY <1>1, <2>1, <2>2, <2>3, NewBlob
  <2>5. NextFree = Offset(1)
    BY <2>1, <2>2, FirstOffset, Sizes DEF NextFree
  <2>6. NextBit(1)
    BY <2>1, <2>2, <2>4, <2>5, FirstOffset, Sizes DEF NextBit
  <2> QED BY <2>4, <2>6, Sizes
<1>3. CASE storage # <<>>
  <2>1. n \in Nat \ {0}
    BY <1>1, <1>3
  <2>2. PICK k \in 1..DataBitsPerBlob : StoredUpTo(n, k)
    BY <1>3 DEF EncoderInv
  <2> DEFINE m == n - 1
  <2>3. /\ m \in Nat /\ ingested = m * DataBitsPerBlob + k /\ bitCounter = m * BitsPerBlob + Offset(k) + 1
        /\ Over(k) = UsableBits - 1
    BY <2>1, <2>2 DEF StoredUpTo
  <2> HIDE DEF m
  <2>4. /\ k = DataBitsPerBlob => bitCounter = (m + 1) * BitsPerBlob /\ bitCounter % BitsPerBlob = 0
        /\ k < DataBitsPerBlob => /\ bitCounter % BitsPerBlob # 0 /\ bitCounter % BitsPerFE = 0
                                  /\ bitCounter + 2 = m * BitsPerBlob + Offset(k + 1)
    BY <2>3, FullPosition
  <2>5. m * DataBitsPerBlob \in Nat /\ m * BitsPerBlob \in Nat
    BY <2>3, Sizes, Multiples
  <2>6. CASE k = DataBitsPerBlob
    <3>1. Blobs = Append(storage, EmptyBlob)
      BY <2>4, <2>6 DEF Blobs
    <3>2. ingested = n * DataBitsPerBlob
      <4>1. n = m + 1
        BY <2>1 DEF m
      <4>2. (m + 1) * DataBitsPerBlob = m * DataBitsPerBlob + DataBitsPerBlob
        BY <2>3, Sizes
      <4> QED BY <2>3, <2>6, <4>1, <4>2
    <3>3. Blobs \in Seq(BlobBits) /\ Len(Blobs) = n + 1 /\ Stored(Blobs, ingested)
      BY <1>1, <3>1, <3>2, NewBlob
    <3>4. NextFree = n * BitsPerBlob + Offset(1)
      <4>1. n = m + 1 /\ bitCounter = n * BitsPerBlob /\ bitCounter \in Nat
        BY <2>1, <2>4, <2>6, Sizes, Multiples DEF m
      <4> QED BY <2>4, <2>6, <4>1, FirstOffset, Sizes DEF NextFree
    <3>5. NextBit(1)
      <4>1. Len(Blobs) - 1 = n /\ n * DataBitsPerBlob \in Nat
        BY <1>1, <3>3, Sizes, Multiples
      <4> QED BY <3>2, <3>4, <4>1 DEF NextBit
    <3> QED BY <1>1, <3>3, <3>5, Sizes
  <2>7. CASE k < DataBitsPerBlob
    <3>1. Blobs = storage /\ Len(Blobs) - 1 = m
      BY <1>1, <2>4, <2>7 DEF Blobs, m
    <3>2. NextFree = m * BitsPerBlob + Offset(k + 1)
      BY <2>4, <2>7 DEF NextFree
    <3>3. k + 1 \in 1..DataBitsPerBlob /\ ingested = m * DataBitsPerBlob + (k + 1) - 1
      BY <2>3, <2>5, <2>7, Sizes
    <3>4. NextBit(k + 1)
      BY <3>1, <3>2, <3>3 DEF NextBit
    <3> QED BY <1>1, <2>1, <3>1, <3>3, <3>4
  <2> QED BY <2>6, <2>7, Sizes
<1> QED BY <1>2, <1>3

\* How many bits go into the blob at once: what is left of its field element and of the
\* bundle.
Space == BitsPerFE - (NextFree % BitsPerFE)

Amount == IF Space < length[encoding] - ingested THEN Space ELSE length[encoding] - ingested

LEMMA IngestedBits ==
  ASSUME StorageInv, EncoderInv, Ingest
  PROVE  \E k \in 1..DataBitsPerBlob :
           /\ NextBit(k) /\ Space = UsableBits - Over(k)
           /\ Amount \in 1..Space /\ ingested + Amount <= length[encoding]
           /\ ingested + Amount < length[encoding] => Amount = Space
           /\ k + Amount - 1 \in 1..DataBitsPerBlob
           /\ \A j \in 0..(Amount - 1) : Offset(k + j) = Offset(k) + j /\ Over(k + j) = Over(k) + j
           /\ \A i \in 1..Len(Blobs), offset \in 0..(BitsPerBlob - 1) :
                storage'[i][offset] = IF i = Len(Blobs) /\ offset \in Offset(k)..(Offset(k) + Amount - 1)
                                        THEN ingested + 1 + (offset - Offset(k)) ELSE Blobs[i][offset]
           /\ storage' \in Seq(BlobBits) /\ Len(storage') = Len(Blobs)
           /\ bitCounter' = NextFree + Amount /\ ingested' = ingested + Amount
<1>1. /\ encoding # NoBundleId /\ encoding \in BundleIds /\ length[encoding] \in Nat
      /\ length[encoding] - ingested > 0
  BY DEF Ingest, StorageInv
<1>2. ingested \in Nat /\ ingested < length[encoding]
  BY <1>1 DEF EncoderInv
<1>3. /\ Blobs \in Seq(BlobBits) /\ Len(Blobs) \in Nat \ {0}
      /\ \E k \in 1..DataBitsPerBlob : NextBit(k)
  BY <1>1, <1>2, NextSpot
<1>4. PICK k \in 1..DataBitsPerBlob : NextBit(k)
  BY <1>3
<1>5. k \in Nat \ {0}
  BY Sizes
<1>6. /\ Over(k) \in 0..(UsableBits - 1) /\ Element(k) \in Nat /\ Element(k) * UsableBits \in Nat
      /\ HeaderBits + k - 1 = Element(k) * UsableBits + Over(k) /\ Offset(k) \in Nat
  BY <1>5, OffsetDigits
<1>7. NextFree % BitsPerBlob = Offset(k) /\ NextFree % BitsPerFE = 2 + Over(k)
  <2> DEFINE m == Len(Blobs) - 1
  <2>1. m \in Nat /\ NextFree = m * BitsPerBlob + Offset(k)
    BY <1>3, <1>4 DEF NextBit
  <2> HIDE DEF m
  <2> QED BY <2>1, OffsetPosition
<1>8. Space = UsableBits - Over(k) /\ Space \in Nat \ {0}
  BY <1>6, <1>7, Sizes DEF Space
<1>9. /\ Amount \in 1..Space /\ ingested + Amount <= length[encoding]
      /\ ingested + Amount < length[encoding] => Amount = Space
  BY <1>1, <1>2, <1>8 DEF Amount
<1>10. k + Amount - 1 \in 1..DataBitsPerBlob
  <2>1. Element(k) * UsableBits + UsableBits <= FEsPerBlob * UsableBits
    BY ElementInBlob
  <2> QED BY <1>5, <1>6, <1>8, <1>9, <2>1, Sizes
<1>11. ASSUME NEW j \in 0..(Amount - 1) PROVE Offset(k + j) = Offset(k) + j /\ Over(k + j) = Over(k) + j
  <2>1. j \in Nat /\ Over(k) + j < UsableBits
    BY <1>6, <1>8, <1>9, Sizes
  <2> QED BY <1>5, <2>1, OffsetRun
<1> DEFINE n == Len(Blobs)
           written(offset) == offset \in Offset(k)..(Offset(k) + Amount - 1)
<1>12. /\ storage' = [Blobs EXCEPT ![n] = [offset \in DOMAIN Blobs[n] |->
                        IF written(offset) THEN ingested + 1 + (offset - Offset(k)) ELSE Blobs[n][offset]]]
       /\ bitCounter' = NextFree + Amount /\ ingested' = ingested + Amount
  BY <1>7 DEF Ingest, Blobs, Space, Amount
<1>13. n \in 1..Len(Blobs) /\ Blobs[n] \in BlobBits /\ DOMAIN Blobs[n] = 0..(BitsPerBlob - 1)
  BY <1>3 DEF BlobBits
<1>14. ASSUME NEW offset \in 0..(BitsPerBlob - 1)
       PROVE  /\ storage'[n][offset] = IF written(offset) THEN ingested + 1 + (offset - Offset(k)) ELSE Blobs[n][offset]
              /\ storage'[n][offset] \in Nat
  <2>1. storage'[n][offset] = IF written(offset) THEN ingested + 1 + (offset - Offset(k)) ELSE Blobs[n][offset]
    BY <1>3, <1>12, <1>13
  <2>2. Blobs[n][offset] \in Nat
    BY <1>13 DEF BlobBits
  <2>3. written(offset) => ingested + 1 + (offset - Offset(k)) \in Nat
    BY <1>2, <1>6, Sizes
  <2> QED BY <2>1, <2>2, <2>3
<1>15. storage' \in Seq(BlobBits) /\ Len(storage') = n /\ \A i \in 1..n : i # n => storage'[i] = Blobs[i]
  <2> DEFINE new == [offset \in DOMAIN Blobs[n] |->
                      IF written(offset) THEN ingested + 1 + (offset - Offset(k)) ELSE Blobs[n][offset]]
  <2>1. new \in BlobBits
    <3>1. ASSUME NEW offset \in 0..(BitsPerBlob - 1) PROVE new[offset] \in Nat
      <4>1. Blobs[n][offset] \in Nat
        BY <1>13 DEF BlobBits
      <4>2. written(offset) => ingested + 1 + (offset - Offset(k)) \in Nat
        BY <1>2, <1>6, Sizes
      <4> QED BY <1>13, <4>1, <4>2
    <3>2. new = [offset \in 0..(BitsPerBlob - 1) |-> new[offset]]
      BY <1>13
    <3> HIDE DEF new
    <3> QED BY <3>1, <3>2 DEF BlobBits
  <2>2. storage' = [Blobs EXCEPT ![n] = new]
    BY <1>12
  <2> HIDE DEF new, n
  <2> QED BY <1>3, <1>13, <2>1, <2>2 DEF n
<1>16. ASSUME NEW i \in 1..n, NEW offset \in 0..(BitsPerBlob - 1)
       PROVE  storage'[i][offset] = IF i = n /\ written(offset)
                                      THEN ingested + 1 + (offset - Offset(k)) ELSE Blobs[i][offset]
  BY <1>14, <1>15
<1> QED BY <1>4, <1>8, <1>9, <1>10, <1>11, <1>12, <1>15, <1>16

LEMMA IngestStep ==
  ASSUME StorageInv, EncoderInv, Ingest
  PROVE  StorageInv' /\ EncoderInv'
<1>1. PICK k \in 1..DataBitsPerBlob :
           /\ NextBit(k) /\ Space = UsableBits - Over(k)
           /\ Amount \in 1..Space /\ ingested + Amount <= length[encoding]
           /\ ingested + Amount < length[encoding] => Amount = Space
           /\ k + Amount - 1 \in 1..DataBitsPerBlob
           /\ \A j \in 0..(Amount - 1) : Offset(k + j) = Offset(k) + j /\ Over(k + j) = Over(k) + j
           /\ \A i \in 1..Len(Blobs), offset \in 0..(BitsPerBlob - 1) :
                storage'[i][offset] = IF i = Len(Blobs) /\ offset \in Offset(k)..(Offset(k) + Amount - 1)
                                        THEN ingested + 1 + (offset - Offset(k)) ELSE Blobs[i][offset]
           /\ storage' \in Seq(BlobBits) /\ Len(storage') = Len(Blobs)
           /\ bitCounter' = NextFree + Amount /\ ingested' = ingested + Amount
  BY IngestedBits
<1>0. /\ Space = UsableBits - Over(k) /\ Amount \in 1..Space
      /\ ingested + Amount < length[encoding] => Amount = Space
      /\ bitCounter' = NextFree + Amount /\ ingested' = ingested + Amount
  BY <1>1
<1>2. /\ encoding # NoBundleId /\ encoding \in BundleIds /\ length[encoding] \in Nat
      /\ length' = length /\ encoding' = encoding /\ length[encoding] - ingested > 0
  BY DEF Ingest, StorageInv
<1>3. ingested \in Nat /\ ingested < length[encoding]
  BY <1>2 DEF EncoderInv
<1>4. Len(Blobs) \in Nat \ {0} /\ Stored(Blobs, ingested)
  BY <1>2, <1>3, NextSpot
<1>5. k \in Nat \ {0} /\ Offset(k) \in Nat /\ Over(k) \in 0..(UsableBits - 1)
  BY Sizes, OffsetDigits
<1> DEFINE n == Len(Blobs)
           m == n - 1
           l == k + Amount - 1
<1>6. /\ m \in Nat /\ n = m + 1 /\ l \in 1..DataBitsPerBlob /\ Amount \in Nat \ {0} /\ l = k + (Amount - 1)
      /\ Amount - 1 \in 0..(Amount - 1)
  BY <1>1, <1>4, <1>5
<1>7. Offset(l) = Offset(k) + (Amount - 1) /\ Over(l) = Over(k) + (Amount - 1)
  BY <1>1, <1>6
<1>8. m * BitsPerBlob \in Nat /\ m * DataBitsPerBlob \in Nat
      /\ NextFree = m * BitsPerBlob + Offset(k) /\ ingested = m * DataBitsPerBlob + k - 1
  BY <1>1, <1>6, Sizes, Multiples DEF NextBit
<1>9. bitCounter' = m * BitsPerBlob + Offset(l) + 1 /\ ingested' = m * DataBitsPerBlob + l
  <2>1. bitCounter' = m * BitsPerBlob + Offset(k) + Amount /\ ingested' = m * DataBitsPerBlob + k - 1 + Amount
    BY <1>0, <1>8
  <2>2. Amount \in Nat /\ Offset(l) = Offset(k) + (Amount - 1) /\ l = k + (Amount - 1)
    BY <1>6, <1>7
  <2>3. k \in Nat /\ Offset(k) \in Nat /\ m * BitsPerBlob \in Nat /\ m * DataBitsPerBlob \in Nat
    BY <1>5, <1>8
  <2> DEFINE x == m * BitsPerBlob
             y == m * DataBitsPerBlob
  <2> HIDE DEF m, l, x, y
  <2>4. bitCounter' = x + Offset(l) + 1 /\ ingested' = y + l
    BY <2>1, <2>2, <2>3 DEF x, y
  <2> QED BY <2>4 DEF x, y
<1>10. ingested' < length'[encoding'] => Over(l) = UsableBits - 1
  <2>1. ingested' < length'[encoding'] => Amount = Space
    BY <1>0, <1>2
  <2>2. Over(l) = Over(k) + (Amount - 1) /\ Space = UsableBits - Over(k)
    BY <1>0, <1>7
  <2>3. Amount = Space => Over(l) = UsableBits - 1
    <3>1. Over(k) \in Nat /\ UsableBits \in Nat
      BY <1>5, Sizes
    <3> HIDE DEF l
    <3> QED BY <2>2, <3>1
  <2> HIDE DEF l
  <2> QED BY <2>1, <2>3
<1>11. /\ ingested' = (Len(storage') - 1) * DataBitsPerBlob + l
       /\ bitCounter' = (Len(storage') - 1) * BitsPerBlob + Offset(l) + 1
       /\ ingested' < length'[encoding'] => Over(l) = UsableBits - 1
  <2>1. Len(storage') - 1 = m
    BY <1>1
  <2> HIDE DEF m, l
  <2> QED BY <1>9, <1>10, <2>1
<1>12. ASSUME NEW i \in 1..n, NEW j \in 1..DataBitsPerBlob, (i - 1) * DataBitsPerBlob + j <= ingested'
       PROVE  storage'[i][Offset(j)] = (i - 1) * DataBitsPerBlob + j
  <2>1. Offset(j) \in 0..(BitsPerBlob - 1) /\ j \in Nat \ {0}
    BY Sizes, OffsetInBlob
  <2>2. storage'[i][Offset(j)] = IF i = n /\ Offset(j) \in Offset(k)..(Offset(k) + Amount - 1)
                                   THEN ingested + 1 + (Offset(j) - Offset(k)) ELSE Blobs[i][Offset(j)]
    BY <1>1, <2>1
  <2>3. (i - 1) * DataBitsPerBlob + j <= ingested => Blobs[i][Offset(j)] = (i - 1) * DataBitsPerBlob + j
    BY <1>4 DEF Stored
  <2>4. CASE i # n
    <3>1. i - 1 \in Nat /\ (i - 1) + 1 <= m
      <4>1. n \in Nat /\ i \in 1..n /\ i # n
        BY <1>4, <2>4
      <4> HIDE DEF n
      <4> QED BY <4>1 DEF m
    <3>2. (i - 1) * DataBitsPerBlob + DataBitsPerBlob <= m * DataBitsPerBlob
      <4> DEFINE h == i - 1
      <4>1. h \in Nat /\ h + 1 <= m
        BY <3>1
      <4> HIDE DEF h, m
      <4>2. (h + 1) * DataBitsPerBlob <= m * DataBitsPerBlob
        BY <1>6, <4>1, Sizes, ProductGrows
      <4>3. (h + 1) * DataBitsPerBlob = h * DataBitsPerBlob + DataBitsPerBlob
        BY <4>1, Sizes
      <4> QED BY <4>2, <4>3 DEF h
    <3>3. (i - 1) * DataBitsPerBlob \in Nat
      BY <3>1, Sizes, Multiples
    <3>4. (i - 1) * DataBitsPerBlob + j <= ingested
      <4> DEFINE below == (i - 1) * DataBitsPerBlob
                 filled == m * DataBitsPerBlob
      <4>1. /\ below \in Nat /\ below + DataBitsPerBlob <= filled /\ filled \in Nat
            /\ j \in Nat /\ j <= DataBitsPerBlob /\ DataBitsPerBlob \in Nat
            /\ k \in Nat \ {0} /\ ingested = filled + k - 1
        BY <1>8, <3>2, <3>3, <1>5, <2>1, Sizes
      <4> HIDE DEF below, filled
      <4>2. below + j <= ingested
        BY <4>1
      <4> QED BY <4>2 DEF below
    <3> QED BY <2>2, <2>3, <2>4, <3>4
  <2>5. CASE i = n /\ j < k
    <3>1. Offset(j) < Offset(k) /\ Offset(j) \in Nat
      BY <1>5, <2>1, <2>5, OffsetGrows
    <3>2. (i - 1) * DataBitsPerBlob + j <= ingested
      <4>1. (i - 1) * DataBitsPerBlob = m * DataBitsPerBlob
        BY <2>5
      <4> HIDE DEF m
      <4> QED BY <1>5, <1>8, <2>1, <2>5, <4>1
    <3> QED BY <1>5, <2>2, <2>3, <3>1, <3>2
  <2>6. CASE i = n /\ j >= k
    <3>1. (i - 1) * DataBitsPerBlob = m * DataBitsPerBlob
      BY <2>6
    <3>2. j <= l
      <4> HIDE DEF m, l
      <4> QED BY <1>6, <1>8, <1>9, <1>12, <2>1, <3>1
    <3>3. j - k \in 0..(Amount - 1) /\ j = k + (j - k)
      BY <1>5, <1>6, <2>1, <2>6, <3>2
    <3>4. Offset(j) = Offset(k) + (j - k)
      BY <1>1, <3>3
    <3>5. storage'[i][Offset(j)] = ingested + 1 + (j - k)
      <4>1. Offset(j) \in Offset(k)..(Offset(k) + Amount - 1) /\ Offset(j) - Offset(k) = j - k
        BY <1>5, <1>6, <2>1, <3>3, <3>4
      <4> QED BY <2>2, <2>6, <4>1
    <3>6. ingested = m * DataBitsPerBlob + k - 1 /\ m * DataBitsPerBlob \in Nat
      BY <1>8
    <3>7. ingested + 1 + (j - k) = m * DataBitsPerBlob + j
      <4> HIDE DEF m
      <4> QED BY <1>5, <1>6, <2>1, <3>6, Sizes
    <3> HIDE DEF m
    <3> QED BY <3>1, <3>5, <3>7
  <2> QED BY <2>4, <2>5, <2>6, <1>5, <2>1
<1>13. Stored(storage', ingested')
  BY <1>1, <1>12 DEF Stored
<1>14. bitCounter' \in 0..(BitsPerBlob * Len(storage'))
  <2>1. BitsPerBlob * Len(storage') = m * BitsPerBlob + BitsPerBlob
    <3>1. Len(storage') = m + 1
      BY <1>1, <1>6
    <3>2. BitsPerBlob * (m + 1) = m * BitsPerBlob + BitsPerBlob
      <4> HIDE DEF m
      <4> QED BY <1>6, Sizes
    <3> QED BY <3>1, <3>2
  <2>2. Offset(l) \in 2..(BitsPerBlob - 1)
    BY <1>6, OffsetInBlob
  <2> DEFINE x == m * BitsPerBlob
             last == Offset(l)
  <2>3. x \in Nat /\ bitCounter' = x + last + 1 /\ BitsPerBlob * Len(storage') = x + BitsPerBlob
        /\ last \in 2..(BitsPerBlob - 1) /\ BitsPerBlob \in Nat
    BY <1>8, <1>9, <2>1, <2>2, Sizes
  <2> HIDE DEF x, last
  <2>4. x + last + 1 \in 0..(x + BitsPerBlob)
    BY <2>3
  <2> QED BY <2>3, <2>4
<1>15. StorageInv'
  BY <1>1, <1>2, <1>14 DEF StorageInv
<1>16. EncoderInv'
  <2>1. ingested' \in 0..length'[encoding'] /\ length'[encoding'] > 0 /\ ingested' # 0
    BY <1>1, <1>2, <1>3, <1>6
  <2>2. Len(storage') = n /\ storage' # <<>>
    BY <1>1, <1>4
  <2>3. \E j \in 1..DataBitsPerBlob : StoredUpTo(Len(storage), j)'
    <3> HIDE DEF l, m, n
    <3> QED BY <1>6, <1>11 DEF StoredUpTo
  <2> QED BY <1>13, <2>1, <2>2, <2>3 DEF EncoderInv, Stored
<1> QED BY <1>15, <1>16

-----------------------------------------------------------------------------
(* The blobs of a bundle: all full but the last, which has the rest.       *)

CountOf(len) == (len + DataBitsPerBlob - 1) \div DataBitsPerBlob

ShareOf(len, idx) ==
  IF (idx + 1) * DataBitsPerBlob <= len THEN DataBitsPerBlob ELSE len - idx * DataBitsPerBlob

GoodBlob(blob) ==
  /\ blob \in [id : BundleIds, numBits : Nat, isLast : BOOLEAN, idx : Nat, bits : BlobBits]
  /\ blob.id # encoding
  /\ length[blob.id] > 0
  /\ blob.idx < CountOf(length[blob.id])
  /\ blob.isLast <=> blob.idx + 1 = CountOf(length[blob.id])
  /\ blob.numBits = Offset(ShareOf(length[blob.id], blob.idx)) + 1
  /\ \A k \in 1..ShareOf(length[blob.id], blob.idx) :
       blob.bits[Offset(k)] = blob.idx * DataBitsPerBlob + k

PublishedInv ==
  /\ IsFiniteSet(published)
  /\ \A blob \in published : GoodBlob(blob)
  /\ \A x, y \in published : x.id = y.id /\ x.idx = y.idx => x = y
  /\ \A x \in published : \A i \in 0..(CountOf(length[x.id]) - 1) : \E y \in published : y.id = x.id /\ y.idx = i
  /\ delivered \in Seq(published)

\* The bits of a bundle, spread over its blobs.
LEMMA Spread ==
  ASSUME NEW n \in Nat \ {0}, NEW k \in 1..DataBitsPerBlob, NEW len, len = (n - 1) * DataBitsPerBlob + k
  PROVE  /\ len \in Nat \ {0} /\ CountOf(len) = n
         /\ \A i \in 1..n : ShareOf(len, i - 1) = IF i = n THEN k ELSE DataBitsPerBlob
<1> DEFINE m == n - 1
<1>1. m \in Nat /\ n = m + 1 /\ len = m * DataBitsPerBlob + k /\ m * DataBitsPerBlob \in Nat
  BY Sizes, Multiples
<1> HIDE DEF m
<1>2. len \in Nat \ {0}
  BY <1>1, Sizes
<1>3. CountOf(len) = n
  <2> DEFINE r == k - 1
             x == n * DataBitsPerBlob
  <2>1. r \in 0..(DataBitsPerBlob - 1) /\ x \in Nat
    BY Sizes, Multiples
  <2>2. x = m * DataBitsPerBlob + DataBitsPerBlob
    BY <1>1, Sizes
  <2>3. len + DataBitsPerBlob - 1 = x + r
    <3> HIDE DEF x
    <3> QED BY <1>1, <2>2, Sizes
  <2> HIDE DEF r
  <2>4. (n * DataBitsPerBlob + r) \div DataBitsPerBlob = n /\ (n * DataBitsPerBlob + r) % DataBitsPerBlob = r
    BY <2>1, Sizes, Digits
  <2> QED BY <2>3, <2>4 DEF CountOf
<1>4. ASSUME NEW i \in 1..n PROVE ShareOf(len, i - 1) = IF i = n THEN k ELSE DataBitsPerBlob
  <2> DEFINE h == i - 1
  <2>1. h \in Nat /\ h + 1 <= n /\ (h = m <=> i = n) /\ h * DataBitsPerBlob \in Nat
    BY <1>1, Sizes, Multiples
  <2> HIDE DEF h
  <2>2. (h + 1) * DataBitsPerBlob = h * DataBitsPerBlob + DataBitsPerBlob
    BY <2>1, Sizes
  <2>3. CASE h = m
    <3>1. (h + 1) * DataBitsPerBlob <= len <=> k = DataBitsPerBlob
      BY <1>1, <2>2, <2>3, Sizes
    <3>2. len - h * DataBitsPerBlob = k
      BY <1>1, <2>3, Sizes
    <3>3. ShareOf(len, h) = k
      BY <3>1, <3>2 DEF ShareOf
    <3> QED BY <2>1, <2>3, <3>3 DEF h
  <2>4. CASE h # m
    <3>1. h + 1 <= m /\ h + 1 \in Nat
      BY <1>1, <2>1, <2>4
    <3>2. (h + 1) * DataBitsPerBlob <= m * DataBitsPerBlob
      BY <1>1, <3>1, Sizes, ProductGrows
    <3>3. (h + 1) * DataBitsPerBlob <= len
      BY <1>1, <2>1, <2>2, <3>2, Sizes
    <3>4. ShareOf(len, h) = DataBitsPerBlob
      BY <3>3 DEF ShareOf
    <3> QED BY <2>1, <2>4, <3>4 DEF h
  <2> QED BY <2>3, <2>4
<1> QED BY <1>2, <1>3, <1>4

LEMMA NumBitsOfLast ==
  ASSUME NEW m \in Nat, NEW k \in 1..DataBitsPerBlob, bitCounter = m * BitsPerBlob + Offset(k) + 1
  PROVE  NumBits(TRUE) = Offset(k) + 1
<1>1. Offset(k) \in 2..(BitsPerBlob - 1) /\ m * BitsPerBlob \in Nat
  BY OffsetInBlob, Sizes, Multiples
<1>2. CASE k = DataBitsPerBlob
  <2>1. Offset(k) + 1 = BitsPerBlob
    BY <1>2, LastOffset
  <2>2. bitCounter = (m + 1) * BitsPerBlob /\ m + 1 \in Nat
    <3>1. (m + 1) * BitsPerBlob = m * BitsPerBlob + BitsPerBlob
      BY Sizes
    <3>2. bitCounter = m * BitsPerBlob + BitsPerBlob
      BY <1>1, <2>1
    <3> QED BY <3>1, <3>2
  <2>3. bitCounter % BitsPerBlob = 0
    <3> DEFINE q == m + 1
    <3>1. bitCounter = q * BitsPerBlob /\ q \in Nat
      BY <2>2
    <3> HIDE DEF q
    <3>2. BitsPerBlob \in Nat \ {0}
      BY Sizes
    <3>3. (q * BitsPerBlob) % BitsPerBlob = 0
      BY <3>1, <3>2, Multiples
    <3> QED BY <3>1, <3>3
  <2> QED BY <2>1, <2>3 DEF NumBits
<1>3. CASE k # DataBitsPerBlob
  <2> DEFINE x == Offset(k) + 1
  <2>1. x \in 0..(BitsPerBlob - 1) /\ x # 0
    BY <1>1, <1>3, OnlyLastEnds, Sizes
  <2>2. bitCounter = m * BitsPerBlob + x
    BY <1>1
  <2> HIDE DEF x
  <2>3. (m * BitsPerBlob + x) \div BitsPerBlob = m /\ (m * BitsPerBlob + x) % BitsPerBlob = x
    <3>1. BitsPerBlob \in Nat \ {0}
      BY Sizes
    <3> QED BY <2>1, <3>1, Digits
  <2>4. NumBits(TRUE) = x
    BY <2>1, <2>2, <2>3 DEF NumBits
  <2> QED BY <2>4 DEF x
<1> QED BY <1>2, <1>3

LEMMA FinalizeStep ==
  ASSUME StorageInv, EncoderInv, PublishedInv, Finalize
  PROVE  PublishedInv'
<1>1. /\ encoding # NoBundleId /\ encoding \in BundleIds /\ ingested = length[encoding]
      /\ encoding' = NoBundleId /\ length' = length /\ delivered' = delivered
      /\ storage \in Seq(BlobBits) /\ length[encoding] > 0 /\ ingested > 0 /\ Stored(storage, ingested)
  BY DEF Finalize, StorageInv, EncoderInv
<1>2. storage # <<>> /\ \E k \in 1..DataBitsPerBlob : StoredUpTo(Len(storage), k)
  BY <1>1 DEF EncoderInv
<1> DEFINE n == Len(storage)
           b == encoding
<1>3. PICK k \in 1..DataBitsPerBlob : StoredUpTo(n, k)
  BY <1>2
<1>4. n \in Nat \ {0} /\ DOMAIN storage = 1..n
  BY <1>1, <1>2
<1>5. ingested = (n - 1) * DataBitsPerBlob + k /\ bitCounter = (n - 1) * BitsPerBlob + Offset(k) + 1
  BY <1>3 DEF StoredUpTo
<1>6. /\ CountOf(length[b]) = n
      /\ \A i \in 1..n : ShareOf(length[b], i - 1) = IF i = n THEN k ELSE DataBitsPerBlob
  <2> HIDE DEF n
  <2> QED BY <1>1, <1>4, <1>5, Spread
<1>7. NumBits(TRUE) = Offset(k) + 1 /\ NumBits(FALSE) = Offset(DataBitsPerBlob) + 1
  <2>1. n - 1 \in Nat
    BY <1>4
  <2> QED BY <1>5, <2>1, NumBitsOfLast, LastOffset DEF NumBits
<1> DEFINE new(i) == [id |-> b, numBits |-> NumBits(i = n), isLast |-> i = n, idx |-> i - 1, bits |-> storage[i]]
           fresh == {new(i) : i \in 1..n}
<1>8. published' = published \cup fresh
  BY <1>4 DEF Finalize
<1>9. ASSUME NEW i \in 1..n, NEW blob, blob = new(i) PROVE GoodBlob(blob)'
  <2>1. ShareOf(length[b], i - 1) = IF i = n THEN k ELSE DataBitsPerBlob
    BY <1>6
  <2>2. NumBits(i = n) = Offset(ShareOf(length[b], i - 1)) + 1
    <3>1. CASE i = n
      BY <1>7, <2>1, <3>1
    <3>2. CASE i # n
      <4>1. (i = n) = FALSE
        BY <3>2
      <4> QED BY <1>7, <2>1, <3>2, <4>1
    <3> QED BY <3>1, <3>2
  <2>3. ShareOf(length[b], i - 1) \in 1..DataBitsPerBlob
    BY <2>1, Sizes
  <2>4. Offset(ShareOf(length[b], i - 1)) \in Nat
    BY <2>3, OffsetInBlob, Sizes
  <2>5. storage[i] \in BlobBits /\ i - 1 \in Nat /\ i - 1 < n /\ (i = n <=> (i - 1) + 1 = n)
    BY <1>1, <1>4
  <2>6. b # encoding' /\ b \in BundleIds
    BY <1>1
  <2>7. ASSUME NEW j \in 1..ShareOf(length[b], i - 1)
        PROVE  storage[i][Offset(j)] = (i - 1) * DataBitsPerBlob + j
    <3>1. j \in 1..DataBitsPerBlob
      BY <2>3, Sizes
    <3>2. (i - 1) * DataBitsPerBlob + j <= ingested
      <4> DEFINE h == i - 1
                 m == n - 1
      <4>1. h \in Nat /\ m \in Nat /\ h <= m /\ (i = n => h = m) /\ (i # n => h + 1 <= m)
        <5> HIDE DEF n
        <5> QED BY <1>4
      <4>2. ingested = m * DataBitsPerBlob + k
        BY <1>5
      <4> HIDE DEF h, m
      <4>3. h * DataBitsPerBlob \in Nat /\ m * DataBitsPerBlob \in Nat
        BY <4>1, Sizes, Multiples
      <4>4. CASE i = n
        BY <2>1, <4>1, <4>2, <4>3, <4>4, Sizes DEF h
      <4>5. CASE i # n
        <5>1. (h + 1) * DataBitsPerBlob <= m * DataBitsPerBlob
          BY <4>1, <4>5, Sizes, ProductGrows
        <5>2. (h + 1) * DataBitsPerBlob = h * DataBitsPerBlob + DataBitsPerBlob
          BY <4>1, Sizes
        <5>3. h * DataBitsPerBlob + j <= ingested
          BY <3>1, <4>2, <4>3, <5>1, <5>2, Sizes
        <5> QED BY <5>3 DEF h
      <4> QED BY <4>4, <4>5
    <3> QED BY <1>1, <3>1, <3>2 DEF Stored
  <2>8. /\ blob.id = b /\ blob.numBits = NumBits(i = n) /\ blob.isLast = (i = n)
        /\ blob.idx = i - 1 /\ blob.bits = storage[i]
    BY <1>9
  <2>9. blob \in [id : BundleIds, numBits : Nat, isLast : BOOLEAN, idx : Nat, bits : BlobBits]
    BY <1>9, <2>2, <2>4, <2>5, <2>6
  <2>10. blob.numBits = Offset(ShareOf(length[blob.id], blob.idx)) + 1
    BY <2>2, <2>8
  <2>11. /\ length[blob.id] > 0 /\ blob.idx < CountOf(length[blob.id])
         /\ blob.isLast <=> blob.idx + 1 = CountOf(length[blob.id])
    BY <1>1, <1>6, <2>5, <2>8
  <2>12. \A j \in 1..ShareOf(length[blob.id], blob.idx) : blob.bits[Offset(j)] = blob.idx * DataBitsPerBlob + j
    BY <2>7, <2>8
  <2>13. blob.id # encoding'
    BY <2>6, <2>8
  <2>14. /\ blob \in [id : BundleIds, numBits : Nat, isLast : BOOLEAN, idx : Nat, bits : BlobBits]
         /\ blob.id # encoding' /\ length'[blob.id] > 0 /\ blob.idx < CountOf(length'[blob.id])
         /\ blob.isLast <=> blob.idx + 1 = CountOf(length'[blob.id])
         /\ blob.numBits = Offset(ShareOf(length'[blob.id], blob.idx)) + 1
         /\ \A j \in 1..ShareOf(length'[blob.id], blob.idx) : blob.bits[Offset(j)] = blob.idx * DataBitsPerBlob + j
    BY <1>1, <2>9, <2>10, <2>11, <2>12, <2>13
  <2> QED BY <2>14 DEF GoodBlob
<1>10. ASSUME NEW blob \in published PROVE GoodBlob(blob)' /\ blob.id # b
  <2>1. GoodBlob(blob)
    BY DEF PublishedInv
  <2>2. blob.id \in BundleIds /\ NoBundleId \notin BundleIds
    BY <2>1, HeaderAssumption DEF GoodBlob, NoBundleId
  <2> QED BY <1>1, <2>1, <2>2 DEF GoodBlob
<1>11. \A blob \in published' : GoodBlob(blob)'
  <2> HIDE DEF new
  <2> QED BY <1>8, <1>9, <1>10
<1>12. ASSUME NEW i \in 1..n PROVE new(i).id = b /\ new(i).idx = i - 1
  OBVIOUS
<1>13. \A x, y \in published' : x.id = y.id /\ x.idx = y.idx => x = y
  <2>1. ASSUME NEW i \in 1..n, NEW j \in 1..n, new(i).idx = new(j).idx PROVE i = j
    BY <1>12, <2>1
  <2>2. \A x, y \in published : x.id = y.id /\ x.idx = y.idx => x = y
    BY DEF PublishedInv
  <2> HIDE DEF new
  <2> QED BY <1>8, <1>10, <1>12, <2>1, <2>2
<1>14. \A x \in published' : \A i \in 0..(CountOf(length'[x.id]) - 1) : \E y \in published' : y.id = x.id /\ y.idx = i
  <2>1. ASSUME NEW x \in published, NEW i \in 0..(CountOf(length[x.id]) - 1)
        PROVE  \E y \in published' : y.id = x.id /\ y.idx = i
    BY <1>8 DEF PublishedInv
  <2>2. ASSUME NEW i \in 0..(n - 1) PROVE \E y \in published' : y.id = b /\ y.idx = i
    <3>1. i + 1 \in 1..n /\ (i + 1) - 1 = i
      BY <1>4
    <3> HIDE DEF new
    <3>2. new(i + 1) \in published' /\ new(i + 1).id = b /\ new(i + 1).idx = i
      BY <1>8, <1>12, <3>1
    <3> QED BY <3>2
  <2>3. \A x \in fresh : x.id = b
    <3> HIDE DEF new
    <3> QED BY <1>12
  <2> HIDE DEF fresh, n
  <2> QED BY <1>1, <1>6, <1>8, <2>1, <2>2, <2>3
<1>15. IsFiniteSet(published')
  <2>1. IsFiniteSet(1..n)
    BY <1>4, FS_Interval
  <2> DEFINE f == [i \in 1..n |-> new(i)]
  <2>2. f \in Surjection(1..n, fresh)
    <3> HIDE DEF new
    <3> QED BY DEF Surjection
  <2>3. IsFiniteSet(fresh)
    <3> HIDE DEF f, fresh
    <3> QED BY <2>1, <2>2, FS_Surjection
  <2>4. IsFiniteSet(published)
    BY DEF PublishedInv
  <2> HIDE DEF fresh
  <2> QED BY <1>8, <2>3, <2>4, FS_Union
<1>16. delivered' \in Seq(published')
  <2>1. delivered \in Seq(published) /\ published \subseteq published'
    BY <1>8 DEF PublishedInv
  <2> QED BY <1>1, <2>1
<1> QED BY <1>11, <1>13, <1>14, <1>15, <1>16 DEF PublishedInv

-----------------------------------------------------------------------------
(* The header: a number of which each part is read at its place.           *)

LEMMA PowersOfTwo ==
  /\ TwoTo[0] = 1 /\ \A n \in 1..HeaderBits : TwoTo[n] = 2 * TwoTo[n - 1]
  /\ \A n \in 0..HeaderBits : TwoTo[n] \in Nat \ {0}
<1>1. TwoTo = CHOOSE f : f = PowersOf(f, 2, HeaderBits)
  BY DEF TwoTo, PowersOf
<1>2. 2 \in Nat \ {0} /\ HeaderBits \in Nat
  BY Sizes
<1> DEFINE g == TwoTo
<1>3. g = CHOOSE f : f = PowersOf(f, 2, HeaderBits)
  BY <1>1
<1> HIDE DEF g
<1>4. g[0] = 1 /\ (\A k \in 1..HeaderBits : g[k] = 2 * g[k - 1]) /\ \A k \in 0..HeaderBits : g[k] \in Nat \ {0}
  BY <1>2, <1>3, Powers, SMTT(30)
<1> QED BY <1>4 DEF g

LEMMA PowersMultiply ==
  ASSUME NEW a \in Nat, NEW b \in Nat, a + b <= HeaderBits
  PROVE  TwoTo[a + b] = TwoTo[a] * TwoTo[b]
<1>1. HeaderBits \in Nat /\ a \in 0..HeaderBits /\ TwoTo[a] \in Nat \ {0}
  BY Sizes, PowersOfTwo
<1> DEFINE Good == {n \in Nat : a + n <= HeaderBits => TwoTo[a + n] = TwoTo[a] * TwoTo[n]}
<1>2. 0 \in Good
  BY <1>1, PowersOfTwo
<1>3. ASSUME NEW n \in Nat, n \in Good PROVE n + 1 \in Good
  <2>1. SUFFICES ASSUME a + (n + 1) <= HeaderBits PROVE TwoTo[a + (n + 1)] = TwoTo[a] * TwoTo[n + 1]
    OBVIOUS
  <2>2. /\ a + (n + 1) \in 1..HeaderBits /\ (a + (n + 1)) - 1 = a + n /\ a + n <= HeaderBits
        /\ n + 1 \in 1..HeaderBits /\ (n + 1) - 1 = n /\ n \in 0..HeaderBits
    BY <1>1, <2>1
  <2>3. TwoTo[a + (n + 1)] = 2 * TwoTo[a + n] /\ TwoTo[n + 1] = 2 * TwoTo[n] /\ TwoTo[n] \in Nat
    BY <2>2, PowersOfTwo
  <2>4. TwoTo[a + n] = TwoTo[a] * TwoTo[n]
    BY <1>3, <2>2
  <2> DEFINE x == TwoTo[a]
             y == TwoTo[n]
  <2>5. x \in Nat /\ y \in Nat
    BY <1>1, <2>3
  <2>6. 2 * (x * y) = x * (2 * y)
    <3> HIDE DEF x, y
    <3> QED BY <2>5
  <2> QED BY <2>3, <2>4, <2>6
<1> HIDE DEF Good
<1>4. \A n \in Nat : n \in Good
  BY <1>2, <1>3, InductiveSet
<1> QED BY <1>4 DEF Good

\* What is left of a number when its lowest bits are dropped.
HighPart(number, high, bits) == \E low \in 0..(TwoTo[bits] - 1) : number = high * TwoTo[bits] + low

LEMMA DropBits ==
  ASSUME NEW number, NEW high \in Nat, NEW bits \in 0..HeaderBits, HighPart(number, high, bits)
  PROVE  number \div TwoTo[bits] = high
<1>1. PICK low \in 0..(TwoTo[bits] - 1) : number = high * TwoTo[bits] + low
  BY DEF HighPart
<1> DEFINE c == TwoTo[bits]
<1>2. c \in Nat \ {0}
  BY PowersOfTwo
<1>3. low \in 0..(c - 1) /\ number = high * c + low
  BY <1>1
<1> HIDE DEF c
<1>4. (high * c + low) \div c = high /\ (high * c + low) % c = low
  BY <1>2, <1>3, Digits
<1>5. number \div c = high
  BY <1>3, <1>4
<1> QED BY <1>5 DEF c

Fits(value, width) == value \in 0..(TwoTo[width] - 1)

\* Behind the higher bits come the ones of a field.
Follows(rest, high, value, width) == rest = high * TwoTo[width] + value

FieldAt(number, width, after) == LowBits(number \div TwoTo[after], width)

\* A field is what is read at its place.
LEMMA ReadField ==
  ASSUME NEW number, NEW high \in Nat, NEW rest \in Nat, NEW after \in Nat, NEW width \in Nat,
         NEW value, Fits(value, width), NEW upTo \in 0..HeaderBits, upTo = after + width,
         HighPart(number, rest, after), Follows(rest, high, value, width)
  PROVE  FieldAt(number, width, after) = value /\ HighPart(number, high, upTo)
<1>1. after \in 0..HeaderBits /\ width \in 0..HeaderBits /\ after + width <= HeaderBits
  BY Sizes
<1> DEFINE a == TwoTo[after]
           w == TwoTo[width]
           c == TwoTo[upTo]
<1>2. a \in Nat \ {0} /\ w \in Nat \ {0} /\ c \in Nat \ {0} /\ c = a * w
  BY <1>1, PowersOfTwo, PowersMultiply
<1>3. number \div a = rest
  BY <1>1, DropBits
<1>4. value \in 0..(w - 1) /\ rest = high * w + value
  BY DEF Fits, Follows
<1>5. PICK low \in 0..(a - 1) : number = rest * a + low
  BY DEF HighPart
<1> HIDE DEF a, w, c
<1>6. rest % w = value
  <2>1. (high * w + value) \div w = high /\ (high * w + value) % w = value
    BY <1>2, <1>4, Digits
  <2> QED BY <1>4, <2>1
<1>7. FieldAt(number, width, after) = value
  BY <1>3, <1>6 DEF FieldAt, LowBits, a, w
<1>8. value * a + low \in 0..(c - 1) /\ number = high * c + (value * a + low)
  <2>1. value + 1 <= w /\ value \in Nat /\ low \in Nat
    BY <1>2, <1>4
  <2>2. (value + 1) * a <= w * a /\ value * a \in Nat
    BY <1>2, <2>1, ProductGrows
  <2>3. (value + 1) * a = value * a + a
    BY <1>2, <2>1
  <2>4. w * a = c
    BY <1>2
  <2>5. rest * a = (high * w) * a + value * a
    BY <1>2, <1>4, <2>1
  <2>6. (high * w) * a = high * c
    BY <1>2
  <2>7. high * c \in Nat
    BY <1>2, ProductGrows
  <2>8. value * a + low \in 0..(c - 1)
    BY <1>2, <2>1, <2>2, <2>3, <2>4
  <2> DEFINE x == high * c
             y == value * a
  <2>9. number = x + y + low /\ x \in Nat /\ y \in Nat
    <3>1. rest * a = x + y
      BY <2>5, <2>6
    <3> HIDE DEF x, y
    <3> QED BY <1>5, <2>2, <2>7, <3>1 DEF x, y
  <2>10. number = x + (y + low)
    <3> HIDE DEF x, y
    <3> QED BY <2>1, <2>9
  <2> QED BY <2>8, <2>10
<1>9. \E l \in 0..(c - 1) : number = high * c + l
  BY <1>8
<1>10. HighPart(number, high, upTo)
  BY <1>9 DEF HighPart, c
<1> QED BY <1>7, <1>10

\* A value that fits into a field is put there as it is.
LEMMA PutField ==
  ASSUME NEW rest \in Nat, NEW width \in 0..HeaderBits, NEW value \in 0..(TwoTo[width] - 1)
  PROVE  rest * TwoTo[width] + LowBits(value, width) = rest * TwoTo[width] + value
         /\ rest * TwoTo[width] + value \in Nat
<1> DEFINE w == TwoTo[width]
<1>1. w \in Nat \ {0} /\ value \in 0..(w - 1)
  BY PowersOfTwo
<1> HIDE DEF w
<1>2. value % w = value /\ rest * w \in Nat
  <2>1. (0 * w + value) \div w = 0 /\ (0 * w + value) % w = value
    BY <1>1, Digits
  <2>2. 0 * w + value = value
    BY <1>1
  <2> QED BY <1>1, <2>1, <2>2, ProductGrows
<1>3. rest * w + value \in Nat /\ LowBits(value, width) = value
  BY <1>1, <1>2 DEF LowBits, w
<1> QED BY <1>3 DEF w

LEMMA HeaderReadBack ==
  ASSUME NEW blob, blob.id \in 0..(TwoTo[BundleIdBits] - 1), blob.numBits \in 0..(TwoTo[NumBitsBits] - 1),
         blob.isLast \in BOOLEAN, blob.idx \in 0..(TwoTo[IdxBits] - 1)
  PROVE  DecodeHeader(EncodeHeader(blob)) =
           {[id |-> blob.id, numBits |-> blob.numBits, isLast |-> blob.isLast, idx |-> blob.idx]}
<1> DEFINE last == IF blob.isLast THEN 1 ELSE 0
           n1 == 0 * TwoTo[VersionBits] + 1
           n2 == n1 * TwoTo[BundleIdBits] + blob.id
           n3 == n2 * TwoTo[NumBitsBits] + blob.numBits
           n4 == n3 * TwoTo[1] + last
           n5 == n4 * TwoTo[IdxBits] + blob.idx
           P4 == IdxBits
           P3 == 1 + IdxBits
           P2 == NumBitsBits + 1 + IdxBits
           P1 == HeaderBits - VersionBits
<1>1. /\ {VersionBits, BundleIdBits, NumBitsBits, IdxBits} \subseteq Nat \ {0}
      /\ HeaderBits = VersionBits + BundleIdBits + NumBitsBits + 1 + IdxBits
  BY CodecAssumption DEF HeaderBits
<1>2. /\ P4 \in Nat /\ P3 \in Nat /\ P2 \in Nat /\ P1 \in Nat
      /\ P4 = 0 + IdxBits /\ P3 = P4 + 1 /\ P2 = P3 + NumBitsBits /\ P1 = P2 + BundleIdBits
      /\ HeaderBits = P1 + VersionBits
  BY <1>1
<1>3. /\ VersionBits \in 0..HeaderBits /\ BundleIdBits \in 0..HeaderBits /\ NumBitsBits \in 0..HeaderBits
      /\ 1 \in 0..HeaderBits /\ IdxBits \in 0..HeaderBits
      /\ {P4, P3, P2, P1} \subseteq 0..HeaderBits
  BY <1>1
<1>4. TwoTo[1] = 2 /\ last \in 0..(TwoTo[1] - 1) /\ (last = 1 <=> blob.isLast)
  BY <1>1, PowersOfTwo
<1>5. 1 \in 0..(TwoTo[VersionBits] - 1)
  <2>1. VersionBits \in 1..HeaderBits /\ VersionBits - 1 \in 0..HeaderBits
    BY <1>1, <1>3
  <2>2. TwoTo[VersionBits] = 2 * TwoTo[VersionBits - 1] /\ TwoTo[VersionBits - 1] \in Nat \ {0}
    BY <2>1, PowersOfTwo
  <2> QED BY <2>2
<1>6. n1 \in Nat /\ n1 = 0 * TwoTo[VersionBits] + LowBits(1, VersionBits)
  BY <1>3, <1>5, PutField
<1>7. n2 \in Nat /\ n2 = n1 * TwoTo[BundleIdBits] + LowBits(blob.id, BundleIdBits)
  <2> HIDE DEF n1
  <2> QED BY <1>3, <1>6, PutField
<1>8. n3 \in Nat /\ n3 = n2 * TwoTo[NumBitsBits] + LowBits(blob.numBits, NumBitsBits)
  <2> HIDE DEF n2
  <2> QED BY <1>3, <1>7, PutField
<1>9. n4 \in Nat /\ n4 = n3 * TwoTo[1] + LowBits(last, 1)
  <2> HIDE DEF n3, last
  <2> QED BY <1>3, <1>4, <1>8, PutField
<1>10. n5 \in Nat /\ n5 = n4 * TwoTo[IdxBits] + LowBits(blob.idx, IdxBits)
  <2> HIDE DEF n4
  <2> QED BY <1>3, <1>9, PutField
<1>11. EncodeHeader(blob) = n5
  <2> HIDE DEF n1, n2, n3, n4, n5, last
  <2> QED BY <1>6, <1>7, <1>8, <1>9, <1>10 DEF EncodeHeader, last
<1>12. HighPart(n5, n5, 0)
  <2> HIDE DEF n5
  <2>1. TwoTo[0] = 1 /\ n5 = n5 * 1 + 0 /\ 0 \in 0..(1 - 1)
    BY <1>10, PowersOfTwo
  <2> QED BY <2>1 DEF HighPart
<1>13. /\ Follows(n5, n4, blob.idx, IdxBits) /\ Follows(n4, n3, last, 1)
       /\ Follows(n3, n2, blob.numBits, NumBitsBits) /\ Follows(n2, n1, blob.id, BundleIdBits)
       /\ Follows(n1, 0, 1, VersionBits)
  BY DEF Follows
<1>14. /\ Fits(blob.idx, IdxBits) /\ Fits(last, 1) /\ Fits(blob.numBits, NumBitsBits)
       /\ Fits(blob.id, BundleIdBits) /\ Fits(1, VersionBits)
  BY <1>4, <1>5 DEF Fits
<1> HIDE DEF n1, n2, n3, n4, n5, last, P1, P2, P3, P4
<1>15. FieldAt(n5, IdxBits, 0) = blob.idx /\ HighPart(n5, n4, P4)
  <2>1. /\ 0 \in Nat /\ IdxBits \in Nat /\ P4 \in 0..HeaderBits /\ P4 = 0 + IdxBits
        /\ n4 \in Nat /\ n5 \in Nat
    BY <1>1, <1>2, <1>3, <1>6, <1>7, <1>8, <1>9, <1>10
  <2> QED BY <1>13, <1>14, <1>12, <2>1, ReadField
<1>16. FieldAt(n5, 1, P4) = last /\ HighPart(n5, n3, P3)
  <2>1. /\ P4 \in Nat /\ 1 \in Nat /\ P3 \in 0..HeaderBits /\ P3 = P4 + 1
        /\ n3 \in Nat /\ n4 \in Nat
    BY <1>1, <1>2, <1>3, <1>6, <1>7, <1>8, <1>9, <1>10
  <2> QED BY <1>13, <1>14, <1>15, <2>1, ReadField
<1>17. FieldAt(n5, NumBitsBits, P3) = blob.numBits /\ HighPart(n5, n2, P2)
  <2>1. /\ P3 \in Nat /\ NumBitsBits \in Nat /\ P2 \in 0..HeaderBits /\ P2 = P3 + NumBitsBits
        /\ n2 \in Nat /\ n3 \in Nat
    BY <1>1, <1>2, <1>3, <1>6, <1>7, <1>8, <1>9, <1>10
  <2> QED BY <1>13, <1>14, <1>16, <2>1, ReadField
<1>18. FieldAt(n5, BundleIdBits, P2) = blob.id /\ HighPart(n5, n1, P1)
  <2>1. /\ P2 \in Nat /\ BundleIdBits \in Nat /\ P1 \in 0..HeaderBits /\ P1 = P2 + BundleIdBits
        /\ n1 \in Nat /\ n2 \in Nat
    BY <1>1, <1>2, <1>3, <1>6, <1>7, <1>8, <1>9, <1>10
  <2> QED BY <1>13, <1>14, <1>17, <2>1, ReadField
<1>19. FieldAt(n5, VersionBits, P1) = 1 /\ HighPart(n5, 0, HeaderBits)
  <2>1. /\ P1 \in Nat /\ VersionBits \in Nat /\ HeaderBits \in 0..HeaderBits /\ HeaderBits = P1 + VersionBits
        /\ 0 \in Nat /\ n1 \in Nat
    BY <1>1, <1>2, <1>3, <1>6, <1>7, <1>8, <1>9, <1>10
  <2> QED BY <1>13, <1>14, <1>18, <2>1, ReadField
<1>20. DecodeHeader(n5) = {[id |-> blob.id, numBits |-> blob.numBits, isLast |-> last = 1, idx |-> blob.idx]}
  <2>1. FieldAt(n5, VersionBits, HeaderBits - VersionBits) = 1
    BY <1>19 DEF P1
  <2> QED BY <1>15, <1>16, <1>17, <1>18, <2>1 DEF DecodeHeader, FieldAt, P2, P3, P4
<1>21. (last = 1) = blob.isLast
  BY <1>4
<1> QED BY <1>11, <1>20, <1>21

-----------------------------------------------------------------------------
(* The number of blobs, foreseen and real.                                 *)

LEMMA CountsAreForeseen ==
  ASSUME NEW numBytes \in Nat \ {0}
  PROVE  /\ numBytes * BitsPerByte \in Nat \ {0}
         /\ CountOf(numBytes * BitsPerByte) \in Nat \ {0}
         /\ CountOf(numBytes * BitsPerByte) <= BlobsNeeded(numBytes)
         /\ BlobsNeeded(numBytes) \in Nat
<1> DEFINE C == DataBitsPerBlob
           w == C \div BitsPerByte
           y == BlobsNeeded(numBytes)
           len == numBytes * BitsPerByte
           q == CountOf(len)
<1>1. C \in Nat \ {0} /\ BitsPerByte \in Nat \ {0} /\ BitsPerByte <= C
  BY Sizes, HeaderAssumption
<1>2. w \in Nat /\ w * BitsPerByte <= C /\ C < (w + 1) * BitsPerByte
  <2> HIDE DEF C
  <2> QED BY <1>1, Quotient
<1>3. w # 0
  <2>1. (0 + 1) * BitsPerByte = BitsPerByte
    BY <1>1
  <2> HIDE DEF w
  <2> QED BY <1>1, <1>2, <2>1
<1>4. y = (numBytes + w - 1) \div w
  BY DEF BlobsNeeded
<1> DEFINE x == numBytes + w - 1
<1>5. x \in Nat
  <2> HIDE DEF w
  <2> QED BY <1>2, <1>3
<1>6. y \in Nat /\ x < (y + 1) * w
  <2> HIDE DEF x, w, y
  <2> QED BY <1>2, <1>3, <1>4, <1>5, Quotient DEF x
<1>7. numBytes <= y * w
  <2>1. (y + 1) * w = y * w + w /\ y * w \in Nat
    <3> HIDE DEF y, w
    <3> QED BY <1>2, <1>6, ProductGrows
  <2>2. x = numBytes + w - 1
    OBVIOUS
  <2> HIDE DEF x, y, w
  <2> QED BY <1>2, <1>6, <2>1, <2>2
<1>8. len \in Nat \ {0}
  <2>1. 1 * BitsPerByte <= numBytes * BitsPerByte /\ numBytes * BitsPerByte \in Nat
    BY <1>1, ProductGrows, Multiples
  <2> QED BY <1>1, <2>1
<1>9. len <= y * C
  <2> HIDE DEF y, w, C
  <2>1. numBytes * BitsPerByte <= (y * w) * BitsPerByte
    <3>1. y * w \in Nat
      BY <1>2, <1>6, ProductGrows
    <3> QED BY <1>1, <1>7, <3>1, ProductGrows
  <2>2. (y * w) * BitsPerByte = y * (w * BitsPerByte)
    BY <1>1, <1>2, <1>6
  <2>3. y * (w * BitsPerByte) <= y * C
    <3>1. w * BitsPerByte \in Nat
      BY <1>1, <1>2, ProductGrows
    <3> QED BY <1>1, <1>2, <1>6, <3>1, ProductGrows
  <2> DEFINE a == (y * w) * BitsPerByte
             b == y * C
  <2>4. len <= a /\ a <= b
    BY <2>1, <2>2, <2>3
  <2>5. a \in Nat /\ b \in Nat
    <3>1. y * w \in Nat
      BY <1>2, <1>6, ProductGrows
    <3> QED BY <1>1, <1>6, <3>1, ProductGrows
  <2> HIDE DEF a, b, len
  <2>6. len <= b
    BY <1>8, <2>4, <2>5
  <2> QED BY <2>6 DEF b
<1>10. q \in Nat \ {0} /\ q <= y
  <2> DEFINE z == len + C - 1
  <2>1. z \in Nat /\ q = z \div C /\ C <= z
    <3>1. q = z \div C
      BY DEF CountOf
    <3> HIDE DEF len, C, q
    <3> QED BY <1>1, <1>8, <3>1
  <2>2. q \in Nat /\ q * C <= z /\ z < (q + 1) * C
    <3> HIDE DEF z, q, C
    <3> QED BY <1>1, <2>1, Quotient
  <2>3. q # 0
    <3>1. SUFFICES ASSUME q = 0 PROVE FALSE
      OBVIOUS
    <3>2. (q + 1) * C = C
      BY <1>1, <3>1
    <3> HIDE DEF q, z, C
    <3> QED BY <1>1, <2>1, <2>2, <3>2
  <2>4. q <= y
    <3>1. SUFFICES ASSUME y + 1 <= q PROVE FALSE
      <4> HIDE DEF q, y
      <4> QED BY <1>6, <2>2
    <3> HIDE DEF q, y, C
    <3>2. (y + 1) * C <= q * C
      BY <1>1, <1>6, <2>2, <3>1, ProductGrows
    <3>3. (y + 1) * C = y * C + C /\ y * C \in Nat /\ q * C \in Nat
      BY <1>1, <1>6, <2>2, ProductGrows
    <3>4. z = len + C - 1
      OBVIOUS
    <3> HIDE DEF z, len
    <3> QED BY <1>1, <1>8, <1>9, <2>1, <2>2, <3>2, <3>3, <3>4
  <2> QED BY <2>2, <2>3, <2>4
<1> QED BY <1>6, <1>8, <1>10

\* The lengths there are, in bits: their blobs have room in a header.
LEMMA LengthsFit ==
  ASSUME StorageInv, NEW b \in BundleIds, length[b] # 0
  PROVE  /\ length[b] \in Nat \ {0} /\ CountOf(length[b]) \in Nat \ {0}
         /\ CountOf(length[b]) <= TwoTo[IdxBits]
         /\ \E numBytes \in BundleLengths : length[b] = numBytes * BitsPerByte
<1>1. PICK numBytes \in BundleLengths : length[b] = numBytes * BitsPerByte
  BY DEF StorageInv
<1>2. numBytes \in Nat \ {0} /\ BlobsNeeded(numBytes) <= TwoTo[IdxBits]
  BY CodecAssumption, HeaderAssumption
<1>3. TwoTo[IdxBits] \in Nat
  <2>1. IdxBits \in 0..HeaderBits
    BY CodecAssumption DEF HeaderBits
  <2> QED BY <2>1, PowersOfTwo
<1>4. /\ length[b] \in Nat \ {0} /\ CountOf(length[b]) \in Nat \ {0}
      /\ CountOf(length[b]) <= BlobsNeeded(numBytes) /\ BlobsNeeded(numBytes) \in Nat
  BY <1>1, <1>2, CountsAreForeseen
<1> QED BY <1>1, <1>2, <1>3, <1>4

\* A blob has its share of the bits.
LEMMA SharesInBlob ==
  ASSUME NEW len \in Nat \ {0}, NEW i \in Nat, i < CountOf(len)
  PROVE  /\ ShareOf(len, i) \in 1..DataBitsPerBlob
         /\ i + 1 = CountOf(len) => ShareOf(len, i) = len - i * DataBitsPerBlob
         /\ i + 1 # CountOf(len) => ShareOf(len, i) = DataBitsPerBlob
<1> DEFINE C == DataBitsPerBlob
           z == len + C - 1
           q == CountOf(len)
<1>1. C \in Nat \ {0}
  BY Sizes
<1>2. z \in Nat /\ q = z \div C
  <2>1. q = z \div C
    BY DEF CountOf
  <2> HIDE DEF C, q
  <2> QED BY <1>1, <2>1
<1>3. q \in Nat /\ q * C <= z /\ z < (q + 1) * C
  <2> HIDE DEF z, q, C
  <2> QED BY <1>1, <1>2, Quotient
<1> DEFINE m == q - 1
<1>4. m \in Nat /\ q = m + 1
  <2> HIDE DEF q
  <2> QED BY <1>3 DEF q
<1> DEFINE k == len - m * C
<1>5. k \in 1..C /\ len = m * C + k
  <2> HIDE DEF q, m
  <2>1. (m + 1) * C = m * C + C /\ m * C \in Nat
    <3> HIDE DEF C
    <3> QED BY <1>1, <1>4, ProductGrows
  <2>2. (q + 1) * C = q * C + C
    <3> HIDE DEF C
    <3> QED BY <1>1, <1>3
  <2> DEFINE a == m * C
  <2>3. q * C = a + C
    BY <1>4, <2>1
  <2>4. a \in Nat /\ a + C <= z /\ z < a + C + C
    BY <1>3, <2>1, <2>2, <2>3
  <2>5. z = len + C - 1 /\ k = len - a
    OBVIOUS
  <2> HIDE DEF a, z, k, C
  <2>6. k \in 1..C /\ len = a + k
    BY <1>1, <2>4, <2>5
  <2> QED BY <2>6 DEF a
<1>6. \A j \in 1..q : ShareOf(len, j - 1) = IF j = q THEN k ELSE C
  <2>1. q \in Nat \ {0} /\ len = (q - 1) * DataBitsPerBlob + k /\ k \in 1..DataBitsPerBlob
    BY <1>3, <1>4, <1>5
  <2> HIDE DEF q, k
  <2>2. /\ CountOf(len) = q
        /\ \A j \in 1..q : ShareOf(len, j - 1) = IF j = q THEN k ELSE DataBitsPerBlob
    BY <2>1, Spread
  <2> QED BY <2>2
<1>7. i + 1 \in 1..q /\ (i + 1) - 1 = i
  <2> HIDE DEF q
  <2> QED BY <1>3 DEF q
<1>8. ShareOf(len, i) = IF i + 1 = q THEN k ELSE C
  <2> HIDE DEF q, k, C
  <2> QED BY <1>6, <1>7
<1>9. i + 1 = q => i = m
  <2> HIDE DEF q
  <2> QED BY <1>4
<1> QED BY <1>1, <1>5, <1>8, <1>9

LEMMA BlobsFit ==
  ASSUME StorageInv, NEW blob, GoodBlob(blob)
  PROVE  /\ blob.id \in 0..(TwoTo[BundleIdBits] - 1) /\ blob.numBits \in 0..(TwoTo[NumBitsBits] - 1)
         /\ blob.idx \in 0..(TwoTo[IdxBits] - 1) /\ blob.isLast \in BOOLEAN
         /\ blob.numBits \in 1..BitsPerBlob /\ (~blob.isLast => blob.numBits = BitsPerBlob)
         /\ HeaderBits + ShareOf(length[blob.id], blob.idx) <= blob.numBits
         /\ ShareOf(length[blob.id], blob.idx) \in 1..DataBitsPerBlob
<1> DEFINE len == length[blob.id]
           share == ShareOf(len, blob.idx)
<1>1. /\ blob.id \in BundleIds /\ blob.numBits \in Nat /\ blob.isLast \in BOOLEAN /\ blob.idx \in Nat
      /\ len > 0 /\ blob.idx < CountOf(len) /\ (blob.isLast <=> blob.idx + 1 = CountOf(len))
      /\ blob.numBits = Offset(share) + 1
  BY DEF GoodBlob
<1>2. len \in Nat \ {0} /\ CountOf(len) \in Nat \ {0} /\ CountOf(len) <= TwoTo[IdxBits]
  <2>1. len # 0
    BY <1>1
  <2> QED BY <1>1, <2>1, LengthsFit
<1>3. share \in 1..DataBitsPerBlob /\ (~blob.isLast => share = DataBitsPerBlob)
  <2> HIDE DEF len
  <2> QED BY <1>1, <1>2, SharesInBlob
<1>4. Offset(share) \in 2..(BitsPerBlob - 1) /\ HeaderBits + share <= Offset(share) + 1
  <2> HIDE DEF share
  <2> QED BY <1>3, OffsetInBlob
<1>5. blob.numBits \in 1..BitsPerBlob /\ (~blob.isLast => blob.numBits = BitsPerBlob)
  <2> HIDE DEF share
  <2> QED BY <1>1, <1>3, <1>4, LastOffset, Sizes
<1>6. {BundleIdBits, NumBitsBits, IdxBits} \subseteq 0..HeaderBits
  BY CodecAssumption DEF HeaderBits
<1>7. {TwoTo[BundleIdBits], TwoTo[NumBitsBits], TwoTo[IdxBits]} \subseteq Nat \ {0}
  BY <1>6, PowersOfTwo
<1>8. BitsPerBlob < TwoTo[NumBitsBits] /\ blob.id \in 1..(TwoTo[BundleIdBits] - 1)
  BY <1>1, HeaderAssumption
<1>9. blob.idx \in 0..(TwoTo[IdxBits] - 1)
  <2> HIDE DEF len
  <2> QED BY <1>1, <1>2, <1>7
<1>10. blob.numBits \in 0..(TwoTo[NumBitsBits] - 1) /\ blob.id \in 0..(TwoTo[BundleIdBits] - 1)
  BY <1>5, <1>7, <1>8, Sizes
<1> QED BY <1>1, <1>3, <1>4, <1>5, <1>9, <1>10

-----------------------------------------------------------------------------
(* Fragments on their way to the decoder.                                  *)

LEMMA HeaderOfBlob ==
  ASSUME StorageInv, NEW blob, GoodBlob(blob)
  PROVE  DecodeHeader(EncodeHeader(blob)) =
           {[id |-> blob.id, numBits |-> blob.numBits, isLast |-> blob.isLast, idx |-> blob.idx]}
BY BlobsFit, HeaderReadBack

LEMMA ConcatKeeps ==
  ASSUME NEW s \in Seq(Int), NEW t \in Seq(Int)
  PROVE  s \o t \in Seq(Int) /\ Len(s \o t) = Len(s) + Len(t) /\ \A i \in 1..Len(s) : (s \o t)[i] = s[i]
<1>1. /\ s \o t \in Seq(Int) /\ Len(s \o t) = Len(s) + Len(t)
      /\ \A i \in 1..(Len(s) + Len(t)) : (s \o t)[i] = IF i <= Len(s) THEN s[i] ELSE t[i - Len(s)]
  BY ConcatProperties
<1>2. Len(s) \in Nat /\ Len(t) \in Nat
  OBVIOUS
<1>3. \A i \in 1..Len(s) : i \in 1..(Len(s) + Len(t)) /\ i <= Len(s)
  BY <1>2
<1> QED BY <1>1, <1>3

LEMMA FrontKeeps ==
  ASSUME NEW s, NEW n \in Nat, \A i \in 1..n : s[i] \in Int
  PROVE  \A i \in 1..n : SubSeq(s, 1, n)[i] = s[i]
<1>1. \A i \in 1..(n - 1 + 1) : SubSeq(s, 1, n)[i] = s[1 + i - 1]
  BY SubSeqProperties
<1> QED BY <1>1

LEMMA SidecarBits ==
  ASSUME NEW blob, blob.bits \in BlobBits
  PROVE  SidecarOf(FragmentOf(blob)).bits = blob.bits
<1> DEFINE front == [i \in 1..BitsPerBlob |-> blob.bits[i - 1]]
           data == front \o Commitment \o Proof
<1>1. BitsPerBlob \in Nat \ {0} /\ ProofSize \in Nat
  BY Sizes, CodecAssumption
<1>2. front \in Seq(Int) /\ Len(front) = BitsPerBlob
  <2>1. \A i \in 1..BitsPerBlob : blob.bits[i - 1] \in Int
    BY <1>1 DEF BlobBits
  <2> QED BY <1>1, <2>1
<1>3. Commitment \in Seq(Int) /\ Proof \in Seq(Int)
  BY <1>1 DEF Commitment, Proof
<1>4. /\ front \o Commitment \in Seq(Int) /\ Len(front \o Commitment) = Len(front) + Len(Commitment)
      /\ \A i \in 1..Len(front) : (front \o Commitment)[i] = front[i]
  <2> HIDE DEF front
  <2> QED BY <1>2, <1>3, ConcatKeeps
<1>5. data \in Seq(Int) /\ \A i \in 1..BitsPerBlob : data[i] = front[i]
  <2> DEFINE two == front \o Commitment
  <2>1. two \in Seq(Int) /\ Len(two) = BitsPerBlob + Len(Commitment) /\ Len(Commitment) \in Nat
    <3> HIDE DEF front
    <3> QED BY <1>2, <1>3, <1>4
  <2>2. \A i \in 1..BitsPerBlob : two[i] = front[i]
    <3> HIDE DEF front
    <3> QED BY <1>2, <1>4
  <2>3. data = two \o Proof
    OBVIOUS
  <2> HIDE DEF two, front, data
  <2>4. two \o Proof \in Seq(Int) /\ \A i \in 1..Len(two) : (two \o Proof)[i] = two[i]
    BY <1>3, <2>1, ConcatKeeps
  <2>5. \A i \in 1..BitsPerBlob : i \in 1..Len(two)
    BY <1>1, <2>1
  <2> QED BY <2>2, <2>3, <2>4, <2>5
<1>6. FragmentOf(blob).data = data
  BY DEF FragmentOf
<1> DEFINE cut == SubSeq(data, 0 + 1, 0 + BitsPerBlob)
<1>7. SidecarOf(FragmentOf(blob)).bits = [offset \in 0..(BitsPerBlob - 1) |-> cut[offset + 1]]
  <2> HIDE DEF data
  <2> QED BY <1>6 DEF SidecarOf
<1>8. ASSUME NEW offset \in 0..(BitsPerBlob - 1) PROVE cut[offset + 1] = blob.bits[offset]
  <2>1. offset + 1 \in 1..BitsPerBlob /\ (offset + 1) - 1 = offset
    BY <1>1
  <2>2. data[offset + 1] = front[offset + 1] /\ front[offset + 1] = blob.bits[offset]
    BY <1>5, <2>1
  <2>3. cut[offset + 1] = data[offset + 1]
    <3> HIDE DEF data, front
    <3>1. 0 + 1 = 1 /\ 0 + BitsPerBlob = BitsPerBlob /\ \A i \in 1..BitsPerBlob : data[i] \in Int
      BY <1>1, <1>2, <1>5
    <3>2. \A i \in 1..BitsPerBlob : SubSeq(data, 1, BitsPerBlob)[i] = data[i]
      BY <1>1, <3>1, FrontKeeps
    <3>3. offset + 1 \in 1..BitsPerBlob
      BY <1>1
    <3>4. cut = SubSeq(data, 1, BitsPerBlob)
      BY <1>1
    <3> HIDE DEF cut
    <3> QED BY <3>2, <3>3, <3>4
  <2> QED BY <2>2, <2>3
<1>9. blob.bits = [offset \in 0..(BitsPerBlob - 1) |-> blob.bits[offset]]
  BY DEF BlobBits
<1> HIDE DEF cut
<1> QED BY <1>7, <1>8, <1>9

LEMMA DeliverStep ==
  ASSUME StorageInv, PublishedInv, Deliver
  PROVE  PublishedInv'
<1>1. PICK blob \in published :
        LET sidecar == SidecarOf(FragmentOf(blob))
        IN  \E header \in DecodeHeader(sidecar.header) :
              delivered' = Append(delivered, [id |-> header.id, numBits |-> header.numBits, isLast |-> header.isLast,
                                              idx |-> header.idx, bits |-> sidecar.bits])
  BY DEF Deliver
<1>2. GoodBlob(blob) /\ blob \in [id : BundleIds, numBits : Nat, isLast : BOOLEAN, idx : Nat, bits : BlobBits]
  BY DEF PublishedInv, GoodBlob
<1>3. SidecarOf(FragmentOf(blob)).header = EncodeHeader(blob)
  BY DEF SidecarOf, FragmentOf
<1>4. SidecarOf(FragmentOf(blob)).bits = blob.bits
  BY <1>2, SidecarBits
<1> DEFINE h == [id |-> blob.id, numBits |-> blob.numBits, isLast |-> blob.isLast, idx |-> blob.idx]
           same == [id |-> blob.id, numBits |-> blob.numBits, isLast |-> blob.isLast, idx |-> blob.idx,
                    bits |-> blob.bits]
<1>5. DecodeHeader(EncodeHeader(blob)) = {h}
  BY <1>2, HeaderOfBlob
<1>6. delivered' = Append(delivered, [id |-> h.id, numBits |-> h.numBits, isLast |-> h.isLast,
                                      idx |-> h.idx, bits |-> blob.bits])
  <2> HIDE DEF h
  <2> QED BY <1>1, <1>3, <1>4, <1>5
<1>7. same = blob
  BY <1>2
<1>8. delivered' = Append(delivered, same)
  BY <1>6
<1>9. delivered' = Append(delivered, blob)
  <2> HIDE DEF same
  <2> QED BY <1>7, <1>8
<1>10. delivered' \in Seq(published)
  <2>1. delivered \in Seq(published)
    BY DEF PublishedInv
  <2> QED BY <1>9, <2>1
<1>11. published' = published /\ length' = length /\ encoding' = encoding
  BY DEF Deliver
<1> QED BY <1>10, <1>11 DEF PublishedInv, GoodBlob

-----------------------------------------------------------------------------
(* The invariant of the codec.                                             *)

CodecInv == StorageInv /\ EncoderInv /\ PublishedInv

LEMMA InitCodec == CodecInit => CodecInv
<1>1. SUFFICES ASSUME CodecInit PROVE CodecInv
  OBVIOUS
<1>2. StorageInv
  <2>1. storage = <<>> /\ bitCounter = 0 /\ 0 \in 0..(BitsPerBlob * 0)
    BY <1>1, Sizes DEF CodecInit
  <2> QED BY <1>1, <2>1 DEF CodecInit, StorageInv
<1>3. EncoderInv
  BY <1>1 DEF CodecInit, EncoderInv
<1>4. PublishedInv
  <2>1. IsFiniteSet({}) /\ <<>> \in Seq({})
    BY FS_EmptySet
  <2> QED BY <1>1, <2>1 DEF CodecInit, PublishedInv
<1> QED BY <1>2, <1>3, <1>4 DEF CodecInv

LEMMA StartEncodingStep == ASSUME CodecInv, StartEncoding PROVE CodecInv'
<1>1. PICK b \in BundleIds, numBytes \in BundleLengths :
        length[b] = 0 /\ encoding' = b /\ length' = [length EXCEPT ![b] = numBytes * BitsPerByte]
  BY DEF StartEncoding
<1>2. /\ encoding = NoBundleId /\ ingested' = 0 /\ bitCounter' = 0 /\ storage' = <<>>
      /\ published' = published /\ delivered' = delivered
  BY DEF StartEncoding
<1>3. length \in [BundleIds -> Nat] /\ numBytes \in Nat \ {0}
  BY CodecAssumption DEF CodecInv, StorageInv
<1>4. numBytes * BitsPerByte \in Nat \ {0}
  BY <1>3, CountsAreForeseen
<1> DEFINE bits == numBytes * BitsPerByte
<1>5. length' \in [BundleIds -> Nat] /\ length'[b] = bits /\ \A c \in BundleIds : c # b => length'[c] = length[c]
  <2>1. bits \in Nat
    BY <1>4
  <2>2. length' = [length EXCEPT ![b] = bits]
    BY <1>1
  <2> HIDE DEF bits
  <2> QED BY <1>3, <2>1, <2>2
<1>6. StorageInv'
  <2>1. storage' \in Seq(BlobBits) /\ bitCounter' \in 0..(BitsPerBlob * Len(storage'))
    <3>1. 0 \in 0..(BitsPerBlob * 0) /\ Len(<<>>) = 0 /\ <<>> \in Seq(BlobBits)
      BY Sizes
    <3> QED BY <1>2, <3>1
  <2>2. ASSUME NEW c \in BundleIds
        PROVE  length'[c] = 0 \/ \E n \in BundleLengths : length'[c] = n * BitsPerByte
    <3>1. length[c] = 0 \/ \E n \in BundleLengths : length[c] = n * BitsPerByte
      BY DEF CodecInv, StorageInv
    <3> QED BY <1>5, <3>1
  <2> QED BY <1>1, <1>5, <2>1, <2>2 DEF StorageInv, BlobBits
<1>7. EncoderInv'
  <2>1. length'[encoding'] \in Nat \ {0}
    BY <1>1, <1>4, <1>5
  <2>2. Stored(<<>>, 0)
    BY DEF Stored
  <2>3. ingested' \in 0..length'[encoding'] /\ length'[encoding'] > 0
    BY <1>2, <2>1
  <2> QED BY <1>2, <2>2, <2>3 DEF EncoderInv, Stored
<1>8. PublishedInv'
  <2>1. ASSUME NEW blob \in published PROVE blob.id \in BundleIds /\ blob.id # b /\ length'[blob.id] = length[blob.id]
    <3>1. GoodBlob(blob)
      BY DEF CodecInv, PublishedInv
    <3>2. blob.id \in BundleIds /\ length[blob.id] > 0
      BY <3>1 DEF GoodBlob
    <3>3. blob.id # b
      BY <1>1, <1>3, <3>2
    <3> QED BY <1>5, <3>2, <3>3
  <2>2. ASSUME NEW blob \in published PROVE GoodBlob(blob)'
    <3>1. GoodBlob(blob)
      BY DEF CodecInv, PublishedInv
    <3> QED BY <1>1, <2>1, <3>1 DEF GoodBlob
  <2>3. PublishedInv
    BY DEF CodecInv
  <2> QED BY <1>2, <2>1, <2>2, <2>3 DEF PublishedInv
<1> QED BY <1>6, <1>7, <1>8 DEF CodecInv

LEMMA NextCodec == CodecInv /\ [CodecNext]_codecVars => CodecInv'
<1> SUFFICES ASSUME CodecInv, [CodecNext]_codecVars PROVE CodecInv'
  OBVIOUS
<1>1. ASSUME Ingest PROVE CodecInv'
  <2>1. StorageInv' /\ EncoderInv'
    BY <1>1, IngestStep DEF CodecInv
  <2>2. PublishedInv'
    <3>1. published' = published /\ delivered' = delivered /\ length' = length /\ encoding' = encoding
      BY <1>1 DEF Ingest
    <3> QED BY <3>1 DEF CodecInv, PublishedInv, GoodBlob
  <2> QED BY <2>1, <2>2 DEF CodecInv
<1>2. ASSUME Finalize PROVE CodecInv'
  <2>1. PublishedInv'
    BY <1>2, FinalizeStep DEF CodecInv
  <2>2. /\ length' = length /\ encoding' = NoBundleId /\ storage' = storage /\ bitCounter' = bitCounter
    BY <1>2 DEF Finalize
  <2> QED BY <2>1, <2>2 DEF CodecInv, StorageInv, EncoderInv
<1>3. ASSUME Deliver PROVE CodecInv'
  <2>1. PublishedInv'
    BY <1>3, DeliverStep DEF CodecInv
  <2>2. /\ length' = length /\ encoding' = encoding /\ storage' = storage /\ bitCounter' = bitCounter
        /\ ingested' = ingested
    BY <1>3 DEF Deliver
  <2> QED BY <2>1, <2>2 DEF CodecInv, StorageInv, EncoderInv, StoredUpTo, Stored
<1>4. ASSUME UNCHANGED codecVars PROVE CodecInv'
  BY <1>4 DEF codecVars, CodecInv, StorageInv, EncoderInv, PublishedInv, GoodBlob, StoredUpTo, Stored
<1> QED BY <1>1, <1>2, <1>3, <1>4, StartEncodingStep DEF CodecNext

\* The blobs that the encoder makes of a bundle have its bits one after the other, each at
\* the offset where the decoder reads it, all full but the last one, and their headers say
\* so; what is delivered is some of them (blob/encoder.rs, blob/decoder.rs, header.rs).
THEOREM CodecInvariance == CodecSpec => []CodecInv
<1>1. CodecInit => CodecInv
  BY InitCodec
<1>2. CodecInv /\ [CodecNext]_codecVars => CodecInv'
  BY NextCodec
<1> QED BY <1>1, <1>2, PTL DEF CodecSpec

-----------------------------------------------------------------------------
(* The blobs of a bundle: one at each index.                               *)

LEMMA BlobsOfBundle ==
  ASSUME CodecInv, NEW b \in BundleIds, BlobsOf(b) # {}
  PROVE  /\ length[b] \in Nat \ {0} /\ CountOf(length[b]) \in Nat \ {0}
         /\ \A blob \in BlobsOf(b) : GoodBlob(blob) /\ blob.id = b /\ blob.idx \in 0..(CountOf(length[b]) - 1)
         /\ \A i \in 0..(CountOf(length[b]) - 1) : \E blob \in BlobsOf(b) : blob.idx = i
         /\ \A x, y \in BlobsOf(b) : x.idx = y.idx => x = y
         /\ IsFiniteSet(BlobsOf(b)) /\ Cardinality(BlobsOf(b)) = CountOf(length[b])
         /\ \E numBytes \in BundleLengths : length[b] = numBytes * BitsPerByte
<1> DEFINE T == BlobsOf(b)
           n == CountOf(length[b])
<1>1. PICK first \in T : TRUE
  OBVIOUS
<1>2. T \subseteq published /\ \A blob \in T : blob.id = b
  BY DEF BlobsOf
<1>3. \A blob \in T : GoodBlob(blob)
  BY <1>2 DEF CodecInv, PublishedInv
<1>4. length[b] # 0
  <2>1. GoodBlob(first) /\ first.id = b
    BY <1>1, <1>2, <1>3
  <2> QED BY <2>1 DEF GoodBlob
<1>5. /\ length[b] \in Nat \ {0} /\ n \in Nat \ {0}
      /\ \E numBytes \in BundleLengths : length[b] = numBytes * BitsPerByte
  BY <1>4, LengthsFit DEF CodecInv
<1>6. \A blob \in T : blob.idx \in 0..(n - 1)
  <2>1. SUFFICES ASSUME NEW blob \in T PROVE blob.idx \in 0..(n - 1)
    OBVIOUS
  <2>2. blob.idx \in Nat /\ blob.idx < n
    BY <1>2, <1>3, <2>1 DEF GoodBlob
  <2> HIDE DEF n
  <2> QED BY <1>5, <2>2
<1>7. \A i \in 0..(n - 1) : \E blob \in T : blob.idx = i
  BY <1>1, <1>2 DEF CodecInv, PublishedInv, BlobsOf
<1>8. \A x, y \in T : x.idx = y.idx => x = y
  BY <1>2 DEF CodecInv, PublishedInv
<1>9. IsFiniteSet(T)
  <2>1. IsFiniteSet(published)
    BY DEF CodecInv, PublishedInv
  <2> HIDE DEF T
  <2> QED BY <1>2, <2>1, FS_Subset
<1>10. Cardinality(T) = n
  <2> DEFINE f == [blob \in T |-> blob.idx]
             S == 0..(n - 1)
  <2>1. f \in Surjection(T, S) /\ f \in Injection(T, S)
    <3>1. f \in [T -> S] /\ \A x \in T : f[x] = x.idx
      <4> HIDE DEF T, n
      <4> QED BY <1>6
    <3>2. \A i \in S : \E x \in T : f[x] = i
      <4> HIDE DEF T, f
      <4> QED BY <1>7, <3>1
    <3>3. \A x, y \in T : f[x] = f[y] => x = y
      <4> HIDE DEF T, f
      <4> QED BY <1>8, <3>1
    <3> HIDE DEF T, S, f
    <3> QED BY <3>1, <3>2, <3>3 DEF Surjection, Injection, IsInjective
  <2>2. Cardinality(S) = n
    <3>1. n - 1 \in Int /\ 0 \in Int /\ ~(0 > n - 1) /\ (n - 1) - 0 + 1 = n
      <4> HIDE DEF n
      <4> QED BY <1>5
    <3> HIDE DEF n
    <3> QED BY <3>1, FS_Interval
  <2>3. Cardinality(S) = Cardinality(T)
    <3> HIDE DEF S, T, f
    <3> QED BY <1>9, <2>1, FS_Surjection
  <2> QED BY <2>2, <2>3
<1> QED BY <1>2, <1>3, <1>5, <1>6, <1>7, <1>8, <1>9, <1>10

\* Indices are told apart, and no counter passes its bound: what the type invariant says.
LEMMA CodecTypes == CodecInv => CodecTypeOK
<1>1. SUFFICES ASSUME CodecInv PROVE CodecTypeOK
  OBVIOUS
<1>2. /\ length \in [BundleIds -> Nat] /\ encoding \in BundleIds \cup {NoBundleId}
      /\ bitCounter \in 0..(BitsPerBlob * Len(storage)) /\ storage \in Seq(BlobBits)
  BY <1>1 DEF CodecInv, StorageInv
<1>3. \A i \in DOMAIN storage : storage[i] \in [0..(BitsPerBlob - 1) -> Nat]
  BY <1>2 DEF BlobBits
<1>4. Cardinality({<<b.id, b.idx>> : b \in published}) = Cardinality(published)
  <2> DEFINE S == {<<b.id, b.idx>> : b \in published}
             f == [b \in published |-> <<b.id, b.idx>>]
  <2>1. f \in Surjection(published, S)
    BY DEF Surjection
  <2>2. f \in Injection(published, S)
    <3>1. ASSUME NEW x \in published, NEW y \in published, f[x] = f[y] PROVE x = y
      <4>0. f[x] = <<x.id, x.idx>> /\ f[y] = <<y.id, y.idx>>
        OBVIOUS
      <4>1. x.id = y.id /\ x.idx = y.idx
        <5> HIDE DEF f
        <5>1. <<x.id, x.idx>> = <<y.id, y.idx>>
          BY <3>1, <4>0
        <5> QED BY <5>1
      <4>2. PublishedInv
        BY <1>1 DEF CodecInv
      <4>3. x = y
        <5> HIDE DEF f
        <5> QED BY <4>1, <4>2 DEF PublishedInv
      <4> QED BY <4>3
    <3> HIDE DEF f, S
    <3> QED BY <2>1, <3>1 DEF Surjection, Injection, IsInjective
  <2>3. IsFiniteSet(published)
    BY <1>1 DEF CodecInv, PublishedInv
  <2>4. Cardinality(S) = Cardinality(published)
    <3> HIDE DEF S, f
    <3> QED BY <2>1, <2>2, <2>3, FS_Surjection
  <2> QED BY <2>4
<1> QED BY <1>2, <1>3, <1>4 DEF CodecTypeOK

-----------------------------------------------------------------------------
(* What is foreseen and what is used.                                      *)

Used(blob) == FragmentOf(blob).total_bytes - FragmentOf(blob).unused_bytes

LEMMA UsedBytes ==
  ASSUME StorageInv, NEW blob, GoodBlob(blob)
  PROVE  /\ Used(blob) \in Nat /\ Used(blob) > 0
         /\ HeaderBits + ShareOf(length[blob.id], blob.idx) <= BitsPerByte * Used(blob)
         /\ FragmentOf(blob).unused_bytes > 0 => blob.isLast
<1> DEFINE h == [id |-> blob.id, numBits |-> blob.numBits, isLast |-> blob.isLast, idx |-> blob.idx]
           share == ShareOf(length[blob.id], blob.idx)
           t == BitsPerBlob \div BitsPerByte
           d == BitsPerBlob - blob.numBits
           v == d \div BitsPerByte
<1>1. DecodeHeader(EncodeHeader(blob)) = {h}
  BY HeaderOfBlob
<1>2. (CHOOSE x \in DecodeHeader(EncodeHeader(blob)) : TRUE).numBits = blob.numBits
  <2>1. (CHOOSE x \in {h} : TRUE) = h
    OBVIOUS
  <2>2. h.numBits = blob.numBits
    OBVIOUS
  <2> HIDE DEF h
  <2> QED BY <1>1, <2>1, <2>2
<1>3. FragmentOf(blob).total_bytes = t /\ FragmentOf(blob).unused_bytes = v
  BY <1>2 DEF FragmentOf
<1>4. /\ blob.numBits \in 1..BitsPerBlob /\ (~blob.isLast => blob.numBits = BitsPerBlob)
      /\ HeaderBits + share <= blob.numBits /\ share \in 1..DataBitsPerBlob
  BY BlobsFit
<1>5. BitsPerByte \in Nat \ {0} /\ BitsPerBlob \in Nat \ {0} /\ d \in Nat /\ BitsPerBlob % BitsPerByte = 0
  BY <1>4, Sizes, HeaderAssumption
<1>6. t \in Nat /\ BitsPerBlob = t * BitsPerByte
  <2>1. t \in Nat /\ BitsPerBlob = t * BitsPerByte + (BitsPerBlob % BitsPerByte)
    BY <1>5, HasDigits
  <2>2. t * BitsPerByte \in Nat
    <3> HIDE DEF t
    <3> QED BY <1>5, <2>1, ProductGrows
  <2> HIDE DEF t
  <2> QED BY <1>5, <2>1, <2>2
<1>7. v \in Nat /\ v * BitsPerByte <= d
  <2> HIDE DEF d
  <2> QED BY <1>5, Quotient
<1>8. t - v \in Nat \ {0} /\ blob.numBits <= BitsPerByte * (t - v)
  <2> DEFINE a == t * BitsPerByte
             c == v * BitsPerByte
  <2>1. a \in Nat /\ c \in Nat
    <3> HIDE DEF t, v
    <3> QED BY <1>5, <1>6, <1>7, ProductGrows
  <2>2. a - c >= blob.numBits
    <3>1. a = BitsPerBlob /\ c <= BitsPerBlob - blob.numBits
      BY <1>6, <1>7
    <3> HIDE DEF a, c
    <3> QED BY <1>4, <1>5, <2>1, <3>1
  <2>3. BitsPerByte * (t - v) = a - c
    <3> HIDE DEF t, v
    <3> QED BY <1>5, <1>6, <1>7
  <2>4. v < t
    <3>1. SUFFICES ASSUME t <= v PROVE FALSE
      <4> HIDE DEF t, v
      <4> QED BY <1>6, <1>7
    <3>2. a <= c
      <4> HIDE DEF t, v
      <4> QED BY <1>5, <1>6, <1>7, <3>1, ProductGrows
    <3> HIDE DEF a, c
    <3> QED BY <1>4, <1>5, <2>1, <2>2, <3>2
  <2>5. blob.numBits <= a - c
    <3> HIDE DEF a, c
    <3> QED BY <1>4, <1>5, <2>1, <2>2
  <2> HIDE DEF t, v, a, c
  <2> QED BY <1>6, <1>7, <2>3, <2>4, <2>5
<1>9. ~blob.isLast => v = 0
  <2>1. ~blob.isLast => d = 0
    BY <1>4, <1>5
  <2>2. 0 \div BitsPerByte = 0
    <3>1. (0 * BitsPerByte) \div BitsPerByte = 0
      BY <1>5, Multiples
    <3> QED BY <1>5, <3>1
  <2> HIDE DEF d
  <2> QED BY <2>1, <2>2
<1>10. Used(blob) = t - v
  BY <1>3 DEF Used
<1>11. HeaderBits + share <= BitsPerByte * (t - v)
  <2>1. BitsPerByte * (t - v) \in Nat
    <3> DEFINE u == t - v
    <3>1. u \in Nat
      BY <1>8
    <3> HIDE DEF u
    <3>2. BitsPerByte * u \in Nat
      BY <1>5, <3>1, ProductGrows
    <3> QED BY <3>2 DEF u
  <2> DEFINE z == BitsPerByte * (t - v)
  <2>2. HeaderBits + share <= blob.numBits /\ blob.numBits <= z /\ z \in Nat
    BY <1>4, <1>8, <2>1
  <2> HIDE DEF z, share
  <2>3. HeaderBits + share <= z
    BY <1>4, <1>5, <2>2, Sizes
  <2> QED BY <2>3 DEF z
<1>12. v > 0 => blob.isLast
  <2> HIDE DEF v
  <2> QED BY <1>4, <1>7, <1>9
<1> HIDE DEF t, v, share
<1> QED BY <1>3, <1>8, <1>10, <1>11, <1>12 DEF share

LEMMA UsedIsEnough ==
  ASSUME CodecInv, NEW b \in BundleIds, BlobsOf(b) # {}, NEW used,
         DOMAIN used = BlobsOf(b), \A blob \in BlobsOf(b) : used[blob] = Used(blob)
  PROVE  SumFunction(used) * BitsPerByte >= length[b] + HeaderBits * Cardinality(BlobsOf(b))
<1> DEFINE T == BlobsOf(b)
           len == length[b]
           n == CountOf(len)
           C == DataBitsPerBlob
           room == [blob \in T |-> HeaderBits + ShareOf(len, blob.idx)]
           bits == [blob \in T |-> BitsPerByte * used[blob]]
<1>1. /\ len \in Nat \ {0} /\ n \in Nat \ {0} /\ IsFiniteSet(T) /\ Cardinality(T) = n
      /\ \A blob \in T : GoodBlob(blob) /\ blob.id = b /\ blob.idx \in 0..(n - 1)
      /\ \A i \in 0..(n - 1) : \E blob \in T : blob.idx = i
      /\ \A x, y \in T : x.idx = y.idx => x = y
  BY BlobsOfBundle
<1>2. C \in Nat \ {0} /\ HeaderBits \in Nat /\ BitsPerByte \in Nat \ {0}
  BY Sizes
<1>3. ASSUME NEW blob \in T
      PROVE  /\ used[blob] \in Nat /\ bits[blob] = BitsPerByte * used[blob] /\ bits[blob] \in Nat
             /\ room[blob] \in Nat /\ room[blob] <= bits[blob]
             /\ blob.idx + 1 = n => room[blob] = HeaderBits + (len - blob.idx * C)
             /\ blob.idx + 1 # n => room[blob] = HeaderBits + C
  <2>1. GoodBlob(blob) /\ blob.id = b /\ blob.idx \in 0..(n - 1)
    BY <1>1
  <2>2. Used(blob) \in Nat /\ HeaderBits + ShareOf(len, blob.idx) <= BitsPerByte * Used(blob)
    BY <2>1, UsedBytes DEF CodecInv
  <2>3. blob.idx \in Nat /\ blob.idx < n
    <3> HIDE DEF n
    <3> QED BY <1>1, <2>1
  <2>4. /\ ShareOf(len, blob.idx) \in 1..C
        /\ blob.idx + 1 = n => ShareOf(len, blob.idx) = len - blob.idx * C
        /\ blob.idx + 1 # n => ShareOf(len, blob.idx) = C
    <3> HIDE DEF len
    <3> QED BY <1>1, <2>3, SharesInBlob
  <2>5. used[blob] \in Nat /\ BitsPerByte * used[blob] \in Nat
    <3>1. used[blob] \in Nat
      BY <2>2
    <3> QED BY <1>2, <3>1, ProductGrows
  <2>6. room[blob] = HeaderBits + ShareOf(len, blob.idx)
    OBVIOUS
  <2>7. room[blob] \in Nat
    <3> HIDE DEF room, C, len
    <3> QED BY <1>2, <2>4, <2>6
  <2> HIDE DEF n, C, len
  <2> QED BY <2>2, <2>4, <2>5, <2>6, <2>7
<1>4. PICK last \in T : last.idx = n - 1
  <2>1. n - 1 \in 0..(n - 1)
    <3> HIDE DEF n
    <3> QED BY <1>1
  <2> HIDE DEF n
  <2> QED BY <1>1, <2>1
<1> DEFINE rest == T \ {last}
<1>5. IsFiniteSet(rest) /\ Cardinality(rest) = n - 1
  <2> HIDE DEF T, n
  <2> QED BY <1>1, <1>4, FS_RemoveElement
<1>6. Summable(room, T) /\ Summable(room, rest) /\ Summable(bits, T) /\ Summable(used, T)
  <2> HIDE DEF room, bits, T
  <2> QED BY <1>1, <1>3, <1>5 DEF Summable
<1>7. SumFunctionOnSet(room, T) = room[last] + SumFunctionOnSet(room, rest)
  <2> HIDE DEF room, T
  <2> QED BY <1>4, <1>6, SumSplits
<1> DEFINE ones == [blob \in rest |-> 1]
<1>8. SumFunctionOnSet(ones, rest) = n - 1
  <2>1. \A blob \in rest : ones[blob] = 1
    OBVIOUS
  <2> HIDE DEF ones, rest
  <2> QED BY <1>5, <2>1, SumOfOnes
<1> DEFINE each == C + HeaderBits
<1>9. SumFunctionOnSet(room, rest) = each * (n - 1)
  <2>1. ASSUME NEW blob \in rest PROVE ones[blob] = 1 /\ room[blob] = each * ones[blob]
    <3>1. blob \in T /\ blob.idx # n - 1
      <4> HIDE DEF T, n
      <4> QED BY <1>1, <1>4
    <3>2. blob.idx + 1 # n
      <4>1. blob.idx \in 0..(n - 1)
        BY <1>1, <3>1
      <4> HIDE DEF n
      <4> QED BY <1>1, <3>1, <4>1
    <3>3. room[blob] = HeaderBits + C
      <4> HIDE DEF room, n, T
      <4> QED BY <1>3, <3>1, <3>2
    <3>4. ones[blob] = 1
      OBVIOUS
    <3> HIDE DEF ones, room, C
    <3> QED BY <1>2, <3>3, <3>4
  <2>2. each \in Nat
    <3> HIDE DEF C
    <3> QED BY <1>2
  <2>3. Summable(ones, rest)
    <3>1. \A blob \in rest : ones[blob] \in Nat
      OBVIOUS
    <3> HIDE DEF ones, rest
    <3> QED BY <1>5, <3>1 DEF Summable
  <2>4. SumFunctionOnSet(room, rest) = each * SumFunctionOnSet(ones, rest)
    <3> HIDE DEF ones, room, rest, each
    <3> QED BY <2>1, <2>2, <2>3, SumScales
  <2> QED BY <1>8, <2>4
<1>10. SumFunctionOnSet(room, T) <= SumFunctionOnSet(bits, T)
  <2> HIDE DEF room, bits, T
  <2> QED BY <1>3, <1>6, SumGrows
<1>11. SumFunctionOnSet(bits, T) = BitsPerByte * SumFunctionOnSet(used, T)
  <2> HIDE DEF bits, T
  <2> QED BY <1>2, <1>3, <1>6, SumScales
<1>12. room[last] = HeaderBits + (len - (n - 1) * C)
  <2>1. last.idx + 1 = n
    <3> HIDE DEF n
    <3> QED BY <1>1, <1>4
  <2> HIDE DEF room, n, C, len
  <2> QED BY <1>3, <1>4, <2>1
<1>13. SumFunctionOnSet(room, T) = len + HeaderBits * n
  <2> DEFINE m == n - 1
  <2>1. m \in Nat /\ n = m + 1 /\ len \in Nat
    <3> HIDE DEF n, len
    <3> QED BY <1>1
  <2>2. SumFunctionOnSet(room, T) = HeaderBits + (len - m * C) + each * m
    BY <1>7, <1>9, <1>12
  <2> HIDE DEF m, n, room, len, C
  <2>3. each * m = m * C + HeaderBits * m /\ HeaderBits * n = HeaderBits * m + HeaderBits
    <3>1. (C + HeaderBits) * m = m * C + HeaderBits * m
      BY <1>2, <2>1
    <3>2. HeaderBits * (m + 1) = HeaderBits * m + HeaderBits
      BY <1>2, <2>1
    <3> QED BY <2>1, <3>1, <3>2
  <2>4. m * C \in Nat /\ HeaderBits * m \in Nat
    BY <1>2, <2>1, ProductGrows
  <2> DEFINE a == m * C
             e == HeaderBits * m
             f == each * m
             g == HeaderBits * n
  <2>5. SumFunctionOnSet(room, T) = HeaderBits + (len - a) + f /\ f = a + e /\ g = e + HeaderBits
        /\ a \in Nat /\ e \in Nat
    BY <2>2, <2>3, <2>4
  <2> HIDE DEF a, e, f, g, T
  <2>6. SumFunctionOnSet(room, T) = len + g
    BY <1>2, <2>1, <2>5
  <2> QED BY <2>6 DEF g
<1> DEFINE total == SumFunctionOnSet(used, T)
<1>14. total \in Nat /\ total = SumFunction(used)
  <2>1. total \in Nat
    <3> HIDE DEF T
    <3> QED BY <1>6, SumType
  <2> QED BY <2>1 DEF SumFunction
<1>15. len + HeaderBits * n <= BitsPerByte * total
  BY <1>10, <1>11, <1>13
<1>16. BitsPerByte * total = total * BitsPerByte
  <2> HIDE DEF total
  <2> QED BY <1>2, <1>14
<1>17. Cardinality(T) = n
  BY <1>1
<1>18. total * BitsPerByte >= len + HeaderBits * n
  <2> DEFINE x == len + HeaderBits * n
             y == BitsPerByte * total
  <2>1. x \in Nat /\ y \in Nat
    <3>1. HeaderBits * n \in Nat /\ BitsPerByte * total \in Nat
      <4> HIDE DEF n, total
      <4> QED BY <1>1, <1>2, <1>14, ProductGrows
    <3> HIDE DEF n, len
    <3> QED BY <1>1, <3>1
  <2>2. x <= y
    BY <1>15
  <2>3. y >= x
    <3> HIDE DEF x, y
    <3> QED BY <2>1, <2>2
  <2>4. y = total * BitsPerByte
    BY <1>16
  <2>5. total * BitsPerByte >= x
    <3> HIDE DEF x, y, total
    <3> QED BY <2>3, <2>4
  <2> QED BY <2>5
<1> QED BY <1>14, <1>17, <1>18

\* The blobs foreseen, and paid for, are enough for those of a bundle; the bytes counted
\* as used have room for its data, and only the last blob has others (encoder.rs,
\* fragment creation).
THEOREM BlobsForeseenAreEnough == CodecSpec => []EnoughBlobsForeseen
<1>1. ASSUME CodecInv PROVE EnoughBlobsForeseen
  <2> SUFFICES ASSUME NEW b \in BundleIds
               PROVE  LET used == [blob \in BlobsOf(b) |-> FragmentOf(blob).total_bytes - FragmentOf(blob).unused_bytes]
                      IN  /\ Cardinality(BlobsOf(b)) <= BlobsNeeded(length[b] \div BitsPerByte)
                          /\ BlobsOf(b) # {} =>
                               SumFunction(used) * BitsPerByte >= length[b] + HeaderBits * Cardinality(BlobsOf(b))
                          /\ \A blob \in BlobsOf(b) :
                               used[blob] > 0 /\ (FragmentOf(blob).unused_bytes > 0 => blob.isLast)
    BY DEF EnoughBlobsForeseen
  <2> DEFINE used == [blob \in BlobsOf(b) |-> FragmentOf(blob).total_bytes - FragmentOf(blob).unused_bytes]
  <2>1. DOMAIN used = BlobsOf(b) /\ \A blob \in BlobsOf(b) : used[blob] = Used(blob)
    BY DEF Used
  <2>2. BlobsOf(b) # {} => SumFunction(used) * BitsPerByte >= length[b] + HeaderBits * Cardinality(BlobsOf(b))
    <3> HIDE DEF used
    <3> QED BY <1>1, <2>1, UsedIsEnough
  <2>3. ASSUME NEW blob \in BlobsOf(b)
        PROVE  used[blob] > 0 /\ (FragmentOf(blob).unused_bytes > 0 => blob.isLast)
    <3>1. GoodBlob(blob) /\ StorageInv
      BY <1>1 DEF BlobsOf, CodecInv, PublishedInv
    <3>2. Used(blob) > 0 /\ (FragmentOf(blob).unused_bytes > 0 => blob.isLast)
      BY <3>1, UsedBytes
    <3> HIDE DEF used
    <3> QED BY <2>1, <3>2
  <2>4. Cardinality(BlobsOf(b)) <= BlobsNeeded(length[b] \div BitsPerByte)
    <3>1. CASE BlobsOf(b) # {}
      <4>1. PICK numBytes \in BundleLengths : length[b] = numBytes * BitsPerByte
        BY <1>1, <3>1, BlobsOfBundle
      <4>2. numBytes \in Nat \ {0} /\ BitsPerByte \in Nat \ {0}
        BY CodecAssumption
      <4>3. length[b] \div BitsPerByte = numBytes
        BY <4>1, <4>2, Multiples
      <4>4. Cardinality(BlobsOf(b)) = CountOf(numBytes * BitsPerByte)
        BY <1>1, <3>1, <4>1, BlobsOfBundle
      <4> QED BY <4>2, <4>3, <4>4, CountsAreForeseen
    <3>2. CASE BlobsOf(b) = {}
      <4>1. Cardinality(BlobsOf(b)) = 0
        BY <3>2, FS_EmptySet
      <4>2. length[b] \in Nat
        BY <1>1 DEF CodecInv, StorageInv
      <4> DEFINE x == length[b] \div BitsPerByte
                 w == DataBitsPerBlob \div BitsPerByte
      <4>3. x \in Nat
        BY <4>2, Sizes, Quotient
      <4>4. DataBitsPerBlob \in Nat \ {0} /\ BitsPerByte \in Nat \ {0} /\ BitsPerByte <= DataBitsPerBlob
        BY Sizes, HeaderAssumption
      <4>5. w \in Nat /\ DataBitsPerBlob < (w + 1) * BitsPerByte
        BY <4>4, Quotient
      <4>6. w # 0
        <5>1. (0 + 1) * BitsPerByte = BitsPerByte
          BY <4>4
        <5> HIDE DEF w
        <5> QED BY <4>4, <4>5, <5>1
      <4>7. BlobsNeeded(x) = (x + w - 1) \div w
        BY DEF BlobsNeeded
      <4>8. x + w - 1 \in Nat
        <5> HIDE DEF x, w
        <5> QED BY <4>3, <4>5, <4>6
      <4> DEFINE z == x + w - 1
      <4>9. z \div w \in Nat
        <5> HIDE DEF z, w
        <5> QED BY <4>5, <4>6, <4>8, Quotient DEF z
      <4> HIDE DEF w
      <4>10. BlobsNeeded(x) \in Nat
        BY <4>7, <4>9
      <4> HIDE DEF x
      <4> QED BY <4>1, <4>10 DEF x
    <3> QED BY <3>1, <3>2
  <2> QED BY <2>2, <2>3, <2>4
<1> QED BY <1>1, CodecInvariance, PTL

-----------------------------------------------------------------------------
(* Pieces strung together.  What matters is which position of the whole is *)
(* where, so the whole is the sequence of the positions.                   *)

UpTo(n) == [i \in 1..n |-> i]

\* The bounds of the pieces of a whole, all of the same size but the last.
EndOf(i, size, total) == IF i * size <= total THEN i * size ELSE total

PieceOf(i, size, total) ==
  [k \in 1..(EndOf(i, size, total) - (i - 1) * size) |-> (i - 1) * size + k]

LEMMA RunsConcat ==
  ASSUME NEW a \in Nat, NEW b \in Nat
  PROVE  UpTo(a) \o [k \in 1..b |-> a + k] = UpTo(a + b)
<1> DEFINE s == UpTo(a)
           t == [k \in 1..b |-> a + k]
<1>1. s \in Seq(Nat) /\ Len(s) = a /\ \A i \in 1..a : s[i] = i
  BY DEF UpTo
<1>2. t \in Seq(Nat) /\ Len(t) = b /\ \A k \in 1..b : t[k] = a + k
  OBVIOUS
<1> HIDE DEF s, t
<1>3. /\ s \o t \in Seq(Nat) /\ Len(s \o t) = a + b
      /\ \A i \in 1..(a + b) : (s \o t)[i] = IF i <= a THEN s[i] ELSE t[i - a]
  BY <1>1, <1>2, ConcatProperties
<1>4. ASSUME NEW i \in 1..(a + b) PROVE (s \o t)[i] = i
  <2>1. CASE i <= a
    BY <1>1, <1>3, <2>1
  <2>2. CASE ~(i <= a)
    <3>1. i - a \in 1..b /\ a + (i - a) = i
      BY <2>2
    <3> QED BY <1>2, <1>3, <2>2, <3>1
  <2> QED BY <2>1, <2>2
<1> DEFINE st == s \o t
<1>5. st \in Seq(Nat) /\ Len(st) = a + b /\ \A i \in 1..(a + b) : st[i] = i
  BY <1>3, <1>4
<1>6. st = UpTo(a + b)
  <2> HIDE DEF st
  <2>1. UpTo(a + b) \in Seq(Nat) /\ Len(UpTo(a + b)) = a + b
    BY DEF UpTo
  <2>2. \A i \in 1..(a + b) : UpTo(a + b)[i] = i
    BY DEF UpTo
  <2> DEFINE u == UpTo(a + b)
  <2>3. u \in Seq(Nat) /\ Len(u) = a + b /\ \A i \in 1..(a + b) : u[i] = i
    BY <2>1, <2>2
  <2> HIDE DEF u
  <2>4. st = u
    BY <1>5, <2>3, SeqEqual
  <2> QED BY <2>4 DEF u
<1> QED BY <1>6 DEF s, t

\* The positions of a whole are cut into so many pieces.
Pieces(pieces, n, size, total) ==
  /\ n = 0 => total = 0
  /\ n > 0 => (n - 1) * size <= total /\ total <= n * size
  /\ pieces \in Seq(Seq(Nat)) /\ Len(pieces) = n
  /\ \A i \in 1..n : pieces[i] = PieceOf(i, size, total)

\* A piece goes on where the piece before it ends.
Joins(pieces, i, size, total) ==
  UpTo((i - 1) * size) \o pieces[i] = UpTo(EndOf(i, size, total))

LEMMA PieceFollows ==
  ASSUME NEW n \in Nat, NEW size \in Nat \ {0}, NEW total \in Nat, NEW pieces, Pieces(pieces, n, size, total),
         NEW i \in 1..n
  PROVE  /\ Joins(pieces, i, size, total)
         /\ (i - 1) * size \in Nat /\ (i - 1) * size <= total
<1> DEFINE h == i - 1
           m == n - 1
           a == h * size
           b == EndOf(i, size, total) - a
<1>1. h \in Nat /\ m \in Nat /\ h <= m /\ n > 0 /\ i = h + 1
  OBVIOUS
<1>2. a \in Nat /\ a <= total
  <2>1. m * size <= total
    BY <1>1 DEF Pieces
  <2> HIDE DEF h, m
  <2>2. h * size <= m * size /\ h * size \in Nat /\ m * size \in Nat
    BY <1>1, ProductGrows
  <2> HIDE DEF a
  <2> QED BY <2>1, <2>2 DEF a
<1>3. EndOf(i, size, total) \in Nat /\ a <= EndOf(i, size, total)
  <2>1. i * size = a + size
    <3> HIDE DEF h
    <3>1. (h + 1) * size = h * size + size
      BY <1>1
    <3> QED BY <1>1, <3>1
  <2> DEFINE e == i * size
  <2>2. e = a + size /\ EndOf(i, size, total) = IF e <= total THEN e ELSE total
    BY <2>1 DEF EndOf
  <2> HIDE DEF e, a
  <2> QED BY <1>2, <2>2
<1>4. b \in Nat /\ a + b = EndOf(i, size, total)
  <2> HIDE DEF a
  <2> QED BY <1>2, <1>3
<1>5. pieces[i] = [k \in 1..b |-> a + k]
  BY DEF Pieces, PieceOf
<1>6. UpTo(a) \o [k \in 1..b |-> a + k] = UpTo(a + b)
  <2> HIDE DEF a, b
  <2> QED BY <1>2, <1>4, RunsConcat
<1>7. UpTo(a) \o pieces[i] = UpTo(a + b)
  <2> HIDE DEF a, b
  <2> QED BY <1>5, <1>6
<1>8. UpTo(a) \o pieces[i] = UpTo(EndOf(i, size, total))
  <2> HIDE DEF a, b
  <2> QED BY <1>4, <1>7
<1>9. Joins(pieces, i, size, total)
  BY <1>8 DEF Joins
<1> QED BY <1>2, <1>9

\* Strung together, the pieces are the whole.
LEMMA PiecesFlatten ==
  ASSUME NEW n \in Nat, NEW size \in Nat \ {0}, NEW total \in Nat, NEW pieces, Pieces(pieces, n, size, total)
  PROVE  FlattenSeq(pieces) = UpTo(total)
<1>1. pieces \in Seq(Seq(Nat)) /\ Len(pieces) = n
  BY DEF Pieces
<1>2. CASE n = 0
  <2>1. FlattenSeq(pieces) = pieces /\ pieces = <<>>
    BY <1>1, <1>2 DEF FlattenSeq
  <2>2. total = 0
    BY <1>2 DEF Pieces
  <2>3. UpTo(0) = <<>>
    BY DEF UpTo
  <2> QED BY <2>1, <2>2, <2>3
<1>3. CASE n # 0
  <2> DEFINE Value(f) == [i \in 1..Len(pieces) |-> IF i = 1 THEN pieces[i] ELSE f[i - 1] \o pieces[i]]
             flat == CHOOSE f : f = Value(f)
             ends == [i \in 1..n |-> UpTo(EndOf(i, size, total))]
  <2>1. FlattenSeq(pieces) = flat[n]
    BY <1>1, <1>3 DEF FlattenSeq
  <2>2. pieces[1] = UpTo(EndOf(1, size, total))
    <3>1. 1 \in 1..n /\ (1 - 1) * size = 0
      BY <1>3
    <3>2. UpTo(0) = <<>>
      BY DEF UpTo
    <3>3. <<>> \o pieces[1] = pieces[1]
      BY <1>1, <3>1
    <3>4. Joins(pieces, 1, size, total)
      BY <3>1, PieceFollows
    <3>5. UpTo((1 - 1) * size) \o pieces[1] = UpTo(EndOf(1, size, total))
      BY <3>4 DEF Joins
    <3>6. UpTo((1 - 1) * size) = <<>>
      BY <3>1, <3>2
    <3> QED BY <3>3, <3>5, <3>6
  <2>3. ASSUME NEW i \in 1..n, i # 1
        PROVE  i - 1 \in 1..n /\ UpTo(EndOf(i - 1, size, total)) \o pieces[i] = UpTo(EndOf(i, size, total))
    <3>1. i - 1 \in 1..n
      BY <2>3
    <3>2. EndOf(i - 1, size, total) = (i - 1) * size
      <4>1. (i - 1) * size <= total
        BY PieceFollows
      <4> QED BY <4>1 DEF EndOf
    <3>3. Joins(pieces, i, size, total)
      BY PieceFollows
    <3>4. UpTo((i - 1) * size) \o pieces[i] = UpTo(EndOf(i, size, total))
      BY <3>3 DEF Joins
    <3> QED BY <3>1, <3>2, <3>4
  <2>4. ends = Value(ends)
    <3>1. ASSUME NEW i \in 1..n PROVE ends[i] = IF i = 1 THEN pieces[i] ELSE ends[i - 1] \o pieces[i]
      <4>1. CASE i = 1
        BY <2>2, <4>1
      <4>2. CASE i # 1
        <5>1. i - 1 \in 1..n /\ UpTo(EndOf(i - 1, size, total)) \o pieces[i] = UpTo(EndOf(i, size, total))
          BY <2>3, <4>2
        <5>2. ends[i - 1] = UpTo(EndOf(i - 1, size, total)) /\ ends[i] = UpTo(EndOf(i, size, total))
          BY <5>1
        <5> HIDE DEF ends
        <5> QED BY <4>2, <5>1, <5>2
      <4> QED BY <4>1, <4>2
    <3>2. ends = [i \in 1..n |-> ends[i]]
      OBVIOUS
    <3> HIDE DEF ends
    <3> QED BY <1>1, <3>1, <3>2
  <2>5. flat = Value(flat)
    <3> HIDE DEF Value, ends
    <3> QED BY <2>4
  <2>6. ASSUME NEW i \in 1..n PROVE flat[i] = IF i = 1 THEN pieces[i] ELSE flat[i - 1] \o pieces[i]
    <3> DEFINE g == flat
    <3>1. g = Value(g)
      BY <2>5
    <3> HIDE DEF g
    <3>2. g[i] = IF i = 1 THEN pieces[i] ELSE g[i - 1] \o pieces[i]
      <4>1. Value(g)[i] = IF i = 1 THEN pieces[i] ELSE g[i - 1] \o pieces[i]
        BY <1>1
      <4> HIDE DEF Value
      <4> QED BY <3>1, <4>1
    <3> QED BY <3>2 DEF g
  <2> HIDE DEF flat
  <2> DEFINE Good == {i \in Nat : i \in 1..n => flat[i] = UpTo(EndOf(i, size, total))}
  <2>7. 0 \in Good
    OBVIOUS
  <2>8. ASSUME NEW j \in Nat, j \in Good PROVE j + 1 \in Good
    <3> DEFINE i == j + 1
    <3>1. SUFFICES ASSUME i \in 1..n PROVE flat[i] = UpTo(EndOf(i, size, total))
      OBVIOUS
    <3>2. CASE j = 0
      BY <2>2, <2>6, <3>1, <3>2
    <3>3. CASE j # 0
      <4>1. i # 1 /\ i - 1 = j /\ j \in 1..n
        BY <3>1, <3>3
      <4>2. flat[j] = UpTo(EndOf(j, size, total))
        BY <2>8, <4>1
      <4> HIDE DEF i
      <4>3. flat[i] = flat[i - 1] \o pieces[i]
        BY <2>6, <3>1, <4>1
      <4>4. UpTo(EndOf(i - 1, size, total)) \o pieces[i] = UpTo(EndOf(i, size, total))
        BY <2>3, <3>1, <4>1
      <4> QED BY <4>1, <4>2, <4>3, <4>4
    <3> QED BY <3>2, <3>3
  <2> HIDE DEF Good
  <2>9. \A i \in Nat : i \in Good
    BY <2>7, <2>8, InductiveSet
  <2>10. flat[n] = UpTo(EndOf(n, size, total))
    BY <1>3, <2>9 DEF Good
  <2>11. EndOf(n, size, total) = total
    <3>1. total <= n * size /\ n * size \in Nat
      BY <1>3, ProductGrows DEF Pieces
    <3> QED BY <3>1 DEF EndOf
  <2> QED BY <2>1, <2>10, <2>11
<1> QED BY <1>2, <1>3

-----------------------------------------------------------------------------
(* The decoder accepts the blobs of a bundle.                              *)

WholeBundles == {b \in BundleIds : /\ BlobsOf(b) # {}
                                   /\ ToSet(delivered) = BlobsOf(b)
                                   /\ Len(delivered) = Cardinality(BlobsOf(b))}

\* A sequence as long as there are elements in it has each of them once.
LEMMA EachOnce ==
  ASSUME NEW S, IsFiniteSet(S), NEW T, NEW s \in Seq(T), ToSet(s) = S
  PROVE  Len(s) = Cardinality(S) <=> \A i, j \in DOMAIN s : s[i] = s[j] => i = j
<1> DEFINE n == Len(s)
           D == 1..n
<1>1. n \in Nat /\ DOMAIN s = D /\ s \in [D -> T]
  BY LenProperties
<1>2. /\ \A i \in D : s[i] \in S
      /\ \A x \in S : \E i \in D : s[i] = x
  BY <1>1 DEF ToSet
<1> HIDE DEF n
<1>3. IsFiniteSet(D) /\ Cardinality(D) = n
  <2>1. IsFiniteSet(1..n) /\ Cardinality(1..n) = IF 1 > n THEN 0 ELSE n - 1 + 1
    BY <1>1, FS_Interval
  <2> QED BY <1>1, <2>1
<1> HIDE DEF D
<1>4. s \in Surjection(D, S)
  <2>1. s = [i \in D |-> s[i]]
    BY <1>1
  <2>2. s \in [D -> S]
    BY <1>2, <2>1
  <2> QED BY <1>2, <2>2 DEF Surjection
<1>5. Cardinality(S) = Cardinality(D) <=> s \in Injection(D, S)
  BY <1>3, <1>4, FS_Surjection
<1>6. s \in Injection(D, S) <=> \A i, j \in D : s[i] = s[j] => i = j
  BY <1>4 DEF Surjection, Injection, IsInjective
<1> QED BY <1>1, <1>3, <1>5, <1>6 DEF n

LEMMA WholeIsValid ==
  ASSUME CodecInv, NEW b \in WholeBundles
  PROVE  /\ Valid(delivered)
         /\ \A i, j \in DOMAIN delivered : delivered[i].idx = delivered[j].idx => i = j
         /\ DOMAIN delivered = 1..CountOf(length[b])
         /\ \A i \in DOMAIN delivered : GoodBlob(delivered[i]) /\ delivered[i].id = b
         /\ \A i \in 0..(CountOf(length[b]) - 1) : \E j \in DOMAIN delivered : delivered[j].idx = i
<1> DEFINE n == CountOf(length[b])
           D == DOMAIN delivered
<1>1. b \in BundleIds /\ BlobsOf(b) # {} /\ ToSet(delivered) = BlobsOf(b) /\ Len(delivered) = Cardinality(BlobsOf(b))
  BY DEF WholeBundles
<1>2. /\ n \in Nat \ {0}
      /\ \A blob \in BlobsOf(b) : GoodBlob(blob) /\ blob.id = b /\ blob.idx \in 0..(n - 1)
      /\ \A i \in 0..(n - 1) : \E blob \in BlobsOf(b) : blob.idx = i
      /\ \A x, y \in BlobsOf(b) : x.idx = y.idx => x = y
      /\ IsFiniteSet(BlobsOf(b)) /\ Cardinality(BlobsOf(b)) = n
  BY <1>1, BlobsOfBundle
<1> HIDE DEF n
<1>3. delivered \in Seq(published)
  BY DEF CodecInv, PublishedInv
<1>4. D = 1..n
  BY <1>1, <1>2, <1>3, LenProperties
<1>5. \A i \in D : delivered[i] \in BlobsOf(b)
  BY <1>1 DEF ToSet
<1>6. \A x \in BlobsOf(b) : \E i \in D : delivered[i] = x
  BY <1>1 DEF ToSet
<1>7. \A i, j \in D : delivered[i] = delivered[j] => i = j
  BY <1>1, <1>2, <1>3, EachOnce
<1> HIDE DEF D
<1>8. \A i, j \in D : delivered[i].idx = delivered[j].idx => i = j
  BY <1>2, <1>5, <1>7
<1>9. \A i \in 0..(n - 1) : \E j \in D : delivered[j].idx = i
  <2>1. TAKE i \in 0..(n - 1)
  <2>2. PICK x \in BlobsOf(b) : x.idx = i
    BY <1>2
  <2>3. PICK j \in D : delivered[j] = x
    BY <1>6
  <2> QED BY <2>2, <2>3
<1>10. Valid(delivered)
  <2> DEFINE all == ToSet(delivered)
             Idx == {x.idx : x \in all}
             highest == CHOOSE i \in Idx : \A x \in all : x.idx <= i
  <2>1. all = BlobsOf(b)
    BY <1>1
  <2>2. Cardinality({x.id : x \in all}) = 1
    <3>1. {x.id : x \in all} = {b}
      BY <1>1, <1>2, <2>1
    <3>2. Cardinality({b}) = 1
      BY FS_Singleton
    <3> QED BY <3>1, <3>2
  <2> HIDE DEF all
  <2>3. n - 1 \in Idx /\ \A x \in all : x.idx <= n - 1
    <3>1. n - 1 \in 0..(n - 1)
      BY <1>2
    <3>2. PICK x \in BlobsOf(b) : x.idx = n - 1
      BY <1>2, <3>1
    <3>3. n - 1 \in Idx
      BY <2>1, <3>2
    <3>4. \A y \in all : y.idx <= n - 1
      BY <1>2, <2>1
    <3> QED BY <3>3, <3>4
  <2>4. \A i \in Idx : i \in 0..(n - 1)
    BY <1>2, <2>1
  <2>5. highest \in Idx /\ \A x \in all : x.idx <= highest
    BY <2>3
  <2>6. highest = n - 1
    <3>1. PICK x \in all : x.idx = n - 1
      BY <2>3
    <3>2. n - 1 <= highest
      BY <2>5, <3>1
    <3>3. highest \in 0..(n - 1)
      BY <2>4, <2>5
    <3> HIDE DEF highest
    <3> QED BY <1>2, <3>2, <3>3
  <2> HIDE DEF highest
  <2>7. \E i \in D : delivered[i].idx = highest /\ \A j \in D : delivered[j].isLast <=> j = i
    <3>1. n - 1 \in 0..(n - 1)
      BY <1>2
    <3>2. PICK i \in D : delivered[i].idx = n - 1
      BY <1>9, <3>1
    <3>3. ASSUME NEW j \in D PROVE delivered[j].isLast <=> j = i
      <4>1. GoodBlob(delivered[j]) /\ delivered[j].id = b /\ delivered[j].idx \in 0..(n - 1)
        BY <1>2, <1>5
      <4>2. delivered[j].isLast <=> delivered[j].idx + 1 = n
        BY <4>1 DEF GoodBlob, n
      <4>3. delivered[j].idx + 1 = n <=> delivered[j].idx = n - 1
        BY <1>2, <4>1
      <4>4. delivered[j].idx = n - 1 <=> j = i
        BY <1>8, <3>2
      <4> QED BY <4>2, <4>3, <4>4
    <3> QED BY <2>6, <3>2, <3>3
  <2>8. 0..highest \subseteq Idx
    <3>1. \A i \in 0..(n - 1) : \E x \in all : x.idx = i
      BY <1>2, <2>1
    <3> QED BY <2>6, <3>1
  <2>9. delivered # <<>>
    <3>1. 1 \in D
      BY <1>2, <1>4
    <3> QED BY <3>1 DEF D
  <2> QED BY <1>8, <2>2, <2>7, <2>8, <2>9 DEF Valid, all, highest, D
<1>11. \A i \in D : GoodBlob(delivered[i]) /\ delivered[i].id = b
  BY <1>2, <1>5
<1> QED BY <1>4, <1>8, <1>9, <1>10, <1>11 DEF n, D

LEMMA ValidIsWhole ==
  ASSUME CodecInv, Valid(delivered)
  PROVE  WholeBundles # {}
<1> DEFINE D == DOMAIN delivered
           all == ToSet(delivered)
           Ids == {x.id : x \in all}
           Idx == {x.idx : x \in all}
           highest == CHOOSE i \in Idx : \A x \in all : x.idx <= i
<1>1. /\ delivered # <<>>
      /\ Cardinality(Ids) = 1
      /\ \E i \in D : delivered[i].idx = highest /\ \A j \in D : delivered[j].isLast <=> j = i
      /\ 0..highest \subseteq Idx
      /\ \A i, j \in D : delivered[i].idx = delivered[j].idx => i = j
  BY DEF Valid
<1> HIDE DEF highest
<1>2. delivered \in Seq(published)
  BY DEF CodecInv, PublishedInv
<1>3. /\ D = 1..Len(delivered) /\ Len(delivered) \in Nat /\ Len(delivered) # 0
      /\ \A i \in D : delivered[i] \in published
  BY <1>1, <1>2, EmptySeq, LenProperties
<1>4. all \subseteq published /\ \A i \in D : delivered[i] \in all
  BY <1>3 DEF ToSet
<1>5. IsFiniteSet(Ids)
  <2> DEFINE f == [i \in D |-> delivered[i].id]
  <2>1. IsFiniteSet(D)
    <3> HIDE DEF all
    <3>1. IsFiniteSet(1..Len(delivered))
      BY <1>3, FS_Interval
    <3> QED BY <1>3, <3>1
  <2>2. f \in Surjection(D, Ids)
    BY DEF Surjection, ToSet
  <2> HIDE DEF f
  <2> QED BY <2>1, <2>2, FS_Surjection
<1>6. PICK b : Ids = {b}
  <2> HIDE DEF Ids
  <2> QED BY <1>1, <1>5, FS_Singleton
<1>7. PICK i \in D : delivered[i].idx = highest /\ delivered[i].isLast
  BY <1>1
<1> DEFINE n == CountOf(length[b])
<1>8. \A x \in all : x.id = b
  BY <1>6
<1>9. /\ delivered[i] \in all /\ delivered[i].id = b /\ GoodBlob(delivered[i])
      /\ b \in BundleIds /\ delivered[i] \in BlobsOf(b)
  <2>1. delivered[i] \in all /\ delivered[i].id = b
    BY <1>4, <1>8
  <2>2. GoodBlob(delivered[i])
    BY <1>4, <2>1 DEF CodecInv, PublishedInv
  <2>3. delivered[i].id \in BundleIds
    BY <2>2 DEF GoodBlob
  <2>4. delivered[i] \in BlobsOf(b)
    BY <1>4, <2>1 DEF BlobsOf
  <2> QED BY <2>1, <2>2, <2>3, <2>4
<1>10. BlobsOf(b) # {} /\ all \subseteq BlobsOf(b)
  <2> HIDE DEF all
  <2> QED BY <1>4, <1>8, <1>9 DEF BlobsOf
<1>11. /\ n \in Nat \ {0}
       /\ \A blob \in BlobsOf(b) : blob.idx \in 0..(n - 1)
       /\ \A x, y \in BlobsOf(b) : x.idx = y.idx => x = y
       /\ IsFiniteSet(BlobsOf(b))
  BY <1>9, <1>10, BlobsOfBundle
<1>12. highest = n - 1
  <2>1. highest \in 0..(n - 1)
    <3> HIDE DEF n
    <3> QED BY <1>7, <1>9, <1>11
  <2>2. highest + 1 = n
    BY <1>7, <1>9 DEF GoodBlob
  <2> HIDE DEF n
  <2> QED BY <1>11, <2>1, <2>2
<1> HIDE DEF n
<1>13. BlobsOf(b) \subseteq all
  <2>1. SUFFICES ASSUME NEW x \in BlobsOf(b) PROVE x \in all
    OBVIOUS
  <2>2. x.idx \in 0..highest
    BY <1>11, <1>12
  <2>3. PICK y \in all : y.idx = x.idx
    BY <1>1, <2>2
  <2> HIDE DEF all
  <2> QED BY <1>10, <1>11, <2>3
<1>14. all = BlobsOf(b)
  BY <1>10, <1>13
<1>15. \A k, j \in D : delivered[k] = delivered[j] => k = j
  BY <1>1
<1>16. Len(delivered) = Cardinality(BlobsOf(b))
  BY <1>2, <1>11, <1>14, <1>15, EachOnce
<1>17. b \in WholeBundles
  BY <1>9, <1>10, <1>14, <1>16 DEF WholeBundles
<1> QED BY <1>17

-----------------------------------------------------------------------------
(* What is decoded, and what EigenDA gets.                                 *)

\* A piece starts and ends within the whole.
LEMMA PieceBounds ==
  ASSUME NEW total \in Nat, NEW size \in Nat \ {0}, NEW n, n = (total + size - 1) \div size
  PROVE  /\ n \in Nat /\ (n = 0 => total = 0)
         /\ n > 0 => (n - 1) * size <= total /\ total <= n * size
         /\ \A i \in 1..n : /\ (i - 1) * size \in Nat /\ i * size \in Nat /\ i * size = (i - 1) * size + size
                            /\ (i - 1) * size < total
                            /\ EndOf(i, size, total) \in Nat /\ EndOf(i, size, total) <= total
                            /\ (i - 1) * size < EndOf(i, size, total)
<1> DEFINE z == total + size - 1
<1>1. z \in Nat
  OBVIOUS
<1>2. n \in Nat /\ n * size <= z /\ z < (n + 1) * size
  <2>1. n = z \div size
    OBVIOUS
  <2> HIDE DEF z
  <2> QED BY <1>1, <2>1, Quotient
<1>3. (n + 1) * size = n * size + size /\ n * size \in Nat
  BY <1>2, ProductGrows
<1>4. total <= n * size /\ n * size < total + size
  <2> DEFINE p == n * size
  <2>1. p \in Nat /\ p <= z /\ z < p + size
    BY <1>2, <1>3
  <2> HIDE DEF p
  <2>2. total <= p /\ p < total + size
    BY <2>1
  <2> QED BY <2>2 DEF p
<1>5. ASSUME NEW i \in 1..n
      PROVE  /\ (i - 1) * size \in Nat /\ i * size \in Nat /\ i * size = (i - 1) * size + size
             /\ (i - 1) * size < total
<2> DEFINE h == i - 1
           a == h * size
           b == i * size
  <2>1. h \in Nat /\ i = h + 1 /\ i \in Nat /\ i <= n
    BY <1>2
  <2> HIDE DEF h
  <2>2. b = a + size /\ a \in Nat
    <3>1. (h + 1) * size = h * size + size
      BY <2>1
    <3>2. h * size \in Nat
      BY <2>1, ProductGrows
    <3> QED BY <2>1, <3>1, <3>2
  <2>3. b <= n * size
    BY <1>2, <2>1, ProductGrows
  <2>4. a < total
    <3> DEFINE p == n * size
    <3>1. b <= p /\ p \in Nat /\ p < total + size
      BY <1>3, <1>4, <2>3
    <3> HIDE DEF a, b, p
    <3> QED BY <2>2, <3>1
  <2>5. a \in Nat /\ b \in Nat /\ b = a + size /\ a < total
    <3> HIDE DEF a, b
    <3> QED BY <2>2, <2>4
  <2> QED BY <2>5 DEF h
<1>6. ASSUME NEW i \in 1..n
      PROVE  /\ EndOf(i, size, total) \in Nat /\ EndOf(i, size, total) <= total
             /\ (i - 1) * size < EndOf(i, size, total)
  <2> DEFINE a == (i - 1) * size
             b == i * size
             e == EndOf(i, size, total)
  <2>1. a \in Nat /\ b \in Nat /\ b = a + size /\ a < total
    BY <1>5
  <2>2. e = IF b <= total THEN b ELSE total
    BY DEF EndOf
  <2> HIDE DEF a, b, e
  <2>3. e \in Nat /\ e <= total /\ a < e
    BY <2>1, <2>2
  <2> QED BY <2>3 DEF a, e
<1>7. ASSUME n > 0 PROVE (n - 1) * size <= total
  <2>1. n \in 1..n
    BY <1>2, <1>7
  <2> DEFINE a == (n - 1) * size
  <2>2. a \in Nat /\ a < total
    BY <1>5, <2>1
  <2> HIDE DEF a
  <2>3. a <= total
    BY <2>2
  <2> QED BY <2>3 DEF a
<1>8. n = 0 => total = 0
  <2>1. 0 * size = 0
    OBVIOUS
  <2> QED BY <1>4, <2>1
<1> QED BY <1>2, <1>4, <1>5, <1>6, <1>7, <1>8

LEMMA PieceIsSequence ==
  ASSUME NEW total \in Nat, NEW size \in Nat \ {0}, NEW i \in 1..((total + size - 1) \div size)
  PROVE  PieceOf(i, size, total) \in Seq(Nat)
<1> DEFINE n == (total + size - 1) \div size
           a == (i - 1) * size
           b == EndOf(i, size, total) - a
<1>1. i \in 1..n
  OBVIOUS
<1>2. a \in Nat /\ a < EndOf(i, size, total) /\ EndOf(i, size, total) \in Nat
  <2>1. /\ (i - 1) * size \in Nat
        /\ EndOf(i, size, total) \in Nat
        /\ (i - 1) * size < EndOf(i, size, total)
    <3> HIDE DEF a, b
    <3> QED BY <1>1, PieceBounds
  <2> QED BY <2>1
<1>3. b \in Nat
  <2> HIDE DEF a
  <2> QED BY <1>2
<1>4. PieceOf(i, size, total) = [k \in 1..b |-> a + k]
  BY DEF PieceOf
<1> HIDE DEF a, b
<1>5. [k \in 1..b |-> a + k] \in Seq(Nat)
  BY <1>2, <1>3
<1> QED BY <1>4, <1>5

LEMMA DataIsPiece ==
  ASSUME StorageInv, NEW blob, GoodBlob(blob)
  PROVE  DataOf(blob) = PieceOf(blob.idx + 1, DataBitsPerBlob, length[blob.id])
<1> DEFINE len == length[blob.id]
           i == blob.idx
           share == ShareOf(len, i)
           a == i * DataBitsPerBlob
<1>1. i \in Nat /\ blob.id \in BundleIds /\ i < CountOf(len) /\ len > 0
  BY DEF GoodBlob
<1>2. len \in Nat \ {0}
  BY <1>1 DEF StorageInv
<1>3. share \in 1..DataBitsPerBlob /\ share \in Nat \ {0}
  <2>1. share \in 1..DataBitsPerBlob
    <3> HIDE DEF len, i
    <3> QED BY <1>1, <1>2, SharesInBlob
  <2> HIDE DEF share
  <2> QED BY <2>1, Sizes
<1>4. DataBits(blob.numBits) = share
  <2>1. blob.numBits = Offset(share) + 1
    BY DEF GoodBlob
  <2> HIDE DEF share
  <2> QED BY <1>3, <2>1, DataBitsToOffset
<1>5. \A k \in 1..share : blob.bits[Offset(k)] = a + k
  BY DEF GoodBlob
<1> DEFINE j == i + 1
<1>6. j - 1 = i /\ j \in Nat
  <2> HIDE DEF i
  <2> QED BY <1>1
<1> HIDE DEF j
<1>7. EndOf(j, DataBitsPerBlob, len) - (j - 1) * DataBitsPerBlob = share /\ (j - 1) * DataBitsPerBlob = a
  <2> DEFINE e == j * DataBitsPerBlob
             f == EndOf(j, DataBitsPerBlob, len)
             c == (j - 1) * DataBitsPerBlob
  <2>1. e = a + DataBitsPerBlob /\ a \in Nat
    <3> HIDE DEF i
    <3>1. (i + 1) * DataBitsPerBlob = i * DataBitsPerBlob + DataBitsPerBlob
      BY <1>1, Sizes
    <3>2. i * DataBitsPerBlob \in Nat
      BY <1>1, Sizes, ProductGrows
    <3> QED BY <3>1, <3>2 DEF j
  <2>2. f = IF e <= len THEN e ELSE len
    <3> HIDE DEF len
    <3> QED BY DEF EndOf
  <2>3. share = IF e <= len THEN DataBitsPerBlob ELSE len - a
    <3> HIDE DEF len, i
    <3> QED BY DEF ShareOf, j
  <2>4. c = a
    BY <1>6
  <2> HIDE DEF a, e, f, c, share, len
  <2>5. f - c = share
    BY <1>2, <2>1, <2>2, <2>3, <2>4, Sizes
  <2> QED BY <2>4, <2>5 DEF f, c
<1>8. DataOf(blob) = [k \in 1..share |-> a + k]
  <2>1. DataOf(blob) = [k \in 1..share |-> blob.bits[Offset(k)]]
    BY <1>4 DEF DataOf
  <2> HIDE DEF share, a
  <2> QED BY <1>5, <2>1
<1>9. PieceOf(j, DataBitsPerBlob, len) = [k \in 1..share |-> a + k]
  <2> HIDE DEF share, a, i, len
  <2> QED BY <1>7 DEF PieceOf
<1>10. DataOf(blob) = PieceOf(j, DataBitsPerBlob, len)
  <2> HIDE DEF share, a, i, len
  <2> QED BY <1>8, <1>9
<1> QED BY <1>10 DEF j

\* Sorted by index, the blobs' data is the bundle.
LEMMA WholeIsDecoded ==
  ASSUME CodecInv, NEW b \in WholeBundles
  PROVE  Decoded(delivered) = UpTo(length[b])
<1> DEFINE len == length[b]
           n == CountOf(len)
           chosen(i) == CHOOSE j \in DOMAIN delivered : delivered[j].idx = i - 1
           pieces == [i \in DOMAIN delivered |-> DataOf(delivered[chosen(i)])]
<1>1. StorageInv /\ b \in BundleIds /\ BlobsOf(b) # {}
  BY DEF CodecInv, WholeBundles
<1>2. /\ DOMAIN delivered = 1..n
      /\ \A i \in DOMAIN delivered : GoodBlob(delivered[i]) /\ delivered[i].id = b
      /\ \A i \in 0..(n - 1) : \E j \in DOMAIN delivered : delivered[j].idx = i
  BY WholeIsValid
<1>3. len \in Nat \ {0} /\ DataBitsPerBlob \in Nat \ {0} /\ n = (len + DataBitsPerBlob - 1) \div DataBitsPerBlob
  BY <1>1, BlobsOfBundle, Sizes DEF CountOf
<1> HIDE DEF n, len
<1>4. /\ n \in Nat /\ (n = 0 => len = 0)
      /\ n > 0 => (n - 1) * DataBitsPerBlob <= len /\ len <= n * DataBitsPerBlob
  BY <1>3, PieceBounds
<1>5. ASSUME NEW i \in 1..n
      PROVE  pieces[i] = PieceOf(i, DataBitsPerBlob, len) /\ PieceOf(i, DataBitsPerBlob, len) \in Seq(Nat)
  <2>1. i - 1 \in 0..(n - 1) /\ i \in DOMAIN delivered /\ (i - 1) + 1 = i
    BY <1>2, <1>4
  <2>2. chosen(i) \in DOMAIN delivered /\ delivered[chosen(i)].idx = i - 1
    BY <1>2, <2>1
  <2>3. pieces[i] = DataOf(delivered[chosen(i)])
    BY <2>1
  <2> DEFINE blob == delivered[chosen(i)]
  <2>4. GoodBlob(blob) /\ blob.id = b /\ blob.idx = i - 1
    BY <1>2, <2>2
  <2> HIDE DEF blob, pieces
  <2>5. DataOf(blob) = PieceOf(blob.idx + 1, DataBitsPerBlob, length[blob.id])
    BY <1>1, <2>4, DataIsPiece
  <2>6. DataOf(blob) = PieceOf(i, DataBitsPerBlob, len)
    BY <2>1, <2>4, <2>5 DEF len
  <2>7. PieceOf(i, DataBitsPerBlob, len) \in Seq(Nat)
    BY <1>3, PieceIsSequence
  <2> QED BY <2>3, <2>6, <2>7 DEF blob
<1>6. pieces \in Seq(Seq(Nat)) /\ Len(pieces) = n
  <2>1. pieces = [i \in 1..n |-> pieces[i]]
    BY <1>2
  <2>2. \A i \in 1..n : pieces[i] \in Seq(Nat)
    BY <1>5
  <2> HIDE DEF pieces
  <2>3. pieces \in [1..n -> Seq(Nat)]
    BY <2>1, <2>2
  <2> QED BY <1>4, <2>3
<1>7. Decoded(delivered) = FlattenSeq(pieces)
  BY DEF Decoded
<1> HIDE DEF pieces
<1>8. Pieces(pieces, n, DataBitsPerBlob, len)
  BY <1>4, <1>5, <1>6 DEF Pieces
<1>9. FlattenSeq(pieces) = UpTo(len)
  BY <1>3, <1>4, <1>8, PiecesFlatten
<1> QED BY <1>7, <1>9 DEF len

\* The pieces that a whole is cut into.
LEMMA ChunksArePieces ==
  ASSUME NEW total \in Nat, NEW size \in Nat \ {0}
  PROVE  /\ Pieces(Chunks(UpTo(total), size), (total + size - 1) \div size, size, total)
         /\ Len(Chunks(UpTo(total), size)) = (total + size - 1) \div size
<1> DEFINE n == (total + size - 1) \div size
           data == UpTo(total)
           end(i) == IF i * size < Len(data) THEN i * size ELSE Len(data)
           chunks == [i \in 1..n |-> SubSeq(data, (i - 1) * size + 1, end(i))]
<1>1. /\ n \in Nat /\ (n = 0 => total = 0)
      /\ n > 0 => (n - 1) * size <= total /\ total <= n * size
      /\ \A i \in 1..n : /\ (i - 1) * size \in Nat /\ i * size \in Nat
                         /\ EndOf(i, size, total) \in Nat /\ EndOf(i, size, total) <= total
                         /\ (i - 1) * size < EndOf(i, size, total)
  BY PieceBounds
<1>2. Len(data) = total /\ DOMAIN data = 1..total /\ \A i \in 1..total : data[i] = i
  BY DEF UpTo
<1> HIDE DEF data
<1>3. Chunks(data, size) = chunks
  BY <1>2 DEF Chunks
<1> HIDE DEF n
<1>4. ASSUME NEW i \in 1..n
      PROVE  chunks[i] = PieceOf(i, size, total) /\ PieceOf(i, size, total) \in Seq(Nat)
  <2> DEFINE a == (i - 1) * size
             b == EndOf(i, size, total)
             c == a + 1
  <2>1. a \in Nat /\ b \in Nat /\ a < b /\ b <= total
    BY <1>1
  <2>2. end(i) = b
    <3> DEFINE e == i * size
    <3>1. e \in Nat
      BY <1>1
    <3>2. end(i) = IF e < total THEN e ELSE total
      BY <1>2
    <3>3. b = IF e <= total THEN e ELSE total
      BY DEF EndOf
    <3> HIDE DEF e, b
    <3> QED BY <3>1, <3>2, <3>3
  <2>3. chunks[i] = SubSeq(data, c, b)
    BY <2>2
  <2>4. PieceOf(i, size, total) = [k \in 1..(b - a) |-> a + k]
    BY DEF PieceOf
  <2> HIDE DEF a, b, chunks, end
  <2>5. \A k \in c..b : data[k] \in Nat
    <3>1. \A k \in c..b : k \in 1..total
      BY <2>1
    <3> QED BY <1>2, <3>1
  <2>6. c \in Int /\ b \in Int /\ c <= b /\ b - c + 1 = b - a
    BY <2>1
  <2> DEFINE s == SubSeq(data, c, b)
             t == [k \in 1..(b - a) |-> a + k]
  <2>7. s \in Seq(Nat) /\ Len(s) = b - a /\ \A k \in 1..(b - a) : s[k] = data[c + k - 1]
    <3>1. /\ s \in Seq(Nat) /\ Len(s) = IF c <= b THEN b - c + 1 ELSE 0
          /\ \A k \in 1..(b - c + 1) : s[k] = data[c + k - 1]
      <4> HIDE DEF c
      <4> QED BY <2>5, <2>6, SubSeqProperties
    <3> QED BY <2>6, <3>1
  <2>8. t \in Seq(Nat) /\ Len(t) = b - a /\ \A k \in 1..(b - a) : t[k] = a + k
    BY <2>1
  <2> HIDE DEF s, t
  <2>9. \A k \in 1..(b - a) : s[k] = t[k]
    <3>1. \A k \in 1..(b - a) : c + k - 1 = a + k /\ a + k \in 1..total
      BY <2>1
    <3> QED BY <1>2, <2>7, <2>8, <3>1
  <2>10. s = t
    BY <2>7, <2>8, <2>9, SeqEqual
  <2> QED BY <2>3, <2>4, <2>8, <2>10 DEF s, t
<1>5. chunks \in Seq(Seq(Nat)) /\ Len(chunks) = n
  <2>1. chunks = [i \in 1..n |-> chunks[i]]
    OBVIOUS
  <2>2. \A i \in 1..n : chunks[i] \in Seq(Nat)
    BY <1>4
  <2> HIDE DEF chunks
  <2>3. chunks \in [1..n -> Seq(Nat)]
    BY <2>1, <2>2
  <2> QED BY <1>1, <2>3
<1> HIDE DEF chunks
<1>6. Pieces(chunks, n, size, total)
  BY <1>1, <1>4, <1>5 DEF Pieces
<1> QED BY <1>3, <1>5, <1>6 DEF data, n

\* The zero bytes go in and out again.
LEMMA PaddedAndBack ==
  ASSUME NEW S, NEW data \in Seq(S)
  PROVE  /\ \A i \in DOMAIN PadEmptyBytes(data) : i % BytesPerSymbol = 1 => PadEmptyBytes(data)[i] = 0
         /\ RemoveEmptyBytes(PadEmptyBytes(data)) = data
<1> DEFINE s == BytesPerSymbol
           t == BytesPerSymbol - 1
           L == Len(data)
           symbols == (L + s - 2) \div t
           padded == PadEmptyBytes(data)
<1>1. s \in Nat /\ t \in Nat \ {0} /\ s = t + 1 /\ s # 0 /\ L \in Nat /\ DOMAIN data = 1..L
  BY CodecAssumption
<1> HIDE DEF L
<1>2. padded = [i \in 1..(L + symbols) |-> IF (i - 1) % s = 0 THEN 0 ELSE data[i - 1 - ((i - 1) \div s)]]
  BY DEF PadEmptyBytes, L
<1> HIDE DEF s, t, padded
<1>3. symbols \in Nat /\ symbols * t <= L + t - 1 /\ L + t - 1 < (symbols + 1) * t
  <2> DEFINE z == L + s - 2
  <2>1. z \in Nat /\ z = L + t - 1
    BY <1>1
  <2>2. symbols = z \div t
    OBVIOUS
  <2> HIDE DEF z, symbols
  <2> QED BY <1>1, <2>1, <2>2, Quotient
<1> HIDE DEF symbols
<1> DEFINE p == symbols * t
<1>4. p \in Nat /\ (symbols + 1) * t = p + t /\ symbols * s = p + symbols
  <2>1. (symbols + 1) * t = symbols * t + t /\ symbols * (t + 1) = symbols * t + symbols
    BY <1>1, <1>3
  <2>2. symbols * t \in Nat
    BY <1>1, <1>3, ProductGrows
  <2> QED BY <1>1, <2>1, <2>2
<1>5. p <= L + t - 1 /\ L <= p
  <2>1. p <= L + t - 1 /\ L + t - 1 < p + t
    BY <1>3, <1>4
  <2> HIDE DEF p
  <2> QED BY <1>1, <1>4, <2>1
<1>6. Len(padded) = L + symbols /\ DOMAIN padded = 1..(L + symbols)
  BY <1>1, <1>2, <1>3
<1>7. (Len(padded) + s - 1) \div s = symbols
  <2> DEFINE r == L + t - p
             z == L + symbols + s - 1
  <2>1. r \in 0..(s - 1) /\ z = symbols * s + r
    <3> HIDE DEF p
    <3> QED BY <1>1, <1>3, <1>4, <1>5
  <2> HIDE DEF r, z
  <2>2. (symbols * s + r) \div s = symbols
    BY <1>1, <1>3, <2>1, Digits
  <2> QED BY <1>6, <2>1, <2>2 DEF z
<1>8. RemoveEmptyBytes(padded) = [i \in 1..L |-> padded[i + 1 + ((i - 1) \div t)]]
  <2> DEFINE y == (Len(padded) + s - 1) \div s
  <2>1. RemoveEmptyBytes(padded) = [i \in 1..(Len(padded) - y) |-> padded[i + 1 + ((i - 1) \div t)]]
    BY DEF RemoveEmptyBytes, s, t
  <2>2. y = symbols /\ Len(padded) - y = L
    BY <1>1, <1>3, <1>6, <1>7
  <2> HIDE DEF y
  <2> QED BY <2>1, <2>2
<1>9. ASSUME NEW i \in 1..L
      PROVE  padded[i + 1 + ((i - 1) \div t)] = data[i]
  <2> DEFINE q == (i - 1) \div t
             r == (i - 1) % t
             j == i + 1 + q
             a == q * t
  <2>1. i - 1 \in Nat
    BY <1>1
  <2>2. q \in Nat /\ r \in 0..(t - 1) /\ i - 1 = q * t + r
    <3> DEFINE h == i - 1
    <3>1. h \in Nat
      BY <2>1
    <3> HIDE DEF h
    <3>2. h \div t \in Nat /\ h % t \in 0..(t - 1) /\ h = (h \div t) * t + (h % t)
      BY <1>1, <3>1, HasDigits
    <3> QED BY <3>2 DEF h
  <2> HIDE DEF q, r
  <2>3. a \in Nat /\ (q + 1) * t = a + t /\ q * s = a + q
    <3>1. (q + 1) * t = q * t + t /\ q * (t + 1) = q * t + q
      BY <1>1, <2>2
    <3>2. q * t \in Nat
      BY <1>1, <2>2, ProductGrows
    <3> QED BY <1>1, <3>1, <3>2
  <2>4. q + 1 <= symbols
    <3>1. SUFFICES ASSUME symbols + 1 <= q + 1 PROVE FALSE
      BY <1>3, <2>2
    <3>2. symbols + 1 \in Nat /\ q + 1 \in Nat
      BY <1>3, <2>2
    <3>3. (symbols + 1) * t <= (q + 1) * t
      BY <1>1, <3>1, <3>2, ProductGrows
    <3>4. p + t <= a + t
      BY <1>4, <2>3, <3>3
    <3>5. i - 1 = a + r
      BY <2>2
    <3> HIDE DEF p, a
    <3> QED BY <1>1, <1>4, <1>5, <2>2, <2>3, <3>4, <3>5
  <2>5. j \in 1..(L + symbols)
    BY <1>1, <1>3, <2>2, <2>4
  <2> DEFINE u == r + 1
  <2>6. j - 1 = q * s + u /\ u \in 0..(s - 1) /\ u # 0
    <3>1. i - 1 = a + r
      BY <2>2
    <3> HIDE DEF a
    <3> QED BY <1>1, <2>2, <2>3, <3>1
  <2> HIDE DEF u
  <2>7. (q * s + u) \div s = q /\ (q * s + u) % s = u
    <3>1. s \in Nat \ {0}
      BY <1>1
    <3> QED BY <2>2, <2>6, <3>1, Digits
  <2>8. (j - 1) \div s = q /\ (j - 1) % s # 0
    BY <2>6, <2>7
  <2>9. padded[j] = data[j - 1 - ((j - 1) \div s)]
    <3> HIDE DEF j
    <3> QED BY <1>2, <2>5, <2>8
  <2>10. j - 1 - q = i
    BY <1>1, <2>2
  <2> QED BY <2>8, <2>9, <2>10 DEF q
<1>10. RemoveEmptyBytes(padded) = data
  <2> DEFINE back == [i \in 1..L |-> padded[i + 1 + ((i - 1) \div t)]]
  <2>1. \A i \in 1..L : back[i] = data[i]
    BY <1>9
  <2>2. back = [i \in 1..L |-> back[i]]
    OBVIOUS
  <2>3. data = [i \in 1..L |-> data[i]]
    BY <1>1
  <2> HIDE DEF back
  <2>4. back = data
    BY <2>1, <2>2, <2>3
  <2> QED BY <1>8, <2>4 DEF back
<1>11. ASSUME NEW i \in DOMAIN padded, i % s = 1 PROVE padded[i] = 0
  <2> DEFINE q == i \div s
             h == i - 1
  <2>1. i \in Nat /\ i \in 1..(L + symbols)
    BY <1>1, <1>3, <1>6
  <2>2. q \in Nat /\ i = q * s + (i % s)
    BY <1>1, <2>1, HasDigits
  <2>3. q * s \in Nat /\ (q * s) % s = 0
    <3> HIDE DEF q
    <3> QED BY <1>1, <2>2, Multiples
  <2>4. h = q * s
    <3> DEFINE a == q * s
    <3>1. a \in Nat /\ i = a + 1
      BY <1>11, <2>2, <2>3
    <3> HIDE DEF a
    <3>2. h = a
      BY <3>1
    <3> QED BY <3>2 DEF a
  <2>5. h % s = 0
    <3> HIDE DEF q, h
    <3> QED BY <2>3, <2>4
  <2> QED BY <1>2, <2>1, <2>5
<1> QED BY <1>10, <1>11 DEF padded, s

\* Whoever retrieves the fragments of a bundle from EigenDA gets the bundle.
LEMMA FragmentsAreData ==
  ASSUME NEW total \in Nat
  PROVE  LET fragments == CreateFragments(UpTo(total))
             dispersed == [k \in DOMAIN fragments |-> PadEmptyBytes(fragments[k].data)]
         IN  /\ \A k \in DOMAIN fragments : \A i \in DOMAIN dispersed[k] :
                  i % BytesPerSymbol = 1 => dispersed[k][i] = 0
             /\ FlattenSeq([k \in DOMAIN fragments |-> RemoveEmptyBytes(dispersed[k])]) = UpTo(total)
<1> DEFINE chunks == Chunks(UpTo(total), FragmentSize)
           n == (total + FragmentSize - 1) \div FragmentSize
           fragments == CreateFragments(UpTo(total))
           dispersed == [k \in DOMAIN fragments |-> PadEmptyBytes(fragments[k].data)]
           back == [k \in DOMAIN fragments |-> RemoveEmptyBytes(dispersed[k])]
<1>1. FragmentSize \in Nat \ {0}
  BY CodecAssumption
<1>2. Pieces(chunks, n, FragmentSize, total) /\ Len(chunks) = n
  BY <1>1, ChunksArePieces
<1>3. n \in Nat
  <2> DEFINE z == total + FragmentSize - 1
  <2>1. z \in Nat
    BY <1>1
  <2> HIDE DEF z
  <2>2. z \div FragmentSize \in Nat
    BY <1>1, <2>1, Quotient
  <2> QED BY <2>2 DEF z
<1> HIDE DEF n
<1>4. DOMAIN fragments = DOMAIN chunks /\ \A k \in DOMAIN chunks : fragments[k].data = chunks[k]
  <2> HIDE DEF chunks
  <2>1. fragments = [i \in DOMAIN chunks |-> [data |-> chunks[i], unused_bytes |-> FragmentSize - Len(chunks[i]),
                                              total_bytes |-> Len(chunks[i])]]
    BY DEF CreateFragments, chunks
  <2> HIDE DEF fragments
  <2> QED BY <2>1
<1> HIDE DEF chunks, fragments
<1>5. chunks \in Seq(Seq(Nat)) /\ DOMAIN chunks = 1..n
  BY <1>2 DEF Pieces
<1>6. ASSUME NEW k \in 1..n
      PROVE  /\ \A i \in DOMAIN dispersed[k] : i % BytesPerSymbol = 1 => dispersed[k][i] = 0
             /\ back[k] = chunks[k]
  <2> DEFINE data == chunks[k]
  <2>1. dispersed[k] = PadEmptyBytes(data) /\ back[k] = RemoveEmptyBytes(dispersed[k])
    BY <1>4, <1>5
  <2>2. data \in Seq(Nat)
    <3> DEFINE S == Seq(Nat)
    <3>1. chunks \in Seq(S) /\ k \in DOMAIN chunks
      BY <1>5
    <3> HIDE DEF S
    <3>2. k \in 1..Len(chunks)
      BY <3>1, LenProperties
    <3>3. chunks[k] \in S
      BY <3>1, <3>2, ElementOfSeq
    <3> QED BY <3>3 DEF S
  <2> HIDE DEF data, dispersed, back
  <2>3. /\ \A i \in DOMAIN PadEmptyBytes(data) : i % BytesPerSymbol = 1 => PadEmptyBytes(data)[i] = 0
        /\ RemoveEmptyBytes(PadEmptyBytes(data)) = data
    BY <2>2, PaddedAndBack
  <2>4. back[k] = data
    BY <2>1, <2>3
  <2> QED BY <2>1, <2>3, <2>4 DEF data
<1>7. back = chunks
  <2>1. back = [k \in 1..n |-> back[k]]
    BY <1>4, <1>5
  <2>2. chunks = [k \in 1..n |-> chunks[k]]
    BY <1>5
  <2> HIDE DEF back
  <2> QED BY <1>6, <2>1, <2>2
<1>8. FlattenSeq(chunks) = UpTo(total)
  BY <1>1, <1>2, <1>3, PiecesFlatten
<1>9. FlattenSeq(back) = UpTo(total)
  <2> HIDE DEF back
  <2> QED BY <1>7, <1>8
<1>10. \A k \in DOMAIN fragments : \A i \in DOMAIN dispersed[k] : i % BytesPerSymbol = 1 => dispersed[k][i] = 0
  <2> HIDE DEF dispersed
  <2> QED BY <1>4, <1>5, <1>6
<1> QED BY <1>9, <1>10 DEF fragments

\* The decoder accepts the complete blobs of a bundle and nothing else, and what it
\* returns is the bundle, bit by bit; the fragments that EigenDA gets are the bundle too.
THEOREM WhatIsDecoded == CodecSpec => []DecodesExactly
<1>1. ASSUME CodecInv PROVE DecodesExactly
  <2> DEFINE whole == {b \in BundleIds : /\ BlobsOf(b) # {}
                                         /\ ToSet(delivered) = BlobsOf(b)
                                         /\ Len(delivered) = Cardinality(BlobsOf(b))}
  <2>1. whole = WholeBundles
    BY DEF WholeBundles
  <2>2. Valid(delivered) <=> whole # {}
    <3> HIDE DEF whole
    <3> QED BY <1>1, <2>1, WholeIsValid, ValidIsWhole
  <2>3. \A b \in whole : Decoded(delivered) = [i \in 1..length[b] |-> i]
    <3> HIDE DEF whole
    <3>1. \A b \in WholeBundles : Decoded(delivered) = UpTo(length[b])
      BY <1>1, WholeIsDecoded
    <3> QED BY <2>1, <3>1 DEF UpTo
  <2>4. ASSUME NEW b \in BundleIds
        PROVE  LET data      == [i \in 1..(length[b] \div BitsPerByte) |-> i]
                   fragments == CreateFragments(data)
                   dispersed == [k \in DOMAIN fragments |-> PadEmptyBytes(fragments[k].data)]
               IN  /\ \A k \in DOMAIN fragments : \A i \in DOMAIN dispersed[k] :
                        i % BytesPerSymbol = 1 => dispersed[k][i] = 0
                   /\ FlattenSeq([k \in DOMAIN fragments |-> RemoveEmptyBytes(dispersed[k])]) = data
    <3> DEFINE total == length[b] \div BitsPerByte
    <3>1. length[b] \in Nat /\ BitsPerByte \in Nat \ {0}
      BY <1>1, Sizes DEF CodecInv, StorageInv
    <3>2. total \in Nat
      BY <3>1, Quotient
    <3>3. [i \in 1..total |-> i] = UpTo(total)
      BY DEF UpTo
    <3> HIDE DEF total
    <3>4. LET fragments == CreateFragments(UpTo(total))
              dispersed == [k \in DOMAIN fragments |-> PadEmptyBytes(fragments[k].data)]
          IN  /\ \A k \in DOMAIN fragments : \A i \in DOMAIN dispersed[k] :
                   i % BytesPerSymbol = 1 => dispersed[k][i] = 0
              /\ FlattenSeq([k \in DOMAIN fragments |-> RemoveEmptyBytes(dispersed[k])]) = UpTo(total)
      BY <3>2, FragmentsAreData
    <3> QED BY <3>4 DEF UpTo, total
  <2> QED BY <2>2, <2>3, <2>4 DEF DecodesExactly
<1> QED BY <1>1, CodecInvariance, PTL
=============================================================================
