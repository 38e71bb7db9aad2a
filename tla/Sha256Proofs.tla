---------------------------- MODULE Sha256Proofs ----------------------------
(***************************************************************************)
(* Proofs about sha256_file_hex for any sizes of the file, the block and   *)
(* the read buffer.  While the file is read the blocks transformed and     *)
(* data_ hold its bytes in order (Collected); final_hex is called when all *)
(* have been read (AllRead) and adds one block or two, whose bytes are     *)
(* those of the padded file.                                               *)
(***************************************************************************)
EXTENDS Sha256, SequenceTheorems, TLAPS

\* The bytes given to update are in the blocks and in data_.
Collected ==
    /\ pos = BlockSize * Len(blocks) + datalen
    /\ bitlen = 8 * (BlockSize * Len(blocks))
    /\ \A q \in 0..Len(blocks)-1, i \in Index :
          blocks[q+1][i] = <<"file", BlockSize * q + i>>
    /\ \A i \in Index : i < datalen => data[i] = <<"file", BlockSize * Len(blocks) + i>>

\* A short read without an error has brought the rest of the file.
AllRead ==
    /\ pc = "update" => n <= size - pos /\ (short /\ ~error => n = size - pos)
    /\ pc = "final" => pos = size

Inv ==
    /\ TypeOK
    /\ pc \in {"read", "update", "final"} => Collected
    /\ AllRead
    /\ DigestOfPaddedFile

USE SizesAssumption, MaxSizeAssumption
----------------------------------------------------------------------------
(* Arithmetic of positions and blocks.                                     *)

LEMMA Position ==
    ASSUME NEW b \in Nat \ {0}, NEW p \in Nat
    PROVE  p = b * (p \div b) + (p % b) /\ p % b \in 0..b-1 /\ p \div b \in Nat
OBVIOUS

LEMMA BlocksInOrder ==
    ASSUME NEW b \in Nat \ {0}, NEW q \in Nat, NEW r \in Nat, q < r
    PROVE  b * q + b <= b * r /\ b * q \in Nat /\ b * r \in Nat
<1> DEFINE k == r - q - 1
<1>1. k \in Nat /\ r = q + 1 + k
  OBVIOUS
<1> HIDE DEF k
<1>2. b * r = b * q + b + b * k
  BY <1>1
<1>3. b * k \in Nat /\ b * q \in Nat
  BY <1>1
<1> QED BY <1>2, <1>3

\* The block a position is in.
LEMMA BlockOf ==
    ASSUME NEW b \in Nat \ {0}, NEW q \in Nat, NEW p \in Nat
    PROVE  /\ p < b * q => p \div b < q
           /\ ~(p < b * q) => q <= p \div b
<1>1. p = b * (p \div b) + (p % b) /\ p % b \in 0..b-1 /\ p \div b \in Nat
  BY Position
<1>2. CASE p \div b < q
  BY <1>1, <1>2, BlocksInOrder
<1>3. CASE q < p \div b
  BY <1>1, <1>3, BlocksInOrder
<1>4. CASE p \div b = q
  <2>1. b * q \in Nat /\ p = b * q + (p % b)
    BY <1>1, <1>4
  <2> QED BY <1>1, <1>4, <2>1
<1> QED BY <1>1, <1>2, <1>3, <1>4

LEMMA NextBlock ==
    ASSUME NEW k \in Nat
    PROVE  /\ BlockSize * k \in Nat
           /\ BlockSize * (k + 1) = BlockSize * k + BlockSize
           /\ BlockSize * (k + 2) = BlockSize * k + BlockSize + BlockSize
OBVIOUS
----------------------------------------------------------------------------

LEMMA ZeroIsByte == Zero \in Byte
BY DEF Zero, Byte

LEMMA InvInit == Init => Inv
<1> SUFFICES ASSUME Init PROVE Inv
  OBVIOUS
<1>1. blocks \in Seq([Index -> Byte]) /\ Len(blocks) = 0
  BY EmptySeq DEF Init
<1>2. data \in [Index -> Byte] /\ datalen \in Index
  BY ZeroIsByte DEF Init, Index
<1>3. TypeOK
  <2>1. /\ n \in 0..ReadSize /\ pos \in 0..size /\ size \in 0..MaxSize
        /\ bitlen \in 0..8*size
    BY DEF Init
  <2>2. short \in BOOLEAN /\ error \in BOOLEAN /\ pc = "read"
    BY DEF Init
  <2> QED BY <1>1, <1>2, <2>1, <2>2 DEF TypeOK
<1>4. Collected
  <2>1. BlockSize * Len(blocks) = 0 /\ 0..Len(blocks)-1 = {}
    BY <1>1
  <2>2. pos = 0 /\ bitlen = 0 /\ datalen = 0 /\ \A i \in Index : ~(i < 0)
    BY DEF Init, Index
  <2> QED BY <2>1, <2>2 DEF Collected
<1> QED BY <1>3, <1>4 DEF Init, Inv, AllRead, DigestOfPaddedFile

\* A byte goes into data_ behind the others.
LEMMA PutKeeps ==
    ASSUME Inv, pc = "update", n > 0
    PROVE  /\ Put(<<"file", pos>>) \in [Index -> Byte]
           /\ \A i \in Index : i <= datalen =>
                 Put(<<"file", pos>>)[i] = <<"file", BlockSize * Len(blocks) + i>>
           /\ pos + 1 \in 0..size /\ n - 1 \in 0..ReadSize
<1>1. /\ data \in [Index -> Byte] /\ datalen \in Index
      /\ pos \in 0..size /\ size \in 0..MaxSize /\ n \in 0..ReadSize
      /\ n <= size - pos
      /\ pos = BlockSize * Len(blocks) + datalen
      /\ \A i \in Index : i < datalen => data[i] = <<"file", BlockSize * Len(blocks) + i>>
  BY DEF Inv, TypeOK, Collected, AllRead
<1>2. pos \in 0..MaxSize-1 /\ pos + 1 \in 0..size /\ n - 1 \in 0..ReadSize
  BY <1>1
<1>3. <<"file", pos>> \in Byte
  BY <1>2 DEF Byte
<1>4. Put(<<"file", pos>>) \in [Index -> Byte]
  BY <1>1, <1>3 DEF Put
<1>5. ASSUME NEW i \in Index, i <= datalen
      PROVE  Put(<<"file", pos>>)[i] = <<"file", BlockSize * Len(blocks) + i>>
  <2>1. CASE i = datalen
    BY <1>1, <2>1 DEF Put
  <2>2. CASE i # datalen
    <3>1. i < datalen
      BY <1>1, <1>5, <2>2 DEF Index
    <3> QED BY <1>1, <2>2, <3>1 DEF Put
  <2> QED BY <2>1, <2>2
<1> QED BY <1>2, <1>4, <1>5

LEMMA TakeByteKeeps == ASSUME Inv, TakeByte PROVE Inv'
<1>1. /\ pc = "update" /\ pc' = "update" /\ n > 0
      /\ datalen + 1 < BlockSize /\ datalen' = datalen + 1
      /\ data' = Put(<<"file", pos>>) /\ pos' = pos + 1 /\ n' = n - 1
      /\ UNCHANGED <<size, short, error, bitlen, blocks>>
  BY DEF TakeByte
<1>2. TypeOK /\ Collected /\ AllRead
  BY <1>1 DEF Inv
<1>3. TypeOK'
  <2>1. datalen' \in Index
    BY <1>1, <1>2 DEF TypeOK, Index
  <2> QED BY <1>1, <1>2, <2>1, PutKeeps DEF TypeOK
<1>4. Collected'
  <2>1. BlockSize * Len(blocks) \in Nat
    BY <1>2, NextBlock, LenProperties DEF TypeOK
  <2>2. pos' = BlockSize * Len(blocks') + datalen'
    BY <1>1, <1>2, <2>1 DEF Collected, TypeOK, Index
  <2>3. \A i \in Index : i < datalen' => i <= datalen
    BY <1>1, <1>2 DEF TypeOK, Index
  <2> QED BY <1>1, <1>2, <2>2, <2>3, PutKeeps DEF Collected
<1>5. AllRead'
  BY <1>1, <1>2 DEF AllRead, TypeOK
<1> QED BY <1>1, <1>3, <1>4, <1>5 DEF Inv, DigestOfPaddedFile

LEMMA TakeLastByteKeeps == ASSUME Inv, TakeLastByte PROVE Inv'
<1>1. /\ pc = "update" /\ pc' = "update" /\ n > 0
      /\ datalen + 1 = BlockSize /\ datalen' = 0
      /\ data' = Put(<<"file", pos>>) /\ pos' = pos + 1 /\ n' = n - 1
      /\ blocks' = Append(blocks, data')
      /\ bitlen' = bitlen + 8 * BlockSize
      /\ UNCHANGED <<size, short, error>>
  BY DEF TakeLastByte, CountsBits
<1>2. TypeOK /\ Collected /\ AllRead
  BY <1>1 DEF Inv
<1> DEFINE k == Len(blocks)
<1>3. /\ k \in Nat /\ Len(blocks') = k + 1
      /\ blocks' \in Seq([Index -> Byte])
      /\ \A j \in 1..k : blocks'[j] = blocks[j]
      /\ blocks'[k + 1] = data'
  BY <1>1, <1>2, PutKeeps, AppendProperties, LenProperties DEF TypeOK
<1>4. BlockSize * k \in Nat /\ BlockSize * (k + 1) = BlockSize * k + BlockSize
  BY <1>3, NextBlock
<1>5. /\ pos' = BlockSize * k + BlockSize
      /\ bitlen' = 8 * (BlockSize * k + BlockSize)
  <2> DEFINE m == BlockSize * k
  <2>1. m \in Nat /\ pos = m + datalen /\ bitlen = 8 * m /\ datalen \in Int
    BY <1>2, <1>4 DEF Collected, TypeOK, Index
  <2> HIDE DEF m
  <2>2. pos' = m + BlockSize
    BY <1>1, <2>1
  <2>3. bitlen' = 8 * (m + BlockSize)
    BY <1>1, <2>1
  <2> QED BY <2>2, <2>3 DEF m
<1>6. TypeOK'
  <2>1. datalen' \in Index
    BY <1>1 DEF Index
  <2>2. bitlen' \in 0..8*size
    <3> DEFINE m == BlockSize * k + BlockSize
    <3>1. m \in Nat /\ pos' = m /\ bitlen' = 8 * m
      BY <1>4, <1>5
    <3>2. m <= size /\ size \in Nat /\ size' = size
      BY <1>1, <1>2, <3>1, PutKeeps DEF TypeOK
    <3> HIDE DEF m
    <3> QED BY <3>1, <3>2
  <2> QED BY <1>1, <1>2, <1>3, <2>1, <2>2, PutKeeps DEF TypeOK
<1>7. Collected'
  <2>1. ASSUME NEW q \in 0..k, NEW i \in Index
        PROVE  blocks'[q+1][i] = <<"file", BlockSize * q + i>>
    <3>1. CASE q = k
      <4>1. i <= datalen
        BY <1>1, <1>2 DEF TypeOK, Index
      <4> QED BY <1>1, <1>3, <3>1, <4>1, PutKeeps
    <3>2. CASE q # k
      <4>1. q \in 0..k-1 /\ q + 1 \in 1..k
        BY <1>3, <3>2
      <4> QED BY <1>2, <1>3, <4>1 DEF Collected
    <3> QED BY <3>1, <3>2
  <2>2. \A i \in Index : ~(i < datalen')
    BY <1>1 DEF Index
  <2>3. 0..Len(blocks')-1 = 0..k
    BY <1>3
  <2>4. pos' = BlockSize * Len(blocks') + datalen' /\ bitlen' = 8 * (BlockSize * Len(blocks'))
    BY <1>1, <1>3, <1>4, <1>5
  <2> QED BY <2>1, <2>2, <2>3, <2>4 DEF Collected
<1>8. AllRead'
  BY <1>1, <1>2 DEF AllRead, TypeOK
<1> QED BY <1>1, <1>6, <1>7, <1>8 DEF Inv, DigestOfPaddedFile
----------------------------------------------------------------------------
(* The padding.                                                            *)

LEMMA LengthByteIsByte ==
    ASSUME NEW bits \in Nat, NEW i \in Index, ~(i < LengthAt)
    PROVE  LengthByte(bits, i) \in Byte
<1> DEFINE w == 256^(BlockSize - 1 - i)
<1>1. w \in Nat \ {0}
  <2>1. BlockSize - 1 - i \in 0..LengthSize-1
    BY DEF Index, LengthAt
  <2> QED BY <2>1, PowersAssumption
<1> HIDE DEF w
<1>2. bits \div w \in Nat
  BY <1>1, Position
<1>3. (bits \div w) % 256 \in 0..255
  BY <1>2
<1> QED BY <1>3 DEF LengthByte, Byte, w

\* The last blocks are blocks.
LEMMA PaddingType ==
    ASSUME Inv, pc = "final", NEW bits \in Nat
    PROVE  /\ Marked \in [Index -> Byte]
           /\ WithLength(Cleared, bits) \in [Index -> Byte]
           /\ WithLength(Marked, bits) \in [Index -> Byte]
<1>1. data \in [Index -> Byte] /\ <<"pad", 128>> \in Byte
  BY DEF Inv, TypeOK, Byte
<1>2. Marked \in [Index -> Byte]
  BY <1>1, ZeroIsByte DEF Marked
<1>3. Cleared \in [Index -> Byte]
  BY ZeroIsByte DEF Cleared
<1>4. ASSUME NEW b \in [Index -> Byte] PROVE WithLength(b, bits) \in [Index -> Byte]
  BY LengthByteIsByte DEF WithLength
<1> QED BY <1>2, <1>3, <1>4

\* What final_hex knows when it is called.
LEMMA AtTheEnd ==
    ASSUME Inv, Final
    PROVE  LET m == BlockSize * Len(blocks)
           IN  /\ Len(blocks) \in Nat /\ m \in Nat
               /\ size = m + datalen /\ datalen \in Index /\ size \in Nat
               /\ bitlen' = 8 * size
               /\ pc = "final" /\ pc' = "done"
               /\ UNCHANGED <<pos, reading, datalen>>
<1>1. TypeOK /\ Collected /\ AllRead /\ pc = "final"
  BY DEF Inv, Final
<1>2. Len(blocks) \in Nat /\ BlockSize * Len(blocks) \in Nat
  BY <1>1, NextBlock, LenProperties DEF TypeOK
<1>3. size = BlockSize * Len(blocks) + datalen /\ datalen \in Index /\ size \in Nat
  BY <1>1 DEF Collected, AllRead, TypeOK
<1>4. bitlen' = 8 * size
  BY <1>1, <1>2, <1>3 DEF Final, Collected, Index
<1> QED BY <1>1, <1>2, <1>3, <1>4 DEF Final

\* Which blocks final_hex transforms.
LEMMA FinalBlocks ==
    ASSUME Inv, Final
    PROVE  /\ data' \in [Index -> Byte] /\ blocks' \in Seq([Index -> Byte])
           /\ \A j \in 1..Len(blocks) : blocks'[j] = blocks[j]
           /\ NeedsBlock => /\ Len(blocks') = Len(blocks) + 2
                            /\ blocks'[Len(blocks) + 1] = Marked
                            /\ blocks'[Len(blocks) + 2] = WithLength(Cleared, 8 * size)
           /\ ~NeedsBlock => /\ Len(blocks') = Len(blocks) + 1
                             /\ blocks'[Len(blocks) + 1] = WithLength(Marked, 8 * size)
<1> DEFINE S == [Index -> Byte]
           k == Len(blocks)
<1>1. /\ k \in Nat /\ blocks \in Seq(S) /\ 8 * size \in Nat
      /\ pc = "final" /\ bitlen' = 8 * size
  BY AtTheEnd DEF Inv, TypeOK
<1>2. Marked \in S /\ WithLength(Cleared, 8 * size) \in S /\ WithLength(Marked, 8 * size) \in S
  BY <1>1, PaddingType
<1>3. CASE NeedsBlock
  <2>1. data' = WithLength(Cleared, 8 * size) /\ blocks' = (blocks \o <<Marked>>) \o <<data'>>
    BY <1>1, <1>3 DEF Final
  <2>2. data' \in S
    BY <1>2, <2>1
  <2> HIDE DEF S, k
  <2>3. /\ <<Marked>> \in Seq(S) /\ Len(<<Marked>>) = 1 /\ <<Marked>>[1] = Marked
        /\ <<data'>> \in Seq(S) /\ Len(<<data'>>) = 1 /\ <<data'>>[1] = data'
    BY <1>2, <2>2
  <2> DEFINE one == blocks \o <<Marked>>
  <2>4. /\ one \in Seq(S) /\ Len(one) = k + 1
        /\ \A j \in 1..k+1 : one[j] = IF j <= k THEN blocks[j] ELSE <<Marked>>[j - k]
    BY <1>1, <2>3, ConcatProperties DEF k
  <2> HIDE DEF one
  <2>5. /\ one \o <<data'>> \in Seq(S) /\ Len(one \o <<data'>>) = k + 2
        /\ \A j \in 1..k+2 : (one \o <<data'>>)[j] =
              IF j <= k + 1 THEN one[j] ELSE <<data'>>[j - (k + 1)]
    <3>1. /\ one \o <<data'>> \in Seq(S)
          /\ Len(one \o <<data'>>) = Len(one) + Len(<<data'>>)
          /\ \A j \in 1..Len(one) + Len(<<data'>>) : (one \o <<data'>>)[j] =
                IF j <= Len(one) THEN one[j] ELSE <<data'>>[j - Len(one)]
      BY <2>3, <2>4, ConcatProperties
    <3>2. Len(one) + Len(<<data'>>) = k + 2 /\ Len(one) = k + 1
      BY <1>1, <2>3, <2>4
    <3> QED BY <3>1, <3>2
  <2>6. blocks' = one \o <<data'>>
    BY <2>1 DEF one
  <2>7. \A j \in 1..k : blocks'[j] = blocks[j]
    <3>1. ASSUME NEW j \in 1..k PROVE blocks'[j] = blocks[j]
      <4>1. j \in 1..k+1 /\ j \in 1..k+2 /\ j <= k /\ j <= k + 1
        BY <1>1
      <4> QED BY <2>4, <2>5, <2>6, <4>1
    <3> QED BY <3>1
  <2>8. blocks'[k + 1] = Marked
    <3>1. k + 1 \in 1..k+1 /\ k + 1 \in 1..k+2 /\ ~(k + 1 <= k) /\ (k + 1) - k = 1
      BY <1>1
    <3> QED BY <2>3, <2>4, <2>5, <2>6, <3>1
  <2>9. blocks'[k + 2] = data'
    <3>1. k + 2 \in 1..k+2 /\ ~(k + 2 <= k + 1) /\ (k + 2) - (k + 1) = 1
      BY <1>1
    <3> QED BY <2>3, <2>5, <2>6, <3>1
  <2> QED BY <1>3, <2>1, <2>2, <2>5, <2>6, <2>7, <2>8, <2>9 DEF k, S
<1>4. CASE ~NeedsBlock
  <2>1. data' = WithLength(Marked, 8 * size) /\ blocks' = (blocks \o <<>>) \o <<data'>>
    BY <1>1, <1>4 DEF Final
  <2>2. data' \in S
    BY <1>2, <2>1
  <2> HIDE DEF S, k
  <2>3. blocks' = Append(blocks, data')
    BY <1>1, <2>1, <2>2, ConcatEmptySeq, AppendIsConcat
  <2>4. /\ blocks' \in Seq(S) /\ Len(blocks') = k + 1
        /\ \A j \in 1..k : blocks'[j] = blocks[j]
        /\ blocks'[k + 1] = data'
    BY <1>1, <2>2, <2>3, AppendProperties DEF k
  <2> QED BY <1>4, <2>1, <2>2, <2>4 DEF k, S
<1> QED BY <1>3, <1>4

\* The blocks are those of the padded file.
LEMMA FinalPads == ASSUME Inv, Final PROVE DigestOfPaddedFile'
<1> DEFINE k == Len(blocks)
           m == BlockSize * k
<1>1. /\ k \in Nat /\ m \in Nat /\ size = m + datalen
      /\ datalen \in 0..BlockSize-1 /\ size' = size /\ size \in Nat
  BY AtTheEnd DEF reading, Index
<1>2. BlockSize * (k + 1) = m + BlockSize /\ BlockSize * (k + 2) = m + BlockSize + BlockSize
  BY <1>1, NextBlock
<1>3. LengthAt = BlockSize - LengthSize /\ LengthAt \in 1..BlockSize
  BY DEF LengthAt
<1> DEFINE Total == IF NeedsBlock THEN m + BlockSize + BlockSize ELSE m + BlockSize
           Padded(p) == IF p < size THEN <<"file", p>>
                        ELSE IF p = size THEN <<"pad", 128>>
                        ELSE IF p < Total - LengthSize THEN Zero
                        ELSE LengthByte(8 * size, p % BlockSize)
<1>4. Len(blocks') * BlockSize = Total /\ Len(blocks') \in Nat /\ Total \in Nat
  <2>1. CASE NeedsBlock
    <3>1. Len(blocks') = k + 2
      BY <2>1, FinalBlocks
    <3> QED BY <1>1, <1>2, <2>1, <3>1
  <2>2. CASE ~NeedsBlock
    <3>1. Len(blocks') = k + 1
      BY <2>2, FinalBlocks
    <3> QED BY <1>1, <1>2, <2>2, <3>1
  <2> QED BY <2>1, <2>2
<1>5. /\ Len(blocks') * BlockSize >= size + 1 + LengthSize
      /\ (Len(blocks') - 1) * BlockSize < size + 1 + LengthSize
  <2>1. (Len(blocks') - 1) * BlockSize = Total - BlockSize
    BY <1>4
  <2> HIDE DEF m
  <2>2. Total >= size + 1 + LengthSize /\ Total - BlockSize < size + 1 + LengthSize
    BY <1>1, <1>3 DEF NeedsBlock
  <2> QED BY <1>4, <2>1, <2>2
<1>6. ASSUME NEW p \in 0..Total-1
      PROVE  blocks'[1 + p \div BlockSize][p % BlockSize] = Padded(p)
  <2> DEFINE q == p \div BlockSize
             i == p % BlockSize
  <2>1. p \in Nat /\ p = BlockSize * q + i /\ i \in Index /\ q \in Nat
    <3>1. p \in Nat
      BY <1>4
    <3> QED BY <3>1, Position DEF Index
  <2>2. CASE q < k
    <3>1. BlockSize * q + BlockSize <= m /\ BlockSize * q \in Nat
      BY <1>1, <2>1, <2>2, BlocksInOrder
    <3> DEFINE a == BlockSize * q
    <3>a. p = a + i /\ a + BlockSize <= m /\ a \in Nat
      BY <2>1, <3>1
    <3> HIDE DEF a, m, q, i
    <3>2. p < size
      BY <1>1, <2>1, <3>a DEF Index
    <3>3. blocks'[1 + q] = blocks[q + 1] /\ q \in 0..k-1
      <4>1. q \in 0..k-1 /\ q + 1 \in 1..k /\ 1 + q = q + 1
        BY <1>1, <2>1, <2>2
      <4> QED BY <4>1, FinalBlocks
    <3>4. blocks[q + 1][i] = <<"file", p>>
      <4>1. Collected
        BY DEF Inv, Final
      <4> QED BY <2>1, <3>3, <4>1 DEF Collected
    <3> QED BY <3>2, <3>3, <3>4 DEF q, i
  <2>3. CASE q = k
    <3>1. p = m + i
      BY <2>1, <2>3
    <3> HIDE DEF m, q, i
    <3>2. /\ p < size <=> i < datalen
          /\ p = size <=> i = datalen
      BY <1>1, <2>1, <3>1 DEF Index
    <3>3. 1 + q = k + 1
      BY <1>1, <2>3
    <3>4. i < datalen => data[i] = <<"file", p>>
      <4>1. Collected
        BY DEF Inv, Final
      <4> QED BY <2>1, <3>1, <4>1 DEF Collected, m
    <3>5. Marked[i] = IF p < size THEN <<"file", p>>
                      ELSE IF p = size THEN <<"pad", 128>> ELSE Zero
      BY <2>1, <3>2, <3>4 DEF Marked
    <3>6. CASE NeedsBlock
      <4>1. blocks'[k + 1] = Marked
        BY <3>6, FinalBlocks
      <4>2. p < Total - LengthSize
        BY <1>1, <2>1, <3>1, <3>6 DEF Index
      <4> QED BY <3>3, <3>5, <4>1, <4>2 DEF q, i
    <3>7. CASE ~NeedsBlock
      <4>1. blocks'[k + 1][i] = IF i < LengthAt THEN Marked[i] ELSE LengthByte(8 * size, i)
        BY <2>1, <3>7, FinalBlocks DEF WithLength
      <4>2. p < Total - LengthSize <=> i < LengthAt
        BY <1>1, <1>3, <2>1, <3>1, <3>7 DEF Index
      <4>3. i <= datalen => i < LengthAt
        BY <1>1, <1>3, <2>1, <3>7 DEF NeedsBlock, Index
      <4>4. ~(i < LengthAt) => ~(p < size) /\ p # size
        BY <1>1, <2>1, <3>2, <4>3 DEF Index
      <4> QED BY <3>3, <3>5, <4>1, <4>2, <4>4 DEF q, i
    <3> QED BY <3>6, <3>7
  <2>4. CASE q > k
    <3>1. NeedsBlock /\ q = k + 1
      <4>1. BlockSize * (k + 1) <= p
        <5>1. CASE q = k + 1
          <6>1. BlockSize * (k + 1) \in Nat /\ p = BlockSize * (k + 1) + i
            <7>1. BlockSize * q = BlockSize * (k + 1)
              BY <5>1
            <7>2. BlockSize * (k + 1) \in Nat
              BY <1>1, <1>2
            <7> QED BY <2>1, <7>1, <7>2
          <6> DEFINE c == BlockSize * (k + 1)
          <6> HIDE DEF c, i
          <6>2. c <= p
            BY <2>1, <6>1 DEF Index, c
          <6> QED BY <6>2 DEF c
        <5>2. CASE k + 1 < q
          <6>1. BlockSize * (k + 1) + BlockSize <= BlockSize * q /\ BlockSize * q \in Nat
                /\ BlockSize * (k + 1) \in Nat
            BY <1>1, <2>1, <5>2, BlocksInOrder
          <6> DEFINE a == BlockSize * q
                     c == BlockSize * (k + 1)
          <6>2. c + BlockSize <= a /\ p = a + i /\ a \in Nat /\ c \in Nat
            BY <2>1, <6>1
          <6> HIDE DEF a, c, i
          <6>3. c <= p
            BY <2>1, <6>2 DEF Index
          <6> QED BY <6>3 DEF c
        <5> QED BY <1>1, <2>1, <2>4, <5>1, <5>2
      <4>2. NeedsBlock
        BY <1>1, <1>2, <4>1
      <4>3. p < BlockSize * (k + 2)
        BY <1>1, <1>2, <4>2
      <4>4. q < k + 2
        <5>1. k + 2 \in Nat /\ p \in Nat
          BY <1>1, <2>1
        <5> QED BY <4>3, <5>1, BlockOf
      <4> QED BY <1>1, <2>1, <2>4, <4>2, <4>4
    <3>2. p = m + BlockSize + i
      BY <1>2, <2>1, <3>1
    <3> HIDE DEF m, q, i
    <3>3. 1 + q = k + 2
      BY <1>1, <3>1
    <3>4. blocks'[k + 2][i] = IF i < LengthAt THEN Zero ELSE LengthByte(8 * size, i)
      BY <2>1, <3>1, FinalBlocks DEF WithLength, Cleared
    <3>5. /\ ~(p < size) /\ p # size
          /\ p < Total - LengthSize <=> i < LengthAt
      BY <1>1, <1>3, <2>1, <3>1, <3>2 DEF Index
    <3> QED BY <3>3, <3>4, <3>5 DEF q, i
  <2> QED BY <1>1, <2>1, <2>2, <2>3, <2>4
<1>7. \A p \in 0..Len(blocks')*BlockSize-1 : Len(blocks') * BlockSize - LengthSize = Total - LengthSize
  BY <1>4
<1> HIDE DEF Total
<1> QED BY <1>1, <1>4, <1>5, <1>6 DEF DigestOfPaddedFile, ByteOf

LEMMA FinalKeeps == ASSUME Inv, Final PROVE Inv'
<1>1. /\ pc' = "done" /\ bitlen' = 8 * size /\ size \in Nat
      /\ UNCHANGED <<pos, size, n, short, error, datalen>>
  BY AtTheEnd DEF reading
<1>2. TypeOK'
  <2>1. bitlen' \in 0..8*size'
    BY <1>1
  <2> QED BY <1>1, <2>1, FinalBlocks DEF Inv, TypeOK
<1> QED BY <1>1, <1>2, FinalPads DEF Inv, AllRead
----------------------------------------------------------------------------

LEMMA InvNext == Inv /\ [Next]_vars => Inv'
<1> SUFFICES ASSUME Inv, [Next]_vars PROVE Inv'
  OBVIOUS
<1>1. CASE Read
  <2>1. /\ pc = "read" /\ pc' = "update" /\ UNCHANGED <<size, pos, hash>>
        /\ \E k \in 0..ReadSize :
              /\ k <= size - pos /\ n' = k
              /\ error' = (k # ReadSize /\ k < size - pos)
              /\ short' = (k < ReadSize)
    BY <1>1 DEF Read, IsShort
  <2>2. TypeOK'
    BY <2>1 DEF Inv, TypeOK, hash
  <2>3. Collected'
    BY <2>1 DEF Inv, Collected, hash
  <2>4. AllRead'
    BY <2>1 DEF Inv, TypeOK, AllRead
  <2> QED BY <2>1, <2>2, <2>3, <2>4 DEF Inv, DigestOfPaddedFile
<1>2. CASE EndUpdate
  <2>1. /\ pc = "update" /\ n = 0 /\ UNCHANGED <<pos, reading, hash>>
        /\ pc' = IF short THEN (IF error THEN "failed" ELSE "final") ELSE "read"
    BY <1>2 DEF EndUpdate, AfterShortRead
  <2>2. TypeOK'
    BY <2>1 DEF Inv, TypeOK, reading, hash
  <2>3. Collected'
    BY <2>1 DEF Inv, Collected, reading, hash
  <2>4. AllRead'
    BY <2>1 DEF Inv, TypeOK, AllRead, reading
  <2> QED BY <2>1, <2>2, <2>3, <2>4 DEF Inv, DigestOfPaddedFile
<1>3. CASE TakeByte
  BY <1>3, TakeByteKeeps
<1>4. CASE TakeLastByte
  BY <1>4, TakeLastByteKeeps
<1>5. CASE Final
  BY <1>5, FinalKeeps
<1>6. CASE Ended \/ UNCHANGED vars
  <2>1. UNCHANGED <<pc, size, pos, n, short, error, data, datalen, bitlen, blocks>>
    BY <1>6 DEF Ended, vars, reading, hash
  <2>2. TypeOK'
    BY <2>1 DEF Inv, TypeOK
  <2>3. Collected' <=> Collected
    BY <2>1 DEF Collected
  <2>4. AllRead' /\ DigestOfPaddedFile'
    BY <2>1 DEF Inv, AllRead, DigestOfPaddedFile, ByteOf
  <2> QED BY <2>1, <2>2, <2>3, <2>4 DEF Inv
<1> QED BY <1>1, <1>2, <1>3, <1>4, <1>5, <1>6 DEF Next

LEMMA Invariance == Spec => []Inv
BY InvInit, InvNext, PTL DEF Spec
----------------------------------------------------------------------------

\* Every variable of the hash stays in its type.
THEOREM TypeCorrect == Spec => []TypeOK
<1>1. Inv => TypeOK
  BY DEF Inv
<1> QED BY Invariance, <1>1, PTL

\* A digest is that of the whole file, padded as the standard has it.
THEOREM PaddedFileDigested == Spec => []DigestOfPaddedFile
<1>1. Inv => DigestOfPaddedFile
  BY DEF Inv
<1> QED BY Invariance, <1>1, PTL

\* Every byte read is in its place in the blocks or in data_.
THEOREM BytesInPlace == Spec => []EveryByteInPlace
<1>1. Inv => EveryByteInPlace
  <2> SUFFICES ASSUME Inv, Collected PROVE
        /\ pos = BlockSize * Len(blocks) + datalen
        /\ bitlen = 8 * BlockSize * Len(blocks)
        /\ \A p \in 0..pos-1 :
              (IF p < BlockSize * Len(blocks) THEN ByteOf(p) ELSE data[p % BlockSize])
              = <<"file", p>>
    BY DEF Inv, EveryByteInPlace
  <2> DEFINE k == Len(blocks)
  <2>1. /\ k \in Nat /\ BlockSize * k \in Nat /\ datalen \in 0..BlockSize-1
        /\ pos = BlockSize * k + datalen
    BY NextBlock, LenProperties DEF Inv, TypeOK, Collected, Index
  <2>2. bitlen = 8 * BlockSize * k
    BY <2>1 DEF Collected
  <2>3. ASSUME NEW p \in 0..pos-1
        PROVE  (IF p < BlockSize * k THEN ByteOf(p) ELSE data[p % BlockSize]) = <<"file", p>>
    <3> DEFINE q == p \div BlockSize
               i == p % BlockSize
    <3>1. p \in Nat /\ p = BlockSize * q + i /\ i \in Index /\ q \in Nat
      <4>1. p \in Nat
        BY <2>1
      <4> QED BY <4>1, Position DEF Index
    <3>2. CASE p < BlockSize * k
      <4>1. q < k
        BY <2>1, <3>1, <3>2, BlockOf
      <4>2. q \in 0..k-1 /\ 1 + q = q + 1
        BY <2>1, <3>1, <4>1
      <4> HIDE DEF q, i
      <4>3. blocks[1 + q][i] = <<"file", p>>
        BY <3>1, <4>2 DEF Collected
      <4> QED BY <3>2, <4>3 DEF ByteOf, q, i
    <3>3. CASE ~(p < BlockSize * k)
      <4>1. p < BlockSize * (k + 1)
        BY <2>1, NextBlock
      <4>2. q = k
        <5>1. k + 1 \in Nat /\ p \in Nat /\ p \div BlockSize \in Nat
          BY <2>1, <3>1
        <5>2. p \div BlockSize < k + 1
          BY <4>1, <5>1, BlockOf
        <5>3. k <= p \div BlockSize
          BY <2>1, <3>3, <5>1, BlockOf
        <5> QED BY <2>1, <5>1, <5>2, <5>3
      <4>3. p = BlockSize * k + i
        BY <3>1, <4>2
      <4> HIDE DEF q, i
      <4>4. i < datalen
        BY <2>1, <3>1, <4>3 DEF Index
      <4>5. data[i] = <<"file", p>>
        BY <3>1, <4>3, <4>4 DEF Collected
      <4> QED BY <3>3, <4>5 DEF i
    <3> QED BY <3>2, <3>3
  <2> QED BY <2>1, <2>2, <2>3
<1> QED BY Invariance, <1>1, PTL
=============================================================================
