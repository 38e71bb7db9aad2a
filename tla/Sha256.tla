------------------------------- MODULE Sha256 -------------------------------
(***************************************************************************)
(* sha256_file_hex: the file is read piece by piece, update collects the   *)
(* bytes in a block that is transformed whenever it is full, final_hex     *)
(* pads the rest.  What matters here is which blocks are transformed and   *)
(* in which order; the compression function itself is left out.            *)
(*                                                                         *)
(* A byte is <<"file", p>>, the p-th byte of the file, or <<"pad", v>>, a  *)
(* byte of value v that does not come from it.                             *)
(***************************************************************************)
EXTENDS Integers, Sequences

CONSTANTS BlockSize,   \* 64
          LengthSize,  \* 8, the bytes of the length at the end of the padding
          ReadSize,    \* 4 MiB, the size of the read buffer
          MaxSize      \* the longest file

ASSUME SizesAssumption ==
    /\ BlockSize \in Nat \ {0} /\ LengthSize \in Nat \ {0}
    /\ LengthSize < BlockSize
    /\ ReadSize \in Nat \ {0}
\* A fact of arithmetic that the provers do not know.
ASSUME PowersAssumption == \A k \in 0..LengthSize-1 : 256^k \in Nat \ {0}
ASSUME MaxSizeAssumption == MaxSize \in Nat /\ 8 * MaxSize < 256^LengthSize

Zero == <<"pad", 0>>
Index == 0..BlockSize-1
Byte == ({"file"} \X (0..MaxSize-1)) \cup ({"pad"} \X (0..255))

VARIABLES pc,       \* "read", "update", "final", "done" or "failed"
          size,     \* the size of the file
          pos,      \* how many of its bytes have been given to update
          n,        \* what fread has returned and update has yet to take
          short,    \* fread has returned fewer bytes than asked for
          error,    \* ferror
          data,     \* data_
          datalen,  \* datalen_
          bitlen,   \* bitlen_
          blocks    \* the blocks transformed so far, which state_ digests

reading == <<size, n, short, error>>
hash == <<data, datalen, bitlen, blocks>>
vars == <<pc, pos, reading, hash>>

TypeOK ==
    /\ pc \in {"read", "update", "final", "done", "failed"}
    /\ size \in 0..MaxSize
    /\ pos \in 0..size
    /\ n \in 0..ReadSize
    /\ short \in BOOLEAN
    /\ error \in BOOLEAN
    /\ data \in [Index -> Byte]
    /\ datalen \in Index
    /\ bitlen \in 0..8*size
    /\ blocks \in Seq([Index -> Byte])

Init ==
    /\ pc = "read"
    /\ size \in 0..MaxSize
    /\ pos = 0
    /\ n = 0
    /\ short = FALSE
    /\ error = FALSE
    /\ data = [i \in Index |-> Zero]
    /\ datalen = 0
    /\ bitlen = 0
    /\ blocks = <<>>
----------------------------------------------------------------------------
(* sha256_file_hex                                                         *)

\* Mutation operator: an empty read does not end the loop.
IsPartial(k) == 0 < k /\ k < ReadSize

\* `n < buffer.size()'
IsShort(k) == k < ReadSize

\* fread returns fewer bytes than asked for at the end of the file, and when
\* it fails.
Read ==
    /\ pc = "read"
    /\ \E k \in 0..ReadSize :
          /\ k <= size - pos
          /\ error' = (k # ReadSize /\ k < size - pos)
          /\ n' = k
          /\ short' = IsShort(k)
    /\ pc' = "update"
    /\ UNCHANGED <<size, pos, hash>>

\* A short read is the last: the end of the file, or an error.
AfterShortRead == IF error THEN "failed" ELSE "final"

\* update has taken all that has been read.
EndUpdate ==
    /\ pc = "update"
    /\ n = 0
    /\ pc' = IF short THEN AfterShortRead ELSE "read"
    /\ UNCHANGED <<pos, reading, hash>>
----------------------------------------------------------------------------
(* Sha256::update                                                          *)

Put(b) == [data EXCEPT ![datalen] = b]

\* A byte that does not fill the block.
TakeByte ==
    /\ pc = "update"
    /\ n > 0
    /\ datalen + 1 < BlockSize
    /\ data' = Put(<<"file", pos>>)
    /\ datalen' = datalen + 1
    /\ pos' = pos + 1
    /\ n' = n - 1
    /\ UNCHANGED <<pc, size, short, error, bitlen, blocks>>

CountsBits == bitlen + 8 * BlockSize

\* The byte that does.
TakeLastByte ==
    /\ pc = "update"
    /\ n > 0
    /\ datalen + 1 = BlockSize
    /\ data' = Put(<<"file", pos>>)
    /\ blocks' = Append(blocks, data')
    /\ bitlen' = CountsBits
    /\ datalen' = 0
    /\ pos' = pos + 1
    /\ n' = n - 1
    /\ UNCHANGED <<pc, size, short, error>>
----------------------------------------------------------------------------
(* Sha256::final_hex                                                       *)

LengthAt == BlockSize - LengthSize

\* The byte of the length at index i of the last block, in big endian.
LengthByte(bits, i) == <<"pad", (bits \div 256^(BlockSize - 1 - i)) % 256>>

\* Mutation operator: `i >= 56'.
NeedsBlockAtBoundary == datalen + 1 >= LengthAt

\* `i > 56': the length does not fit behind the mark 0x80.
NeedsBlock == datalen + 1 > LengthAt

\* data_ with the mark behind its datalen_ bytes and zeros behind the mark.
Marked ==
    [i \in Index |->
        IF i < datalen THEN data[i]
        ELSE IF i = datalen THEN <<"pad", 128>> ELSE Zero]

\* memset(data_, 0, 56)
Cleared == [i \in Index |-> Zero]

WithLength(block, bits) ==
    [i \in Index |-> IF i < LengthAt THEN block[i] ELSE LengthByte(bits, i)]

Final ==
    /\ pc = "final"
    /\ bitlen' = bitlen + 8 * datalen
    /\ data' = WithLength(IF NeedsBlock THEN Cleared ELSE Marked, bitlen')
    /\ blocks' = blocks \o (IF NeedsBlock THEN <<Marked>> ELSE <<>>) \o <<data'>>
    /\ pc' = "done"
    /\ UNCHANGED <<pos, reading, datalen>>

Ended == pc \in {"done", "failed"} /\ UNCHANGED vars

Next == Read \/ EndUpdate \/ TakeByte \/ TakeLastByte \/ Final \/ Ended

Spec == Init /\ [][Next]_vars

FairSpec == Spec /\ WF_vars(Next)
----------------------------------------------------------------------------
(* Properties.                                                             *)

ByteOf(p) == blocks[1 + p \div BlockSize][p % BlockSize]

\* While the file is read the blocks and the rest in data_ are the bytes
\* given to update, each once and in order, wherever the reads fell.
EveryByteInPlace ==
    pc \in {"read", "update", "final"} =>
        /\ pos = BlockSize * Len(blocks) + datalen
        /\ bitlen = 8 * BlockSize * Len(blocks)
        /\ \A p \in 0..pos-1 :
              (IF p < BlockSize * Len(blocks) THEN ByteOf(p) ELSE data[p % BlockSize])
              = <<"file", p>>

\* A digest is that of the whole file padded as FIPS 180-4 has it: the bytes,
\* one bit 1, as few zeros as bring the length, in bits, to the end of a block.
DigestOfPaddedFile ==
    pc = "done" =>
        /\ Len(blocks) * BlockSize >= size + 1 + LengthSize
        /\ (Len(blocks) - 1) * BlockSize < size + 1 + LengthSize
        /\ \A p \in 0..Len(blocks)*BlockSize-1 :
              ByteOf(p) =
                IF p < size THEN <<"file", p>>
                ELSE IF p = size THEN <<"pad", 128>>
                ELSE IF p < Len(blocks) * BlockSize - LengthSize THEN Zero
                ELSE LengthByte(8 * size, p % BlockSize)

\* The loop ends for every size, the multiples of the buffer's included.
HashEnds == <>(pc \in {"done", "failed"})
=============================================================================
