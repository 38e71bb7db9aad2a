\* Files of up to five blocks, read in pieces that fall on every position of
\* a block.  From 32 bytes on the length takes two bytes.
CONSTANTS
    BlockSize = 8
    LengthSize = 2
    ReadSize = 6
    MaxSize = 40
SPECIFICATION FairSpec
INVARIANTS
    DigestOfPaddedFile
PROPERTY HashEnds
