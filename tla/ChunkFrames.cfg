\* Every size and chunk size in arithmetic modulo 16; any value in one field
\* of one header.
CONSTANTS
    Wrap = 16
    ChunkSizes = {1, 2, 3, 5, 7, 8, 12}
    HeaderSize = 3
    MaxFaults = 1
SPECIFICATION FramesSpec
INVARIANTS
    WritesInsideFile
    OwnFramesAccepted
    ChunksTileFile
