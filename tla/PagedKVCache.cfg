\* Three interchangeable sequences over five blocks of two tokens; one append
\* may need zero, one, two or three blocks.
SPECIFICATION Spec
CONSTANTS
    SeqIds = {s1, s2, s3}
    NumBlocks = 5
    BlockSize = 2
    MaxAppend = 5
SYMMETRY Symmetry
INVARIANTS
    TypeOK
    NoBlockShared
    NoBlockLost
    SlackBounded
    PeakIsHighWater
PROPERTIES
    TablesOnlyGrow
    ImplementsTokenPool
