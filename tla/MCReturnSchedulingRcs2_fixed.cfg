\* Fixed-length encapsulation: packets are never fragmented, and one of
\* them may be larger than a burst; the encapsulation context may fail.
CONSTANTS
    Fifos <- MCFixedFifos
    AccessType <- MCFixedAccessType
    MaxSizePkt = 2
    MaxBurstBytes = 1000
    PacketLengths = {800, 1200}
    Allocs = {10}
    MaxPackets = 3
    Fragmentable = FALSE
    MinFragment = 100
    ChunkMayFail = TRUE

SPECIFICATION Spec

INVARIANT ByteConservation
INVARIANT FifoOrder

CONSTRAINT NewLengthBound
