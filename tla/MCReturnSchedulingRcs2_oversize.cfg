\* Fixed-length encapsulation: packets are never fragmented, and one of
\* them may be larger than a burst.
CONSTANTS
    Fifos <- MCFixedFifos
    AccessType <- MCFixedAccessType
    MaxSizePkt = 2
    MaxBurstBytes = 1000
    PacketLengths = {800, 1200}
    Allocs = {10}
    MaxPackets = 3
    Fragmentable = FALSE
    MinFragment = 100
    ChunkMayFail = FALSE

SPECIFICATION Spec



INVARIANT NoEmptyFinalize

CONSTRAINT NewLengthBound
