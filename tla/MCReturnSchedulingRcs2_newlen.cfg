CONSTANTS
    Fifos <- MCFifos
    AccessType <- MCAccessType
    MaxSizePkt = 2
    MaxBurstBytes = 1000
    PacketLengths = {800, 1200}
    Allocs = {10}
    MaxPackets = 3
    Fragmentable = TRUE
    MinFragment = 100
    ChunkMayFail = TRUE

SPECIFICATION Spec








INVARIANT NewLengthNoWrap
