\* A failed encapNextPacket leaves the tail of a freed packet in encap_packets.
CONSTANTS
    a1 = a1
    Addrs <- MCAddrs
    MaxPackets = 2
    MaxLen = 3
    FreeSizes = {0, 1, 2}

SPECIFICATION Spec
CHECK_DEADLOCK FALSE

INVARIANT ChunksOfOwnPacket
