\* DSA, one simulated terminal on two carriers of two slots, and rand() able to return RAND_MAX.
CONSTANTS
    Tals = {1, 2}
    BroadcastTalId = 9
    Cats <- MCCats
    CatOf <- MCCatOf
    NbSlots <- MCSimNbSlots
    NbCarriers <- MCSimNbCarriers
    Replicas = 1
    PduParts = 1
    MaxPdus = 2
    AcksPerFrame = 1
    Algo = "DSA"
    SimNbTal <- MCOneSim
    SimNbPackets = 2
    SimReplicas = 2
    RandMaxReachable = TRUE

SPECIFICATION Spec

INVARIANT SimulationStaysInSlots
