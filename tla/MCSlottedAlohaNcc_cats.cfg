\* CRDSA, two categories with one terminal each.
CONSTANTS
    Tals = {1, 2}
    BroadcastTalId = 9
    Cats <- MCTwoCats
    CatOf <- MCSplitCatOf
    NbSlots <- MCTwoNbSlots
    NbCarriers <- MCTwoNbCarriers
    Replicas = 2
    PduParts = 1
    MaxPdus = 1
    AcksPerFrame = 1
    Algo = "CRDSA"
    SimNbTal <- MCTwoNoSim
    SimNbPackets = 2
    SimReplicas = 2
    RandMaxReachable = FALSE

SPECIFICATION Spec

INVARIANT NoLostPdu
