\* CRDSA: two terminals in cat1 and cat2 empty, one PDU of two packets with two replicas each, and one simulated terminal in cat1.
CONSTANTS
    Tals = {1, 2}
    BroadcastTalId = 9
    Cats <- MCTwoCats
    CatOf <- MCCatOf
    NbSlots <- MCTwoNbSlots
    NbCarriers <- MCTwoNbCarriers
    Replicas = 2
    PduParts = 2
    MaxPdus = 1
    AcksPerFrame = 1
    Algo = "CRDSA"
    SimNbTal <- MCTwoOneSim
    SimNbPackets = 1
    SimReplicas = 1
    RandMaxReachable = FALSE

SPECIFICATION Spec

INVARIANT TypeOK
INVARIANT NoDuplicateDelivery
