\* Mesh mode: one burst of terminal 2 with packets for the gateway and for terminal 3.
CONSTANTS
    Sats <- MCSats
    IslPeer <- MCIslPeer
    IslEnabled <- MCIslEnabled
    Spots = {1}
    GwId <- MCGwId
    StIds <- MCMixedStIds
    SatIdGw <- MCSatIdGw
    SatIdSt <- MCSatIdSt
    EntityType <- MCEntityType
    MeshMode = TRUE
    BroadcastTalId = 31
    NextKeys <- MCNextKeys
    Msgs <- MCMixedMsgs

SPECIFICATION Spec

\* The satellites wait for the next message once every one has settled.
CHECK_DEADLOCK FALSE

INVARIANT PacketsLeaveTowardDestination
