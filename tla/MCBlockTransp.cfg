\* Star mode, two satellites, the messages of MCStarMsgs.
CONSTANTS
    Sats <- MCSats
    IslPeer <- MCIslPeer
    IslEnabled <- MCIslEnabled
    Spots = {1}
    GwId <- MCGwId
    StIds <- MCStIds
    SatIdGw <- MCSatIdGw
    SatIdSt <- MCSatIdSt
    EntityType <- MCEntityType
    MeshMode = FALSE
    BroadcastTalId = 31
    NextKeys <- MCNextKeys
    Msgs <- MCStarMsgs

SPECIFICATION Spec

\* The satellites wait for the next message once every one has settled.
CHECK_DEADLOCK FALSE

INVARIANT TypeOK
INVARIANT OnlyUnroutableDropped
PROPERTY EveryMessageSettles
