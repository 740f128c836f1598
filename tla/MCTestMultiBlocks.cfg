\* The test ends: SIGTERM at the end of the file, or a critical error.
CONSTANTS
    RtFifos <- MCRtFifos
    MaxSize = 3
    NbChunks = 4

SPECIFICATION Spec
CHECK_DEADLOCK FALSE

INVARIANT TypeOK
INVARIANT NoOverfullPush
INVARIANT NoEmptyPop
INVARIANT ChunksStayInOrder
PROPERTY WritersEventuallyPush
