\* Every file and mode the plugin may be loaded with; the value set past
\* the end of a scenario that does not loop.
CONSTANTS
    Files <- MCFiles
    Granularities <- MCGranularities
    Garbage = Garbage
    NotSet = NotSet

SPECIFICATION Spec

INVARIANT ValueFollowsScenario
