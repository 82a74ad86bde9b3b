SPECIFICATION MicSpec
CONSTANTS
 MicStarts = 2
 MicChunks = 2
 MicFaults = 0
 StopsWhileAsking = TRUE
INVARIANT StopReleases
CHECK_DEADLOCK FALSE
