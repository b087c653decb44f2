SPECIFICATION FairSpec
CONSTANTS
    Routes <- MCRoutes
    RequireHuman = TRUE
    Requesters <- MCRequesters
    Sequence = "sequence"
    Slots = {1, 2}
    MaxAsks = 1
    Torn = "newest"
    MaxFaults = 1
    MaxCrashes = 1
CHECK_DEADLOCK FALSE
INVARIANTS
    ChunksCurrent
    ReadyWasAudited
PROPERTIES
    ChunksArePublishedView
    BookBecomesCurrent
