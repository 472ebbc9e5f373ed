SPECIFICATION FairSpec
CONSTANTS
    a = a
    b = b
    Services <- MCServices
    Definitions <- MCDefinitions
    Counts <- MCCounts
    Missing <- MCMissing
    Compared <- MCCompared
    SelfHeal <- MCSelfHeal
    Unreliable = TRUE
INVARIANTS
    OneAnnouncementPerEpisode
    AnnouncedIsRecorded
    PendingKeepsEpisode
PROPERTIES
    PendingUntilConverged
    ErrorClearedBySuccess
    DriftIsHealed
