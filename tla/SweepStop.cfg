SPECIFICATION FairSpec
CONSTANTS
    PRs <- TwoPRs
    Traits <- Lost
    Actions = {"approve", "merge", "refresh"}
    DryRun = FALSE
    MergeAutoMerge = FALSE
    Readers = 2
    MergeLane = 1
    MaxRetries = 2
    MaxPolls = 0
    MaxLooks = 1
    MaxHead = 2
    Strict = FALSE
    FirstColors = {"green"}
    FirstStates = {"clean", "dirty"}
    RedRows = {"Failed"}
    Hazards = {"readfail", "lostreply", "limit"}
INVARIANTS
    LaneHeld
    BlindLeftPending
    QueueMatchesRows
PROPERTIES
    MergedIsFinal
    Terminates
