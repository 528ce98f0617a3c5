SPECIFICATION Spec
CONSTANTS
    PRs <- ThreePRs
    Traits <- Kinds
    Actions = {"approve", "merge", "refresh"}
    DryRun = FALSE
    MergeAutoMerge = FALSE
    Readers = 2
    MergeLane = 1
    MaxRetries = 2
    MaxPolls = 0
    MaxLooks = 1
    MaxHead = 2
    Strict = TRUE
    FirstColors = {"green"}
    FirstStates = {"clean"}
    RedRows = {"Failed"}
    Hazards = {}
INVARIANTS
    FreshUnderLane
    MergesReported
    LabelTellsRow
