SPECIFICATION Spec
CONSTANTS
    PRs <- TwoPRs
    Traits <- Plain
    Actions = {"approve", "merge", "refresh"}
    DryRun = FALSE
    MergeAutoMerge = FALSE
    Readers = 2
    MergeLane = 1
    MaxRetries = 2
    MaxPolls = 0
    MaxLooks = 1
    MaxHead = 1
    Strict = FALSE
    FirstColors = {"green"}
    FirstStates = {"clean"}
    RedRows = {"Failed"}
    Hazards = {}
INVARIANTS
    OurConflictAwaitsRebase
