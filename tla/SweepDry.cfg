SPECIFICATION Spec
CONSTANTS
    PRs <- FivePRs
    Traits <- Readied
    Actions = {"changelog", "approve", "merge", "refresh", "retry", "remedy"}
    DryRun = TRUE
    MergeAutoMerge = FALSE
    Readers = 1
    MergeLane = 1
    MaxRetries = 2
    MaxPolls = 0
    MaxLooks = 1
    MaxHead = 2
    Strict = FALSE
    FirstColors = {"green", "red"}
    FirstStates = {"clean"}
    RedRows = {"Stale", "Cancelled", "Obsolete"}
    Hazards = {"readfail"}
PROPERTIES
    DryRunWritesNothing
