SPECIFICATION Spec
CONSTANTS
    PRs <- OnePR
    Traits <- Laden
    Actions = {"changelog", "approve", "merge", "refresh", "retry", "remedy"}
    DryRun = FALSE
    MergeAutoMerge = FALSE
    Readers = 2
    MergeLane = 1
    MaxRetries = 2
    MaxPolls = 1
    MaxLooks = 1
    MaxHead = 3
    Strict = TRUE
    FirstColors = {"pending", "green"}
    FirstStates = {"clean", "behind", "dirty"}
    RedRows = {"Failed", "Stale", "Cancelled"}
    Hazards = {"push", "outside", "basemoves", "unknown", "readfail", "lostreply", "refusal", "basemodified", "cancel"}
INVARIANTS
    TypeOK
    MergedHeadPassed
PROPERTIES
    KeepsPromise
