SPECIFICATION DSpec
CONSTANTS
    Parts = {"policy", "checks", "rules"}
    Repos = {"app"}
    Scopes = {"team", "query"}
    Lists <- SomeLists
    Documents <- SomeDocuments
    Pulls <- SomePulls
    Heads <- SomeHeads
    Facts <- SomeFacts
    Failures <- SomeFailures
    SecurityJobs = {"trivy"}
    MaxPolls = 2
    Directories <- SomeDirectories
    Subjects <- SomeSubjects
INVARIANTS
    ExceptionsNarrow
    NoBlindScope
    ImpostorsWait
    NoRowOutgrows
    ProofsAreGiven
    RedIsExcused
    RequiredPassed
    GreenPasses
    FailureRan
    Diagnosed
    NarrowFirst
