\* Two runs over one PR whose head and base move, two PRs that share a
\* budget of two suites, two candidates of a team that may rescue two PRs a
\* week, and a head with two workflows on which somebody may start a second
\* pipeline.
SPECIFICATION USpec
CONSTANTS
    Parts = {"remedy", "handoff", "rerun"}
    Asked <- SomeAsked
    TitleOf <- Titles
    Required = {"old", "ci"}
    SuiteLimit = 2
    Moved = {1}
    MaxHeads = 2
    MaxBase = 2
    MaxRuns = 2
    JobsOf <- TheJobs
    Needs <- TheNeeds
    Tokens = {TRUE, FALSE}
    MaxPipelines = 2
    MaxFlows = 4
    MaxSweeps = 2
    Table <- Rescuable
    Teammates <- Others
    Failures <- Found
    Roots = {"", "node"}
    TeamFile <- Said
    Weeks = {2}
    Toolchains = {"", "go"}
    MaxMarks = 1
    MaxMoves = 2
    MaxHandoffs = 2
INVARIANTS
    RerunOnce
    RepeatsExplained
    SuitesBounded
    WithinWeek
PROPERTIES
    NoCollision
\* A PR may close, and a bound may stop everything else.
CHECK_DEADLOCK FALSE
