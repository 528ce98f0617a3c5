\* One head with two pipelines of one workflow, which is rerun in both.
SPECIFICATION USpec
CONSTANTS
    Parts = {"rerun"}
    Asked <- SomeAsked
    TitleOf <- Titles
    Required = {"old", "ci"}
    SuiteLimit = 2
    Moved = {1}
    MaxHeads = 2
    MaxBase = 2
    MaxRuns = 2
    JobsOf <- OneWorkflow
    Needs <- TheNeeds
    Tokens = {TRUE, FALSE}
    MaxPipelines = 2
    MaxFlows = 4
    MaxSweeps = 2
    Table <- Rescuable
    Teammates <- Others
    Failures <- Found
    Roots = {"", "node"}
    TeamFile <- Said
    Weeks = {2}
    Toolchains = {"", "go"}
    MaxMarks = 1
    MaxMoves = 2
    MaxHandoffs = 2
INVARIANTS
    OncePerHead
CHECK_DEADLOCK FALSE
