CONSTANTS
    ToolNames <- MCToolNames
    NoEntry = NoEntry
    N = 2
    Task <- MCTask
    Contract <- MCContract
    Producers = {"search_reminder", "search_holiday"}
    EvidenceRouting = TRUE
    Requests <- MCRequests
    ForcedTool = "none"
    Nothing = "none"
    OtherLog <- MCOtherLog
    FirstRegistry <- MCFirstRegistry
    MaxBundle = 1
    RiskThreshold = 2
    FairChanceLimit = 2
    MaxRuns = 2
    MaxKills = 1
    MaxOthers = 1
SPECIFICATION Spec
INVARIANTS
    EvidenceIsOfCleanRuns
    BlocksRestOnScenarios
    FrozenRunsRouteByTheRegistry
    PromotedAreNotAtRisk
