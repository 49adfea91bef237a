SPECIFICATION Spec
CHECK_DEADLOCK FALSE
CONSTANTS
    Warmed <- WarmedLists
    Remembered <- RememberedLists
    External <- ExternalLists
    HotTimeout = 1
    WarmTimeout = 2
    ColdTimeout = 3
    HotTtl = 3
    Searches <- SearchCalls
    Found <- FoundLists
    Plans <- AllPlans
    RrfK = 2
    RrfUnit = 2520
    Alpha = 20
    ToolIds = {"t1", "t2", "t3"}
    TaskTypes <- Tasks
    FitsTask <- Fits
    RagThreshold = 2
    ToolTopK = 2
    MaxCalls = 2
INVARIANTS
    AnswersWithinBudget
    NoTierHidesAnother
    BestOfEachPathIsFound
    ReliableToolsAreSelected
PROPERTIES
    HotServesFreshItems
