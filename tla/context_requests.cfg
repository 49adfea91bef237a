\* Every kind of request, three sources, budgets that cut and that do not.
CONSTANTS
    Holdings <- HeldItems
    Requests <- AllRequests
    TieredResults <- Searched
    Failing <- FailingSets
    Trigger = 85
    LastN = 4
    SummaryWindow = 2
    MaxRetries = 1
    LlmLengths = {1, 40}
    LowScore = 40
    DistractionPercent = 50
    ConfusionPercent = 40
SPECIFICATION Spec
INVARIANTS TypeOK MissingSourcesAreNamed NothingBetterLeftOut NothingLostSilently AggregatedIsNotCut
PROPERTIES EveryRequestEnds
