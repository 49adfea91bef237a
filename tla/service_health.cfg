SPECIFICATION Spec
CONSTANTS
    Deployments <- SomeDeployments
    MaxFlips = 1
INVARIANTS
    ProcessorHasItsStores
    ExitClosesTheRest
    OkMeansUp
