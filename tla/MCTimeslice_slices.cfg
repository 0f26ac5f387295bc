CONSTANTS
    IntMod = 2048
    Requests = {12}
    Adjustments <- ShrinkAndGrow
    Waits <- SomeWaits
    Kinds <- AllKinds
    Targets = {1000}
    MaxCalls = 1
    MaxDebt = 4
    MaxSlices = 1
SPECIFICATION FairSpec
CHECK_DEADLOCK FALSE
INVARIANTS
    TypeOK
    ConsumedIsSpent
    StepCost
PROPERTIES
    ImplementsClock
    ExecuteReturns
    EndedMeansLast
