CONSTANTS
    IntMod = 2048
    Requests = {12}
    Adjustments = {}
    Waits = {0}
    Kinds = {"claimed"}
    Targets = {0}
    MaxCalls = 0
    MaxDebt = 0
    MaxSlices = 1
SPECIFICATION Spec
CHECK_DEADLOCK FALSE
INVARIANT
    StepCost
