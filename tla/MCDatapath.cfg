CONSTANTS
    Half = 2
    MaxLimbs = 3
    Upper <- DirtyUpper
    FirstDigits = {0, 1, 2, 3, 4, 5, 6, 7, 8, 9}
    LaterDigits = {0, 9}
    MaxBytes = 2
    Width = 5
    MaxCount = 24
    Bits = 4
    ByteBits = 2
    Patterns <- FewPatterns
    Numbers = {0, 1, 6, 9}
    MaxSteps = 2
SPECIFICATION DatapathSpec
CHECK_DEADLOCK FALSE
INVARIANTS
    UnitTypeOK
    SumCorrect
    DifferenceCorrect
    ZeroMeansWhole
    OverflowMeansWrapped
    ConditionsCompare
    DecimalExact
    ShiftsExact
    MulDivExact
    WalkIsDivision
    LogicExact
