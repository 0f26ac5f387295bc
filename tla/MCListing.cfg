CONSTANTS
    OpWords <- AllWords
    Models = {0, 1}
SPECIFICATION Spec
CHECK_DEADLOCK FALSE
INVARIANTS
    SameInstruction
    SameLength
