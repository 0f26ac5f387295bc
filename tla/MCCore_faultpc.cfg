CONSTANTS
    RegMod = 6
    BusMod = 6
    MemSize = 4
    HostBus <- NoHostBus
    NMI = 2
    Levels = {0, 1, 2}
    IntAck = FALSE
    AckVectors = {}
    IllgCb = FALSE
    Models = {0}
    TrapVectors = {32}
    OperandSizes = {1, 2, 4}
    Instructions = {"jmp", "trap", "rte", "movem"}
    HostCalls = {"setsr", "setar", "setpc", "access"}
    PcValues = {0, 1, 4}
    SpValues = {0, 1}
    OperandAddrs = {0, 1, 4}
SPECIFICATION Spec
INVARIANT FaultPcIsCurrent
