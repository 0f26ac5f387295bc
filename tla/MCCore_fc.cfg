CONSTANTS
    RegMod = 6
    BusMod = 6
    MemSize = 4
    HostBus <- NoHostBus
    NMI = 1
    Levels = {}
    IntAck = FALSE
    AckVectors = {}
    IllgCb = FALSE
    Models = {0}
    TrapVectors = {32}
    OperandSizes = {1, 2, 4}
    Instructions = {"jmp", "trap", "rte", "compute"}
    HostCalls = {"setsr", "setar", "setpc", "access"}
    PcValues = {0, 1, 4}
    SpValues = {0, 1}
    OperandAddrs = {0, 1, 4}
SPECIFICATION Spec
INVARIANT FramesUseDataSpace
