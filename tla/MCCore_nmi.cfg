CONSTANTS
    RegMod = 4
    BusMod = 4
    MemSize = 4
    HostBus <- FullHostBus
    NMI = 7
    Levels = {3, 7}
    IntAck = FALSE
    AckVectors = {}
    IllgCb = FALSE
    Models = {0}
    TrapVectors = {32}
    OperandSizes = {1, 2, 4}
    Instructions = {"stop", "tosr", "trapv"}
    HostCalls = {}
    PcValues = {0, 1}
    SpValues = {0}
    OperandAddrs = {0}
SPECIFICATION Spec
INVARIANT NmiNotLost
