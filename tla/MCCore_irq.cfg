CONSTANTS
    RegMod = 4
    BusMod = 4
    MemSize = 4
    HostBus <- FullHostBus
    NMI = 2
    Levels = {0, 1, 2}
    IntAck = TRUE
    AckVectors = {4}
    IllgCb = TRUE
    Models = {0}
    TrapVectors = {32}
    OperandSizes = {1, 2, 4}
    Instructions = {"stop", "tosr", "trapv"}
    HostCalls = {"reset"}
    PcValues = {0, 1}
    SpValues = {0}
    OperandAddrs = {0}
SPECIFICATION FairSpec
INVARIANTS
    StopSuspends
PROPERTIES
    ServiceKeepsMask
    NmiOncePerEdge
    StepsEnd
    StopWakes
