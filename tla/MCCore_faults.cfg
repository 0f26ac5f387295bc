CONSTANTS
    RegMod = 8
    BusMod = 8
    MemSize = 6
    HostBus <- NoHostBus
    NMI = 1
    Levels = {}
    IntAck = FALSE
    AckVectors = {}
    IllgCb = FALSE
    Models = {0}
    TrapVectors = {32}
    OperandSizes = {2, 4}
    Instructions = {"jmp", "trap", "rte", "modify"}
    HostCalls = {"setar", "access"}
    PcValues = {0, 1, 6}
    SpValues = {0, 1}
    OperandAddrs = {1, 6}
SPECIFICATION Spec
INVARIANTS
    TypeOK
    GuardsFollowNesting
    NestingBounded
    ProcessedAsSupervisor
PROPERTIES
    UserStackKept
