CONSTANTS
    RegMod = 4
    BusMod = 4
    MemSize = 4
    HostBus <- NoHostBus
    NMI = 1
    Levels = {}
    IntAck = FALSE
    AckVectors = {}
    IllgCb = FALSE
    Models = {0}
    TrapVectors = {32}
    OperandSizes = {2}
    Instructions = {"chk"}
    HostCalls = {"setar"}
    PcValues = {0}
    SpValues = {1}
    OperandAddrs = {1}
    SaveAt = {"idle", "fetch", "exec", "tracecheck", "trace"}
    MaxDepth = 1
    LoaderBusMod = 16777216
    AddrMod = 1073741824
    MemSizes = {0, 4, 16777216}
    Start = {0, 3, 16777214, 1073741823}
    SrecLines <- FewSrecLines
    IhexLines <- FewIhexLines
    MaxLoads = 2
    MaxLines = 3
    Values = {0, 1, 2}
    Capacities = {145, 146, 512}
    MaxSaves = 2
SPECIFICATION HostSpec
CHECK_DEADLOCK FALSE
INVARIANTS
    HostTypeOK
    LoadedIsFile
    RestoresOrRefuses
    AppliedIsPrefix
    RestoredIsSafe
