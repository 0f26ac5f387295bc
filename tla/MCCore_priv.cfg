CONSTANTS
    RegMod = 4
    BusMod = 4
    MemSize = 2
    HostBus <- ReadHostBus
    NMI = 1
    Levels = {}
    IntAck = TRUE
    AckVectors = {}
    IllgCb = TRUE
    Models = {0, 1}
    TrapVectors = {33}
    OperandSizes = {1, 2, 4}
    Instructions = {"bcc", "dbcc", "jmp", "rts", "rtr", "rte", "trap", "chk", "div", "trapv",
        "unimplemented", "stop", "reset", "tosr", "fromsr", "moveusp", "link", "unlk",
        "pea", "lea", "move", "movem", "movep", "compute", "modify", "scc",
        "addx", "abcd", "cmpm", "fromccr", "rtd", "movec", "moves"}
    HostCalls = {"setmodel", "reset", "setpc", "setsr"}
    PcValues = {0, 2}
    SpValues = {0, 2}
    OperandAddrs = {0, 1}
SPECIFICATION Spec
INVARIANTS
    FaultEndsInstruction
    QuietBetweenSteps
PROPERTIES
    PrivilegeHeld
