SPECIFICATION Spec
CONSTANTS
    relay = relay
    machine = machine
    Direct <- MCDirect
    Zone <- MCZone
    Via <- MCVia
    Instructions = {i1, i2}
    NoMachine = NoMachine
    NoInstruction = NoInstruction
    AskedKinds = {"order", "restart", "stop", "resume"}
    MaxFaults = 1
SYMMETRY MCSymmetry
INVARIANTS
    CarriedOnce
    AnsweredByItsMachine
    NothingVanishes
    NoBeatSleepsThrough
    StoppedAgentStaysStopped
PROPERTIES
    PromiseKept
CHECK_DEADLOCK FALSE
