SPECIFICATION FairSpec
CONSTANTS
    relay = relay
    machine = machine
    Direct <- MCDirect
    Zone <- MCZone
    Via <- MCVia
    Instructions = {i1, i2}
    NoMachine = NoMachine
    NoInstruction = NoInstruction
    AskedKinds = {"restart"}
    MaxFaults = 1
PROPERTIES
    EventuallyHandedOver
    EventuallyPassedOn
CHECK_DEADLOCK FALSE
