SPECIFICATION FairSpec
CONSTANTS
    m = m
    r = r
    z = z
    c1 = c1
    c2 = c2
    Machines = {m}
    Relay = r
    Zone = {z}
    Local = {m}
    Controls = {c1, c2}
    None = none
    Scope <- MCScope
    Pins = {{}, {m}}
    Id <- MCId
    MaxChanges = 2
INVARIANTS HandedOver OneVantagePoint
PROPERTIES NeverDark
CHECK_DEADLOCK FALSE
