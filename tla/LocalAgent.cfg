SPECIFICATION FairSpec
CONSTANTS
    Calls = {c1, c2}
    None = none
    MaxBoots = 2
    MaxMoves = 1
    MaxDeaths = 3
    MaxFaults = 2
INVARIANTS KeyIsItsRow StopsWithItsServer
PROPERTIES AgentComesBack
CHECK_DEADLOCK FALSE
