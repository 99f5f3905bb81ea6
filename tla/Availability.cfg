SPECIFICATION CheckSpec
CONSTANTS
    a = a
    nobody = nobody
    Agents = {a}
    Nobody = nobody
    Reported <- MCReported
    NoFigure = noFigure
    Resolutions = {1, 2}
    DayLength = 4
    Scale = 12
    WindowSets <- MCWindowSets
    Start = 1
    End = 8
    MaxChecks = 4
INVARIANTS FourNumbersAddUp AgreesWithReference MarkersChangeNothing
CHECK_DEADLOCK FALSE
