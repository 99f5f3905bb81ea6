SPECIFICATION Spec
CONSTANTS
    c1 = c1
    c2 = c2
    Controls = {c1, c2}
    Requests = {q1, q2, q3}
    None = none
    Revisions <- MCRevisions
    Said = {"identified", "resolved"}
    MaxFaults = 1
SYMMETRY MCSymmetry
INVARIANTS DeclaredIsShown ResolvedIsCleared
PROPERTIES ToldWhenItStands
CHECK_DEADLOCK FALSE
