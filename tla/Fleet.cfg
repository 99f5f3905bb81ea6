SPECIFICATION Spec
CONSTANTS
    Machines = {agent, relay}
    Relays = {relay}
    Names = {n1, n2}
    Codes = {c1}
    Requests = {q1, q2, q3, q4}
    None = none
    Hostname <- MCHostname
    Zone <- MCZone
    MaxUses <- MCMaxUses
    MaxFaults = 1
SYMMETRY MCSymmetry
INVARIANTS CodeBuysKeys NeverLockedOut RevocationIsReal NoTwin DirectBehindNothing
CHECK_DEADLOCK FALSE
