CONSTANTS
    Elements = {e}
    NoVec = NoVec
    Amounts = {0, 1, 2}
    Capacities = {0, 1, 3, 8, 9}
    Slack = {0, 1}
    MaxLen = 4
SPECIFICATION Spec
INVARIANTS
    HalfCapacity
PROPERTIES
    TakenEmpty
    ReusesVecs
CHECK_DEADLOCK FALSE
