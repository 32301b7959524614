CONSTANTS
    Nul = Nul
    MaxLen = 12
    Overhead = 10
SPECIFICATION Spec
INVARIANTS
    SlicesTerminated
CHECK_DEADLOCK FALSE
