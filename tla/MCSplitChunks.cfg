CONSTANTS
    a = a
    b = b
    Chars = {a, b}
    Newline = Newline
    MaxStringLen = 2
    MaxEntries = 2
    MaxChars = 6
SPECIFICATION Spec
INVARIANTS
    SplitsLikeWrapping
CHECK_DEADLOCK FALSE
