SPECIFICATION Spec
CONSTANTS
    None = None
    UINT8_MAX = 2
    Lines <- MCLines
    MaxLines = 2
    TextFiles <- MCTextFiles
    Radix = 4
    CodePoints = {9, 40, 65, 127, 128, 2047, 2048, 65535, 65536, 1114111}
    MaxChars = 3
    Stray = {65, 128, 195, 226, 240, 255}
    MaxStray = 2
    Columns = {0, 1, 2, 3, 5, 8}
    TAB_SIZE = 4
CHECK_DEADLOCK FALSE
INVARIANTS
    TablesExact
    TextMeasured
    DamageSeen
