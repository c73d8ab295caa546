SPECIFICATION Spec
CONSTANTS
    list = list
    list_values = list_values
    Buffers = {list, list_values}
    Addrs = {100, 200, 300}
    ca = ca
    cb = cb
    cc = cc
    NUL = NUL
    Junk = Junk
    Cells = {ca, cb, cc, NUL}
    SIZE_BITS = 5
    WORD = 2
    Texts <- MCTexts
    Sizes = {1, 31}
    MaxItems = 3
    MaxBytes = 3
    MaxBlocks = 1
    Faults = {"alloc"}
INVARIANTS
    TypeOK
    ContentsKept
    OneOwner
    Collected
PROPERTIES
    FailedCallsLeaveNoTrace
