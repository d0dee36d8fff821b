SPECIFICATION FairSpec
CONSTANTS
    x = x
    y = y
    Char = {x, y}
    NUL = NUL
    BUFFER = 4
    Burst = 6
    MaxInput = 7
INVARIANTS
    BufferHoldsUnread
    StatusMeansUnread
PROPERTY InterruptDrains
