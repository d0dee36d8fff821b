SPECIFICATION Spec
CONSTANTS
    c1 = c1
    c2 = c2
    nowhere = nowhere
    wide = wide
    pl011 = pl011
    blk = blk
    timer = timer
    CPU = {c1}
    UartCPU = c1
    SPI = {pl011}
    UartSPI = pl011
    BlkSPI = pl011
    Timer = timer
    Affinity = {c1, nowhere, wide}
    WideAff0 = {wide}
    NLR = 2
    Booted = FALSE
    GuestOps <- SetupOps
    MaxQueue = 1
    MaxRx = 1
PROPERTIES
    LiveEntriesKept
    TimerHandedOver
