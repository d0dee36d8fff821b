SPECIFICATION Spec
CONSTANTS
    c1 = c1
    c2 = c2
    nowhere = nowhere
    wide = wide
    pl011 = pl011
    blk = blk
    timer = timer
    CPU = {c1}
    UartCPU = c1
    SPI = {pl011, blk}
    UartSPI = pl011
    BlkSPI = blk
    Timer = timer
    Affinity = {c1, nowhere, wide}
    WideAff0 = {wide}
    NLR = 3
    Booted = TRUE
    GuestOps <- DeviceOps
    MaxQueue = 1
    MaxRx = 2
INVARIANTS
    TimerOwnedByVgic
