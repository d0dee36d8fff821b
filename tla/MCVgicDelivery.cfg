SPECIFICATION FairGuestSpec
CONSTANTS
    c1 = c1
    c2 = c2
    nowhere = nowhere
    wide = wide
    pl011 = pl011
    blk = blk
    timer = timer
    CPU = {c1, c2}
    UartCPU = c1
    SPI = {pl011}
    UartSPI = pl011
    BlkSPI = pl011
    Timer = timer
    Affinity = {c1, c2, nowhere, wide}
    WideAff0 = {wide}
    NLR = 2
    Booted = TRUE
    GuestOps <- RoutingOps
    MaxQueue = 2
    MaxRx = 2
INVARIANTS
    QueuedIsSignalled
    HwEntryOwnsTimer
PROPERTIES
    QueueDrained
    
    
