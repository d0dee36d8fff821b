SPECIFICATION FairSpec
CONSTANTS
    c0 = c0
    c1 = c1
    c2 = c2
    CPU = {c0, c1, c2}
    BootCPU = c0
    CpuNodes <- MCCpuNodes
    BUFFER_SIZE = 2
    None = None
INVARIANTS
    CurrentVmOwn
    ActiveVmListed
    StackPerCpu
PROPERTIES
    BootedVmBecomesActive
    DiskServed
