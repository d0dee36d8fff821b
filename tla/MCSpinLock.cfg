SPECIFICATION FairSpec
CONSTANTS
    CPU = {c1, c2}
    Lock <- MCLock
    Order <- MCOrder
    Rank <- MCRank
    NoLock = NoLock
    Work = 2
    IrqWork = 2
INVARIANTS
    MutualExclusion
    IrqNeverOverHolder
    DaifBalanced
    WaitChainRises
PROPERTY AllLocksReleased
CHECK_DEADLOCK FALSE
