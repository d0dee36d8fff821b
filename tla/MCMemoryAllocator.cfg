SPECIFICATION Spec
CONSTANTS
    POOL_SIZE = 3
    NUM_OF_FREE_LIST = 3
    PAGE_SIZE = 4
    RamStart = 2
    RamSize = 16
    Reserved <- MCReserved
    Sizes = {1, 3, 4}
    Aligns = {1, 4}
    MaxFreeSize = 20
INVARIANTS
    ChainCoalesced
    FreeListsExact
    OwnedNeverDuplicate
    AllocateFindsRoom
PROPERTY ImplementsOwnership
