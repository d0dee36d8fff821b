SPECIFICATION Spec
CONSTANTS
    AddressBits = 10
    LevelBits = 2
    Geometries <- MCGeometries
    Regions <- MCRegions
    Pages <- MCPages
    RamBases = {2, 3, 6, 10, 37, 38, 42}
    MaxVms = 2
INVARIANTS
    MappedExactly
    NoStrayMapping
