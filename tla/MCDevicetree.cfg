SPECIFICATION Spec
CONSTANTS
    Blobs <- MCBlobs
    Targets <- MCTargets
    DefaultCells = 2
INVARIANTS
    EnumeratesMatches
    ReadsOwnProperties
PROPERTY EnumerationEnds
