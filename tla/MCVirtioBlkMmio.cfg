SPECIFICATION FairSpec
CONSTANTS
    WRAP = 4
    queue_size = 2
    MaxSegments = 2
    MaxRequests = 7
INVARIANTS
    UsedRingIntact
    CompletedInOrder
    CompletionSignalled
PROPERTY RequestsAnswered
