CONSTANTS
    Size = 3
    LastFrame = 8
    Idle = Idle
    Empty = Empty
    Torn = Torn
SPECIFICATION FairSpec
INVARIANTS TypeOK CopyIntact
PROPERTIES RingImplementsFifo QueuedIsReceived
