CONSTANTS
    TickMod = 16
    CanDl = 4
    SnMod = 3
    LenMod = 16
    MaxPayload = 16
    BlockSize = 0
    NBs = 2
    NCr = 1
    TxMailboxes = 2
    RxId = "7E0"
    TxId = "7E8"
    RequestPlans <- MCRequestPlans
    ResponseLengths = {0, 3, 8}
    BlockSizes = {0, 1}
    RingSlots = 2
    MaxTick = 4
    QuietTick = 2
SPECIFICATION FairSpec
PROPERTY TransmissionEnds
CHECK_DEADLOCK FALSE
