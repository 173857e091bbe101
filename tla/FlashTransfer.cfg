CONSTANTS
    TickMod = 16
    S3 = 2
    SeqMod = 3
    Blocks = 5
    StartTick = 1
    MaxTick = 5
SPECIFICATION Spec
INVARIANTS TypeOK TransferPaired CompletedIsWhole
PROPERTIES DownloadImplementsImage
