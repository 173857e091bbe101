CONSTANTS
    TickMod = 32
    S3 = 2
    Levels = {1}
    RequiredSession <- MCRequiredSession
    MaxAttempts = 2
    DelayAfterFail = 2
    Seeds = {1}
    Services <- MCServices
    Requests <- MCRequests
    SubFunctions = {}
    Keys = {}
    StartTick = 1
    MaxTick = 6
    LastRequestTick = 4
SPECIFICATION FairSpec
INVARIANTS TypeOK SessionTimerInv
PROPERTIES NoEarlyExpiry ProgrammingFromDefault SilenceEndsSession
