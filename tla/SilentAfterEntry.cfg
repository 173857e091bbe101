CONSTANTS
    TickMod = 32
    S3 = 2
    Levels = {1}
    RequiredSession <- MCRequiredSession
    MaxAttempts = 2
    DelayAfterFail = 3
    Seeds = {1}
    Services <- MCServices
    Requests <- MCRequests
    SubFunctions = {}
    Keys = {}
    StartTick = 1
    MaxTick = 7
    LastRequestTick = 5
SPECIFICATION FairSpec
PROPERTY EnteredSessionEnds
CHECK_DEADLOCK FALSE
