CONSTANTS
    TickMod = 16
    S3 = 1
    MaxTick = 2
    Rates = {r1, r2}
    FirstRate = r1
    NoRate = NoRate
    EventTypes = {0}
    CommunicationSubs = {0, 3, 4}
    StartTick = 1
SPECIFICATION Spec
INVARIANT RatesAgree
PROPERTIES RefusedHasNoEffect ControlInSession
