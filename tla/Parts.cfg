CONSTANTS
    TickMod = 16
    S3 = 2
    MaxTick = 4
    Levels = {1, 3}
    RequiredSession <- MCRequiredSession
    MaxAttempts = 2
    DelayAfterFail = 2
    Seeds = {1}
    SubFunctions = {0, 1, 2, 3, 4}
    Keys = {0, 1}
    CodeBits = {0, 1, 2}
    Codes <- MCCodes
    MaxDtcs = 2
    Snapshots = {s1, s2}
    NoSnapshot = NoSnapshot
    StatusMasks <- MCStatusMasks
    ReportRoom = {3, 6, 7, 8, 11}
    Wrap = 8
    Timeouts = {0, 1, 3, 7}
    Period = 3
    LastMs = 17
    Secrets <- MCSecrets
    LfsrSeeds <- MCLfsrSeeds
    MaxSeeds = 12
    DataBytes <- MCDataBytes
    MaxData = 4
    Ids <- MCIds
    Masks <- MCMasks
    Lengths = {8}
    NoFrame = NoFrame
    Readable = {"short", "long"}
    Writable = {"short", "locked"}
    DidUnknown = "unknown"
    DataLength <- MCDataLength
    Values = {v1, v2}
    FirstValue = v1
    Room = 7
    MaxDids = 3
    ByteBase = 2
    WordBytes = 3
    Header = 1
    Formats <- MCFormats
    Cells = 3
SPECIFICATION PartsSpec
INVARIANTS SecTypeOK LockoutInv GuessRate
INVARIANTS DtcTypeOK StatusMeaning ReportTruthful
INVARIANTS SoftExact PeriodicExact SeedUsable CrcRight FilterRight ReadsCoherent
PROPERTIES OneGuessPerSeed
CHECK_DEADLOCK FALSE
