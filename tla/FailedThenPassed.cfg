CONSTANTS
    CodeBits = {0, 1, 2}
    Codes <- MCCodes
    MaxDtcs = 2
    Snapshots = {s1, s2}
    NoSnapshot = NoSnapshot
    StatusMasks <- MCStatusMasks
    ReportRoom = {3, 6, 7, 8, 11}
SPECIFICATION DtcSpec
INVARIANT CycleFailuresKept
