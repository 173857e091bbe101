CONSTANTS
    Wrap = 8
    Timeouts = {0, 1, 3, 7}
    Period = 3
    LastMs = 17
    Secrets <- MCSecrets
    LfsrSeeds <- MCLfsrSeeds
    MaxSeeds = 12
    DataBytes <- MCDataBytes
    MaxData = 4
    Ids <- MCIds
    Masks <- MCMasks
    Lengths = {8}
    NoFrame = NoFrame
    Readable = {"short", "long"}
    Writable = {"short", "locked"}
    DidUnknown = "unknown"
    DataLength <- MCDataLength
    Values = {v1, v2}
    FirstValue = v1
    Room = 7
    MaxDids = 3
    ByteBase = 2
    WordBytes = 3
    Header = 1
    Formats <- MCFormats
    Cells = 3
SPECIFICATION LibrarySpec
INVARIANT StandardFilterOnly
CHECK_DEADLOCK FALSE
