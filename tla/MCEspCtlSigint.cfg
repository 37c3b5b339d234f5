SPECIFICATION CtlFairSpec
CONSTANTS
    ota_0 = ota_0
    ota_1 = ota_1
    old = old
    new = new
    None = None
    Slots <- MCSlots
    Images <- MCImages
    Size <- MCSize
    First = ota_0
    Factory = old
    Cap = 3
    Unknown = 9
    Totals = {2, 3, 4}
    Chunks = {1, 2}
    MaxBegins = 3
    MaxBoots = 3
    Files <- MCFiles
    ChunkMax = 2
    MaxRuns = 1
    MaxEvents = 2
PROPERTY CtrlCStops
CHECK_DEADLOCK FALSE
