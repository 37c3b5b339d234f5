SPECIFICATION Spec
CONSTANTS
    ota_0 = ota_0
    ota_1 = ota_1
    old = old
    new = new
    None = None
    Slots <- MCSlots
    Images <- MCImages
    Size <- MCSize
    First = ota_0
    Factory = old
    Cap = 2
    Unknown <- MCUnknown
    Totals <- MCTotals
    Chunks <- MCChunks
    MaxBegins = 2
    MaxBoots = 3
INVARIANT RunsOnlyVerified
CHECK_DEADLOCK FALSE
