SPECIFICATION Spec
CONSTANTS
    empty = empty
    short = short
    mid = mid
    full = full
    long = long
    preset = preset
    cut2 = cut2
    cut3 = cut3
    g1 = g1
    g2 = g2
    None = None
    Values <- MCValues
    Generated <- MCGenerated
    Length <- MCLength
    Offered <- MCOffered
    Builds <- MCOneBuild
    Room <- MCRoom
    DriverRoom <- MCDriverRoom
    Cut <- MCCut
    MinToken = 2
    MaxValue = 5
INVARIANT SavedIsUsed
CHECK_DEADLOCK FALSE
