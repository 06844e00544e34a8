SPECIFICATION FairSpec
CONSTANTS
    c1 = c1
    c2 = c2
    c3 = c3
    Chunks = {c1, c2, c3}
    Absent = Absent
    Other = Other
    MaxCrashes = 2
    Neighbours = TRUE
INVARIANTS TypeOK BitmapHonest SuccessKeepsData
PROPERTIES PublishedWhole Arrives
CHECK_DEADLOCK FALSE
