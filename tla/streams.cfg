SPECIFICATION FairSpec
CONSTANTS
    r1 = r1
    r2 = r2
    s1 = s1
    s2 = s2
    Requests = {r1, r2}
    Sessions = {s1, s2}
    None = None
    PerSession = 1
    Total = 1
INVARIANTS TypeOK StreamsBounded
PROPERTIES AbandonedStreamsEnd
