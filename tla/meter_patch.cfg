SPECIFICATION Spec
CONSTANTS
    Tunnels = {t1}
    Nobody = Nobody
    Requests = {r1}
    Patchers = {p1, p2}
    Chunk = 2
    FlushBytes = 3
    Quotas = {2}
    QuotaFields = {{1}, {4}}
    StatusFields = {"keep", "active", "disabled"}
    Limits = {0}
    LastMonth = 1
    MaxTotal = 4
    FaultyDB = TRUE
    DeviceDeletes = FALSE
SYMMETRY Symmetry
INVARIANTS QuotaCoherent WarnedOnce
PROPERTIES StopJustified
