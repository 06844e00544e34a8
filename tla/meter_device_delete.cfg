SPECIFICATION Spec
CONSTANTS
    Tunnels = {t1, t2}
    Nobody = Nobody
    Requests = {r1}
    Patchers = {}
    Chunk = 2
    FlushBytes = 4
    Quotas = {0}
    QuotaFields = {}
    StatusFields = {}
    Limits = {0}
    LastMonth = 1
    MaxTotal = 3
    FaultyDB = FALSE
    DeviceDeletes = TRUE
INVARIANTS DeletesKeepMeterReady
