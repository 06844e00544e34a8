SPECIFICATION Spec
CONSTANTS
    Tunnels = {t1}
    Nobody = Nobody
    Requests = {r1, r2}
    Patchers = {}
    Chunk = 2
    FlushBytes = 4
    Quotas = {5}
    QuotaFields = {}
    StatusFields = {}
    Limits = {0}
    LastMonth = 2
    MaxTotal = 6
    FaultyDB = TRUE
    DeviceDeletes = TRUE
SYMMETRY Symmetry
INVARIANTS TypeOK ReservationsMatchIO LedgerMatchesRows CrashLossBounded ExhaustedIsStopped
PROPERTIES QuotaNeverOverspent
