SPECIFICATION FairSpec
CONSTANTS
    Tunnels = {t1, t2}
    Nobody = Nobody
    Requests = {r1, r2}
    Patchers = {}
    Chunk = 2
    FlushBytes = 4
    Quotas = {3}
    QuotaFields = {}
    StatusFields = {}
    Limits = {0, 4}
    LastMonth = 1
    MaxTotal = 3
    FaultyDB = TRUE
    DeviceDeletes = FALSE
INVARIANTS SharedBooks
PROPERTIES SharedNeverOverspent LedgerRefined DirtyFlushed
