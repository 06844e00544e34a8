SPECIFICATION FairSpec
CONSTANTS
    a1 = a1
    h1 = h1
    r1 = r1
    t1 = t1
    Tunnels = {t1}
    Agents = {a1}
    Requests = {r1}
    Handlers = {h1}
    None = None
    StatusFields = {"active", "disabled"}
    Deletes = TRUE
    DeviceDeletes = FALSE
    QuotaStops = TRUE
    FaultyDB = TRUE
    PerTunnel = 1
    Global = 1
    AgentSlots = 1
    Crashes = FALSE
PROPERTIES DeleteEnds InactiveDisconnects FailureClosesSessions
