SPECIFICATION FairSpec
CONSTANTS
    a1 = a1
    h1 = h1
    r1 = r1
    t1 = t1
    Tunnels = {t1}
    Agents = {a1}
    Requests = {r1}
    Handlers = {h1}
    None = None
    StatusFields = {"disabled"}
    Deletes = TRUE
    DeviceDeletes = TRUE
    QuotaStops = FALSE
    FaultyDB = FALSE
    PerTunnel = 1
    Global = 1
    AgentSlots = 2
    Crashes = TRUE
PROPERTIES ShutdownCompletes
INVARIANTS ShutdownQuiet
