SPECIFICATION Spec
CONSTANTS
    a1 = a1
    a2 = a2
    h1 = h1
    h2 = h2
    r1 = r1
    t1 = t1
    Tunnels = {t1}
    Agents = {a1, a2}
    Requests = {r1}
    Handlers = {h1, h2}
    None = None
    StatusFields = {"active", "disabled"}
    Deletes = TRUE
    DeviceDeletes = FALSE
    QuotaStops = TRUE
    FaultyDB = FALSE
    PerTunnel = 1
    Global = 1
    AgentSlots = 2
    Crashes = FALSE
SYMMETRY Symmetry
INVARIANTS TypeOK EverySessionOwned SessionsJustified
PROPERTIES DeleteDrained
