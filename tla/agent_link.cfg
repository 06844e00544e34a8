SPECIFICATION FairSpec
CONSTANTS
    t1 = t1
    web = web
    api = api
    lan = lan
    r1 = r1
    r2 = r2
    l1 = l1
    l2 = l2
    Tunnels = {t1}
    Targets = {web, api, lan}
    Allowed = {web, api}
    Runs = {r1, r2}
    Links = {l1, l2}
    None = None
    AgentSlots = 2
    MaxEdits = 2
    MaxFaults = 2
INVARIANTS TypeOK RunsTracked
PROPERTIES Settles
