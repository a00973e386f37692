SPECIFICATION SpecAccounts
CONSTANTS
    u1 = u1
    u2 = u2
    c1 = c1
    c2 = c2
    codex = codex
    router = router
    openai = openai
    m1 = m1
    m2 = m2
    Runs = {u1}
    Probes = {u2}
    Clients = {c1, c2}
    Curators = {c1}
    Vendors <- MCVendors
    Reaches <- MCReaches
    Prefixed = {router}
    AuthKind <- MCAuthKind
    BaseProvider = codex
    DefaultModel <- MCDefault
    MaxToken = 2
    MaxNow = 1
    MaxSets = 1
    MaxFaults = 1
INVARIANTS BetweenRequests
PROPERTIES  RunKeepsItsModel
CHECK_DEADLOCK FALSE
