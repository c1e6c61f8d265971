SPECIFICATION Spec
CONSTANTS
    p1 = p1  p2 = p2  w1 = w1  w2 = w2  j1 = j1  j2 = j2  a1 = a1  a2 = a2  c1 = c1  c2 = c2  o1 = o1  o2 = o2
    t1 = t1  t2 = t2  t3 = t3  v1 = v1  v2 = v2  v3 = v3  d1 = d1  d2 = d2  d3 = d3
    Processes = {p1, p2}
    WorkerIds = {w1, w2}
    Jobs = {j1, j2}
    Gone = Gone
    Always = 99
    Asked = {a1, a2}
    None = None
    RateCap = 2
    QuotaCap = 2
    SwarmCap = 1
    SpendCap = 3
    Caps <- SomeCaps
    Threshold = 1
    Chats = {c1, c2}
    UserCap = 2
    IpCap = 2
    MaxMessages = 2
    Budget = 5
    Estimated = 2
    Most = 3
    Orders = {o1, o2}
    Tiers = {"pro"}
    NoRow = NoRow
    Period = 1
    Terminals = {t1, t2, t3}
    Visits = {v1, v2, v3}
    NoJob = NoJob
    Ceiling = 2
    Slots = 2
    Clients = {d1, d2, d3}
    Readers = {d1, d3}
    Absent = Absent
    Unheld = Unheld
    Nobody = Nobody
    KeptRows = 2
    Page = 1
    Scenarios <- AllScenarios
INVARIANTS
    LedgersAreTrue
    BudgetHolds
    LiveIsListed
    RetryIsOnce
    RowsAreExact
PROPERTIES
    AdmittedIsServed
    
    ReadersCatchUp
CHECK_DEADLOCK FALSE
