\* Three calls on a memory of a chain of duplicates, five on the reasoner, seven on the agent.
SPECIFICATION Spec
CONSTANTS
    None = None
    s1 = s1
    s2 = s2
    MaxEntries = 4
    CacheSize = 1
    SnapshotLimit = 1
    WorkingTTL = 0
    ShortTermTTL = 0
    LongTermTTL = 2
    ArchiveAfter = 1
    DeleteAfter = 2
    Rules <- SomeRules
    DisabledCategories = {"ROLLBACK"}
    MinimumConfidence = 65
    MaxPerRule = 2
    StrictMode = FALSE
    MaxEvidence = 7
    Unit = 12
    SessionIds = {s1}
    Requests <- SomeRequests
    MinimumLevel = 2
    HaltOnBlocking = TRUE
    Loaded <- ChainOnly
    NewEntries <- TwinEntries
    Changes <- SomeChanges
    EvidenceNodes <- SomeEvidence
    EvidenceEdges <- SomeEdges
    MemoryCalls = 3
    ReasoningCalls = 5
    AgentCalls = 7
INVARIANTS
    ContradictionsAreExact
PROPERTIES
    ConsolidationKeepsOne
    PlansAreApproved
CHECK_DEADLOCK FALSE
