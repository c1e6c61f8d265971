SPECIFICATION Spec
CONSTANTS
    r1 = r1  r2 = r2  s1 = s1  s2 = s2  s3 = s3  e1 = e1  e2 = e2  x1 = x1  i1 = i1  i2 = i2  i3 = i3  p1 = p1  p2 = p2
    Requests = {r1, r2}
    Sessions = {s1, s2, s3}
    Executions = {e1}
    Absent = Absent
    Text <- SomeText
    MaxTries = 2
    Unlimited = 99
    Passes = {p1, p2}
    Runs <- SomeRuns
    Output <- SomeOutput
    Matches <- SomeMatches
    Nothing = Nothing
    BatchSize = 2
    Forever = 99
    Ids = {i1, i2, i3}
    Void = Void
    PageSize = 2
    Routes = {r1, r2}
    Snapshots <- SomeSnapshots
    RunIds = {1, 2}
    Unset = Unset
    MaxNodes = 50
    MaxChanged = 2
    Scenarios <- AllScenarios
INVARIANTS
    
    LastWishWins
    VerdictIsGrounded
PROPERTIES
    MirrorCatchesUp
    EvidenceArrives
CHECK_DEADLOCK FALSE
