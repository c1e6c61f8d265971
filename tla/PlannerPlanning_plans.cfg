\* Three calls after the methods are registered, two plans, two schedules.
SPECIFICATION Spec
CONSTANTS
    None = None
    t1 = t1
    t2 = t2
    t3 = t3
    r1 = r1
    g1 = g1
    p1 = p1
    MaxCalls = 4
    PlanCalls = 3
    Methods <- PlanMethods
    MaxDepth = 3
    PlanIds = {1, 2}
    Contexts <- PlanContexts
    MaxTasksPerPlan = 6
    MaxGoalsPerPlan = 4
    MaxConstraintsPerPlan = 2
    MaxAlternatives = 1
    SnapshotCapacity = 1
    StrictValidation = FALSE
    ScheduleIds = {1}
    Slots = {1, 2}
    Horizon = 4
    ScheduleCapacity = 1
    Tasks = {t1, t2, t3}
    Goals = {g1}
    Resources = {r1}
    Constraints <- PlanConstraints
    After <- ChainAfter
    Needs <- OneNeeds
    Overdue = {g1}
    ConstraintCapacity = 1
    IndexTasks = {t1, t2}
    IndexGoals = {g1}
    IndexPlans = {p1}
    States = {"pending", "running"}
    Statuses = {"draft", "ready"}
    NewTasks <- PlanTasks
    NewGoals <- PlanGoals
    Environments <- NoEnvironment
    ShiftTargets = {0, 3}
INVARIANTS
    PlansHoldTogether
    
PROPERTIES
    SchedulesAreFeasible
    ViolationsAreExact
CHECK_DEADLOCK FALSE
