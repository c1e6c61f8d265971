CONSTANTS
    w1 = w1
    w2 = w2
    Workers = {w1, w2}
    None = None
    Scenarios <- WorkScenarios
SPECIFICATION SessionsSpec

    
    
PROPERTIES
    ShellEnds
CHECK_DEADLOCK FALSE
