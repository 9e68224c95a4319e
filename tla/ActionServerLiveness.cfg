SPECIFICATION FairSpec
CONSTANTS
    g1 = g1
    g2 = g2
    Goals = {g1}
    NoGoal = NoGoal
    Requests = {q1}
    Priority <- MCPriority
    RunWriteSets <- MCProgress
    Wires = {"bound"}
    Capacity = 1
    MaxRuns = 2
    MaxWatch = 1
CHECK_DEADLOCK FALSE
PROPERTIES ResultArrives CancelTakesEffect RetiredEnds
