SPECIFICATION Spec
CONSTANTS
    g1 = g1
    g2 = g2
    Goals = {g1, g2}
    NoGoal = NoGoal
    Requests = {q1}
    Priority <- MCPriority
    RunWriteSets <- MCWrites
    Wires = {"synthesised", "bound"}
    Capacity = 1
    MaxRuns = 2
    MaxWatch = 1
CHECK_DEADLOCK FALSE
INVARIANTS OneRunAtATime NoLateFeedback StatusTold OutcomeOnItsWay HaltedIsStopped
    ResultsKept NoStaleSpawn
PROPERTIES ServesGoals
