SPECIFICATION FairSpec
CONSTANTS
    f1 = f1
    f2 = f2
    m1 = m1
    m2 = m2
    MaxRuns = 2
    Roots = {x1}
    NoRoot = NoRoot
    Modules = {m1}
    NoModule = NoModule
    Functions = {f1}
    Headers = {}
    Programs <- NodePrograms
    Edits = {}
    Mains = {"fine", "failing", "unlowerable"}
    Outcomes = {"running", "success", "failure", "error"}
    MayRefuse = TRUE
    MaxCommands = 1
    MaxChanges = 0
INVARIANTS RunsFollowed
PROPERTIES HaltsTakeEffect
