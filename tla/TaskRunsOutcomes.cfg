SPECIFICATION Spec
CONSTANTS
    f1 = f1
    f2 = f2
    m1 = m1
    m2 = m2
    MaxRuns = 2
    Roots = {x1}
    NoRoot = NoRoot
    Modules = {m1}
    NoModule = NoModule
    Functions = {f1}
    Headers = {}
    Programs <- TwoPrograms
    Edits <- Plain
    Mains = {"fine"}
    Outcomes = {"running", "success", "failure"}
    MayRefuse = TRUE
    MaxCommands = 2
    MaxChanges = 0
INVARIANTS LiveRunsRun
PROPERTIES OutcomeStands
