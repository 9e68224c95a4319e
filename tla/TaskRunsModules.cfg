SPECIFICATION Spec
CONSTANTS
    f1 = f1
    f2 = f2
    m1 = m1
    m2 = m2
    MaxRuns = 2
    Roots = {x1}
    NoRoot = NoRoot
    Modules = {m1, m2}
    NoModule = NoModule
    Functions = {f1, f2}
    Headers <- TwoModules
    Programs <- FunctionPrograms
    Edits = {}
    Mains = {"fine"}
    Outcomes = {"running", "success"}
    MayRefuse = FALSE
    MaxCommands = 1
    MaxChanges = 2
INVARIANTS NoStaleCommand
PROPERTIES CallersHalted
