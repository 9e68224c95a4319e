SPECIFICATION Spec
CONSTANTS
    m = m
    n = n
    r = r
    x = x
    Ids = {m, n, r}
    FreshIds = {f1, f2, f3}
    Runner = Runner
    NoRoot = NoRoot
    Unbound = Unbound
    Data = Data
    Behaviors <- ChainBehaviors
    Fragments <- ChainFragments
    Edits <- ChainEdits
    Revisions = 3
PROPERTIES RunsLeaveWhole
