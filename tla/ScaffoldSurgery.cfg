SPECIFICATION Spec
CONSTANTS
    m = m
    n = n
    r = r
    x = x
    Ids = {m, r, x}
    FreshIds = {f1, f2, f3}
    Runner = Runner
    NoRoot = NoRoot
    Unbound = Unbound
    Data = Data
    Behaviors <- MCBehaviors
    Fragments <- MCFragments
    Edits <- MCEdits
    Revisions = 3
SYMMETRY Fresh
INVARIANTS TypeOK AnsweredTruly
PROPERTIES RunsLeaveWhole RunsStayPut RevisionTells ChangedNodesRestart
