SPECIFICATION Spec
CONSTANTS
    t1 = t1
    t2 = t2
    n = n
    d = d
    Traces = {t1, t2}
    Ids = {n, d}
    Marks = {m}
    Values = {v}
    None = None
    Watches <- MCWatches
    Interval <- MCInterval
    MaxTicks = 3
    MaxEdits = 2
    MaxTime = 1
CHECK_DEADLOCK FALSE
INVARIANTS ReadsTrue
