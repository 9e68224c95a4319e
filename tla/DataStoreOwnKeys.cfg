SPECIFICATION FairSpec
CONSTANTS
    k1 = k1
    k2 = k2
    k3 = k3
    v1 = v1
    v2 = v2
    w1 = w1
    w2 = w2
    Keys = {k1, k2, k3}
    Values = {v1, v2}
    Absent = Absent
    Writers = {w1, w2}
    Subscribers = {s1}
    Prefixes <- MCPrefixes
    Batches <- OwnBatches
    Slots <- OwnSlots
    MaxWrites = 3
INVARIANTS StaysCurrent
PROPERTIES EventuallyCurrent
CHECK_DEADLOCK FALSE
