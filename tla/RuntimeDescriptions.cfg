SPECIFICATION FairSpec
CONSTANTS
    a = a
    v1 = v1
    v2 = v2
    v3 = v3
    t1 = t1
    t2 = t2
    Keys = {a}
    Clock = Clock
    Values = {v1, v2, v3}
    Absent = Absent
    ClockMax = 0
    Steps = {1}
    Endpoints = {e1}
    Local = Local
    TypeOf <- MCTypeOf
    NoMeta = NoMeta
    AnyType = AnyType
    SubtreeMeta <- TypedInputs
    Readings = {}
    Descriptions <- HalOpens
    HostMetas <- HostOpens
    Updates <- WrongType
    CallWrites <- None
    BehaviorWrites <- None
    HostWrites = {}
    Messages = {m1}
    NoError = NoError
    MaxReadings = 0
    MaxEvents = 1
    MaxDescriptions = 2
INVARIANTS DescribedFirst HostMetaKept TypedKeysConform
PROPERTIES CommandsAnswered
