SPECIFICATION Spec
CONSTANTS
    a = a
    v1 = v1
    v2 = v2
    v3 = v3
    t1 = t1
    t2 = t2
    Keys = {a}
    Clock = Clock
    Values = {v1, v2, v3}
    Absent = Absent
    ClockMax = 1
    Steps = {1, 2}
    Endpoints = {e1}
    Local = Local
    TypeOf <- MCTypeOf
    NoMeta = NoMeta
    AnyType = AnyType
    SubtreeMeta <- TypedInputs
    Readings <- MCReadings
    Descriptions = {}
    HostMetas = {}
    Updates <- MCUpdatesAndClock
    CallWrites <- MCCalls
    BehaviorWrites <- MCBehavior
    HostWrites <- MCHost
    Messages = {}
    NoError = NoError
    MaxReadings = 1
    MaxEvents = 1
    MaxDescriptions = 0
INVARIANTS HalInformed MirrorsInSync
PROPERTIES ClockForward
