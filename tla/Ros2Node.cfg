SPECIFICATION Spec
CONSTANTS
    t1 = t1
    t2 = t2
    t3 = t3
    routed = routed
    whole = whole
    v1 = v1
    v2 = v2
    w = w
    Keys = {1, 2, 3}
    Values = {v1, v2, w}
    Topics = {t1, t2, t3}
    Inputs = {1, 2}
    KeyTopic <- MCKeyTopic
    ScalarTopic <- MCKeyTopic
    Outputs = {routed, whole}
    Routes <- MCRoutes
    Whole = {whole}
    MsgKind <- MCMsgKind
    Json = "Json"
    Fits <- MCFits
    Encodes <- MCEncodes
    OutTopic <- MCOutTopic
    TypedTopics = {}
    Skills = {t3}
    None = None
    Unset = Unset
    MaxWrites = 2
    MaxAsks = 4
SYMMETRY Symmetry
CHECK_DEADLOCK FALSE
INVARIANTS NoEcho FirstKeyHasTopic NewestPublished NewestComposed NoLostWake OneTaskPerSkill SkillsServed
