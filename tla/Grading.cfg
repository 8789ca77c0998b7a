SPECIFICATION Spec
CONSTANTS
    s1 = s1
    k1 = k1
    qA = qA
    qO = qO
    qR = qR
    a1 = a1
    a2 = a2
    r1 = r1
    r2 = r2
    r3 = r3
    r4 = r4
    None = None
    Request = {r1, r2, r3}
    Student = {s1}
    Skill = {k1}
    Question = {qA, qO, qR}
    SkillOf <- MCSkillOf
    FacetOf <- MCFacetOf
    Gradable = {qA, qR}
    Key = {a1, a2}
    Calls <- GradingCalls
    InsufficientThreshold = 8
    LowThreshold = 10
    MayCrash = TRUE
SYMMETRY Symmetry
INVARIANTS
    TypeOK
    EvaluationPublishedWhole
    GradedExactlyOnce
    ScheduledOnHighConfidence
    CacheRestsOnEvidence
    VerdictIsDecided
    AcknowledgedIsDurable
PROPERTIES
    HistoryKept
