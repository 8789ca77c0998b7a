SPECIFICATION Spec
CONSTANTS
    ann = ann
    k1 = k1
    q1 = q1
    q2 = q2
    q3 = q3
    many = many
    failed = failed
    None = None
    Grain = 100
    Horizon = 2
    Series = {many, failed}
    Right <- MCRight
    Wrong <- MCWrong
    TakenBy <- MCTakenBy
    Asked <- MCAsked
    Student = {ann}
    Skill = {k1}
    Linked = {ann}
    Question = {q1, q2, q3}
    FacetOf <- MCFacetOf
    Difficulty <- MCDifficulty
    CheckpointDays = {14}
    MaxDecisions = 2
    Mode <- MCMode
    OldQuestions <- MCOldQuestions
    MaxRaces = 1
INVARIANTS
    TypeOK
    CausesStayVisible
    AdminCountsAgree
    PageIsCurrent
    NoNeedlessRepeat
    EasiestFirst
    ImprovementExplained
PROPERTIES
    FadesTowardsDoubt
