SPECIFICATION Spec
CONSTANTS
    r1 = r1
    r2 = r2
    few = few
    many = many
    failed = failed
    recognised = recognised
    forgotten = forgotten
    transferred = transferred
    retained = retained
    None = None
    Request = {r1}
    Evidence = {few, many, failed, recognised, forgotten, transferred, retained}
    FacetOf <- MCFacetOf
    Grain = 100
    Estimate <- MCEstimate
INVARIANTS
    PersonalizedOnHighConfidence
    DeadCandidates
