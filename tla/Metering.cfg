SPECIFICATION Spec
CONSTANTS
    r1 = r1
    r2 = r2
    r3 = r3
    free = free
    school = school
    ann = ann
    bob = bob
    cyd = cyd
    ollama = ollama
    fallback = fallback
    None = None
    Request = {r1, r2, r3}
    Call <- AllCalls
    PoolSize = 2
    RedisFails = TRUE
    Prefix <- MCPrefix
    RateLimit <- MCRateLimit
    Plan = {free, school}
    DefaultPlan = free
    Limit <- MCLimit
    Email = {ann, bob, cyd}
    Seed = {ann}
    Months = 1
    ProviderName = {ollama, fallback}
    Provider <- MCProvider
    Unchecked = {ollama}
SYMMETRY Symmetry
INVARIANTS
    TypeOK
    OvershootBounded
    AnswersMatchRows
    WithinRate
