SPECIFICATION FairSpec
CONSTANTS
    r1 = r1
    r2 = r2
    r3 = r3
    free = free
    school = school
    ann = ann
    bob = bob
    cyd = cyd
    ollama = ollama
    fallback = fallback
    None = None
    Request = {r1, r2}
    Call <- ExplainCalls
    PoolSize = 2
    RedisFails = TRUE
    Prefix <- ExplainPrefix
    RateLimit <- MCRateLimit
    Plan = {free, school}
    DefaultPlan = free
    Limit <- MCLimit
    Email = {ann}
    Seed = {ann}
    Months = 0
    ProviderName = {ollama, fallback}
    Provider <- MCProvider
    Unchecked = {ollama}
PROPERTY WindowAlwaysEnds
