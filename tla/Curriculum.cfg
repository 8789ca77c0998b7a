SPECIFICATION FairSpec
CONSTANTS
    r1 = r1
    r2 = r2
    r3 = r3
    physics = physics
    motion = motion
    speed = speed
    a = a
    b = b
    c = c
    one = one
    two = two
    None = None
    Request = {r1, r2, r3}
    SeedId = {physics, motion, speed, a, b, c}
    Slug = {one, two, a, b, c}
    Seed <- MCSeed
    Calls <- MCCalls
INVARIANTS
    TypeOK
    CyclesNeedRaces
    SearchDecides
    AnswersMatchRows
    EdgesBelong
PROPERTIES
    EveryCallAnswered
