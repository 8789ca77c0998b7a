SPECIFICATION Spec
CONSTANTS
    r1 = r1
    r2 = r2
    r3 = r3
    r4 = r4
    laptop = laptop
    ann = ann
    bob = bob
    sesame = sesame
    changed = changed
    s1 = s1
    s2 = s2
    t1 = t1
    None = None
    Request = {r1, r2, r3, r4}
    Browser = {laptop}
    Email = {ann, bob}
    Password = {sesame, changed}
    SeedSession = {s1, s2}
    SeedToken = {t1}
    User = ann
    FirstPassword = sesame
    SeedCookie <- MCSeedCookie
    Expirable = {s1, t1}
    Calls <- MCCalls
SYMMETRY Symmetry
INVARIANTS
    TypeOK
    ResetEndsSessions
    CookieLive
PROPERTIES
    RotatedWhileValid
    ResetWhileUnused
