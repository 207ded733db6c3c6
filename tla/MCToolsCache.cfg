\* Two threads, the metadata of two profiles, and the clock.
SPECIFICATION CacheSpec
CONSTANTS
    n1 = n1
    n2 = n2
    full = full
    other = other
    readonly = readonly
    u1 = u1
    u2 = u2
    t1 = t1
    t2 = t2
    q1 = q1
    k1 = k1
    NoName = NoName
    NoSettings = NoSettings
    NoUser = NoUser
    NoQuery = NoQuery
    Name = {n1, n2}
    Settings = {full, readonly}
    Granting = {full, readonly}
    Command = {}
    Written <- AllGranted
    MaxFaults = 0
    Call = {t1, t2}
    Modes = {FALSE}
    User = {}
    UserProfile <- NoUserProfiles
    Tool = {"metadata"}
    Query = {q1}
    TTL = 2
    Delay = 1
    MaxTime = 4
SYMMETRY Swaps
INVARIANTS
    AnswersAreOwn
    AnswersAreFresh
