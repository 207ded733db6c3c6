\* Two users of one database ask for the same metadata.
SPECIFICATION Spec
CONSTANTS
    n1 = n1
    n2 = n2
    full = full
    other = other
    readonly = readonly
    u1 = u1
    u2 = u2
    t1 = t1
    t2 = t2
    q1 = q1
    k1 = k1
    NoName = NoName
    NoSettings = NoSettings
    NoUser = NoUser
    NoQuery = NoQuery
    Name = {n1, n2}
    Settings = {full, other, readonly}
    Granting = {full, other}
    Command = {}
    Written <- AllGranted
    MaxFaults = 0
    Call = {t1}
    Modes = {TRUE}
    User = {u1, u2}
    UserProfile <- SameDatabase
    Tool = {"metadata"}
    Query = {q1}
    TTL = 1
    Delay = 0
    MaxTime = 0
INVARIANTS
    AnswersAreOwn
