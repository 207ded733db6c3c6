\* One call beside one command, of a server with and without a fallback profile
\* or with two users, which may be stopped and started in another way; and two
\* commands at the same time.  The server is stopped or a command killed once,
\* at any point.
SPECIFICATION CommandsSpec
CONSTANTS
    n1 = n1
    n2 = n2
    full = full
    other = other
    readonly = readonly
    u1 = u1
    u2 = u2
    t1 = t1
    t2 = t2
    q1 = q1
    k1 = k1
    k2 = k2
    NoName = NoName
    NoSettings = NoSettings
    NoUser = NoUser
    NoQuery = NoQuery
    Name = {n1, n2}
    Settings = {full, other, readonly}
    Granting = {full, other}
    Command = {k1, k2}
    Written <- ByHand
    MaxFaults = 1
    Call = {t1}
    Modes = {TRUE, FALSE}
    User = {u1, u2}
    UserProfile <- SameDatabase
    Tool = {"operation", "version"}
    Query = {q1}
    TTL = 1
    Delay = 0
    MaxTime = 0
SYMMETRY Exchanges
INVARIANTS
    ActsAsCaller
    FallbackServes
    CallsInductive
    DefaultIsKnown
    SavedStays
