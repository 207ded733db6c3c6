\* A handler and a command, scheduled fairly, beside a second handler of the same
\* process or beside a fault.
SPECIFICATION FairSpec
CONSTANTS
    c1 = c1
    c2 = c2
    h1 = h1
    h2 = h2
    k1 = k1
    s1 = s1
    s2 = s2
    NoClient = NoClient
    Client = {c1}
    Handler = {h1, h2}
    Command = {k1}
    Server = {s1}
    Host <- OneServer
    AttemptLimit = 2
    RefreshExpires = FALSE
    MaxTxn = 1
    MaxRefresh = 2
    MaxFaults = 1
ACTION_CONSTRAINT FaultsAlone
INVARIANTS
    ServerInductive
PROPERTIES
    TaskEnds
    RevocationCompletes
