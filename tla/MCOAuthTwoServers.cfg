\* Two processes, with a handler each, and a command on one database; refresh
\* tokens expire.
SPECIFICATION Spec
CONSTANTS
    c1 = c1
    c2 = c2
    h1 = h1
    h2 = h2
    k1 = k1
    s1 = s1
    s2 = s2
    NoClient = NoClient
    Client = {c1, c2}
    Handler = {h1, h2}
    Command = {k1}
    Server = {s1, s2}
    Host <- TwoServers
    AttemptLimit = 1
    RefreshExpires = TRUE
    MaxTxn = 1
    MaxRefresh = 2
    MaxFaults = 0
INVARIANTS
    CredentialStays
    OneChain
    RedeemedOnce
    ServedAsSignedIn
    RevocationErases
    LoginsBounded
PROPERTIES
    GoneIsGone
    Delegates
SYMMETRY Swaps
