\* Profile commands one after the other; copies and links of skills, with a
\* failure; three processes that start together, two of them killed; every
\* combination of the options of `serve`.
SPECIFICATION HostSpec
CONSTANTS
    n1 = n1
    n2 = n2
    n3 = n3
    k1 = k1
    k2 = k2
    full = full
    readonly = readonly
    NoName = NoName
    NoSettings = NoSettings
    Name = {n1, n2, n3}
    Settings = {full, readonly}
    Granting = {full}
    Command = {k1}
    Written <- ByHand
    MaxFaults = 0
    codex = codex
    agents = agents
    agy = agy
    claude = claude
    shared = shared
    tree = tree
    flat = flat
    legacy = legacy
    cli = cli
    reports = reports
    json = json
    other = other
    Flat = {codex, agents}
    Plugin = {agy}
    Place = {shared, tree, flat, legacy}
    PlaceOf <- DirectoryOf
    Legacy = legacy
    Claude = claude
    Skill = {cli, reports}
    Marker = cli
    Manifest = json
    Foreign = {other}
    Bundle <- TwoVersions
    Installer = {"editable", "uv-tool", "uvx", "pipx", "uv-venv", "pip"}
    Symlinks = TRUE
    MaxFailures = 1
    p1 = p1
    p2 = p2
    p3 = p3
    Process = {p1, p2, p3}
    MaxKeys = 3
    MaxKills = 2
    Careful = TRUE
    PathName = {"mcp", "odoo"}
    NoPathName = ""
    DefaultName = "mcp"
INVARIANTS
    EditKeepsProfile
    RefreshedIsCurrent
    UpgradeRefreshes
    SecretsSurvive
    HostSound
PROPERTIES
    KeepsRegistry
    ForeignSurvives
    StartsRecover
    AdviceHelps
