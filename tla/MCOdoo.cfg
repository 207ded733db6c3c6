\* Sign-ins and tool calls with every profile on an unreliable network; pages
\* of two, while records are created and deleted; every way to name a report,
\* while Odoo is upgraded.
SPECIFICATION OdooSpec
CONSTANTS
    Major = {7, 18, 19}
    Method <- Methods
    Instance = {"action"}
    Parameters <- ParametersOf
    Known = {"search_read"}
    Table <- TableOf
    Name = {"ids", "domain", "fields"}
    Made <- MadeNames
    MaxArgs = 2
    MaxRequests = 2
    Attempts = 3
    CallProfile <- ProfilesOfTools
    First = 4
    Last = 6
    Limit = 2
    Deletes = TRUE
    Report = {"balance", "balance_mx"}
    Variant <- MCVariant
    Versions = {16, 17, 18, 19}
    RefKinds = {"id", "missing_id", "xmlid", "other_case", "dotted_name", "nothing"}
    Formats = {"json", "compact", "pdf"}
INVARIANTS
    RepeatedOnlyIfDropped
    ArgumentsInPlace
    AcceptedIsProved
    RefusedForCause
    NothingMissed
    RightReport
    ComputedAgainForCause
    OdooSound
PROPERTIES
    WorkEnds
