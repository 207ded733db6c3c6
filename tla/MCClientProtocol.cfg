\* A user of an XML-RPC server signs in.
SPECIFICATION Spec
CONSTANTS
    Major = {7, 18, 19}
    Method <- Methods
    Instance = {"action"}
    Parameters <- ParametersOf
    Known = {"search_read"}
    Table <- TableOf
    Name = {"ids", "domain", "fields"}
    Made <- MadeNames
    MaxArgs = 2
    MaxRequests = 2
    Attempts = 3
    CallProfile <- ProfilesOfTools
INVARIANTS
    ProtocolResolved
