SPECIFICATION FairSpec
CONSTANTS
    a = a
    n16 = n16
    n17 = n17
    Null = Null
    Names <- BoundaryNames
    NameLen <- Lengths
    Formats = {1}
    BadFormats = {9}
    EpIds <- BoundaryEps
    Modes = {2, 3}
    VndIds = {0}
    Flows = {0}
    Sizes = {0, 15}
    KernelErrs = {9}
    Faults = {"memory", "send", "recv"}
    MaxCalls = 3
    MaxOpens = 1
INVARIANTS
    TypeOK
    OwnAnswer
    SameKind
    EndpointNamesWhole
PROPERTIES
    CallReturns
