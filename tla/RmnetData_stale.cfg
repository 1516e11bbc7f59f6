CONSTANTS
    a = a
    n16 = n16
    n17 = n17
    Null = Null
    Names <- OneName
    NameLen <- Lengths
    Formats = {}
    BadFormats = {}
    EpIds = {}
    Modes = {}
    VndIds = {0}
    Flows = {}
    Sizes = {32}
    KernelErrs = {9}
    Faults = {"recv"}
    MaxCalls = 3
    MaxOpens = 1
SPECIFICATION Spec
INVARIANT SuccessMeansDone

