CONSTANTS
    Null = Null
    Names <- NoNames
    NameLen <- NoLengths
    Words <- AllWords
    MaxArgs = 6
    CliErrnos = {12, 95}
SPECIFICATION CliSpec
CHECK_DEADLOCK FALSE
INVARIANT ReleasedOnce
