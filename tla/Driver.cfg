SPECIFICATION FairSpec
CONSTANTS
    Packs = 3
    Parsable = {0, 2}
    Paths <- MCPaths
    MaxArgs = 4
INVARIANTS
    NoThreadOutlivesRun
    SignaturesWhole
    ExitTellsReport
PROPERTIES
    Exits
