SPECIFICATION Spec
CONSTANTS
    NoHeader = NoHeader
    Files <- MCFiles
    Trigger = 1
INVARIANTS FirstBranchesCount IncludesRemembered OrderJustified
    FunctionsMeasured NolintHonoured
CHECK_DEADLOCK FALSE
