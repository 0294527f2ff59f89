SPECIFICATION Spec
CONSTANTS
    Sources = {"a/p", "b/p"}
    Requests <- MCRequests
    Environments <- MCEnvironments
    SiteTargets <- MCSiteTargets
    LoadOrders <- MCLoadOrders
    Codes <- MCCodes
    MaxRuns = 2
    MaxVersion = 1
INVARIANTS EndsAsItsCommands
PROPERTIES CompiledThisRun LanguagesAgree CleanedAfterUse
CHECK_DEADLOCK FALSE
