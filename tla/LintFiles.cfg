SPECIFICATION Spec
CONSTANTS
    Word <- MCWord
    Tree <- MCTree
    HeaderLike = {"h"}
    Arguments <- MCArguments
    Configs <- MCConfigs
INVARIANTS PrintedJustified CountsAgree LintedExactly
CHECK_DEADLOCK FALSE
