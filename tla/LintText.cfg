SPECIFICATION Spec
CONSTANT Texts <- MCTexts
INVARIANTS CodeRemains BracketsMatch
CHECK_DEADLOCK FALSE
