SPECIFICATION Spec
CONSTANTS
    NoLength = NoLength
    Tables <- MCTables
    Lines <- MCLines
INVARIANT EntriesAsWritten
CHECK_DEADLOCK FALSE
