SPECIFICATION TestSpec
CONSTANTS
    a = a
    b = b
    Scripts = {a, b}
    NoSlot = NoSlot
    Slots = {0}
    Tries = 1
    Patience = 1
    Stf <- MCStf
    Emitted <- MCEmitted
    Killable = {b}
    Direct = {b}
    OptionSet <- MCOptions
INVARIANTS TypeOK LockOwner NoFifoDeadlock CommandsFirst VerdictSound SwitchStopped
PROPERTY TestEnds
CHECK_DEADLOCK FALSE
