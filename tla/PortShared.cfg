SPECIFICATION TestSpec
CONSTANTS
    a = a
    b = b
    Scripts = {a, b}
    NoSlot = NoSlot
    Slots = {0}
    Tries = 1
    Patience = 1
    Stf <- NoPackets
    Emitted <- MCEmitted
    Killable = {}
    Direct = {a, b}
    OptionSet <- MCOptions
INVARIANT PortsDiffer
CHECK_DEADLOCK FALSE
