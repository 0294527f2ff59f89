SPECIFICATION Spec
CONSTANTS
  Member = {eth, ip}
  Size = 3
  Index <- MCIndex
  Field = {f}
  Value = {0, 1}
  Zero = 0
  Undef = Undef
  MaxCount = 4
  MaxNext = 5
INVARIANTS TypeOK ValidityKnown AtMostOneValid
PROPERTIES VoidWritesHarmless ShiftsKeepOrder
