SPECIFICATION Spec
CONSTANTS
  a = a
  b = b
  g = g
  h = h
  Var = {x}
  Action = {a, b}
  Function = {g, h}
  Dir <- MCDir
  Value = {0, 1}
  Zero = 0
  Absent = Absent
  BadLvalue = BadLvalue
  NoTarget = NoTarget
  MaxDepth = 2
  MaxExt = 1
INVARIANTS TypeOK
PROPERTIES CopiesInAndOut ExitIsFinal
