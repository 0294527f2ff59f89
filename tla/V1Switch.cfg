SPECIFICATION FairSpec
CONSTANTS
  Header = {eth, ip}
  eth = eth
  ip = ip
  zero = zero
  a1 = a1
  a2 = a2
  a3 = a3
  b1 = b1
  b2 = b2
  Cuts <- MCCuts
  Bit <- MCBit
  Fresh = {zero}
  Port = {0, 1}
  Wildcard = Wildcard
  Error = {"PacketTooShort", "StackOutOfBounds"}
  NoError = "NoError"
  NoObject = NoObject
  Scripts <- MCScripts
  MaxEmitted = 4
INVARIANTS TypeOK ParsedPrefix AllAccountedFor VerdictSound
PROPERTIES Forwards RunEnds
