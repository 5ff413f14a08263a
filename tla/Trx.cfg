SPECIFICATION Spec
CONSTANTS
  a = a
  b = b
  s1 = s1
  s2 = s2
  NoRow = NoRow
  Keys <- MCKeys
  Sessions <- MCSessions
  NSlots = 2
  MaxTrxId = 3
  MaxGroup = 2
SYMMETRY Symmetric
INVARIANT TypeOK
INVARIANT IndexSound
PROPERTY IndexKept
