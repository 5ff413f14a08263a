SPECIFICATION RollbackSpec
CONSTANTS
  a = a
  b = b
  s1 = s1
  s2 = s2
  NoRow = NoRow
  Keys <- MCKeys
  Sessions <- OneSession
  NSlots = 2
  MaxTrxId = 3
  MaxGroup = 2
PROPERTY RollbackRestores
