SPECIFICATION SerialSpec
CONSTANTS
  a = a
  b = b
  s1 = s1
  s2 = s2
  NoRow = NoRow
  Keys <- MCKeys
  Sessions <- MCSessions
  NSlots = 3
  MaxTrxId = 4
  MaxGroup = 2
INVARIANT ReadersMissNothing
INVARIANT NoMarksAtRest
PROPERTY ImplementsAtomicTable
