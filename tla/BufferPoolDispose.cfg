SPECIFICATION DisposeSpec
CONSTANTS
  NFrames = 3
  Files = {f1, f2}
  NFileIds = 2
  Handles = {h1, h2}
  Values = {zero, v}
  Zero = zero
  MaxPages = 3
  UINT_MAX = 4
  MaxIOErrors = 0
  None = None
INVARIANTS HeldPagesStay
