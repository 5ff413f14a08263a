SPECIFICATION Spec
CONSTANTS
  NFrames = 2
  Files = {f1, f2}
  NFileIds = 2
  Handles = {h1}
  Values = {zero, v}
  Zero = zero
  MaxPages = 2
  UINT_MAX = 2
  MaxIOErrors = 1
  None = None
SYMMETRY Symmetry
INVARIANTS   HeaderCounts
 
